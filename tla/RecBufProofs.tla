---------------------------- MODULE RecBufProofs ----------------------------
(***************************************************************************)
(* The text buffers stay within what is allocated for them, for every      *)
(* initial size and however much is recorded.                              *)
(***************************************************************************)
EXTENDS RecBuf, MinFacts, SequenceTheorems

(* Doubling, which is defined by recursion: the least number of doublings   *)
(* for which a claim about it fails is not 0, and not one more than another.*)

\* d[k] is sz doubled k times, as the definition of DoubledTo has it.
DoublingOf(d, sz, n) == d = [k \in 0..n |-> IF k = 0 THEN sz ELSE 2 * d[k-1]]

\* The equations of such a function.
Equations(d, sz, n) == d[0] = sz /\ \A k \in 1..n : d[k] = 2 * d[k-1]

\* Such a function satisfies them.
LEMMA DoublingEquations ==
  ASSUME NEW d, NEW sz, NEW n \in Nat, DoublingOf(d, sz, n)
  PROVE  Equations(d, sz, n)
<1> DEFINE g == [k \in 0..n |-> IF k = 0 THEN sz ELSE 2 * d[k-1]]
<1>1. d = g
  BY Zenon DEF DoublingOf
<1>2. 0 \in 0..n /\ \A k \in 1..n : k \in 0..n /\ k # 0
  OBVIOUS
<1>3. g[0] = sz /\ \A k \in 1..n : g[k] = 2 * d[k-1]
  BY <1>2, Zenon
<1>4. QED
  BY <1>1, <1>3, Zenon DEF Equations

\* There is one for every number of doublings.
LEMMA DoublingExists ==
  ASSUME NEW sz, NEW n \in Nat
  PROVE  \E d : DoublingOf(d, sz, n)
<1> DEFINE S == {m \in Nat : ~ \E d : DoublingOf(d, sz, m)}
<1>1. SUFFICES ASSUME S # {} PROVE FALSE
  BY Zenon
<1>2. PICK m \in S : \A k \in S : m <= k
  BY <1>1, MinMember, Zenon
<1>3. CASE m = 0
  <2> DEFINE d == [k \in 0..m |-> sz]
  <2>1. \A k \in 0..m : k = 0
    BY <1>3
  <2>2. [k \in 0..m |-> IF k = 0 THEN sz ELSE 2 * d[k-1]] = d
    BY <2>1, Zenon
  <2>3. QED
    BY <1>2, <2>2, Zenon DEF DoublingOf
<1>4. CASE m # 0
  <2> DEFINE p == m - 1
  <2>1. p \in Nat /\ ~ (m <= p)
    BY <1>2, <1>4
  <2>2. p \notin S
    BY <1>2, <2>1, Zenon
  <2>3. PICK g : DoublingOf(g, sz, p)
    BY <2>1, <2>2, Zenon
  <2>4. g[0] = sz /\ \A k \in 1..p : g[k] = 2 * g[k-1]
    <3> HIDE DEF p
    <3>1. Equations(g, sz, p)
      BY <2>1, <2>3, DoublingEquations, Zenon
    <3>2. QED
      BY <3>1, Zenon DEF Equations
  <2> DEFINE F(h) == [k \in 0..m |-> IF k = 0 THEN sz ELSE 2 * h[k-1]]
             d == F(g)
  <2>5. \A k \in 0..m : k # 0 => k - 1 \in 0..m /\ (k - 1 = 0 \/ k - 1 \in 1..p)
    BY <2>1
  <2>6. \A k \in 0..m : k # 0 => d[k-1] = g[k-1]
    BY <2>4, <2>5, Zenon
  <2>7. F(d) = d
    <3> DEFINE e(h, k) == IF k = 0 THEN sz ELSE 2 * h[k-1]
    <3> HIDE DEF d
    <3>1. \A k \in 0..m : e(d, k) = e(g, k)
      BY <2>6, Zenon
    <3> HIDE DEF e
    <3>2. [k \in 0..m |-> e(d, k)] = [k \in 0..m |-> e(g, k)]
      BY <3>1, Zenon
    <3>3. QED
      BY <3>2, Zenon DEF e, d
  <2>8. QED
    BY <1>2, <2>7, Zenon DEF DoublingOf
<1>5. QED
  BY <1>3, <1>4, Zenon

\* A size that is doubled k times is at least what it was, and more than k.
LEMMA DoublingGrows ==
  ASSUME NEW d, NEW sz \in Nat, sz > 0, NEW n \in Nat, DoublingOf(d, sz, n)
  PROVE  \A k \in 0..n : d[k] \in Nat /\ d[k] >= sz /\ d[k] > k
<1> DEFINE Grown(k) == d[k] \in Nat /\ d[k] >= sz /\ d[k] > k
           S == {k \in 0..n : ~ Grown(k)}
<1>1. SUFFICES ASSUME S # {} PROVE FALSE
  BY <1>1, Zenon
<1>2. S \in SUBSET Nat
  OBVIOUS
<1>3. PICK k \in S : \A j \in S : k <= j
  BY <1>1, <1>2, MinMember, Zenon
<1>4. Equations(d, sz, n)
  BY DoublingEquations, Zenon
<1>5. d[0] = sz /\ \A j \in 1..n : d[j] = 2 * d[j-1]
  BY <1>4, Zenon DEF Equations
<1>6. k \in 0..n /\ ~ Grown(k)
  BY <1>3, Zenon
<1>7. k # 0
  BY <1>5, <1>6
<1>8. k \in 1..n /\ k - 1 \in 0..n /\ ~ (k <= k - 1)
  BY <1>6, <1>7
<1>9. Grown(k - 1)
  <2> HIDE DEF Grown
  <2>1. QED
    BY <1>3, <1>8, Zenon
<1>10. d[k] = 2 * d[k-1]
  BY <1>5, <1>8, Zenon
<1>11. QED
  BY <1>6, <1>8, <1>9, <1>10

\* growbuf makes enough room, and never takes any away.
LEMMA DoubledEnough ==
  ASSUME NEW sz \in Nat, sz > 0, NEW n \in Nat
  PROVE  DoubledTo(sz, n) \in Nat /\ DoubledTo(sz, n) >= sz /\ DoubledTo(sz, n) >= n
<1> DEFINE d == CHOOSE g : DoublingOf(g, sz, n)
           S == {d[k] : k \in 0..n} \ 0..n-1
<1>1. DoubledTo(sz, n) = Min(S)
  BY Zenon DEF DoubledTo, DoublingOf
<1>2. DoublingOf(d, sz, n)
  BY DoublingExists, Zenon
<1>3. \A k \in 0..n : d[k] \in Nat /\ d[k] >= sz /\ d[k] > k
  <2> HIDE DEF d
  <2>1. QED
    BY <1>2, DoublingGrows, Zenon
<1> HIDE DEF d
<1>4. S \in SUBSET Nat /\ d[n] \in S
  BY <1>3
<1>5. Min(S) \in S
  <2> HIDE DEF S
  <2>1. QED
    BY <1>4, MinMember, Zenon
<1>6. QED
  BY <1>1, <1>3, <1>5
-----------------------------------------------------------------------------
(* What the operations do to a buffer *)

\* A buffer that is within what is allocated for it, and is terminated.
Sound == {buf \in [sz : Nat, cnt : Nat, mem : Seq(Byte)] :
            /\ Len(buf.mem) <= buf.sz
            /\ buf.cnt < Len(buf.mem) /\ buf.mem[buf.cnt + 1] = NUL}

\* A buffer with text in the first cnt bytes of its memory.
LEMMA MakeSound ==
  ASSUME NEW sz \in Nat, NEW cnt \in Nat, NEW mem \in Seq(Byte),
         Len(mem) <= sz, cnt < Len(mem), mem[cnt + 1] = NUL
  PROVE  [sz |-> sz, cnt |-> cnt, mem |-> mem] \in Sound
  BY DEF Sound

\* The terminator is a byte.
LEMMA NulIsByte == NUL \in Byte
  BY DEF Byte

\* Concatenation, byte by byte.
LEMMA Joined ==
  ASSUME NEW s \in Seq(Byte), NEW t \in Seq(Byte)
  PROVE  /\ s \o t \in Seq(Byte) /\ Len(s \o t) = Len(s) + Len(t)
         /\ \A k \in 1..Len(s) : (s \o t)[k] = s[k]
         /\ \A k \in 1..Len(t) : (s \o t)[Len(s) + k] = t[k]
  OBVIOUS

\* Concatenation is associative.
LEMMA Grouped ==
  ASSUME NEW s \in Seq(Byte), NEW t \in Seq(Byte), NEW u \in Seq(Byte)
  PROVE  (s \o t) \o u = s \o (t \o u)
  BY ConcatAssociative

\* Two bytes, one after the other.
LEMMA TwoBytes ==
  ASSUME NEW c \in Byte, NEW d \in Byte
  PROVE  <<c>> \o <<d>> = <<c, d>>
<1> DEFINE s == <<c>>
           t == <<d>>
           u == <<c, d>>
<1>1. /\ s \in Seq(Byte) /\ Len(s) = 1 /\ s[1] = c
      /\ t \in Seq(Byte) /\ Len(t) = 1 /\ t[1] = d
      /\ u \in Seq(Byte) /\ Len(u) = 2 /\ u[1] = c /\ u[2] = d
  OBVIOUS
<1> HIDE DEF s, t, u
<1>2. s \o t \in Seq(Byte) /\ Len(s \o t) = 2 /\ (s \o t)[1] = c /\ (s \o t)[2] = d
  <2>1. /\ s \o t \in Seq(Byte) /\ Len(s \o t) = Len(s) + Len(t)
        /\ (s \o t)[1] = s[1] /\ (s \o t)[Len(s) + 1] = t[1]
    <3>1. 1 \in 1..Len(s) /\ 1 \in 1..Len(t)
      BY <1>1
    <3>2. QED
      BY <1>1, <3>1, Joined, ZenonT(30)
  <2>2. Len(s) + Len(t) = 2 /\ Len(s) + 1 = 2
    BY <1>1
  <2>3. QED
    BY <1>1, <2>1, <2>2, Zenon
<1>3. s \o t = u
  <2>1. \A k \in 1..2 : k = 1 \/ k = 2
    OBVIOUS
  <2>2. \A k \in 1..2 : (s \o t)[k] = u[k]
    BY <1>1, <1>2, <2>1, Zenon
  <2>3. QED
    BY <1>1, <1>2, <2>2, SeqEqual
<1>4. QED
  BY <1>3 DEF s, t, u

\* memcpy makes the memory that has been written longer only if it has to, and
\* what was copied is where it was copied to.
LEMMA Written ==
  ASSUME NEW mem \in Seq(Byte), NEW i \in 0..Len(mem), NEW s \in Seq(Byte)
  PROVE  /\ WriteAt(mem, i, s) \in Seq(Byte)
         /\ Len(WriteAt(mem, i, s)) = IF i + Len(s) > Len(mem) THEN i + Len(s) ELSE Len(mem)
         /\ \A k \in 1..Len(s) : WriteAt(mem, i, s)[i + k] = s[k]
<1> DEFINE a == SubSeq(mem, 1, i)
           n == i + Len(s) + 1
           c == SubSeq(mem, n, Len(mem))
<1>1. a \in Seq(Byte) /\ Len(a) = i /\ i \in Nat /\ Len(s) \in Nat /\ Len(mem) \in Nat
  OBVIOUS
<1>2. n \in Nat /\ n > 0
  BY <1>1
<1>3. c \in Seq(Byte) /\ Len(c) = IF n <= Len(mem) THEN Len(mem) - n + 1 ELSE 0
  <2> HIDE DEF n
  <2>1. QED
    BY <1>2
<1>4. WriteAt(mem, i, s) = (a \o s) \o c
  BY Zenon DEF WriteAt
<1> HIDE DEF a, c
<1>5. /\ a \o s \in Seq(Byte) /\ Len(a \o s) = i + Len(s)
      /\ \A k \in 1..Len(s) : (a \o s)[i + k] = s[k]
  BY <1>1, Joined
<1> DEFINE h == a \o s
<1>6. /\ h \in Seq(Byte) /\ Len(h) = i + Len(s)
      /\ \A k \in 1..Len(s) : h[i + k] = s[k]
  BY <1>5
<1> HIDE DEF h
<1>7. /\ h \o c \in Seq(Byte) /\ Len(h \o c) = Len(h) + Len(c)
      /\ \A k \in 1..Len(h) : (h \o c)[k] = h[k]
  BY <1>3, <1>6, Joined
<1>8. /\ \A k \in 1..Len(s) : (h \o c)[i + k] = s[k]
      /\ Len(h \o c) = IF i + Len(s) > Len(mem) THEN i + Len(s) ELSE Len(mem)
  <2>1. \A k \in 1..Len(s) : i + k \in 1..Len(h)
    BY <1>1, <1>6
  <2>2. \A k \in 1..Len(s) : (h \o c)[i + k] = s[k]
    BY <1>6, <1>7, <2>1, Zenon
  <2>3. Len(h \o c) = IF i + Len(s) > Len(mem) THEN i + Len(s) ELSE Len(mem)
    BY <1>1, <1>3, <1>6, <1>7
  <2>4. QED
    BY <2>2, <2>3
<1>9. WriteAt(mem, i, s) = h \o c
  BY <1>4 DEF h
<1>10. QED
  BY <1>7, <1>8, <1>9, Zenon

\* A text with its terminator, written over a buffer that has room for both.
LEMMA TextSound ==
  ASSUME NEW buf \in Sound, NEW sz \in Nat, sz >= buf.sz,
         NEW i \in 0..buf.cnt, NEW s \in Seq(Byte), i + Len(s) < sz
  PROVE  [sz |-> sz, cnt |-> i + Len(s), mem |-> WriteAt(buf.mem, i, s \o <<NUL>>)] \in Sound
<1> DEFINE t == s \o <<NUL>>
           m == WriteAt(buf.mem, i, t)
<1>1. /\ buf.mem \in Seq(Byte) /\ Len(buf.mem) <= buf.sz /\ buf.sz \in Nat /\ buf.cnt \in Nat
      /\ buf.cnt < Len(buf.mem)
  BY DEF Sound
<1>2. i \in 0..Len(buf.mem) /\ i \in Nat
  BY <1>1
<1>3. t \in Seq(Byte) /\ Len(t) = Len(s) + 1 /\ t[Len(s) + 1] = NUL /\ Len(s) \in Nat
  <2>1. <<NUL>> \in Seq(Byte) /\ Len(<<NUL>>) = 1 /\ <<NUL>>[1] = NUL
    BY NulIsByte
  <2>2. QED
    BY <2>1, Joined
<1> HIDE DEF t
<1>4. /\ m \in Seq(Byte)
      /\ Len(m) = IF i + Len(t) > Len(buf.mem) THEN i + Len(t) ELSE Len(buf.mem)
      /\ \A k \in 1..Len(t) : m[i + k] = t[k]
  BY <1>1, <1>2, <1>3, Written, Zenon
<1> HIDE DEF m
<1>5. m[i + (Len(s) + 1)] = NUL
  BY <1>3, <1>4
<1>6. i + (Len(s) + 1) = (i + Len(s)) + 1
  BY <1>2, <1>3
<1>7. Len(m) <= sz /\ i + Len(s) < Len(m) /\ i + Len(s) \in Nat
  BY <1>1, <1>2, <1>3, <1>4
<1>8. m[(i + Len(s)) + 1] = NUL
  BY <1>5, <1>6
<1> DEFINE j == i + Len(s)
<1>9. [sz |-> sz, cnt |-> j, mem |-> m] \in Sound
  <2>1. j \in Nat /\ j < Len(m) /\ m[j + 1] = NUL
    BY <1>7, <1>8
  <2> HIDE DEF j
  <2>2. QED
    BY <1>4, <1>7, <2>1, MakeSound, Zenon
<1>10. QED
  BY <1>9 DEF m, t

\* act_rec and act_recps double the buffer in time for the byte and the
\* terminator behind it.
LEMMA AppendSound ==
  ASSUME NEW buf \in Sound, NEW c \in Byte
  PROVE  append(buf, c) \in Sound
<1> DEFINE sz == IF buf.cnt + 1 >= buf.sz THEN buf.sz * 2 ELSE buf.sz
           s  == <<c>>
<1>1. buf.sz \in Nat /\ buf.cnt \in Nat /\ buf.cnt < buf.sz
  BY DEF Sound
<1>2. sz \in Nat /\ sz >= buf.sz /\ buf.cnt + 1 < sz
  BY <1>1
<1>3. s \in Seq(Byte) /\ Len(s) = 1 /\ buf.cnt \in 0..buf.cnt
  BY <1>1
<1>4. append(buf, c) = [sz |-> sz, cnt |-> buf.cnt + 1, mem |-> WriteAt(buf.mem, buf.cnt, <<c, NUL>>)]
  BY Zenon DEF append
<1>5. s \o <<NUL>> = <<c, NUL>>
  BY TwoBytes, NulIsByte
<1> HIDE DEF sz, s
<1>6. buf.cnt + Len(s) < sz /\ buf.cnt + Len(s) = buf.cnt + 1
  BY <1>2, <1>3
<1>7. [sz |-> sz, cnt |-> buf.cnt + Len(s), mem |-> WriteAt(buf.mem, buf.cnt, s \o <<NUL>>)] \in Sound
  BY <1>2, <1>3, <1>6, TextSound, Zenon
<1>8. QED
  BY <1>4, <1>5, <1>6, <1>7, Zenon

\* Emptying writes no more than a terminator.
LEMMA ClearSound ==
  ASSUME NEW buf \in Sound
  PROVE  clear(buf) \in Sound
<1> DEFINE s == <<>>
<1>1. /\ buf = [sz |-> buf.sz, cnt |-> buf.cnt, mem |-> buf.mem]
      /\ buf.sz \in Nat /\ buf.sz >= buf.sz /\ buf.cnt \in Nat /\ 0 \in 0..buf.cnt /\ 0 < buf.sz
  BY DEF Sound
<1>2. s \in Seq(Byte) /\ Len(s) = 0 /\ 0 + Len(s) = 0 /\ s \o <<NUL>> = <<NUL>>
  BY NulIsByte
<1> HIDE DEF s
<1>3. 0 + Len(s) < buf.sz
  BY <1>1, <1>2
<1> DEFINE w == WriteAt(buf.mem, 0, <<NUL>>)
<1>4. [sz |-> buf.sz, cnt |-> 0, mem |-> w] \in Sound
  <2>1. [sz |-> buf.sz, cnt |-> 0 + Len(s), mem |-> WriteAt(buf.mem, 0, s \o <<NUL>>)] \in Sound
    BY <1>1, <1>3, <1>2, TextSound, Zenon
  <2>2. QED
    BY <1>2, <2>1, Zenon
<1>5. clear(buf) = [buf EXCEPT !.cnt = 0, !.mem = w]
  BY Zenon DEF clear
<1> HIDE DEF w
<1>6. w \in Seq(Byte) /\ Len(w) <= buf.sz /\ 0 < Len(w) /\ w[0 + 1] = NUL
  BY <1>4 DEF Sound
<1> DEFINE r == [buf EXCEPT !.cnt = 0, !.mem = w]
<1>7. /\ r \in [sz : Nat, cnt : Nat, mem : Seq(Byte)]
      /\ r.sz = buf.sz /\ r.cnt = 0 /\ r.mem = w
  BY <1>6 DEF Sound
<1> HIDE DEF r
<1>8. r \in Sound
  BY <1>6, <1>7, Zenon DEF Sound
<1>9. QED
  BY <1>5, <1>8 DEF r

\* A copy of a text: growbuf has made room for it and its terminator.
LEMMA CopySound ==
  ASSUME NEW buf \in Sound, NEW str \in Seq(Byte)
  PROVE  copy(buf, str) \in Sound
<1> DEFINE g == growbuf(buf, Len(str) + 1)
           n == Len(str) + 1
<1>1. /\ buf = [sz |-> buf.sz, cnt |-> buf.cnt, mem |-> buf.mem]
      /\ buf.sz \in Nat /\ buf.sz > 0 /\ buf.cnt \in Nat /\ n \in Nat /\ Len(str) \in Nat
  BY DEF Sound
<1>2. g.mem = buf.mem /\ g.sz = IF n < buf.sz THEN buf.sz ELSE DoubledTo(buf.sz, n)
  BY <1>1, Zenon DEF growbuf
<1> HIDE DEF g
<1>3. g.sz \in Nat /\ g.sz >= buf.sz /\ g.sz >= n
  <2>1. CASE n < buf.sz
    BY <1>1, <1>2, <2>1
  <2>2. CASE ~ (n < buf.sz)
    <3>1. g.sz = DoubledTo(buf.sz, n)
      BY <1>2, <2>2, Zenon
    <3> HIDE DEF n
    <3>2. QED
      BY <1>1, <3>1, DoubledEnough, Zenon
  <2>3. QED
    BY <2>1, <2>2
<1>4. 0 \in 0..buf.cnt /\ 0 + Len(str) = Len(str) /\ 0 + Len(str) < g.sz
  BY <1>1, <1>3
<1> DEFINE sz == g.sz
<1>5. sz \in Nat /\ sz >= buf.sz /\ 0 + Len(str) < sz
  BY <1>3, <1>4
<1>6. [sz |-> sz, cnt |-> 0 + Len(str), mem |-> WriteAt(buf.mem, 0, str \o <<NUL>>)] \in Sound
  <2> HIDE DEF sz
  <2>1. QED
    BY <1>4, <1>5, TextSound, Zenon
<1>7. copy(buf, str) = [sz |-> g.sz, cnt |-> Len(str), mem |-> WriteAt(g.mem, 0, str \o <<NUL>>)]
  BY Zenon DEF copy, g
<1>8. QED
  BY <1>2, <1>4, <1>6, <1>7, Zenon

\* act_noout: there is room for the output where the prompt is.
LEMMA NooutSound ==
  ASSUME NEW bs \in [Buffers -> Sound]
  PROVE  noout(bs) \in [Buffers -> Sound]
<1> DEFINE p   == bs.ps1
           o   == bs.out
           str == Counted(o)
           n   == o.cnt + 1
           sz  == DoubledTo(p.sz, n)
<1>1. p \in Sound /\ o \in Sound
  BY Zenon DEF Buffers
<1>2. /\ p.sz \in Nat /\ p.sz > 0 /\ p.cnt \in Nat /\ o.cnt \in Nat /\ n \in Nat
      /\ o.mem \in Seq(Byte) /\ o.cnt < Len(o.mem)
  BY <1>1 DEF Sound
<1>3. sz \in Nat /\ sz >= p.sz /\ sz >= n
  <2> HIDE DEF n, p
  <2>1. QED
    BY <1>2, DoubledEnough, Zenon
<1>4. str \in Seq(Byte) /\ Len(str) = o.cnt
  BY <1>2 DEF Counted
<1> DEFINE new == [sz |-> sz, cnt |-> o.cnt, mem |-> WriteAt(p.mem, 0, str \o <<NUL>>)]
<1>5. new \in Sound
  <2> HIDE DEF str, sz, p
  <2>1. 0 \in 0..p.cnt /\ 0 + Len(str) < sz /\ 0 + Len(str) = o.cnt
    BY <1>2, <1>3, <1>4
  <2>2. [sz |-> sz, cnt |-> 0 + Len(str), mem |-> WriteAt(p.mem, 0, str \o <<NUL>>)] \in Sound
    BY <1>1, <1>3, <1>4, <2>1, TextSound, Zenon
  <2>3. QED
    BY <2>1, <2>2, Zenon
<1>6. noout(bs) = [bs EXCEPT !.ps1 = new, !.out = clear(@)]
  BY Zenon DEF noout
<1>7. clear(o) \in Sound
  BY <1>1, ClearSound, Zenon
<1> DEFINE cleared == clear(o)
<1>8. noout(bs) = [bs EXCEPT !["ps1"] = new, !["out"] = cleared]
  BY <1>6, Zenon
<1> HIDE DEF new, cleared
<1>9. QED
  BY <1>5, <1>7, <1>8, Zenon DEF cleared, Buffers
-----------------------------------------------------------------------------
(* The steps *)

RInv == b \in [Buffers -> Sound]

\* The buffers start empty, of one byte at least.
LEMMA SoundInit == Init => RInv
<1> SUFFICES ASSUME Init PROVE RInv
  OBVIOUS
<1> DEFINE fresh(n) == [sz |-> Sizes[n], cnt |-> 0, mem |-> <<NUL>>]
<1>1. ASSUME NEW n \in Buffers
      PROVE  fresh(n) \in Sound
  <2>1. Sizes[n] \in Nat /\ Sizes[n] >= 1
    BY RecBufAssumption
  <2> DEFINE sz == Sizes[n]
             mem == <<NUL>>
  <2>2. mem \in Seq(Byte) /\ Len(mem) = 1 /\ mem[0 + 1] = NUL /\ Len(mem) <= sz /\ 0 < Len(mem)
    BY <2>1, NulIsByte
  <2>3. [sz |-> sz, cnt |-> 0, mem |-> mem] \in Sound
    <3> HIDE DEF sz, mem
    <3>1. sz \in Nat /\ 0 \in Nat
      BY <2>1 DEF sz
    <3>2. QED
      BY <2>2, <3>1, MakeSound, Zenon
  <2>4. QED
    BY <2>3
<1>2. b = [n \in Buffers |-> fresh(n)]
  BY Zenon DEF Init
<1> HIDE DEF fresh
<1>3. QED
  BY <1>1, <1>2, Zenon DEF RInv

\* The action of a transition.
LEMMA DoSound ==
  ASSUME RInv, NEW action, NEW c \in Byte
  PROVE  Do(action, c) \in [Buffers -> Sound]
<1>1. b \in [Buffers -> Sound] /\ \A n \in {"out", "ips1", "ps1"} : b[n] \in Sound
  BY Zenon DEF RInv, Buffers
<1>2. \A n \in {"out", "ips1", "ps1"} : append(b[n], c) \in Sound
  BY <1>1, AppendSound, Zenon
<1>3. noout(b) \in [Buffers -> Sound]
  BY <1>1, NooutSound, Zenon
<1>4. \A n \in {"out", "ips1", "ps1"} : [b EXCEPT ![n] = append(b[n], c)] \in [Buffers -> Sound]
  BY <1>1, <1>2, Zenon
<1>5. \/ Do(action, c) = [b EXCEPT !["out"] = append(b["out"], c)]
      \/ Do(action, c) = [b EXCEPT !["ips1"] = append(b["ips1"], c)]
      \/ Do(action, c) = [b EXCEPT !["ps1"] = append(b["ps1"], c)]
      \/ Do(action, c) = noout(b)
      \/ Do(action, c) = b
  BY Zenon DEF Do
<1>6. QED
  BY <1>1, <1>3, <1>4, <1>5, Zenon

\* What a C string is: the part before the first NUL.
LEMMA CStrIs ==
  ASSUME NEW s \in Seq(Byte)
  PROVE  \E n \in 0..Len(s) : /\ CStr(s) = SubSeq(s, 1, n)
                              /\ \A k \in 1..n : s[k] # NUL
                              /\ n = Len(s) \/ s[n + 1] = NUL
<1> DEFINE nuls == {k \in 1..Len(s) : s[k] = NUL}
           m    == Min(nuls)
<1>1. CASE nuls = {}
  <2>1. CStr(s) = s
    BY <1>1, Zenon DEF CStr
  <2>2. s = SubSeq(s, 1, Len(s)) /\ Len(s) \in 0..Len(s)
    BY SubSeqFull
  <2>3. \A k \in 1..Len(s) : s[k] # NUL
    BY <1>1
  <2>4. QED
    BY <2>1, <2>2, <2>3, Zenon
<1>2. CASE nuls # {}
  <2>1. nuls \in SUBSET Nat
    OBVIOUS
  <2>2. m \in nuls /\ \A k \in nuls : m <= k
    <3> HIDE DEF nuls
    <3>1. QED
      BY <1>2, <2>1, MinMember, Zenon
  <2>3. CStr(s) = SubSeq(s, 1, m - 1)
    BY <1>2, Zenon DEF CStr
  <2> HIDE DEF m
  <2> DEFINE n == m - 1
  <2>4. n \in 0..Len(s) /\ n + 1 = m /\ s[m] = NUL
    BY <2>2
  <2>5. \A k \in 1..n : s[k] # NUL
    BY <2>2
  <2>6. QED
    BY <2>3, <2>4, <2>5
<1>3. QED
  BY <1>1, <1>2

\* So it is a string of bytes too.
LEMMA CStrType ==
  ASSUME NEW s \in Seq(Byte)
  PROVE  CStr(s) \in Seq(Byte)
<1>1. PICK n \in 0..Len(s) : CStr(s) = SubSeq(s, 1, n)
  BY CStrIs, Zenon
<1>2. \A k \in 1..n : s[k] \in Byte
  OBVIOUS
<1>3. SubSeq(s, 1, n) \in Seq(Byte)
  BY <1>2, SubSeqProperties
<1>4. QED
  BY <1>1, <1>3

\* The end of oper_busy: what the machine has left is copied.
LEMMA KeepSound ==
  ASSUME RInv, Keep
  PROVE  RInv'
<1> DEFINE out == IF f = "cmdout" THEN String(b.out) ELSE <<>>
           ps1 == CASE f = "init"   -> String(b.ips1)
                    [] f = "cmdout" -> String(b.ps1)
                    [] OTHER        -> <<>>
           so == copy(b["s_out"], out)
           sp == copy(b["s_ps1"], ps1)
<1>1. b \in [Buffers -> Sound] /\ \A n \in Buffers : b[n] \in Sound
  BY Zenon DEF RInv
<1>2. \A n \in Buffers : String(b[n]) \in Seq(Byte)
  <2>1. \A buf \in Sound : buf.mem \in Seq(Byte)
    BY Zenon DEF Sound
  <2>2. QED
    BY <1>1, <2>1, CStrType, Zenon DEF String
<1>3. <<>> \in Seq(Byte)
  OBVIOUS
<1>4. out \in Seq(Byte) /\ ps1 \in Seq(Byte)
  BY <1>2, <1>3, Zenon DEF Buffers
<1> HIDE DEF out, ps1
<1>5. so \in Sound /\ sp \in Sound
  BY <1>1, <1>4, CopySound, Zenon DEF Buffers
<1>6. b' = [b EXCEPT !["s_out"] = so, !["s_ps1"] = sp]
  BY Zenon DEF Keep, out, ps1
<1> HIDE DEF so, sp
<1>7. QED
  BY <1>1, <1>5, <1>6, Zenon DEF RInv

\* The buffers that are cleared, by sc_write or by the reset of the machine.
LEMMA ClearedSound ==
  ASSUME RInv, NEW n \in Buffers
  PROVE  [b EXCEPT ![n] = clear(b[n])] \in [Buffers -> Sound]
  BY ClearSound, Zenon DEF RInv

\* The buffers are sound in every state.
LEMMA SoundAlways == Spec => []RInv
<1>1. ASSUME RInv, [Next]_vars
      PROVE  RInv'
  <2>1. CASE \E c \in Chars : Token("T_REST", c)
    <3>1. PICK c \in Chars : Token("T_REST", c)
      BY <2>1
    <3>2. c \in Byte
      BY RecBufAssumption
    <3>3. PICK a : a = delta[f][curst]["T_REST"].action
      OBVIOUS
    <3>4. b' = Do(a, c)
      BY <3>1, <3>3, Zenon DEF Token
    <3>5. QED
      BY <1>1, <3>2, <3>4, DoSound, Zenon DEF RInv
  <2>2. CASE Token("T_ESEQ", ESC)
    <3>1. ESC \in Byte
      BY DEF Byte
    <3>2. PICK a : a = delta[f][curst]["T_ESEQ"].action
      OBVIOUS
    <3>3. b' = Do(a, ESC)
      BY <2>2, <3>2, Zenon DEF Token
    <3>4. QED
      BY <1>1, <3>1, <3>3, DoSound, Zenon DEF RInv
  <2>3. CASE EndOfData
    <3>1. PICK a : a = delta[f][curst]["T_EOF"].action
      OBVIOUS
    <3>2. b' = Do(a, NUL)
      BY <2>3, <3>1, Zenon DEF EndOfData
    <3>3. QED
      BY <1>1, <3>2, NulIsByte, DoSound, Zenon DEF RInv
  <2>4. CASE Keep
    BY <1>1, <2>4, KeepSound
  <2>5. CASE Purge
    <3>1. b' = [b EXCEPT !["s_out"] = clear(b["s_out"])]
      BY <2>5, Zenon DEF Purge
    <3>2. QED
      BY <1>1, <3>1, ClearedSound, Zenon DEF RInv, Buffers
  <2>6. CASE \E g \in {"cmdout", "inchar"} : reset(g)
    <3>1. \/ b' = [b EXCEPT !["out"] = clear(b["out"]), !["ps1"] = clear(b["ps1"])]
          \/ b' = b
      BY <2>6, Zenon DEF reset
    <3>2. b \in [Buffers -> Sound] /\ clear(b["out"]) \in Sound /\ clear(b["ps1"]) \in Sound
      BY <1>1, ClearSound, Zenon DEF RInv, Buffers
    <3>3. QED
      BY <3>1, <3>2, Zenon DEF RInv
  <2>7. CASE UNCHANGED vars
    BY <1>1, <2>7, Zenon DEF RInv, vars
  <2>8. QED
    BY <1>1, <2>1, <2>2, <2>3, <2>4, <2>5, <2>6, <2>7, Zenon DEF Next
<1>2. QED
  BY SoundInit, <1>1, PTL DEF Spec

\* Nothing is ever written behind the end of a text buffer, and it is terminated
\* whenever it is read, for every initial size and however much is recorded.
THEOREM BuffersHold == Spec => []InBounds
<1>1. RInv => InBounds
  <2>1. \A buf \in Sound : /\ Len(buf.mem) <= buf.sz
                           /\ buf.cnt < Len(buf.mem) /\ buf.mem[buf.cnt + 1] = NUL
    BY Zenon DEF Sound
  <2>2. QED
    BY <2>1, Zenon DEF RInv, InBounds
<1>2. QED
  BY SoundAlways, <1>1, PTL
-----------------------------------------------------------------------------
(* The text in the buffers *)

\* Nothing else is such a part of a string.
LEMMA CStrOnly ==
  ASSUME NEW s \in Seq(Byte), NEW n \in 0..Len(s),
         \A k \in 1..n : s[k] # NUL, n = Len(s) \/ s[n + 1] = NUL
  PROVE  CStr(s) = SubSeq(s, 1, n)
<1>1. PICK m \in 0..Len(s) : /\ CStr(s) = SubSeq(s, 1, m)
                             /\ \A k \in 1..m : s[k] # NUL
                             /\ m = Len(s) \/ s[m + 1] = NUL
  BY CStrIs, Zenon
<1>2. ~ (m < n)
  <2>1. SUFFICES ASSUME m < n PROVE FALSE
    OBVIOUS
  <2>2. m + 1 \in 1..n /\ m # Len(s)
    BY <2>1
  <2>3. QED
    BY <1>1, <2>2, Zenon
<1>3. ~ (n < m)
  <2>1. SUFFICES ASSUME n < m PROVE FALSE
    OBVIOUS
  <2>2. n + 1 \in 1..m /\ n # Len(s)
    BY <2>1
  <2>3. QED
    BY <1>1, <2>2, Zenon
<1>4. m = n
  BY <1>2, <1>3
<1>5. QED
  BY <1>1, <1>4

\* A part, element by element.
LEMMA Part ==
  ASSUME NEW s \in Seq(Byte), NEW n \in 0..Len(s)
  PROVE  /\ SubSeq(s, 1, n) \in Seq(Byte) /\ Len(SubSeq(s, 1, n)) = n
         /\ \A k \in 1..n : SubSeq(s, 1, n)[k] = s[k]
         /\ \A m \in 0..n : SubSeq(SubSeq(s, 1, n), 1, m) = SubSeq(s, 1, m)
<1> DEFINE t == SubSeq(s, 1, n)
<1>1. t \in Seq(Byte) /\ Len(t) = n /\ \A k \in 1..n : t[k] = s[k]
  OBVIOUS
<1>2. ASSUME NEW m \in 0..n
      PROVE  SubSeq(t, 1, m) = SubSeq(s, 1, m)
  <2> HIDE DEF t
  <2>1. /\ SubSeq(t, 1, m) \in Seq(Byte) /\ Len(SubSeq(t, 1, m)) = m
        /\ \A k \in 1..m : SubSeq(t, 1, m)[k] = t[k]
    BY <1>1
  <2>2. /\ SubSeq(s, 1, m) \in Seq(Byte) /\ Len(SubSeq(s, 1, m)) = m
        /\ \A k \in 1..m : SubSeq(s, 1, m)[k] = s[k]
    OBVIOUS
  <2>3. \A k \in 1..m : k \in 1..n
    OBVIOUS
  <2> DEFINE x == SubSeq(t, 1, m)
             y == SubSeq(s, 1, m)
  <2>4. \A k \in 1..m : x[k] = y[k]
    BY <1>1, <2>1, <2>2, <2>3, Zenon
  <2>5. x \in Seq(Byte) /\ y \in Seq(Byte) /\ Len(x) = Len(y) /\ \A k \in 1..Len(x) : x[k] = y[k]
    BY <2>1, <2>2, <2>4, Zenon
  <2> HIDE DEF x, y
  <2>6. x = y
    BY <2>5, SeqEqual
  <2>7. QED
    BY <2>6 DEF x, y
<1>3. QED
  BY <1>1, <1>2, Zenon

\* A C string has no NUL in it.
LEMMA CStrTwice ==
  ASSUME NEW s \in Seq(Byte)
  PROVE  CStr(CStr(s)) = CStr(s)
<1>1. PICK n \in 0..Len(s) : CStr(s) = SubSeq(s, 1, n) /\ \A k \in 1..n : s[k] # NUL
  BY CStrIs, Zenon
<1> DEFINE t == SubSeq(s, 1, n)
<1>2. /\ t \in Seq(Byte) /\ Len(t) = n /\ \A k \in 1..n : t[k] = s[k]
  BY Part, Zenon
<1> HIDE DEF t
<1>3. n \in 0..Len(t) /\ \A k \in 1..n : t[k] # NUL
  BY <1>1, <1>2
<1>4. CStr(t) = SubSeq(t, 1, n)
  BY <1>2, <1>3, CStrOnly, Zenon
<1>5. SubSeq(t, 1, n) = t
  BY <1>2, SubSeqFull
<1>6. QED
  BY <1>1, <1>4, <1>5 DEF t

\* What is behind a NUL does not matter.
LEMMA CStrCut ==
  ASSUME NEW s \in Seq(Byte), NEW n \in 0..Len(s), n < Len(s), s[n + 1] = NUL
  PROVE  CStr(s) = CStr(SubSeq(s, 1, n))
<1>1. PICK m \in 0..Len(s) : /\ CStr(s) = SubSeq(s, 1, m)
                             /\ \A k \in 1..m : s[k] # NUL
                             /\ m = Len(s) \/ s[m + 1] = NUL
  BY CStrIs, Zenon
<1>2. m <= n
  <2>1. SUFFICES ASSUME n < m PROVE FALSE
    OBVIOUS
  <2>2. n + 1 \in 1..m
    BY <2>1
  <2>3. QED
    BY <1>1, <2>2, Zenon
<1> DEFINE t == SubSeq(s, 1, n)
<1>3. /\ t \in Seq(Byte) /\ Len(t) = n /\ \A k \in 1..n : t[k] = s[k]
      /\ \A k \in 0..n : SubSeq(t, 1, k) = SubSeq(s, 1, k)
  BY Part, Zenon
<1> HIDE DEF t
<1>4. m \in 0..n /\ m \in 0..Len(t) /\ \A k \in 1..m : k \in 1..n
  BY <1>2, <1>3
<1>5. \A k \in 1..m : t[k] # NUL
  BY <1>1, <1>3, <1>4, Zenon
<1>6. m = Len(t) \/ t[m + 1] = NUL
  <2>1. m = n \/ m + 1 \in 1..n
    BY <1>4
  <2>2. m # Len(s)
    BY <1>2
  <2>3. QED
    BY <1>1, <1>3, <2>1, <2>2, Zenon
<1>7. CStr(t) = SubSeq(t, 1, m)
  BY <1>3, <1>4, <1>5, <1>6, CStrOnly, Zenon
<1>8. QED
  BY <1>1, <1>3, <1>4, <1>7 DEF t

\* What is counted as text.
LEMMA CountedIs ==
  ASSUME NEW buf \in Sound
  PROVE  /\ Counted(buf) \in Seq(Byte) /\ Counted(buf) = SubSeq(buf.mem, 1, buf.cnt)
         /\ String(buf) = CStr(Counted(buf))
<1>1. buf.mem \in Seq(Byte) /\ buf.cnt \in 0..Len(buf.mem) /\ buf.cnt < Len(buf.mem)
      /\ buf.mem[buf.cnt + 1] = NUL
  BY DEF Sound
<1>2. Counted(buf) = SubSeq(buf.mem, 1, buf.cnt)
  BY Zenon DEF Counted
<1>3. SubSeq(buf.mem, 1, buf.cnt) \in Seq(Byte)
  BY <1>1, Part, Zenon
<1>4. CStr(buf.mem) = CStr(SubSeq(buf.mem, 1, buf.cnt))
  BY <1>1, CStrCut, Zenon
<1>5. QED
  BY <1>2, <1>3, <1>4, Zenon DEF String

\* A text that is written with its terminator follows on what was left of it.
LEMMA TextWritten ==
  ASSUME NEW mem \in Seq(Byte), NEW i \in 0..Len(mem), NEW s \in Seq(Byte)
  PROVE  SubSeq(WriteAt(mem, i, s \o <<NUL>>), 1, i + Len(s)) = SubSeq(mem, 1, i) \o s
<1> DEFINE a == SubSeq(mem, 1, i)
           z == <<NUL>>
           t == s \o z
           c == SubSeq(mem, i + Len(t) + 1, Len(mem))
           h == a \o s
<1>1. a \in Seq(Byte) /\ Len(a) = i
  BY Part, Zenon
<1>2. z \in Seq(Byte) /\ t \in Seq(Byte)
  BY NulIsByte
<1>3. c \in Seq(Byte)
  <2>1. i + Len(t) + 1 \in Nat /\ i + Len(t) + 1 > 0
    BY <1>2
  <2> DEFINE n == i + Len(t) + 1
  <2> HIDE DEF n
  <2>2. SubSeq(mem, n, Len(mem)) \in Seq(Byte)
    BY <2>1 DEF n
  <2>3. QED
    BY <2>2 DEF n
<1>4. WriteAt(mem, i, t) = (a \o t) \o c
  BY Zenon DEF WriteAt
<1> HIDE DEF a, c, z
<1>5. a \o (s \o z) = (a \o s) \o z
  BY <1>1, <1>2, ConcatAssociative, SMTT(20)
<1>6. h \in Seq(Byte) /\ Len(h) = i + Len(s)
  BY <1>1
<1> HIDE DEF h
<1>7. (h \o z) \o c = h \o (z \o c) /\ z \o c \in Seq(Byte)
  <2>1. (h \o z) \o c = h \o (z \o c)
    BY <1>2, <1>3, <1>6, Grouped, Zenon
  <2>2. z \o c \in Seq(Byte)
    BY <1>2, <1>3, Joined, Zenon
  <2>3. QED
    BY <2>1, <2>2, Zenon
<1> DEFINE y == z \o c
<1>8. WriteAt(mem, i, t) = h \o y
  BY <1>4, <1>5, <1>7, Zenon DEF h
<1>9. SubSeq(h \o y, 1, Len(h)) = h
  <2> HIDE DEF y
  <2>1. y \in Seq(Byte) /\ 0 \in Nat
    BY <1>7 DEF y
  <2> DEFINE w == h \o y
             x == SubSeq(w, 1, Len(h))
  <2>2. w \in Seq(Byte) /\ Len(w) = Len(h) + Len(y) /\ \A k \in 1..Len(h) : w[k] = h[k]
    BY <1>6, <2>1, Joined
  <2> HIDE DEF w
  <2>3. Len(h) \in 0..Len(w)
    BY <1>6, <2>1, <2>2
  <2>4. x \in Seq(Byte) /\ Len(x) = Len(h) /\ \A k \in 1..Len(h) : x[k] = w[k]
    BY <2>2, <2>3, Part, Zenon
  <2> HIDE DEF x
  <2>5. \A k \in 1..Len(x) : x[k] = h[k]
    BY <2>2, <2>4, Zenon
  <2>6. x = h
    BY <1>6, <2>4, <2>5, SeqEqual
  <2>7. QED
    BY <2>6 DEF x, w
<1>10. SubSeq(WriteAt(mem, i, t), 1, i + Len(s)) = h
  BY <1>6, <1>8, <1>9, Zenon
<1>11. QED
  BY <1>10, Zenon DEF h, a, z

\* act_rec and act_recps append to the text.
LEMMA AppendText ==
  ASSUME NEW buf \in Sound, NEW c \in Byte
  PROVE  Counted(append(buf, c)) = Append(Counted(buf), c)
<1> DEFINE x == <<c>>
           t == SubSeq(buf.mem, 1, buf.cnt)
<1>1. buf.mem \in Seq(Byte) /\ buf.cnt \in 0..Len(buf.mem)
  BY DEF Sound
<1>2. x \in Seq(Byte) /\ Len(x) = 1 /\ x \o <<NUL>> = <<c, NUL>>
  BY NulIsByte, TwoBytes
<1>3. Counted(append(buf, c)) = SubSeq(WriteAt(buf.mem, buf.cnt, <<c, NUL>>), 1, buf.cnt + 1)
  BY Zenon DEF Counted, append
<1> HIDE DEF x
<1>4. SubSeq(WriteAt(buf.mem, buf.cnt, x \o <<NUL>>), 1, buf.cnt + Len(x)) = t \o x
  BY <1>1, <1>2, TextWritten, Zenon
<1>5. Counted(append(buf, c)) = t \o x
  BY <1>2, <1>3, <1>4, Zenon
<1>6. t \in Seq(Byte) /\ Counted(buf) = t
  BY CountedIs, Zenon
<1> HIDE DEF t
<1>7. t \o x = Append(t, c)
  BY <1>6, AppendIsConcat, Zenon DEF x
<1>8. QED
  BY <1>5, <1>6, <1>7

\* A text that is written from the start is the text.
LEMMA OverText ==
  ASSUME NEW mem \in Seq(Byte), NEW s \in Seq(Byte), NEW sz
  PROVE  Counted([sz |-> sz, cnt |-> Len(s), mem |-> WriteAt(mem, 0, s \o <<NUL>>)]) = s
<1>1. 0 \in 0..Len(mem) /\ 0 + Len(s) = Len(s) /\ Len(s) \in Nat
  OBVIOUS
<1>2. SubSeq(WriteAt(mem, 0, s \o <<NUL>>), 1, 0 + Len(s)) = SubSeq(mem, 1, 0) \o s
  BY <1>1, TextWritten, Zenon
<1>3. SubSeq(mem, 1, 0) = <<>> /\ <<>> \o s = s
  OBVIOUS
<1>4. QED
  BY <1>1, <1>2, <1>3, Zenon DEF Counted

\* A text that is kept in a buffer of sc.c is what is read from it.
LEMMA CopyText ==
  ASSUME NEW buf \in Sound, NEW str \in Seq(Byte)
  PROVE  String(copy(buf, CStr(str))) = CStr(str)
<1> DEFINE t == CStr(str)
           g == growbuf(buf, Len(t) + 1)
           x == copy(buf, t)
<1>1. t \in Seq(Byte)
  BY CStrType, Zenon
<1>2. buf.mem \in Seq(Byte)
  BY DEF Sound
<1>3. g.mem = buf.mem
  <2>1. buf \in [sz : Nat, cnt : Nat, mem : Seq(Byte)]
    BY Zenon DEF Sound
  <2> DEFINE d == DoubledTo(buf.sz, Len(t) + 1)
  <2>2. g = buf \/ g = [buf EXCEPT !.sz = d]
    BY Zenon DEF growbuf
  <2> HIDE DEF d, g
  <2>3. QED
    BY <2>1, <2>2
<1>4. x = [sz |-> g.sz, cnt |-> Len(t), mem |-> WriteAt(buf.mem, 0, t \o <<NUL>>)]
  BY <1>3, Zenon DEF copy
<1>5. CStr(t) = t
  BY CStrTwice, Zenon
<1> HIDE DEF t, g, x
<1>6. x \in Sound
  BY <1>1, CopySound, Zenon DEF x
<1>7. Counted(x) = t
  BY <1>1, <1>2, <1>4, OverText, Zenon
<1>8. String(x) = t
  BY <1>5, <1>6, <1>7, CountedIs, Zenon
<1>9. QED
  BY <1>8, Zenon DEF x, t

\* No text is none as a C string either.
LEMMA EmptyText == CStr(<<>>) = <<>>
<1> DEFINE e == <<>>
<1>1. e \in Seq(Byte) /\ Len(e) = 0 /\ 0 \in 0..Len(e) /\ SubSeq(e, 1, 0) = e
  OBVIOUS
<1>2. \A k \in 1..0 : FALSE
  OBVIOUS
<1> HIDE DEF e
<1>3. CStr(e) = SubSeq(e, 1, 0)
  BY <1>1, <1>2, CStrOnly, Zenon
<1>4. QED
  BY <1>1, <1>3 DEF e

\* A buffer that has been cleared has no text in it.
LEMMA ClearText ==
  ASSUME NEW buf \in Sound
  PROVE  Counted(clear(buf)) = <<>> /\ String(clear(buf)) = <<>>
<1> DEFINE x == clear(buf)
<1>1. x \in Sound
  BY ClearSound, Zenon
<1>2. x.cnt = 0
  <2> DEFINE w == WriteAt(buf.mem, 0, <<NUL>>)
  <2>1. x = [buf EXCEPT !.cnt = 0, !.mem = w]
    BY Zenon DEF clear
  <2> HIDE DEF w, x
  <2>2. buf \in [sz : Nat, cnt : Nat, mem : Seq(Byte)]
    BY Zenon DEF Sound
  <2>3. QED
    BY <2>1, <2>2
<1> HIDE DEF x
<1>3. x.mem \in Seq(Byte) /\ SubSeq(x.mem, 1, 0) = <<>>
  BY <1>1 DEF Sound
<1>4. Counted(x) = <<>>
  BY <1>2, <1>3, Zenon DEF Counted
<1>5. CStr(<<>>) = <<>>
  BY EmptyText
<1>6. String(x) = <<>>
  BY <1>1, <1>4, <1>5, CountedIs, Zenon
<1>7. QED
  BY <1>4, <1>6, Zenon DEF x
-----------------------------------------------------------------------------
(* The buffers as HpBackend and Sc see them *)

HpRec == [anykey : BOOLEAN, report : BOOLEAN, ips1 : Seq(Byte), out : Seq(Byte), ps1 : Seq(Byte)]

\* The text in the buffers bs of the backend, as the refinement has it.
HpOf(bs) == [HpInit EXCEPT !.ips1 = Counted(bs.ips1), !.out = Counted(bs.out),
                           !.ps1  = Counted(bs.ps1)]

\* It is the record with these fields.
LEMMA HpOfIs ==
  ASSUME NEW bs \in [Buffers -> Sound], NEW h \in HpRec, h.anykey = FALSE, h.report = FALSE,
         h.ips1 = Counted(bs.ips1), h.out = Counted(bs.out), h.ps1 = Counted(bs.ps1)
  PROVE  HpOf(bs) = h
<1> DEFINE x == Counted(bs.ips1)
           y == Counted(bs.out)
           z == Counted(bs.ps1)
           g == [HpInit EXCEPT !.ips1 = x, !.out = y, !.ps1 = z]
<1>1. x \in Seq(Byte) /\ y \in Seq(Byte) /\ z \in Seq(Byte)
  BY CountedIs, Zenon DEF Buffers
<1>2. HpOf(bs) = g
  BY Zenon DEF HpOf
<1> HIDE DEF x, y, z
<1>3. g \in HpRec /\ g.anykey = FALSE /\ g.report = FALSE /\ g.ips1 = x /\ g.out = y /\ g.ps1 = z
  BY <1>1 DEF HpRec, HpInit
<1>4. h.ips1 = x /\ h.out = y /\ h.ps1 = z
  BY Zenon DEF x, y, z
<1> HIDE DEF g
<1>5. g = h
  BY <1>3, <1>4 DEF HpRec
<1>6. QED
  BY <1>2, <1>5, Zenon

\* The fields, and their type.
LEMMA HpOfFields ==
  ASSUME NEW bs \in [Buffers -> Sound]
  PROVE  /\ HpOf(bs) \in HpRec /\ HpOf(bs).anykey = FALSE /\ HpOf(bs).report = FALSE
         /\ HpOf(bs).ips1 = Counted(bs.ips1) /\ HpOf(bs).out = Counted(bs.out)
         /\ HpOf(bs).ps1 = Counted(bs.ps1)
<1> DEFINE x == Counted(bs.ips1)
           y == Counted(bs.out)
           z == Counted(bs.ps1)
           h == [anykey |-> FALSE, report |-> FALSE, ips1 |-> x, out |-> y, ps1 |-> z]
<1>1. x \in Seq(Byte) /\ y \in Seq(Byte) /\ z \in Seq(Byte)
  BY CountedIs, Zenon DEF Buffers
<1> HIDE DEF x, y, z
<1>2. /\ h \in HpRec /\ h.anykey = FALSE /\ h.report = FALSE
      /\ h.ips1 = x /\ h.out = y /\ h.ps1 = z
  BY <1>1 DEF HpRec
<1> HIDE DEF h
<1>3. HpOf(bs) = h
  BY <1>2, HpOfIs, Zenon DEF x, y, z
<1>4. QED
  BY <1>2, <1>3, Zenon DEF x, y, z

\* What the actions of HpBackend do to text.
LEMMA ActIs ==
  ASSUME NEW h \in HpRec, NEW c \in Byte
  PROVE  /\ Act("cmdout", "act_rec", c, h) = [h EXCEPT !.out = Append(h.out, c)]
         /\ Act("init", "act_recps", c, h) = [h EXCEPT !.ips1 = Append(h.ips1, c)]
         /\ Act("cmdout", "act_recps", c, h) = [h EXCEPT !.ps1 = Append(h.ps1, c)]
         /\ Act("cmdout", "act_noout", c, h) = [h EXCEPT !.ps1 = h.out, !.out = <<>>]
<1>1. Act("cmdout", "act_rec", c, h) = act_rec(c, h)
  BY Zenon DEF Act
<1>2. Act("init", "act_recps", c, h) = act_recps("init", c, h)
  BY Zenon DEF Act
<1>3. Act("cmdout", "act_recps", c, h) = act_recps("cmdout", c, h)
  BY Zenon DEF Act
<1>4. Act("cmdout", "act_noout", c, h) = act_noout(h)
  BY Zenon DEF Act
<1>5. QED
  BY <1>1, <1>2, <1>3, <1>4, Zenon DEF act_rec, act_recps, act_noout

\* The action of a transition does to the text what HpBackend says, and nothing
\* to what sc.c has kept.
LEMMA DoText ==
  ASSUME RInv, NEW action, NEW c \in Byte
  PROVE  /\ \/ HpOf(Do(action, c)) = HpOf(b)
            \/ \E g \in Fsm, a \in {"act_rec", "act_recps", "act_noout"} :
                 HpOf(Do(action, c)) = Act(g, a, c, HpOf(b))
         /\ Do(action, c).s_out = b.s_out /\ Do(action, c).s_ps1 = b.s_ps1
<1> DEFINE h  == HpOf(b)
           bs == Do(action, c)
<1>1. b \in [Buffers -> Sound] /\ \A n \in Buffers : b[n] \in Sound
  BY Zenon DEF RInv
<1>2. bs \in [Buffers -> Sound]
  BY DoSound, Zenon
<1>3. /\ h \in HpRec /\ h.anykey = FALSE /\ h.report = FALSE
      /\ h.ips1 = Counted(b.ips1) /\ h.out = Counted(b.out) /\ h.ps1 = Counted(b.ps1)
  BY <1>1, HpOfFields, Zenon
<1>4. \A n \in Buffers : Counted(append(b[n], c)) = Append(Counted(b[n]), c)
  BY <1>1, AppendText, Zenon
<1>5. {"out", "ips1", "ps1", "s_out", "s_ps1"} \subseteq Buffers /\ {"init", "cmdout"} \subseteq Fsm
  BY Zenon DEF Buffers, Fsm
<1>6. \/ bs = [b EXCEPT !["out"] = append(b["out"], c)]
      \/ bs = [b EXCEPT !["ips1"] = append(b["ips1"], c)]
      \/ bs = [b EXCEPT !["ps1"] = append(b["ps1"], c)]
      \/ bs = noout(b)
      \/ bs = b
  BY Zenon DEF Do
<1> HIDE DEF bs, h
<1>7. CASE bs = [b EXCEPT !["out"] = append(b["out"], c)]
  <2>1. /\ bs.out = append(b.out, c) /\ bs.ips1 = b.ips1 /\ bs.ps1 = b.ps1
        /\ bs.s_out = b.s_out /\ bs.s_ps1 = b.s_ps1
    BY <1>1, <1>5, <1>7, Zenon
  <2> DEFINE t == Append(h.out, c)
             g == [h EXCEPT !.out = t]
  <2>2. t \in Seq(Byte)
    BY <1>3 DEF HpRec
  <2>3. Counted(bs.out) = t
    BY <1>3, <1>4, <1>5, <2>1, Zenon
  <2> HIDE DEF t
  <2>4. /\ g \in HpRec /\ g.anykey = FALSE /\ g.report = FALSE
        /\ g.ips1 = h.ips1 /\ g.out = t /\ g.ps1 = h.ps1
    BY <1>3, <2>2 DEF HpRec
  <2>5. g = Act("cmdout", "act_rec", c, h)
    BY <1>3, ActIs, Zenon DEF t
  <2> HIDE DEF g
  <2>6. HpOf(bs) = g
    BY <1>2, <1>3, <2>1, <2>3, <2>4, HpOfIs, Zenon
  <2>7. QED
    BY <1>5, <2>1, <2>5, <2>6, Zenon DEF bs, h
<1>8. CASE bs = [b EXCEPT !["ips1"] = append(b["ips1"], c)]
  <2>1. /\ bs.ips1 = append(b.ips1, c) /\ bs.out = b.out /\ bs.ps1 = b.ps1
        /\ bs.s_out = b.s_out /\ bs.s_ps1 = b.s_ps1
    BY <1>1, <1>5, <1>8, Zenon
  <2> DEFINE t == Append(h.ips1, c)
             g == [h EXCEPT !.ips1 = t]
  <2>2. t \in Seq(Byte)
    BY <1>3 DEF HpRec
  <2>3. Counted(bs.ips1) = t
    BY <1>3, <1>4, <1>5, <2>1, Zenon
  <2> HIDE DEF t
  <2>4. /\ g \in HpRec /\ g.anykey = FALSE /\ g.report = FALSE
        /\ g.ips1 = t /\ g.out = h.out /\ g.ps1 = h.ps1
    BY <1>3, <2>2 DEF HpRec
  <2>5. g = Act("init", "act_recps", c, h)
    BY <1>3, ActIs, Zenon DEF t
  <2> HIDE DEF g
  <2>6. HpOf(bs) = g
    BY <1>2, <1>3, <2>1, <2>3, <2>4, HpOfIs, Zenon
  <2>7. QED
    BY <1>5, <2>1, <2>5, <2>6, Zenon DEF bs, h
<1>9. CASE bs = [b EXCEPT !["ps1"] = append(b["ps1"], c)]
  <2>1. /\ bs.ps1 = append(b.ps1, c) /\ bs.out = b.out /\ bs.ips1 = b.ips1
        /\ bs.s_out = b.s_out /\ bs.s_ps1 = b.s_ps1
    BY <1>1, <1>5, <1>9, Zenon
  <2> DEFINE t == Append(h.ps1, c)
             g == [h EXCEPT !.ps1 = t]
  <2>2. t \in Seq(Byte)
    BY <1>3 DEF HpRec
  <2>3. Counted(bs.ps1) = t
    BY <1>3, <1>4, <1>5, <2>1, Zenon
  <2> HIDE DEF t
  <2>4. /\ g \in HpRec /\ g.anykey = FALSE /\ g.report = FALSE
        /\ g.ips1 = h.ips1 /\ g.out = h.out /\ g.ps1 = t
    BY <1>3, <2>2 DEF HpRec
  <2>5. g = Act("cmdout", "act_recps", c, h)
    BY <1>3, ActIs, Zenon DEF t
  <2> HIDE DEF g
  <2>6. HpOf(bs) = g
    BY <1>2, <1>3, <2>1, <2>3, <2>4, HpOfIs, Zenon
  <2>7. QED
    BY <1>5, <2>1, <2>5, <2>6, Zenon DEF bs, h
<1>10. CASE bs = noout(b)
  <2> DEFINE str == Counted(b["out"])
             sz  == DoubledTo(b.ps1.sz, b.out.cnt + 1)
             new == [sz |-> sz, cnt |-> b.out.cnt, mem |-> WriteAt(b.ps1.mem, 0, str \o <<NUL>>)]
             cleared == clear(b["out"])
             o == h.out
             e == <<>>
             g == [h EXCEPT !.ps1 = o, !.out = e]
  <2>1. bs = [b EXCEPT !["ps1"] = new, !["out"] = cleared]
    BY <1>10, Zenon DEF noout
  <2>2. /\ str \in Seq(Byte) /\ Len(str) = b.out.cnt /\ b.ps1.mem \in Seq(Byte)
    <3>1. b.out \in Sound /\ b.ps1 \in Sound
      BY <1>1, <1>5, Zenon
    <3>2. b.out.mem \in Seq(Byte) /\ b.out.cnt \in 0..Len(b.out.mem) /\ b.ps1.mem \in Seq(Byte)
      BY <3>1 DEF Sound
    <3>3. QED
      BY <3>2, Part, Zenon DEF Counted
  <2>3. Counted(new) = str
    <3> DEFINE mem == b.ps1.mem
    <3> HIDE DEF str, sz
    <3>1. new = [sz |-> sz, cnt |-> Len(str), mem |-> WriteAt(mem, 0, str \o <<NUL>>)]
      BY <2>2, Zenon
    <3> HIDE DEF new, mem
    <3>2. mem \in Seq(Byte) /\ str \in Seq(Byte)
      BY <2>2, Zenon DEF mem
    <3>3. Counted([sz |-> sz, cnt |-> Len(str), mem |-> WriteAt(mem, 0, str \o <<NUL>>)]) = str
      BY <3>2, OverText, Zenon
    <3>4. QED
      BY <3>1, <3>3, Zenon
  <2>4. Counted(cleared) = <<>>
    BY Zenon, ClearText, <1>1, <1>5
  <2> HIDE DEF new, cleared
  <2>5. /\ bs.ps1 = new /\ bs.out = cleared /\ bs.ips1 = b.ips1
        /\ bs.s_out = b.s_out /\ bs.s_ps1 = b.s_ps1
    BY <1>1, <1>5, <2>1, Zenon
  <2>6. /\ g \in HpRec /\ g.anykey = FALSE /\ g.report = FALSE
        /\ g.ips1 = h.ips1 /\ g.out = e /\ g.ps1 = o
    <3>1. o \in Seq(Byte) /\ e \in Seq(Byte)
      BY <1>3 DEF HpRec
    <3> HIDE DEF o, e
    <3>2. QED
      BY <1>3, <3>1 DEF HpRec
  <2>7. g = Act("cmdout", "act_noout", c, h)
    BY <1>3, ActIs, Zenon
  <2> HIDE DEF g
  <2>8. HpOf(bs) = g
    BY <1>2, <1>3, <2>3, <2>4, <2>5, <2>6, HpOfIs, Zenon
  <2>9. QED
    BY <1>5, <2>5, <2>7, <2>8, Zenon DEF bs, h
<1>11. CASE bs = b
  BY <1>11, Zenon DEF bs, h
<1>12. QED
  BY <1>6, <1>7, <1>8, <1>9, <1>10, <1>11, Zenon
-----------------------------------------------------------------------------
(* The refinement.  Recorder has the operators of HpBackend under names of  *)
(* its own.                                                                 *)

\* They are the same.
LEMMA SameAct ==
  ASSUME NEW g, NEW a, NEW c, NEW h
  PROVE  TheRecorder!Act(g, a, c, h) = Act(g, a, c, h)
  BY Zenon DEF Act, act_ak, act_report, act_rec, act_noout, act_recps,
     TheRecorder!Act, TheRecorder!act_ak, TheRecorder!act_report, TheRecorder!act_rec,
     TheRecorder!act_noout, TheRecorder!act_recps

\* So are the sets.
LEMMA SameSets == TheRecorder!Fsm = Fsm /\ TheRecorder!Byte = Byte
  BY DEF Fsm, TheRecorder!Fsm, Byte, TheRecorder!Byte, Digits, TheRecorder!Digits,
     CCHRS, TheRecorder!CCHRS, NUL, NL, ESC, TheRecorder!NUL, TheRecorder!NL, TheRecorder!ESC

\* And what is read from them.
LEMMA SameText ==
  ASSUME NEW g, NEW h
  PROVE  /\ TheRecorder!Output(g, h) = IF g = "cmdout" THEN CStr(h.out) ELSE <<>>
         /\ TheRecorder!Prompt(g, h) = CASE g = "init"   -> CStr(h.ips1)
                                         [] g = "cmdout" -> CStr(h.ps1)
                                         [] OTHER        -> <<>>
<1>1. \A s : TheRecorder!CStr(s) = CStr(s)
  BY Zenon DEF CStr, TheRecorder!CStr, NUL, TheRecorder!NUL, Min, TheRecorder!Min
<1>2. QED
  BY <1>1, Zenon DEF TheRecorder!Output, TheRecorder!Prompt

\* What is in the buffers at first.
LEMMA TextInit == Init => TheRecorder!RecorderInit
<1> SUFFICES ASSUME Init PROVE TheRecorder!RecorderInit
  OBVIOUS
<1>1. b \in [Buffers -> Sound]
  BY SoundInit, Zenon DEF RInv
<1>2. \A n \in Buffers : Counted(b[n]) = <<>> /\ String(b[n]) = <<>>
  <2> DEFINE x == [sz |-> 0, cnt |-> 0, mem |-> <<NUL>>]
  <2>1. ASSUME NEW n \in Buffers
        PROVE  Counted(b[n]) = <<>> /\ String(b[n]) = <<>>
    <3>1. b[n].cnt = 0 /\ b[n].mem = <<NUL>>
      BY <2>1, Zenon DEF Init
    <3>2. SubSeq(<<NUL>>, 1, 0) = <<>>
      OBVIOUS
    <3>3. Counted(b[n]) = <<>>
      BY <3>1, <3>2, Zenon DEF Counted
    <3>4. String(b[n]) = CStr(<<>>)
      BY <1>1, <2>1, <3>3, CountedIs, Zenon
    <3>5. QED
      BY <3>3, <3>4, EmptyText, Zenon
  <2>2. QED
    BY <2>1, Zenon
<1>3. HpInit \in HpRec /\ HpInit.anykey = FALSE /\ HpInit.report = FALSE
      /\ HpInit.ips1 = <<>> /\ HpInit.out = <<>> /\ HpInit.ps1 = <<>>
  BY DEF HpInit, HpRec
<1>4. HpOf(b) = HpInit
  BY <1>1, <1>2, <1>3, HpOfIs, Zenon DEF Buffers
<1>5. TheRecorder!HpInit = HpInit
  BY Zenon DEF HpInit, TheRecorder!HpInit
<1>6. QED
  BY <1>2, <1>4, <1>5, Zenon DEF TheRecorder!RecorderInit, HpOf, Buffers

\* A transition records, or changes none of the text.
LEMMA RecordText ==
  ASSUME RInv, NEW action, NEW c \in Byte, b' = Do(action, c)
  PROVE  TheRecorder!Record \/ UNCHANGED TheRecorder!rvars
<1>1. b'.s_out = b.s_out /\ b'.s_ps1 = b.s_ps1
  BY DoText, Zenon
<1>2. CASE HpOf(b') = HpOf(b)
  BY <1>1, <1>2, Zenon DEF TheRecorder!rvars, HpOf
<1>3. CASE \E g \in Fsm, a \in {"act_rec", "act_recps", "act_noout"} :
             HpOf(b') = Act(g, a, c, HpOf(b))
  <2>1. PICK g \in Fsm, a \in {"act_rec", "act_recps", "act_noout"} :
               HpOf(b') = Act(g, a, c, HpOf(b))
    BY <1>3
  <2>2. HpOf(b') = TheRecorder!Act(g, a, c, HpOf(b)) /\ g \in TheRecorder!Fsm /\ c \in TheRecorder!Byte
    BY <2>1, SameAct, SameSets, Zenon
  <2>3. QED
    BY <1>1, <2>1, <2>2, ZenonT(40) DEF TheRecorder!Record, HpOf
<1>4. QED
  BY <1>2, <1>3, DoText, Zenon

\* What a machine has left is kept.
LEMMA KeepText ==
  ASSUME RInv, Keep
  PROVE  TheRecorder!Keep
<1> DEFINE out == IF f = "cmdout" THEN String(b.out) ELSE <<>>
           ps1 == CASE f = "init"   -> String(b.ips1)
                    [] f = "cmdout" -> String(b.ps1)
                    [] OTHER        -> <<>>
           so == copy(b["s_out"], out)
           sp == copy(b["s_ps1"], ps1)
<1>1. b \in [Buffers -> Sound] /\ \A n \in Buffers : b[n] \in Sound
  BY Zenon DEF RInv
<1>2. b' = [b EXCEPT !["s_out"] = so, !["s_ps1"] = sp]
  BY Zenon DEF Keep
<1> HIDE DEF so, sp
<1>3. /\ b'.s_out = so /\ b'.s_ps1 = sp
      /\ b'.ips1 = b.ips1 /\ b'.out = b.out /\ b'.ps1 = b.ps1
  BY <1>1, <1>2, Zenon DEF Buffers
<1>4. HpOf(b') = HpOf(b)
  BY <1>3, Zenon DEF HpOf
<1>5. /\ \A n \in Buffers : Counted(b[n]) \in Seq(Byte) /\ String(b[n]) = CStr(Counted(b[n]))
      /\ <<>> \in Seq(Byte) /\ CStr(<<>>) = <<>>
  <2>1. <<>> \in Seq(Byte)
    OBVIOUS
  <2>2. QED
    BY <1>1, <2>1, CountedIs, EmptyText, Zenon
<1>6. \E x, y \in Seq(Byte) : out = CStr(x) /\ ps1 = CStr(y)
  BY <1>5, Zenon DEF Buffers
<1>7. PICK x \in Seq(Byte), y \in Seq(Byte) : out = CStr(x) /\ ps1 = CStr(y)
  BY <1>6, Zenon
<1>8. String(so) = out /\ String(sp) = ps1
  BY <1>1, <1>7, CopyText, Zenon DEF so, sp, Buffers
<1>9. /\ HpOf(b).ips1 = Counted(b.ips1) /\ HpOf(b).out = Counted(b.out)
      /\ HpOf(b).ps1 = Counted(b.ps1)
  BY <1>1, HpOfFields, Zenon
<1>10. \E g \in Fsm : /\ out = (IF g = "cmdout" THEN CStr(HpOf(b).out) ELSE <<>>)
                      /\ ps1 = (CASE g = "init"   -> CStr(HpOf(b).ips1)
                                  [] g = "cmdout" -> CStr(HpOf(b).ps1)
                                  [] OTHER        -> <<>>)
  <2>1. /\ String(b.out) = CStr(HpOf(b).out) /\ String(b.ips1) = CStr(HpOf(b).ips1)
        /\ String(b.ps1) = CStr(HpOf(b).ps1)
    BY <1>5, <1>9, Zenon DEF Buffers
  <2>2. CASE f \in Fsm
    BY <2>1, <2>2, Zenon
  <2>3. CASE f \notin Fsm
    <3>1. out = <<>> /\ ps1 = <<>>
      BY <2>3, Zenon DEF Fsm
    <3>2. "inchar" \in Fsm /\ "inchar" # "init" /\ "inchar" # "cmdout"
      BY DEF Fsm
    <3>3. QED
      BY <3>1, <3>2, Zenon
  <2>4. QED
    BY <2>2, <2>3
<1>11. PICK g \in Fsm : out = TheRecorder!Output(g, HpOf(b)) /\ ps1 = TheRecorder!Prompt(g, HpOf(b))
  BY <1>10, SameText, Zenon
<1>12. /\ String(b'.s_out) = TheRecorder!Output(g, HpOf(b))
       /\ String(b'.s_ps1) = TheRecorder!Prompt(g, HpOf(b)) /\ g \in TheRecorder!Fsm
  BY <1>3, <1>8, <1>11, SameSets, Zenon
<1>13. QED
  BY <1>4, <1>12, Zenon DEF TheRecorder!Keep, HpOf

\* sc_write and the reset of the machine for what follows.
LEMMA ClearedText ==
  ASSUME RInv
  PROVE  /\ Purge => TheRecorder!Purge
         /\ \A g \in {"cmdout", "inchar"} :
              reset(g) => TheRecorder!Reset \/ UNCHANGED TheRecorder!rvars
<1>1. b \in [Buffers -> Sound] /\ \A n \in Buffers : b[n] \in Sound
  BY Zenon DEF RInv
<1>2. \A n \in Buffers : /\ clear(b[n]) \in Sound
                         /\ Counted(clear(b[n])) = <<>> /\ String(clear(b[n])) = <<>>
  BY <1>1, ClearSound, ClearText, Zenon
<1>3. ASSUME Purge
      PROVE  TheRecorder!Purge
  <2> DEFINE x == clear(b["s_out"])
  <2>1. b' = [b EXCEPT !["s_out"] = x]
    BY <1>3, Zenon DEF Purge
  <2>2. String(x) = <<>>
    BY <1>2, Zenon DEF Buffers
  <2> HIDE DEF x
  <2>3. /\ b'.s_out = x /\ b'.s_ps1 = b.s_ps1
        /\ b'.ips1 = b.ips1 /\ b'.out = b.out /\ b'.ps1 = b.ps1
    BY <1>1, <2>1, Zenon DEF Buffers
  <2>4. QED
    BY <2>2, <2>3, Zenon DEF TheRecorder!Purge
<1>4. ASSUME NEW g \in {"cmdout", "inchar"}, reset(g)
      PROVE  TheRecorder!Reset \/ UNCHANGED TheRecorder!rvars
  <2>1. CASE b' = b
    BY <2>1, Zenon DEF TheRecorder!rvars
  <2>2. CASE b' # b
    <3> DEFINE x == clear(b["out"])
               y == clear(b["ps1"])
               h == HpOf(b)
               e == <<>>
               r == [h EXCEPT !.out = e, !.ps1 = e]
    <3>1. b' = [b EXCEPT !["out"] = x, !["ps1"] = y]
      BY <1>4, <2>2, Zenon DEF reset
    <3>2. x \in Sound /\ y \in Sound /\ Counted(x) = e /\ Counted(y) = e
      BY <1>2, Zenon DEF Buffers
    <3> HIDE DEF x, y
    <3>3. /\ b' \in [Buffers -> Sound] /\ b'.out = x /\ b'.ps1 = y /\ b'.ips1 = b.ips1
          /\ b'.s_out = b.s_out /\ b'.s_ps1 = b.s_ps1
      BY <1>1, <3>1, <3>2, Zenon DEF Buffers
    <3>4. /\ h \in HpRec /\ h.anykey = FALSE /\ h.report = FALSE /\ h.ips1 = Counted(b.ips1)
      BY <1>1, HpOfFields, Zenon
    <3>5. /\ r \in HpRec /\ r.anykey = FALSE /\ r.report = FALSE
          /\ r.ips1 = h.ips1 /\ r.out = e /\ r.ps1 = e
      <4>1. e \in Seq(Byte)
        OBVIOUS
      <4> HIDE DEF e, h
      <4>2. QED
        BY <3>4, <4>1 DEF HpRec
    <3>6. r = TheRecorder!cmdout_reset(h)
      BY Zenon DEF TheRecorder!cmdout_reset
    <3> HIDE DEF r, h
    <3>7. HpOf(b') = r
      BY <3>2, <3>3, <3>4, <3>5, HpOfIs, Zenon
    <3>8. HpOf(b') = TheRecorder!cmdout_reset(HpOf(b))
      BY <3>6, <3>7, Zenon DEF h
    <3>9. QED
      BY <3>3, <3>8, Zenon DEF TheRecorder!Reset, HpOf
  <2>3. QED
    BY <2>1, <2>2
<1>5. QED
  BY <1>3, <1>4, Zenon

\* Whatever is left in memory of earlier text, none of it shows: the buffers do
\* what the rest of the model takes them to do, for every initial size and however
\* much is recorded.
THEOREM TextKept == Spec => ImplementsRecorder
<1>1. ASSUME RInv, [Next]_vars
      PROVE  TheRecorder!Record \/ TheRecorder!Reset \/ TheRecorder!Keep \/ TheRecorder!Purge
             \/ UNCHANGED TheRecorder!rvars
  <2>1. CASE \E c \in Chars : Token("T_REST", c)
    <3>1. PICK c \in Chars : Token("T_REST", c)
      BY <2>1
    <3>2. c \in Byte
      BY RecBufAssumption
    <3>3. PICK a : a = delta[f][curst]["T_REST"].action
      OBVIOUS
    <3>4. b' = Do(a, c)
      BY <3>1, <3>3, Zenon DEF Token
    <3>5. QED
      BY <1>1, <3>2, <3>4, RecordText, Zenon
  <2>2. CASE Token("T_ESEQ", ESC)
    <3>1. ESC \in Byte
      BY DEF Byte
    <3>2. PICK a : a = delta[f][curst]["T_ESEQ"].action
      OBVIOUS
    <3>3. b' = Do(a, ESC)
      BY <2>2, <3>2, Zenon DEF Token
    <3>4. QED
      BY <1>1, <3>1, <3>3, RecordText, Zenon
  <2>3. CASE EndOfData
    <3>1. PICK a : a = delta[f][curst]["T_EOF"].action
      OBVIOUS
    <3>2. b' = Do(a, NUL)
      BY <2>3, <3>1, Zenon DEF EndOfData
    <3>3. QED
      BY <1>1, <3>2, NulIsByte, RecordText, Zenon
  <2>4. CASE Keep
    BY <1>1, <2>4, KeepText, Zenon
  <2>5. CASE Purge
    BY <1>1, <2>5, ClearedText, Zenon
  <2>6. CASE \E g \in {"cmdout", "inchar"} : reset(g)
    BY <1>1, <2>6, ClearedText, Zenon
  <2>7. CASE UNCHANGED vars
    BY <2>7, Zenon DEF vars, TheRecorder!rvars
  <2>8. QED
    BY <1>1, <2>1, <2>2, <2>3, <2>4, <2>5, <2>6, <2>7, Zenon DEF Next
<1>2. QED
  BY TextInit, SoundAlways, <1>1, PTL DEF Spec, ImplementsRecorder, TheRecorder!RecorderSpec
=============================================================================
