----------------------------- MODULE RelayProofs ----------------------------
(***************************************************************************)
(* The read buffer of the interactive front-end and the way of a line from *)
(* it to the switch, for every size of it and of the main loop's buffer    *)
(* and whatever is typed.                                                  *)
(***************************************************************************)
EXTENDS Relay, MinFacts, SequenceTheorems

\* The parts of the type invariant that speak of the buffers, and the rest.
BuffersFit ==
  /\ s_readbuf \in Seq(Bytes) /\ Len(s_readbuf) <= READBUFSZ
  /\ stdin \in Seq(Bytes) /\ typed \in Seq(Bytes)

Control ==
  /\ closed \in BOOLEAN
  /\ pc \in {"hasdata", "select", "getdata"} /\ exit \in {"none", "read: EOF"}
  /\ pc = "getdata" => Newlines(s_readbuf) # {}

\* TypeOK is the conjunction of its two parts.
LEMMA TypeParts == TypeOK <=> BuffersFit /\ Control
  BY Zenon DEF TypeOK, BuffersFit, Control

\* A read asks for no more than there is room for.
LEMMA ReadFits ==
  ASSUME BuffersFit, NEW n, ReadMore(n)
  PROVE  n \in Nat /\ n > 0 /\ n <= READBUFSZ - Len(s_readbuf) /\ n <= Len(stdin)
<1> DEFINE room == READBUFSZ - Len(s_readbuf)
           m    == Min({room, Len(stdin)})
<1>1. room \in Int /\ Len(stdin) \in Int
  BY UcIaAssumption DEF BuffersFit
<1>2. m \in Int /\ m <= room /\ m <= Len(stdin)
  BY <1>1, MinOfTwo, Zenon
<1>3. n \in 1..m
  BY DEF ReadMore, remain
<1> HIDE DEF m
<1>4. QED
  BY <1>1, <1>2, <1>3

\* The line that uc_ia_getdata takes ends within the buffer.
LEMMA LineFits ==
  ASSUME TypeOK, uc_ia_getdata
  PROVE  Min(Newlines(s_readbuf)) \in 1..Len(s_readbuf)
<1> DEFINE S == Newlines(s_readbuf)
<1>1. S # {} /\ S \subseteq 1..Len(s_readbuf)
  BY DEF TypeOK, uc_ia_getdata, Running, Newlines
<1>2. S \in SUBSET Nat
  BY <1>1
<1> HIDE DEF S
<1>3. Min(S) \in S
  BY <1>1, <1>2, MinMember, Zenon
<1>4. QED
  BY <1>1, <1>3 DEF S

\* The front-end starts with an empty buffer, in hasdata.
LEMMA TypeInit == Init => TypeOK
<1> SUFFICES ASSUME Init PROVE TypeOK
  OBVIOUS
<1>1. BuffersFit
  BY UcIaAssumption DEF Init, BuffersFit
<1>2. Control
  BY Zenon DEF Init, Control
<1>3. QED
  BY <1>1, <1>2, TypeParts

\* However much a read takes, and whichever line is taken, what is in the buffer
\* fits.
LEMMA BuffersStep ==
  ASSUME TypeOK, [Next]_vars
  PROVE  BuffersFit'
<1>0. BuffersFit
  BY TypeParts
<1>1. CASE \E n \in 1..READBUFSZ : ReadMore(n)
  <2>1. PICK n \in 1..READBUFSZ : ReadMore(n)
    BY <1>1
  <2>2. n \in Nat /\ n > 0 /\ n <= READBUFSZ - Len(s_readbuf) /\ n <= Len(stdin)
    BY <1>0, <2>1, ReadFits
  <2>3. /\ SubSeq(stdin, 1, n) \in Seq(Bytes) /\ Len(SubSeq(stdin, 1, n)) = n
        /\ SubSeq(stdin, n + 1, Len(stdin)) \in Seq(Bytes)
    BY <1>0, <2>2 DEF BuffersFit
  <2>4. /\ s_readbuf' = s_readbuf \o SubSeq(stdin, 1, n)
        /\ stdin' = SubSeq(stdin, n + 1, Len(stdin)) /\ typed' = typed
    BY <2>1, Zenon DEF ReadMore
  <2>5. s_readbuf' \in Seq(Bytes) /\ Len(s_readbuf') = Len(s_readbuf) + n
    BY <1>0, <2>3, <2>4 DEF BuffersFit
  <2>6. QED
    BY <1>0, <2>2, <2>3, <2>4, <2>5, UcIaAssumption DEF BuffersFit
<1>2. CASE uc_ia_getdata
  <2> DEFINE len == Min(Newlines(s_readbuf))
  <2>1. len \in 1..Len(s_readbuf)
    BY <1>2, LineFits
  <2>2. s_readbuf' = SubSeq(s_readbuf, len + 1, Len(s_readbuf)) /\ UNCHANGED <<stdin, typed>>
    BY <1>2, Zenon DEF uc_ia_getdata, shiftbuf
  <2> HIDE DEF len
  <2>3. s_readbuf' \in Seq(Bytes) /\ Len(s_readbuf') <= Len(s_readbuf)
    BY <1>0, <2>1, <2>2 DEF BuffersFit
  <2>4. QED
    BY <1>0, <2>2, <2>3, UcIaAssumption DEF BuffersFit
<1>3. CASE \E b \in Bytes : Type(b)
  BY <1>0, <1>3 DEF BuffersFit, Type
<1>4. CASE uc_ia_hasdata \/ ReadZero \/ Close \/ Ended \/ UNCHANGED vars
  BY <1>0, <1>4 DEF BuffersFit, uc_ia_hasdata, ReadZero, Close, Ended, vars
<1>5. QED
  BY <1>1, <1>2, <1>3, <1>4 DEF Next, Program, User

\* getdata is called only when there is a line to take.
LEMMA ControlStep ==
  ASSUME TypeOK, [Next]_vars
  PROVE  Control'
<1>0. Control
  BY TypeParts
<1>1. CASE uc_ia_hasdata
  BY <1>0, <1>1, Zenon DEF Control, uc_ia_hasdata
<1>2. CASE \E n \in 1..READBUFSZ : ReadMore(n)
  BY <1>0, <1>2, Zenon DEF Control, ReadMore
<1>3. CASE ReadZero
  BY <1>0, <1>3, Zenon DEF Control, ReadZero, Running
<1>4. CASE uc_ia_getdata
  BY <1>0, <1>4, Zenon DEF Control, uc_ia_getdata
<1>5. CASE (\E b \in Bytes : Type(b)) \/ Close
  BY <1>0, <1>5, Zenon DEF Control, Type, Close
<1>6. CASE Ended \/ UNCHANGED vars
  BY <1>0, <1>6, Zenon DEF Control, Ended, vars
<1>7. QED
  BY <1>1, <1>2, <1>3, <1>4, <1>5, <1>6 DEF Next, Program, User

\* The array is never overrun, whatever is typed and however it is read, and
\* a line is only taken when there is one.
THEOREM BufferKept == Spec => []TypeOK
<1>1. ASSUME TypeOK, [Next]_vars
      PROVE  TypeOK'
  <2>1. BuffersFit' /\ Control'
    BY <1>1, BuffersStep, ControlStep
  <2>2. QED
    BY <2>1, Zenon DEF TypeOK, BuffersFit, Control
<1>2. QED
  BY TypeInit, <1>1, PTL DEF Spec
-----------------------------------------------------------------------------
Line == [took : Seq(Bytes), dest : Seq(Bytes), result : Nat]

LInv == TypeOK /\ lines \in Seq(Line) /\ ShortLinesWhole

\* What is copied of a line that fits is the line.
LEMMA LineWhole ==
  ASSUME TypeOK, uc_ia_getdata
  PROVE  \E l \in Line : /\ lines' = Append(lines, l)
                         /\ Len(l.took) < DestSz => l.dest = l.took /\ l.result = Len(l.took)
<1> DEFINE len == Min(Newlines(s_readbuf))
           n   == copy(len)
           l   == [took |-> SubSeq(s_readbuf, 1, len), dest |-> SubSeq(s_readbuf, 1, n),
                   result |-> result(len)]
<1>1. len \in 1..Len(s_readbuf)
  BY LineFits
<1>2. lines' = Append(lines, l)
  BY Zenon DEF uc_ia_getdata
<1>3. n = IF len >= DestSz THEN DestSz - 1 ELSE len
  BY Zenon DEF copy
<1>4. result(len) = len
  BY Zenon DEF result
<1>5. s_readbuf \in Seq(Bytes)
  BY TypeParts, Zenon DEF BuffersFit
<1> HIDE DEF len, n
<1>6. len \in Nat /\ n \in 0..len
  BY <1>1, <1>3, <1>5, UcIaAssumption
<1>7. /\ SubSeq(s_readbuf, 1, len) \in Seq(Bytes) /\ Len(SubSeq(s_readbuf, 1, len)) = len
      /\ SubSeq(s_readbuf, 1, n) \in Seq(Bytes)
  BY <1>1, <1>5, <1>6
<1>8. l \in Line
  BY <1>4, <1>6, <1>7, Zenon DEF Line
<1>9. len < DestSz => n = len
  BY <1>3, <1>6, UcIaAssumption
<1>10. /\ l.took = SubSeq(s_readbuf, 1, len) /\ l.dest = SubSeq(s_readbuf, 1, n)
       /\ l.result = len
  BY <1>4, Zenon
<1> HIDE DEF l
<1>11. Len(l.took) < DestSz => l.dest = l.took /\ l.result = Len(l.took)
  BY <1>7, <1>9, <1>10, Zenon
<1>12. QED
  BY <1>2, <1>8, <1>11, Zenon

\* A line that fits the main loop's buffer is handed over whole, for every size
\* of both buffers.
THEOREM LinesWhole == Spec => []ShortLinesWhole
<1>1. Init => LInv
  BY TypeInit DEF Init, LInv, ShortLinesWhole
<1>2. ASSUME LInv, [Next]_vars
      PROVE  LInv'
  <2>1. TypeOK'
    BY <1>2, BuffersStep, ControlStep, Zenon DEF LInv, TypeOK, BuffersFit, Control
  <2>2. CASE uc_ia_getdata
    <3>1. PICK l \in Line : /\ lines' = Append(lines, l)
                            /\ Len(l.took) < DestSz => l.dest = l.took /\ l.result = Len(l.took)
      BY <1>2, <2>2, LineWhole DEF LInv
    <3>2. /\ lines' \in Seq(Line) /\ Len(lines') = Len(lines) + 1
          /\ \A i \in 1..Len(lines) : lines'[i] = lines[i]
          /\ lines'[Len(lines) + 1] = l
      BY <1>2, <3>1 DEF LInv
    <3>3. ASSUME NEW i \in 1..Len(lines'), Len(lines'[i].took) < DestSz
          PROVE  lines'[i].dest = lines'[i].took /\ lines'[i].result = Len(lines'[i].took)
      <4>1. CASE i \in 1..Len(lines)
        BY <1>2, <3>2, <3>3, <4>1, Zenon DEF LInv, ShortLinesWhole
      <4>2. CASE i = Len(lines) + 1
        BY <3>1, <3>2, <3>3, <4>2, Zenon
      <4>3. lines \in Seq(Line)
        BY <1>2 DEF LInv
      <4>4. QED
        BY <3>2, <4>1, <4>2, <4>3
    <3>4. QED
      BY <2>1, <3>2, <3>3, Zenon DEF LInv, ShortLinesWhole
  <2>3. CASE lines' = lines
    BY <1>2, <2>1, <2>3, Zenon DEF LInv, ShortLinesWhole
  <2>4. QED
    BY <1>2, <2>2, <2>3, Zenon
       DEF Next, Program, User, uc_ia_hasdata, ReadMore, ReadZero, Type, Close, Ended, vars
<1>3. LInv => ShortLinesWhole
  BY DEF LInv
<1>4. QED
  BY <1>1, <1>2, <1>3, PTL DEF Spec
-----------------------------------------------------------------------------
(* What the lines took together, which is defined by recursion on their     *)
(* number: the least number for which a claim about it fails is not 0, and  *)
(* not one more than another, so there is none.                             *)

\* f[i] is what the first i lines of ls took, as the definition of Taken has it.
TakenBy(f, n, ls) ==
  f = [i \in 0..n |-> IF i = 0 THEN <<>> ELSE f[i-1] \o ls[i].took]

\* The equations of such a function.
Equations(f, n, ls) == f[0] = <<>> /\ \A i \in 1..n : f[i] = f[i-1] \o ls[i].took

\* Two functions with the same values up to n, and the same value at n.
SameUpTo(f, g, n) == \A i \in 1..n : f[i] = g[i]
SameAt(f, g, n) == f[n] = g[n]

\* Such a function satisfies its equations.
LEMMA TakenEquations ==
  ASSUME NEW f, NEW n \in Nat, NEW ls, TakenBy(f, n, ls)
  PROVE  Equations(f, n, ls)
<1> DEFINE g == [i \in 0..n |-> IF i = 0 THEN <<>> ELSE f[i-1] \o ls[i].took]
<1>1. f = g
  BY Zenon DEF TakenBy
<1>2. 0 \in 0..n /\ \A i \in 1..n : i \in 0..n /\ i # 0
  OBVIOUS
<1>3. g[0] = <<>> /\ \A i \in 1..n : g[i] = f[i-1] \o ls[i].took
  BY <1>2, Zenon
<1>4. QED
  BY <1>1, <1>3, Zenon DEF Equations

\* There is one for every number of lines.
LEMMA TakenExists ==
  ASSUME NEW ls, NEW n \in Nat
  PROVE  \E f : TakenBy(f, n, ls)
<1> DEFINE S == {m \in Nat : ~ \E f : TakenBy(f, m, ls)}
<1>1. SUFFICES ASSUME S # {} PROVE FALSE
  BY Zenon
<1>2. PICK m \in S : \A k \in S : m <= k
  BY <1>1, MinMember, Zenon
<1>3. CASE m = 0
  <2> DEFINE f == [i \in 0..m |-> <<>>]
  <2>1. \A i \in 0..m : i = 0
    BY <1>3
  <2>2. [i \in 0..m |-> IF i = 0 THEN <<>> ELSE f[i-1] \o ls[i].took] = f
    BY <2>1, Zenon
  <2>3. QED
    BY <1>2, <2>2, Zenon DEF TakenBy
<1>4. CASE m # 0
  <2>1. m - 1 \in Nat /\ ~ (m <= m - 1)
    BY <1>2, <1>4
  <2>2. PICK g : TakenBy(g, m - 1, ls)
    BY <1>2, <2>1, Zenon
  <2> DEFINE p == m - 1
  <2>3. g[0] = <<>> /\ \A i \in 1..p : g[i] = g[i-1] \o ls[i].took
    <3>1. p \in Nat /\ TakenBy(g, p, ls)
      BY <2>1, <2>2
    <3> HIDE DEF p
    <3>2. Equations(g, p, ls)
      BY <3>1, TakenEquations, Zenon
    <3>3. QED
      BY <3>2, Zenon DEF Equations
  <2> DEFINE F(h) == [i \in 0..m |-> IF i = 0 THEN <<>> ELSE h[i-1] \o ls[i].took]
             f == F(g)
  <2>4. \A i \in 0..m : i # 0 => i - 1 \in 0..m /\ (i - 1 = 0 \/ i - 1 \in 1..m - 1)
    BY <2>1
  <2>5. \A i \in 0..m : i # 0 => f[i-1] = g[i-1]
    BY <2>3, <2>4, Zenon
  <2>6. F(f) = f
    <3> DEFINE e(h, i) == IF i = 0 THEN <<>> ELSE h[i-1] \o ls[i].took
    <3> HIDE DEF f
    <3>1. \A i \in 0..m : e(f, i) = e(g, i)
      BY <2>5, Zenon
    <3> HIDE DEF e
    <3>2. [i \in 0..m |-> e(f, i)] = [i \in 0..m |-> e(g, i)]
      BY <3>1, Zenon
    <3>3. QED
      BY <3>2, Zenon DEF e, f
  <2>7. QED
    BY <1>2, <2>6, Zenon DEF TakenBy
<1>5. QED
  BY <1>3, <1>4, Zenon

\* It depends on the first lines only.
LEMMA TakenAgree ==
  ASSUME NEW ls, NEW ms, NEW n \in Nat, NEW m \in Nat, n <= m, SameUpTo(ls, ms, n),
         NEW f, NEW g, TakenBy(f, n, ls), TakenBy(g, m, ms)
  PROVE  SameAt(f, g, n)
<1> DEFINE S == {k \in 0..n : f[k] # g[k]}
<1>1. SUFFICES ASSUME S # {} PROVE FALSE
  <2>1. n \in 0..n
    OBVIOUS
  <2>2. QED
    BY <1>1, <2>1, Zenon DEF SameAt
<1>2. Equations(f, n, ls) /\ Equations(g, m, ms)
  BY TakenEquations, Zenon
<1>3. /\ f[0] = <<>> /\ \A i \in 1..n : f[i] = f[i-1] \o ls[i].took
      /\ g[0] = <<>> /\ \A i \in 1..m : g[i] = g[i-1] \o ms[i].took
  BY <1>2, Zenon DEF Equations
<1>4. S \in SUBSET Nat
  OBVIOUS
<1>5. PICK k \in S : \A j \in S : k <= j
  BY <1>1, <1>4, MinMember, Zenon
<1>6. k \in 0..n /\ f[k] # g[k]
  BY <1>5, Zenon
<1>7. k # 0
  BY <1>3, <1>6, Zenon
<1>8. k \in 1..n /\ k \in 1..m /\ k - 1 \in 0..n /\ ~ (k <= k - 1)
  BY <1>6, <1>7
<1>9. f[k-1] = g[k-1]
  BY <1>5, <1>8, Zenon
<1>10. QED
  BY <1>3, <1>6, <1>8, <1>9, Zenon DEF SameUpTo

\* What the lines took, with one more.
LEMMA TakenAppend ==
  ASSUME NEW ls \in Seq(Line), NEW l \in Line
  PROVE  Taken(Append(ls, l)) = Taken(ls) \o l.took
<1> DEFINE ms == Append(ls, l)
           n  == Len(ls)
           f  == CHOOSE h : TakenBy(h, n, ls)
           g  == CHOOSE h : TakenBy(h, Len(ms), ms)
<1>1. /\ n \in Nat /\ n + 1 \in Nat /\ n <= n + 1 /\ n + 1 \in 1..n + 1 /\ (n + 1) - 1 = n
      /\ Len(ms) = n + 1 /\ ms[n + 1] = l /\ \A i \in 1..n : ls[i] = ms[i]
  OBVIOUS
<1>2. Taken(ls) = f[n] /\ Taken(ms) = g[Len(ms)]
  BY Zenon DEF Taken, TakenBy
<1>3. TakenBy(f, n, ls) /\ TakenBy(g, Len(ms), ms)
  BY <1>1, TakenExists, Zenon
<1> HIDE DEF f, g, ms, n
<1> DEFINE k == n + 1
<1>4. /\ k \in Nat /\ n \in Nat /\ n <= k /\ k \in 1..k /\ SameUpTo(ls, ms, n)
      /\ TakenBy(f, n, ls) /\ TakenBy(g, k, ms)
  BY <1>1, <1>3, Zenon DEF SameUpTo
<1>5. f[n] = g[n] /\ g[n + 1] = g[(n + 1) - 1] \o ms[n + 1].took
  <2> HIDE DEF k
  <2>1. SameAt(f, g, n) /\ Equations(g, k, ms)
    BY <1>4, TakenAgree, TakenEquations, Zenon
  <2>2. f[n] = g[n] /\ g[k] = g[k-1] \o ms[k].took
    BY <1>4, <2>1, Zenon DEF SameAt, Equations
  <2>3. QED
    BY <2>2 DEF k
<1>6. Taken(ms) = Taken(ls) \o l.took
  BY <1>1, <1>2, <1>5, Zenon
<1>7. QED
  BY <1>6 DEF ms

\* No line took nothing.
LEMMA TakenNone ==
  Taken(<<>>) = <<>>
<1> DEFINE ls == <<>>
           f  == CHOOSE h : TakenBy(h, Len(ls), ls)
<1>1. Len(ls) = 0
  OBVIOUS
<1>2. Taken(ls) = f[Len(ls)]
  BY Zenon DEF Taken, TakenBy
<1>3. TakenBy(f, Len(ls), ls)
  BY <1>1, TakenExists, Zenon
<1>4. Equations(f, Len(ls), ls)
  <2> HIDE DEF f, ls
  <2>1. Len(ls) \in Nat
    BY <1>1
  <2>2. QED
    BY <1>3, <2>1, TakenEquations, Zenon
<1> HIDE DEF f, ls
<1>5. Taken(ls) = <<>>
  BY <1>1, <1>2, <1>4, Zenon DEF Equations
<1>6. QED
  BY <1>5 DEF ls
-----------------------------------------------------------------------------
(* Cutting and joining *)

\* The two parts of a sequence are the sequence.
LEMMA PartsJoin ==
  ASSUME NEW s \in Seq(Bytes), NEW n \in 0..Len(s)
  PROVE  /\ SubSeq(s, 1, n) \in Seq(Bytes) /\ SubSeq(s, n + 1, Len(s)) \in Seq(Bytes)
         /\ SubSeq(s, 1, n) \o SubSeq(s, n + 1, Len(s)) = s
<1>1. SubSeq(s, 1, n) \in Seq(Bytes) /\ SubSeq(s, n + 1, Len(s)) \in Seq(Bytes)
  OBVIOUS
<1>2. 1 \in 1..Len(s)+1 /\ n \in 1-1..Len(s) /\ Len(s) \in n..Len(s)
  OBVIOUS
<1>3. SubSeq(s, 1, n) \o SubSeq(s, n + 1, Len(s)) = SubSeq(s, 1, Len(s))
  BY <1>2, ConcatAdjacentSubSeq, Zenon
<1>4. QED
  BY <1>1, <1>3, SubSeqFull

\* Concatenation is associative.
LEMMA Associative ==
  ASSUME NEW a \in Seq(Bytes), NEW b \in Seq(Bytes), NEW c \in Seq(Bytes)
  PROVE  a \o b \in Seq(Bytes) /\ (a \o b) \o c = a \o (b \o c)
<1>1. a \o b \in Seq(Bytes)
  OBVIOUS
<1>2. (a \o b) \o c = a \o (b \o c)
  BY ConcatAssociative
<1>3. QED
  BY <1>1, <1>2

\* One more byte at the end of the last of three parts.
LEMMA AppendLast ==
  ASSUME NEW a \in Seq(Bytes), NEW b \in Seq(Bytes), NEW x \in Bytes
  PROVE  a \o Append(b, x) = Append(a \o b, x)
  OBVIOUS

OneLine(s) == {k \in 1..Len(s) : s[k] = NL} = {Len(s)}

\* The line that is taken: what is left in the buffer follows on it, and its
\* only newline is its last byte.
LEMMA LineTaken ==
  ASSUME TypeOK, uc_ia_getdata
  PROVE  \E l \in Line : /\ lines' = Append(lines, l)
                         /\ s_readbuf' \in Seq(Bytes) /\ l.took \o s_readbuf' = s_readbuf
                         /\ OneLine(l.took)
<1> DEFINE S   == Newlines(s_readbuf)
           len == Min(S)
           n   == copy(len)
           t   == SubSeq(s_readbuf, 1, len)
           l   == [took |-> t, dest |-> SubSeq(s_readbuf, 1, n), result |-> result(len)]
<1>1. len \in 1..Len(s_readbuf)
  BY LineFits
<1>2. /\ lines' = Append(lines, l)
      /\ s_readbuf' = SubSeq(s_readbuf, len + 1, Len(s_readbuf))
  BY Zenon DEF uc_ia_getdata, shiftbuf
<1>3. s_readbuf \in Seq(Bytes)
  BY TypeParts, Zenon DEF BuffersFit
<1>4. l \in Line
  <2>1. n = IF len >= DestSz THEN DestSz - 1 ELSE len
    BY Zenon DEF copy
  <2>2. result(len) = len
    BY Zenon DEF result
  <2> HIDE DEF len, n
  <2>3. len \in Nat /\ n \in 0..len
    BY <1>1, <1>3, <2>1, UcIaAssumption
  <2>4. t \in Seq(Bytes) /\ SubSeq(s_readbuf, 1, n) \in Seq(Bytes)
    BY <1>1, <1>3, <2>3
  <2>5. QED
    BY <2>2, <2>3, <2>4, Zenon DEF Line
<1>5. s_readbuf' \in Seq(Bytes) /\ t \o s_readbuf' = s_readbuf
  <2> HIDE DEF len
  <2>1. len \in 0..Len(s_readbuf)
    BY <1>1, <1>3
  <2>2. QED
    BY <1>2, <1>3, <2>1, PartsJoin, Zenon
<1>6. OneLine(t)
  <2>1. S \in SUBSET Nat /\ S # {}
    BY <1>3 DEF TypeOK, uc_ia_getdata, Running, Newlines
  <2>2. len \in S /\ \A k \in S : len <= k
    BY <2>1, MinMember, Zenon
  <2>3. /\ s_readbuf[len] = NL /\ \A j \in 1..len : s_readbuf[j] # NUL
        /\ \A k \in 1..Len(s_readbuf) :
             s_readbuf[k] = NL /\ (\A j \in 1..k : s_readbuf[j] # NUL) => len <= k
    <3> HIDE DEF len
    <3>1. QED
      BY <2>2, Zenon DEF S, Newlines
  <2> HIDE DEF len
  <2>4. Len(t) = len /\ \A k \in 1..len : t[k] = s_readbuf[k]
    BY <1>1, <1>3
  <2>5. ASSUME NEW k \in 1..len, s_readbuf[k] = NL
        PROVE  k = len
    <3>1. k \in 1..Len(s_readbuf) /\ 1..k \subseteq 1..len
      BY <1>1, <1>3
    <3>2. len <= k
      BY <2>3, <2>5, <3>1, Zenon
    <3>3. QED
      BY <1>1, <3>2
  <2>6. len \in 1..len
    BY <1>1
  <2> HIDE DEF t
  <2>7. QED
    BY <2>3, <2>4, <2>5, <2>6, Zenon DEF OneLine
<1>7. l.took = t
  BY Zenon
<1> HIDE DEF l, t
<1>8. QED
  BY <1>2, <1>4, <1>5, <1>6, <1>7, Zenon

LinesInv == TypeOK /\ lines \in Seq(Line) /\ Taken(lines) \in Seq(Bytes) /\ LineByLine

\* The lines taken, with one more that has its newline at the end.
LEMMA TakenStep ==
  ASSUME LinesInv, uc_ia_getdata
  PROVE  /\ lines' \in Seq(Line) /\ Taken(lines)' \in Seq(Bytes)
         /\ Taken(lines)' \o s_readbuf' = Taken(lines) \o s_readbuf
         /\ \A i \in 1..Len(lines') : OneLine(lines'[i].took)
<1>1. PICK l \in Line : /\ lines' = Append(lines, l)
                        /\ s_readbuf' \in Seq(Bytes) /\ l.took \o s_readbuf' = s_readbuf
                        /\ OneLine(l.took)
  BY LineTaken, Zenon DEF LinesInv
<1>2. /\ lines \in Seq(Line) /\ Taken(lines) \in Seq(Bytes) /\ l.took \in Seq(Bytes)
      /\ \A i \in 1..Len(lines) : OneLine(lines[i].took)
  BY Zenon DEF LinesInv, LineByLine, OneLine, Line
<1>3. Taken(lines)' = Taken(lines) \o l.took
  BY <1>1, <1>2, TakenAppend, Zenon
<1>4. /\ lines' \in Seq(Line) /\ Len(lines) \in Nat /\ Len(lines') = Len(lines) + 1
      /\ \A i \in 1..Len(lines) : lines'[i] = lines[i]
      /\ lines'[Len(lines) + 1] = l
  BY <1>1, <1>2
<1>5. ASSUME NEW i \in 1..Len(lines')
      PROVE  OneLine(lines'[i].took)
  <2>1. i \in 1..Len(lines) \/ i = Len(lines) + 1
    BY <1>4
  <2>2. QED
    BY <1>1, <1>2, <1>4, <2>1, Zenon
<1>6. QED
  <2> DEFINE t == Taken(lines)
             a == l.took
  <2>1. t' = t \o a /\ t \in Seq(Bytes) /\ a \in Seq(Bytes)
    BY <1>2, <1>3, Zenon
  <2> HIDE DEF t, a
  <2>2. t \o a \in Seq(Bytes) /\ (t \o a) \o s_readbuf' = t \o (a \o s_readbuf')
    BY <1>1, <2>1, Associative, ZenonT(30)
  <2>3. a \o s_readbuf' = s_readbuf
    BY <1>1 DEF a
  <2>4. t' \in Seq(Bytes) /\ t' \o s_readbuf' = t \o s_readbuf
    BY <2>1, <2>2, <2>3, Zenon
  <2>5. QED
    BY <1>4, <1>5, <2>4, Zenon DEF t

\* The invariant, for all that the front-end and its user do.
LEMMA LinesInvariant == Init /\ [][Next]_vars => []LinesInv
<1>1. Init => LinesInv
  <2> SUFFICES ASSUME Init PROVE LinesInv
    OBVIOUS
  <2>1. /\ TypeOK /\ lines = <<>> /\ s_readbuf = <<>> /\ stdin = <<>> /\ typed = <<>>
    BY TypeInit, Zenon DEF Init
  <2>2. Taken(lines) = <<>>
    BY <2>1, TakenNone, Zenon
  <2> DEFINE t == Taken(lines)
  <2>3. lines \in Seq(Line) /\ t \in Seq(Bytes) /\ t \o s_readbuf \o stdin = typed
    <3> HIDE DEF t
    <3>1. t = <<>>
      BY <2>2 DEF t
    <3>2. QED
      BY <2>1, <3>1
  <2>4. \A i \in 1..Len(lines) : FALSE
    BY <2>1
  <2>5. QED
    BY <2>1, <2>3, <2>4, Zenon DEF LinesInv, LineByLine
<1>2. ASSUME LinesInv, [Next]_vars
      PROVE  LinesInv'
  <2>0. TypeOK /\ TypeOK'
    BY <1>2, BuffersStep, ControlStep, Zenon DEF LinesInv, TypeOK, BuffersFit, Control
  <2> DEFINE t == Taken(lines)
  <2>1. /\ s_readbuf \in Seq(Bytes) /\ stdin \in Seq(Bytes) /\ s_readbuf' \in Seq(Bytes)
        /\ stdin' \in Seq(Bytes) /\ lines \in Seq(Line) /\ t \in Seq(Bytes)
        /\ (t \o s_readbuf) \o stdin = typed
        /\ \A i \in 1..Len(lines) : OneLine(lines[i].took)
    BY <1>2, <2>0, Zenon DEF LinesInv, LineByLine, OneLine, TypeOK
  <2>2. /\ lines' \in Seq(Line) /\ t' \in Seq(Bytes)
        /\ \A i \in 1..Len(lines') : OneLine(lines'[i].took)
    <3>1. CASE uc_ia_getdata
      BY <1>2, <3>1, TakenStep, Zenon
    <3>2. CASE lines' = lines
      BY <2>1, <3>2, Zenon
    <3>3. QED
      BY <1>2, <3>1, <3>2, Zenon
         DEF Next, Program, User, uc_ia_hasdata, ReadMore, ReadZero, Type, Close, Ended, vars
  <2>3. (t' \o s_readbuf') \o stdin' = typed'
    <3>1. CASE uc_ia_getdata
      <4>1. t' \o s_readbuf' = t \o s_readbuf
        BY <1>2, <3>1, TakenStep, Zenon
      <4>2. stdin' = stdin /\ typed' = typed
        BY <3>1, Zenon DEF uc_ia_getdata
      <4>3. QED
        BY <2>1, <4>1, <4>2, Zenon
    <3>2. CASE \E n \in 1..READBUFSZ : ReadMore(n)
      <4>1. PICK n \in 1..READBUFSZ : ReadMore(n)
        BY <3>2
      <4> DEFINE a == SubSeq(stdin, 1, n)
                 b == SubSeq(stdin, n + 1, Len(stdin))
      <4>2. s_readbuf' = s_readbuf \o a /\ stdin' = b /\ t' = t /\ typed' = typed
        BY <4>1, Zenon DEF ReadMore
      <4>3. n \in 0..Len(stdin)
        <5>1. BuffersFit
          BY <2>0, TypeParts, Zenon
        <5>2. n \in Nat /\ n <= Len(stdin)
          BY <4>1, <5>1, ReadFits, Zenon
        <5>3. QED
          BY <2>1, <5>2
      <4>4. a \in Seq(Bytes) /\ b \in Seq(Bytes) /\ a \o b = stdin
        BY <2>1, <4>3, PartsJoin, Zenon
      <4> HIDE DEF a, b, t
      <4>5. t \o (s_readbuf \o a) = (t \o s_readbuf) \o a /\ t \o s_readbuf \in Seq(Bytes)
        <5>1. t \o s_readbuf \in Seq(Bytes) /\ (t \o s_readbuf) \o a = t \o (s_readbuf \o a)
          <6>1. t \in Seq(Bytes) /\ s_readbuf \in Seq(Bytes) /\ a \in Seq(Bytes)
            BY <2>1, <4>4, Zenon
          <6>2. QED
            BY <6>1, Associative, ZenonT(30)
        <5>2. QED
          BY <5>1, Zenon
      <4>6. ((t \o s_readbuf) \o a) \o b = (t \o s_readbuf) \o (a \o b)
        BY <4>4, <4>5, Associative, Zenon
      <4>7. QED
        BY <2>1, <4>2, <4>4, <4>5, <4>6, Zenon
    <3>3. CASE \E x \in Bytes : Type(x)
      <4>1. PICK x \in Bytes : Type(x)
        BY <3>3
      <4>2. /\ t' = t /\ s_readbuf' = s_readbuf /\ stdin' = Append(stdin, x)
            /\ typed' = Append(typed, x)
        BY <4>1, Zenon DEF Type
      <4> HIDE DEF t
      <4>3. t \o s_readbuf \in Seq(Bytes)
        BY <2>1, Associative, Zenon
      <4>4. (t \o s_readbuf) \o Append(stdin, x) = Append((t \o s_readbuf) \o stdin, x)
        BY <2>1, <4>3, AppendLast, Zenon
      <4>5. QED
        BY <2>1, <4>2, <4>4, Zenon
    <3>4. CASE UNCHANGED <<s_readbuf, stdin, typed, lines>>
      BY <2>1, <3>4, Zenon
    <3>5. QED
      BY <1>2, <3>1, <3>2, <3>3, <3>4, Zenon
         DEF Next, Program, User, uc_ia_hasdata, ReadZero, Close, Ended, vars
  <2>4. QED
    BY <2>0, <2>2, <2>3, Zenon DEF LinesInv, LineByLine, OneLine
<1>3. QED
  BY <1>1, <1>2, PTL

\* However the input is cut into reads, the lines taken, what is buffered and what
\* is not read yet are together what was typed, in that order, and each line has
\* one newline, at its end: for every size of the buffers and any input.
THEOREM InputLineByLine == Spec => []LineByLine
<1>1. LinesInv => LineByLine
  BY DEF LinesInv
<1>2. QED
  BY <1>1, LinesInvariant, PTL DEF Spec
-----------------------------------------------------------------------------
(* Where the lines start behind each other, defined by recursion like Taken. *)

\* f[i] is where line i + 1 of ls starts, as the definition of LineStarts has it.
StartsBy(f, n, ls) ==
  f = [i \in 0..n |-> IF i = 0 THEN 0 ELSE f[i-1] + ls[i].result]

\* The equations of such a function.
StartsEqs(f, n, ls) == f[0] = 0 /\ \A i \in 1..n : f[i] = f[i-1] + ls[i].result

\* Such a function satisfies its equations.
LEMMA StartsEquations ==
  ASSUME NEW f, NEW n \in Nat, NEW ls, StartsBy(f, n, ls)
  PROVE  StartsEqs(f, n, ls)
<1> DEFINE g == [i \in 0..n |-> IF i = 0 THEN 0 ELSE f[i-1] + ls[i].result]
<1>1. f = g
  BY Zenon DEF StartsBy
<1>2. 0 \in 0..n /\ \A i \in 1..n : i \in 0..n /\ i # 0
  OBVIOUS
<1>3. g[0] = 0 /\ \A i \in 1..n : g[i] = f[i-1] + ls[i].result
  BY <1>2, Zenon
<1>4. QED
  BY <1>1, <1>3, Zenon DEF StartsEqs

\* There is one for every number of lines.
LEMMA StartsExist ==
  ASSUME NEW ls, NEW n \in Nat
  PROVE  \E f : StartsBy(f, n, ls)
<1> DEFINE S == {m \in Nat : ~ \E f : StartsBy(f, m, ls)}
<1>1. SUFFICES ASSUME S # {} PROVE FALSE
  BY Zenon
<1>2. PICK m \in S : \A k \in S : m <= k
  BY <1>1, MinMember, Zenon
<1>3. CASE m = 0
  <2> DEFINE f == [i \in 0..m |-> 0]
  <2>1. \A i \in 0..m : i = 0
    BY <1>3
  <2>2. [i \in 0..m |-> IF i = 0 THEN 0 ELSE f[i-1] + ls[i].result] = f
    BY <2>1, Zenon
  <2>3. QED
    BY <1>2, <2>2, Zenon DEF StartsBy
<1>4. CASE m # 0
  <2>1. m - 1 \in Nat /\ ~ (m <= m - 1)
    BY <1>2, <1>4
  <2>2. PICK g : StartsBy(g, m - 1, ls)
    BY <1>2, <2>1, Zenon
  <2> DEFINE p == m - 1
  <2>3. g[0] = 0 /\ \A i \in 1..p : g[i] = g[i-1] + ls[i].result
    <3>1. p \in Nat /\ StartsBy(g, p, ls)
      BY <2>1, <2>2
    <3> HIDE DEF p
    <3>2. StartsEqs(g, p, ls)
      BY <3>1, StartsEquations, Zenon
    <3>3. QED
      BY <3>2, Zenon DEF StartsEqs
  <2> DEFINE F(h) == [i \in 0..m |-> IF i = 0 THEN 0 ELSE h[i-1] + ls[i].result]
             f == F(g)
  <2>4. \A i \in 0..m : i # 0 => i - 1 \in 0..m /\ (i - 1 = 0 \/ i - 1 \in 1..m - 1)
    BY <2>1
  <2>5. \A i \in 0..m : i # 0 => f[i-1] = g[i-1]
    BY <2>3, <2>4, Zenon
  <2>6. F(f) = f
    <3> DEFINE e(h, i) == IF i = 0 THEN 0 ELSE h[i-1] + ls[i].result
    <3> HIDE DEF f
    <3>1. \A i \in 0..m : e(f, i) = e(g, i)
      BY <2>5, Zenon
    <3> HIDE DEF e
    <3>2. [i \in 0..m |-> e(f, i)] = [i \in 0..m |-> e(g, i)]
      BY <3>1, Zenon
    <3>3. QED
      BY <3>2, Zenon DEF e, f
  <2>7. QED
    BY <1>2, <2>6, Zenon DEF StartsBy
<1>5. QED
  BY <1>3, <1>4, Zenon

\* It depends on the first lines only.
LEMMA StartsAgree ==
  ASSUME NEW ls, NEW ms, NEW n \in Nat, NEW m \in Nat, n <= m, SameUpTo(ls, ms, n),
         NEW f, NEW g, StartsBy(f, n, ls), StartsBy(g, m, ms)
  PROVE  SameAt(f, g, n)
<1> DEFINE S == {k \in 0..n : f[k] # g[k]}
<1>1. SUFFICES ASSUME S # {} PROVE FALSE
  <2>1. n \in 0..n
    OBVIOUS
  <2>2. QED
    BY <1>1, <2>1, Zenon DEF SameAt
<1>2. StartsEqs(f, n, ls) /\ StartsEqs(g, m, ms)
  BY StartsEquations, Zenon
<1>3. /\ f[0] = 0 /\ \A i \in 1..n : f[i] = f[i-1] + ls[i].result
      /\ g[0] = 0 /\ \A i \in 1..m : g[i] = g[i-1] + ms[i].result
  BY <1>2, Zenon DEF StartsEqs
<1>4. S \in SUBSET Nat
  OBVIOUS
<1>5. PICK k \in S : \A j \in S : k <= j
  BY <1>1, <1>4, MinMember, Zenon
<1>6. k \in 0..n /\ f[k] # g[k]
  BY <1>5, Zenon
<1>7. k # 0
  BY <1>3, <1>6, Zenon
<1>8. k \in 1..n /\ k \in 1..m /\ k - 1 \in 0..n /\ ~ (k <= k - 1)
  BY <1>6, <1>7
<1>9. f[k-1] = g[k-1]
  BY <1>5, <1>8, Zenon
<1>10. QED
  BY <1>3, <1>6, <1>8, <1>9, Zenon DEF SameUpTo

StartOf(ls, k) == LET f[i \in 0..k] == IF i = 0 THEN 0 ELSE f[i-1] + ls[i].result IN f[k]

\* So StartOf is the last value of one.
LEMMA StartIs ==
  ASSUME NEW ls, NEW k \in Nat
  PROVE  \E f : StartsBy(f, k, ls) /\ StartOf(ls, k) = f[k]
<1> DEFINE f == CHOOSE g : StartsBy(g, k, ls)
<1>1. StartsBy(f, k, ls)
  BY StartsExist, Zenon
<1>2. StartOf(ls, k) = f[k]
  BY Zenon DEF StartOf, StartsBy
<1>3. QED
  BY <1>1, <1>2, Zenon

\* The first line starts at 0, any other one where the line before it ends.
LEMMA StartZero == ASSUME NEW ls PROVE StartOf(ls, 0) = 0
<1>1. 0 \in Nat
  OBVIOUS
<1>2. PICK f : StartsBy(f, 0, ls) /\ StartOf(ls, 0) = f[0]
  BY <1>1, StartIs, Zenon
<1>3. QED
  BY <1>1, <1>2, StartsEquations, Zenon DEF StartsEqs

LEMMA StartSame ==
  ASSUME NEW ls, NEW ms, NEW k \in Nat, SameUpTo(ls, ms, k)
  PROVE  StartOf(ms, k) = StartOf(ls, k)
<1>1. PICK f : StartsBy(f, k, ls) /\ StartOf(ls, k) = f[k]
  BY StartIs, Zenon
<1>2. PICK g : StartsBy(g, k, ms) /\ StartOf(ms, k) = g[k]
  BY StartIs, Zenon
<1>3. k <= k
  OBVIOUS
<1>4. SameAt(f, g, k)
  BY <1>1, <1>2, <1>3, StartsAgree, Zenon
<1>5. QED
  BY <1>1, <1>2, <1>4, Zenon DEF SameAt

LEMMA StartNext ==
  ASSUME NEW ls, NEW k \in Nat
  PROVE  StartOf(ls, k + 1) = StartOf(ls, k) + ls[k + 1].result
<1> DEFINE m == k + 1
<1>1. m \in Nat /\ m \in 1..m /\ k <= m /\ m - 1 = k
  OBVIOUS
<1> HIDE DEF m
<1>2. PICK f : StartsBy(f, k, ls) /\ StartOf(ls, k) = f[k]
  BY StartIs, Zenon
<1>3. PICK g : StartsBy(g, m, ls) /\ StartOf(ls, m) = g[m]
  BY <1>1, StartIs, Zenon
<1>4. SameUpTo(ls, ls, k)
  BY Zenon DEF SameUpTo
<1>5. f[k] = g[k]
  <2>1. SameAt(f, g, k)
    BY <1>1, <1>2, <1>3, <1>4, StartsAgree, Zenon
  <2>2. QED
    BY <2>1, Zenon DEF SameAt
<1>6. g[m] = g[m-1] + ls[m].result
  <2>1. StartsEqs(g, m, ls)
    BY <1>1, <1>3, StartsEquations, Zenon
  <2>2. QED
    BY <1>1, <2>1, Zenon DEF StartsEqs
<1>7. StartOf(ls, m) = StartOf(ls, k) + ls[m].result
  BY <1>1, <1>2, <1>3, <1>5, <1>6, Zenon
<1>8. QED
  BY <1>7 DEF m
-----------------------------------------------------------------------------
(* From the front-end to the switch *)

Chars == Bytes \cup Memory

\* Of the main loop and sc.c: what there is to write, and when.
Queue ==
  /\ wrote \in Seq(Chars) /\ s_writebuf \in Seq(Chars)
  /\ buf \in [1..DestSz -> Chars]
  /\ s_state = "READY" => s_writebuf = <<>>
  /\ s_state = "WRITING" => s_writebuf # <<>>

\* What has been written and is about to be.
AllSent == wrote \o s_writebuf

EndsWithNl(t) == t = <<>> \/ t[Len(t)] = NL

\* The lines stand behind each other in what is sent.
InPlace ==
  /\ CutLinesKeepTheirPlace
  /\ \A l \in 0..Len(lines) : LineStarts(l) \in Nat /\ LineStarts(l) <= Len(AllSent)

\* While all lines fit, what is sent is what the front-end took.
InOrder == EndsWithNl(Taken(lines)) /\ (Short(typed) => AllSent = Taken(lines))

RInv == LinesInv /\ Queue /\ InPlace /\ InOrder

\* What is sent of a line, in place of what was typed, when last is the last byte
\* of the main loop's buffer.
Sends(w, l, last) ==
  /\ w \in Seq(Chars) /\ Len(w) = l.result
  /\ \A k \in 1..l.result :
       w[k] = l.took[k] \/ (k = DestSz /\ w[k] = last) \/ k > DestSz

\* A line taken by getdata.
Takes(l) ==
  /\ l \in Line /\ lines' = Append(lines, l)
  /\ OneLine(l.took) /\ l.took \o s_readbuf' = s_readbuf
  /\ l.result = Len(l.took) /\ l.result > 0

\* What getdata says of the line.
LEMMA GetTakes ==
  ASSUME LinesInv, uc_ia_getdata
  PROVE  \E l : /\ Takes(l) /\ l = lines'[Len(lines')]
                /\ Len(l.dest) < DestSz /\ Len(l.dest) <= l.result
                /\ \A k \in 1..l.result : k < DestSz => k <= Len(l.dest)
                /\ \A k \in 1..Len(l.dest) : l.dest[k] = l.took[k]
<1>1. TypeOK /\ lines \in Seq(Line) /\ s_readbuf \in Seq(Bytes)
  BY Zenon DEF LinesInv, TypeOK
<1>2. PICK l \in Line : /\ lines' = Append(lines, l) /\ OneLine(l.took)
                        /\ l.took \o s_readbuf' = s_readbuf
  BY <1>1, LineTaken, Zenon
<1> DEFINE len == Min(Newlines(s_readbuf))
           n   == copy(len)
           r   == [took |-> SubSeq(s_readbuf, 1, len), dest |-> SubSeq(s_readbuf, 1, n),
                   result |-> result(len)]
<1>3. len \in 1..Len(s_readbuf)
  BY <1>1, LineFits
<1>4. lines' = Append(lines, r)
  BY Zenon DEF uc_ia_getdata
<1>5. n = (IF len >= DestSz THEN DestSz - 1 ELSE len) /\ result(len) = len
  BY Zenon DEF copy, result
<1>6. r.took = SubSeq(s_readbuf, 1, len) /\ r.dest = SubSeq(s_readbuf, 1, n) /\ r.result = result(len)
  BY Zenon
<1> HIDE DEF len, n, r
<1>7. l = lines'[Len(lines')]
  BY <1>1, <1>2
<1>8. r = lines'[Len(lines')]
  BY <1>1, <1>4
<1>9. len \in Nat /\ len > 0 /\ n \in 0..len /\ n < DestSz /\ \A k \in 1..len : k < DestSz => k <= n
  BY <1>1, <1>3, <1>5, UcIaAssumption
<1>10. /\ Len(r.took) = len /\ Len(r.dest) = n
       /\ \A k \in 1..n : r.dest[k] = r.took[k]
  BY <1>1, <1>3, <1>6, <1>9
<1>11. n <= len
  BY <1>9
<1>12. Takes(r)
  BY <1>2, <1>5, <1>6, <1>7, <1>8, <1>9, <1>10, Zenon DEF Takes
<1>13. QED
  BY <1>5, <1>6, <1>8, <1>9, <1>10, <1>11, <1>12, Zenon

\* uc_getdata and sc_write: as many bytes as the line has are queued, those that
\* were copied first, and the last byte of the main loop's buffer stays as it is.
LEMMA GetWrites ==
  ASSUME LinesInv, Queue, GetAndWrite
  PROVE  /\ Queue' /\ buf'[DestSz] = buf[DestSz]
         /\ \E l : Takes(l) /\ Sends(s_writebuf', l, buf[DestSz])
<1>1. uc_ia_getdata
  BY Zenon DEF GetAndWrite
<1>2. PICK l : /\ Takes(l) /\ l = lines'[Len(lines')]
               /\ Len(l.dest) < DestSz /\ Len(l.dest) <= l.result
               /\ \A k \in 1..l.result : k < DestSz => k <= Len(l.dest)
               /\ \A k \in 1..Len(l.dest) : l.dest[k] = l.took[k]
  BY <1>1, GetTakes, Zenon
<1> DEFINE n == Len(l.dest)
           z == l.result
<1>3. n \in Nat /\ z \in Nat /\ DestSz \in Nat \ {0} /\ l.dest \in Seq(Bytes) /\ z > 0
  BY <1>2, UcIaAssumption DEF Takes, Line
<1>4. buf' = [k \in 1..DestSz |-> IF k <= n THEN l.dest[k] ELSE buf[k]] /\ s_writebuf' \in FromBuf(z)
  BY <1>2, Zenon DEF GetAndWrite
<1>5. PICK behind \in [DestSz+1..z -> Memory] :
        s_writebuf' = [k \in 1..z |-> IF k <= DestSz THEN buf'[k] ELSE behind[k]]
  BY <1>4, Zenon DEF FromBuf
<1>6. n < DestSz /\ n <= z /\ \A k \in 1..z : k < DestSz => k <= n
  BY <1>2, Zenon
<1>7. Memory \subseteq Chars /\ Bytes \subseteq Chars
  BY DEF Chars
<1>8. \A k \in 1..n : l.dest[k] \in Bytes /\ l.dest[k] = l.took[k]
  BY <1>2, <1>3
<1> HIDE DEF n, z
<1>9. buf \in [1..DestSz -> Chars]
  BY Zenon DEF Queue
<1>10. \A k \in 1..DestSz : (k <= n => k \in 1..n)
  BY <1>3
<1>11. DestSz \in 1..DestSz /\ ~(DestSz <= n)
  BY <1>3, <1>6
<1>12. buf' \in [1..DestSz -> Chars] /\ buf'[DestSz] = buf[DestSz]
  BY <1>4, <1>7, <1>8, <1>9, <1>10, <1>11, Zenon
<1>13. \A k \in 1..z : IF k <= DestSz THEN k \in 1..DestSz ELSE k \in DestSz+1..z
  BY <1>3
<1>14. s_writebuf' \in [1..z -> Chars]
  BY <1>5, <1>7, <1>12, <1>13, Zenon
<1>15. s_writebuf' \in Seq(Chars) /\ Len(s_writebuf') = z /\ s_writebuf' # <<>>
  <2>1. s_writebuf' \in Seq(Chars) /\ Len(s_writebuf') = z
    BY <1>3, <1>14
  <2>2. QED
    BY <1>3, <2>1
<1>16. ASSUME NEW k \in 1..z
       PROVE  \/ s_writebuf'[k] = l.took[k]
              \/ k = DestSz /\ s_writebuf'[k] = buf[DestSz]
              \/ k > DestSz
  <2>1. k <= DestSz => s_writebuf'[k] = buf'[k]
    BY <1>5, Zenon
  <2>2. \/ k <= DestSz /\ k <= n /\ k \in 1..n /\ k \in 1..DestSz
        \/ k = DestSz /\ k <= DestSz
        \/ k > DestSz
    <3>1. k \in Nat /\ k > 0 /\ DestSz \in Nat
      BY <1>3
    <3>2. k < DestSz \/ k = DestSz \/ k > DestSz
      BY <3>1
    <3>3. CASE k < DestSz
      <4>1. k <= n
        BY <1>6, <3>3, Zenon
      <4>2. QED
        BY <1>3, <3>1, <3>3, <4>1
    <3>4. QED
      BY <3>1, <3>2, <3>3
  <2>3. QED
    BY <1>4, <1>8, <1>12, <2>1, <2>2, Zenon
<1>17. Sends(s_writebuf', l, buf[DestSz])
  BY <1>15, <1>16, Zenon DEF Sends, z
<1>18. wrote' = wrote /\ s_state' = "WRITING"
  BY Zenon DEF GetAndWrite
<1>19. Queue'
  BY <1>12, <1>15, <1>18 DEF Queue
<1>20. QED
  BY <1>2, <1>12, <1>17, <1>19, Zenon

\* The bytes of line l stand at their place in all, from start on.
Placed(all, start, l, last) ==
  \A k \in 1..l.result :
    \/ all[start + k] = l.took[k]
    \/ k = DestSz /\ all[start + k] = last
    \/ k > DestSz

\* InPlace for the lines ls and what is sent of them.
LinesIn(ls, all, last) ==
  /\ Len(all) = StartOf(ls, Len(ls))
  /\ \A l \in 1..Len(ls) : Placed(all, StartOf(ls, l - 1), ls[l], last)
  /\ \A l \in 0..Len(ls) : StartOf(ls, l) \in Nat /\ StartOf(ls, l) <= Len(all)

LEMMA InPlaceIs == InPlace <=> LinesIn(lines, AllSent, buf[DestSz])
<1>1. \A k : LineStarts(k) = StartOf(lines, k)
  BY Zenon DEF LineStarts, StartOf
<1>2. QED
  BY <1>1, Zenon DEF InPlace, CutLinesKeepTheirPlace, AllSent, LinesIn, Placed

\* And in the next state.
LEMMA InPlaceNext == InPlace' <=> LinesIn(lines', AllSent', buf'[DestSz])
<1>1. \A k : LineStarts(k)' = StartOf(lines', k)
  BY Zenon DEF LineStarts, StartOf
<1>2. QED
  BY <1>1, Zenon DEF InPlace, CutLinesKeepTheirPlace, AllSent, LinesIn, Placed

\* A line that is in its place stays there, whatever follows.
LEMMA PlacedStays ==
  ASSUME NEW all \in Seq(Chars), NEW w \in Seq(Chars), NEW l \in Line, NEW s \in Nat,
         NEW e, s + l.result <= Len(all), Placed(all, s, l, e)
  PROVE  Placed(all \o w, s, l, e)
<1> DEFINE b == all \o w
           z == l.result
<1>1. z \in Nat
  BY DEF Line
<1>2. \A p \in 1..Len(all) : b[p] = all[p]
  OBVIOUS
<1> DEFINE m == Len(all)
<1>3. m \in Nat
  OBVIOUS
<1>4. s + z <= m
  OBVIOUS
<1> HIDE DEF z, m, b
<1>5. \A k \in 1..z : s + k \in 1..m
  BY <1>1, <1>3, <1>4
<1>6. \A k \in 1..z : b[s + k] = all[s + k]
  BY <1>2, <1>5, Zenon DEF m
<1>7. QED
  BY <1>6, Zenon DEF Placed, b, z

\* And the next one is placed behind what has been sent.
LEMMA PlacedNext ==
  ASSUME NEW all \in Seq(Chars), NEW w \in Seq(Chars), NEW l \in Line, NEW e,
         Sends(w, l, e)
  PROVE  Placed(all \o w, Len(all), l, e)
<1> DEFINE b == all \o w
           m == Len(all)
<1>1. \A k \in 1..Len(w) : b[m + k] = w[k]
  OBVIOUS
<1>2. \A k \in 1..l.result : b[m + k] = w[k]
  BY <1>1, Zenon DEF Sends
<1> HIDE DEF b, m
<1>3. Placed(b, m, l, e)
  BY <1>2, Zenon DEF Placed, Sends
<1>4. QED
  BY <1>3 DEF b, m

\* The length of two parts.
LEMMA Joined ==
  ASSUME NEW all \in Seq(Chars), NEW w \in Seq(Chars)
  PROVE  all \o w \in Seq(Chars) /\ Len(all \o w) = Len(all) + Len(w) /\ Len(all) \in Nat
  OBVIOUS

\* Another line behind those that are in their places.
LEMMA LinesInNext ==
  ASSUME NEW ls \in Seq(Line), NEW all \in Seq(Chars), NEW l \in Line, NEW w, NEW e,
         Sends(w, l, e), LinesIn(ls, all, e)
  PROVE  LinesIn(Append(ls, l), all \o w, e)
<1> DEFINE ms == Append(ls, l)
           n  == Len(ls)
           k  == n + 1
           b  == all \o w
           m  == Len(all)
<1>1. /\ n \in Nat /\ k \in Nat /\ k - 1 = n /\ n \in 0..n
      /\ \A i \in 1..k : i \in 1..n \/ i = k
      /\ \A i \in 0..k : i \in 0..n \/ i = k
      /\ \A i \in 1..n : i \in Nat /\ i - 1 \in Nat /\ i - 1 \in 0..n /\ i \in 0..n /\ (i - 1) + 1 = i
  OBVIOUS
<1>2. /\ Len(ms) = k /\ ms[k] = l /\ \A i \in 1..n : ms[i] = ls[i] /\ ls[i] \in Line
  OBVIOUS
<1>3. w \in Seq(Chars) /\ Len(w) = l.result /\ l.result \in Nat
  BY DEF Sends, Line
<1>4. b \in Seq(Chars) /\ Len(b) = m + l.result /\ m \in Nat
  BY <1>3, Joined, Zenon
<1>5. \A i \in 0..n : i \in Nat /\ SameUpTo(ls, ms, i)
  <2>1. \A i \in 0..n : i \in Nat /\ \A j \in 1..i : j \in 1..n
    BY <1>1
  <2> HIDE DEF ms, n
  <2>2. QED
    BY <1>2, <2>1, Zenon DEF SameUpTo
<1> HIDE DEF ms, n
<1>6. \A i \in 0..n : StartOf(ms, i) = StartOf(ls, i)
  BY <1>5, StartSame, Zenon
<1>7. StartOf(ms, k) = StartOf(ls, n) + l.result
  <2>1. StartOf(ms, n + 1) = StartOf(ms, n) + ms[n + 1].result
    BY <1>1, StartNext
  <2>2. ms[n + 1] = l /\ StartOf(ms, n) = StartOf(ls, n)
    BY <1>1, <1>2, <1>6, Zenon
  <2>3. QED
    BY <2>1, <2>2, Zenon
<1>8. /\ m = StartOf(ls, n)
      /\ \A i \in 1..n : Placed(all, StartOf(ls, i - 1), ls[i], e)
      /\ \A i \in 0..n : StartOf(ls, i) \in Nat /\ StartOf(ls, i) <= m
  BY Zenon DEF LinesIn, n
<1> HIDE DEF k, m, b
<1>9. Len(b) = StartOf(ms, k)
  BY <1>4, <1>7, <1>8, Zenon
<1>10. ASSUME NEW i \in 1..k
       PROVE  Placed(b, StartOf(ms, i - 1), ms[i], e)
  <2>1. CASE i \in 1..n
    <3> DEFINE s == StartOf(ls, i - 1)
    <3>1. i - 1 \in Nat /\ i - 1 \in 0..n /\ i \in 0..n /\ (i - 1) + 1 = i
      BY <1>1, <2>1, Zenon
    <3>2. StartOf(ls, (i - 1) + 1) = s + ls[(i - 1) + 1].result
      BY <3>1, StartNext, Zenon
    <3>3. s \in Nat /\ s + ls[i].result <= m /\ Placed(all, s, ls[i], e) /\ ls[i] \in Line
      BY <1>2, <1>8, <2>1, <3>1, <3>2, Zenon
    <3> HIDE DEF s
    <3>4. Placed(b, s, ls[i], e)
      BY <1>3, <3>3, PlacedStays DEF b, m
    <3>5. QED
      BY <1>2, <1>6, <2>1, <3>1, <3>4, Zenon DEF s
  <2>2. CASE i = k
    <3>1. Placed(b, m, l, e)
      BY <1>3, PlacedNext DEF b, m
    <3>2. StartOf(ms, i - 1) = m
      BY <1>1, <1>6, <1>8, <2>2, Zenon
    <3>3. QED
      BY <1>2, <2>2, <3>1, <3>2, Zenon
  <2>3. QED
    BY <1>1, <2>1, <2>2, Zenon
<1>11. ASSUME NEW i \in 0..k
       PROVE  StartOf(ms, i) \in Nat /\ StartOf(ms, i) <= Len(b)
  <2>1. CASE i \in 0..n
    <3>1. StartOf(ms, i) \in Nat /\ StartOf(ms, i) <= m
      BY <1>6, <1>8, <2>1, Zenon
    <3>2. QED
      BY <1>3, <1>4, <3>1
  <2>2. CASE i = k
    <3>1. Len(b) \in Nat
      BY <1>4
    <3>2. QED
      BY <1>9, <2>2, <3>1
  <2>3. QED
    BY <1>1, <2>1, <2>2, Zenon
<1>12. LinesIn(ms, b, e)
  BY <1>2, <1>9, <1>10, <1>11, Zenon DEF LinesIn
<1>13. QED
  BY <1>12 DEF ms, b
-----------------------------------------------------------------------------
(* Input of lines that fit *)

\* What has been typed before was such input already.
LEMMA ShortPrefix ==
  ASSUME NEW s \in Seq(Bytes), NEW b \in Bytes, Short(Append(s, b))
  PROVE  Short(s)
<1> DEFINE q == Append(s, b)
           n == Len(s)
<1>1. n \in Nat /\ Len(q) = n + 1 /\ \A k \in 1..n : q[k] = s[k]
  OBVIOUS
<1> HIDE DEF q, n
<1>2. /\ \A k \in 1..n : k \in 1..n+1
      /\ \A i \in 0..n : i \in 0..n+1 /\ i <= n + 1 /\ (i = 0 \/ i \in 1..n)
      /\ \A i, j \in 0..n : \A k \in i+1..j : k \in 1..n
      /\ \A i \in 0..n : i + READBUFSZ <= n =>
           i + READBUFSZ <= n + 1 /\ \A k \in i+1..i+READBUFSZ : k \in 1..n
  BY <1>1, UcIaAssumption
<1>3. Ordinary(q)
  BY Zenon DEF Short, q
<1>4. Ordinary(s)
  <2>1. /\ \A i \in 1..n+1 : q[i] # NUL
        /\ \A i \in 0..n+1 : i + READBUFSZ <= n + 1 => \E k \in i+1..i+READBUFSZ : q[k] = NL
    BY <1>1, <1>3, Zenon DEF Ordinary
  <2>2. \A i \in 1..n : s[i] # NUL
    BY <1>1, <1>2, <2>1, Zenon
  <2>3. ASSUME NEW i \in 0..n, i + READBUFSZ <= n
        PROVE  \E k \in i+1..i+READBUFSZ : s[k] = NL
    BY <1>1, <1>2, <2>1, <2>3, Zenon
  <2>4. QED
    BY <2>2, <2>3, Zenon DEF Ordinary, n
<1>5. ASSUME NEW i \in 0..n, NEW j \in 0..n, i <= j, i = 0 \/ s[i] = NL, \A k \in i+1..j : s[k] # NL
      PROVE  j - i + 1 < DestSz
  <2>1. i \in 0..n+1 /\ j \in 0..n+1
    BY <1>2, Zenon
  <2>2. i = 0 \/ q[i] = NL
    BY <1>1, <1>2, <1>5, Zenon
  <2>3. \A k \in i+1..j : q[k] # NL
    BY <1>1, <1>2, <1>5, Zenon
  <2>4. \A u, v \in 0..n+1 : u <= v /\ (u = 0 \/ q[u] = NL) /\ (\A k \in u+1..v : q[k] # NL) => v - u + 1 < DestSz
    BY <1>1, Zenon DEF Short, q
  <2>5. QED
    BY <1>5, <2>1, <2>2, <2>3, <2>4, Zenon
<1>6. QED
  BY <1>4, <1>5, Zenon DEF Short, n

\* What is before stays at its place.
LEMMA JoinedAt ==
  ASSUME NEW b \in Seq(Bytes), NEW r \in Seq(Bytes)
  PROVE  /\ \A k \in 1..Len(b) : (b \o r)[k] = b[k]
         /\ Len(b \o r) = Len(b) + Len(r)
  OBVIOUS

\* Where the line a begins and ends between what is before it and behind it.
LEMMA LineAt ==
  ASSUME NEW t \in Seq(Bytes), NEW a \in Seq(Bytes), NEW r \in Seq(Bytes)
  PROVE  /\ \A k \in 1..Len(t) : ((t \o a) \o r)[k] = t[k]
         /\ \A k \in 1..Len(a) : ((t \o a) \o r)[Len(t) + k] = a[k]
         /\ Len((t \o a) \o r) = (Len(t) + Len(a)) + Len(r)
<1> DEFINE b == t \o a
<1>1. b \in Seq(Bytes) /\ Len(b) = Len(t) + Len(a)
  OBVIOUS
<1>2. /\ \A k \in 1..Len(t) : b[k] = t[k] /\ k \in 1..Len(b)
      /\ \A k \in 1..Len(a) : b[Len(t) + k] = a[k] /\ Len(t) + k \in 1..Len(b)
  OBVIOUS
<1> HIDE DEF b
<1>3. (\A k \in 1..Len(b) : (b \o r)[k] = b[k]) /\ Len(b \o r) = Len(b) + Len(r)
  BY <1>1, JoinedAt, Zenon
<1>4. /\ \A k \in 1..Len(t) : (b \o r)[k] = t[k]
      /\ \A k \in 1..Len(a) : (b \o r)[Len(t) + k] = a[k]
      /\ Len(b \o r) = (Len(t) + Len(a)) + Len(r)
  BY <1>1, <1>2, <1>3, Zenon
<1>5. QED
  BY <1>4 DEF b

\* The positions in such input that the line's ends have.
LEMMA LineEnds ==
  ASSUME NEW m \in Nat, NEW n \in Nat, NEW p \in Nat, n > 0
  PROVE  /\ m \in 0..(m + n) + p /\ (m + n) - 1 \in 0..(m + n) + p /\ m <= (m + n) - 1
         /\ ((m + n) - 1) - m + 1 = n
         /\ \A k \in m+1..(m + n)-1 : k - m \in 1..n /\ k - m # n /\ m + (k - m) = k
         /\ m # 0 => m \in 1..m
  OBVIOUS

\* Each line of such input fits.
LEMMA ShortLine ==
  ASSUME NEW t \in Seq(Bytes), NEW a \in Seq(Bytes), NEW r \in Seq(Bytes),
         EndsWithNl(t), OneLine(a), Len(a) > 0, Short((t \o a) \o r)
  PROVE  Len(a) < DestSz
<1> DEFINE s == (t \o a) \o r
           m == Len(t)
           n == Len(a)
           p == Len(r)
           j == (m + n) - 1
<1>1. /\ \A k \in 1..m : s[k] = t[k]
      /\ \A k \in 1..n : s[m + k] = a[k]
      /\ Len(s) = (m + n) + p
  BY LineAt
<1>2. m \in Nat /\ n \in Nat /\ p \in Nat /\ n > 0
  OBVIOUS
<1>3. {k \in 1..n : a[k] = NL} = {n}
  BY Zenon DEF OneLine
<1>4. m = 0 \/ t[m] = NL
  BY DEF EndsWithNl
<1>5. \A u, v \in 0..Len(s) : u <= v /\ (u = 0 \/ s[u] = NL) /\ (\A k \in u+1..v : s[k] # NL) => v - u + 1 < DestSz
  BY Zenon DEF Short
<1> HIDE DEF s, m, n, p
<1>6. /\ m \in 0..(m + n) + p /\ j \in 0..(m + n) + p /\ m <= j /\ j - m + 1 = n
      /\ \A k \in m+1..j : k - m \in 1..n /\ k - m # n /\ m + (k - m) = k
      /\ m # 0 => m \in 1..m
  BY <1>2, LineEnds
<1> HIDE DEF j
<1>7. m = 0 \/ s[m] = NL
  BY <1>1, <1>4, <1>6, Zenon
<1>8. \A k \in m+1..j : s[k] # NL
  <2> SUFFICES ASSUME NEW k \in m+1..j PROVE s[k] # NL
    BY Zenon
  <2>1. k - m \in 1..n /\ k - m # n /\ m + (k - m) = k
    BY <1>6, Zenon
  <2>2. a[k - m] # NL
    BY <1>3, <2>1, Zenon
  <2>3. s[m + (k - m)] = a[k - m]
    BY <1>1, <2>1, Zenon
  <2>4. QED
    BY <2>1, <2>2, <2>3, Zenon
<1>9. j - m + 1 < DestSz
  BY <1>1, <1>5, <1>6, <1>7, <1>8, Zenon
<1>10. n < DestSz
  BY <1>6, <1>9, Zenon
<1>11. QED
  BY <1>10 DEF n
-----------------------------------------------------------------------------
(* The invariant of the way to the switch *)

\* What is taken ends with the line taken last.
LEMMA EndsNext ==
  ASSUME NEW t \in Seq(Bytes), NEW a \in Seq(Bytes), OneLine(a), Len(a) > 0
  PROVE  EndsWithNl(t \o a)
<1> DEFINE n == Len(a)
           b == t \o a
<1>1. n \in 1..n /\ b[Len(t) + n] = a[n] /\ Len(b) = Len(t) + n
  OBVIOUS
<1>2. a[n] = NL
  BY <1>1, Zenon DEF OneLine
<1>3. b[Len(b)] = NL
  <2> HIDE DEF b, n
  <2>1. QED
    BY <1>1, <1>2, Zenon
<1>4. QED
  BY <1>3 DEF EndsWithNl

\* A line that fits is sent as it was typed.
LEMMA SendsWhole ==
  ASSUME NEW w, NEW l \in Line, NEW e, Sends(w, l, e), l.result = Len(l.took),
         Len(l.took) < DestSz
  PROVE  w = l.took
<1> DEFINE a == l.took
           n == Len(a)
<1>1. a \in Seq(Bytes) /\ w \in Seq(Chars) /\ Len(w) = n
  BY DEF Line, Sends
<1>2. n \in Nat /\ DestSz \in Nat /\ n < DestSz
  BY <1>1, UcIaAssumption
<1>3. \A k \in 1..n : w[k] = a[k] \/ k = DestSz \/ k > DestSz
  BY Zenon DEF Sends
<1> HIDE DEF a
<1>4. \A k \in 1..n : w[k] = a[k]
  <2> HIDE DEF n
  <2>1. \A k \in 1..n : k # DestSz /\ ~(k > DestSz)
    BY <1>2
  <2>2. QED
    BY <1>3, <2>1, Zenon
<1>5. w = a
  BY <1>1, <1>4
<1>6. QED
  BY <1>5 DEF a

\* The line that getdata hands over goes behind what has been sent.
LEMMA RelayGet ==
  ASSUME LinesInv, Queue, InPlace, InOrder, GetAndWrite
  PROVE  Queue' /\ InPlace' /\ InOrder'
<1>1. PICK l : Takes(l) /\ Sends(s_writebuf', l, buf[DestSz])
  BY GetWrites, Zenon
<1>2. Queue' /\ buf'[DestSz] = buf[DestSz]
  BY GetWrites, Zenon
<1>3. s_writebuf = <<>> /\ wrote' = wrote /\ wrote \in Seq(Chars) /\ typed' = typed /\ stdin' = stdin
  BY DEF GetAndWrite, uc_ia_getdata, Queue
<1>4. AllSent = wrote /\ AllSent' = wrote \o s_writebuf'
  BY <1>3 DEF AllSent
<1>5. l \in Line /\ lines' = Append(lines, l) /\ lines \in Seq(Line)
  BY <1>1, Zenon DEF Takes, LinesInv
<1>6. InPlace'
  <2>1. LinesIn(lines, wrote, buf[DestSz])
    BY <1>4, InPlaceIs, Zenon
  <2>2. LinesIn(Append(lines, l), wrote \o s_writebuf', buf[DestSz])
    BY <1>1, <1>3, <1>5, <2>1, LinesInNext, Zenon
  <2>3. LinesIn(lines', AllSent', buf'[DestSz])
    BY <1>2, <1>4, <1>5, <2>2, Zenon
  <2>4. InPlace' <=> LinesIn(lines', AllSent', buf'[DestSz])
    BY InPlaceNext, Zenon
  <2>5. QED
    BY <2>3, <2>4, Zenon
<1> DEFINE t == Taken(lines)
           a == l.took
           r == s_readbuf' \o stdin
<1>7. t' = t \o a
  BY <1>5, TakenAppend, Zenon
<1>8. /\ t \in Seq(Bytes) /\ a \in Seq(Bytes) /\ stdin \in Seq(Bytes) /\ s_readbuf \in Seq(Bytes)
      /\ (t \o s_readbuf) \o stdin = typed /\ EndsWithNl(t)
      /\ OneLine(a) /\ Len(a) > 0 /\ a \o s_readbuf' = s_readbuf /\ l.result = Len(a)
  BY <1>1, Zenon DEF LinesInv, LineByLine, TypeOK, InOrder, Takes, Line
<1>9. s_readbuf' \in Seq(Bytes)
  <2>1. PICK k \in Line : lines' = Append(lines, k) /\ s_readbuf' \in Seq(Bytes)
    BY LineTaken, Zenon DEF LinesInv, GetAndWrite
  <2>2. QED
    BY <2>1
<1> HIDE DEF t, a
<1>10. r \in Seq(Bytes) /\ (t \o a) \o r = typed
  <2> HIDE DEF r
  <2> DEFINE u == s_readbuf'
  <2>0. t \in Seq(Bytes) /\ a \in Seq(Bytes) /\ u \in Seq(Bytes) /\ stdin \in Seq(Bytes)
    BY <1>8, <1>9, Zenon
  <2> HIDE DEF u
  <2>1. t \o a \in Seq(Bytes) /\ (t \o a) \o u = t \o (a \o u)
    <3>1. t \in Seq(Bytes) /\ a \in Seq(Bytes) /\ u \in Seq(Bytes)
      BY <2>0, Zenon
    <3>2. QED
      BY <3>1, Associative, ZenonT(30)
  <2>2. ((t \o a) \o u) \o stdin = (t \o a) \o (u \o stdin)
    BY <2>0, <2>1, Associative, Zenon
  <2>3. u \o stdin \in Seq(Bytes)
    <3>1. u \in Seq(Bytes) /\ stdin \in Seq(Bytes)
      BY <2>0, Zenon
    <3>2. QED
      BY <3>1, Associative, Zenon
  <2>4. QED
    BY <1>8, <2>1, <2>2, <2>3, Zenon DEF r, u
<1> HIDE DEF r
<1>11. EndsWithNl(t)'
  <2>1. EndsWithNl(t \o a)
    BY <1>8, EndsNext, Zenon
  <2>2. QED
    BY <1>7, <2>1, Zenon DEF EndsWithNl
<1>12. ASSUME Short(typed)
       PROVE  AllSent' = t'
  <2>1. Len(a) < DestSz
    BY <1>8, <1>10, <1>12, ShortLine, Zenon
  <2>2. s_writebuf' = a
    BY <1>1, <1>5, <1>8, <2>1, SendsWhole, Zenon DEF a
  <2>3. AllSent = t
    BY <1>12, Zenon DEF InOrder, t
  <2>4. QED
    BY <1>4, <1>7, <2>2, <2>3, Zenon
<1>13. InOrder'
  <2>1. Short(typed)' = Short(typed)
    BY <1>3, Zenon DEF Short, Ordinary
  <2>2. QED
    BY <1>11, <1>12, <2>1, Zenon DEF InOrder, t
<1>14. QED
  BY <1>2, <1>6, <1>13

\* What the steps that take no line leave as it is.
LEMMA RelaySame ==
  ASSUME LinesInv, InPlace, InOrder, lines' = lines, AllSent' = AllSent, buf' = buf,
         typed' = typed \/ \E b \in Bytes : typed' = Append(typed, b)
  PROVE  InPlace' /\ InOrder'
<1>1. InPlace'
  <2>1. InPlace' <=> LinesIn(lines', AllSent', buf'[DestSz])
    BY InPlaceNext, Zenon
  <2>2. LinesIn(lines, AllSent, buf[DestSz])
    BY InPlaceIs, Zenon
  <2>3. QED
    BY <2>1, <2>2, Zenon
<1>2. Taken(lines)' = Taken(lines)
  BY Zenon
<1>3. Short(typed') => Short(typed)
  <2>1. CASE typed' = typed
    BY <2>1, Zenon
  <2>2. CASE \E b \in Bytes : typed' = Append(typed, b)
    <3>1. typed \in Seq(Bytes)
      BY Zenon DEF LinesInv, TypeOK
    <3>2. PICK b \in Bytes : typed' = Append(typed, b)
      BY <2>2
    <3>3. QED
      BY <3>1, <3>2, ShortPrefix, Zenon
  <2>3. QED
    BY <2>1, <2>2
<1>4. EndsWithNl(Taken(lines)')
  BY <1>2, Zenon DEF InOrder
<1>5. QED
  BY <1>1, <1>2, <1>3, <1>4, Zenon DEF InOrder

\* Writing a byte moves it from what is queued to what is written.
LEMMA HeadMoves ==
  ASSUME NEW w \in Seq(Chars), NEW b \in Seq(Chars), b # <<>>
  PROVE  /\ Append(w, Head(b)) \in Seq(Chars) /\ Tail(b) \in Seq(Chars)
         /\ Append(w, Head(b)) \o Tail(b) = w \o b
  OBVIOUS

\* At the start there is nothing to send.
LEMMA RelayStarts == RelayInit => Queue /\ InPlace /\ InOrder
<1> SUFFICES ASSUME RelayInit PROVE Queue /\ InPlace /\ InOrder
  OBVIOUS
<1>1. wrote = <<>> /\ s_writebuf = <<>> /\ lines = <<>> /\ s_state = "BUSY" /\ buf \in [1..DestSz -> Memory]
  BY DEF RelayInit, Init
<1>2. Queue
  <2>1. Memory \subseteq Chars
    BY DEF Chars
  <2>2. buf \in [1..DestSz -> Chars]
    BY <1>1, <2>1
  <2>3. wrote \in Seq(Chars) /\ s_writebuf \in Seq(Chars)
    BY <1>1
  <2>4. QED
    BY <1>1, <2>2, <2>3 DEF Queue
<1>3. AllSent = <<>> /\ Len(AllSent) = 0 /\ Len(lines) = 0
  BY <1>1 DEF AllSent
<1>4. LinesIn(lines, AllSent, buf[DestSz])
  <2>1. (\A l \in 1..0 : FALSE) /\ (\A l \in 0..0 : l = 0) /\ 0 \in Nat /\ 0 <= 0
    OBVIOUS
  <2>2. StartOf(lines, 0) = 0
    BY StartZero
  <2>3. QED
    BY <1>3, <2>1, <2>2, Zenon DEF LinesIn
<1>5. InPlace
  BY <1>4, InPlaceIs, Zenon
<1>6. Taken(lines) = <<>>
  BY <1>1, TakenNone, Zenon
<1>7. InOrder
  BY <1>3, <1>6, Zenon DEF InOrder, EndsWithNl
<1>8. QED
  BY <1>2, <1>5, <1>7

\* A step of any of the parts.
LEMMA RelayStep ==
  ASSUME LinesInv, Queue, InPlace, InOrder, [RelayNext]_relayVars
  PROVE  Queue' /\ InPlace' /\ InOrder'
<1>1. CASE GetAndWrite
  BY <1>1, RelayGet
<1>2. CASE oper_writing
  <2>1. s_writebuf # <<>> /\ UNCHANGED <<vars, buf>> /\ s_state' = "BUSY"
    BY <1>2, Zenon DEF oper_writing, Queue
  <2>2. wrote' = Append(wrote, Head(s_writebuf)) /\ s_writebuf' = Tail(s_writebuf)
    BY <1>2, Zenon DEF oper_writing
  <2>3. wrote \in Seq(Chars) /\ s_writebuf \in Seq(Chars)
    BY Zenon DEF Queue
  <2>4. /\ Append(wrote, Head(s_writebuf)) \in Seq(Chars) /\ Tail(s_writebuf) \in Seq(Chars)
        /\ Append(wrote, Head(s_writebuf)) \o Tail(s_writebuf) = wrote \o s_writebuf
    BY <2>1, <2>3, HeadMoves, Zenon
  <2>5. AllSent' = AllSent
    BY <2>2, <2>4, Zenon DEF AllSent
  <2>6. Queue'
    <3>1. buf' = buf
      BY <2>1, Zenon
    <3>2. "BUSY" # "READY" /\ "BUSY" # "WRITING"
      OBVIOUS
    <3>3. QED
      BY <2>1, <2>2, <2>4, <3>1, <3>2, Zenon DEF Queue
  <2>7. lines' = lines /\ typed' = typed
    BY <2>1, Zenon DEF vars
  <2>8. buf' = buf
    BY <2>1, Zenon
  <2>9. QED
    BY <2>5, <2>6, <2>7, <2>8, RelaySame, Zenon
<1>3. CASE oper_busy
  <2>1. UNCHANGED <<lines, typed, s_writebuf, wrote, buf>>
    BY <1>3, Zenon DEF oper_busy, vars
  <2>2. s_state' = IF s_writebuf # <<>> THEN "WRITING" ELSE "READY"
    BY <1>3, Zenon DEF oper_busy
  <2>3. Queue'
    BY <2>1, <2>2 DEF Queue
  <2>4. AllSent' = AllSent
    BY <2>1, Zenon DEF AllSent
  <2>5. QED
    BY <2>1, <2>3, <2>4, RelaySame, Zenon
<1>4. CASE UNCHANGED <<scVars, buf>> /\ lines' = lines
           /\ (typed' = typed \/ \E b \in Bytes : typed' = Append(typed, b))
  <2>1. UNCHANGED <<s_state, s_writebuf, wrote, buf>>
    BY <1>4, Zenon DEF scVars
  <2>2. Queue'
    BY <2>1, Zenon DEF Queue
  <2>3. AllSent' = AllSent
    BY <2>1, Zenon DEF AllSent
  <2>4. QED
    BY <1>4, <2>2, <2>3, RelaySame, Zenon
<1>5. CASE HasData
  <2>1. lines' = lines /\ typed' = typed /\ UNCHANGED <<scVars, buf>>
    BY <1>5, Zenon DEF HasData, uc_ia_hasdata, ReadZero, ReadMore
  <2>2. QED
    BY <1>4, <2>1, Zenon
<1>6. CASE (User \/ Ended) /\ UNCHANGED <<scVars, buf>>
  <2>1. lines' = lines /\ (typed' = typed \/ \E b \in Bytes : typed' = Append(typed, b))
    BY <1>6, Zenon DEF User, Type, Close, Ended, vars
  <2>2. QED
    BY <1>4, <1>6, <2>1, Zenon
<1>7. CASE UNCHANGED relayVars
  <2>1. lines' = lines /\ typed' = typed /\ UNCHANGED <<scVars, buf>>
    BY <1>7, Zenon DEF relayVars, vars
  <2>2. QED
    BY <1>4, <2>1, Zenon
<1>8. QED
  BY <1>1, <1>2, <1>3, <1>5, <1>6, <1>7, Zenon DEF RelayNext, core_run

\* To the front-end, a step of the whole is one of its own or none.
LEMMA FrontEndSteps ==
  ASSUME [RelayNext]_relayVars PROVE [Next]_vars
<1>1. CASE HasData
  BY <1>1, Zenon DEF HasData, Next, Program
<1>2. CASE GetAndWrite
  BY <1>2, Zenon DEF GetAndWrite, Next, Program
<1>3. CASE oper_writing \/ oper_busy \/ UNCHANGED relayVars
  BY <1>3, Zenon DEF oper_writing, oper_busy, relayVars
<1>4. CASE (User \/ Ended) /\ UNCHANGED <<scVars, buf>>
  BY <1>4, Zenon DEF Next
<1>5. QED
  BY <1>1, <1>2, <1>3, <1>4, Zenon DEF RelayNext, core_run

\* The inductive invariant holds in every state.
LEMMA RelayInvariant == RelaySpec => []RInv
<1>1. RelayInit => Init
  BY DEF RelayInit
<1>2. [RelayNext]_relayVars => [Next]_vars
  BY FrontEndSteps
<1>3. RelaySpec => []LinesInv
  BY <1>1, <1>2, LinesInvariant, PTL DEF RelaySpec
<1>4. QED
  BY <1>3, RelayStarts, RelayStep, PTL DEF RelaySpec, RInv

\* What is sent of a line stands where the line belongs and begins with what was
\* typed, as far as it was copied, whatever comes in the place of the rest: for
\* every size of the buffers and every content of the memory.
THEOREM CutLinesStay == RelaySpec => []CutLinesKeepTheirPlace
<1>1. RInv => CutLinesKeepTheirPlace
  BY Zenon DEF RInv, InPlace
<1>2. QED
  BY <1>1, RelayInvariant, PTL
-----------------------------------------------------------------------------
(* The refinement of Wire *)

\* The bytes of the first part of three.
LEMMA FirstPart ==
  ASSUME NEW w \in Seq(Chars), NEW b \in Seq(Chars), b # <<>>, w \o b \in Seq(Bytes),
         NEW r \in Seq(Bytes), NEW s \in Seq(Bytes), EndsWithNl(w \o b), s = (w \o b) \o r
  PROVE  /\ Append(w, Head(b)) = Append(w, s[Len(w) + 1])
         /\ \E k \in Len(w)+1..Len(s) : s[k] = NL
<1> DEFINE t == w \o b
           m == Len(w)
           n == Len(b)
<1>1. m \in Nat /\ n \in Nat \ {0} /\ Len(t) = m + n /\ t[m + 1] = Head(b)
  OBVIOUS
<1>2. t # <<>>
  <2> HIDE DEF m, n, t
  <2>1. Len(t) # 0
    BY <1>1
  <2>2. QED
    BY <2>1
<1> HIDE DEF t
<1>3. (\A k \in 1..Len(t) : s[k] = t[k]) /\ Len(s) = Len(t) + Len(r) /\ Len(r) \in Nat
  <2>1. t \in Seq(Bytes) /\ s = t \o r
    BY Zenon DEF t
  <2>2. Len(r) \in Nat
    OBVIOUS
  <2>3. (\A k \in 1..Len(t) : (t \o r)[k] = t[k]) /\ Len(t \o r) = Len(t) + Len(r)
    BY <2>1, JoinedAt
  <2>4. QED
    BY <2>1, <2>2, <2>3, Zenon
<1>4. t[Len(t)] = NL
  BY <1>2, Zenon DEF EndsWithNl, t
<1> DEFINE p == Len(r)
<1> HIDE DEF m, n, p
<1>5. m + 1 \in 1..m+n /\ m + n \in 1..m+n /\ m + n \in m+1..(m+n)+p
  BY <1>1, <1>3 DEF p
<1>6. s[m + 1] = Head(b) /\ s[m + n] = NL
  BY <1>1, <1>3, <1>4, <1>5, Zenon
<1>7. \E k \in m+1..Len(s) : s[k] = NL
  BY <1>1, <1>3, <1>5, <1>6, Zenon DEF p
<1>8. QED
  BY <1>6, <1>7, Zenon DEF m

\* sc.c writes the byte that comes next of what was typed.
LEMMA WritesNext ==
  ASSUME RInv, oper_writing
  PROVE  TheWire!Send \/ TheWire!Garble
<1>1. typed' = typed /\ exit' = exit /\ exit = "none"
  BY Zenon DEF oper_writing, vars
<1>2. CASE ~Short(typed)
  BY <1>1, <1>2, Zenon DEF TheWire!Garble
<1>3. CASE Short(typed)
  <2> DEFINE t == Taken(lines)
  <2>1. wrote \o s_writebuf = t /\ EndsWithNl(t)
    BY <1>3, Zenon DEF RInv, InOrder, AllSent
  <2>2. /\ t \in Seq(Bytes) /\ s_readbuf \in Seq(Bytes) /\ stdin \in Seq(Bytes) /\ typed \in Seq(Bytes)
        /\ (t \o s_readbuf) \o stdin = typed
    BY Zenon DEF RInv, LinesInv, LineByLine, TypeOK
  <2>3. wrote \in Seq(Chars) /\ s_writebuf \in Seq(Chars) /\ s_writebuf # <<>>
    BY Zenon DEF RInv, Queue, oper_writing
  <2> HIDE DEF t
  <2>4. s_readbuf \o stdin \in Seq(Bytes) /\ typed = t \o (s_readbuf \o stdin)
    <3>1. s_readbuf \o stdin \in Seq(Bytes)
      <4>1. s_readbuf \in Seq(Bytes) /\ stdin \in Seq(Bytes)
        BY <2>2, Zenon
      <4>2. QED
        BY <4>1, Associative, Zenon
    <3>2. (t \o s_readbuf) \o stdin = t \o (s_readbuf \o stdin)
      <4>1. t \in Seq(Bytes) /\ s_readbuf \in Seq(Bytes) /\ stdin \in Seq(Bytes)
        BY <2>2, Zenon
      <4>2. QED
        BY <4>1, Associative, ZenonT(30)
    <3>3. QED
      BY <2>2, <3>1, <3>2, Zenon
  <2>5. /\ Append(wrote, Head(s_writebuf)) = Append(wrote, typed[Len(wrote) + 1])
        /\ \E k \in Len(wrote)+1..Len(typed) : typed[k] = NL
    <3> DEFINE r == s_readbuf \o stdin
    <3>1. /\ r \in Seq(Bytes) /\ typed = (wrote \o s_writebuf) \o r
          /\ wrote \o s_writebuf \in Seq(Bytes) /\ EndsWithNl(wrote \o s_writebuf)
      BY <2>1, <2>2, <2>4, Zenon
    <3>2. typed \in Seq(Bytes)
      BY <2>2, Zenon
    <3> HIDE DEF r
    <3>3. QED
      BY <2>3, <3>1, <3>2, FirstPart
  <2>6. wrote' = Append(wrote, typed[Len(wrote) + 1])
    BY <2>5, Zenon DEF oper_writing
  <2>7. QED
    BY <1>1, <1>3, <2>5, <2>6, Zenon DEF TheWire!Send
<1>4. QED
  BY <1>2, <1>3

\* The user types another byte.
LEMMA TypesNext ==
  ASSUME LinesInv, NEW b \in Bytes, Type(b), UNCHANGED <<scVars, buf>>
  PROVE  TheWire!Type
<1>1. typed \in Seq(Bytes) /\ typed' = Append(typed, b) /\ exit' = exit /\ wrote' = wrote
  BY Zenon DEF LinesInv, TypeOK, Type, scVars
<1>2. Len(typed') = Len(typed) + 1 /\ SubSeq(typed', 1, Len(typed)) = typed
  BY <1>1
<1>3. QED
  BY <1>1, <1>2, Zenon DEF TheWire!Type

\* The detailed steps are those of Wire, or change nothing that it sees.
LEMMA WireStep ==
  ASSUME RInv, [RelayNext]_relayVars
  PROVE  [TheWire!Type \/ TheWire!Send \/ TheWire!Garble \/ TheWire!End]_(TheWire!wvars)
<1>1. CASE oper_writing
  BY <1>1, WritesNext, Zenon
<1>2. CASE HasData /\ ReadZero
  <2>1. exit' # "none" /\ typed' = typed /\ wrote' = wrote
    BY <1>2 DEF HasData, ReadZero, scVars
  <2>2. TheWire!End
    BY <2>1, Zenon DEF TheWire!End
  <2>3. QED
    BY <2>2, Zenon
<1>3. CASE (\E b \in Bytes : Type(b)) /\ UNCHANGED <<scVars, buf>>
  BY <1>3, TypesNext, Zenon DEF RInv
<1>4. CASE typed' = typed /\ wrote' = wrote /\ exit' = exit
  BY <1>4, Zenon DEF TheWire!wvars
<1>5. CASE HasData /\ ~ReadZero
  <2>1. typed' = typed /\ wrote' = wrote /\ exit' = exit
    BY <1>5, Zenon DEF HasData, uc_ia_hasdata, ReadMore, scVars
  <2>2. QED
    BY <1>4, <2>1, Zenon
<1>6. CASE GetAndWrite \/ oper_busy \/ UNCHANGED relayVars
  <2>1. typed' = typed /\ wrote' = wrote /\ exit' = exit
    BY <1>6, Zenon DEF GetAndWrite, uc_ia_getdata, oper_busy, relayVars, scVars, vars
  <2>2. QED
    BY <1>4, <2>1, Zenon
<1>7. CASE (Close \/ Ended) /\ UNCHANGED <<scVars, buf>>
  <2>1. typed' = typed /\ wrote' = wrote /\ exit' = exit
    BY <1>7, Zenon DEF Close, Ended, scVars, vars
  <2>2. QED
    BY <1>4, <2>1, Zenon
<1>8. QED
  BY <1>1, <1>2, <1>3, <1>5, <1>6, <1>7, Zenon DEF RelayNext, core_run, User

\* From the keyboard to the switch nothing is lost, repeated or overtaken, while
\* what is typed are lines that fit: for every size of the buffers, and however
\* much is typed ahead.
THEOREM IsAWire == RelaySpec => ImplementsWire
<1>1. RelayInit => TheWire!WireInit
  <2> SUFFICES ASSUME RelayInit PROVE TheWire!WireInit
    OBVIOUS
  <2>1. typed = <<>> /\ wrote = <<>> /\ exit = "none"
    BY Zenon DEF RelayInit, Init
  <2>2. QED
    BY <2>1, Zenon DEF TheWire!WireInit
<1>2. QED
  BY <1>1, WireStep, RelayInvariant, PTL DEF RelaySpec, ImplementsWire, TheWire!WireSteps
=============================================================================
