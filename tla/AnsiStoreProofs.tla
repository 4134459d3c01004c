-------------------------- MODULE AnsiStoreProofs ---------------------------
(***************************************************************************)
(* The recogniser of escape sequences stops where a sequence ends, what it *)
(* stores of a sequence is what the sequence says, and only a sequence     *)
(* that does not fit by itself takes it out of bounds, for every input,    *)
(* every size of the buffers and every largest int.                        *)
(***************************************************************************)
EXTENDS AnsiStore, MinFacts, SequenceTheorems, FiniteSetTheorems

-----------------------------------------------------------------------------
(* Functions that are defined by recursion over a sequence.  Each has a    *)
(* lemma that it exists and satisfies its equations, and one that says     *)
(* what a byte more does to its last value.                                *)

\* The k-th value of such a function is made of the value before and of k.
Rules(A, n) == [A \X (1..n) -> A]

Follows(v, A, a, g, n) ==
  v \in [0..n -> A] /\ v[0] = a /\ \A k \in 1..n : v[k] = g[<<v[k-1], k>>]

LEMMA RecursionExists ==
  ASSUME NEW A, NEW a \in A, NEW n \in Nat, NEW g \in Rules(A, n)
  PROVE  \E v : Follows(v, A, a, g, n)
<1> USE DEF Rules, Follows
<1> DEFINE Is(v, m) == v[0] = a /\ \A k \in 1..m : v[k] = g[<<v[k-1], k>>]
           P == {m \in 0..n : \E v \in [0..m -> A] : Is(v, m)}
<1>1. 0 \in P
  <2> DEFINE v == [k \in 0..0 |-> a]
  <2>1. v \in [0..0 -> A] /\ v[0] = a /\ 0 \in 0..n /\ \A k \in 1..0 : FALSE
    OBVIOUS
  <2> HIDE DEF v
  <2>2. Is(v, 0)
    BY <2>1, Zenon
  <2>3. QED
    BY <2>1, <2>2, Zenon
<1>2. ASSUME NEW m \in 1..n, m - 1 \in P PROVE m \in P
  <2>1. PICK v \in [0..m-1 -> A] : Is(v, m-1)
    BY <1>2
  <2> DEFINE w == [k \in 0..m |-> IF k = m THEN g[<<v[m-1], m>>] ELSE v[k]]
  <2>2. m - 1 \in 0..m-1 /\ m \in 0..n /\ m \in 1..n /\ 0 \in 0..m /\ 0 # m
    OBVIOUS
  <2>3. g[<<v[m-1], m>>] \in A
    <3>1. v[m-1] \in A
      BY <2>1, <2>2
    <3>2. <<v[m-1], m>> \in A \X (1..n)
      BY <2>2, <3>1
    <3>3. QED
      BY <3>2
  <2>4. w \in [0..m -> A]
    BY <2>1, <2>3
  <2>5. w[m] = g[<<v[m-1], m>>] /\ \A k \in 0..m-1 : w[k] = v[k]
    BY <2>2
  <2> HIDE DEF w
  <2>6. w[0] = a
    BY <2>1, <2>5
  <2>7. ASSUME NEW k \in 1..m PROVE w[k] = g[<<w[k-1], k>>]
    <3>1. k - 1 \in 0..m-1
      OBVIOUS
    <3>2. w[k-1] = v[k-1]
      BY <2>5, <3>1, Zenon
    <3>3. CASE k = m
      BY <2>5, <3>2, <3>3
    <3>4. CASE k # m
      <4>1. k \in 1..m-1 /\ k \in 0..m-1
        BY <3>4
      <4>2. v[k] = g[<<v[k-1], k>>]
        BY <2>1, <4>1, Zenon
      <4>3. QED
        BY <2>5, <3>2, <4>1, <4>2, Zenon
    <3>5. QED
      BY <3>3, <3>4, Zenon
  <2>8. Is(w, m)
    BY <2>6, <2>7, Zenon
  <2>9. QED
    BY <2>2, <2>4, <2>8, Zenon
<1> HIDE DEF P
<1>3. n \in 0..n
  OBVIOUS
<1>4. n \in P
  BY <1>1, <1>2, <1>3, InductionUpTo, Zenon
<1>5. QED
  BY <1>4, Zenon DEF P

\* Two functions that begin alike and go on alike are the same.
GoAlike(v, w, n) == v[0] = w[0] /\ \A k \in 1..n : v[k-1] = w[k-1] => v[k] = w[k]
Alike(v, w, n)   == \A k \in 0..n : v[k] = w[k]

LEMMA SameValues ==
  ASSUME NEW n \in Nat, NEW v, NEW w, GoAlike(v, w, n)
  PROVE  Alike(v, w, n)
<1> DEFINE P == {k \in 0..n : v[k] = w[k]}
<1>1. 0 \in 0..n /\ \A k \in 1..n : k \in 0..n
  OBVIOUS
<1>2. 0 \in P /\ \A k \in 1..n : k - 1 \in P => k \in P
  BY <1>1, Zenon DEF GoAlike
<1> HIDE DEF P
<1>3. \A k \in 0..n : k \in P
  BY <1>2, InductionUpTo, Zenon
<1>4. QED
  BY <1>3, Zenon DEF P, Alike

\* What Without is computed from.
Kept(v, s, x) ==
  v = [k \in 0..Len(s) |-> IF k = 0 THEN <<>>
                           ELSE IF s[k] = x THEN v[k-1] ELSE Append(v[k-1], s[k])]

LEMMA KeptExists ==
  ASSUME NEW S, NEW s \in Seq(S), NEW x
  PROVE  \E v : Kept(v, s, x)
<1> DEFINE n == Len(s)
           g == [p \in Seq(S) \X (1..n) |-> IF s[p[2]] = x THEN p[1] ELSE Append(p[1], s[p[2]])]
<1>1. n \in Nat /\ \A k \in 1..n : s[k] \in S
  OBVIOUS
<1>2. ASSUME NEW r \in Seq(S), NEW k \in 1..n
      PROVE  g[<<r, k>>] = IF s[k] = x THEN r ELSE Append(r, s[k])
  <2> DEFINE p == <<r, k>>
  <2>1. p \in Seq(S) \X (1..n) /\ p[1] = r /\ p[2] = k
    BY Zenon
  <2> HIDE DEF p, n
  <2>2. g[p] = IF s[p[2]] = x THEN p[1] ELSE Append(p[1], s[p[2]])
    BY <2>1, Zenon
  <2>3. g[p] = IF s[k] = x THEN r ELSE Append(r, s[k])
    BY <2>1, <2>2, Zenon
  <2>4. QED
    BY <2>3, Zenon DEF p
<1>10. g \in [Seq(S) \X (1..n) -> Seq(S)]
  <2>1. ASSUME NEW p \in Seq(S) \X (1..n)
        PROVE  (IF s[p[2]] = x THEN p[1] ELSE Append(p[1], s[p[2]])) \in Seq(S)
    <3>1. p[1] \in Seq(S) /\ s[p[2]] \in S
      BY <1>1
    <3>2. QED
      BY <3>1
  <2>2. QED
    BY <2>1, Zenon
<1> HIDE DEF g
<1>3. <<>> \in Seq(S)
  OBVIOUS
<1>4. PICK v \in [0..n -> Seq(S)] : v[0] = <<>> /\ \A k \in 1..n : v[k] = g[<<v[k-1], k>>]
  <2> HIDE DEF n
  <2>1. n \in Nat
    BY <1>1, Zenon
  <2>2. g \in Rules(Seq(S), n)
    BY <1>10, Zenon DEF Rules
  <2>3. \E v : Follows(v, Seq(S), <<>>, g, n)
    BY <1>3, <2>1, <2>2, RecursionExists, Zenon
  <2>4. QED
    BY <2>3, Zenon DEF Follows
<1>5. \A k \in 1..n : k - 1 \in 0..n
  BY <1>1
<1>6. \A k \in 1..n : v[k] = IF s[k] = x THEN v[k-1] ELSE Append(v[k-1], s[k])
  <2> HIDE DEF n
  <2>1. QED
    BY <1>2, <1>4, <1>5, Zenon
<1> DEFINE e(k) == IF k = 0 THEN <<>> ELSE IF s[k] = x THEN v[k-1] ELSE Append(v[k-1], s[k])
<1>7. \A k \in 0..n : v[k] = e(k)
  <2>1. \A k \in 0..n : k = 0 \/ (k \in 1..n /\ k # 0)
    BY <1>1
  <2> HIDE DEF n
  <2>2. QED
    BY <1>4, <1>6, <2>1, Zenon
<1>8. v = [k \in 0..n |-> e(k)]
  <2> HIDE DEF e, n
  <2>1. QED
    BY <1>4, <1>7, Zenon
<1>9. QED
  BY <1>8, Zenon DEF Kept

\* The equations of such a function.
LEMMA KeptEquations ==
  ASSUME NEW S, NEW s \in Seq(S), NEW x, NEW v, Kept(v, s, x)
  PROVE  /\ v[0] = <<>>
         /\ \A k \in 1..Len(s) : v[k] = IF s[k] = x THEN v[k-1] ELSE Append(v[k-1], s[k])
<1> DEFINE e(k) == IF k = 0 THEN <<>> ELSE IF s[k] = x THEN v[k-1] ELSE Append(v[k-1], s[k])
<1>1. v = [k \in 0..Len(s) |-> e(k)]
  BY Zenon DEF Kept
<1>2. 0 \in 0..Len(s) /\ \A k \in 1..Len(s) : k \in 0..Len(s) /\ k # 0
  OBVIOUS
<1>3. \A k \in 0..Len(s) : v[k] = e(k)
  <2> HIDE DEF e
  <2>1. QED
    BY <1>1, Zenon
<1>4. QED
  BY <1>2, <1>3, Zenon

\* Without is the last value of one.
LEMMA WithoutIs ==
  ASSUME NEW S, NEW s \in Seq(S), NEW x
  PROVE  \E v : /\ v[0] = <<>>
                /\ \A k \in 1..Len(s) : v[k] = IF s[k] = x THEN v[k-1] ELSE Append(v[k-1], s[k])
                /\ Without(s, x) = v[Len(s)]
<1> DEFINE v == CHOOSE w : Kept(w, s, x)
<1>1. Kept(v, s, x)
  BY KeptExists, Zenon
<1>2. Without(s, x) = v[Len(s)]
  BY Zenon DEF Without, Kept
<1> HIDE DEF v
<1>3. /\ v[0] = <<>>
      /\ \A k \in 1..Len(s) : v[k] = IF s[k] = x THEN v[k-1] ELSE Append(v[k-1], s[k])
  BY <1>1, KeptEquations
<1>4. QED
  BY <1>2, <1>3, Zenon

LEMMA WithoutEmpty ==
  ASSUME NEW x
  PROVE  Without(<<>>, x) = <<>>
<1> DEFINE s == <<>>
<1>1. s \in Seq({x}) /\ Len(s) = 0
  OBVIOUS
<1> HIDE DEF s
<1>2. PICK v : /\ v[0] = <<>>
               /\ \A k \in 1..Len(s) : v[k] = IF s[k] = x THEN v[k-1] ELSE Append(v[k-1], s[k])
               /\ Without(s, x) = v[Len(s)]
  BY <1>1, WithoutIs, Zenon
<1>4. Without(s, x) = <<>>
  BY <1>1, <1>2, Zenon
<1>5. QED
  BY <1>4, Zenon DEF s

\* An element more is kept unless it is the one that is not.
Unless(w, c, x) == IF c = x THEN w ELSE Append(w, c)

LEMMA WithoutAppend ==
  ASSUME NEW S, NEW s \in Seq(S), NEW c \in S, NEW x
  PROVE  Without(Append(s, c), x) = Unless(Without(s, x), c, x)
<1> DEFINE t == Append(s, c)
           n == Len(s)
<1>1. n \in Nat /\ t \in Seq(S) /\ Len(t) = n + 1 /\ t[n+1] = c /\ \A k \in 1..n : t[k] = s[k]
  OBVIOUS
<1>2. PICK v : /\ v[0] = <<>>
               /\ \A k \in 1..n : v[k] = IF s[k] = x THEN v[k-1] ELSE Append(v[k-1], s[k])
               /\ Without(s, x) = v[n]
  BY WithoutIs, Zenon
<1> HIDE DEF t, n
<1>3. PICK w : /\ w[0] = <<>>
               /\ \A k \in 1..Len(t) : w[k] = IF t[k] = x THEN w[k-1] ELSE Append(w[k-1], t[k])
               /\ Without(t, x) = w[Len(t)]
  BY <1>1, WithoutIs, Zenon
<1>4. \A k \in 1..n : k \in 1..Len(t)
  BY <1>1
<1>5. \A k \in 1..n : v[k-1] = w[k-1] => v[k] = w[k]
  BY <1>1, <1>2, <1>3, <1>4, Zenon
<1>6. \A k \in 0..n : v[k] = w[k]
  <2>1. v[0] = w[0] /\ n \in Nat
    BY <1>1, <1>2, <1>3, Zenon
  <2>2. GoAlike(v, w, n)
    BY <1>5, <2>1, Zenon DEF GoAlike
  <2>3. Alike(v, w, n)
    BY <2>1, <2>2, SameValues, Zenon
  <2>4. QED
    BY <2>3, Zenon DEF Alike
<1>7. n \in 0..n /\ n + 1 \in 1..Len(t) /\ n + 1 - 1 = n
  BY <1>1
<1>8. w[n+1] = IF c = x THEN w[n] ELSE Append(w[n], c)
  BY <1>1, <1>3, <1>7
<1>9. Without(t, x) = Unless(Without(s, x), c, x)
  BY <1>1, <1>2, <1>3, <1>6, <1>7, <1>8, Zenon DEF Unless
<1>10. QED
  BY <1>9, Zenon DEF t

\* What Number is computed from.
Values(v, s) ==
  v = [k \in 0..Len(s) |-> IF k = 0 THEN 0 ELSE v[k-1] * 10 + Digit(s[k])]

LEMMA ValuesExist ==
  ASSUME NEW S, NEW s \in Seq(S)
  PROVE  \E v \in [0..Len(s) -> Nat] : Values(v, s)
<1> DEFINE n == Len(s)
           g == [p \in Nat \X (1..n) |-> p[1] * 10 + Digit(s[p[2]])]
<1>1. n \in Nat
  OBVIOUS
<1> HIDE DEF n
<1>2. \A c : Digit(c) \in Nat
  BY DEF Digit
<1>3. \A r \in Nat : \A c : r * 10 + Digit(c) \in Nat
  BY <1>2
<1>4. ASSUME NEW r \in Nat, NEW k \in 1..n
      PROVE  g[<<r, k>>] = r * 10 + Digit(s[k])
  <2> DEFINE p == <<r, k>>
  <2>1. p \in Nat \X (1..n) /\ p[1] = r /\ p[2] = k
    BY Zenon
  <2> HIDE DEF p
  <2>2. g[p] = p[1] * 10 + Digit(s[p[2]])
    BY <2>1, Zenon
  <2>3. g[p] = r * 10 + Digit(s[k])
    BY <2>1, <2>2, Zenon
  <2>4. QED
    BY <2>3, Zenon DEF p
<1>5. g \in Rules(Nat, n)
  <2>1. ASSUME NEW p \in Nat \X (1..n)
        PROVE  p[1] * 10 + Digit(s[p[2]]) \in Nat
    <3>1. p[1] \in Nat
      OBVIOUS
    <3>2. QED
      BY <1>3, <3>1, Zenon
  <2>2. QED
    BY <2>1, Zenon DEF Rules
<1> HIDE DEF g
<1>6. PICK v : Follows(v, Nat, 0, g, n)
  BY <1>1, <1>5, RecursionExists, Zenon
<1>7. v \in [0..n -> Nat] /\ v[0] = 0 /\ \A k \in 1..n : v[k] = g[<<v[k-1], k>>]
  BY <1>6, Zenon DEF Follows
<1>8. \A k \in 1..n : k - 1 \in 0..n
  BY <1>1
<1>9. \A k \in 1..n : v[k] = v[k-1] * 10 + Digit(s[k])
  BY <1>4, <1>7, <1>8, Zenon
<1> DEFINE e(k) == IF k = 0 THEN 0 ELSE v[k-1] * 10 + Digit(s[k])
<1>10. \A k \in 0..n : v[k] = e(k)
  <2>1. \A k \in 0..n : k = 0 \/ (k \in 1..n /\ k # 0)
    BY <1>1
  <2>2. QED
    BY <1>7, <1>9, <2>1, Zenon
<1>11. v = [k \in 0..n |-> e(k)]
  <2> HIDE DEF e
  <2>1. QED
    BY <1>7, <1>10, Zenon
<1>12. QED
  BY <1>7, <1>11, Zenon DEF Values, n

\* The equations of such a function.
LEMMA ValuesEquations ==
  ASSUME NEW S, NEW s \in Seq(S), NEW v, Values(v, s)
  PROVE  v[0] = 0 /\ \A k \in 1..Len(s) : v[k] = v[k-1] * 10 + Digit(s[k])
<1> DEFINE e(k) == IF k = 0 THEN 0 ELSE v[k-1] * 10 + Digit(s[k])
<1>1. v = [k \in 0..Len(s) |-> e(k)]
  BY Zenon DEF Values
<1>2. 0 \in 0..Len(s) /\ \A k \in 1..Len(s) : k \in 0..Len(s) /\ k # 0
  OBVIOUS
<1>3. \A k \in 0..Len(s) : v[k] = e(k)
  <2> HIDE DEF e
  <2>1. QED
    BY <1>1, Zenon
<1>4. QED
  BY <1>2, <1>3, Zenon

\* Number is the last value of one.
LEMMA NumberIs ==
  ASSUME NEW S, NEW s \in Seq(S)
  PROVE  \E v : /\ v[0] = 0
                /\ \A k \in 1..Len(s) : v[k] = v[k-1] * 10 + Digit(s[k])
                /\ Number(s) = v[Len(s)]
<1> DEFINE v == CHOOSE w : Values(w, s)
<1>1. Values(v, s)
  BY ValuesExist, Zenon
<1>2. Number(s) = v[Len(s)]
  BY Zenon DEF Number, Values
<1> HIDE DEF v
<1>3. v[0] = 0 /\ \A k \in 1..Len(s) : v[k] = v[k-1] * 10 + Digit(s[k])
  BY <1>1, ValuesEquations
<1>4. QED
  BY <1>2, <1>3, Zenon

LEMMA NumberType ==
  ASSUME NEW S, NEW s \in Seq(S)
  PROVE  Number(s) \in Nat
<1> DEFINE n == Len(s)
<1>1. n \in Nat
  OBVIOUS
<1>2. PICK v : /\ v[0] = 0
               /\ \A k \in 1..n : v[k] = v[k-1] * 10 + Digit(s[k])
               /\ Number(s) = v[n]
  BY NumberIs, Zenon
<1> HIDE DEF n
<1> DEFINE P == {k \in 0..n : v[k] \in Nat}
<1>3. 0 \in P
  BY <1>1, <1>2
<1>4. ASSUME NEW k \in 1..n, k - 1 \in P PROVE k \in P
  <2>1. v[k-1] \in Nat /\ Digit(s[k]) \in Nat /\ k \in 0..n
    BY <1>4 DEF Digit
  <2>2. v[k-1] * 10 + Digit(s[k]) \in Nat
    BY <2>1
  <2>3. v[k] \in Nat
    BY <1>2, <2>2
  <2>4. QED
    BY <2>1, <2>3
<1>5. n \in 0..n
  BY <1>1
<1> HIDE DEF P
<1>6. n \in P
  BY <1>1, <1>3, <1>4, <1>5, InductionUpTo, Zenon
<1>7. QED
  BY <1>2, <1>6, Zenon DEF P

LEMMA NumberEmpty == Number(<<>>) = 0
<1> DEFINE s == <<>>
<1>1. s \in Seq({0}) /\ Len(s) = 0
  OBVIOUS
<1> HIDE DEF s
<1>2. PICK v : v[0] = 0 /\ Number(s) = v[Len(s)]
  BY <1>1, NumberIs
<1>3. Number(s) = 0
  BY <1>1, <1>2, Zenon
<1>4. QED
  BY <1>3, Zenon DEF s

\* A digit more is the last one of the number.
LEMMA NumberAppend ==
  ASSUME NEW S, NEW s \in Seq(S), NEW c \in S
  PROVE  Number(Append(s, c)) = Number(s) * 10 + Digit(c)
<1> DEFINE t == Append(s, c)
           n == Len(s)
<1>1. n \in Nat /\ t \in Seq(S) /\ Len(t) = n + 1 /\ t[n+1] = c /\ \A k \in 1..n : t[k] = s[k]
  OBVIOUS
<1>2. PICK v : /\ v[0] = 0
               /\ \A k \in 1..n : v[k] = v[k-1] * 10 + Digit(s[k])
               /\ Number(s) = v[n]
  BY NumberIs, Zenon
<1> HIDE DEF t, n
<1>3. PICK w : /\ w[0] = 0
               /\ \A k \in 1..Len(t) : w[k] = w[k-1] * 10 + Digit(t[k])
               /\ Number(t) = w[Len(t)]
  BY <1>1, NumberIs, Zenon
<1>4. \A k \in 1..n : k \in 1..Len(t)
  BY <1>1
<1>5. \A k \in 1..n : v[k-1] = w[k-1] => v[k] = w[k]
  BY <1>1, <1>2, <1>3, <1>4, Zenon
<1>6. \A k \in 0..n : v[k] = w[k]
  <2>1. v[0] = w[0] /\ n \in Nat
    BY <1>1, <1>2, <1>3, Zenon
  <2>2. GoAlike(v, w, n)
    BY <1>5, <2>1, Zenon DEF GoAlike
  <2>3. Alike(v, w, n)
    BY <2>1, <2>2, SameValues, Zenon
  <2>4. QED
    BY <2>3, Zenon DEF Alike
<1>7. n \in 0..n /\ n + 1 \in 1..Len(t) /\ n + 1 - 1 = n
  BY <1>1
<1>8. w[n+1] = w[n] * 10 + Digit(c)
  BY <1>1, <1>3, <1>7
<1>9. Number(t) = Number(s) * 10 + Digit(c)
  BY <1>1, <1>2, <1>3, <1>6, <1>7, <1>8, Zenon
<1>10. QED
  BY <1>9, Zenon DEF t

\* What Scan is: the states after each of the bytes of d.
Scanned(v, d) ==
  v = [k \in 0..Len(d) |-> IF k = 0 THEN "S_STA"
                           ELSE IF v[k-1] \in {"S_FIN", "S_ERR"} THEN v[k-1]
                           ELSE SeqDelta(v[k-1], mktok(d[k]))]

\* The table leads to a state.
LEMMA SeqDeltaType ==
  ASSUME NEW s, NEW t
  PROVE  SeqDelta(s, t) \in SeqStates
BY DEF SeqDelta, SeqStates

LEMMA ScannedExists ==
  ASSUME NEW S, NEW d \in Seq(S)
  PROVE  \E v : Scanned(v, d)
<1> DEFINE n == Len(d)
           f(s, k) == IF s \in {"S_FIN", "S_ERR"} THEN s ELSE SeqDelta(s, mktok(d[k]))
           g == [p \in SeqStates \X (1..n) |-> f(p[1], p[2])]
<1>1. n \in Nat
  OBVIOUS
<1> HIDE DEF n
<1>2. "S_STA" \in SeqStates
  BY DEF SeqStates
<1>3. \A s \in SeqStates : \A k : f(s, k) \in SeqStates
  BY SeqDeltaType, Zenon
<1>4. ASSUME NEW s \in SeqStates, NEW k \in 1..n
      PROVE  g[<<s, k>>] = f(s, k)
  <2> DEFINE p == <<s, k>>
  <2>1. p \in SeqStates \X (1..n) /\ p[1] = s /\ p[2] = k
    BY Zenon
  <2> HIDE DEF p, f
  <2>2. g[p] = f(p[1], p[2])
    BY <2>1, Zenon
  <2>3. g[p] = f(s, k)
    BY <2>1, <2>2, Zenon
  <2>4. QED
    BY <2>3, Zenon DEF p
<1>5. g \in Rules(SeqStates, n)
  <2>1. ASSUME NEW p \in SeqStates \X (1..n)
        PROVE  f(p[1], p[2]) \in SeqStates
    <3>1. p[1] \in SeqStates
      OBVIOUS
    <3> HIDE DEF f
    <3>2. QED
      BY <1>3, <3>1, Zenon
  <2> HIDE DEF f
  <2>2. QED
    BY <2>1, Zenon DEF Rules
<1> HIDE DEF g
<1>6. PICK v : Follows(v, SeqStates, "S_STA", g, n)
  BY <1>1, <1>2, <1>5, RecursionExists, Zenon
<1>7. v \in [0..n -> SeqStates] /\ v[0] = "S_STA" /\ \A k \in 1..n : v[k] = g[<<v[k-1], k>>]
  BY <1>6, Zenon DEF Follows
<1>8. \A k \in 1..n : k - 1 \in 0..n
  BY <1>1
<1> HIDE DEF f
<1>9. \A k \in 1..n : v[k] = f(v[k-1], k)
  BY <1>4, <1>7, <1>8, Zenon
<1> DEFINE e(k) == IF k = 0 THEN "S_STA" ELSE f(v[k-1], k)
<1>10. \A k \in 0..n : v[k] = e(k)
  <2>1. \A k \in 0..n : k = 0 \/ (k \in 1..n /\ k # 0)
    BY <1>1
  <2>2. QED
    BY <1>7, <1>9, <2>1, Zenon
<1>11. v = [k \in 0..n |-> e(k)]
  <2> HIDE DEF e
  <2>1. QED
    BY <1>7, <1>10, Zenon
<1>12. QED
  BY <1>11, Zenon DEF Scanned, n, e, f

\* The equations of Scan.
LEMMA ScanEquations ==
  ASSUME NEW S, NEW d \in Seq(S)
  PROVE  /\ Scan(d)[0] = "S_STA"
         /\ \A k \in 1..Len(d) :
              Scan(d)[k] = IF Scan(d)[k-1] \in {"S_FIN", "S_ERR"} THEN Scan(d)[k-1]
                           ELSE SeqDelta(Scan(d)[k-1], mktok(d[k]))
<1> DEFINE v == CHOOSE w : Scanned(w, d)
           e(k) == IF k = 0 THEN "S_STA"
                   ELSE IF v[k-1] \in {"S_FIN", "S_ERR"} THEN v[k-1]
                   ELSE SeqDelta(v[k-1], mktok(d[k]))
<1>1. Scanned(v, d)
  BY ScannedExists, Zenon
<1>2. Scan(d) = v
  BY Zenon DEF Scan, Scanned
<1> HIDE DEF v
<1>3. v = [k \in 0..Len(d) |-> e(k)]
  BY <1>1, Zenon DEF Scanned
<1>4. 0 \in 0..Len(d) /\ \A k \in 1..Len(d) : k \in 0..Len(d) /\ k # 0
  OBVIOUS
<1>5. \A k \in 0..Len(d) : v[k] = e(k)
  <2> HIDE DEF e
  <2>1. QED
    BY <1>3, Zenon
<1>6. v[0] = "S_STA"
  BY <1>4, <1>5, Zenon
<1>7. \A k \in 1..Len(d) : v[k] = IF v[k-1] \in {"S_FIN", "S_ERR"} THEN v[k-1]
                                  ELSE SeqDelta(v[k-1], mktok(d[k]))
  BY <1>4, <1>5, Zenon
<1>8. QED
  BY <1>2, <1>6, <1>7, Zenon
-----------------------------------------------------------------------------
(* What is behind the last escape *)

\* The part of a sequence up to its end, when a byte is added to it.
LEMMA LastAdded ==
  ASSUME NEW b \in Seq(Byte), NEW c \in Byte, NEW e \in 0..Len(b)
  PROVE  /\ SubSeq(b, e + 1, Len(b)) \in Seq(Byte)
         /\ SubSeq(Append(b, c), e + 1, Len(b) + 1) = Append(SubSeq(b, e + 1, Len(b)), c)
<1> DEFINE n == Len(b)
           a == Append(b, c)
           s == SubSeq(a, e + 1, n + 1)
           t == SubSeq(b, e + 1, n)
           u == Append(t, c)
<1>1. /\ n \in Nat /\ a \in Seq(Byte) /\ Len(a) = n + 1
      /\ a[n+1] = c /\ \A k \in 1..n : a[k] = b[k]
  OBVIOUS
<1>2. \A k \in e+1..n : b[k] \in Byte
  OBVIOUS
<1> HIDE DEF a, n
<1>3. e \in 0..n
  BY DEF n
<1>4. \A k \in e+1..n+1 : a[k] \in Byte
  BY <1>1, <1>3
<1>5. s \in Seq(Byte) /\ Len(s) = n - e + 1 /\ \A k \in 1..n-e+1 : s[k] = a[e + k]
  BY <1>1, <1>3, <1>4, SubSeqProperties
<1>6. t \in Seq(Byte) /\ Len(t) = n - e /\ \A k \in 1..n-e : t[k] = b[e + k]
  BY <1>1, <1>2, <1>3, SubSeqProperties
<1> HIDE DEF s, t
<1>7. u \in Seq(Byte) /\ Len(u) = n - e + 1 /\ u[n-e+1] = c /\ \A k \in 1..n-e : u[k] = t[k]
  BY <1>6
<1> HIDE DEF u
<1>8. ASSUME NEW k \in 1..n-e+1 PROVE s[k] = u[k]
  <2>1. CASE k = n - e + 1
    <3>1. e + k = n + 1
      BY <1>1, <1>3, <2>1
    <3>2. QED
      BY <1>1, <1>5, <1>7, <2>1, <3>1, Zenon
  <2>2. CASE k # n - e + 1
    <3>1. k \in 1..n-e /\ e + k \in 1..n
      BY <1>1, <1>3, <2>2
    <3>2. QED
      BY <1>1, <1>5, <1>6, <1>7, <3>1, Zenon
  <2>3. QED
    BY <2>1, <2>2, Zenon
<1>9. s = u
  BY <1>5, <1>7, <1>8, SeqEqual
<1>10. QED
  BY <1>6, <1>9, Zenon DEF s, t, u, a, n

\* A part that ends before the byte that is added.
LEMMA PartKept ==
  ASSUME NEW b \in Seq(Byte), NEW c \in Byte, NEW e \in Nat, NEW f \in 0..Len(b)
  PROVE  SubSeq(Append(b, c), e + 1, f) = SubSeq(b, e + 1, f)
<1> DEFINE n == Len(b)
           a == Append(b, c)
           s == SubSeq(a, e + 1, f)
           t == SubSeq(b, e + 1, f)
<1>1. n \in Nat /\ \A k \in 1..n : a[k] = b[k] /\ a[k] \in Byte /\ b[k] \in Byte
  OBVIOUS
<1> HIDE DEF a, n
<1>2. f \in 0..n
  BY DEF n
<1>3. \A k \in e+1..f : a[k] \in Byte /\ b[k] \in Byte
  BY <1>1, <1>2
<1>4. s \in Seq(Byte) /\ t \in Seq(Byte) /\ Len(s) = Len(t)
      /\ Len(s) = (IF e + 1 <= f THEN f - (e + 1) + 1 ELSE 0)
      /\ \A k \in 1..f-(e+1)+1 : s[k] = a[e+1+k-1] /\ t[k] = b[e+1+k-1]
  BY <1>2, <1>3, SubSeqProperties
<1> HIDE DEF s, t
<1>5. ASSUME NEW k \in 1..Len(s) PROVE s[k] = t[k]
  <2>1. k \in 1..f-(e+1)+1 /\ e+1+k-1 \in 1..n
    <3> DEFINE l == Len(s)
    <3>1. l = (IF e + 1 <= f THEN f - (e + 1) + 1 ELSE 0) /\ k \in 1..l
      BY <1>4, Zenon
    <3> HIDE DEF l
    <3>2. QED
      BY <1>1, <1>2, <3>1
  <2>2. QED
    BY <1>1, <1>4, <2>1, Zenon
<1>6. QED
  BY <1>4, <1>5, SeqEqual DEF s, t, a

\* Bytes that start with an escape have a last one.
LEMMA LastEscape ==
  ASSUME NEW b \in Seq(Byte), b # <<>>, b[1] = ESC
  PROVE  \E e \in 1..Len(b) : b[e] = ESC /\ \A k \in e+1..Len(b) : b[k] # ESC
<1> DEFINE n == Len(b)
           S == {k \in 0..n-1 : b[n-k] = ESC}
<1>1. n \in Nat \ {0}
  OBVIOUS
<1> HIDE DEF n
<1>2. n - 1 \in S /\ S \in SUBSET Nat
  BY <1>1
<1>3. PICK m \in S : \A k \in S : m <= k
  BY <1>2, MinMember
<1>4. m \in 0..n-1 /\ b[n-m] = ESC
  BY <1>3
<1>5. ASSUME NEW k \in n-m+1..n PROVE b[k] # ESC
  <2>1. n - k \in 0..n-1 /\ ~ (m <= n - k) /\ n - (n - k) = k
    BY <1>1, <1>4
  <2>2. n - k \notin S
    BY <1>3, <2>1, Zenon
  <2>3. b[n - (n - k)] # ESC
    BY <2>1, <2>2, Zenon
  <2>4. QED
    BY <2>1, <2>3, Zenon
<1>6. n - m \in 1..n
  BY <1>1, <1>4
<1>7. QED
  BY <1>4, <1>5, <1>6, Zenon DEF n

\* The body is what is behind the last one.
LEMMA BodyIs ==
  ASSUME NEW b \in Seq(Byte), NEW e \in 1..Len(b), b[e] = ESC,
         \A k \in e+1..Len(b) : b[k] # ESC
  PROVE  Body(b) = SubSeq(b, e + 1, Len(b))
<1> DEFINE S == {k \in 1..Len(b) : b[k] = ESC}
<1>1. S \in SUBSET Int /\ e \in S
  OBVIOUS
<1>2. \A k \in S : k <= e
  <2> SUFFICES ASSUME NEW k \in S, ~ (k <= e) PROVE FALSE
    OBVIOUS
  <2>1. k \in e+1..Len(b) /\ b[k] = ESC
    OBVIOUS
  <2>2. QED
    BY <2>1
<1>3. Max(S) = e
  <2> HIDE DEF S
  <2>1. QED
    BY <1>1, <1>2, MaxIs, Zenon
<1>4. QED
  BY <1>3, Zenon DEF Body

\* An escape starts over, any other byte is one more of the body.
LEMMA BodyAppend ==
  ASSUME NEW b \in Seq(Byte), b # <<>>, b[1] = ESC, NEW c \in Byte
  PROVE  /\ Body(b) \in Seq(Byte)
         /\ Body(Append(b, c)) = IF c = ESC THEN <<>> ELSE Append(Body(b), c)
<1> DEFINE n == Len(b)
           a == Append(b, c)
<1>1. PICK e \in 1..n : b[e] = ESC /\ \A k \in e+1..n : b[k] # ESC
  BY LastEscape
<1>2. /\ n \in Nat \ {0} /\ a \in Seq(Byte) /\ Len(a) = n + 1
      /\ a[n+1] = c /\ \A k \in 1..n : a[k] = b[k]
  OBVIOUS
<1>3. Body(b) = SubSeq(b, e + 1, n)
  BY <1>1, BodyIs, Zenon
<1> HIDE DEF a
<1>4. Body(b) \in Seq(Byte)
  <2>1. \A k \in e+1..n : b[k] \in Byte
    BY <1>2
  <2>2. SubSeq(b, e + 1, n) \in Seq(Byte)
    BY <1>1, <1>2, <2>1, SubSeqProperties
  <2>3. QED
    BY <1>3, <2>2, Zenon
<1>5. CASE c = ESC
  <2> HIDE DEF n
  <2>1. n + 1 \in 1..Len(a) /\ a[n+1] = ESC /\ \A k \in n+1+1..Len(a) : FALSE
    BY <1>2, <1>5
  <2>2. Body(a) = SubSeq(a, n + 1 + 1, Len(a))
    BY <1>2, <2>1, BodyIs, Zenon
  <2>3. Body(a) = <<>>
    BY <1>2, <2>2, SubSeqEmpty
  <2>4. QED
    BY <1>4, <1>5, <2>3, Zenon DEF a
<1>6. CASE c # ESC
  <2> HIDE DEF n
  <2>1. e \in 1..Len(a) /\ a[e] = ESC
    BY <1>1, <1>2
  <2>2. ASSUME NEW k \in e+1..Len(a) PROVE a[k] # ESC
    <3>1. CASE k = n + 1
      BY <1>2, <1>6, <3>1
    <3>2. CASE k # n + 1
      <4>1. k \in e+1..n /\ k \in 1..n
        BY <1>2, <3>2
      <4>2. QED
        BY <1>1, <1>2, <4>1, Zenon
    <3>3. QED
      BY <3>1, <3>2, Zenon
  <2>3. Body(a) = SubSeq(a, e + 1, Len(a))
    BY <1>2, <2>1, <2>2, BodyIs, Zenon
  <2>4. SubSeq(a, e + 1, n + 1) = Append(SubSeq(b, e + 1, n), c)
    <3>1. e \in 0..Len(b)
      BY <1>1, <1>2 DEF n
    <3>2. QED
      BY <3>1, LastAdded, Zenon DEF a, n
  <2>5. QED
    BY <1>2, <1>3, <1>4, <1>6, <2>3, <2>4, Zenon DEF a
<1>7. QED
  BY <1>5, <1>6, Zenon

\* There is nothing behind an escape alone.
LEMMA BodyFirst == Body(<<ESC>>) = <<>>
<1> DEFINE b == <<ESC>>
<1>1. b \in Seq(Byte) /\ Len(b) = 1 /\ b[1] = ESC
  BY DEF Byte
<1> HIDE DEF b
<1>2. 1 \in 1..Len(b) /\ \A k \in 1+1..Len(b) : FALSE
  BY <1>1
<1>3. Body(b) = SubSeq(b, 1 + 1, Len(b))
  BY <1>1, <1>2, BodyIs, Zenon
<1>4. Body(b) = <<>>
  BY <1>1, <1>3, SubSeqEmpty
<1>5. QED
  BY <1>4, Zenon DEF b
-----------------------------------------------------------------------------
(* What the states mean *)

\* What is well formed about a sequence is its body.
GoodUpTo(body, n) ==
  LET Inside(S) == \A k \in 2..n-1 : body[k] \in S
  IN  \/ n = 1 /\ body[1] \in Command
      \/ n = 2 /\ body[1] \in {"#", "(", ")"} /\ body[2] \in Command
      \/ n > 1 /\ body[1] = "[" /\ body[n] \in CCHRS /\ Inside(Digits \cup {"?", ";"})
      \/ n > 1 /\ body[1] = "]" /\ body[n] \in Stop /\ Inside(Byte \ Stop)

GoodBody(body) == GoodUpTo(body, Len(body))

\* What the bytes behind the last escape are in each of the states.
Shape(s, body) ==
  \/ s = "S_ESC" /\ body = <<>>
  \/ s = "S_CSI" /\ Len(body) > 0 /\ body[1] = "["
       /\ \A k \in 2..Len(body) : body[k] \in Digits \cup {"?", ";"}
  \/ s = "S_SQC" /\ Len(body) > 0 /\ body[1] = "]"
       /\ \A k \in 2..Len(body) : body[k] \in Byte \ Stop
  \/ s = "S_PPH" /\ Len(body) = 1 /\ body[1] \in {"#", "(", ")"}
  \/ s = "S_FIN" /\ GoodBody(body)
  \/ s = "S_ERR" /\ ~ GoodBody(body)

Underway == {"S_ESC", "S_CSI", "S_SQC", "S_PPH"}

\* The body of a sequence that is not at its end is not a good one.
LEMMA NotYet ==
  ASSUME NEW s \in Underway, NEW body \in Seq(Byte), Shape(s, body)
  PROVE  ~ GoodBody(body)
<1> DEFINE n == Len(body)
<1>1. n \in Nat /\ (body = <<>> => n = 0)
  OBVIOUS
<1>2. CASE s = "S_ESC"
  BY <1>1, <1>2 DEF Shape, GoodBody, GoodUpTo
<1>3. CASE s = "S_CSI"
  <2>1. n > 0 /\ body[1] = "[" /\ \A k \in 2..n : body[k] \in Digits \cup {"?", ";"}
    BY <1>3 DEF Shape
  <2>2. n > 1 => body[n] \notin CCHRS
    <3> HIDE DEF n
    <3>1. n > 1 => n \in 2..n
      BY <1>1
    <3>2. n > 1 => body[n] \in Digits \cup {"?", ";"}
      BY <2>1, <3>1, Zenon
    <3>3. QED
      BY <3>2 DEF Digits, CCHRS
  <2>3. QED
    BY <2>1, <2>2 DEF GoodBody, GoodUpTo, Command, CCHRS, Digits
<1>4. CASE s = "S_SQC"
  <2>1. n > 0 /\ body[1] = "]" /\ \A k \in 2..n : body[k] \in Byte \ Stop
    BY <1>4 DEF Shape
  <2>2. n > 1 => body[n] \notin Stop
    <3> HIDE DEF n
    <3>1. n > 1 => n \in 2..n
      BY <1>1
    <3>2. QED
      BY <2>1, <3>1, Zenon
  <2>3. QED
    BY <2>1, <2>2 DEF GoodBody, GoodUpTo, Command, CCHRS, Digits
<1>5. CASE s = "S_PPH"
  BY <1>1, <1>5 DEF Shape, GoodBody, GoodUpTo, Command, CCHRS, Digits
<1>6. QED
  BY <1>2, <1>3, <1>4, <1>5 DEF Underway

\* What the token of a byte says of it.
LEMMA Tokens ==
  ASSUME NEW c \in Byte
  PROVE  /\ mktok(c) = "T_ESCP" <=> c = ESC
         /\ mktok(c) = "T_NDIG" <=> c \in Digits
         /\ mktok(c) = "T_CCHR" <=> c \in CCHRS
         /\ mktok(c) \in {"T_CCHR", "T_NDIG"} <=> c \in Command
         /\ mktok(c) \in {"T_BELL", "T_STRM"} <=> c \in Stop
         /\ mktok(c) \in {"T_HASH", "T_OPRN", "T_CPRN"} <=> c \in {"#", "(", ")"}
         /\ mktok(c) = "T_OSQB" <=> c = "["
         /\ mktok(c) = "T_CSQB" <=> c = "]"
         /\ mktok(c) = "T_QMRK" <=> c = "?"
         /\ mktok(c) = "T_SMCL" <=> c = ";"
BY DEF mktok, Byte, Digits, CCHRS, Command, Stop, ESC, NUL, NL

\* The table, with the bytes in place of their tokens.
LEMMA Table ==
  ASSUME NEW c \in Byte
  PROVE  /\ \A s : c = ESC => SeqDelta(s, mktok(c)) = "S_ESC"
         /\ c # ESC =>
              /\ SeqDelta("S_STA", mktok(c)) = "S_ERR"
              /\ SeqDelta("S_ESC", mktok(c)) =
                   IF c \in Command THEN "S_FIN" ELSE IF c \in {"#", "(", ")"} THEN "S_PPH"
                   ELSE IF c = "[" THEN "S_CSI" ELSE IF c = "]" THEN "S_SQC" ELSE "S_ERR"
              /\ SeqDelta("S_CSI", mktok(c)) =
                   IF c \in CCHRS THEN "S_FIN"
                   ELSE IF c \in Digits \cup {"?", ";"} THEN "S_CSI" ELSE "S_ERR"
              /\ SeqDelta("S_SQC", mktok(c)) = IF c \in Stop THEN "S_FIN" ELSE "S_SQC"
              /\ SeqDelta("S_PPH", mktok(c)) = IF c \in Command THEN "S_FIN" ELSE "S_ERR"
<1> DEFINE t == mktok(c)
<1>1. /\ t = "T_ESCP" <=> c = ESC
      /\ t = "T_CCHR" <=> c \in CCHRS
      /\ t \in {"T_CCHR", "T_NDIG"} <=> c \in Command
      /\ t \in {"T_BELL", "T_STRM"} <=> c \in Stop
      /\ t \in {"T_HASH", "T_OPRN", "T_CPRN"} <=> c \in {"#", "(", ")"}
      /\ t = "T_OSQB" <=> c = "["
      /\ t = "T_CSQB" <=> c = "]"
  BY Tokens, Zenon
<1>2. t \in {"T_NDIG", "T_QMRK", "T_SMCL"} <=> c \in Digits \cup {"?", ";"}
  BY Tokens
<1> HIDE DEF t
<1>3. c = ESC => \A s : SeqDelta(s, t) = "S_ESC"
  BY <1>1 DEF SeqDelta
<1>4. c # ESC => t # "T_ESCP"
  BY <1>1, Zenon
<1>5. t # "T_ESCP" =>
        /\ SeqDelta("S_STA", t) = "S_ERR"
        /\ SeqDelta("S_ESC", t) =
             IF t \in {"T_CCHR", "T_NDIG"} THEN "S_FIN"
             ELSE IF t \in {"T_HASH", "T_OPRN", "T_CPRN"} THEN "S_PPH"
             ELSE IF t = "T_OSQB" THEN "S_CSI" ELSE IF t = "T_CSQB" THEN "S_SQC" ELSE "S_ERR"
        /\ SeqDelta("S_CSI", t) =
             IF t = "T_CCHR" THEN "S_FIN"
             ELSE IF t \in {"T_NDIG", "T_QMRK", "T_SMCL"} THEN "S_CSI" ELSE "S_ERR"
        /\ SeqDelta("S_SQC", t) = IF t \in {"T_BELL", "T_STRM"} THEN "S_FIN" ELSE "S_SQC"
        /\ SeqDelta("S_PPH", t) = IF t \in {"T_CCHR", "T_NDIG"} THEN "S_FIN" ELSE "S_ERR"
  BY DEF SeqDelta
<1>6. QED
  BY <1>1, <1>2, <1>3, <1>4, <1>5, Zenon DEF t

\* A byte more.
Grown(body, c) == IF c = ESC THEN <<>> ELSE Append(body, c)

\* The table keeps the states true to their meaning, and an end is an end.
LEMMA ShapeStep ==
  ASSUME NEW s \in Underway, NEW body \in Seq(Byte), Shape(s, body), NEW c \in Byte
  PROVE  LET next == SeqDelta(s, mktok(c))
         IN  /\ Shape(next, Grown(body, c))
             /\ next \in Underway \cup {"S_FIN", "S_ERR"}
<1> DEFINE next == SeqDelta(s, mktok(c))
           n    == Len(body)
           more == Append(body, c)
<1> SUFFICES Shape(next, Grown(body, c)) /\ next \in Underway \cup {"S_FIN", "S_ERR"}
  BY Zenon
<1>1. /\ n \in Nat /\ more \in Seq(Byte) /\ Len(more) = n + 1 /\ more[n+1] = c
      /\ \A k \in 1..n : more[k] = body[k]
      /\ body = <<>> => n = 0
  OBVIOUS
<1>2. CASE c = ESC
  <2>1. next = "S_ESC" /\ Grown(body, c) = <<>>
    BY <1>2, Table DEF Grown
  <2>2. QED
    BY <2>1 DEF Shape, Underway
<1> HIDE DEF n, more
<1> DEFINE Par == \A k \in 2..n : more[k] \in Digits \cup {"?", ";"}
           Str == \A k \in 2..n : more[k] \in Byte \ Stop
<1>3. GoodBody(more) <=>
        \/ n = 0 /\ c \in Command
        \/ n = 1 /\ more[1] \in {"#", "(", ")"} /\ c \in Command
        \/ n > 0 /\ more[1] = "[" /\ c \in CCHRS /\ Par
        \/ n > 0 /\ more[1] = "]" /\ c \in Stop /\ Str
  <2> DEFINE m == n + 1
  <2>1. /\ m = 1 <=> n = 0
        /\ m = 2 <=> n = 1
        /\ m > 1 <=> n > 0
        /\ m - 1 = n
        /\ n = 0 => more[1] = c
        /\ n = 1 => more[2] = c
        /\ more[m] = c
    BY <1>1
  <2>2. GoodBody(more) <=> GoodUpTo(more, m)
    BY <1>1, Zenon DEF GoodBody
  <2> HIDE DEF m, Par, Str
  <2>3. /\ (\A k \in 2..m-1 : more[k] \in Digits \cup {"?", ";"}) <=> Par
        /\ (\A k \in 2..m-1 : more[k] \in Byte \ Stop) <=> Str
    BY <2>1, Zenon DEF Par, Str
  <2>4. GoodUpTo(more, m) <=>
          \/ m = 1 /\ more[1] \in Command
          \/ m = 2 /\ more[1] \in {"#", "(", ")"} /\ more[2] \in Command
          \/ m > 1 /\ more[1] = "[" /\ more[m] \in CCHRS /\ Par
          \/ m > 1 /\ more[1] = "]" /\ more[m] \in Stop /\ Str
    BY <2>3, Zenon DEF GoodUpTo
  <2>5. QED
    BY <2>1, <2>2, <2>4
<1>4. n > 0 => more[1] = body[1]
  BY <1>1
<1>5. \A k \in 2..n : more[k] = body[k]
  BY <1>1
<1>6. \A T : n > 0 =>
        ((\A k \in 2..Len(more) : more[k] \in T) <=> (\A k \in 2..n : more[k] \in T) /\ c \in T)
  <2>1. \A k \in 2..Len(more) : k \in 2..n \/ k = n + 1
    BY <1>1
  <2>2. \A k \in 2..n : k \in 2..Len(more)
    BY <1>1
  <2>3. n > 0 => n + 1 \in 2..Len(more)
    BY <1>1
  <2>4. QED
    BY <1>1, <2>1, <2>2, <2>3, Zenon
<1>7. Len(more) > 0 /\ (n > 0 => n # 0)
  BY <1>1
<1>8. CASE c # ESC
  <2>1. Grown(body, c) = more
    BY <1>8, Zenon DEF Grown, more
  <2>2. CASE s = "S_ESC"
    <3>1. n = 0
      BY <1>1, <2>2 DEF Shape
    <3>2. Len(more) = 1 /\ more[1] = c /\ \A k \in 2..Len(more) : FALSE
      BY <1>1, <3>1
    <3> HIDE DEF Par, Str
    <3>3. GoodBody(more) <=> c \in Command
      BY <1>3, <3>1
    <3>4. next = IF c \in Command THEN "S_FIN" ELSE IF c \in {"#", "(", ")"} THEN "S_PPH"
                 ELSE IF c = "[" THEN "S_CSI" ELSE IF c = "]" THEN "S_SQC" ELSE "S_ERR"
      BY <1>8, <2>2, Table, Zenon
    <3> HIDE DEF next
    <3>5. QED
      BY <1>7, <2>1, <3>2, <3>3, <3>4 DEF Shape, Underway
  <2>3. CASE s = "S_CSI"
    <3>1. n > 0 /\ body[1] = "[" /\ \A k \in 2..n : body[k] \in Digits \cup {"?", ";"}
      BY <2>3 DEF Shape, n
    <3>2. Par /\ more[1] = "["
      BY <1>4, <1>5, <3>1, Zenon
    <3>3. (\A k \in 2..Len(more) : more[k] \in Digits \cup {"?", ";"})
             <=> c \in Digits \cup {"?", ";"}
      BY <1>6, <3>1, <3>2, Zenon
    <3> HIDE DEF Par, Str
    <3>4. GoodBody(more) <=> c \in CCHRS
      <4>1. n # 0
        BY <1>7, <3>1, Zenon
      <4>2. more[1] \notin {"#", "(", ")"} /\ more[1] # "]"
        BY <3>2
      <4>3. QED
        BY <1>3, <3>1, <3>2, <4>1, <4>2, Zenon
    <3>5. next = IF c \in CCHRS THEN "S_FIN"
                 ELSE IF c \in Digits \cup {"?", ";"} THEN "S_CSI" ELSE "S_ERR"
      BY <1>8, <2>3, Table, Zenon
    <3> HIDE DEF next
    <3>6. QED
      BY <1>7, <2>1, <3>2, <3>3, <3>4, <3>5 DEF Shape, Underway
  <2>4. CASE s = "S_SQC"
    <3>1. n > 0 /\ body[1] = "]" /\ \A k \in 2..n : body[k] \in Byte \ Stop
      BY <2>4 DEF Shape, n
    <3>2. Str /\ more[1] = "]"
      BY <1>4, <1>5, <3>1, Zenon
    <3>3. (\A k \in 2..Len(more) : more[k] \in Byte \ Stop) <=> c \in Byte \ Stop
      BY <1>6, <3>1, <3>2, Zenon
    <3> HIDE DEF Par, Str
    <3>4. GoodBody(more) <=> c \in Stop
      <4>1. n # 0
        BY <1>7, <3>1, Zenon
      <4>2. more[1] \notin {"#", "(", ")"} /\ more[1] # "["
        BY <3>2
      <4>3. QED
        BY <1>3, <3>1, <3>2, <4>1, <4>2, Zenon
    <3>5. next = IF c \in Stop THEN "S_FIN" ELSE "S_SQC"
      BY <1>8, <2>4, Table, Zenon
    <3> HIDE DEF next
    <3>6. QED
      BY <1>7, <2>1, <3>2, <3>3, <3>4, <3>5 DEF Shape, Underway
  <2>5. CASE s = "S_PPH"
    <3>1. n = 1 /\ more[1] \in {"#", "(", ")"}
      BY <1>4, <2>5 DEF Shape, n
    <3> HIDE DEF Par, Str
    <3>2. GoodBody(more) <=> c \in Command
      BY <1>3, <3>1
    <3>3. next = IF c \in Command THEN "S_FIN" ELSE "S_ERR"
      BY <1>8, <2>5, Table, Zenon
    <3> HIDE DEF next
    <3>4. QED
      BY <2>1, <3>2, <3>3 DEF Shape, Underway
  <2>6. QED
    BY <2>2, <2>3, <2>4, <2>5 DEF Underway
<1>9. QED
  BY <1>2, <1>8
-----------------------------------------------------------------------------
(* Where the recogniser stops *)

\* An escape begins a sequence.
LEMMA FirstEscape == ESC \in Byte /\ SeqDelta("S_STA", mktok(ESC)) = "S_ESC"
<1> DEFINE t == mktok(ESC)
<1>1. ESC \in Byte
  BY DEF Byte
<1>2. t = "T_ESCP"
  BY <1>1, Tokens, Zenon
<1> HIDE DEF t
<1>3. SeqDelta("S_STA", t) = "S_ESC"
  BY <1>2 DEF SeqDelta
<1>4. QED
  BY <1>1, <1>3, Zenon DEF t

\* The first bytes of the data, and one more of them.
LEMMA Prefix ==
  ASSUME NEW d \in Seq(Byte), NEW k \in 1..Len(d)
  PROVE  /\ SubSeq(d, 1, k) \in Seq(Byte) /\ Len(SubSeq(d, 1, k)) = k
         /\ SubSeq(d, 1, k)[1] = d[1] /\ SubSeq(d, 1, k) # <<>>
         /\ d[k] \in Byte
         /\ SubSeq(d, 1, k - 1) \in Seq(Byte)
         /\ SubSeq(d, 1, k) = Append(SubSeq(d, 1, k - 1), d[k])
<1> DEFINE n == Len(d)
<1>1. n \in Nat /\ \A j \in 1..n : d[j] \in Byte
  OBVIOUS
<1> HIDE DEF n
<1>2. k \in 1..n /\ \A j \in 1..k : d[j] \in Byte
  BY <1>1 DEF n
<1>3. /\ SubSeq(d, 1, k) \in Seq(Byte) /\ Len(SubSeq(d, 1, k)) = k
      /\ \A j \in 1..k-1+1 : SubSeq(d, 1, k)[j] = d[1+j-1]
  BY <1>1, <1>2, SubSeqProperties
<1>4. SubSeq(d, 1, k)[1] = d[1]
  BY <1>2, <1>3
<1>5. SubSeq(d, 1, k) # <<>>
  BY <1>2, <1>3
<1>6. \A j \in 1..k-1 : d[j] \in Byte
  BY <1>2
<1>7. SubSeq(d, 1, k - 1) \in Seq(Byte)
  BY <1>1, <1>2, <1>6, SubSeqProperties
<1>8. SubSeq(d, 1, k) = SubSeq(d, 1, k - 1) \o <<d[k]>>
  <2>1. 1 \in 1..n /\ k \in 1..n
    BY <1>1, <1>2
  <2>2. QED
    BY <2>1, SubSeqRecursiveSecond DEF n
<1>9. d[k] \in Byte
  BY <1>1, <1>2
<1>10. Append(SubSeq(d, 1, k - 1), d[k]) = SubSeq(d, 1, k - 1) \o <<d[k]>>
  BY <1>7, <1>9, AppendIsConcat, Zenon
<1>11. QED
  BY <1>3, <1>4, <1>5, <1>7, <1>8, <1>9, <1>10, Zenon

\* The states of Scan are true to their meaning up to the first end.
LEMMA ScanShape ==
  ASSUME NEW d \in Seq(Byte), d # <<>>, d[1] = ESC, NEW m \in 1..Len(d),
         \A k \in 1..m-1 : Scan(d)[k] \notin {"S_FIN", "S_ERR"}
  PROVE  /\ Shape(Scan(d)[m], Body(SubSeq(d, 1, m)))
         /\ Scan(d)[m] \in Underway \cup {"S_FIN", "S_ERR"}
<1> DEFINE Good(k) == /\ Shape(Scan(d)[k], Body(SubSeq(d, 1, k)))
                      /\ Scan(d)[k] \in Underway \cup {"S_FIN", "S_ERR"}
           P == {k \in 0..m : k = 0 \/ Good(k)}
           n == Len(d)
<1>1. n \in Nat /\ m \in Nat
  OBVIOUS
<1> HIDE DEF n
<1>2. m \in 1..n
  BY DEF n
<1>3. 0 \in P
  BY <1>1
<1>4. ASSUME NEW k \in 1..m, k - 1 \in P PROVE k \in P
  <2> HIDE DEF Good
  <2>1. k \in 1..n /\ k \in 0..m /\ (k = 1 \/ k - 1 \in 1..m-1)
    BY <1>1, <1>2
  <2>2. Scan(d)[0] = "S_STA"
        /\ Scan(d)[k] = IF Scan(d)[k-1] \in {"S_FIN", "S_ERR"} THEN Scan(d)[k-1]
                        ELSE SeqDelta(Scan(d)[k-1], mktok(d[k]))
    BY <2>1, ScanEquations, Zenon DEF n
  <2>3. CASE k = 1
    <3>1. SubSeq(d, 1, k) = <<ESC>>
      <4>1. SubSeq(d, 1, k - 1) = <<>>
        BY <2>3, SubSeqEmpty
      <4>2. SubSeq(d, 1, k) = Append(SubSeq(d, 1, k - 1), d[k])
        BY <2>1, Prefix, Zenon DEF n
      <4>3. Append(<<>>, ESC) = <<ESC>>
        OBVIOUS
      <4>4. QED
        BY <2>3, <4>1, <4>2, <4>3, Zenon
    <3>2. Scan(d)[k-1] = "S_STA"
      BY <2>2, <2>3
    <3>3. Scan(d)[k] = "S_ESC"
      <4>1. Scan(d)[k-1] \notin {"S_FIN", "S_ERR"}
        BY <3>2
      <4>2. d[k] = ESC
        BY <2>3, Zenon
      <4>3. QED
        BY <2>2, <3>2, <4>1, <4>2, FirstEscape, Zenon
    <3>4. Good(k)
      BY <3>1, <3>3, BodyFirst, Zenon DEF Good, Shape, Underway
    <3>5. QED
      BY <2>1, <3>4, Zenon
  <2>4. CASE k - 1 \in 1..m-1
    <3>1. k - 1 \in 1..n /\ k - 1 # 0
      BY <1>1, <1>2, <2>4
    <3>2. Good(k - 1)
      BY <1>4, <3>1, Zenon
    <3>3. Scan(d)[k-1] \in Underway
      BY <2>4, <3>2 DEF Good
    <3> DEFINE b == SubSeq(d, 1, k - 1)
    <3>4. b \in Seq(Byte) /\ b # <<>> /\ b[1] = ESC
      BY <3>1, Prefix, Zenon DEF n
    <3>5. d[k] \in Byte /\ SubSeq(d, 1, k) = Append(b, d[k])
      BY <2>1, Prefix, Zenon DEF n
    <3>6. Scan(d)[k] = SeqDelta(Scan(d)[k-1], mktok(d[k]))
      BY <2>2, <2>4, Zenon
    <3> HIDE DEF b
    <3>7. Body(b) \in Seq(Byte) /\ Body(Append(b, d[k])) = Grown(Body(b), d[k])
      BY <3>4, <3>5, BodyAppend, Zenon DEF Grown
    <3>8. Shape(Scan(d)[k-1], Body(b))
      BY <3>2, Zenon DEF Good, b
    <3>9. Shape(Scan(d)[k], Grown(Body(b), d[k])) /\ Scan(d)[k] \in Underway \cup {"S_FIN", "S_ERR"}
      BY <3>3, <3>5, <3>6, <3>7, <3>8, ShapeStep, Zenon
    <3>10. Good(k)
      BY <3>5, <3>7, <3>9, Zenon DEF Good
    <3>11. QED
      BY <2>1, <3>10, Zenon
  <2>5. QED
    BY <2>1, <2>3, <2>4, Zenon
<1>5. m \in 0..m /\ m # 0
  BY <1>1, <1>2
<1>6. m \in P
  <2> HIDE DEF P
  <2>1. QED
    BY <1>1, <1>3, <1>4, <1>5, InductionUpTo, Zenon
<1>7. QED
  BY <1>5, <1>6, Zenon

\* So at the first end, and before it, the state tells what is well formed.
LEMMA EndIsWellFormed ==
  ASSUME NEW d \in Seq(Byte), d # <<>>, d[1] = ESC, NEW m \in 1..Len(d),
         \A k \in 1..m-1 : Scan(d)[k] \notin {"S_FIN", "S_ERR"}
  PROVE  WellFormed(SubSeq(d, 1, m)) <=> Scan(d)[m] = "S_FIN"
<1> DEFINE b == SubSeq(d, 1, m)
           s == Scan(d)[m]
<1>1. Shape(s, Body(b)) /\ s \in Underway \cup {"S_FIN", "S_ERR"}
  BY ScanShape, Zenon
<1>2. Body(b) \in Seq(Byte)
  <2>1. b \in Seq(Byte) /\ b # <<>> /\ b[1] = ESC
    BY Prefix, Zenon
  <2> HIDE DEF b
  <2>2. ESC \in Byte
    BY DEF Byte
  <2>3. QED
    BY <2>1, <2>2, BodyAppend, Zenon
<1>3. WellFormed(b) <=> GoodBody(Body(b))
  BY Zenon DEF WellFormed, GoodBody, GoodUpTo
<1> HIDE DEF b, s
<1>4. s \in Underway => ~ GoodBody(Body(b)) /\ s # "S_FIN"
  BY <1>1, <1>2, NotYet DEF Underway
<1>5. s \in {"S_FIN", "S_ERR"} => (GoodBody(Body(b)) <=> s = "S_FIN")
  BY <1>1 DEF Shape
<1>6. QED
  BY <1>1, <1>3, <1>4, <1>5 DEF b, s

\* ansiseq_eatone eats the shortest well-formed sequence at the head of the
\* data, and asks for more data only if no part of the data is one; where it
\* panics, it has not passed one.
THEOREM EatsTheFirst ==
  ASSUME NEW d \in Seq(Byte), d # <<>>, d[1] = ESC
  PROVE  /\ EatOne(d) # -1 /\ ~ EatPanics(d) => WellFormed(SubSeq(d, 1, EatOne(d)))
         /\ EatPanics(d) => ~ WellFormed(SubSeq(d, 1, EatOne(d)))
         /\ \A k \in 1..Len(d) :
              EatOne(d) = -1 \/ k < EatOne(d) => ~ WellFormed(SubSeq(d, 1, k))
<1> DEFINE n == Len(d)
<1>1. n \in Nat
  OBVIOUS
<1>2. Ends(d) \in SUBSET (1..n) /\ Ends(d) \in SUBSET Nat
  BY DEF Ends
<1>3. \A k \in 1..n : k \in Ends(d) <=> Scan(d)[k] \in {"S_FIN", "S_ERR"}
  BY Zenon DEF Ends
<1>4. CASE Ends(d) = {}
  <2>1. EatOne(d) = -1 /\ ~ EatPanics(d)
    BY <1>4, Zenon DEF EatOne, EatPanics
  <2>2. ASSUME NEW k \in 1..n PROVE ~ WellFormed(SubSeq(d, 1, k))
    <3>1. \A j \in 1..k-1 : j \in 1..n
      BY <1>1
    <3>2. \A j \in 1..k-1 : Scan(d)[j] \notin {"S_FIN", "S_ERR"}
      BY <1>3, <1>4, <3>1
    <3>3. Scan(d)[k] # "S_FIN"
      BY <1>3, <1>4
    <3>4. QED
      BY <3>2, <3>3, EndIsWellFormed, Zenon
  <2>3. QED
    BY <2>1, <2>2, Zenon
<1>5. CASE Ends(d) # {}
  <2> DEFINE m == Min(Ends(d))
  <2>1. m \in Ends(d) /\ \A k \in Ends(d) : m <= k
    BY <1>2, <1>5, MinMember, Zenon
  <2>2. EatOne(d) = m /\ (EatPanics(d) <=> Scan(d)[m] = "S_ERR")
    BY <1>5, Zenon DEF EatOne, EatPanics
  <2> HIDE DEF m, n
  <2>3. m \in 1..n /\ m # -1 /\ Scan(d)[m] \in {"S_FIN", "S_ERR"}
    BY <1>2, <1>3, <2>1
  <2>4. ASSUME NEW k \in 1..n, \A j \in 1..k-1 : j < m
        PROVE  WellFormed(SubSeq(d, 1, k)) <=> Scan(d)[k] = "S_FIN"
    <3>1. \A j \in 1..k-1 : j \in 1..n /\ ~ (m <= j)
      BY <1>1, <2>3, <2>4
    <3>2. \A j \in 1..k-1 : Scan(d)[j] \notin {"S_FIN", "S_ERR"}
      BY <1>3, <2>1, <3>1, Zenon
    <3>3. QED
      BY <3>2, EndIsWellFormed, Zenon DEF n
  <2>5. WellFormed(SubSeq(d, 1, m)) <=> Scan(d)[m] = "S_FIN"
    <3>1. \A j \in 1..m-1 : j < m
      BY <2>3
    <3>2. QED
      BY <2>3, <2>4, <3>1, Zenon
  <2>6. ASSUME NEW k \in 1..n, k < m PROVE ~ WellFormed(SubSeq(d, 1, k))
    <3>1. ~ (m <= k) /\ \A j \in 1..k-1 : j < m
      BY <1>1, <2>3, <2>6
    <3>2. Scan(d)[k] # "S_FIN"
      BY <1>3, <2>1, <3>1, Zenon
    <3>3. QED
      BY <2>4, <3>1, <3>2, Zenon
  <2>7. QED
    BY <2>2, <2>3, <2>5, <2>6 DEF n
<1>6. QED
  BY <1>4, <1>5, Zenon
-----------------------------------------------------------------------------
(* The elements of a set of numbers in their order *)

\* How many elements of a set are not behind y, and the elements, one of them
\* if there is one, that n elements are not behind.
Rank(S, y)  == Cardinality({z \in S : z <= y})
Ranked(S, n) == {y \in S : Rank(S, y) = n}

LEMMA SortedEmpty == Sorted({}) = <<>>
<1>1. Cardinality({}) = 0
  BY FS_EmptySet, Zenon
<1> DEFINE e(n) == CHOOSE x \in {y \in {} : Cardinality({z \in {} : z <= y}) = n} : TRUE
<1>2. Sorted({}) = [n \in 1..0 |-> e(n)]
  BY <1>1, Zenon DEF Sorted
<1> HIDE DEF e
<1>3. [n \in 1..0 |-> e(n)] = <<>>
  OBVIOUS
<1>4. QED
  BY <1>2, <1>3, Zenon

\* A number greater than all of them comes last.
LEMMA SortedAppend ==
  ASSUME NEW S \in SUBSET Nat, IsFiniteSet(S), NEW x \in Nat, \A y \in S : y < x,
         NEW T, x \in T, Sorted(S) \in Seq(T)
  PROVE  /\ Sorted(S \cup {x}) = Append(Sorted(S), x)
         /\ IsFiniteSet(S \cup {x})
<1> DEFINE U == S \cup {x}
           m == Cardinality(S)
<1>1. x \notin S
  BY SMT
<1>2. m \in Nat /\ IsFiniteSet(U) /\ Cardinality(U) = m + 1
  BY <1>1, FS_CardinalityType, FS_AddElement, Zenon
<1>3. ASSUME NEW y \in S
      PROVE  Rank(U, y) = Rank(S, y) /\ Rank(S, y) \in Nat /\ Rank(S, y) <= m
  <2>1. {z \in U : z <= y} = {z \in S : z <= y}
    <3>1. ~ (x <= y)
      BY SMT
    <3>2. QED
      BY <3>1
  <2>2. {z \in S : z <= y} \in SUBSET S
    BY Zenon
  <2>3. QED
    BY <2>1, <2>2, FS_Subset, FS_CardinalityType, Zenon DEF Rank
<1>4. Rank(U, x) = m + 1
  <2>1. \A z \in U : z <= x
    <3>1. \A z \in S : z <= x
      BY SMT
    <3>2. x <= x
      BY SMT
    <3>3. QED
      BY <3>1, <3>2, Zenon
  <2>2. {z \in U : z <= x} = U
    BY <2>1, Zenon
  <2>3. QED
    BY <1>2, <2>2, Zenon DEF Rank
<1> DEFINE e(V, n) == CHOOSE y \in Ranked(V, n) : TRUE
<1>5. \A V : Sorted(V) = [n \in 1..Cardinality(V) |-> e(V, n)]
  BY Zenon DEF Sorted, Ranked, Rank
<1> HIDE DEF m
<1>6. ASSUME NEW n \in 1..m PROVE Ranked(U, n) = Ranked(S, n)
  <2>1. n # m + 1
    BY <1>2
  <2>2. Rank(U, x) # n
    BY <1>4, <2>1, Zenon
  <2>3. QED
    BY <1>3, <2>2, Zenon DEF Ranked
<1>7. Ranked(U, m + 1) = {x}
  <2>1. \A r \in Nat : r <= m => r # m + 1
    BY <1>2
  <2>2. \A y \in S : Rank(U, y) # m + 1
    BY <1>3, <2>1, Zenon
  <2>3. QED
    BY <1>4, <2>2, Zenon DEF Ranked
<1>8. e(U, m + 1) = x
  BY <1>7
<1>9. \A n \in 1..m : e(U, n) = e(S, n)
  BY <1>6, Zenon
<1> HIDE DEF e
<1> DEFINE s == Sorted(S)
<1>10. s = [n \in 1..m |-> e(S, n)]
  BY <1>5, Zenon DEF m
<1>11. Len(s) = m /\ s \in Seq(T)
  <2>1. s \in Seq(T)
    BY Zenon
  <2>2. DOMAIN s = 1..m
    BY <1>10, Zenon
  <2> HIDE DEF s
  <2>3. DOMAIN s = 1..Len(s) /\ Len(s) \in Nat
    BY <2>1
  <2>4. Len(s) = m
    BY <1>2, <2>2, <2>3
  <2>5. QED
    BY <2>1, <2>4
<1>12. \A n \in 1..m : s[n] = e(S, n)
  BY <1>10, Zenon
<1> HIDE DEF s
<1> DEFINE t == Append(s, x)
<1>13. t \in Seq(T) /\ Len(t) = m + 1 /\ t[m+1] = x /\ \A n \in 1..m : t[n] = s[n]
  BY <1>11, AppendProperties
<1> HIDE DEF t
<1>14. t \in [1..m+1 -> T]
  <2>1. t \in [1..Len(t) -> T]
    BY <1>13, LenProperties, Zenon
  <2>2. QED
    BY <1>13, <2>1, Zenon
<1>15. \A n \in 1..m+1 : t[n] = e(U, n)
  <2>1. \A n \in 1..m+1 : n \in 1..m \/ n = m + 1
    BY <1>2
  <2>2. QED
    BY <1>8, <1>9, <1>12, <1>13, <2>1, Zenon
<1>16. Sorted(U) = [n \in 1..m+1 |-> e(U, n)]
  BY <1>2, <1>5, Zenon
<1>17. Sorted(U) = t
  BY <1>14, <1>15, <1>16, Zenon
<1>18. QED
  BY <1>2, <1>17, Zenon DEF t, s
-----------------------------------------------------------------------------
(* The fields of a text *)

\* Where the fields begin, up to the k-th byte: at the start and behind every
\* semicolon.
Marks(s, k)  == {0} \cup {j \in 1..k : s[j] = ";"}
Starts(s, k) == Sorted(Marks(s, k))

LEMMA MarksStep ==
  ASSUME NEW s \in Seq(Byte), NEW k \in 1..Len(s)
  PROVE  Marks(s, k) = IF s[k] = ";" THEN Marks(s, k - 1) \cup {k} ELSE Marks(s, k - 1)
<1>1. k \in Nat \ {0}
  OBVIOUS
<1>2. 1..k = 1..k-1 \cup {k}
  BY <1>1
<1>3. QED
  BY <1>2, Zenon DEF Marks

LEMMA MarksBounded ==
  ASSUME NEW s, NEW k \in Nat
  PROVE  /\ Marks(s, k) \in SUBSET Nat /\ IsFiniteSet(Marks(s, k))
         /\ \A y \in Marks(s, k) : y <= k
<1> DEFINE M == {j \in 1..k : s[j] = ";"}
<1>1. 0 \in Nat /\ 0 <= k /\ \A y \in 1..k : y \in Nat /\ y <= k
  OBVIOUS
<1>2. \A y \in {0} \cup M : y \in Nat /\ y <= k
  BY <1>1, Zenon
<1>3. Marks(s, k) \in SUBSET Nat /\ \A y \in Marks(s, k) : y <= k
  BY <1>2, Zenon DEF Marks
<1>4. QED
  BY <1>3, FS_BoundedSetOfNaturals, Zenon

LEMMA StartsFirst ==
  ASSUME NEW s
  PROVE  Starts(s, 0) = <<0>>
<1>1. Marks(s, 0) = {} \cup {0}
  BY DEF Marks
<1>2. <<>> \in Seq({0}) /\ 0 \in {0} /\ {} \in SUBSET Nat /\ 0 \in Nat /\ \A y \in {} : y < 0
  OBVIOUS
<1>3. IsFiniteSet({})
  BY FS_EmptySet, Zenon
<1>4. Sorted({} \cup {0}) = Append(<<>>, 0)
  BY <1>2, <1>3, SortedEmpty, SortedAppend, Zenon
<1>5. Append(<<>>, 0) = <<0>>
  OBVIOUS
<1>6. QED
  BY <1>1, <1>4, <1>5, Zenon DEF Starts

\* A semicolon begins a field.
LEMMA StartsStep ==
  ASSUME NEW s \in Seq(Byte), NEW k \in 1..Len(s), Starts(s, k - 1) \in Seq(Nat)
  PROVE  Starts(s, k) = IF s[k] = ";" THEN Append(Starts(s, k - 1), k) ELSE Starts(s, k - 1)
<1>1. k \in Nat /\ k - 1 \in Nat /\ \A y \in Nat : y <= k - 1 => y < k
  OBVIOUS
<1> DEFINE M == Marks(s, k - 1)
<1>2. M \in SUBSET Nat /\ IsFiniteSet(M) /\ \A y \in M : y < k
  BY <1>1, MarksBounded, Zenon
<1>3. Sorted(M) \in Seq(Nat)
  BY Zenon DEF Starts
<1> HIDE DEF M
<1>4. Sorted(M \cup {k}) = Append(Sorted(M), k)
  BY <1>1, <1>2, <1>3, SortedAppend, Zenon
<1>5. QED
  BY <1>4, MarksStep, Zenon DEF Starts, M

LEMMA StartsType ==
  ASSUME NEW s \in Seq(Byte)
  PROVE  \A k \in 0..Len(s) : Starts(s, k) \in Seq(0..k) /\ Starts(s, k) # <<>>
<1> DEFINE n == Len(s)
           P == {k \in 0..n : Starts(s, k) \in Seq(0..k) /\ Starts(s, k) # <<>>}
<1>1. n \in Nat /\ 0 \in 0..n
  OBVIOUS
<1>2. 0 \in P
  <2>1. <<0>> \in Seq(0..0) /\ <<0>> # <<>>
    OBVIOUS
  <2>2. QED
    BY <1>1, <2>1, StartsFirst, Zenon
<1> HIDE DEF n
<1>3. ASSUME NEW k \in 1..n, k - 1 \in P PROVE k \in P
  <2> DEFINE j == k - 1
             t == Starts(s, j)
  <2>1. j \in Nat /\ k = j + 1 /\ k \in 0..n /\ k \in Nat
    BY <1>1
  <2>2. t \in Seq(0..j) /\ t # <<>>
    BY <1>3, Zenon
  <2>3. k \in 0..k /\ 0..j \in SUBSET (0..k) /\ 0..j \in SUBSET Nat
    BY <2>1
  <2> HIDE DEF t, j
  <2>4. t \in Seq(0..k) /\ t \in Seq(Nat)
    BY <2>2, <2>3, SeqMonotonic, Zenon
  <2>5. Append(t, k) \in Seq(0..k) /\ Append(t, k) # <<>>
    BY <2>3, <2>4, AppendProperties
  <2>6. Starts(s, k) = IF s[k] = ";" THEN Append(t, k) ELSE t
    BY <2>4, StartsStep, Zenon DEF t, j, n
  <2>7. Starts(s, k) \in Seq(0..k) /\ Starts(s, k) # <<>>
    BY <2>2, <2>4, <2>5, <2>6, Zenon
  <2>8. QED
    BY <2>1, <2>7, Zenon
<1> HIDE DEF P
<1>4. \A k \in 0..n : k \in P
  BY <1>1, <1>2, <1>3, InductionUpTo, Zenon
<1>5. QED
  BY <1>4, Zenon DEF P, n

\* The borders are the starts and the end.
LEMMA BordersAre ==
  ASSUME NEW s \in Seq(Byte)
  PROVE  Borders(s) = Append(Starts(s, Len(s)), Len(s) + 1)
<1> DEFINE n == Len(s)
           M == Marks(s, n)
<1>1. n \in Nat /\ n + 1 \in Nat /\ n \in 0..n /\ \A y \in Nat : y <= n => y < n + 1
  OBVIOUS
<1>2. 0..n \in SUBSET Nat
  BY <1>1
<1>3. Starts(s, n) \in Seq(Nat)
  BY <1>1, <1>2, StartsType, SeqMonotonic, Zenon
<1> HIDE DEF n
<1>4. M \in SUBSET Nat /\ IsFiniteSet(M) /\ \A y \in M : y < n + 1
  BY <1>1, MarksBounded, Zenon
<1>5. Sorted(M \cup {n + 1}) = Append(Starts(s, n), n + 1)
  BY <1>1, <1>3, <1>4, SortedAppend, Zenon DEF Starts
<1>6. Borders(s) = Sorted(M \cup {n + 1})
  BY Zenon DEF Borders, Marks, n
<1>7. QED
  BY <1>5, <1>6, Zenon DEF n

\* Where the fields of a text with a byte more begin.
LEMMA StartsAppend ==
  ASSUME NEW s \in Seq(Byte), NEW c \in Byte
  PROVE  Starts(Append(s, c), Len(s) + 1) =
           IF c = ";" THEN Append(Starts(s, Len(s)), Len(s) + 1) ELSE Starts(s, Len(s))
<1> DEFINE n == Len(s)
           a == Append(s, c)
<1>1. n \in Nat /\ a \in Seq(Byte) /\ Len(a) = n + 1 /\ a[n+1] = c /\ \A k \in 1..n : a[k] = s[k]
  OBVIOUS
<1> HIDE DEF a, n
<1>2. Marks(a, n) = Marks(s, n)
  BY <1>1, Zenon DEF Marks
<1>3. Starts(a, n) = Starts(s, n)
  BY <1>2, Zenon DEF Starts
<1> DEFINE m == n + 1
<1>4. m \in 1..Len(a) /\ m - 1 = n /\ n \in 0..Len(a) /\ 0..n \in SUBSET Nat /\ a[m] = c
  BY <1>1
<1>5. Starts(a, n) \in Seq(Nat)
  BY <1>1, <1>4, StartsType, SeqMonotonic, Zenon
<1> HIDE DEF m
<1>6. Starts(a, m - 1) \in Seq(Nat)
  BY <1>4, <1>5, Zenon
<1>7. Starts(a, m) = IF a[m] = ";" THEN Append(Starts(a, m - 1), m) ELSE Starts(a, m - 1)
  BY <1>1, <1>4, <1>6, StartsStep, Zenon
<1>8. Starts(a, m) = IF c = ";" THEN Append(Starts(s, n), m) ELSE Starts(s, n)
  BY <1>3, <1>4, <1>7
<1>9. QED
  BY <1>8, Zenon DEF n, a, m

\* A part of a text is one.
LEMMA PartType ==
  ASSUME NEW s \in Seq(Byte), NEW a \in Nat, NEW b \in Int, b <= Len(s)
  PROVE  SubSeq(s, a + 1, b) \in Seq(Byte)
<1> DEFINE n == Len(s)
<1>1. n \in Nat /\ (\A k \in 1..n : s[k] \in Byte) /\ b <= n
  OBVIOUS
<1> HIDE DEF n
<1>2. \A k \in a+1..b : s[k] \in Byte
  BY <1>1
<1>3. QED
  BY <1>2, SubSeqProperties

\* So is what is kept of one.
LEMMA WithoutType ==
  ASSUME NEW S, NEW s \in Seq(S), NEW x
  PROVE  Without(s, x) \in Seq(S)
<1> DEFINE n == Len(s)
<1>1. n \in Nat /\ \A k \in 1..n : s[k] \in S
  OBVIOUS
<1>2. PICK v : /\ v[0] = <<>>
               /\ \A k \in 1..n : v[k] = IF s[k] = x THEN v[k-1] ELSE Append(v[k-1], s[k])
               /\ Without(s, x) = v[n]
  BY WithoutIs, Zenon
<1> HIDE DEF n
<1> DEFINE P == {k \in 0..n : v[k] \in Seq(S)}
<1>3. 0 \in P
  <2>1. <<>> \in Seq(S) /\ 0 \in 0..n
    BY <1>1
  <2>2. QED
    BY <1>2, <2>1, Zenon
<1>4. ASSUME NEW k \in 1..n, k - 1 \in P PROVE k \in P
  <2> DEFINE u == v[k-1]
  <2>1. u \in Seq(S) /\ k \in 0..n /\ s[k] \in S
    BY <1>1, <1>4
  <2>2. Append(u, s[k]) \in Seq(S)
    <3> HIDE DEF u
    <3>1. QED
      BY <2>1
  <2>3. v[k] \in Seq(S)
    BY <1>2, <2>1, <2>2, Zenon
  <2>4. QED
    BY <2>1, <2>3
<1>5. n \in 0..n
  BY <1>1
<1> HIDE DEF P
<1>6. n \in P
  BY <1>1, <1>3, <1>4, <1>5, InductionUpTo, Zenon
<1>7. QED
  BY <1>2, <1>6, Zenon DEF P

\* The fields that a semicolon ends, and the one behind the last of them.
Begins(s)  == Starts(s, Len(s))
Closed(s)  == [k \in 1..Len(Begins(s))-1 |-> Value(Field(s, k))]
Current(s) == Without(SubSeq(s, Begins(s)[Len(Begins(s))] + 1, Len(s)), "?")

\* Where the k-th field begins and ends.
LEMMA FieldBorders ==
  ASSUME NEW s \in Seq(Byte)
  PROVE  LET m == Len(Begins(s))
         IN  /\ Begins(s) \in Seq(0..Len(s)) /\ m \in Nat \ {0}
             /\ Len(Borders(s)) - 1 = m
             /\ \A k \in 1..m : Borders(s)[k] = Begins(s)[k] /\ Begins(s)[k] \in 0..Len(s)
             /\ Borders(s)[m+1] = Len(s) + 1
<1> DEFINE n == Len(s)
           t == Begins(s)
           m == Len(t)
<1>1. n \in Nat /\ n \in 0..n /\ 0..n \in SUBSET Nat /\ n + 1 \in Nat
  OBVIOUS
<1>2. t \in Seq(0..n) /\ t # <<>>
  BY <1>1, StartsType, Zenon DEF Begins
<1>3. Borders(s) = Append(t, n + 1)
  BY BordersAre, Zenon DEF Begins
<1> HIDE DEF t, n
<1>4. t \in Seq(Nat)
  BY <1>1, <1>2, SeqMonotonic, Zenon
<1>5. m \in Nat \ {0} /\ \A k \in 1..m : t[k] \in 0..n
  BY <1>2, EmptySeq, ElementOfSeq, Zenon
<1>6. /\ Len(Append(t, n + 1)) = m + 1
      /\ \A k \in 1..m : Append(t, n + 1)[k] = t[k]
      /\ Append(t, n + 1)[m+1] = n + 1
  BY <1>1, <1>4, AppendProperties
<1>7. Len(Borders(s)) - 1 = m
  BY <1>3, <1>5, <1>6
<1> HIDE DEF m
<1>8. QED
  BY <1>2, <1>3, <1>5, <1>6, <1>7, Zenon DEF m, n, t

LEMMA FieldType ==
  ASSUME NEW s \in Seq(Byte), NEW k \in 1..Len(Begins(s))
  PROVE  Field(s, k) \in Seq(Byte)
<1> DEFINE n == Len(s)
           m == Len(Begins(s))
           a == Borders(s)[k]
           b == Borders(s)[k+1]
<1>1. n \in Nat
  OBVIOUS
<1>2. m \in Nat /\ a \in 0..n /\ Borders(s)[m+1] = n + 1 /\ \A j \in 1..m : Borders(s)[j] \in 0..n
  BY FieldBorders, Zenon
<1> HIDE DEF n, m, a
<1>3. k \in 1..m
  BY DEF m
<1>4. b \in 0..n+1
  <2>1. CASE k = m
    BY <1>1, <1>2, <2>1
  <2>2. CASE k # m
    <3>1. k + 1 \in 1..m
      BY <1>2, <1>3, <2>2
    <3>2. b \in 0..n
      BY <1>2, <3>1, Zenon
    <3> HIDE DEF b
    <3>3. QED
      BY <1>1, <3>2
  <2>3. QED
    BY <2>1, <2>2, Zenon
<1> HIDE DEF b
<1>5. a \in Nat /\ b - 1 \in Int /\ b - 1 <= n
  BY <1>1, <1>2, <1>4
<1>6. SubSeq(s, a + 1, b - 1) \in Seq(Byte)
  BY <1>5, PartType, Zenon DEF n
<1>7. QED
  BY <1>6, WithoutType, Zenon DEF Field, a, b

LEMMA ValueType ==
  ASSUME NEW f \in Seq(Byte)
  PROVE  Value(f) \in Int
<1>1. Number(f) \in Int
  BY NumberType
<1>2. QED
  BY <1>1 DEF Value, ABSENT

\* The arguments are the values of the fields that are closed, and that of the
\* current one unless it is empty.
LEMMA FieldsAre ==
  ASSUME NEW s \in Seq(Byte)
  PROVE  /\ Closed(s) \in Seq(Int) /\ Len(Closed(s)) = Len(Begins(s)) - 1
         /\ Current(s) \in Seq(Byte)
         /\ Current(s) = Field(s, Len(Begins(s)))
         /\ Fields(s) = IF Current(s) = <<>> THEN Closed(s)
                        ELSE Append(Closed(s), Number(Current(s)))
<1> DEFINE n == Len(s)
           m == Len(Begins(s))
           F(k) == Value(Field(s, k))
<1>1. n \in Nat
  OBVIOUS
<1>2. /\ m \in Nat \ {0} /\ Len(Borders(s)) - 1 = m
      /\ Borders(s)[m] = Begins(s)[m] /\ Borders(s)[m+1] = n + 1
  <2>1. m \in Nat \ {0} /\ Len(Borders(s)) - 1 = m /\ Borders(s)[m+1] = n + 1
        /\ \A k \in 1..m : Borders(s)[k] = Begins(s)[k]
    BY FieldBorders, Zenon
  <2> HIDE DEF m
  <2>2. m \in 1..m
    BY <2>1
  <2>3. QED
    BY <2>1, <2>2, Zenon
<1>3. \A k \in 1..m : F(k) \in Int
  BY FieldType, ValueType, Zenon
<1>4. Current(s) = Field(s, m)
  <2> DEFINE a == Begins(s)[m]
             b == Borders(s)[m+1]
  <2>1. b - 1 = n
    <3>1. b = n + 1
      BY <1>2, Zenon
    <3> HIDE DEF b, n
    <3>2. QED
      BY <1>1, <3>1
  <2>2. Field(s, m) = Without(SubSeq(s, a + 1, b - 1), "?")
    BY <1>2, Zenon DEF Field
  <2> HIDE DEF b
  <2>3. Field(s, m) = Without(SubSeq(s, a + 1, n), "?")
    BY <2>1, <2>2, Zenon
  <2>4. QED
    BY <2>3, Zenon DEF Current
<1>5. Closed(s) = [k \in 1..m-1 |-> F(k)]
  BY Zenon DEF Closed
<1>6. Fields(s) = [k \in 1..(IF Field(s, m) = <<>> THEN m - 1 ELSE m) |-> F(k)]
  BY <1>2, Zenon DEF Fields
<1>7. Current(s) \in Seq(Byte)
  <2> HIDE DEF m
  <2>1. m \in 1..m
    BY <1>2
  <2>2. QED
    BY <1>4, <2>1, FieldType, Zenon DEF m
<1>8. F(m) = IF Current(s) = <<>> THEN ABSENT ELSE Number(Current(s))
  BY <1>4, Zenon DEF Value
<1> HIDE DEF F, m
<1>9. Closed(s) \in Seq(Int) /\ Len(Closed(s)) = m - 1 /\ \A k \in 1..m-1 : Closed(s)[k] = F(k)
  <2> DEFINE t == [k \in 1..m-1 |-> F(k)]
  <2>1. m - 1 \in Nat /\ \A k \in 1..m-1 : F(k) \in Int
    BY <1>2, <1>3
  <2>2. t \in Seq(Int) /\ Len(t) = m - 1 /\ \A k \in 1..m-1 : t[k] = F(k)
    BY <2>1
  <2> HIDE DEF t
  <2>3. QED
    BY <1>5, <2>2, Zenon DEF t
<1>10. CASE Current(s) = <<>>
  BY <1>4, <1>5, <1>6, <1>7, <1>9, <1>10, Zenon DEF m
<1>11. CASE Current(s) # <<>>
  <2> DEFINE t == [k \in 1..m |-> F(k)]
             u == Append(Closed(s), F(m))
  <2>1. t \in Seq(Int) /\ Len(t) = m /\ \A k \in 1..m : t[k] = F(k)
    BY <1>2, <1>3
  <2>2. F(m) \in Int
    BY <1>2, <1>3
  <2>3. /\ u \in Seq(Int) /\ Len(u) = m /\ u[m] = F(m)
        /\ \A k \in 1..m-1 : u[k] = F(k)
    <3> DEFINE v == Closed(s)
    <3>1. v \in Seq(Int) /\ Len(v) = m - 1 /\ \A k \in 1..m-1 : v[k] = F(k)
      BY <1>9, Zenon
    <3> HIDE DEF v
    <3>2. Append(v, F(m)) \in Seq(Int) /\ Len(Append(v, F(m))) = m /\ Append(v, F(m))[m] = F(m)
          /\ \A k \in 1..m-1 : Append(v, F(m))[k] = v[k]
      BY <1>2, <2>2, <3>1
    <3>3. QED
      BY <3>1, <3>2, Zenon DEF v
  <2> HIDE DEF t, u
  <2>4. \A k \in 1..m : k = m \/ k \in 1..m-1
    BY <1>2
  <2>5. \A k \in 1..m : t[k] = u[k]
    BY <2>1, <2>3, <2>4, Zenon
  <2>6. t = u
    BY <2>1, <2>3, <2>5, SeqEqual
  <2>7. Fields(s) = t
    BY <1>4, <1>6, <1>11, Zenon DEF t
  <2>8. F(m) = Number(Current(s))
    BY <1>8, <1>11, Zenon
  <2>9. Fields(s) = Append(Closed(s), Number(Current(s)))
    BY <2>6, <2>7, <2>8, Zenon DEF u
  <2>10. QED
    BY <1>4, <1>7, <1>9, <1>11, <2>9, Zenon DEF m
<1>12. QED
  BY <1>10, <1>11, Zenon

\* The borders of the fields that are closed do not move.
LEMMA FieldKept ==
  ASSUME NEW s \in Seq(Byte), NEW c \in Byte, NEW k,
         NEW a \in 0..Len(s), NEW b \in 0..Len(s)+1,
         Borders(s)[k] = a, Borders(s)[k+1] = b,
         Borders(Append(s, c))[k] = a, Borders(Append(s, c))[k+1] = b
  PROVE  Field(Append(s, c), k) = Field(s, k)
<1> DEFINE t == Append(s, c)
           n == Len(s)
           d == b - 1
<1>0. n \in Nat
  OBVIOUS
<1>1. a \in Nat
  OBVIOUS
<1>2. Field(s, k) = Without(SubSeq(s, a + 1, d), "?") /\ Field(t, k) = Without(SubSeq(t, a + 1, d), "?")
  BY Zenon DEF Field
<1>3. SubSeq(t, a + 1, d) = SubSeq(s, a + 1, d)
  <2>1. CASE b = 0
    <3>1. d \in Int /\ a + 1 \in Int /\ d < a + 1
      BY <1>1, <2>1
    <3> HIDE DEF d
    <3>2. QED
      BY <3>1, SubSeqEmpty
  <2>2. CASE b # 0
    <3> HIDE DEF n
    <3>1. b \in 0..n+1
      BY DEF n
    <3>2. d \in 0..n
      BY <1>0, <2>2, <3>1
    <3> HIDE DEF d
    <3>3. QED
      BY <1>1, <3>2, PartKept, Zenon DEF n
  <2>3. QED
    BY <2>1, <2>2, Zenon
<1>4. QED
  BY <1>2, <1>3, Zenon

\* A semicolon closes the current field and begins one.
LEMMA FieldEnds ==
  ASSUME NEW s \in Seq(Byte)
  PROVE  /\ Closed(Append(s, ";")) = Append(Closed(s), Value(Current(s)))
         /\ Current(Append(s, ";")) = <<>>
<1> DEFINE c == ";"
           t == Append(s, c)
           n == Len(s)
           e == n + 1
           m == Len(Begins(s))
<1>1. c \in Byte
  BY DEF Byte
<1>2. n \in Nat /\ e \in Nat /\ t \in Seq(Byte) /\ Len(t) = e
  <2> HIDE DEF c
  <2>1. QED
    BY <1>1
<1>3. Begins(t) = Append(Begins(s), e)
  <2>1. Starts(t, e) = IF c = ";" THEN Append(Starts(s, n), e) ELSE Starts(s, n)
    BY <1>1, StartsAppend, Zenon
  <2>2. QED
    BY <1>2, <2>1, Zenon DEF Begins
<1>4. /\ m \in Nat \ {0} /\ Begins(s) \in Seq(0..n)
      /\ \A k \in 1..m : Borders(s)[k] = Begins(s)[k] /\ Begins(s)[k] \in 0..n
      /\ Borders(s)[m+1] = e
  BY FieldBorders, Zenon
<1>5. /\ Len(Begins(t)) \in Nat
      /\ \A k \in 1..Len(Begins(t)) : Borders(t)[k] = Begins(t)[k]
  BY <1>2, FieldBorders, Zenon
<1> HIDE DEF c, t, n, e, m
<1>6. /\ Len(Begins(t)) = m + 1 /\ Begins(t)[m+1] = e
      /\ \A k \in 1..m : Begins(t)[k] = Begins(s)[k]
  <2>1. 0..n \in SUBSET Nat
    BY <1>2
  <2>2. Begins(s) \in Seq(Nat)
    BY <1>4, <2>1, SeqMonotonic, Zenon
  <2> DEFINE w == Begins(s)
  <2>3. w \in Seq(Nat) /\ Len(w) = m
    BY <2>2, Zenon DEF m
  <2> HIDE DEF w
  <2>4. /\ Len(Append(w, e)) = m + 1 /\ Append(w, e)[m+1] = e
        /\ \A k \in 1..m : Append(w, e)[k] = w[k]
    BY <1>2, <2>3
  <2>5. QED
    BY <1>3, <2>4, Zenon DEF w
<1>7. ASSUME NEW k \in 1..m PROVE Field(t, k) = Field(s, k)
  <2> DEFINE a == Begins(s)[k]
             b == IF k = m THEN e ELSE Begins(s)[k+1]
  <2>1. k \in 1..m+1 /\ k + 1 \in 1..m+1 /\ (k = m \/ k + 1 \in 1..m)
    BY <1>4
  <2>2. \A j \in 0..n : j \in 0..n+1
    BY <1>2
  <2>3. a \in 0..n /\ b \in 0..n+1
    <3>1. e \in 0..n+1
      BY <1>2 DEF e
    <3>2. QED
      BY <1>4, <2>1, <2>2, <3>1, Zenon
  <2>4. Borders(s)[k] = a /\ Borders(s)[k+1] = b
    BY <1>4, <2>1, Zenon
  <2>5. Borders(t)[k] = a /\ Borders(t)[k+1] = b
    BY <1>4, <1>5, <1>6, <2>1, Zenon
  <2> HIDE DEF a, b
  <2>6. QED
    BY <1>1, <2>3, <2>4, <2>5, FieldKept, Zenon DEF t, n
<1>8. Closed(s) \in Seq(Int) /\ Len(Closed(s)) = m - 1
      /\ Current(s) \in Seq(Byte) /\ Current(s) = Field(s, m)
  BY FieldsAre, Zenon DEF m
<1>9. \A k \in 1..m-1 : Closed(s)[k] = Value(Field(s, k))
  BY Zenon DEF Closed, m
<1>10. Closed(t) \in Seq(Int) /\ Len(Closed(t)) = m
  <2>1. Closed(t) \in Seq(Int) /\ Len(Closed(t)) = Len(Begins(t)) - 1
    BY <1>2, FieldsAre, Zenon
  <2> DEFINE l == Len(Closed(t))
             b == Len(Begins(t))
  <2>2. l = b - 1 /\ b = m + 1
    BY <1>6, <2>1, Zenon
  <2> HIDE DEF l, b
  <2>3. l = m
    BY <1>4, <2>2
  <2>4. QED
    BY <2>1, <2>3, Zenon DEF l
<1>11. \A k \in 1..m : Closed(t)[k] = Value(Field(t, k))
  <2> DEFINE l == Len(Begins(t))
  <2>1. l = m + 1
    BY <1>6, Zenon
  <2>2. Closed(t) = [k \in 1..l-1 |-> Value(Field(t, k))]
    BY Zenon DEF Closed
  <2> HIDE DEF l
  <2>3. l - 1 = m
    BY <1>4, <2>1
  <2>4. QED
    BY <2>2, <2>3, Zenon
<1> DEFINE v == Value(Current(s))
           u == Append(Closed(s), v)
<1>12. v \in Int
  BY <1>8, ValueType, Zenon
<1>13. u \in Seq(Int) /\ Len(u) = m /\ u[m] = v /\ \A k \in 1..m-1 : u[k] = Closed(s)[k]
  <2> DEFINE w == Closed(s)
  <2>1. w \in Seq(Int) /\ Len(w) = m - 1
    BY <1>8, Zenon
  <2> HIDE DEF w, v
  <2>2. Append(w, v) \in Seq(Int) /\ Len(Append(w, v)) = m /\ Append(w, v)[m] = v
        /\ \A k \in 1..m-1 : Append(w, v)[k] = w[k]
    BY <1>4, <1>12, <2>1
  <2>3. QED
    BY <2>2, Zenon DEF w, v
<1> HIDE DEF u
<1>14. \A k \in 1..m : Closed(t)[k] = u[k]
  <2>1. \A k \in 1..m : k = m \/ k \in 1..m-1
    BY <1>4
  <2>2. QED
    BY <1>7, <1>8, <1>9, <1>11, <1>13, <2>1, Zenon
<1>15. Closed(t) = u
  BY <1>10, <1>13, <1>14, SeqEqual
<1>16. Current(t) = <<>>
  <2>1. Current(t) = Without(SubSeq(t, e + 1, e), "?")
    BY <1>2, <1>6, Zenon DEF Current
  <2>2. SubSeq(t, e + 1, e) = <<>>
    BY <1>2, SubSeqEmpty
  <2>3. QED
    BY <2>1, <2>2, WithoutEmpty, Zenon
<1>17. QED
  BY <1>15, <1>16, Zenon DEF u, v, t, c

\* A text with a byte more.
LEMMA ByteMore ==
  ASSUME NEW s \in Seq(Byte), NEW c \in Byte
  PROVE  /\ Append(s, c) \in Seq(Byte) /\ Len(Append(s, c)) = Len(s) + 1
         /\ Len(s) \in Nat /\ Len(s) + 1 \in Nat
OBVIOUS

\* Positions of a sequence, for the proofs below.
LEMMA Within ==
  ASSUME NEW m \in Nat
  PROVE  /\ \A k \in 1..m-1 : k \in 1..m /\ k + 1 \in 1..m
         /\ \A k \in 0..m : k \in 0..m+1
         /\ m # 0 => m \in 1..m
OBVIOUS

\* Any other byte goes to the current field, a question mark to none.
LEMMA FieldGoesOn ==
  ASSUME NEW s \in Seq(Byte), NEW c \in Byte, c # ";"
  PROVE  /\ Closed(Append(s, c)) = Closed(s)
         /\ Current(Append(s, c)) = IF c = "?" THEN Current(s) ELSE Append(Current(s), c)
<1> DEFINE t == Append(s, c)
           n == Len(s)
           m == Len(Begins(s))
           e == n + 1
<1>1. n \in Nat /\ e \in Nat /\ t \in Seq(Byte) /\ Len(t) = e
  BY ByteMore, Zenon
<1>2. Begins(t) = Begins(s)
  <2>1. Starts(t, e) = Starts(s, n)
    BY StartsAppend, Zenon
  <2>2. QED
    BY <1>1, <2>1, Zenon DEF Begins
<1>3. /\ m \in Nat \ {0}
      /\ \A k \in 1..m : Borders(s)[k] = Begins(s)[k] /\ Begins(s)[k] \in 0..n
  BY FieldBorders, Zenon
<1>4. \A k \in 1..m : Borders(t)[k] = Begins(s)[k]
  BY <1>1, <1>2, FieldBorders, Zenon
<1> HIDE DEF t, n, m, e
<1>0. n \in Nat /\ m \in Nat /\ m # 0
  BY <1>1, <1>3, Zenon
<1>5. ASSUME NEW k \in 1..m-1 PROVE Field(t, k) = Field(s, k)
  <2> DEFINE a == Begins(s)[k]
             b == Begins(s)[k+1]
  <2>1. k \in 1..m /\ k + 1 \in 1..m
    BY <1>0, Within, Zenon
  <2>2. \A j \in 0..n : j \in 0..n+1
    BY <1>0, Within, Zenon
  <2>3. a \in 0..n /\ b \in 0..n+1
    BY <1>3, <2>1, <2>2, Zenon
  <2>4. Borders(s)[k] = a /\ Borders(s)[k+1] = b /\ Borders(t)[k] = a /\ Borders(t)[k+1] = b
    BY <1>3, <1>4, <2>1, Zenon
  <2> HIDE DEF a, b
  <2>5. QED
    BY <2>3, <2>4, FieldKept, Zenon DEF t, n
<1>6. Closed(t) = Closed(s)
  <2>1. Closed(t) = [k \in 1..m-1 |-> Value(Field(t, k))]
    BY <1>2, Zenon DEF Closed, m
  <2>2. Closed(s) = [k \in 1..m-1 |-> Value(Field(s, k))]
    BY Zenon DEF Closed, m
  <2>3. QED
    BY <1>5, <2>1, <2>2, Zenon
<1> DEFINE a == Begins(s)[m]
           p == SubSeq(s, a + 1, n)
<1>7. Current(s) = Without(p, "?") /\ Current(t) = Without(SubSeq(t, a + 1, e), "?")
  BY <1>1, <1>2, Zenon DEF Current, m, n
<1>8. p \in Seq(Byte) /\ SubSeq(t, a + 1, e) = Append(p, c)
  <2>1. m \in 1..m
    BY <1>0, Within, Zenon
  <2>2. a \in 0..n
    BY <1>3, <2>1, Zenon
  <2> HIDE DEF a
  <2>3. QED
    BY <2>2, LastAdded, Zenon DEF t, n, e
<1> HIDE DEF p
<1>9. Without(Append(p, c), "?") = Unless(Without(p, "?"), c, "?")
  BY <1>8, WithoutAppend, Zenon
<1>10. QED
  BY <1>6, <1>7, <1>8, <1>9, Zenon DEF t, Unless

\* There is no field before the first byte, but the current one.
LEMMA FieldsEmpty == Closed(<<>>) = <<>> /\ Current(<<>>) = <<>>
<1> DEFINE s == <<>>
<1>1. s \in Seq(Byte) /\ Len(s) = 0
  OBVIOUS
<1> HIDE DEF s
<1>2. Begins(s) = <<0>>
  BY <1>1, StartsFirst, Zenon DEF Begins
<1>3. Len(<<0>>) = 1 /\ <<0>>[1] = 0
  OBVIOUS
<1>4. Len(Begins(s)) = 1 /\ Begins(s)[1] = 0
  BY <1>2, <1>3, Zenon
<1>5. Closed(s) = <<>>
  <2>1. Closed(s) \in Seq(Int) /\ Len(Closed(s)) = 1 - 1
    BY <1>1, <1>4, FieldsAre, Zenon
  <2> DEFINE u == Closed(s)
  <2>2. u \in Seq(Int) /\ Len(u) = 1 - 1
    BY <2>1, Zenon
  <2> HIDE DEF u
  <2>3. u = <<>>
    BY <2>2
  <2>4. QED
    BY <2>3, Zenon DEF u
<1>6. Current(s) = <<>>
  <2>1. Current(s) = Without(SubSeq(s, 0 + 1, 0), "?")
    BY <1>1, <1>4, Zenon DEF Current
  <2>2. SubSeq(s, 0 + 1, 0) = <<>>
    BY SubSeqEmpty
  <2>3. QED
    BY <2>1, <2>2, WithoutEmpty, Zenon
<1>7. QED
  BY <1>5, <1>6, Zenon DEF s
-----------------------------------------------------------------------------
(* The text of a string *)

\* What fits into the string buffer of what is kept of it.
Text(s) ==
  LET kept == Without(s, NUL)
  IN  SubSeq(kept, 1, Min({Len(kept), MAX_OSC_STR_SZ - 1}))

\* Without looking for the minimum.
LEMMA TextIs ==
  ASSUME NEW s \in Seq(Byte)
  PROVE  LET kept == Without(s, NUL)
         IN  /\ kept \in Seq(Byte)
             /\ Len(kept) <= MAX_OSC_STR_SZ - 1 => Text(s) = kept
             /\ ~ (Len(kept) <= MAX_OSC_STR_SZ - 1) =>
                  /\ Text(s) = SubSeq(kept, 1, MAX_OSC_STR_SZ - 1)
                  /\ Len(Text(s)) = MAX_OSC_STR_SZ - 1
<1> DEFINE w == Without(s, NUL)
           n == Len(w)
           m == MAX_OSC_STR_SZ - 1
           l == Min({n, m})
<1>1. w \in Seq(Byte)
  BY WithoutType, Zenon
<1>2. n \in Nat /\ \A k \in 1..n : w[k] \in Byte
  <2> HIDE DEF w
  <2>1. QED
    BY <1>1
<1>3. m \in Nat
  BY AnsiStoreAssumption
<1>4. Text(s) = SubSeq(w, 1, l)
  BY Zenon DEF Text
<1>5. l = IF n <= m THEN n ELSE m
  <2> HIDE DEF n, m
  <2>1. {n, m} \in SUBSET Nat /\ {n, m} # {}
    BY <1>2, <1>3
  <2>2. l \in {n, m} /\ \A k \in {n, m} : l <= k
    BY <2>1, MinMember, Zenon
  <2> HIDE DEF l
  <2>3. QED
    BY <1>2, <1>3, <2>2
<1>6. SubSeq(w, 1, n) = w
  BY <1>1, SubSeqFull, Zenon
<1>7. ~ (n <= m) => Len(SubSeq(w, 1, m)) = m
  <2> HIDE DEF w, n, m
  <2>1. SUFFICES ASSUME ~ (n <= m) PROVE Len(SubSeq(w, 1, m)) = m
    OBVIOUS
  <2>2. \A k \in 1..m : w[k] \in Byte
    BY <1>2, <1>3, <2>1
  <2>3. Len(SubSeq(w, 1, m)) = IF 1 <= m THEN m - 1 + 1 ELSE 0
    BY <1>3, <2>2, SubSeqProperties
  <2>4. QED
    BY <1>3, <2>3
<1> HIDE DEF l, n, m
<1>8. (n <= m => Text(s) = w) /\ (~ (n <= m) => Text(s) = SubSeq(w, 1, m) /\ Len(Text(s)) = m)
  BY <1>4, <1>5, <1>6, <1>7, Zenon
<1>9. QED
  BY <1>1, <1>8, Zenon DEF w, n, m

LEMMA TextEmpty == Text(<<>>) = <<>>
<1> DEFINE s == <<>>
           m == MAX_OSC_STR_SZ - 1
<1>1. s \in Seq(Byte) /\ Len(s) = 0
  OBVIOUS
<1>2. 0 <= m
  BY AnsiStoreAssumption
<1> HIDE DEF s
<1>3. Without(s, NUL) = s
  BY WithoutEmpty, Zenon DEF s
<1>4. Len(Without(s, NUL)) <= m
  BY <1>1, <1>2, <1>3, Zenon
<1>5. Text(s) = s
  BY <1>1, <1>3, <1>4, TextIs, Zenon
<1>6. QED
  BY <1>5, Zenon DEF s

\* A byte more is in the text if there is room for it, a NUL is not.
LEMMA TextAppend ==
  ASSUME NEW s \in Seq(Byte), NEW c \in Byte
  PROVE  Text(Append(s, c)) =
           IF Len(Text(s)) + 1 >= MAX_OSC_STR_SZ \/ c = NUL THEN Text(s) ELSE Append(Text(s), c)
<1> DEFINE w == Without(s, NUL)
           u == Without(Append(s, c), NUL)
           m == MAX_OSC_STR_SZ - 1
           t == Text(s)
           r == Text(Append(s, c))
<1>1. m \in Nat /\ MAX_OSC_STR_SZ = m + 1
  BY AnsiStoreAssumption
<1>2. Append(s, c) \in Seq(Byte)
  OBVIOUS
<1>3. u = IF c = NUL THEN w ELSE Append(w, c)
  <2>1. u = Unless(w, c, NUL)
    BY WithoutAppend, Zenon
  <2>2. QED
    BY <2>1, Zenon DEF Unless
<1>4. /\ w \in Seq(Byte) /\ (Len(w) <= m => t = w)
      /\ ~ (Len(w) <= m) => t = SubSeq(w, 1, m) /\ Len(t) = m
  BY TextIs, Zenon
<1>5. /\ u \in Seq(Byte) /\ (Len(u) <= m => r = u)
      /\ ~ (Len(u) <= m) => r = SubSeq(u, 1, m) /\ Len(r) = m
  BY <1>2, TextIs, Zenon
<1>6. u = w => r = t
  <2> HIDE DEF w, u, r, t, m
  <2>1. QED
    BY <1>4, <1>5, Zenon
<1> SUFFICES r = IF Len(t) + 1 >= m + 1 \/ c = NUL THEN t ELSE Append(t, c)
  BY <1>1, Zenon
<1> HIDE DEF w, u, r, t, m
<1>7. CASE c = NUL
  BY <1>3, <1>6, <1>7, Zenon
<1>8. CASE c # NUL
  <2>1. u = Append(w, c)
    BY <1>3, <1>8, Zenon
  <2>2. Len(w) \in Nat /\ Len(u) = Len(w) + 1
    BY <1>4, <2>1
  <2> DEFINE n == Len(w)
  <2>3. CASE n < m
    <3>1. n <= m /\ n + 1 <= m /\ ~ (n + 1 >= m + 1)
      <4> HIDE DEF n
      <4>1. n \in Nat
        BY <2>2 DEF n
      <4>2. QED
        BY <1>1, <2>3, <4>1
    <3>2. t = w /\ r = u
      BY <1>4, <1>5, <2>2, <3>1, Zenon
    <3>3. QED
      BY <1>8, <2>1, <3>1, <3>2, Zenon
  <2>4. CASE ~ (n < m)
    <3>1. m \in 0..n /\ (n <= m => n = m) /\ ~ (n + 1 <= m) /\ m + 1 >= m + 1
      <4> HIDE DEF n
      <4>1. n \in Nat
        BY <2>2 DEF n
      <4>2. QED
        BY <1>1, <2>4, <4>1
    <3>2. SubSeq(w, 1, n) = w
      BY <1>4, SubSeqFull, Zenon
    <3>3. t = SubSeq(w, 1, m) /\ Len(t) = m
      BY <1>4, <3>1, <3>2, Zenon
    <3>4. r = SubSeq(u, 1, m)
      BY <1>5, <2>2, <3>1, Zenon
    <3>5. SubSeq(u, 0 + 1, m) = SubSeq(w, 0 + 1, m)
      <4>1. 0 \in Nat
        OBVIOUS
      <4>2. QED
        BY <1>4, <2>1, <3>1, <4>1, PartKept, Zenon
    <3>6. SubSeq(u, 1, m) = SubSeq(w, 1, m)
      <4>1. 0 + 1 = 1
        OBVIOUS
      <4>2. QED
        BY <3>5, <4>1, Zenon
    <3>7. QED
      BY <3>1, <3>3, <3>4, <3>6, Zenon
  <2>5. QED
    BY <2>3, <2>4, Zenon
<1>9. QED
  BY <1>7, <1>8, Zenon
-----------------------------------------------------------------------------
(* What is stored in each of the states *)

Stored(cls, cmd, strarg, ext, argv) ==
  [cls |-> cls, cmd |-> cmd, strarg |-> strarg, ext |-> ext, argv |-> argv]

\* The sequence q, the argument p that is being read, and whether there is one,
\* when what is behind the last escape is the body.  At the end nothing is said
\* of the latter.
Holds(s, body, q, p, g) ==
  \/ /\ s = "S_ESC"
     /\ q = Stored(NUL, NUL, <<>>, FALSE, <<>>) /\ p = 0 /\ g = FALSE
  \/ /\ s = "S_CSI"
     /\ q = Stored("[", NUL, <<>>, Contains(Tail(body), "?"), Closed(Tail(body)))
     /\ p = Number(Current(Tail(body))) /\ g = (Current(Tail(body)) # <<>>)
  \/ /\ s = "S_SQC"
     /\ q = Stored("]", NUL, Text(Tail(body)), FALSE, <<>>) /\ p = 0 /\ g = FALSE
  \/ /\ s = "S_PPH"
     /\ q = Stored(body[1], NUL, <<>>, FALSE, <<>>) /\ p = 0 /\ g = FALSE
  \/ /\ s = "S_FIN"
     /\ q = Stored(IF Len(body) = 1 THEN NUL ELSE body[1],
                   IF body[1] = "]" THEN NUL ELSE body[Len(body)],
                   IF body[1] = "]" THEN Text(SubSeq(body, 2, Len(body) - 1)) ELSE <<>>,
                   body[1] = "[" /\ Contains(SubSeq(body, 2, Len(body) - 1), "?"),
                   IF body[1] = "[" THEN Fields(SubSeq(body, 2, Len(body) - 1)) ELSE <<>>)
     /\ p = 0

\* At the end it is what the sequence says.
LEMMA HoldsParse ==
  ASSUME NEW b, NEW q, NEW p, NEW g, Holds("S_FIN", Body(b), q, p, g)
  PROVE  q = Parse(b)
<1> DEFINE body == Body(b)
<1>1. Holds("S_FIN", body, q, p, g)
  BY Zenon
<1>2. Parse(b) = Stored(IF Len(body) = 1 THEN NUL ELSE body[1],
                        IF body[1] = "]" THEN NUL ELSE body[Len(body)],
                        IF body[1] = "]" THEN Text(SubSeq(body, 2, Len(body) - 1)) ELSE <<>>,
                        body[1] = "[" /\ Contains(SubSeq(body, 2, Len(body) - 1), "?"),
                        IF body[1] = "[" THEN Fields(SubSeq(body, 2, Len(body) - 1)) ELSE <<>>)
  BY Zenon DEF Parse, Text, Middle, Stored
<1> HIDE DEF body
<1>3. QED
  BY <1>1, <1>2 DEF Holds

\* The body without its first byte, and that without the last.
LEMMA BodyParts ==
  ASSUME NEW B \in Seq(Byte), NEW c \in Byte
  PROVE  LET body == Append(B, c)
             n    == Len(body)
         IN  /\ n \in Nat \ {0} /\ body[n] = c
             /\ B = <<>> => n = 1 /\ body[1] = c /\ Tail(body) = <<>>
             /\ B # <<>> => /\ n # 1 /\ body[1] = B[1]
                            /\ Tail(B) \in Seq(Byte) /\ Tail(body) = Append(Tail(B), c)
                            /\ SubSeq(body, 2, n - 1) = Tail(B)
<1> DEFINE body == Append(B, c)
           n == Len(body)
           m == Len(B)
<1>1. m \in Nat /\ n = m + 1 /\ body[n] = c /\ (B # <<>> => m # 0 /\ body[1] = B[1]) /\ (B = <<>> => m = 0)
  OBVIOUS
<1>2. Tail(body) = IF B = <<>> THEN <<>> ELSE Append(Tail(B), c)
  BY HeadTailAppend, Zenon
<1>3. B # <<>> => Tail(B) \in Seq(Byte) /\ Tail(B) = SubSeq(B, 2, m)
  BY HeadTailProperties, TailIsSubSeq, Zenon
<1> HIDE DEF body, n, m
<1>4. n \in Nat \ {0} /\ n - 1 = m /\ (B = <<>> => n = 1) /\ (B # <<>> => n # 1)
  BY <1>1
<1>5. SubSeq(body, 1 + 1, m) = SubSeq(B, 1 + 1, m)
  <2>1. m \in 0..m /\ 1 \in Nat
    BY <1>1
  <2>2. QED
    BY <2>1, PartKept, Zenon DEF body, m
<1>6. 1 + 1 = 2
  OBVIOUS
<1>7. B # <<>> => SubSeq(body, 2, n - 1) = Tail(B)
  BY <1>3, <1>4, <1>5, <1>6, Zenon
<1>8. QED
  BY <1>1, <1>2, <1>3, <1>4, <1>7, Zenon DEF body, n

\* A byte more that may be the one looked for.
LEMMA ContainsAppend ==
  ASSUME NEW s \in Seq(Byte), NEW c \in Byte, NEW x
  PROVE  Contains(Append(s, c), x) = (Contains(s, x) \/ c = x)
<1> DEFINE n == Len(s)
           t == Append(s, c)
<1>1. n \in Nat /\ Len(t) = n + 1 /\ t[n+1] = c /\ \A k \in 1..n : t[k] = s[k]
  OBVIOUS
<1> HIDE DEF t, n
<1>2. n + 1 \in 1..n+1 /\ (\A k \in 1..n : k \in 1..n+1) /\ (\A k \in 1..n+1 : k \in 1..n \/ k = n + 1)
  BY <1>1
<1>3. Contains(t, x) <=> Contains(s, x) \/ c = x
  BY <1>1, <1>2, Zenon DEF Contains, n
<1>4. QED
  BY <1>3, Zenon DEF t, Contains

LEMMA ContainsEmpty ==
  ASSUME NEW x
  PROVE  Contains(<<>>, x) = FALSE
BY DEF Contains

\* The action column of the table, with the bytes in place of their tokens.
LEMMA ActionTable ==
  ASSUME NEW c \in Byte
  PROVE  /\ \A s : c = ESC => (Action(s, c) <=> act_begin)
         /\ c # ESC =>
              /\ c \in Command => (Action("S_ESC", c) <=> act_mkctl(c))
              /\ c \notin Command => (Action("S_ESC", c) <=> act_setcls(c))
              /\ c \in CCHRS => (Action("S_CSI", c) <=> act_mkctl(c))
              /\ c \in Digits => (Action("S_CSI", c) <=> act_mkpar(c))
              /\ c = "?" => (Action("S_CSI", c) <=> act_ext)
              /\ c = ";" => (Action("S_CSI", c) <=> act_stor)
              /\ c \in Stop => (Action("S_SQC", c) <=> act_nop)
              /\ c \notin Stop => (Action("S_SQC", c) <=> act_mkstr(c))
              /\ Action("S_PPH", c) <=> act_mkctl(c)
<1> DEFINE t == mktok(c)
           A(s) == CASE t = "T_ESCP"                                -> act_begin
                     [] s = "S_ESC" /\ t \in {"T_CCHR", "T_NDIG"}   -> act_mkctl(c)
                     [] s = "S_ESC" /\ t \notin {"T_ESCP", "T_CCHR", "T_NDIG"} -> act_setcls(c)
                     [] s = "S_CSI" /\ t = "T_CCHR"                 -> act_mkctl(c)
                     [] s = "S_CSI" /\ t = "T_NDIG"                 -> act_mkpar(c)
                     [] s = "S_CSI" /\ t = "T_QMRK"                 -> act_ext
                     [] s = "S_CSI" /\ t = "T_SMCL"                 -> act_stor
                     [] s = "S_SQC" /\ t \in {"T_BELL", "T_STRM"}   -> act_nop
                     [] s = "S_SQC" /\ t \notin {"T_ESCP", "T_BELL", "T_STRM"} -> act_mkstr(c)
                     [] s = "S_PPH" /\ t # "T_ESCP"                 -> act_mkctl(c)
                     [] OTHER                                       -> act_nop
<1>1. \A s : Action(s, c) = A(s)
  BY Zenon DEF Action
<1>2. /\ t = "T_ESCP" <=> c = ESC
      /\ t = "T_CCHR" <=> c \in CCHRS
      /\ t = "T_NDIG" <=> c \in Digits
      /\ t \in {"T_CCHR", "T_NDIG"} <=> c \in Command
      /\ t \in {"T_BELL", "T_STRM"} <=> c \in Stop
      /\ t = "T_QMRK" <=> c = "?"
      /\ t = "T_SMCL" <=> c = ";"
  BY Tokens, Zenon
<1>3. t = "T_ESCP" => \A s : (A(s) <=> act_begin)
  <2> HIDE DEF t
  <2>1. QED
    OBVIOUS
<1>4. t # "T_ESCP" =>
        /\ t \in {"T_CCHR", "T_NDIG"} => (A("S_ESC") <=> act_mkctl(c))
        /\ t \notin {"T_CCHR", "T_NDIG"} => (A("S_ESC") <=> act_setcls(c))
        /\ t = "T_CCHR" => (A("S_CSI") <=> act_mkctl(c))
        /\ t = "T_NDIG" => (A("S_CSI") <=> act_mkpar(c))
        /\ t = "T_QMRK" => (A("S_CSI") <=> act_ext)
        /\ t = "T_SMCL" => (A("S_CSI") <=> act_stor)
        /\ t \in {"T_BELL", "T_STRM"} => (A("S_SQC") <=> act_nop)
        /\ t \notin {"T_BELL", "T_STRM"} => (A("S_SQC") <=> act_mkstr(c))
        /\ A("S_PPH") <=> act_mkctl(c)
  <2> HIDE DEF t
  <2>1. QED
    OBVIOUS
<1> HIDE DEF A, t
<1>5. QED
  BY <1>1, <1>2, <1>3, <1>4, Zenon

\* Two fields changed at once are changed one after the other.
LEMMA TwoChanges ==
  ASSUME NEW r, NEW x, NEW y
  PROVE  [r EXCEPT !.cmd = x, !.argv = y] = [[r EXCEPT !.cmd = x] EXCEPT !.argv = y]
OBVIOUS

\* The actions, when the fields of the stored sequence are known.
LEMMA BeginDoes ==
  ASSUME act_begin
  PROVE  /\ s_curseq' = Stored(NUL, NUL, <<>>, FALSE, <<>>)
         /\ s_parmv' = 0 /\ s_gotparm' = FALSE
BY Zenon DEF act_begin, s_protoseq, Stored

LEMMA NopDoes ==
  ASSUME act_nop
  PROVE  s_curseq' = s_curseq /\ s_parmv' = s_parmv /\ s_gotparm' = s_gotparm
BY Zenon DEF act_nop, store

LEMMA StorDoes ==
  ASSUME NEW cls, NEW cmd, NEW strarg, NEW ext, NEW argv,
         s_curseq = Stored(cls, cmd, strarg, ext, argv), act_stor
  PROVE  /\ s_curseq' = Stored(cls, cmd, strarg, ext,
                               Append(argv, IF s_gotparm THEN s_parmv ELSE ABSENT))
         /\ s_parmv' = 0 /\ s_gotparm' = FALSE
<1> DEFINE q == s_curseq
           r == Stored(cls, cmd, strarg, ext, argv)
<1>1. /\ s_curseq' = [q EXCEPT !.argv = Append(q.argv, IF s_gotparm THEN s_parmv ELSE ABSENT)]
      /\ s_parmv' = 0 /\ s_gotparm' = FALSE
  BY Zenon DEF act_stor
<1>2. q = r
  BY Zenon
<1>3. \A x : [r EXCEPT !.argv = x] = Stored(cls, cmd, strarg, ext, x)
  BY DEF Stored
<1>4. r.argv = argv
  BY DEF Stored
<1> HIDE DEF q, r
<1>5. QED
  BY <1>1, <1>2, <1>3, <1>4, Zenon

LEMMA MkctlDoes ==
  ASSUME NEW cls, NEW cmd, NEW strarg, NEW ext, NEW argv, NEW c,
         s_curseq = Stored(cls, cmd, strarg, ext, argv), act_mkctl(c)
  PROVE  /\ s_curseq' = Stored(cls, c, strarg, ext,
                               IF s_gotparm THEN Append(argv, s_parmv) ELSE argv)
         /\ s_parmv' = IF s_gotparm THEN 0 ELSE s_parmv
<1> DEFINE q == s_curseq
           r == Stored(cls, cmd, strarg, ext, argv)
<1>1. /\ s_curseq' = [q EXCEPT !.cmd = c, !.argv = IF s_gotparm THEN Append(q.argv, s_parmv) ELSE q.argv]
      /\ s_parmv' = IF s_gotparm THEN 0 ELSE s_parmv
  BY Zenon DEF act_mkctl
<1>2. q = r
  BY Zenon
<1>3. \A x, y : [r EXCEPT !.cmd = x, !.argv = y] = Stored(cls, x, strarg, ext, y)
  <2> TAKE x, y
  <2>1. [r EXCEPT !.cmd = x] = Stored(cls, x, strarg, ext, argv)
    BY DEF Stored
  <2>2. [Stored(cls, x, strarg, ext, argv) EXCEPT !.argv = y] = Stored(cls, x, strarg, ext, y)
    BY DEF Stored
  <2> HIDE DEF r
  <2>3. QED
    BY <2>1, <2>2, TwoChanges, Zenon
<1>4. r.argv = argv
  BY DEF Stored
<1> HIDE DEF q, r
<1>5. QED
  BY <1>1, <1>2, <1>3, <1>4, Zenon

LEMMA MkparDoes ==
  ASSUME NEW cls, NEW cmd, NEW strarg, NEW ext, NEW argv, NEW c,
         s_curseq = Stored(cls, cmd, strarg, ext, argv), act_mkpar(c)
  PROVE  /\ s_curseq' = Stored(cls, cmd, strarg, ext, argv)
         /\ s_parmv' = s_parmv * 10 + Digit(c) /\ s_gotparm' = TRUE
BY Zenon DEF act_mkpar

LEMMA MkstrDoes ==
  ASSUME NEW cls, NEW cmd, NEW strarg, NEW ext, NEW argv, NEW c,
         s_curseq = Stored(cls, cmd, strarg, ext, argv), act_mkstr(c)
  PROVE  /\ s_curseq' = Stored(cls, cmd,
                               IF Len(strarg) + 1 >= MAX_OSC_STR_SZ \/ c = NUL THEN strarg
                               ELSE Append(strarg, c), ext, argv)
         /\ s_parmv' = s_parmv /\ s_gotparm' = s_gotparm
<1> DEFINE q == s_curseq
           r == Stored(cls, cmd, strarg, ext, argv)
<1>1. /\ s_curseq' = IF Len(q.strarg) + 1 >= MAX_OSC_STR_SZ \/ c = NUL THEN q
                  ELSE [q EXCEPT !.strarg = Append(q.strarg, c)]
      /\ s_parmv' = s_parmv /\ s_gotparm' = s_gotparm
  BY Zenon DEF act_mkstr
<1>2. q = r
  BY Zenon
<1>3. \A x : [r EXCEPT !.strarg = x] = Stored(cls, cmd, x, ext, argv)
  BY DEF Stored
<1>4. r.strarg = strarg
  BY DEF Stored
<1> HIDE DEF q, r
<1>5. s_curseq' = IF Len(strarg) + 1 >= MAX_OSC_STR_SZ \/ c = NUL THEN r
                  ELSE [r EXCEPT !.strarg = Append(strarg, c)]
  BY <1>1, <1>2, <1>4, Zenon
<1>6. QED
  BY <1>1, <1>3, <1>5, Zenon DEF r

LEMMA SetclsDoes ==
  ASSUME NEW cls, NEW cmd, NEW strarg, NEW ext, NEW argv, NEW c,
         s_curseq = Stored(cls, cmd, strarg, ext, argv), act_setcls(c)
  PROVE  /\ s_curseq' = Stored(c, cmd, strarg, ext, argv)
         /\ s_parmv' = s_parmv /\ s_gotparm' = s_gotparm
<1> DEFINE q == s_curseq
           r == Stored(cls, cmd, strarg, ext, argv)
<1>1. /\ s_curseq' = [q EXCEPT !.cls = c]
      /\ s_parmv' = s_parmv /\ s_gotparm' = s_gotparm
  BY Zenon DEF act_setcls
<1>2. q = r
  BY Zenon
<1>3. \A x : [r EXCEPT !.cls = x] = Stored(x, cmd, strarg, ext, argv)
  BY DEF Stored
<1> HIDE DEF q, r
<1>4. QED
  BY <1>1, <1>2, <1>3, Zenon

LEMMA FirstSetcls ==
  ASSUME NEW c, s_curseq = Stored(NUL, NUL, <<>>, FALSE, <<>>), s_parmv = 0, s_gotparm = FALSE,
         act_setcls(c)
  PROVE  s_curseq' = Stored(c, NUL, <<>>, FALSE, <<>>) /\ s_parmv' = 0 /\ s_gotparm' = FALSE
BY SetclsDoes, ZenonT(30)

LEMMA ExtDoes ==
  ASSUME NEW cls, NEW cmd, NEW strarg, NEW ext, NEW argv,
         s_curseq = Stored(cls, cmd, strarg, ext, argv), act_ext
  PROVE  /\ s_curseq' = Stored(cls, cmd, strarg, TRUE, argv)
         /\ s_parmv' = s_parmv /\ s_gotparm' = s_gotparm
<1> DEFINE q == s_curseq
           r == Stored(cls, cmd, strarg, ext, argv)
<1>1. /\ s_curseq' = [q EXCEPT !.ext = TRUE]
      /\ s_parmv' = s_parmv /\ s_gotparm' = s_gotparm
  BY Zenon DEF act_ext
<1>2. q = r
  BY Zenon
<1>3. \A x : [r EXCEPT !.ext = x] = Stored(cls, cmd, strarg, x, argv)
  BY DEF Stored
<1> HIDE DEF q, r
<1>4. QED
  BY <1>1, <1>2, <1>3, Zenon

\* A body that has a length has a first byte.
LEMMA NotEmpty ==
  ASSUME NEW B \in Seq(Byte), Len(B) > 0
  PROVE  B # <<>>
OBVIOUS

\* The first byte behind the escape.
LEMMA StepFromEscape ==
  ASSUME NEW c \in Byte, c # ESC, SeqDelta("S_ESC", mktok(c)) # "S_ERR", Action("S_ESC", c),
         s_curseq = Stored(NUL, NUL, <<>>, FALSE, <<>>), s_parmv = 0, s_gotparm = FALSE
  PROVE  Holds(SeqDelta("S_ESC", mktok(c)), Append(<<>>, c), s_curseq', s_parmv', s_gotparm')
<1> DEFINE n == SeqDelta("S_ESC", mktok(c))
           body == Append(<<>>, c)
<1>1. n = IF c \in Command THEN "S_FIN" ELSE IF c \in {"#", "(", ")"} THEN "S_PPH"
          ELSE IF c = "[" THEN "S_CSI" ELSE IF c = "]" THEN "S_SQC" ELSE "S_ERR"
  BY Table, Zenon
<1>2. n # "S_ERR"
  BY Zenon
<1>3. Len(body) = 1 /\ body[1] = c /\ Tail(body) = <<>>
  <2>1. <<>> \in Seq(Byte)
    OBVIOUS
  <2>2. QED
    BY <2>1, BodyParts, Zenon
<1> HIDE DEF n, body
<1>4. CASE c \in Command
  <2>1. act_mkctl(c)
    BY <1>4, ActionTable, Zenon
  <2>2. s_curseq' = Stored(NUL, c, <<>>, FALSE, <<>>) /\ s_parmv' = 0
    BY <2>1, MkctlDoes, Zenon
  <2>3. n = "S_FIN"
    BY <1>1, <1>4, Zenon
  <2>4. c # "[" /\ c # "]"
    BY <1>4 DEF Command, CCHRS, Digits
  <2> DEFINE T == SubSeq(body, 2, Len(body) - 1)
  <2>5. (body[1] = "[" /\ Contains(T, "?")) = FALSE
    <3> HIDE DEF T
    <3>1. QED
      BY <1>3, <2>4, Zenon
  <2>6. s_curseq' = Stored(IF Len(body) = 1 THEN NUL ELSE body[1],
                           IF body[1] = "]" THEN NUL ELSE body[Len(body)],
                           IF body[1] = "]" THEN Text(T) ELSE <<>>,
                           body[1] = "[" /\ Contains(T, "?"),
                           IF body[1] = "[" THEN Fields(T) ELSE <<>>)
    <3> HIDE DEF T
    <3>1. QED
      BY <1>3, <2>2, <2>4, <2>5, Zenon
  <2>7. Holds("S_FIN", body, s_curseq', s_parmv', s_gotparm')
    BY <2>2, <2>6, Zenon DEF Holds
  <2>8. QED
    BY <2>3, <2>7, Zenon DEF n, body
<1>5. CASE c \notin Command
  <2>1. act_setcls(c)
    BY <1>5, ActionTable, Zenon
  <2>2. s_curseq' = Stored(c, NUL, <<>>, FALSE, <<>>)
    BY <2>1, FirstSetcls, Zenon
  <2>3. s_parmv' = 0 /\ s_gotparm' = FALSE
    BY <2>1, FirstSetcls, Zenon
  <2>4. CASE n = "S_PPH"
    <3>1. s_curseq' = Stored(body[1], NUL, <<>>, FALSE, <<>>)
      BY <1>3, <2>2, Zenon
    <3>2. Holds("S_PPH", body, s_curseq', s_parmv', s_gotparm')
      BY <2>3, <3>1, Zenon DEF Holds
    <3>3. QED
      BY <2>4, <3>2, Zenon DEF n, body
  <2>5. CASE n = "S_CSI" /\ c = "["
    <3>1. Contains(Tail(body), "?") = FALSE /\ Closed(Tail(body)) = <<>> /\ Current(Tail(body)) = <<>>
      BY <1>3, ContainsEmpty, FieldsEmpty, Zenon
    <3>2. s_curseq' = Stored("[", NUL, <<>>, Contains(Tail(body), "?"), Closed(Tail(body)))
      BY <2>2, <2>5, <3>1, Zenon
    <3>3. s_parmv' = Number(Current(Tail(body)))
      BY <2>3, <3>1, NumberEmpty, Zenon
    <3>4. s_gotparm' = (Current(Tail(body)) # <<>>)
      BY <2>3, <3>1, Zenon
    <3>5. QED
      BY <2>5, <3>2, <3>3, <3>4, Zenon DEF Holds, n, body
  <2>6. CASE n = "S_SQC" /\ c = "]"
    <3>1. s_curseq' = Stored("]", NUL, Text(Tail(body)), FALSE, <<>>)
      BY <1>3, <2>2, <2>6, TextEmpty, Zenon
    <3>2. QED
      BY <2>3, <2>6, <3>1, Zenon DEF Holds, n, body
  <2>7. QED
    BY <1>1, <1>2, <1>5, <2>4, <2>5, <2>6, Zenon
<1>6. QED
  BY <1>4, <1>5, Zenon

\* What the last byte makes of the sequence.
LEMMA AtEnd ==
  ASSUME NEW B \in Seq(Byte), B # <<>>, NEW c \in Byte, NEW q, NEW p, NEW g, p = 0,
         q = Stored(B[1], IF B[1] = "]" THEN NUL ELSE c,
                    IF B[1] = "]" THEN Text(Tail(B)) ELSE <<>>,
                    B[1] = "[" /\ Contains(Tail(B), "?"),
                    IF B[1] = "[" THEN Fields(Tail(B)) ELSE <<>>)
  PROVE  Holds("S_FIN", Append(B, c), q, p, g)
<1> DEFINE body == Append(B, c)
           T == SubSeq(body, 2, Len(body) - 1)
<1>1. Len(body) # 1 /\ body[1] = B[1] /\ body[Len(body)] = c /\ T = Tail(B)
  BY BodyParts, Zenon
<1> HIDE DEF body, T
<1>2. q = Stored(IF Len(body) = 1 THEN NUL ELSE body[1],
                 IF body[1] = "]" THEN NUL ELSE body[Len(body)],
                 IF body[1] = "]" THEN Text(T) ELSE <<>>,
                 body[1] = "[" /\ Contains(T, "?"),
                 IF body[1] = "[" THEN Fields(T) ELSE <<>>)
  BY <1>1, Zenon
<1>3. QED
  BY <1>2, Zenon DEF Holds, body, T

\* A byte of a control sequence.
LEMMA StepInControl ==
  ASSUME NEW c \in Byte, c # ESC, SeqDelta("S_CSI", mktok(c)) # "S_ERR", Action("S_CSI", c),
         NEW B \in Seq(Byte), Shape("S_CSI", B), Holds("S_CSI", B, s_curseq, s_parmv, s_gotparm)
  PROVE  Holds(SeqDelta("S_CSI", mktok(c)), Append(B, c), s_curseq', s_parmv', s_gotparm')
<1> DEFINE n == SeqDelta("S_CSI", mktok(c))
           T == Tail(B)
           body == Append(B, c)
<1>1. n = IF c \in CCHRS THEN "S_FIN"
          ELSE IF c \in Digits \cup {"?", ";"} THEN "S_CSI" ELSE "S_ERR"
  BY Table, Zenon
<1>2. n # "S_ERR"
  BY Zenon
<1>3. B # <<>> /\ B[1] = "["
  <2>1. Len(B) > 0 /\ B[1] = "["
    BY DEF Shape
  <2>2. QED
    BY <2>1, NotEmpty, Zenon
<1>4. T \in Seq(Byte) /\ Tail(body) = Append(T, c)
  BY <1>3, BodyParts, Zenon
<1>5. /\ s_curseq = Stored("[", NUL, <<>>, Contains(T, "?"), Closed(T))
      /\ s_parmv = Number(Current(T)) /\ s_gotparm = (Current(T) # <<>>)
  BY DEF Holds
<1> HIDE DEF n, T, body
<1>6. Current(T) \in Seq(Byte) /\ Fields(T) = IF Current(T) = <<>> THEN Closed(T)
                                              ELSE Append(Closed(T), Number(Current(T)))
  BY <1>4, FieldsAre, Zenon
<1>7. CASE c \in CCHRS
  <2>1. act_mkctl(c)
    BY <1>7, ActionTable, Zenon
  <2>2. /\ s_curseq' = Stored("[", c, <<>>, Contains(T, "?"),
                              IF s_gotparm THEN Append(Closed(T), s_parmv) ELSE Closed(T))
        /\ s_parmv' = IF s_gotparm THEN 0 ELSE s_parmv
    BY <1>5, <2>1, MkctlDoes, Zenon
  <2>3. s_parmv' = 0 /\ s_curseq' = Stored("[", c, <<>>, Contains(T, "?"), Fields(T))
    <3>1. CASE Current(T) = <<>>
      <4>1. ~ s_gotparm
        BY <1>5, <3>1, Zenon
      <4>2. s_parmv = 0
        BY <1>5, <3>1, NumberEmpty, Zenon
      <4>3. QED
        BY <1>6, <2>2, <3>1, <4>1, <4>2, Zenon
    <3>2. CASE Current(T) # <<>>
      <4>1. s_gotparm
        BY <1>5, <3>2, Zenon
      <4>2. QED
        BY <1>5, <1>6, <2>2, <3>2, <4>1, Zenon
    <3>3. QED
      BY <3>1, <3>2, Zenon
  <2>4. B[1] # "]"
    BY <1>3
  <2>5. (B[1] = "[" /\ Contains(T, "?")) = Contains(T, "?")
    BY <1>3, Zenon DEF Contains
  <2>6. s_curseq' = Stored(B[1], IF B[1] = "]" THEN NUL ELSE c,
                           IF B[1] = "]" THEN Text(T) ELSE <<>>,
                           B[1] = "[" /\ Contains(T, "?"),
                           IF B[1] = "[" THEN Fields(T) ELSE <<>>)
    BY <1>3, <2>3, <2>4, <2>5, Zenon
  <2>7. Holds("S_FIN", body, s_curseq', s_parmv', s_gotparm')
    BY <1>3, <2>3, <2>6, AtEnd, Zenon DEF T, body
  <2>8. n = "S_FIN"
    BY <1>1, <1>7, Zenon
  <2>9. QED
    BY <2>7, <2>8, Zenon DEF n, body
<1>8. CASE c \notin CCHRS
  <2>1. n = "S_CSI" /\ c \in Digits \cup {"?", ";"}
    BY <1>1, <1>2, <1>8, Zenon
  <2> SUFFICES /\ s_curseq' = Stored("[", NUL, <<>>, Contains(Append(T, c), "?"), Closed(Append(T, c)))
               /\ s_parmv' = Number(Current(Append(T, c)))
               /\ s_gotparm' = (Current(Append(T, c)) # <<>>)
    BY <1>4, <2>1, Zenon DEF Holds, n, body
  <2>2. Contains(Append(T, c), "?") = (Contains(T, "?") \/ c = "?")
    BY <1>4, ContainsAppend, Zenon
  <2>3. CASE c \in Digits
    <3>1. act_mkpar(c)
      BY <2>3, ActionTable, Zenon
    <3>2. /\ s_curseq' = Stored("[", NUL, <<>>, Contains(T, "?"), Closed(T))
          /\ s_parmv' = s_parmv * 10 + Digit(c) /\ s_gotparm' = TRUE
      BY <1>5, <3>1, MkparDoes, Zenon
    <3>3. c # ";" /\ c # "?"
      BY <2>3 DEF Digits
    <3>4. Closed(Append(T, c)) = Closed(T) /\ Current(Append(T, c)) = Append(Current(T), c)
      BY <1>4, <3>3, FieldGoesOn, Zenon
    <3>5. Append(Current(T), c) # <<>>
      BY <1>6, AppendProperties, Zenon
    <3>6. Number(Append(Current(T), c)) = Number(Current(T)) * 10 + Digit(c)
      BY <1>6, NumberAppend, Zenon
    <3>7. Contains(Append(T, c), "?") = Contains(T, "?")
      BY <2>2, <3>3, Zenon DEF Contains
    <3>8. QED
      BY <1>5, <3>2, <3>4, <3>5, <3>6, <3>7, Zenon
  <2>4. CASE c = "?"
    <3>1. act_ext
      BY <2>4, ActionTable, Zenon
    <3>2. /\ s_curseq' = Stored("[", NUL, <<>>, TRUE, Closed(T))
          /\ s_parmv' = s_parmv /\ s_gotparm' = s_gotparm
      BY <1>5, <3>1, ExtDoes, Zenon
    <3>3. c # ";"
      BY <2>4
    <3>4. Closed(Append(T, c)) = Closed(T) /\ Current(Append(T, c)) = Current(T)
      BY <1>4, <2>4, <3>3, FieldGoesOn, Zenon
    <3>5. Contains(Append(T, c), "?") = TRUE
      BY <2>2, <2>4, Zenon
    <3>6. QED
      BY <1>5, <3>2, <3>4, <3>5, Zenon
  <2>5. CASE c = ";"
    <3>1. act_stor
      BY <2>5, ActionTable, Zenon
    <3>2. /\ s_curseq' = Stored("[", NUL, <<>>, Contains(T, "?"),
                                Append(Closed(T), IF s_gotparm THEN s_parmv ELSE ABSENT))
          /\ s_parmv' = 0 /\ s_gotparm' = FALSE
      BY <1>5, <3>1, StorDoes, Zenon
    <3>3. (IF s_gotparm THEN s_parmv ELSE ABSENT) = Value(Current(T))
      BY <1>5, Zenon DEF Value
    <3>4. Closed(Append(T, c)) = Append(Closed(T), Value(Current(T))) /\ Current(Append(T, c)) = <<>>
      BY <1>4, <2>5, FieldEnds, Zenon
    <3>5. c # "?"
      BY <2>5
    <3>6. Contains(Append(T, c), "?") = Contains(T, "?")
      BY <2>2, <3>5, Zenon DEF Contains
    <3>7. QED
      BY <3>2, <3>3, <3>4, <3>6, NumberEmpty, Zenon
  <2>6. QED
    BY <2>1, <2>3, <2>4, <2>5, Zenon
<1>9. QED
  BY <1>7, <1>8, Zenon

\* A byte of a string.
LEMMA StepInString ==
  ASSUME NEW c \in Byte, c # ESC, Action("S_SQC", c),
         NEW B \in Seq(Byte), Shape("S_SQC", B), Holds("S_SQC", B, s_curseq, s_parmv, s_gotparm)
  PROVE  Holds(SeqDelta("S_SQC", mktok(c)), Append(B, c), s_curseq', s_parmv', s_gotparm')
<1> DEFINE n == SeqDelta("S_SQC", mktok(c))
           T == Tail(B)
           body == Append(B, c)
<1>1. n = IF c \in Stop THEN "S_FIN" ELSE "S_SQC"
  BY Table, Zenon
<1>2. B # <<>> /\ B[1] = "]"
  <2>1. Len(B) > 0 /\ B[1] = "]"
    BY DEF Shape
  <2>2. QED
    BY <2>1, NotEmpty, Zenon
<1>3. T \in Seq(Byte) /\ Tail(body) = Append(T, c)
  BY <1>2, BodyParts, Zenon
<1>4. s_curseq = Stored("]", NUL, Text(T), FALSE, <<>>) /\ s_parmv = 0 /\ s_gotparm = FALSE
  BY DEF Holds
<1> HIDE DEF n, T, body
<1>5. CASE c \in Stop
  <2>1. act_nop
    BY <1>5, ActionTable, Zenon
  <2>2. s_curseq' = Stored("]", NUL, Text(T), FALSE, <<>>) /\ s_parmv' = 0
    BY <1>4, <2>1, NopDoes, Zenon
  <2>3. B[1] # "["
    BY <1>2
  <2>4. (B[1] = "[" /\ Contains(T, "?")) = FALSE
    BY <2>3, Zenon
  <2>5. s_curseq' = Stored(B[1], IF B[1] = "]" THEN NUL ELSE c,
                           IF B[1] = "]" THEN Text(T) ELSE <<>>,
                           B[1] = "[" /\ Contains(T, "?"),
                           IF B[1] = "[" THEN Fields(T) ELSE <<>>)
    BY <1>2, <2>2, <2>3, <2>4, Zenon
  <2>6. Holds("S_FIN", body, s_curseq', s_parmv', s_gotparm')
    BY <1>2, <2>2, <2>5, AtEnd, Zenon DEF T, body
  <2>7. n = "S_FIN"
    BY <1>1, <1>5, Zenon
  <2>8. QED
    BY <2>6, <2>7, Zenon DEF n, body
<1>6. CASE c \notin Stop
  <2>1. act_mkstr(c)
    BY <1>6, ActionTable, Zenon
  <2> DEFINE t == IF Len(Text(T)) + 1 >= MAX_OSC_STR_SZ \/ c = NUL THEN Text(T) ELSE Append(Text(T), c)
  <2>2. s_curseq' = Stored("]", NUL, t, FALSE, <<>>) /\ s_parmv' = s_parmv /\ s_gotparm' = s_gotparm
    BY <1>4, <2>1, MkstrDoes, Zenon
  <2>3. t = Text(Append(T, c))
    BY <1>3, TextAppend, Zenon
  <2> HIDE DEF t
  <2>4. n = "S_SQC"
    BY <1>1, <1>6, Zenon
  <2>5. s_curseq' = Stored("]", NUL, Text(Tail(body)), FALSE, <<>>) /\ s_parmv' = 0 /\ s_gotparm' = FALSE
    BY <1>3, <1>4, <2>2, <2>3, Zenon
  <2>6. QED
    BY <2>4, <2>5, Zenon DEF Holds, n, body
<1>7. QED
  BY <1>5, <1>6, Zenon

\* The byte behind a hash or a parenthesis.
LEMMA StepFromHash ==
  ASSUME NEW c \in Byte, c # ESC, SeqDelta("S_PPH", mktok(c)) # "S_ERR", Action("S_PPH", c),
         NEW B \in Seq(Byte), Shape("S_PPH", B), Holds("S_PPH", B, s_curseq, s_parmv, s_gotparm)
  PROVE  Holds(SeqDelta("S_PPH", mktok(c)), Append(B, c), s_curseq', s_parmv', s_gotparm')
<1> DEFINE T == Tail(B)
           body == Append(B, c)
<1>1. SeqDelta("S_PPH", mktok(c)) = "S_FIN"
  <2>1. SeqDelta("S_PPH", mktok(c)) = IF c \in Command THEN "S_FIN" ELSE "S_ERR"
    BY Table, Zenon
  <2>2. QED
    BY <2>1, Zenon
<1>2. B # <<>> /\ B[1] # "[" /\ B[1] # "]"
  <2>1. Len(B) = 1 /\ B[1] \in {"#", "(", ")"}
    BY DEF Shape
  <2>2. Len(B) > 0
    BY <2>1
  <2>3. QED
    BY <2>1, <2>2, NotEmpty
<1>3. s_curseq = Stored(B[1], NUL, <<>>, FALSE, <<>>) /\ s_parmv = 0 /\ s_gotparm = FALSE
  BY DEF Holds
<1> HIDE DEF T, body
<1>4. act_mkctl(c)
  BY ActionTable, Zenon
<1>5. s_curseq' = Stored(B[1], c, <<>>, FALSE, <<>>) /\ s_parmv' = 0
  BY <1>3, <1>4, MkctlDoes, Zenon
<1>6. (B[1] = "[" /\ Contains(T, "?")) = FALSE
  BY <1>2, Zenon
<1>7. s_curseq' = Stored(B[1], IF B[1] = "]" THEN NUL ELSE c,
                         IF B[1] = "]" THEN Text(T) ELSE <<>>,
                         B[1] = "[" /\ Contains(T, "?"),
                         IF B[1] = "[" THEN Fields(T) ELSE <<>>)
  BY <1>2, <1>5, <1>6, Zenon
<1>8. Holds("S_FIN", body, s_curseq', s_parmv', s_gotparm')
  BY <1>2, <1>5, <1>7, AtEnd, Zenon DEF T, body
<1>9. QED
  BY <1>1, <1>8, Zenon DEF body

\* Every byte that does not end in the error state.
LEMMA HoldsStep ==
  ASSUME NEW s \in Underway, NEW B \in Seq(Byte), Shape(s, B),
         Holds(s, B, s_curseq, s_parmv, s_gotparm), NEW c \in Byte,
         SeqDelta(s, mktok(c)) # "S_ERR", Action(s, c)
  PROVE  Holds(SeqDelta(s, mktok(c)), Grown(B, c), s_curseq', s_parmv', s_gotparm')
<1>1. CASE c = ESC
  <2>1. act_begin
    BY <1>1, ActionTable, Zenon
  <2>2. s_curseq' = Stored(NUL, NUL, <<>>, FALSE, <<>>) /\ s_parmv' = 0 /\ s_gotparm' = FALSE
    BY <2>1, BeginDoes, Zenon
  <2>3. SeqDelta(s, mktok(c)) = "S_ESC"
    BY <1>1, Table, Zenon
  <2>4. Holds("S_ESC", Grown(B, c), s_curseq', s_parmv', s_gotparm')
    BY <2>2, Zenon DEF Holds
  <2>5. QED
    BY <2>3, <2>4, Zenon
<1>2. CASE c # ESC
  <2>1. Grown(B, c) = Append(B, c)
    BY <1>2, Zenon DEF Grown
  <2>2. CASE s = "S_ESC"
    <3>1. B = <<>>
      BY <2>2 DEF Shape
    <3>2. s_curseq = Stored(NUL, NUL, <<>>, FALSE, <<>>) /\ s_parmv = 0 /\ s_gotparm = FALSE
      BY <2>2 DEF Holds
    <3>3. SeqDelta("S_ESC", mktok(c)) # "S_ERR" /\ Action("S_ESC", c)
      BY <2>2, Zenon
    <3>4. Holds(SeqDelta("S_ESC", mktok(c)), Append(<<>>, c), s_curseq', s_parmv', s_gotparm')
      BY <1>2, <3>2, <3>3, StepFromEscape, Zenon
    <3>5. QED
      BY <2>1, <2>2, <3>1, <3>4, Zenon
  <2>3. CASE s = "S_CSI"
    BY <1>2, <2>1, <2>3, StepInControl, Zenon
  <2>4. CASE s = "S_SQC"
    BY <1>2, <2>1, <2>4, StepInString, Zenon
  <2>5. CASE s = "S_PPH"
    BY <1>2, <2>1, <2>5, StepFromHash, Zenon
  <2>6. QED
    BY <2>2, <2>3, <2>4, <2>5, Zenon DEF Underway
<1>3. QED
  BY <1>1, <1>2, Zenon

\* The escape that begins a sequence.
LEMMA HoldsFirst ==
  ASSUME Action("S_STA", ESC)
  PROVE  Holds("S_ESC", <<>>, s_curseq', s_parmv', s_gotparm')
<1>1. ESC \in Byte
  BY FirstEscape, Zenon
<1>2. act_begin
  BY <1>1, ActionTable, Zenon
<1>3. s_curseq' = Stored(NUL, NUL, <<>>, FALSE, <<>>) /\ s_parmv' = 0 /\ s_gotparm' = FALSE
  BY <1>2, BeginDoes, Zenon
<1>4. QED
  BY <1>3, Zenon DEF Holds
-----------------------------------------------------------------------------
(* What does not fit *)

\* A sequence does not fit whose arguments are too many or too large.
LEMMA TooMuch ==
  ASSUME NEW b, NEW args,
         args = IF Len(Body(b)) < 2 \/ Body(b)[1] # "[" THEN <<>>
                ELSE IF WellFormed(b) THEN Fields(Middle(b)) ELSE Fields(Tail(Body(b))),
         FitsTheStore(b)
  PROVE  Len(args) <= MAX_ANSISEQ_PARAMS /\ \A k \in 1..Len(args) : args[k] <= INT_MAX
BY Zenon DEF FitsTheStore

\* The last of the arguments, and how many come before it.
LEMMA Longer ==
  ASSUME NEW s \in Seq(Int), NEW x \in Int, NEW m \in Nat, Len(Append(s, x)) <= m
  PROVE  Len(s) <= m /\ Len(Append(s, x)) \in 1..Len(Append(s, x))
         /\ Append(s, x)[Len(Append(s, x))] = x
<1> DEFINE n == Len(s)
           t == Append(s, x)
           l == Len(t)
<1>1. n \in Nat /\ l = n + 1 /\ t[n+1] = x /\ l <= m
  OBVIOUS
<1>2. t[l] = x
  BY <1>1, Zenon
<1> HIDE DEF n, l
<1>3. n <= m /\ l \in 1..l
  BY <1>1
<1>4. QED
  BY <1>2, <1>3, Zenon DEF n, t, l

\* So the fields that are stored up to now fit if all of them do.
LEMMA FieldsFit ==
  ASSUME NEW T \in Seq(Byte), Len(Fields(T)) <= MAX_ANSISEQ_PARAMS,
         \A k \in 1..Len(Fields(T)) : Fields(T)[k] <= INT_MAX
  PROVE  Len(Closed(T)) <= MAX_ANSISEQ_PARAMS /\ Number(Current(T)) <= INT_MAX
<1> DEFINE C == Closed(T)
           u == Current(T)
           x == Number(u)
           F == Fields(T)
<1>1. MAX_ANSISEQ_PARAMS \in Nat /\ 0 <= INT_MAX
  BY AnsiStoreAssumption
<1>2. C \in Seq(Int) /\ u \in Seq(Byte) /\ F = IF u = <<>> THEN C ELSE Append(C, x)
  BY FieldsAre, Zenon
<1>3. x \in Int
  <2>1. x \in Nat
    BY <1>2, NumberType, Zenon
  <2> HIDE DEF x
  <2>2. QED
    BY <2>1
<1>4. Len(F) <= MAX_ANSISEQ_PARAMS /\ \A k \in 1..Len(F) : F[k] <= INT_MAX
  BY Zenon
<1> HIDE DEF C, x, F
<1>5. CASE u = <<>>
  <2>1. x = 0
    BY <1>5, NumberEmpty, Zenon DEF x
  <2>2. F = C
    BY <1>2, <1>5, Zenon
  <2>3. QED
    BY <1>1, <1>4, <2>1, <2>2, Zenon DEF C, x
<1>6. CASE u # <<>>
  <2>1. F = Append(C, x)
    BY <1>2, <1>6, Zenon
  <2>2. /\ Len(C) <= MAX_ANSISEQ_PARAMS
        /\ Len(Append(C, x)) \in 1..Len(Append(C, x)) /\ Append(C, x)[Len(Append(C, x))] = x
    BY <1>1, <1>2, <1>3, <1>4, <2>1, Longer, Zenon
  <2>3. x <= INT_MAX
    BY <1>4, <2>1, <2>2, Zenon
  <2>4. QED
    BY <2>2, <2>3, Zenon DEF C, x
<1>7. QED
  BY <1>5, <1>6, Zenon

\* No arguments fit.
LEMMA NothingFits ==
  /\ Len(<<>>) <= MAX_ANSISEQ_PARAMS /\ 0 <= INT_MAX
  /\ \A q, cls, cmd, strarg, ext, argv : q = Stored(cls, cmd, strarg, ext, argv) => q.argv = argv
<1>1. MAX_ANSISEQ_PARAMS \in Nat /\ INT_MAX \in Nat
  BY AnsiStoreAssumption
<1>2. Len(<<>>) <= MAX_ANSISEQ_PARAMS /\ 0 <= INT_MAX
  BY <1>1
<1>3. \A q, cls, cmd, strarg, ext, argv : q = Stored(cls, cmd, strarg, ext, argv) => q.argv = argv
  BY DEF Stored
<1>4. QED
  BY <1>2, <1>3, Zenon

\* What is stored fits if the bytes up to here do.
LEMMA StoreFits ==
  ASSUME NEW s \in Underway \cup {"S_FIN"}, NEW b, Body(b) \in Seq(Byte), Shape(s, Body(b)),
         WellFormed(b) <=> s = "S_FIN", NEW q, NEW p, NEW g, Holds(s, Body(b), q, p, g),
         FitsTheStore(b)
  PROVE  Len(q.argv) <= MAX_ANSISEQ_PARAMS /\ p <= INT_MAX
<1> DEFINE B == Body(b)
           args == IF Len(B) < 2 \/ B[1] # "[" THEN <<>>
                   ELSE IF WellFormed(b) THEN Fields(Middle(b)) ELSE Fields(Tail(B))
<1>1. Len(args) <= MAX_ANSISEQ_PARAMS /\ \A k \in 1..Len(args) : args[k] <= INT_MAX
  BY TooMuch, Zenon
<1>2. Middle(b) = SubSeq(B, 2, Len(B) - 1)
  BY Zenon DEF Middle
<1>3. B \in Seq(Byte) /\ Shape(s, B) /\ Holds(s, B, q, p, g) /\ (WellFormed(b) <=> s = "S_FIN")
  BY Zenon
<1> HIDE DEF B
<1>4. CASE s = "S_ESC" \/ s = "S_SQC" \/ s = "S_PPH"
  <2>1. p = 0 /\ \E cls, cmd, strarg, ext : q = Stored(cls, cmd, strarg, ext, <<>>)
    <3>1. /\ s = "S_ESC" => q = Stored(NUL, NUL, <<>>, FALSE, <<>>) /\ p = 0
          /\ s = "S_SQC" => q = Stored("]", NUL, Text(Tail(B)), FALSE, <<>>) /\ p = 0
          /\ s = "S_PPH" => q = Stored(B[1], NUL, <<>>, FALSE, <<>>) /\ p = 0
      BY <1>3 DEF Holds
    <3>2. QED
      BY <1>4, <3>1, Zenon
  <2>2. q.argv = <<>>
    BY <2>1, NothingFits, Zenon
  <2>3. QED
    BY <2>1, <2>2, NothingFits, Zenon
<1>5. CASE s = "S_CSI"
  <2> DEFINE T == Tail(B)
  <2>1. Len(B) > 0 /\ B[1] = "["
    BY <1>3, <1>5 DEF Shape
  <2>2. p = Number(Current(T)) /\ q = Stored("[", NUL, <<>>, Contains(T, "?"), Closed(T))
    BY <1>3, <1>5 DEF Holds
  <2>3. q.argv = Closed(T)
    BY <2>2, NothingFits, Zenon
  <2>4. ~ WellFormed(b)
    BY <1>3, <1>5
  <2>5. B # <<>>
    BY <1>3, <2>1, NotEmpty, Zenon
  <2>6. T \in Seq(Byte) /\ Len(T) = Len(B) - 1 /\ Len(B) \in Nat
    BY <1>3, <2>5, HeadTailProperties
  <2> HIDE DEF T
  <2>7. CASE Len(B) < 2
    <3>1. T = <<>>
      <4>1. Len(T) = 0
        BY <2>1, <2>6, <2>7
      <4>2. QED
        BY <2>6, <4>1
    <3>2. Closed(T) = <<>> /\ p = 0
      BY <2>2, <3>1, FieldsEmpty, NumberEmpty, Zenon
    <3>3. QED
      BY <2>3, <3>2, NothingFits, Zenon
  <2>8. CASE ~ (Len(B) < 2)
    <3>1. args = Fields(T)
      BY <2>1, <2>4, <2>8, Zenon DEF T
    <3>2. Len(Closed(T)) <= MAX_ANSISEQ_PARAMS /\ Number(Current(T)) <= INT_MAX
      BY <1>1, <2>6, <3>1, FieldsFit, Zenon
    <3>3. QED
      BY <2>2, <2>3, <3>2, Zenon
  <2>9. QED
    BY <2>7, <2>8, Zenon
<1>6. CASE s = "S_FIN"
  <2> DEFINE M == SubSeq(B, 2, Len(B) - 1)
  <2>1. p = 0 /\ q = Stored(IF Len(B) = 1 THEN NUL ELSE B[1],
                   IF B[1] = "]" THEN NUL ELSE B[Len(B)],
                   IF B[1] = "]" THEN Text(M) ELSE <<>>,
                   B[1] = "[" /\ Contains(M, "?"),
                   IF B[1] = "[" THEN Fields(M) ELSE <<>>)
    <3> HIDE DEF M
    <3>1. QED
      BY <1>3, <1>6 DEF Holds, M
  <2>2. q.argv = IF B[1] = "[" THEN Fields(M) ELSE <<>>
    <3> DEFINE cls == IF Len(B) = 1 THEN NUL ELSE B[1]
               cmd == IF B[1] = "]" THEN NUL ELSE B[Len(B)]
               strarg == IF B[1] = "]" THEN Text(M) ELSE <<>>
               ext == B[1] = "[" /\ Contains(M, "?")
               argv == IF B[1] = "[" THEN Fields(M) ELSE <<>>
    <3>1. q = Stored(cls, cmd, strarg, ext, argv)
      BY <2>1, Zenon
    <3> HIDE DEF cls, cmd, strarg, ext, argv
    <3>2. q.argv = argv
      BY <3>1, NothingFits, Zenon
    <3>3. QED
      BY <3>2, Zenon DEF argv
  <2>3. B[1] = "[" => ~ (Len(B) < 2)
    <3> DEFINE n == Len(B)
    <3>1. GoodUpTo(B, n)
      BY <1>3, <1>6 DEF Shape, GoodBody
    <3>2. n \in Nat
      BY <1>3
    <3> HIDE DEF n
    <3>3. B[1] = "[" => n = 2 \/ n > 1
      BY <3>1 DEF GoodUpTo, Command, CCHRS, Digits
    <3>4. (n = 2 \/ n > 1) => ~ (n < 2)
      BY <3>2
    <3>5. QED
      BY <3>3, <3>4, Zenon DEF n
  <2>4. CASE B[1] = "["
    <3>1. args = q.argv
      BY <1>2, <1>3, <1>6, <2>2, <2>3, <2>4, Zenon
    <3>2. QED
      BY <1>1, <2>1, <3>1, NothingFits, Zenon
  <2>5. CASE B[1] # "["
    BY <2>1, <2>2, <2>5, NothingFits, Zenon
  <2>6. QED
    BY <2>4, <2>5, Zenon
<1>7. QED
  BY <1>4, <1>5, <1>6, Zenon DEF Underway
-----------------------------------------------------------------------------
(* The inductive invariant *)

\* The states in which the loop has come to its end.
FinalStates == {"S_FIN", "S_ERR"}

\* While a sequence is being read, the state is that of Scan and no earlier one
\* was an end, and what is stored is what the bytes up to here say.
Reading ==
  /\ data # <<>> /\ data[1] = ESC
  /\ st = Scan(data)[i] /\ \A k \in 1..i-1 : Scan(data)[k] \notin FinalStates
  /\ exit = "panic" <=> st = "S_ERR"
  /\ i = 0 => exit = "none"
  /\ i # 0 /\ st # "S_ERR" => Holds(st, Body(SubSeq(data, 1, i)), s_curseq, s_parmv, s_gotparm)
  /\ exit = "undefined" => ~ (Len(s_curseq.argv) <= MAX_ANSISEQ_PARAMS /\ s_parmv <= INT_MAX)

Inv ==
  /\ data \in Seq(Byte) /\ i \in 0..Len(data)
  /\ pc \in {"idle", "scan"} /\ exit \in {"none", "panic", "undefined"}
  /\ pc = "idle" => i = 0 /\ exit = "none"
  /\ pc = "scan" => Reading
  /\ last # NoSeq => last.seq = Parse(last.bytes)

\* What Inv says of a sequence of which a byte has been read.
LEMMA ReadingSays ==
  ASSUME Inv, pc = "scan", i # 0
  PROVE  /\ i \in 1..Len(data) /\ data \in Seq(Byte) /\ data # <<>> /\ data[1] = ESC
         /\ st = Scan(data)[i]
         /\ \A k \in 1..i-1 : Scan(data)[k] \notin {"S_FIN", "S_ERR"}
         /\ st \in Underway \cup {"S_FIN", "S_ERR"} /\ Shape(st, Body(SubSeq(data, 1, i)))
         /\ Body(SubSeq(data, 1, i)) \in Seq(Byte)
         /\ WellFormed(SubSeq(data, 1, i)) <=> st = "S_FIN"
         /\ st # "S_ERR" => Holds(st, Body(SubSeq(data, 1, i)), s_curseq, s_parmv, s_gotparm)
<1>1. data \in Seq(Byte) /\ i \in 0..Len(data) /\ Reading
  BY Zenon DEF Inv
<1>2. /\ data # <<>> /\ data[1] = ESC /\ st = Scan(data)[i]
      /\ \A k \in 1..i-1 : Scan(data)[k] \notin {"S_FIN", "S_ERR"}
      /\ st # "S_ERR" => Holds(st, Body(SubSeq(data, 1, i)), s_curseq, s_parmv, s_gotparm)
  BY <1>1, Zenon DEF Reading, FinalStates
<1>3. i \in 1..Len(data)
  <2> DEFINE n == Len(data)
  <2>1. n \in Nat /\ i \in 0..n
    BY <1>1
  <2> HIDE DEF n
  <2>2. i \in 1..n
    BY <2>1
  <2>3. QED
    BY <2>2, Zenon DEF n
<1>4. st \in Underway \cup {"S_FIN", "S_ERR"} /\ Shape(st, Body(SubSeq(data, 1, i)))
  BY <1>1, <1>2, <1>3, ScanShape, Zenon
<1>5. WellFormed(SubSeq(data, 1, i)) <=> st = "S_FIN"
  BY <1>1, <1>2, <1>3, EndIsWellFormed, Zenon
<1>6. Body(SubSeq(data, 1, i)) \in Seq(Byte)
  <2> DEFINE b == SubSeq(data, 1, i)
  <2>1. b \in Seq(Byte) /\ b # <<>> /\ b[1] = ESC
    BY <1>1, <1>2, <1>3, Prefix, Zenon
  <2> HIDE DEF b
  <2>2. Body(b) \in Seq(Byte)
    BY <2>1, FirstEscape, BodyAppend, Zenon
  <2>3. QED
    BY <2>2, Zenon DEF b
<1>7. QED
  BY <1>1, <1>2, <1>3, <1>4, <1>5, <1>6, Zenon

LEMMA InitInv == Init => Inv
<1> SUFFICES ASSUME Init PROVE Inv
  OBVIOUS
<1>1. data = <<>> /\ i = 0 /\ pc = "idle" /\ exit = "none" /\ last = NoSeq
  BY Zenon DEF Init
<1>2. <<>> \in Seq(Byte) /\ Len(<<>>) = 0 /\ 0 \in 0..0
  OBVIOUS
<1>3. data \in Seq(Byte) /\ i \in 0..Len(data)
  BY <1>1, <1>2, Zenon
<1>4. pc # "scan"
  BY <1>1
<1>5. QED
  BY <1>1, <1>3, <1>4, Zenon DEF Inv

\* The index before the first byte.
LEMMA ZeroWithin ==
  ASSUME NEW d \in Seq(Byte)
  PROVE  0 \in 0..Len(d)
<1> DEFINE n == Len(d)
<1>1. n \in Nat
  OBVIOUS
<1> HIDE DEF n
<1>2. 0 \in 0..n
  BY <1>1
<1>3. QED
  BY <1>2, Zenon DEF n

LEMMA ArriveInv ==
  ASSUME Inv, NEW b \in Input, Arrive(b)
  PROVE  Inv'
<1>1. /\ data' = Append(data, b) /\ last' = NoSeq /\ pc = "idle"
      /\ pc' = pc /\ i' = i /\ exit' = exit
  BY Zenon DEF Arrive
<1>2. data \in Seq(Byte) /\ i = 0 /\ exit = "none"
  BY <1>1, Zenon DEF Inv
<1>3. b \in Byte
  BY AnsiStoreAssumption
<1>4. data' \in Seq(Byte)
  BY <1>1, <1>2, <1>3, ByteMore, Zenon
<1>5. i' \in 0..Len(data')
  BY <1>1, <1>2, <1>4, ZeroWithin, Zenon
<1>6. pc' # "scan" /\ pc' = "idle"
  BY <1>1
<1>7. QED
  BY <1>1, <1>2, <1>4, <1>5, <1>6, Zenon DEF Inv

LEMMA EatTextInv ==
  ASSUME Inv, EatText
  PROVE  Inv'
<1>1. /\ data' = Tail(data) /\ last' = NoSeq /\ pc = "idle" /\ data # <<>>
      /\ pc' = pc /\ i' = i /\ exit' = exit
  BY Zenon DEF EatText
<1>2. data \in Seq(Byte) /\ i = 0 /\ exit = "none"
  BY <1>1, Zenon DEF Inv
<1>3. data' \in Seq(Byte)
  BY <1>1, <1>2, HeadTailProperties, Zenon
<1>4. i' \in 0..Len(data')
  BY <1>1, <1>2, <1>3, ZeroWithin, Zenon
<1>5. pc' # "scan" /\ pc' = "idle"
  BY <1>1
<1>6. QED
  BY <1>1, <1>2, <1>3, <1>4, <1>5, Zenon DEF Inv

LEMMA CallInv ==
  ASSUME Inv, Call
  PROVE  Inv'
<1>1. /\ pc' = "scan" /\ i' = 0 /\ st' = "S_STA" /\ last' = NoSeq /\ exit = "none"
      /\ data' = data /\ exit' = exit /\ data # <<>> /\ data[1] = ESC
  BY Zenon DEF Call
<1>2. data \in Seq(Byte)
  BY Zenon DEF Inv
<1>3. Scan(data)[0] = "S_STA"
  BY <1>2, ScanEquations, Zenon
<1>4. 1..0-1 = {} /\ "S_STA" # "S_ERR" /\ exit # "panic" /\ exit # "undefined" /\ pc' # "idle"
  BY <1>1
<1>5. Reading'
  BY <1>1, <1>3, <1>4, Zenon DEF Reading
<1>6. i' \in 0..Len(data')
  BY <1>1, <1>2, ZeroWithin, Zenon
<1>7. data' \in Seq(Byte) /\ pc' \in {"idle", "scan"} /\ exit' \in {"none", "panic", "undefined"}
  BY <1>1, <1>2
<1>8. QED
  BY <1>1, <1>4, <1>5, <1>6, <1>7, Zenon DEF Inv

\* The state after a byte.
LEMMA EatByteReads ==
  ASSUME Inv, EatByte
  PROVE  LET k == i + 1
             c == data[k]
         IN  /\ k \in 1..Len(data) /\ k # 0 /\ c \in Byte /\ k - 1 = i
             /\ st' = SeqDelta(st, mktok(c)) /\ Scan(data)[k] = st'
             /\ \A j \in 1..k-1 : Scan(data)[j] \notin FinalStates
<1> DEFINE k == i + 1
           c == data[k]
           n == Len(data)
<1>1. pc = "scan" /\ exit = "none" /\ i < n /\ st # "S_FIN" /\ st' = SeqDelta(st, mktok(c))
  BY Zenon DEF EatByte
<1>2. data \in Seq(Byte) /\ i \in 0..n /\ Reading
  BY <1>1, Zenon DEF Inv
<1>3. st = Scan(data)[i] /\ st # "S_ERR" /\ \A j \in 1..i-1 : Scan(data)[j] \notin FinalStates
  <2>1. exit # "panic"
    BY <1>1
  <2>2. QED
    BY <1>2, <2>1, Zenon DEF Reading
<1>4. k \in 1..n /\ k # 0 /\ k - 1 = i /\ \A j \in 1..k-1 : j \in 1..i-1 \/ j = i
  <2>1. n \in Nat /\ i \in 0..n /\ i < n
    BY <1>1, <1>2
  <2> HIDE DEF n
  <2>2. QED
    BY <2>1
<1>5. c \in Byte
  BY <1>2, <1>4, Prefix, Zenon
<1> HIDE DEF k, c, n
<1>6. st \notin {"S_FIN", "S_ERR"} /\ st \notin FinalStates
  BY <1>1, <1>3, Zenon DEF FinalStates
<1>7. Scan(data)[k] = st'
  <2>1. Scan(data)[k] = IF Scan(data)[k-1] \in {"S_FIN", "S_ERR"} THEN Scan(data)[k-1]
                        ELSE SeqDelta(Scan(data)[k-1], mktok(c))
    BY <1>2, <1>4, ScanEquations, Zenon DEF n, c
  <2>2. QED
    BY <1>1, <1>3, <1>4, <1>6, <2>1, Zenon
<1>8. \A j \in 1..k-1 : Scan(data)[j] \notin FinalStates
  BY <1>3, <1>4, <1>6, Zenon
<1>9. QED
  BY <1>1, <1>4, <1>5, <1>7, <1>8, Zenon DEF k, c, n

\* What is stored after a byte is what the bytes up to there say.
LEMMA EatByteHolds ==
  ASSUME Inv, EatByte, st' # "S_ERR"
  PROVE  Holds(st', Body(SubSeq(data, 1, i + 1)), s_curseq', s_parmv', s_gotparm')
<1> DEFINE k == i + 1
           c == data[k]
<1>1. /\ k \in 1..Len(data) /\ k # 0 /\ c \in Byte /\ k - 1 = i
      /\ st' = SeqDelta(st, mktok(c))
  BY EatByteReads, Zenon
<1>2. pc = "scan" /\ exit = "none" /\ st # "S_FIN" /\ Action(st, c)
  BY <1>1, Zenon DEF EatByte
<1>3. data \in Seq(Byte) /\ Reading
  BY <1>2, Zenon DEF Inv
<1>4. data # <<>> /\ data[1] = ESC /\ st = Scan(data)[i]
  BY <1>3, Zenon DEF Reading
<1>5. SubSeq(data, 1, k) = Append(SubSeq(data, 1, i), c)
  <2>1. SubSeq(data, 1, k) = Append(SubSeq(data, 1, k - 1), c)
    BY <1>1, <1>3, Prefix, Zenon
  <2> HIDE DEF k, c
  <2>2. QED
    BY <1>1, <2>1, Zenon
<1>6. CASE i = 0
  <2>1. st = "S_STA"
    BY <1>3, <1>4, <1>6, ScanEquations, Zenon
  <2>2. k = 1
    BY <1>6
  <2>3. c = ESC
    BY <1>4, <2>2, Zenon
  <2> HIDE DEF k, c
  <2>4. st' = "S_ESC"
    BY <1>1, <2>1, <2>3, FirstEscape, Zenon
  <2>5. SubSeq(data, 1, k) = <<ESC>>
    <3>1. SubSeq(data, 1, 0) = <<>>
      BY SubSeqEmpty
    <3>2. Append(<<>>, ESC) = <<ESC>>
      OBVIOUS
    <3>3. QED
      BY <1>5, <1>6, <2>3, <3>1, <3>2, Zenon
  <2>6. Action("S_STA", ESC)
    BY <1>2, <2>1, <2>3, Zenon
  <2>7. Holds("S_ESC", <<>>, s_curseq', s_parmv', s_gotparm')
    BY <2>6, HoldsFirst, Zenon
  <2>8. QED
    BY <2>4, <2>5, <2>7, BodyFirst, Zenon DEF k
<1>7. CASE i # 0
  <2> DEFINE b == SubSeq(data, 1, i)
  <2>1. /\ i \in 1..Len(data) /\ st \in Underway \cup {"S_FIN", "S_ERR"}
        /\ Shape(st, Body(b)) /\ Body(b) \in Seq(Byte)
        /\ st # "S_ERR" => Holds(st, Body(b), s_curseq, s_parmv, s_gotparm)
    BY <1>2, <1>7, ReadingSays, Zenon
  <2>2. st # "S_ERR"
    <3>1. exit # "panic"
      BY <1>2
    <3>2. QED
      BY <1>3, <3>1, Zenon DEF Reading
  <2>3. st \in Underway
    BY <1>2, <2>1, <2>2
  <2>4. b \in Seq(Byte) /\ b # <<>> /\ b[1] = ESC
    BY <1>3, <1>4, <2>1, Prefix, Zenon
  <2> HIDE DEF b, k, c
  <2>5. Body(Append(b, c)) = Grown(Body(b), c)
    BY <1>1, <2>4, BodyAppend, Zenon DEF Grown
  <2>6. SeqDelta(st, mktok(c)) # "S_ERR"
    BY <1>1, Zenon
  <2>7. Holds(SeqDelta(st, mktok(c)), Grown(Body(b), c), s_curseq', s_parmv', s_gotparm')
    BY <1>1, <1>2, <2>1, <2>2, <2>3, <2>6, HoldsStep, Zenon
  <2>8. Body(SubSeq(data, 1, k)) = Grown(Body(b), c)
    BY <1>5, <2>5, Zenon DEF b
  <2>9. QED
    BY <1>1, <2>7, <2>8, Zenon DEF k
<1>8. QED
  BY <1>6, <1>7, Zenon

LEMMA EatByteInv ==
  ASSUME Inv, EatByte
  PROVE  Inv'
<1>1. pc = "scan" /\ i' = i + 1 /\ data' = data /\ pc' = pc /\ last' = last
      /\ exit' = IF st' = "S_ERR" THEN "panic"
                 ELSE IF ArgumentFits THEN "none" ELSE "undefined"
  BY Zenon DEF EatByte
<1>2. data \in Seq(Byte) /\ data # <<>> /\ data[1] = ESC /\ (last # NoSeq => last.seq = Parse(last.bytes))
  BY <1>1, Zenon DEF Inv, Reading
<1> DEFINE k == i + 1
<1>3. /\ k \in 1..Len(data) /\ k # 0 /\ Scan(data)[k] = st'
      /\ \A j \in 1..k-1 : Scan(data)[j] \notin FinalStates
  BY EatByteReads, Zenon
<1>4. st' # "S_ERR" => Holds(st', Body(SubSeq(data, 1, k)), s_curseq', s_parmv', s_gotparm')
  BY EatByteHolds, Zenon
<1> HIDE DEF k
<1>5. i' = k
  BY <1>1, Zenon DEF k
<1>6. exit' = "panic" <=> st' = "S_ERR"
  BY <1>1
<1>7. exit' = "undefined" => ~ (Len(s_curseq'.argv) <= MAX_ANSISEQ_PARAMS /\ s_parmv' <= INT_MAX)
  <2>1. exit' = "undefined" => ~ ArgumentFits
    BY <1>1
  <2>2. QED
    BY <2>1, Zenon DEF ArgumentFits
<1>8. Reading'
  BY <1>1, <1>2, <1>3, <1>4, <1>5, <1>6, <1>7, Zenon DEF Reading
<1>9. i' \in 0..Len(data')
  <2>1. \A j \in 1..Len(data) : j \in 0..Len(data)
    OBVIOUS
  <2>2. QED
    BY <1>1, <1>3, <1>5, <2>1, Zenon
<1>10. pc' \in {"idle", "scan"} /\ pc' # "idle" /\ exit' \in {"none", "panic", "undefined"}
  BY <1>1
<1>11. QED
  BY <1>1, <1>2, <1>8, <1>9, <1>10, Zenon DEF Inv

LEMMA ReturnLengthInv ==
  ASSUME Inv, ReturnLength
  PROVE  Inv'
<1> DEFINE b == SubSeq(data, 1, i)
<1>1. /\ pc = "scan" /\ exit = "none" /\ st = "S_FIN"
      /\ last' = [bytes |-> b, seq |-> s_curseq]
      /\ data' = SubSeq(data, i + 1, Len(data))
      /\ pc' = "idle" /\ i' = 0 /\ exit' = exit
  BY Zenon DEF ReturnLength
<1>2. data \in Seq(Byte) /\ i \in 0..Len(data) /\ Reading
  BY <1>1, Zenon DEF Inv
<1>3. i # 0
  <2>1. Scan(data)[0] = "S_STA"
    BY <1>2, ScanEquations, Zenon
  <2>2. i = 0 => st = "S_STA"
    BY <1>2, <2>1, Zenon DEF Reading
  <2>3. QED
    BY <1>1, <2>2
<1>4. Holds("S_FIN", Body(b), s_curseq, s_parmv, s_gotparm)
  <2>1. st # "S_ERR"
    BY <1>1
  <2>2. QED
    BY <1>1, <1>3, <2>1, ReadingSays, Zenon
<1>5. s_curseq = Parse(b)
  BY <1>4, HoldsParse, Zenon
<1> HIDE DEF b
<1>6. last'.seq = Parse(last'.bytes)
  <2>1. last'.seq = s_curseq /\ last'.bytes = b
    BY <1>1
  <2>2. QED
    BY <1>5, <2>1, Zenon
<1>7. data' \in Seq(Byte)
  <2> DEFINE n == Len(data)
  <2>1. n \in Nat /\ i \in 0..n
    BY <1>2
  <2>2. n <= Len(data)
    BY <2>1
  <2> HIDE DEF n
  <2>3. i \in Nat /\ n \in Int
    BY <2>1
  <2>4. SubSeq(data, i + 1, n) \in Seq(Byte)
    BY <1>2, <2>2, <2>3, PartType, Zenon
  <2>5. QED
    BY <1>1, <2>4, Zenon DEF n
<1>8. i' \in 0..Len(data')
  BY <1>1, <1>7, ZeroWithin, Zenon
<1>9. pc' # "scan" /\ pc' \in {"idle", "scan"} /\ exit' \in {"none", "panic", "undefined"} /\ exit' = "none"
  BY <1>1
<1>10. QED
  BY <1>1, <1>6, <1>7, <1>8, <1>9, Zenon DEF Inv

LEMMA ReturnMoreInv ==
  ASSUME Inv, ReturnMore
  PROVE  Inv'
<1>1. pc' = "idle" /\ i' = 0 /\ exit = "none" /\ data' = data /\ exit' = exit /\ last' = last
  BY Zenon DEF ReturnMore
<1>2. data \in Seq(Byte) /\ (last # NoSeq => last.seq = Parse(last.bytes))
  BY Zenon DEF Inv
<1>3. i' \in 0..Len(data')
  BY <1>1, <1>2, ZeroWithin, Zenon
<1>4. pc' # "scan" /\ pc' \in {"idle", "scan"} /\ exit' \in {"none", "panic", "undefined"} /\ exit' = "none"
  BY <1>1
<1>5. QED
  BY <1>1, <1>2, <1>3, <1>4, Zenon DEF Inv

LEMMA StutterInv ==
  ASSUME Inv, UNCHANGED vars
  PROVE  Inv'
<1>1. /\ data' = data /\ i' = i /\ st' = st /\ s_curseq' = s_curseq /\ s_parmv' = s_parmv
      /\ s_gotparm' = s_gotparm /\ pc' = pc /\ exit' = exit /\ last' = last
  BY Zenon DEF vars, store
<1>2. Reading => Reading'
  BY <1>1, Zenon DEF Reading
<1>3. QED
  BY <1>1, <1>2, Zenon DEF Inv

LEMMA NextInv == Inv /\ [Next]_vars => Inv'
<1> SUFFICES ASSUME Inv, [Next]_vars PROVE Inv'
  OBVIOUS
<1>1. ASSUME NEW b \in Input, Arrive(b) PROVE Inv'
  BY <1>1, ArriveInv, Zenon
<1>2. CASE EatText
  BY <1>2, EatTextInv, Zenon
<1>3. CASE Call
  BY <1>3, CallInv, Zenon
<1>4. CASE EatByte
  BY <1>4, EatByteInv, Zenon
<1>5. CASE ReturnLength
  BY <1>5, ReturnLengthInv, Zenon
<1>6. CASE ReturnMore
  BY <1>6, ReturnMoreInv, Zenon
<1>7. CASE Ended
  BY <1>7, StutterInv, Zenon DEF Ended
<1>8. CASE UNCHANGED vars
  BY <1>8, StutterInv, Zenon
<1>9. QED
  BY <1>1, <1>2, <1>3, <1>4, <1>5, <1>6, <1>7, <1>8, Zenon DEF Next

LEMMA AlwaysInv == Spec => []Inv
BY InitInv, NextInv, PTL DEF Spec
-----------------------------------------------------------------------------
(* The properties *)

LEMMA InvStops == Inv => StopsAtFirst
<1> SUFFICES ASSUME Inv, pc = "scan", i > 0
             PROVE  /\ st = "S_FIN" <=> WellFormed(SubSeq(data, 1, i))
                    /\ st = "S_FIN" => EatOne(data) = i
                    /\ st # "S_FIN" /\ exit = "none" /\ i = Len(data) => EatOne(data) = -1
                    /\ exit = "panic" => EatPanics(data)
  BY Zenon DEF StopsAtFirst
<1> DEFINE n == Len(data)
<1>1. i # 0
  <2>1. i \in 0..Len(data)
    BY Zenon DEF Inv
  <2>2. QED
    BY <2>1
<1>2. /\ i \in 1..n /\ data \in Seq(Byte) /\ st = Scan(data)[i]
      /\ \A k \in 1..i-1 : Scan(data)[k] \notin {"S_FIN", "S_ERR"}
      /\ WellFormed(SubSeq(data, 1, i)) <=> st = "S_FIN"
  BY <1>1, ReadingSays, Zenon
<1>3. exit = "panic" <=> st = "S_ERR"
  BY Zenon DEF Inv, Reading
<1>4. n \in Nat
  BY <1>2
<1>5. \A k \in 1..n : k \in Ends(data) <=> Scan(data)[k] \in {"S_FIN", "S_ERR"}
  BY Zenon DEF Ends
<1>6. Ends(data) \in SUBSET (1..n) /\ Ends(data) \in SUBSET Nat
  BY DEF Ends
<1> DEFINE m == Min(Ends(data))
<1>7. CASE st \in {"S_FIN", "S_ERR"}
  <2>1. i \in Ends(data)
    BY <1>2, <1>5, <1>7, Zenon
  <2>2. Ends(data) # {}
    BY <2>1
  <2>3. m \in Ends(data) /\ m <= i
    BY <1>6, <2>1, <2>2, MinMember, Zenon
  <2>4. m = i
    <3> HIDE DEF m, n
    <3>1. m \in 1..n
      BY <1>6, <2>3, Zenon
    <3>2. m \notin 1..i-1
      BY <1>2, <1>5, <2>3, <3>1, Zenon
    <3>3. i \in 1..n
      BY <1>2, Zenon
    <3>4. QED
      BY <1>4, <2>3, <3>1, <3>2, <3>3
  <2>5. EatOne(data) = i /\ (st = "S_ERR" => EatPanics(data))
    BY <1>2, <2>2, <2>4, Zenon DEF EatOne, EatPanics
  <2>6. QED
    BY <1>2, <1>3, <1>7, <2>5
<1>8. CASE st \notin {"S_FIN", "S_ERR"}
  <2>1. ASSUME i = n PROVE EatOne(data) = -1
    <3>1. \A k \in 1..n : k \in 1..i-1 \/ k = i
      <4> HIDE DEF n
      <4>1. i \in 1..n
        BY <1>2, Zenon
      <4>2. QED
        BY <1>4, <2>1, <4>1
    <3>2. \A k \in 1..n : k \notin Ends(data)
      BY <1>2, <1>5, <1>8, <3>1, Zenon
    <3>3. Ends(data) = {}
      BY <1>6, <3>2, Zenon
    <3>4. QED
      BY <3>3, Zenon DEF EatOne
  <2>2. st # "S_FIN" /\ st # "S_ERR"
    BY <1>8
  <2>3. QED
    BY <1>2, <1>3, <2>1, <2>2, Zenon
<1>9. QED
  BY <1>7, <1>8, Zenon

\* The recogniser stops at the first byte that completes a well-formed sequence
\* and at no other, whatever has arrived and however the calls have ended.
THEOREM RecogniserStops == Spec => []StopsAtFirst
BY AlwaysInv, InvStops, PTL

\* What is stored of a sequence when the recogniser returns is what its bytes
\* say.
THEOREM StoreIsParse == Spec => []StoredIsParsed
<1>1. Inv => StoredIsParsed
  BY Zenon DEF Inv, StoredIsParsed
<1>2. QED
  BY <1>1, AlwaysInv, PTL

LEMMA InvFits == Inv => OutOfBoundsByItself
<1> SUFFICES ASSUME Inv, exit = "undefined" PROVE ~ FitsTheStore(SubSeq(data, 1, i))
  BY Zenon DEF OutOfBoundsByItself
<1>1. pc = "scan" /\ Reading
  <2>1. exit # "none"
    OBVIOUS
  <2>2. pc \in {"idle", "scan"} /\ pc # "idle"
    BY <2>1, Zenon DEF Inv
  <2>3. pc = "scan"
    BY <2>2
  <2>4. QED
    BY <2>3, Zenon DEF Inv
<1>2. i # 0 /\ st # "S_ERR" /\ ~ (Len(s_curseq.argv) <= MAX_ANSISEQ_PARAMS /\ s_parmv <= INT_MAX)
  <2>1. exit # "none" /\ exit # "panic"
    OBVIOUS
  <2>2. QED
    BY <1>1, <2>1, Zenon DEF Reading
<1> DEFINE b == SubSeq(data, 1, i)
<1>3. /\ st \in Underway \cup {"S_FIN", "S_ERR"} /\ Shape(st, Body(b)) /\ Body(b) \in Seq(Byte)
      /\ WellFormed(b) <=> st = "S_FIN"
      /\ st # "S_ERR" => Holds(st, Body(b), s_curseq, s_parmv, s_gotparm)
  BY <1>1, <1>2, ReadingSays, Zenon
<1> HIDE DEF b
<1>4. st \in Underway \cup {"S_FIN"}
  BY <1>2, <1>3
<1>5. ~ FitsTheStore(b)
  BY <1>2, <1>3, <1>4, StoreFits, Zenon
<1>6. QED
  BY <1>5, Zenon DEF b

\* Only a sequence that by itself has too many arguments, or one too large,
\* takes what is stored out of bounds.
THEOREM OnlyByItself == Spec => []OutOfBoundsByItself
BY AlwaysInv, InvFits, PTL
=============================================================================
