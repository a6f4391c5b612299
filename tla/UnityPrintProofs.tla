-------------------------- MODULE UnityPrintProofs --------------------------
(***************************************************************************)
(* Proofs about the numbers that Unity prints: for every width, every      *)
(* count of significant digits and every number, what UnityChecks states   *)
(* of them.  The powers of ten and the reading of digits are recursive     *)
(* functions, so the first lemmas are inductions over numbers; then each   *)
(* of the two printers has an invariant that says what the digits printed  *)
(* so far, with those still to come, stand for.                            *)
(***************************************************************************)
EXTENDS UnityProofs, UnityDecimals

-----------------------------------------------------------------------------
(* Recursive functions.                                                     *)

\* h starts with a and grows by step, up to m.
Grows(h, a, step, m) ==
  h[0] = a /\ \A l \in 0 .. m - 1 : h[l + 1] = step[l][h[l]]

LEMMA GrowsSame ==
  ASSUME NEW a, NEW step, NEW m \in Nat, NEW g, NEW h,
         Grows(g, a, step, m), Grows(h, a, step, m)
  PROVE  g[m] = h[m]
<1> DEFINE T == {l \in Nat : l <= m => g[l] = h[l]}
<1>1. 0 \in T
  BY DEF Grows
<1>2. ASSUME NEW l \in T PROVE l + 1 \in T
  <2>1. l + 1 <= m => l \in 0 .. m - 1
    OBVIOUS
  <2> QED
    BY <2>1 DEF Grows
<1>3. T = Nat
  <2> HIDE DEF T
  <2> QED
    BY <1>1, <1>2, Induction DEF T
<1> QED
  BY <1>3

Steps(S) == [Nat -> [S -> S]]

Grown(g, S, a, step) ==
  g \in [Nat -> S] /\ g[0] = a /\ \A l \in Nat : g[l + 1] = step[l][g[l]]

LEMMA GrowthExists ==
  ASSUME NEW S, NEW a, NEW step, a \in S, step \in Steps(S)
  PROVE  \E g : Grown(g, S, a, step)
<1> USE DEF Steps
<1> DEFINE Up(m) == {h \in [0 .. m -> S] : Grows(h, a, step, m)}
           T == {m \in Nat : Up(m) # {}}
<1>1. 0 \in T
  <2>1. [l \in 0 .. 0 |-> a] \in Up(0)
    BY DEF Grows
  <2> QED
    BY <2>1
<1>2. ASSUME NEW m \in T PROVE m + 1 \in T
  <2>1. PICK h : h \in Up(m)
    OBVIOUS
  <2> DEFINE f == [l \in 0 .. m + 1 |-> IF l = m + 1 THEN step[m][h[m]] ELSE h[l]]
  <2>2. m \in Nat /\ h \in [0 .. m -> S] /\ Grows(h, a, step, m)
    BY <2>1
  <2>3. f \in [0 .. m + 1 -> S]
    BY <2>2
  <2>4. f[0] = a /\ f[m + 1] = step[m][h[m]] /\ \A l \in 0 .. m : f[l] = h[l]
    BY <2>2 DEF Grows
  <2> HIDE DEF f
  <2>5. ASSUME NEW l \in 0 .. m + 1 - 1 PROVE f[l + 1] = step[l][f[l]]
    <3>1. CASE l = m
      BY <2>2, <2>4, <3>1
    <3>2. CASE l # m
      <4>1. l \in 0 .. m /\ l + 1 \in 0 .. m /\ l \in 0 .. m - 1
        BY <2>2, <3>2
      <4> QED
        BY <2>2, <2>4, <4>1 DEF Grows
    <3> QED
      BY <3>1, <3>2
  <2>6. f \in Up(m + 1)
    BY <2>3, <2>4, <2>5 DEF Grows
  <2> QED
    BY <2>2, <2>6
<1>3. T = Nat
  <2> HIDE DEF T
  <2> QED
    BY <1>1, <1>2, Induction DEF T
<1> DEFINE H(m) == CHOOSE h : h \in Up(m)
           g == [m \in Nat |-> H(m)[m]]
<1>4. \A m \in Nat : H(m) \in Up(m)
  BY <1>3
<1> HIDE DEF H
<1>5. g \in [Nat -> S]
  BY <1>4
<1>6. g[0] = a
  BY <1>4 DEF Grows
<1>7. ASSUME NEW l \in Nat PROVE g[l + 1] = step[l][g[l]]
  <2>1. H(l + 1)[l + 1] = step[l][H(l + 1)[l]]
    <3>1. l \in 0 .. l + 1 - 1 /\ l + 1 \in Nat
      OBVIOUS
    <3> QED
      BY <1>4, <3>1 DEF Grows
  <2>2. Grows(H(l + 1), a, step, l) /\ Grows(H(l), a, step, l)
    <3>1. \A x \in 0 .. l - 1 : x \in 0 .. l + 1 - 1
      OBVIOUS
    <3>2. l + 1 \in Nat
      OBVIOUS
    <3> QED
      BY <1>4, <3>1, <3>2 DEF Grows
  <2>3. H(l + 1)[l] = H(l)[l]
    BY <2>2, GrowsSame
  <2> QED
    BY <2>1, <2>3
<1> HIDE DEF g
<1> QED
  BY <1>5, <1>6, <1>7 DEF Grown

-----------------------------------------------------------------------------
(* Powers of ten.                                                           *)

LEMMA TenToGrows ==
  /\ TenTo \in [Nat -> Nat \ {0}] /\ TenTo[0] = 1
  /\ \A p \in Nat : TenTo[p + 1] = 10 * TenTo[p]
<1> DEFINE S == Nat \ {0}
           step == [l \in Nat |-> [v \in S |-> 10 * v]]
<1>1. PICK g : Grown(g, S, 1, step)
  <2>1. 1 \in S /\ step \in Steps(S)
    BY DEF Steps
  <2> HIDE DEF S, step
  <2> QED
    BY <2>1, GrowthExists, Zenon
<1>2. g[0] = 1
  BY <1>1 DEF Grown
<1>3. \A p \in Nat : g[p + 1] = 10 * g[p]
  BY <1>1 DEF Grown
<1>4. g = [p \in Nat |-> IF p = 0 THEN 1 ELSE 10 * g[p - 1]]
  <2>1. \A p \in Nat : g[p] = IF p = 0 THEN 1 ELSE 10 * g[p - 1]
    <3>1. \A p \in Nat : p # 0 => p - 1 \in Nat /\ p - 1 + 1 = p
      OBVIOUS
    <3> QED
      BY <1>2, <1>3, <3>1
  <2>2. g = [p \in Nat |-> g[p]]
    BY <1>1 DEF Grown
  <2> DEFINE before(p) == g[p - 1]
  <2>3. \A p \in Nat : g[p] = IF p = 0 THEN 1 ELSE 10 * before(p)
    BY <2>1
  <2> HIDE DEF before
  <2>4. g = [p \in Nat |-> IF p = 0 THEN 1 ELSE 10 * before(p)]
    BY <2>2, <2>3
  <2> QED
    BY <2>4 DEF before
<1>5. TenTo = [p \in Nat |-> IF p = 0 THEN 1 ELSE 10 * TenTo[p - 1]]
  BY <1>4, Zenon DEF TenTo
<1>6. TenTo[0] = 1 /\ \A p \in Nat : TenTo[p + 1] = 10 * TenTo[p]
  <2>1. \A p \in Nat : TenTo[p] = IF p = 0 THEN 1 ELSE 10 * TenTo[p - 1]
    BY <1>5, Zenon
  <2>2. ASSUME NEW p \in Nat PROVE TenTo[p + 1] = 10 * TenTo[p]
    <3> DEFINE r == p + 1
    <3>1. r \in Nat /\ r # 0 /\ r - 1 = p
      OBVIOUS
    <3> HIDE DEF r
    <3>2. TenTo[r] = 10 * TenTo[p]
      BY <2>1, <3>1
    <3> QED
      BY <3>2 DEF r
  <2> QED
    BY <2>1, <2>2
<1>7. TenTo \in [Nat -> S]
  <2> DEFINE T == {p \in Nat : TenTo[p] \in S}
  <2>1. 0 \in T
    BY <1>6
  <2>2. ASSUME NEW p \in T PROVE p + 1 \in T
    BY <1>6
  <2>3. T = Nat
    <3> HIDE DEF T
    <3> QED
      BY <2>1, <2>2, Induction DEF T
  <2>4. \A p \in Nat : TenTo[p] \in S
    BY <2>3
  <2>5. TenTo = [p \in Nat |-> TenTo[p]]
    BY <1>5, Zenon
  <2> HIDE DEF S
  <2> QED
    BY <2>4, <2>5
<1> QED
  BY <1>6, <1>7

-----------------------------------------------------------------------------
(* Numbers read back.                                                       *)

\* ReadBack has read f[l] after l digits.
Reads(f, t, base) ==
  /\ f \in [0 .. Len(t) -> Int] /\ f[0] = 0
  /\ \A l \in 0 .. Len(t) - 1 : f[l + 1] = base * f[l] + t[l + 1]

LEMMA ReadBackReads ==
  ASSUME NEW t \in Seq(Int), NEW base \in Nat
  PROVE  \E f : Reads(f, t, base) /\ ReadBack(t, base) = f[Len(t)]
<1>0. /\ Len(t) \in Nat /\ \A l \in Nat : l + 1 <= Len(t) => t[l + 1] \in Int
      /\ \A v, w \in Int : base * v + w \in Int
  OBVIOUS
<1> DEFINE step == [l \in Nat |-> [v \in Int |-> base * v + IF l + 1 <= Len(t) THEN t[l + 1] ELSE 0]]
<1>1. PICK g : Grown(g, Int, 0, step)
  <2>1. step \in Steps(Int) /\ 0 \in Int
    BY <1>0 DEF Steps
  <2> HIDE DEF step
  <2> QED
    BY <2>1, GrowthExists, Zenon
<1> DEFINE f == [x \in 0 .. Len(t) |-> g[x]]
<1>2. f[0] = 0 /\ \A x \in 1 .. Len(t) : f[x] = base * f[x - 1] + t[x]
  <2>2. ASSUME NEW x \in 1 .. Len(t) PROVE f[x] = base * f[x - 1] + t[x]
    <3>1. x - 1 \in Nat /\ x - 1 + 1 = x /\ x - 1 \in 0 .. Len(t) /\ x \in 0 .. Len(t) /\ x <= Len(t)
      BY <1>0
    <3> DEFINE y == x - 1
    <3>2. g[y + 1] = base * g[y] + t[y + 1]
      <4>1. y \in Nat /\ y + 1 <= Len(t) /\ g[y] \in Int
        BY <1>1, <3>1 DEF Grown
      <4> HIDE DEF y
      <4> QED
        BY <1>1, <4>1 DEF Grown
    <3> QED
      BY <3>1, <3>2
  <2>3. f[0] = 0
    BY <1>0, <1>1 DEF Grown
  <2> HIDE DEF f
  <2> QED
    BY <2>2, <2>3
<1>3. f = [x \in 0 .. Len(t) |-> IF x = 0 THEN 0 ELSE base * f[x - 1] + t[x]]
  <2>1. \A x \in 0 .. Len(t) : x # 0 => x \in 1 .. Len(t)
    BY <1>0
  <2> DEFINE prev(x) == f[x - 1]
  <2>2. \A x \in 0 .. Len(t) : f[x] = IF x = 0 THEN 0 ELSE base * prev(x) + t[x]
    BY <1>2, <2>1
  <2>3. f = [x \in 0 .. Len(t) |-> f[x]]
    OBVIOUS
  <2> HIDE DEF f, prev
  <2>4. f = [x \in 0 .. Len(t) |-> IF x = 0 THEN 0 ELSE base * prev(x) + t[x]]
    BY <2>2, <2>3
  <2> QED
    BY <2>4 DEF prev
<1> HIDE DEF f
<1>4. \E h : /\ h = [x \in 0 .. Len(t) |-> IF x = 0 THEN 0 ELSE base * h[x - 1] + t[x]]
             /\ ReadBack(t, base) = h[Len(t)]
  BY <1>3, Zenon DEF ReadBack
<1>5. PICK h : /\ h = [x \in 0 .. Len(t) |-> IF x = 0 THEN 0 ELSE base * h[x - 1] + t[x]]
               /\ ReadBack(t, base) = h[Len(t)]
  BY <1>4
<1> DEFINE before(x) == h[x - 1]
           T == {m \in Nat : m <= Len(t) => h[m] \in Int}
<1>6. \A x \in 0 .. Len(t) : h[x] = IF x = 0 THEN 0 ELSE base * h[x - 1] + t[x]
  BY <1>5, Zenon
<1>7. h[0] = 0
  BY <1>0, <1>6
<1>8. \A l \in Nat : l + 1 <= Len(t) => h[l + 1] = base * h[l] + t[l + 1]
  <2> SUFFICES ASSUME NEW l \in Nat, l + 1 <= Len(t) PROVE h[l + 1] = base * h[l] + t[l + 1]
    OBVIOUS
  <2> DEFINE r == l + 1
  <2>1. r \in 0 .. Len(t) /\ r # 0 /\ r - 1 = l
    BY <1>0
  <2> HIDE DEF r
  <2>2. h[r] = base * h[l] + t[r]
    BY <1>6, <2>1
  <2> QED
    BY <2>2 DEF r
<1>9. T = Nat
  <2>1. 0 \in T
    BY <1>7
  <2>2. ASSUME NEW m \in T PROVE m + 1 \in T
    <3>1. m \in Nat /\ (m <= Len(t) => h[m] \in Int)
      OBVIOUS
    <3>2. ASSUME m + 1 <= Len(t) PROVE h[m + 1] \in Int
      <4>1. m <= Len(t)
        BY <1>0, <3>1, <3>2
      <4>2. h[m + 1] = base * h[m] + t[m + 1] /\ t[m + 1] \in Int
        BY <1>0, <1>8, <3>1, <3>2, Zenon
      <4> QED
        BY <1>0, <3>1, <4>1, <4>2
    <3> QED
      BY <3>1, <3>2
  <2> HIDE DEF T
  <2> QED
    BY <2>1, <2>2, Induction DEF T
<1>10. \A m \in 0 .. Len(t) : h[m] \in Int
  <2>1. \A m \in 0 .. Len(t) : m \in Nat /\ m <= Len(t)
    BY <1>0
  <2> QED
    BY <1>9, <2>1
<1>11. h = [x \in 0 .. Len(t) |-> h[x]]
  BY <1>5, Zenon
<1>12. h \in [0 .. Len(t) -> Int]
  BY <1>10, <1>11
<1>13. Reads(h, t, base)
  <2>1. \A l \in 0 .. Len(t) - 1 : l \in Nat /\ l + 1 <= Len(t)
    BY <1>0
  <2> QED
    BY <1>7, <1>8, <1>12, <2>1 DEF Reads
<1> QED
  BY <1>5, <1>13

LEMMA ReadsSame ==
  ASSUME NEW s \in Seq(Int), NEW base \in Nat, NEW f, Reads(f, s, base),
         NEW g, g[0] = 0, \A l \in 0 .. Len(s) - 1 : g[l + 1] = base * g[l] + s[l + 1]
  PROVE  \A l \in 0 .. Len(s) : g[l] = f[l]
<1> DEFINE T == {l \in Nat : l <= Len(s) => g[l] = f[l]}
<1>1. 0 \in T
  BY DEF Reads
<1>2. ASSUME NEW l \in T PROVE l + 1 \in T
  <2>1. Len(s) \in Nat /\ l \in Nat
    OBVIOUS
  <2>2. CASE l + 1 <= Len(s)
    <3>1. l \in 0 .. Len(s) - 1 /\ g[l] = f[l]
      BY <2>1, <2>2
    <3>2. g[l + 1] = f[l + 1]
      BY <3>1, Zenon DEF Reads
    <3> QED
      BY <2>1, <3>2
  <2> QED
    BY <2>1, <2>2
<1>3. T = Nat
  <2> HIDE DEF T
  <2> QED
    BY <1>1, <1>2, Induction DEF T
<1>4. \A l \in 0 .. Len(s) : l \in Nat /\ l <= Len(s)
  OBVIOUS
<1> QED
  BY <1>3, <1>4

LEMMA ReadBackEmpty ==
  ASSUME NEW base \in Nat
  PROVE  ReadBack(<< >>, base) = 0
<1>1. << >> \in Seq(Int) /\ Len(<< >>) = 0
  BY EmptySeq
<1> QED
  BY <1>1, ReadBackReads DEF Reads

LEMMA ReadBackAppend ==
  ASSUME NEW s \in Seq(Int), NEW d \in Int, NEW base \in Nat
  PROVE  /\ ReadBack(s, base) \in Int
         /\ ReadBack(Append(s, d), base) = base * ReadBack(s, base) + d
<1> DEFINE t == Append(s, d)
<1>1. /\ t \in Seq(Int) /\ Len(t) = Len(s) + 1 /\ Len(s) \in Nat /\ t[Len(s) + 1] = d
      /\ \A l \in 0 .. Len(s) - 1 : t[l + 1] = s[l + 1]
  OBVIOUS
<1> HIDE DEF t
<1>2. PICK f : Reads(f, s, base) /\ ReadBack(s, base) = f[Len(s)]
  BY ReadBackReads
<1>3. PICK g : Reads(g, t, base) /\ ReadBack(t, base) = g[Len(t)]
  BY <1>1, ReadBackReads
<1>4. \A l \in 0 .. Len(s) : l \in 0 .. Len(t) - 1
  BY <1>1
<1>5. \A l \in 0 .. Len(s) - 1 : l \in 0 .. Len(s)
  BY <1>1
<1>6. \A l \in 0 .. Len(s) : g[l + 1] = base * g[l] + t[l + 1]
  BY <1>3, <1>4 DEF Reads
<1>7. \A l \in 0 .. Len(s) - 1 : g[l + 1] = base * g[l] + s[l + 1]
  BY <1>1, <1>5, <1>6
<1>8. g[0] = 0
  BY <1>3 DEF Reads
<1>9. Len(s) \in 0 .. Len(s)
  BY <1>1
<1>10. g[Len(s)] = f[Len(s)]
  BY <1>2, <1>7, <1>8, <1>9, ReadsSame
<1>11. g[Len(s) + 1] = base * f[Len(s)] + d
  BY <1>1, <1>6, <1>9, <1>10, Zenon
<1>12. f[Len(s)] \in Int
  BY <1>2, <1>9 DEF Reads
<1> QED
  BY <1>1, <1>2, <1>3, <1>11, <1>12 DEF t

LEMMA ReadBackPrepend ==
  ASSUME NEW s \in Seq(Int), NEW d \in Int
  PROVE  ReadBack(<<d>> \o s, 10) = d * TenTo[Len(s)] + ReadBack(s, 10)
<1> DEFINE t == <<d>> \o s
<1>1. /\ t \in Seq(Int) /\ Len(t) = Len(s) + 1 /\ Len(s) \in Nat /\ t[1] = d
      /\ \A l \in 0 .. Len(s) - 1 : t[l + 2] = s[l + 1] /\ s[l + 1] \in Int
  OBVIOUS
<1> HIDE DEF t
<1>2. PICK f : Reads(f, s, 10) /\ ReadBack(s, 10) = f[Len(s)]
  BY ReadBackReads
<1>3. PICK g : Reads(g, t, 10) /\ ReadBack(t, 10) = g[Len(t)]
  BY <1>1, ReadBackReads
<1> DEFINE T == {l \in Nat : l <= Len(s) => g[l + 1] = d * TenTo[l] + f[l]}
<1>4. 0 \in T
  <2>1. 0 \in 0 .. Len(t) - 1
    BY <1>1
  <2>2. g[0 + 1] = 10 * g[0] + t[0 + 1] /\ g[0] = 0 /\ f[0] = 0
    BY <1>2, <1>3, <2>1, Zenon DEF Reads
  <2>3. g[1] = d
    BY <1>1, <2>2
  <2> QED
    <3>1. d * TenTo[0] = d /\ 0 + 1 = 1
      BY TenToGrows
    <3>2. g[0 + 1] = d * TenTo[0] + f[0]
      BY <2>2, <2>3, <3>1
    <3> QED
      BY <3>2
<1>5. ASSUME NEW l \in T PROVE l + 1 \in T
  <2>1. l \in Nat /\ (l <= Len(s) => g[l + 1] = d * TenTo[l] + f[l])
    OBVIOUS
  <2>2. CASE l + 1 <= Len(s)
    <3> DEFINE m == l + 1
    <3>1. l \in 0 .. Len(s) - 1 /\ m \in 0 .. Len(t) - 1 /\ l <= Len(s) /\ l \in 0 .. Len(s)
      BY <1>1, <2>1, <2>2
    <3>2. f[l + 1] = 10 * f[l] + s[l + 1] /\ f[l] \in Int /\ s[l + 1] \in Int
      BY <1>1, <1>2, <3>1 DEF Reads
    <3>3. g[m + 1] = 10 * g[m] + t[m + 1]
      <4> HIDE DEF m
      <4> QED
        BY <1>3, <3>1 DEF Reads
    <3>4. m + 1 = l + 2 /\ t[l + 2] = s[l + 1]
      BY <1>1, <2>1, <3>1
    <3>5. g[m + 1] = 10 * (d * TenTo[l] + f[l]) + s[l + 1]
      BY <2>1, <3>1, <3>3, <3>4
    <3>6. TenTo[l] \in Nat /\ TenTo[l + 1] = 10 * TenTo[l]
      BY <2>1, TenToGrows
    <3>7. \A x, y, z \in Int : 10 * (d * x + y) + z = d * (10 * x) + (10 * y + z)
      OBVIOUS
    <3>8. g[m + 1] = d * TenTo[l + 1] + f[l + 1]
      <4> DEFINE x == TenTo[l]
                 y == f[l]
                 z == s[l + 1]
      <4>1. x \in Int /\ y \in Int /\ z \in Int
        BY <3>2, <3>6
      <4>2. 10 * (d * x + y) + z = d * (10 * x) + (10 * y + z)
        <5> HIDE DEF x, y, z
        <5> QED
          BY <3>7, <4>1
      <4> QED
        BY <3>2, <3>5, <3>6, <4>2, Zenon
    <3> QED
      BY <2>1, <3>8
  <2> QED
    BY <1>1, <2>1, <2>2
<1>6. T = Nat
  <2> HIDE DEF T
  <2> QED
    BY <1>4, <1>5, Induction DEF T
<1>7. Len(s) \in T
  BY <1>1, <1>6
<1> QED
  BY <1>1, <1>2, <1>3, <1>7 DEF t

-----------------------------------------------------------------------------
(* Quotients.                                                               *)

LEMMA QuotientIs ==
  ASSUME NEW a \in Nat, NEW b \in Nat \ {0}, NEW q \in Int, NEW r \in Int,
         a = b * q + r, 0 <= r, r < b
  PROVE  a \div b = q /\ a % b = r
OBVIOUS

LEMMA QuotientOf ==
  ASSUME NEW a \in Nat, NEW b \in Nat \ {0}
  PROVE  /\ a \div b \in Nat /\ a % b \in Nat /\ a % b < b
         /\ a = b * (a \div b) + (a % b)
OBVIOUS

\* A digit in base c: from a \div (c * b) to a \div b.
LEMMA NextDigit ==
  ASSUME NEW a \in Nat, NEW b \in Nat \ {0}, NEW c \in {10, 16}
  PROVE  /\ (a \div b) \div c = a \div (c * b)
         /\ c * (a \div (c * b)) + ((a \div b) % c) = a \div b
<1> DEFINE q == a \div b
           r == a % b
           u == q \div c
           v == q % c
<1>1. q \in Nat /\ r \in Nat /\ r < b /\ a = b * q + r
  BY QuotientOf
<1>2. u \in Nat /\ v \in 0 .. c - 1 /\ q = c * u + v
  BY <1>1
<1> HIDE DEF q, r, u, v
<1>3. b * q = b * (c * u) + b * v
  BY <1>1, <1>2
<1>4. b * (c * u) = (c * b) * u
  BY <1>2
<1>5. b * v \in Nat /\ b * v <= b * (c - 1)
  BY <1>2
<1>6. a = (c * b) * u + (b * v + r) /\ b * v + r < c * b
  BY <1>1, <1>2, <1>3, <1>4, <1>5
<1>7. a \div (c * b) = u
  <2>1. c * b \in Nat \ {0} /\ b * v + r \in Int /\ 0 <= b * v + r
    BY <1>1, <1>5
  <2> QED
    BY <1>2, <1>6, <2>1, QuotientIs
<1> QED
  BY <1>2, <1>7 DEF q, u, v

\* The same of the lowest digits of a.
LEMMA NextNibble ==
  ASSUME NEW a \in Nat, NEW P \in Nat \ {0}, NEW Q \in Nat \ {0}
  PROVE  16 * ((a \div (16 * P)) % Q) + ((a \div P) % 16) = (a \div P) % (16 * Q)
<1> DEFINE b == a \div P
           v == b % 16
           u == b \div 16
           s == u \div Q
           t == u % Q
<1>1. b \in Nat /\ u = a \div (16 * P)
  BY QuotientOf, NextDigit
<1> HIDE DEF b
<1>2. u \in Nat /\ v \in 0 .. 15 /\ b = 16 * u + v
  BY <1>1
<1> HIDE DEF u, v
<1>3. s \in Nat /\ t \in Nat /\ t < Q /\ u = Q * s + t
  BY <1>2, QuotientOf
<1> HIDE DEF s, t
<1>4. b = (16 * Q) * s + (16 * t + v) /\ 16 * t + v < 16 * Q
  BY <1>2, <1>3
<1>5. b % (16 * Q) = 16 * t + v
  <2> DEFINE D == 16 * Q
             w == 16 * t + v
  <2>1. D \in Nat \ {0} /\ w \in Int /\ 0 <= w
    BY <1>2, <1>3
  <2>2. b = D * s + w /\ w < D
    BY <1>4
  <2> HIDE DEF D, w
  <2>3. b % D = w
    BY <1>1, <1>3, <2>1, <2>2, QuotientIs
  <2> QED
    BY <2>3 DEF D, w
<1> QED
  BY <1>1, <1>5 DEF b, t, v

LEMMA NibblePower ==
  ASSUME NEW x \in Nat
  PROVE  2^(4 * x) \in Nat \ {0} /\ 2^(4 * (x + 1)) = 16 * 2^(4 * x)
<1> DEFINE y == 4 * x
<1>1. y \in Nat /\ y + 1 \in Nat /\ y + 1 + 1 \in Nat /\ y + 1 + 1 + 1 \in Nat
  OBVIOUS
<1>2. 4 * (x + 1) = y + 1 + 1 + 1 + 1
  OBVIOUS
<1> HIDE DEF y
<1>3. /\ 2^(y + 1) = 2 * 2^y /\ 2^(y + 1 + 1) = 2 * 2^(y + 1)
      /\ 2^(y + 1 + 1 + 1) = 2 * 2^(y + 1 + 1)
      /\ 2^(y + 1 + 1 + 1 + 1) = 2 * 2^(y + 1 + 1 + 1)
  BY <1>1, PowerDoubles
<1>4. 2^y \in Nat \ {0}
  BY <1>1, PowerCounts
<1>5. 2^(y + 1 + 1 + 1 + 1) = 16 * 2^y
  BY <1>3, <1>4
<1> QED
  BY <1>2, <1>4, <1>5 DEF y

LEMMA TenToAboveTwo ==
  ASSUME NEW p \in Nat
  PROVE  2^p <= TenTo[p]
<1> DEFINE T == {x \in Nat : 2^x <= TenTo[x]}
<1>1. 2^0 = 1
  BY SMT
<1>2. 0 \in T
  BY <1>1, TenToGrows
<1>3. ASSUME NEW x \in T PROVE x + 1 \in T
  <2>1. x \in Nat /\ 2^x <= TenTo[x]
    OBVIOUS
  <2>2. 2^(x + 1) = 2 * 2^x /\ 2^x \in Nat
    BY <2>1, PowerDoubles, PowerCounts
  <2>3. TenTo[x + 1] = 10 * TenTo[x] /\ TenTo[x] \in Nat
    BY <2>1, TenToGrows
  <2>4. 2^(x + 1) <= TenTo[x + 1]
    BY <2>1, <2>2, <2>3
  <2> QED
    BY <2>1, <2>4
<1>4. T = Nat
  <2> HIDE DEF T
  <2> QED
    BY <1>2, <1>3, Induction DEF T
<1> QED
  BY <1>4

-----------------------------------------------------------------------------
(* UnityPrintNumberByStyle.                                                 *)

\* Each part has the same powers of ten, and reads digits in the same way.
LEMMA DecimalsSame ==
  /\ Digits!TenTo = TenTo /\ \A s, base : Digits!ReadBack(s, base) = ReadBack(s, base)
  /\ Fraction!TenTo = TenTo /\ \A s, base : Fraction!ReadBack(s, base) = ReadBack(s, base)
BY DEF Digits!TenTo, Fraction!TenTo, TenTo, Digits!ReadBack, Fraction!ReadBack, ReadBack

LEMMA DigitsExtremes ==
  ASSUME NEW x \in Int, NEW y \in Int
  PROVE  /\ Digits!Max({x, y}) = IF x >= y THEN x ELSE y
         /\ Digits!Min({x, y}) = IF x <= y THEN x ELSE y
BY DEF Digits!Max, Digits!Min

PrintsNegative == input.range = "INT" /\ Digits!IsNegative

\* What is printed before the digits, and the number that they stand for.
Sign      == IF PrintsNegative THEN <<-1>> ELSE << >>
Magnitude == IF PrintsNegative THEN 2^DigitBits - input.pattern ELSE input.pattern

\* The number of digits of HEX.
Nibbles == Digits!Min({input.nibbles, Digits!UNITY_MAX_NIBBLES})

DigitsTypeOK ==
  /\ input.pattern \in 0 .. 2^DigitBits - 1
  /\ input.range \in {"INT", "UINT", "HEX"} /\ (input.range = "HEX" => input.nibbles \in Nat)
  /\ number \in 0 .. 2^DigitBits - 1 /\ divisor \in Nat
  /\ pc \in {"start", "signed", "unsigned", "digits", "hex", "nibbles", "printed"}

\* The digits printed so far are those of number \div (10 * divisor), and the
\* first is not 0.
DigitsSoFar ==
  \E s \in Seq(0 .. 9) :
    /\ out = Sign \o s
    /\ ReadBack(s, 10) = number \div (10 * divisor)
    /\ s # << >> => s[1] # 0
    /\ s = << >> => number \div divisor <= 9

NibblesSoFar ==
  /\ out \in Seq(Int) /\ nibbles \in 0 .. Nibbles
  /\ ReadBack(out, 16) = (number \div 2^(4 * nibbles)) % 2^(4 * (Nibbles - nibbles))

DigitsInv ==
  /\ DigitsTypeOK
  /\ divisor <= number \/ divisor <= 1
  /\ pc \in {"start", "signed", "hex", "nibbles"} => number = input.pattern /\ divisor = 1
  /\ pc \in {"start", "signed", "hex"} => out = << >>
  /\ pc = "signed" => input.range = "INT"
  /\ pc \in {"unsigned", "digits"} => input.range # "HEX" /\ number = Magnitude
  /\ pc = "unsigned" => out = Sign /\ \E p \in 0 .. DigitBits : divisor = TenTo[p]
  /\ pc = "digits" => DigitsSoFar /\ \E p \in Nat : divisor = TenTo[p]
  /\ pc \in {"hex", "nibbles"} => input.range = "HEX"
  /\ pc = "nibbles" => NibblesSoFar
  /\ Digits!ReadsBack

LEMMA WordOfDigits ==
  ASSUME Digits!DigitsAssumption
  PROVE  /\ DigitBits \in Nat \ {0} /\ 2^DigitBits \in Nat \ {0}
         /\ 2^DigitBits = 2 * 2^(DigitBits - 1) /\ 2^(DigitBits - 1) \in Nat \ {0}
<1>1. DigitBits \in Nat \ {0} /\ DigitBits - 1 \in Nat
  BY DEF Digits!DigitsAssumption
<1> DEFINE x == DigitBits - 1
<1>2. 2^(x + 1) = 2 * 2^x /\ 2^x \in Nat \ {0}
  <2> HIDE DEF x
  <2> QED
    BY <1>1, PowerDoubles, PowerCounts DEF x
<1>3. x + 1 = DigitBits
  BY <1>1
<1> QED
  BY <1>1, <1>2, <1>3, PowerCounts

LEMMA DigitsStart ==
  ASSUME Digits!DigitsAssumption, Digits!Init
  PROVE  DigitsInv
<1>1. /\ input.pattern \in DigitPatterns /\ input.range \in {"INT", "UINT", "HEX"}
      /\ input.range = "HEX" => input.nibbles \in Nat
  <2>1. \A z \in 2 .. 2 * Digits!UNITY_MAX_NIBBLES : z \in Nat
    OBVIOUS
  <2> QED
    BY <2>1 DEF Digits!Init
<1>2. DigitPatterns \subseteq 0 .. 2^DigitBits - 1
  BY DEF Digits!DigitsAssumption
<1> QED
  BY <1>1, <1>2 DEF Digits!Init, DigitsInv, DigitsTypeOK, Digits!ReadsBack

\* With its sign, what is printed reads back as the number.
LEMMA DigitsReadBack ==
  ASSUME Digits!DigitsAssumption, DigitsTypeOK', input'.range # "HEX",
         NEW s \in Seq(0 .. 9), s # << >>, out' = Sign' \o s,
         ReadBack(s, 10) = Magnitude', Len(s) > 1 => s[1] # 0
  PROVE  Digits!ReadsBack'
<1>1. s \in Seq(Int) /\ Len(s) \in Nat \ {0} /\ s[1] \in 0 .. 9
  OBVIOUS
<1>2. CASE PrintsNegative'
  <2>1. out' = <<-1>> \o s
    BY <1>2 DEF Sign
  <2>2. Head(out') = -1 /\ Tail(out') = s
    BY <1>1, <2>1
  <2>3. Digits!Figures' = s /\ Head(out') = Digits!Minus
    BY <2>2 DEF Digits!Figures, Digits!Minus
  <2>4. ReadBack(s, 10) = 2^DigitBits - input'.pattern
    BY <1>2 DEF Magnitude
  <2>5. (-1) * ReadBack(s, 10) = input'.pattern - 2^DigitBits
    <3>1. input'.pattern \in Int /\ 2^DigitBits \in Int
      BY WordOfDigits DEF DigitsTypeOK
    <3> DEFINE B == 2^DigitBits
    <3> HIDE DEF B
    <3>2. ReadBack(s, 10) = B - input'.pattern /\ B \in Int
      BY <2>4, <3>1 DEF B
    <3>3. (-1) * ReadBack(s, 10) = input'.pattern - B
      BY <3>1, <3>2
    <3> QED
      BY <3>3 DEF B
  <2> QED
    BY <1>2, <2>3, <2>5, DecimalsSame DEF Digits!ReadsBack, PrintsNegative
<1>3. CASE ~PrintsNegative'
  <2>1. out' = s
    BY <1>1, <1>3, ConcatEmptySeq DEF Sign
  <2>2. Head(out') # Digits!Minus
    BY <1>1, <2>1 DEF Digits!Minus
  <2>3. Digits!Figures' = s
    BY <2>1, <2>2 DEF Digits!Figures
  <2>4. 1 * ReadBack(s, 10) = input'.pattern
    BY <1>3 DEF Magnitude, DigitsTypeOK
  <2> QED
    BY <1>3, <2>2, <2>3, <2>4, DecimalsSame DEF Digits!ReadsBack, PrintsNegative
<1> QED
  BY <1>2, <1>3

LEMMA SmallModulo ==
  ASSUME NEW B \in Nat \ {0}, NEW x \in 0 .. B - 1
  PROVE  x % B = x
BY ModuloNear

LEMMA DigitsPick ==
  ASSUME Digits!DigitsAssumption, DigitsInv, Digits!UnityPrintNumberByStyle
  PROVE  DigitsInv'
<1>1. /\ input' = input /\ number' = number /\ divisor' = divisor /\ nibbles' = nibbles
      /\ out' = out /\ pc = "start" /\ pc' \in {"hex", "unsigned", "signed"}
      /\ pc' = "hex" => input.range = "HEX"
      /\ pc' = "signed" => input.range = "INT"
  BY DEF Digits!UnityPrintNumberByStyle
<1>2. pc' = "unsigned" => input.range = "UINT"
  BY DEF Digits!UnityPrintNumberByStyle
<1>3. pc' = "unsigned" => out = Sign /\ number = Magnitude
  BY <1>1, <1>2 DEF DigitsInv, Sign, Magnitude, PrintsNegative
<1>4. \E p \in 0 .. DigitBits : divisor = TenTo[p]
  <2>1. 0 \in 0 .. DigitBits
    BY WordOfDigits
  <2>2. divisor = TenTo[0]
    BY <1>1, TenToGrows DEF DigitsInv
  <2> QED
    BY <2>1, <2>2
<1>5. Sign' = Sign /\ Magnitude' = Magnitude
  BY <1>1 DEF Sign, Magnitude, PrintsNegative, Digits!IsNegative
<1> QED
  BY <1>1, <1>2, <1>3, <1>4, <1>5 DEF DigitsInv, DigitsTypeOK, Digits!ReadsBack

LEMMA DigitsSign ==
  ASSUME Digits!DigitsAssumption, DigitsInv, Digits!UnityPrintNumber
  PROVE  DigitsInv'
<1>1. /\ input' = input /\ divisor' = divisor /\ pc = "signed" /\ pc' = "unsigned"
      /\ input.range = "INT" /\ number = input.pattern /\ divisor = 1 /\ out = << >>
      /\ PrintsNegative <=> Digits!IsNegative
  BY DEF Digits!UnityPrintNumber, DigitsInv, PrintsNegative
<1>2. number' = Magnitude /\ out' = Sign
  <2>1. CASE Digits!IsNegative
    <3>1. number' = Digits!Negated(number) /\ out' = <<-1>>
      BY <2>1 DEF Digits!UnityPrintNumber, Digits!Minus
    <3> DEFINE B == 2^DigitBits
    <3>2. B \in Nat \ {0} /\ number \in 1 .. B - 1
      BY <1>1, <2>1, WordOfDigits DEF Digits!IsNegative, DigitsInv, DigitsTypeOK
    <3>3. Digits!Negated(number) = (B - 1 - number + 1) % B
      BY DEF Digits!Negated
    <3> HIDE DEF B
    <3>4. (B - 1 - number + 1) % B = B - number
      <4>1. B - 1 - number + 1 \in 0 .. B - 1 /\ B - 1 - number + 1 = B - number
        BY <3>2
      <4> QED
        BY <3>2, <4>1, SmallModulo
    <3> QED
      BY <1>1, <2>1, <3>1, <3>3, <3>4 DEF Magnitude, Sign, B
  <2>2. CASE ~Digits!IsNegative
    BY <1>1, <2>2 DEF Digits!UnityPrintNumber, Magnitude, Sign
  <2> QED
    BY <2>1, <2>2
<1>3. number' \in 0 .. 2^DigitBits - 1
  <2>1. Magnitude = IF input.pattern >= 2^(DigitBits - 1) THEN 2^DigitBits - input.pattern
                                                          ELSE input.pattern
    BY <1>1 DEF Magnitude, PrintsNegative, Digits!IsNegative
  <2>2. input.pattern \in 0 .. 2^DigitBits - 1
    BY DEF DigitsInv, DigitsTypeOK
  <2> QED
    BY <1>2, <2>1, <2>2, WordOfDigits
<1>4. \E p \in 0 .. DigitBits : divisor = TenTo[p]
  <2>1. 0 \in 0 .. DigitBits
    BY WordOfDigits
  <2> QED
    BY <1>1, <2>1, TenToGrows
<1>5. Sign' = Sign /\ Magnitude' = Magnitude
  BY <1>1 DEF Sign, Magnitude, PrintsNegative, Digits!IsNegative
<1> QED
  BY <1>1, <1>2, <1>3, <1>4, <1>5 DEF DigitsInv, DigitsTypeOK, Digits!ReadsBack

\* The divisor grows to the last power of ten that is not above the number.
LEMMA DigitsDivisor ==
  ASSUME Digits!DigitsAssumption, DigitsInv, pc = "unsigned", Digits!UnityPrintNumberUnsigned
  PROVE  DigitsInv'
<1> DEFINE B == 2^DigitBits
<1>1. /\ input' = input /\ number' = number /\ out' = out
      /\ input.range # "HEX" /\ number = Magnitude /\ out = Sign
      /\ number \in 0 .. B - 1 /\ B \in Nat \ {0}
  BY WordOfDigits DEF Digits!UnityPrintNumberUnsigned, DigitsInv, DigitsTypeOK
<1>2. PICK p \in 0 .. DigitBits : divisor = TenTo[p]
  BY DEF DigitsInv
<1>3. p \in Nat /\ divisor \in Nat \ {0} /\ TenTo[p + 1] = 10 * divisor
  BY <1>2, TenToGrows, WordOfDigits
<1>4. /\ number \div divisor \in Nat /\ number % divisor \in Nat /\ number % divisor < divisor
      /\ number = divisor * (number \div divisor) + (number % divisor)
  BY <1>1, <1>3, QuotientOf
<1>5. Sign' = Sign /\ Magnitude' = Magnitude
  BY <1>1 DEF Sign, Magnitude, PrintsNegative, Digits!IsNegative
<1>6. CASE Digits!MoreDigits
  <2>1. divisor' = (divisor * 10) % B /\ pc' = "unsigned"
    BY <1>6 DEF Digits!UnityPrintNumberUnsigned
  <2>2. divisor * 10 <= number
    <3> DEFINE q == number \div divisor
               r == number % divisor
    <3>1. q \in Nat /\ q >= 10 /\ r \in Nat /\ number = divisor * q + r
      BY <1>4, <1>6 DEF Digits!MoreDigits
    <3> HIDE DEF q, r
    <3>2. divisor * 10 <= divisor * q
      BY <1>3, <3>1
    <3>3. divisor * q \in Nat
      BY <1>3, <3>1
    <3> QED
      BY <1>1, <1>3, <3>1, <3>2, <3>3
  <2>3. divisor' = divisor * 10
    <3>1. divisor * 10 \in 0 .. B - 1
      BY <1>1, <1>3, <2>2
    <3> HIDE DEF B
    <3> QED
      BY <1>1, <2>1, <3>1, SmallModulo
  <2>4. p + 1 \in 0 .. DigitBits
    <3>1. 2^p <= divisor /\ 2^p \in Nat
      BY <1>2, <1>3, TenToAboveTwo, PowerCounts
    <3>2. p < DigitBits
      <4>1. ASSUME p = DigitBits PROVE FALSE
        BY <1>1, <1>3, <2>2, <3>1, <4>1
      <4> QED
        BY <1>2, <4>1, WordOfDigits
    <3> QED
      BY <1>3, <3>2, WordOfDigits
  <2>5. divisor' = TenTo[p + 1] /\ divisor' \in Nat /\ divisor' <= number
    BY <1>1, <1>3, <2>2, <2>3
  <2> QED
    BY <1>1, <1>5, <2>1, <2>4, <2>5 DEF DigitsInv, DigitsTypeOK, Digits!ReadsBack
<1>7. CASE ~Digits!MoreDigits
  <2>1. divisor' = divisor /\ pc' = "digits"
    BY <1>7 DEF Digits!UnityPrintNumberUnsigned
  <2>2. number \div divisor <= 9
    BY <1>4, <1>7 DEF Digits!MoreDigits
  <2>3. number \div (10 * divisor) = 0
    <3> DEFINE q == number \div divisor
               r == number % divisor
    <3>1. q \in Nat /\ q <= 9 /\ r \in Nat /\ r < divisor /\ number = divisor * q + r
      BY <1>4, <2>2
    <3> HIDE DEF q, r
    <3>2. divisor * q <= divisor * 9
      BY <1>3, <3>1
    <3>3. number < 10 * divisor
      BY <1>1, <1>3, <3>1, <3>2
    <3>4. 10 * divisor \in Nat \ {0} /\ number = (10 * divisor) * 0 + number /\ number \in Nat
      BY <1>1, <1>3
    <3> QED
      BY <3>3, <3>4, QuotientIs
  <2>4. DigitsSoFar'
    <3>1. << >> \in Seq(0 .. 9) /\ out' = Sign' \o << >>
      BY <1>1, <1>5, EmptySeq DEF Sign
    <3>2. ReadBack(<< >>, 10) = 0
      BY ReadBackEmpty
    <3>3. ReadBack(<< >>, 10) = number' \div (10 * divisor')
      BY <1>1, <2>1, <2>3, <3>2
    <3>4. number' \div divisor' <= 9
      BY <1>1, <2>1, <2>2
    <3> QED
      BY <3>1, <3>3, <3>4 DEF DigitsSoFar
  <2> QED
    BY <1>1, <1>2, <1>3, <1>5, <2>1, <2>4 DEF DigitsInv, DigitsTypeOK, Digits!ReadsBack
<1> QED
  BY <1>6, <1>7

LEMMA DigitsDigit ==
  ASSUME Digits!DigitsAssumption, DigitsInv, pc = "digits", Digits!UnityPrintNumberUnsigned
  PROVE  DigitsInv'
<1>1. /\ input' = input /\ number' = number /\ divisor' = divisor \div 10
      /\ out' = Append(out, (number \div divisor) % 10)
      /\ pc' = IF divisor' > 0 THEN "digits" ELSE "printed"
      /\ input.range # "HEX" /\ number = Magnitude /\ number \in 0 .. 2^DigitBits - 1
      /\ number \in Nat
  BY DEF Digits!UnityPrintNumberUnsigned, DigitsInv, DigitsTypeOK
<1>2. Sign' = Sign /\ Magnitude' = Magnitude
  BY <1>1 DEF Sign, Magnitude, PrintsNegative, Digits!IsNegative
<1>3. PICK p \in Nat : divisor = TenTo[p]
  BY DEF DigitsInv
<1>4. divisor \in Nat \ {0}
  BY <1>3, TenToGrows
<1>5. PICK s \in Seq(0 .. 9) :
        /\ out = Sign \o s /\ ReadBack(s, 10) = number \div (10 * divisor)
        /\ s # << >> => s[1] # 0
        /\ s = << >> => number \div divisor <= 9
  BY DEF DigitsInv, DigitsSoFar
<1> DEFINE d == (number \div divisor) % 10
           t == Append(s, d)
<1>6. d \in 0 .. 9 /\ number \div divisor \in Nat
  <2> DEFINE q == number \div divisor
  <2>1. q \in Nat
    BY <1>1, <1>4, QuotientOf
  <2> HIDE DEF q
  <2>2. q % 10 \in 0 .. 9
    BY <2>1
  <2> QED
    BY <2>1, <2>2 DEF q
<1>7. t \in Seq(0 .. 9) /\ t # << >> /\ out' = Sign \o t
  <2>1. Sign \in Seq(Int) /\ s \in Seq(Int) /\ d \in Int
    BY <1>6, EmptySeq DEF Sign
  <2>2. Append(Sign \o s, d) = Sign \o Append(s, d)
    <3> HIDE DEF d
    <3>1. Append(Sign \o s, d) = (Sign \o s) \o <<d>> /\ Append(s, d) = s \o <<d>>
      BY <2>1, AppendIsConcat, ConcatProperties
    <3>2. <<d>> \in Seq(Int)
      BY <2>1
    <3> QED
      BY <2>1, <3>1, <3>2, ConcatAssociative
  <2>3. Append(s, d) \in Seq(0 .. 9) /\ Append(s, d) # << >>
    <3> HIDE DEF d
    <3> QED
      BY <1>6
  <2>4. out' = Append(out, d)
    BY <1>1
  <2> QED
    BY <1>5, <2>2, <2>3, <2>4
<1>8. ReadBack(t, 10) = number \div divisor
  <2>1. s \in Seq(Int) /\ d \in Int
    BY <1>6
  <2>2. ReadBack(t, 10) = 10 * ReadBack(s, 10) + d
    <3> HIDE DEF d
    <3> QED
      BY <2>1, ReadBackAppend
  <2>3. 10 * (number \div (10 * divisor)) + d = number \div divisor
    BY <1>1, <1>4, NextDigit
  <2> QED
    BY <1>5, <2>2, <2>3
<1>9. t[1] = IF s = << >> THEN d ELSE s[1]
  <2> HIDE DEF d
  <2> QED
    BY <1>6
<1>10. s = << >> => d = number \div divisor
  BY <1>5, <1>6, SmallModulo
<1>11. Len(t) > 1 => s # << >>
  <2> HIDE DEF d
  <2> QED
    BY <1>6
<1> HIDE DEF d, t
<1>12. CASE p = 0
  <2>1. divisor = 1 /\ divisor' = 0 /\ pc' = "printed"
    BY <1>1, <1>3, <1>12, TenToGrows
  <2>2. ReadBack(t, 10) = Magnitude
    <3>1. number \div 1 = number
      BY <1>1, QuotientIs
    <3> QED
      BY <1>1, <1>8, <2>1, <3>1
  <2>3. DigitsTypeOK'
    BY <1>1, <2>1 DEF DigitsInv, DigitsTypeOK
  <2>4. Digits!ReadsBack'
    <3>1. /\ DigitsTypeOK' /\ input'.range # "HEX" /\ t \in Seq(0 .. 9) /\ t # << >>
          /\ out' = Sign' \o t /\ ReadBack(t, 10) = Magnitude' /\ (Len(t) > 1 => t[1] # 0)
      BY <1>1, <1>2, <1>5, <1>7, <1>9, <1>11, <2>2, <2>3
    <3> QED
      BY <3>1, DigitsReadBack
  <2> QED
    BY <1>1, <2>1, <2>3, <2>4 DEF DigitsInv
<1>13. CASE p # 0
  <2> DEFINE q == p - 1
  <2>1. q \in Nat /\ divisor = 10 * TenTo[q] /\ TenTo[q] \in Nat \ {0}
    <3>1. q \in Nat /\ q + 1 = p
      BY <1>13
    <3> HIDE DEF q
    <3> QED
      BY <1>3, <3>1, TenToGrows
  <2> HIDE DEF q
  <2>2. divisor' = TenTo[q] /\ 10 * divisor' = divisor /\ pc' = "digits"
    BY <1>1, <2>1
  <2>3. divisor' \in Nat /\ divisor > 1 /\ divisor' <= divisor
    BY <2>1, <2>2
  <2>4. divisor <= number
    BY <1>1, <1>4, <2>3 DEF DigitsInv
  <2>5. t[1] # 0
    <3>1. CASE s = << >>
      <4> DEFINE u == number \div divisor
      <4>1. number = divisor * u + (number % divisor) /\ number % divisor < divisor
            /\ number % divisor \in Nat /\ u \in Nat
        BY <1>1, <1>4, QuotientOf
      <4> HIDE DEF u
      <4>2. u # 0
        <5>1. ASSUME u = 0 PROVE FALSE
          BY <1>1, <1>4, <2>4, <4>1, <5>1
        <5> QED
          BY <5>1
      <4> QED
        BY <1>9, <1>10, <3>1, <4>2 DEF u
    <3>2. CASE s # << >>
      BY <1>5, <1>9, <3>2
    <3> QED
      BY <3>1, <3>2
  <2>6. DigitsSoFar'
    BY <1>1, <1>2, <1>7, <1>8, <2>2, <2>5 DEF DigitsSoFar
  <2>7. DigitsTypeOK' /\ (divisor' <= number')
    BY <1>1, <1>4, <2>2, <2>3, <2>4 DEF DigitsInv, DigitsTypeOK
  <2> QED
    BY <1>1, <1>2, <2>1, <2>2, <2>6, <2>7 DEF DigitsInv, Digits!ReadsBack
<1> QED
  BY <1>12, <1>13

LEMMA NibbleCount ==
  ASSUME Digits!DigitsAssumption, DigitsTypeOK, input.range = "HEX"
  PROVE  Nibbles \in Nat
<1>1. Digits!UNITY_MAX_NIBBLES \in Nat
  BY DEF Digits!DigitsAssumption, Digits!UNITY_MAX_NIBBLES
<1>2. input.nibbles \in Nat
  BY DEF DigitsTypeOK
<1> DEFINE x == input.nibbles
           y == Digits!UNITY_MAX_NIBBLES
<1>3. Digits!Min({x, y}) = IF x <= y THEN x ELSE y
  <2>1. x \in Int /\ y \in Int
    BY <1>1, <1>2
  <2> HIDE DEF x, y
  <2> QED
    BY <2>1, DigitsExtremes
<1> QED
  BY <1>1, <1>2, <1>3 DEF Nibbles

LEMMA DigitsHex ==
  ASSUME Digits!DigitsAssumption, DigitsInv, Digits!UnityPrintNumberHex
  PROVE  DigitsInv'
<1>1. /\ input' = input /\ number' = number /\ divisor' = divisor /\ input.range = "HEX"
      /\ number = input.pattern /\ number \in Nat /\ DigitsTypeOK
  BY DEF Digits!UnityPrintNumberHex, DigitsInv, DigitsTypeOK
<1>2. Nibbles \in Nat /\ Nibbles' = Nibbles
  BY <1>1, NibbleCount DEF Nibbles, Digits!UNITY_MAX_NIBBLES
<1>3. CASE pc = "hex"
  <2>1. nibbles' = Nibbles /\ pc' = "nibbles" /\ out' = << >>
    BY <1>3 DEF Digits!UnityPrintNumberHex, Nibbles, DigitsInv
  <2>2. ReadBack(<< >>, 16) = (number \div 2^(4 * Nibbles)) % 2^(4 * (Nibbles - Nibbles))
    <3>1. 4 * (Nibbles - Nibbles) = 0
      BY <1>2
    <3>2. 2^0 = 1
      BY SMT
    <3>3. 2^(4 * Nibbles) \in Nat \ {0}
      BY <1>2, NibblePower
    <3> DEFINE q == number \div 2^(4 * Nibbles)
    <3>4. q \in Nat
      BY <1>1, <3>3, QuotientOf
    <3> HIDE DEF q
    <3>5. q % 1 = 0
      BY <3>4
    <3> QED
      BY <3>1, <3>2, <3>5, ReadBackEmpty DEF q
  <2>3. NibblesSoFar'
    BY <1>1, <1>2, <2>1, <2>2, EmptySeq DEF NibblesSoFar
  <2> QED
    BY <1>1, <1>3, <2>1, <2>3 DEF DigitsInv, DigitsTypeOK, Digits!ReadsBack
<1>4. CASE pc = "nibbles" /\ nibbles > 0
  <2> DEFINE m == nibbles'
             P == 2^(4 * m)
             Q == 2^(4 * (Nibbles - nibbles))
             d == (number \div P) % 16
  <2>1. /\ m = nibbles - 1 /\ nibbles \in 0 .. Nibbles /\ out' = Append(out, d) /\ pc' = pc
        /\ out \in Seq(Int) /\ ReadBack(out, 16) = (number \div 2^(4 * nibbles)) % Q
    BY <1>4 DEF Digits!UnityPrintNumberHex, DigitsInv, NibblesSoFar
  <2>2. m \in 0 .. Nibbles /\ m + 1 = nibbles /\ Nibbles - nibbles \in Nat
        /\ Nibbles - m = (Nibbles - nibbles) + 1
    BY <1>2, <1>4, <2>1
  <2>3. /\ P \in Nat \ {0} /\ 2^(4 * nibbles) = 16 * P
        /\ Q \in Nat \ {0} /\ 2^(4 * (Nibbles - m)) = 16 * Q
    <3>1. m \in Nat
      BY <2>2
    <3> HIDE DEF m
    <3>2. 2^(4 * m) \in Nat \ {0} /\ 2^(4 * (m + 1)) = 16 * 2^(4 * m)
      BY <3>1, NibblePower
    <3>3. Q \in Nat \ {0} /\ 2^(4 * ((Nibbles - nibbles) + 1)) = 16 * Q
      BY <2>2, NibblePower
    <3> QED
      BY <2>2, <3>2, <3>3
  <2>4. d \in Int
    BY <1>1, <2>3, QuotientOf
  <2>5. 16 * ((number \div (16 * P)) % Q) + ((number \div P) % 16) = (number \div P) % (16 * Q)
    <3> HIDE DEF P, Q
    <3> QED
      BY <1>1, <2>3, NextNibble
  <2>6. ReadBack(Append(out, d), 16) = 16 * ReadBack(out, 16) + d
    <3> HIDE DEF d
    <3> QED
      BY <2>1, <2>4, ReadBackAppend
  <2>7. ReadBack(out', 16) = (number \div P) % (16 * Q)
    <3> HIDE DEF P, Q
    <3> QED
      BY <2>1, <2>3, <2>5, <2>6
  <2>8. NibblesSoFar'
    <3>1. out' \in Seq(Int)
      <4> HIDE DEF d
      <4> QED
        BY <2>1, <2>4
    <3> QED
      BY <1>1, <1>2, <2>2, <2>3, <2>7, <3>1 DEF NibblesSoFar
  <2> QED
    BY <1>1, <1>4, <2>1, <2>8 DEF DigitsInv, DigitsTypeOK, Digits!ReadsBack
<1>5. CASE pc = "nibbles" /\ ~(nibbles > 0)
  <2>1. /\ nibbles = 0 /\ out' = out /\ pc' = "printed"
        /\ ReadBack(out, 16) = (number \div 2^(4 * nibbles)) % 2^(4 * (Nibbles - nibbles))
    BY <1>2, <1>5 DEF Digits!UnityPrintNumberHex, DigitsInv, NibblesSoFar
  <2>2. ReadBack(out, 16) = number % 2^(4 * Nibbles)
    <3>1. 4 * nibbles = 0 /\ Nibbles - nibbles = Nibbles
      BY <1>2, <2>1
    <3>2. 2^0 = 1
      BY SMT
    <3>3. number \div 1 = number
      BY <1>1, QuotientIs
    <3> QED
      BY <2>1, <3>1, <3>2, <3>3
  <2>3. Digits!ReadsBack'
    BY <1>1, <2>1, <2>2, DecimalsSame DEF Digits!ReadsBack, Nibbles, Digits!UNITY_MAX_NIBBLES
  <2> QED
    BY <1>1, <2>1, <2>3 DEF DigitsInv, DigitsTypeOK
<1> QED
  BY <1>3, <1>4, <1>5 DEF Digits!UnityPrintNumberHex

LEMMA DigitsSteps ==
  ASSUME Digits!DigitsAssumption, DigitsInv, Digits!Next
  PROVE  DigitsInv'
BY DigitsPick, DigitsSign, DigitsDivisor, DigitsDigit, DigitsHex
   DEF Digits!Next, Digits!UnityPrintNumberUnsigned

LEMMA DigitsStutter ==
  ASSUME DigitsInv, UNCHANGED Digits!vars
  PROVE  DigitsInv'
BY DEF Digits!vars, DigitsInv, DigitsTypeOK, DigitsSoFar, NibblesSoFar, Sign, Magnitude,
       Nibbles, PrintsNegative, Digits!IsNegative, Digits!UNITY_MAX_NIBBLES, Digits!ReadsBack,
       Digits!Figures

LEMMA DigitsFit ==
  ASSUME Digits!DigitsAssumption, DigitsInv
  PROVE  Digits!DivisorFits
<1>1. pc = "unsigned" => \E p \in 0 .. DigitBits : divisor = Digits!TenTo[p]
  BY DecimalsSame DEF DigitsInv
<1>2. divisor <= Digits!Max({number, 1})
  <2>1. number \in Int /\ divisor \in Int
    BY DEF DigitsInv, DigitsTypeOK
  <2>2. Digits!Max({number, 1}) = IF number >= 1 THEN number ELSE 1
    BY <2>1, DigitsExtremes
  <2> QED
    BY <2>1, <2>2 DEF DigitsInv
<1> QED
  BY <1>1, <1>2 DEF Digits!DivisorFits

-----------------------------------------------------------------------------
(* More about powers of ten.                                                *)

LEMMA TenToSum ==
  ASSUME NEW x \in Nat, NEW y \in Nat
  PROVE  TenTo[x + y] = TenTo[x] * TenTo[y]
<1> DEFINE T == {l \in Nat : TenTo[x + l] = TenTo[x] * TenTo[l]}
<1>1. 0 \in T
  <2>1. TenTo[0] = 1 /\ TenTo[x] \in Nat /\ x + 0 = x
    BY TenToGrows
  <2> QED
    BY <2>1
<1>2. ASSUME NEW l \in T PROVE l + 1 \in T
  <2>1. l \in Nat /\ TenTo[x + l] = TenTo[x] * TenTo[l]
    OBVIOUS
  <2>2. TenTo[l + 1] = 10 * TenTo[l] /\ TenTo[l] \in Nat /\ TenTo[x] \in Nat
    BY <2>1, TenToGrows
  <2>3. TenTo[x + (l + 1)] = 10 * TenTo[x + l]
    <3>1. x + l \in Nat /\ x + (l + 1) = (x + l) + 1
      BY <2>1
    <3> DEFINE z == x + l
    <3> HIDE DEF z
    <3>2. TenTo[z + 1] = 10 * TenTo[z]
      BY <3>1, TenToGrows DEF z
    <3> QED
      BY <3>1, <3>2 DEF z
  <2>4. \A v, w \in Nat : 10 * (v * w) = v * (10 * w)
    OBVIOUS
  <2>5. TenTo[x + (l + 1)] = TenTo[x] * TenTo[l + 1]
    BY <2>1, <2>2, <2>3, <2>4
  <2> QED
    BY <2>1, <2>5
<1>3. T = Nat
  <2> HIDE DEF T
  <2> QED
    BY <1>1, <1>2, Induction DEF T
<1> QED
  BY <1>3

LEMMA TenToMonotone ==
  ASSUME NEW x \in Nat, NEW y \in Nat
  PROVE  /\ TenTo[x] \in Nat \ {0}
         /\ x <= y <=> TenTo[x] <= TenTo[y]
         /\ x < y => 10 * TenTo[x] <= TenTo[y]
         /\ x < TenTo[x]
<1>1. \A u, v \in Nat : u <= v => TenTo[u] <= TenTo[v]
  <2> SUFFICES ASSUME NEW u \in Nat, NEW v \in Nat, u <= v PROVE TenTo[u] <= TenTo[v]
    OBVIOUS
  <2> DEFINE w == v - u
  <2>1. w \in Nat /\ v = u + w
    OBVIOUS
  <2> HIDE DEF w
  <2>2. TenTo[v] = TenTo[u] * TenTo[w] /\ TenTo[u] \in Nat /\ TenTo[w] \in Nat \ {0}
    BY <2>1, TenToSum, TenToGrows
  <2>3. \A a \in Nat, b \in Nat \ {0} : a <= a * b
    OBVIOUS
  <2> QED
    BY <2>2, <2>3
<1>2. \A u, v \in Nat : u < v => 10 * TenTo[u] <= TenTo[v]
  <2> SUFFICES ASSUME NEW u \in Nat, NEW v \in Nat, u < v PROVE 10 * TenTo[u] <= TenTo[v]
    OBVIOUS
  <2>1. u + 1 \in Nat /\ u + 1 <= v
    OBVIOUS
  <2> QED
    BY <1>1, <2>1, TenToGrows
<1>3. \A u \in Nat : TenTo[u] \in Nat \ {0}
  BY TenToGrows
<1>4. TenTo[x] <= TenTo[y] => x <= y
  BY <1>2, <1>3
<1> DEFINE T == {l \in Nat : l < TenTo[l]}
<1>5. 0 \in T
  BY TenToGrows
<1>6. ASSUME NEW l \in T PROVE l + 1 \in T
  BY TenToGrows
<1>7. T = Nat
  <2> HIDE DEF T
  <2> QED
    BY <1>5, <1>6, Induction DEF T
<1> QED
  BY <1>1, <1>2, <1>3, <1>4, <1>7

-----------------------------------------------------------------------------
(* UnityPrintFloat.                                                         *)

\* c * 10^q < 10^p and c * 10^q > 10^p
LessThan(c, q, p) == q < p /\ c < TenTo[p - q]
MoreThan(c, q, p) == IF q < p THEN c > TenTo[p - q] ELSE q > p \/ c > 1

LEMMA FractionExtremes ==
  ASSUME NEW x \in Int, NEW y \in Int
  PROVE  /\ Fraction!Max({x, y}) = IF x >= y THEN x ELSE y
         /\ Fraction!Min({x, y}) = IF x <= y THEN x ELSE y
BY DEF Fraction!Max, Fraction!Min

\* A mantissa of the model: no power of ten beyond MaxPower is needed.
Small(c) == c \in Nat /\ c < TenTo[MaxPower]

LEMMA PowersSuffice ==
  ASSUME Fraction!FloatTextAssumption, NEW p \in Nat
  PROVE  /\ Fraction!PowerOfTen(p) \in Nat \ {0} /\ TenTo[p] \in Nat \ {0}
         /\ p <= MaxPower => Fraction!PowerOfTen(p) = TenTo[p]
         /\ p > MaxPower => \A c : Small(c) => c < Fraction!PowerOfTen(p) /\ c < TenTo[p]
<1>1. MaxPower \in Nat
  BY DEF Fraction!FloatTextAssumption
<1>2. Fraction!Min({p, MaxPower}) = IF p <= MaxPower THEN p ELSE MaxPower
  <2>1. p \in Int /\ MaxPower \in Int
    BY <1>1
  <2> QED
    BY <2>1, FractionExtremes
<1>3. Fraction!PowerOfTen(p) = TenTo[IF p <= MaxPower THEN p ELSE MaxPower]
  BY <1>2, DecimalsSame DEF Fraction!PowerOfTen
<1>4. p > MaxPower => TenTo[MaxPower] <= TenTo[p]
  BY <1>1, TenToMonotone
<1> QED
  BY <1>1, <1>3, <1>4, TenToGrows DEF Small

LEMMA Comparisons ==
  ASSUME Fraction!FloatTextAssumption, NEW x, Small(x.c), x.q \in Int, NEW p \in Int
  PROVE  /\ Fraction!Below(x, p) <=> LessThan(x.c, x.q, p)
         /\ Fraction!Above(x, p) <=> MoreThan(x.c, x.q, p)
<1>1. CASE x.q < p
  <2>1. p - x.q \in Nat
    BY <1>1
  <2> DEFINE d == p - x.q
  <2>2. /\ x.c < Fraction!PowerOfTen(d) <=> x.c < TenTo[d]
        /\ x.c > Fraction!PowerOfTen(d) <=> x.c > TenTo[d]
    <3>1. d \in Nat /\ MaxPower \in Nat
      BY <2>1 DEF Fraction!FloatTextAssumption
    <3> HIDE DEF d
    <3>2. /\ Fraction!PowerOfTen(d) \in Nat /\ TenTo[d] \in Nat
          /\ d <= MaxPower => Fraction!PowerOfTen(d) = TenTo[d]
          /\ d > MaxPower => x.c < Fraction!PowerOfTen(d) /\ x.c < TenTo[d]
      BY <3>1, PowersSuffice
    <3> QED
      BY <3>1, <3>2 DEF Small
  <2> QED
    BY <1>1, <2>2 DEF Fraction!Below, Fraction!Above, LessThan, MoreThan
<1>2. CASE ~(x.q < p)
  BY <1>2 DEF Fraction!Below, Fraction!Above, LessThan, MoreThan
<1> QED
  BY <1>1, <1>2

LEMMA WholeOf ==
  ASSUME Fraction!FloatTextAssumption, NEW x, Small(x.c), x.q \in Int
  PROVE  Fraction!Whole(x) = IF x.q < 0 THEN x.c \div TenTo[-x.q] ELSE x.c * TenTo[x.q]
<1>1. CASE x.q < 0
  <2> DEFINE d == -x.q
  <2>1. d \in Nat /\ MaxPower \in Nat /\ x.c \in Nat
    BY <1>1 DEF Fraction!FloatTextAssumption, Small
  <2> HIDE DEF d
  <2>2. x.c \div Fraction!PowerOfTen(d) = x.c \div TenTo[d]
    <3>1. CASE d <= MaxPower
      BY <2>1, <3>1, PowersSuffice
    <3>2. CASE d > MaxPower
      <4>1. \A b \in Nat \ {0} : x.c < b => x.c \div b = 0
        <5>1. \A b \in Nat \ {0} : x.c < b => x.c = b * 0 + x.c /\ 0 <= x.c /\ x.c \in Int
          BY <2>1
        <5> QED
          BY <2>1, <5>1, QuotientIs
      <4> QED
        BY <2>1, <3>2, <4>1, PowersSuffice
    <3> QED
      BY <2>1, <3>1, <3>2
  <2> QED
    BY <1>1, <2>2 DEF Fraction!Whole, d
<1>2. CASE ~(x.q < 0)
  BY <1>2, DecimalsSame DEF Fraction!Whole
<1> QED
  BY <1>1, <1>2

LEMMA FractionOf ==
  ASSUME Fraction!FloatTextAssumption, NEW x \in [c : Nat, q : Int], Small(x.c)
  PROVE  Fraction!Fraction(x) = IF x.q < 0 THEN [c |-> x.c % TenTo[-x.q], q |-> x.q]
                                           ELSE [c |-> 0, q |-> 0]
<1>1. CASE x.q < 0
  <2> DEFINE d == -x.q
  <2>1. d \in Nat /\ MaxPower \in Nat /\ x.c \in Nat
    BY <1>1 DEF Fraction!FloatTextAssumption, Small
  <2> HIDE DEF d
  <2>2. x.c % Fraction!PowerOfTen(d) = x.c % TenTo[d]
    <3>1. CASE d <= MaxPower
      BY <2>1, <3>1, PowersSuffice
    <3>2. CASE d > MaxPower
      <4>1. \A b \in Nat \ {0} : x.c < b => x.c % b = x.c
        BY <2>1, SmallModulo
      <4> QED
        BY <2>1, <3>2, <4>1, PowersSuffice
    <3> QED
      BY <2>1, <3>1, <3>2
  <2> QED
    BY <1>1, <2>2 DEF Fraction!Fraction, d
<1>2. CASE ~(x.q < 0)
  BY <1>2 DEF Fraction!Fraction
<1> QED
  BY <1>1, <1>2

\* x and y differ by at most half of w.
Within(x, y, w) == 2 * (x - y) <= w /\ 2 * (y - x) <= w

\* m is one of the integers nearest to c * 10^q
IsNearest(c, q, m) == IF q < 0 THEN Within(m * TenTo[-q], c, TenTo[-q]) ELSE m = c * TenTo[q]

\* Halves: what rounding x / D gives, x = 2 * c, and a tie taken down.
LEMMA RoundedHalf ==
  ASSUME NEW c \in Nat, NEW D \in Nat \ {0}, NEW w, w = (2 * c) \div D,
         NEW u, u = (w + 1) \div 2
  PROVE  /\ w \in Nat /\ u \in Nat /\ Within(u * D, c, D)
         /\ 2 * (u * D - c) = D => Within((u - 1) * D, c, D)
         /\ 2 * c < D => u = 0
<1> DEFINE r == (2 * c) % D
<1>1. w \in Nat /\ r \in Nat /\ r < D /\ 2 * c = D * w + r
  BY QuotientOf
<1> HIDE DEF r
<1>2. u \in Nat /\ (w = 2 * u \/ w + 1 = 2 * u)
  BY <1>1
<1> DEFINE p == u * D
           t == D * w
<1>3. p \in Int /\ t \in Int /\ (t = 2 * p \/ t + D = 2 * p)
  <2>1. w = 2 * u => D * w = 2 * (u * D)
    BY <1>1, <1>2
  <2>2. w + 1 = 2 * u => D * w + D = 2 * (u * D)
    <3>1. ASSUME w + 1 = 2 * u PROVE D * w + D = 2 * (u * D)
      <4>1. D * w + D = D * (w + 1)
        BY <1>1
      <4>2. D * (2 * u) = 2 * (u * D)
        BY <1>2
      <4> QED
        BY <3>1, <4>1, <4>2
    <3> QED
      BY <3>1
  <2> QED
    BY <1>1, <1>2, <2>1, <2>2
<1>4. (u - 1) * D = p - D
  BY <1>2
<1>5. 2 * c = t + r
  BY <1>1
<1>6. 2 * c < D => u = 0
  <2>1. ASSUME 2 * c < D PROVE w = 0
    <3>1. 2 * c = D * 0 + 2 * c /\ 2 * c \in Nat
      OBVIOUS
    <3> QED
      BY <2>1, <3>1, QuotientIs
  <2> QED
    BY <1>2, <2>1
<1> HIDE DEF p, t
<1>7. Within(p, c, D)
  BY <1>1, <1>3, <1>5 DEF Within
<1>8. 2 * (p - c) = D => Within(p - D, c, D)
  BY <1>1, <1>3, <1>5 DEF Within
<1> QED
  BY <1>1, <1>2, <1>4, <1>6, <1>7, <1>8 DEF p

LEMMA NearestIsNearest ==
  ASSUME Fraction!FloatTextAssumption, NEW x \in [c : Nat, q : Int], Small(2 * x.c)
  PROVE  Fraction!Nearest(x) \in Nat /\ IsNearest(x.c, x.q, Fraction!Nearest(x))
<1> DEFINE y == [x EXCEPT !.c = 2 * @]
           w == Fraction!Whole(y)
           u == (w + 1) \div 2
           tie == x.q < 0 /\ 2 * (u * Fraction!PowerOfTen(-x.q) - x.c) = Fraction!PowerOfTen(-x.q)
<1>1. x.c \in Nat /\ x.q \in Int /\ y.c = 2 * x.c /\ y.q = x.q
  OBVIOUS
<1>2. w = IF x.q < 0 THEN (2 * x.c) \div TenTo[-x.q] ELSE (2 * x.c) * TenTo[x.q]
  BY <1>1, WholeOf
<1>3. Fraction!Nearest(x) = IF u % 2 = 1 /\ tie THEN u - 1 ELSE u
  BY DEF Fraction!Nearest
<1> HIDE DEF w, y
<1>4. CASE x.q < 0
  <2> DEFINE d == -x.q
             D == TenTo[d]
             P == Fraction!PowerOfTen(d)
             c == x.c
  <2>1. d \in Nat /\ MaxPower \in Nat /\ c \in Nat /\ Small(2 * c)
    BY <1>1, <1>4 DEF Fraction!FloatTextAssumption
  <2>2. w = (2 * c) \div D
    BY <1>2, <1>4
  <2>3. tie <=> 2 * (u * P - c) = P
    BY <1>4
  <2> HIDE DEF d
  <2>4. /\ D \in Nat \ {0} /\ P \in Nat \ {0}
        /\ d <= MaxPower => P = D
        /\ d > MaxPower => 2 * c < P /\ 2 * c < D
    BY <2>1, PowersSuffice
  <2> HIDE DEF c, D, P, tie
  <2>5. /\ w \in Nat /\ u \in Nat /\ Within(u * D, c, D)
        /\ 2 * (u * D - c) = D => Within((u - 1) * D, c, D)
        /\ 2 * c < D => u = 0
    BY <2>1, <2>2, <2>4, RoundedHalf
  <2> HIDE DEF u
  <2>6. u % 2 = 1 => u # 0
    BY <2>5
  <2>7. u % 2 = 1 /\ tie => Within((u - 1) * D, c, D) /\ u - 1 \in Nat
    BY <2>1, <2>3, <2>4, <2>5, <2>6
  <2>8. Fraction!Nearest(x) \in Nat /\ Within(Fraction!Nearest(x) * D, c, D)
    BY <1>3, <2>5, <2>7
  <2> QED
    BY <1>4, <2>8 DEF IsNearest, c, D, d
<1>5. CASE ~(x.q < 0)
  <2> DEFINE v == x.c * TenTo[x.q]
  <2>1. x.q \in Nat /\ TenTo[x.q] \in Nat
    BY <1>1, <1>5, TenToGrows
  <2>2. v \in Nat /\ w = 2 * v
    BY <1>1, <1>2, <1>5, <2>1
  <2>3. Fraction!Nearest(x) = u
    BY <1>3, <1>5
  <2> HIDE DEF v
  <2>4. u = v
    BY <2>2
  <2> QED
    BY <1>5, <2>2, <2>3, <2>4 DEF IsNearest, v
<1> QED
  BY <1>4, <1>5

LEMMA OrderOfPowers ==
  ASSUME NEW c \in Nat \ {0}, NEW q \in Int, NEW x \in Int, NEW y \in Int, x <= y
  PROVE  /\ LessThan(c, q, x) => LessThan(c, q, y)
         /\ MoreThan(c, q, y) => MoreThan(c, q, x)
         /\ ~(LessThan(c, q, x) /\ MoreThan(c, q, x))
<1>1. ASSUME q < x PROVE x - q \in Nat /\ y - q \in Nat /\ TenTo[x - q] <= TenTo[y - q]
  <2> DEFINE u == x - q
             v == y - q
  <2>1. u \in Nat /\ v \in Nat /\ u <= v
    BY <1>1
  <2> HIDE DEF u, v
  <2>2. TenTo[u] <= TenTo[v]
    BY <2>1, TenToMonotone
  <2> QED
    BY <2>1, <2>2 DEF u, v
<1>2. ASSUME q < y PROVE TenTo[y - q] \in Nat \ {0}
  <2> DEFINE v == y - q
  <2>1. v \in Nat
    BY <1>2
  <2> HIDE DEF v
  <2> QED
    BY <2>1, TenToGrows DEF v
<1>3. ASSUME q < x PROVE TenTo[x - q] \in Nat \ {0}
  <2> DEFINE u == x - q
  <2>1. u \in Nat
    BY <1>3
  <2> HIDE DEF u
  <2> QED
    BY <2>1, TenToGrows DEF u
<1>4. LessThan(c, q, x) => LessThan(c, q, y)
  <2>1. ASSUME LessThan(c, q, x) PROVE LessThan(c, q, y)
    <3>1. q < x /\ q < y /\ c < TenTo[x - q]
      BY <2>1 DEF LessThan
    <3> QED
      BY <1>1, <1>2, <1>3, <3>1 DEF LessThan
  <2> QED
    BY <2>1
<1>5. MoreThan(c, q, y) => MoreThan(c, q, x)
  <2>1. ASSUME MoreThan(c, q, y), q < x PROVE MoreThan(c, q, x)
    <3>1. c > TenTo[y - q] /\ q < y
      BY <2>1 DEF MoreThan
    <3> QED
      BY <1>1, <1>2, <1>3, <2>1, <3>1 DEF MoreThan
  <2>2. ASSUME MoreThan(c, q, y), ~(q < x) PROVE MoreThan(c, q, x)
    <3>1. CASE q < y
      <4>1. c > TenTo[y - q]
        BY <2>2, <3>1 DEF MoreThan
      <4> QED
        BY <1>2, <2>2, <3>1, <4>1 DEF MoreThan
    <3>2. CASE ~(q < y)
      BY <2>2, <3>2 DEF MoreThan
    <3> QED
      BY <3>1, <3>2
  <2> QED
    BY <2>1, <2>2
<1>6. ~(LessThan(c, q, x) /\ MoreThan(c, q, x))
  BY <1>3 DEF LessThan, MoreThan
<1> QED
  BY <1>4, <1>5, <1>6

\* Multiplying by 10^z moves the limit.
LEMMA OrderShifted ==
  ASSUME NEW c \in Nat, NEW q \in Int, NEW x \in Int, NEW z \in Int
  PROVE  /\ LessThan(c, q + z, x + z) <=> LessThan(c, q, x)
         /\ MoreThan(c, q + z, x + z) <=> MoreThan(c, q, x)
<1>1. (x + z) - (q + z) = x - q /\ (q + z < x + z <=> q < x) /\ (q + z > x + z <=> q > x)
  OBVIOUS
<1> QED
  BY <1>1 DEF LessThan, MoreThan

-----------------------------------------------------------------------------
(* What UnityPrintFloat has of the number in each of its loops.             *)

\* All of what is kept of it in the variable number, and in the factor or divisor.
IsScaled ==
  number.c = kept.c /\ number.q + factor = kept.q - exponent /\ n_int = 0

\* The integer part, multiplied, in n_int, the rest in number.
IsSplit ==
  /\ factor \in Nat /\ exponent = -factor
  /\ IF kept.q < 0
       THEN /\ n_int = (kept.c \div TenTo[-kept.q]) * TenTo[factor]
            /\ number = [c |-> kept.c % TenTo[-kept.q], q |-> kept.q]
       ELSE /\ n_int = kept.c * TenTo[kept.q + factor]
            /\ number = [c |-> 0, q |-> 0]

\* The number, scaled, is below, or above, a power of ten.
ScaledBelow(p) == LessThan(kept.c, kept.q - exponent, p)
ScaledAbove(p) == MoreThan(kept.c, kept.q - exponent, p)

\* m * 10^e differs from the number by at most half of its last significant
\* digit, both in units that divide all three.
Last == Fraction!DigitsOf(kept.c) + kept.q - SigDigits

IsClose(m, e) ==
  \E l \in Int :
    /\ l <= e /\ l <= kept.q /\ l <= Last
    /\ Within(m * TenTo[e - l], kept.c * TenTo[kept.q - l], TenTo[Last - l])

\* The digits in n and those in buf, the last one first.
DigitsIn(m, digits) == m * TenTo[Len(digits)] + ReadBack(Fraction!Reverse(digits), 10)

AllDigits == DigitsIn(n, buf)

\* The first digit stands for 10^top, and that decides the format.
IsPlaced(top) ==
  /\ top - Fraction!Power \in 0 .. SigDigits - 1
  /\ TenTo[top - Fraction!Power] <= AllDigits /\ AllDigits < TenTo[top - Fraction!Power + 1]
  /\ IsClose(AllDigits, Fraction!Power)
  /\ exponent = IF top < -4 \/ top >= SigDigits THEN top ELSE 0
  /\ decimals <= SigDigits + 3
  /\ Len(buf) <= top - Fraction!Power + 1 \/ Len(buf) <= decimals + 1

\* No zero at the end of the decimals, nor before the first digit.
NoZerosAround ==
  /\ decimals > 0 => IF buf = << >> THEN n % 10 # 0 ELSE buf[1] # 0
  /\ Len(buf) > decimals + 1 => n # 0 \/ buf[Len(buf)] # 0

FractionTypeOK ==
  /\ kept \in [c : Nat \ {0}, q : Int]
  /\ number \in [c : Nat, q : Int] /\ Small(2 * number.c)
  /\ factor \in Int /\ exponent \in Int /\ n_int \in Nat /\ n \in Nat /\ decimals \in Nat
  /\ buf \in Seq(0 .. 9) /\ left \in Nat /\ ebuf \in Seq(0 .. 9)
  /\ pc \in {"start", "up", "multiply", "down", "divide", "split", "round", "place", "trim",
             "digits", "exponent", "printed"}

\* The loops that scale the number: none goes beyond the digits wanted.
LoopsInv ==
  /\ pc \in {"start", "up", "multiply", "down", "divide"} => number \in FloatNumbers /\ IsScaled
  /\ pc \in {"start", "up", "down"} => factor = 0
  /\ pc = "start" => exponent = 0
  /\ pc \in {"up", "multiply"} => ~ScaledAbove(SigDigits)
  /\ pc = "multiply" =>
       factor \in 0 .. Jump - 1 /\ ~LessThan(number.c, number.q, SigDigits - Jump)
  /\ pc \in {"down", "divide"} => ~ScaledBelow(SigDigits - 1)
  /\ pc = "divide" =>
       -factor \in 0 .. Jump - 1 /\ ~MoreThan(number.c, number.q, SigDigits - 1 + Jump)
  /\ pc = "split" =>
       /\ IsSplit /\ factor \in 0 .. SigDigits - 1 /\ (number \in FloatNumbers \/ number.c = 0)
       /\ ~LessThan(kept.c, kept.q, 0) /\ ~ScaledAbove(SigDigits)

\* What is rounded then.
RoundInv ==
  LET m == Fraction!Nearest(number) + n_int
  IN  /\ m \in Nat /\ IsNearest(kept.c, kept.q - exponent, m)
      /\ ~ScaledBelow(SigDigits - 1) /\ ~ScaledAbove(SigDigits)

\* The digits of the exponent, in left and in ebuf.
AllOfExponent == DigitsIn(left, ebuf)

ExponentInv ==
  /\ AllOfExponent = Fraction!Max({exponent, -exponent})
  /\ Len(ebuf) > 2 => left # 0 \/ ebuf[Len(ebuf)] # 0

FractionInv ==
  /\ FractionTypeOK /\ LoopsInv
  /\ pc \notin {"trim", "digits", "exponent", "printed"} => decimals = 0
  /\ pc \notin {"digits", "exponent", "printed"} => buf = << >>
  /\ pc \notin {"exponent", "printed"} => ebuf = << >>
  /\ pc = "round" => RoundInv
  /\ pc = "place" =>
       TenTo[SigDigits - 1] <= n /\ n < TenTo[SigDigits] /\ IsClose(n, exponent)
  /\ pc \in {"trim", "digits", "exponent", "printed"} => \E top \in Int : IsPlaced(top)
  /\ pc \in {"digits", "exponent", "printed"} => NoZerosAround
  /\ pc \in {"exponent", "printed"} => n = 0 /\ Len(buf) > decimals /\ ExponentInv
  /\ pc = "exponent" => exponent # 0
  /\ pc = "printed" =>
       left = 0 /\ IF exponent = 0 THEN ebuf = << >> ELSE Len(ebuf) >= 2

LEMMA Opposites ==
  /\ \A y, z \in Int : y + z = 0 => y = -z
  /\ \A z \in Int : z <= 0 /\ z >= 0 => -z = 0
  /\ \A z, b \in Int : -b < z /\ z <= 0 => -z \in 0 .. b - 1
OBVIOUS

LEMMA DigitsCounted ==
  ASSUME Fraction!FloatTextAssumption
  PROVE  /\ SigDigits \in Nat \ {0} /\ Jump \in Nat /\ Jump > SigDigits
         /\ SigDigits - 1 \in 0 .. SigDigits /\ SigDigits \in 0 .. SigDigits
         /\ SigDigits - Jump \in Int /\ SigDigits - 1 + Jump \in Int
BY DEF Fraction!FloatTextAssumption

LEMMA MachineNumber ==
  ASSUME Fraction!FloatTextAssumption, NEW x \in FloatNumbers
  PROVE  /\ x \in [c : Nat \ {0}, q : Int] /\ x \in [c : Nat, q : Int]
         /\ x.c \in Nat \ {0} /\ x.q \in Int /\ Small(x.c) /\ Small(2 * x.c)
         /\ Fraction!Fraction(x) \in FloatNumbers \/ Fraction!Fraction(x).c = 0
<1>1. x \in [c : Nat \ {0}, q : Int] /\ 2 * x.c < TenTo[MaxPower] /\ MaxPower \in Nat
  BY DecimalsSame DEF Fraction!FloatTextAssumption
<1>2. TenTo[MaxPower] \in Nat
  BY <1>1, TenToGrows
<1>3. Fraction!Fraction(x) \in FloatNumbers \/ Fraction!Fraction(x).c = 0
  BY DEF Fraction!FloatTextAssumption
<1> QED
  BY <1>1, <1>2, <1>3 DEF Small

\* A product that the loops compute is a number, on the same side of powers of ten.
LEMMA Product ==
  ASSUME Fraction!FloatTextAssumption, NEW x \in FloatNumbers, NEW p \in -Jump .. Jump,
         \/ p >= 0 /\ ~MoreThan(x.c, x.q + p, SigDigits)
         \/ p <= 0 /\ ~LessThan(x.c, x.q + p, SigDigits - 1)
  PROVE  LET r == Fraction!Times(x, p)
         IN  /\ r \in FloatNumbers
             /\ \A m \in 0 .. SigDigits :
                  /\ LessThan(r.c, r.q, m) => LessThan(x.c, x.q + p, m)
                  /\ MoreThan(r.c, r.q, m) => MoreThan(x.c, x.q + p, m)
<1> DEFINE y == Fraction!Shifted(x, p)
           r == Fraction!Times(x, p)
<1>1. x.c \in Nat \ {0} /\ x.q \in Int /\ Small(x.c) /\ x \in [c : Nat, q : Int]
  BY MachineNumber
<1>2. y.c = x.c /\ y.q = x.q + p /\ y.q \in Int
  BY <1>1 DEF Fraction!Shifted
<1>3. r = FloatRounded(y)
  BY <1>1 DEF Fraction!Times
<1>4. Jump \in Nat /\ p \in Int /\ SigDigits - 1 \in Int /\ SigDigits \in Int
  BY DigitsCounted
<1>5. \A m \in Int : /\ Fraction!Below(y, m) <=> LessThan(x.c, x.q + p, m)
                     /\ Fraction!Above(y, m) <=> MoreThan(x.c, x.q + p, m)
  BY <1>1, <1>2, Comparisons
<1>6. Fraction!Computed(x, p)
  BY <1>4, <1>5 DEF Fraction!Computed
<1>7. r \in FloatNumbers /\ Fraction!KeepsOrder(y, r)
  BY <1>3, <1>6 DEF Fraction!FloatTextAssumption
<1>8. \A m \in Int : /\ Fraction!Below(r, m) <=> LessThan(r.c, r.q, m)
                     /\ Fraction!Above(r, m) <=> MoreThan(r.c, r.q, m)
  BY <1>7, MachineNumber, Comparisons
<1>9. \A m \in 0 .. SigDigits : m \in Int
  BY <1>4
<1> HIDE DEF y, r
<1> QED
  BY <1>5, <1>7, <1>8, <1>9 DEF Fraction!KeepsOrder, r

\* What a loop compares number with, as long as all of the number is in it.
LEMMA ScaledComparisons ==
  ASSUME Fraction!FloatTextAssumption, number \in FloatNumbers, NEW p \in Int
  PROVE  /\ Fraction!Below(number, p) <=> LessThan(number.c, number.q, p)
         /\ Fraction!Above(number, p) <=> MoreThan(number.c, number.q, p)
BY MachineNumber, Comparisons

LEMMA FractionStart ==
  ASSUME Fraction!FloatTextAssumption, Fraction!Init
  PROVE  FractionInv
<1>1. /\ input \in FloatNumbers /\ number = input /\ kept = input /\ pc = "start"
      /\ factor = 0 /\ exponent = 0 /\ n_int = 0 /\ n = 0 /\ decimals = 0 /\ buf = << >>
      /\ left = 0 /\ ebuf = << >>
  BY DEF Fraction!Init
<1>2. /\ input \in [c : Nat \ {0}, q : Int] /\ input \in [c : Nat, q : Int]
      /\ input.c \in Nat \ {0} /\ input.q \in Int /\ Small(2 * input.c)
  BY <1>1, MachineNumber
<1>3. input.q - 0 = input.q /\ input.q + 0 = input.q /\ << >> \in Seq(0 .. 9)
  BY <1>2, EmptySeq
<1> QED
  BY <1>1, <1>2, <1>3 DEF FractionInv, FractionTypeOK, LoopsInv, IsScaled

LEMMA FractionSmall ==
  ASSUME Fraction!FloatTextAssumption, FractionTypeOK
  PROVE  Small(number.c) /\ Small(2 * number.c)
<1>1. MaxPower \in Nat
  BY DEF Fraction!FloatTextAssumption
<1>2. TenTo[MaxPower] \in Nat
  BY <1>1, TenToGrows
<1> QED
  BY <1>2 DEF FractionTypeOK, Small

LEMMA FractionBegins ==
  ASSUME Fraction!FloatTextAssumption, FractionInv, Fraction!Start
  PROVE  FractionInv'
<1>1. /\ FractionTypeOK /\ IsScaled /\ number \in FloatNumbers /\ exponent = 0 /\ factor = 0
      /\ pc = "start" /\ decimals = 0 /\ buf = << >> /\ ebuf = << >>
      /\ kept' = kept /\ factor' = factor /\ exponent' = exponent /\ n' = n
      /\ decimals' = decimals /\ buf' = buf /\ left' = left /\ ebuf' = ebuf
  BY DEF FractionInv, LoopsInv, Fraction!Start, Fraction!figures, Fraction!powers
<1>2. /\ kept.c \in Nat \ {0} /\ kept.q \in Int /\ kept.q - 0 = kept.q /\ kept.q + 0 = kept.q
      /\ number.c = kept.c /\ number.q = kept.q /\ n_int = 0
      /\ number \in [c : Nat, q : Int]
  <2>1. number.q \in Int /\ kept.q \in Int /\ number \in [c : Nat, q : Int]
    BY <1>1 DEF FractionTypeOK
  <2>2. number.q + 0 = kept.q - 0 /\ number.c = kept.c /\ n_int = 0
    BY <1>1 DEF IsScaled
  <2> QED
    BY <1>1, <2>1, <2>2 DEF FractionTypeOK
<1>3. SigDigits \in Nat \ {0}
  BY DigitsCounted
<1>4. /\ Fraction!Below(number, 0) <=> LessThan(kept.c, kept.q, 0)
      /\ Fraction!Above(number, SigDigits) <=> MoreThan(kept.c, kept.q, SigDigits)
  BY <1>1, <1>2, <1>3, ScaledComparisons
<1>5. CASE Fraction!Below(number, 0)
  <2>1. pc' = "up" /\ number' = number /\ n_int' = n_int
    BY <1>5 DEF Fraction!Start
  <2>2. LessThan(kept.c, kept.q, SigDigits)
    BY <1>2, <1>3, <1>4, <1>5, OrderOfPowers
  <2>3. ~MoreThan(kept.c, kept.q, SigDigits)
    BY <1>2, <1>3, <2>2, OrderOfPowers
  <2>4. LoopsInv'
    BY <1>1, <1>2, <2>1, <2>3 DEF LoopsInv, IsScaled, ScaledAbove
  <2> QED
    BY <1>1, <2>1, <2>4 DEF FractionInv, FractionTypeOK
<1>6. CASE ~Fraction!Below(number, 0) /\ Fraction!Above(number, SigDigits)
  <2>1. pc' = "down" /\ number' = number /\ n_int' = n_int
    BY <1>6 DEF Fraction!Start
  <2>2. ~LessThan(kept.c, kept.q, SigDigits - 1)
    <3> DEFINE z == SigDigits - 1
    <3>1. z \in Int /\ z <= SigDigits
      BY <1>3
    <3> HIDE DEF z
    <3>2. MoreThan(kept.c, kept.q, z) /\ ~(LessThan(kept.c, kept.q, z) /\ MoreThan(kept.c, kept.q, z))
      BY <1>2, <1>3, <1>4, <1>6, <3>1, OrderOfPowers
    <3> QED
      BY <3>2 DEF z
  <2>3. LoopsInv'
    BY <1>1, <1>2, <2>1, <2>2 DEF LoopsInv, IsScaled, ScaledBelow
  <2> QED
    BY <1>1, <2>1, <2>3 DEF FractionInv, FractionTypeOK
<1>7. CASE ~Fraction!Below(number, 0) /\ ~Fraction!Above(number, SigDigits)
  <2>1. /\ pc' = "split" /\ n_int' = Fraction!Whole(number)
        /\ number' = Fraction!Fraction(number)
    BY <1>7 DEF Fraction!Start
  <2>2. number \in [c : Nat, q : Int] /\ Small(number.c)
    BY <1>1, FractionSmall DEF FractionTypeOK
  <2>3. /\ n_int' = IF kept.q < 0 THEN kept.c \div TenTo[-kept.q] ELSE kept.c * TenTo[kept.q]
        /\ number' = IF kept.q < 0 THEN [c |-> kept.c % TenTo[-kept.q], q |-> kept.q]
                                   ELSE [c |-> 0, q |-> 0]
    BY <1>2, <2>1, <2>2, WholeOf, FractionOf
  <2>4. number' \in FloatNumbers \/ number'.c = 0
    BY <1>1, <2>1, MachineNumber
  <2>5. n_int' \in Nat /\ number' \in [c : Nat, q : Int] /\ IsSplit'
    <3>1. CASE kept.q < 0
      <4> DEFINE D == TenTo[-kept.q]
                 f == kept.c \div D
                 g == kept.c % D
      <4>1. D \in Nat \ {0}
        <5> DEFINE d == -kept.q
        <5>1. d \in Nat
          BY <1>2, <3>1
        <5> HIDE DEF d
        <5>2. TenTo[d] \in Nat \ {0}
          BY <5>1, TenToGrows
        <5> QED
          BY <5>2 DEF d
      <4>2. f \in Nat /\ g \in Nat
        BY <1>2, <4>1, QuotientOf
      <4>3. n_int' = f /\ number' = [c |-> g, q |-> kept.q]
        BY <2>3, <3>1
      <4> HIDE DEF f, g
      <4>4. f = f * TenTo[0]
        BY <4>2, TenToGrows
      <4>5. factor' = 0 /\ exponent' = -factor'
        <5>1. factor' = 0
          BY <1>1
        <5>2. exponent' \in Int /\ factor' \in Int /\ exponent' + factor' = 0
          BY <1>1
        <5> QED
          BY <5>1, <5>2, Opposites, Zenon
      <4>6. factor' \in Nat /\ n_int' = f * TenTo[factor']
        BY <4>3, <4>4, <4>5
      <4> QED
        BY <1>1, <1>2, <3>1, <4>2, <4>3, <4>5, <4>6 DEF IsSplit, f, g
    <3>2. CASE ~(kept.q < 0)
      <4>1. kept.q \in Nat
        BY <1>2, <3>2
      <4>2. n_int' = kept.c * TenTo[kept.q] /\ number' = [c |-> 0, q |-> 0] /\ n_int' \in Nat
        BY <1>2, <2>3, <3>2, <4>1, TenToGrows
      <4> QED
        <5>1. factor' = 0 /\ factor' \in Nat /\ kept' = kept
          BY <1>1
        <5>2. exponent' \in Int /\ factor' \in Int /\ exponent' + factor' = 0
          BY <1>1
        <5>3. exponent' = -factor'
          BY <5>2, Opposites, Zenon
        <5>4. kept'.q + factor' = kept.q
          BY <1>2, <5>1
        <5>5. n_int' = kept'.c * TenTo[kept'.q + factor']
          BY <4>2, <5>1, <5>4
        <5> QED
          BY <3>2, <4>2, <5>1, <5>3, <5>5 DEF IsSplit
    <3> QED
      BY <3>1, <3>2
  <2>6. Small(2 * number'.c)
    <3>1. number'.c = 0 => Small(2 * number'.c)
      <4>1. MaxPower \in Nat
        BY DEF Fraction!FloatTextAssumption
      <4> QED
        BY <4>1, TenToGrows DEF Small
    <3> QED
      BY <2>4, <3>1, MachineNumber
  <2>7. FractionTypeOK'
    BY <1>1, <2>1, <2>5, <2>6 DEF FractionTypeOK
  <2>8. LoopsInv'
    <3>1. 0 \in 0 .. SigDigits - 1
      BY <1>3
    <3> QED
      BY <1>1, <1>2, <1>4, <1>7, <2>1, <2>4, <2>5, <3>1 DEF LoopsInv, ScaledAbove
  <2> QED
    BY <1>1, <2>1, <2>7, <2>8 DEF FractionInv
<1> QED
  BY <1>5, <1>6, <1>7

\* All of the number is in the product that is taken: then it still is, rounded.
LEMMA ScaledTaken ==
  ASSUME Fraction!FloatTextAssumption, FractionTypeOK, number \in FloatNumbers,
         NEW p \in -Jump .. Jump, Fraction!Take(p), exponent' \in Int,
         n_int = 0, number.c = kept.c, number.q + p = kept.q - exponent',
         \/ p >= 0 /\ ~MoreThan(number.c, number.q + p, SigDigits)
         \/ p <= 0 /\ ~LessThan(number.c, number.q + p, SigDigits - 1)
  PROVE  /\ number' = Fraction!Times(number, p) /\ number' \in FloatNumbers
         /\ number' \in [c : Nat, q : Int] /\ Small(2 * number'.c)
         /\ kept' \in [c : Nat \ {0}, q : Int]
         /\ number'.c = kept'.c /\ number'.q = kept'.q - exponent'
         /\ \A m \in 0 .. SigDigits :
              /\ LessThan(number'.c, number'.q, m) => LessThan(number.c, number.q + p, m)
              /\ MoreThan(number'.c, number'.q, m) => MoreThan(number.c, number.q + p, m)
         /\ n_int' = 0 /\ factor' = factor /\ n' = n /\ decimals' = decimals /\ buf' = buf
         /\ left' = left /\ ebuf' = ebuf
<1>1. number' = Fraction!Times(number, p)
  BY DEF Fraction!Take
<1>2. /\ number' \in FloatNumbers
      /\ \A m \in 0 .. SigDigits :
           /\ LessThan(number'.c, number'.q, m) => LessThan(number.c, number.q + p, m)
           /\ MoreThan(number'.c, number'.q, m) => MoreThan(number.c, number.q + p, m)
  BY <1>1, Product
<1>3. /\ number' \in [c : Nat \ {0}, q : Int] /\ number' \in [c : Nat, q : Int]
      /\ number'.q \in Int /\ Small(2 * number'.c)
  BY <1>2, MachineNumber
<1>4. kept \in [c : Nat \ {0}, q : Int]
  BY DEF FractionTypeOK
<1>5. CASE number' = Fraction!Shifted(number, p)
  <2>1. kept' = kept
    BY <1>5 DEF Fraction!Take
  <2>2. number'.c = number.c /\ number'.q = number.q + p
    <3>1. number \in [c : Nat, q : Int]
      BY DEF FractionTypeOK
    <3> QED
      BY <1>5, <3>1 DEF Fraction!Shifted
  <2>3. number'.c = kept'.c /\ number'.q = kept'.q - exponent'
    BY <2>1, <2>2
  <2> QED
    BY <1>1, <1>2, <1>3, <1>4, <2>1, <2>3
    DEF Fraction!Take, Fraction!figures, Fraction!powers
<1>6. CASE number' # Fraction!Shifted(number, p)
  <2>1. kept' = Fraction!Shifted(number', exponent')
    BY <1>6 DEF Fraction!Take, Fraction!Standing
  <2>2. /\ kept' \in [c : Nat \ {0}, q : Int] /\ kept'.c = number'.c
        /\ kept'.q = number'.q + exponent'
    BY <1>3, <2>1 DEF Fraction!Shifted
  <2>3. number'.q = kept'.q - exponent'
    BY <1>3, <2>2
  <2> QED
    BY <1>1, <1>2, <1>3, <2>2, <2>3 DEF Fraction!Take, Fraction!figures, Fraction!powers
<1> QED
  BY <1>5, <1>6

\* Going to another loop.
LEMMA FractionGoes ==
  ASSUME NEW label, Fraction!Goto(label)
  PROVE  /\ pc' = label /\ input' = input /\ number' = number /\ factor' = factor
         /\ kept' = kept /\ exponent' = exponent /\ n_int' = n_int /\ n' = n
         /\ decimals' = decimals /\ buf' = buf /\ left' = left /\ ebuf' = ebuf
BY DEF Fraction!Goto, Fraction!scaling, Fraction!figures, Fraction!powers

\* What the first loops and the others that scale have in common.
LEMMA FractionLoops ==
  ASSUME Fraction!FloatTextAssumption, FractionInv, pc \in {"up", "multiply", "down", "divide"}
  PROVE  /\ FractionTypeOK /\ IsScaled /\ number \in FloatNumbers
         /\ decimals = 0 /\ buf = << >> /\ ebuf = << >>
         /\ kept.c \in Nat \ {0} /\ kept.q \in Int /\ exponent \in Int /\ factor \in Int
         /\ n_int = 0 /\ number.c = kept.c /\ number.q \in Int
         /\ kept.q - exponent = number.q + factor
         /\ \A p \in Int :
              /\ ScaledBelow(p) <=> LessThan(number.c, number.q + factor, p)
              /\ ScaledAbove(p) <=> MoreThan(number.c, number.q + factor, p)
              /\ Fraction!Below(number, p) <=> LessThan(number.c, number.q, p)
              /\ Fraction!Above(number, p) <=> MoreThan(number.c, number.q, p)
<1>1. /\ FractionTypeOK /\ IsScaled /\ number \in FloatNumbers
      /\ decimals = 0 /\ buf = << >> /\ ebuf = << >>
  BY DEF FractionInv, LoopsInv
<1>2. /\ kept.c \in Nat \ {0} /\ kept.q \in Int /\ exponent \in Int /\ factor \in Int
      /\ number.q \in Int
  BY <1>1 DEF FractionTypeOK
<1>3. n_int = 0 /\ number.c = kept.c /\ kept.q - exponent = number.q + factor
  BY <1>1 DEF IsScaled
<1>4. \A p \in Int : /\ Fraction!Below(number, p) <=> LessThan(number.c, number.q, p)
                     /\ Fraction!Above(number, p) <=> MoreThan(number.c, number.q, p)
  BY <1>1, ScaledComparisons
<1> QED
  BY <1>1, <1>2, <1>3, <1>4 DEF ScaledBelow, ScaledAbove

LEMMA FractionScales ==
  ASSUME Fraction!FloatTextAssumption, FractionInv, Fraction!ScaleUp \/ Fraction!ScaleDown
  PROVE  FractionInv'
<1>1. /\ FractionTypeOK /\ IsScaled /\ number \in FloatNumbers /\ pc \in {"up", "down"}
      /\ factor = 0 /\ decimals = 0 /\ buf = << >> /\ ebuf = << >>
      /\ pc = "up" => ~ScaledAbove(SigDigits)
      /\ pc = "down" => ~ScaledBelow(SigDigits - 1)
  BY DEF FractionInv, LoopsInv, Fraction!ScaleUp, Fraction!ScaleDown
<1>2. /\ kept.c \in Nat \ {0} /\ kept.q \in Int /\ exponent \in Int
      /\ number.c = kept.c /\ number.q \in Int /\ number.q = kept.q - exponent /\ n_int = 0
  <2>1. number.q + factor = number.q
    BY <1>1, FractionLoops
  <2> QED
    BY <1>1, <2>1, FractionLoops
<1>3. SigDigits \in Nat \ {0} /\ Jump \in Nat /\ Jump > SigDigits
      /\ SigDigits - 1 \in 0 .. SigDigits /\ SigDigits \in 0 .. SigDigits
  BY DigitsCounted
<1>4. \A p \in Int : /\ Fraction!Below(number, p) <=> LessThan(number.c, number.q, p)
                     /\ Fraction!Above(number, p) <=> MoreThan(number.c, number.q, p)
  BY <1>1, FractionLoops
<1>5. ASSUME NEW p \in -Jump .. Jump, Fraction!Scale(p),
             \/ p >= 0 /\ pc = "up" /\ LessThan(number.c, number.q, SigDigits - p)
             \/ p <= 0 /\ pc = "down" /\ MoreThan(number.c, number.q, SigDigits - 1 - p)
      PROVE  FractionInv'
  <2>1. exponent' = exponent - p /\ pc' = pc /\ Fraction!Take(p) /\ p \in Int
    BY <1>3, <1>5 DEF Fraction!Scale
  <2>2. exponent' \in Int /\ number.q + p = kept.q - exponent' /\ number.q + p \in Int
    BY <1>2, <2>1
  <2>3. pc = "up" => p >= 0 /\ ~MoreThan(number.c, number.q + p, SigDigits)
    <3> SUFFICES ASSUME pc = "up" PROVE p >= 0 /\ ~MoreThan(number.c, number.q + p, SigDigits)
      OBVIOUS
    <3> DEFINE z == SigDigits - p
    <3>1. z + p = SigDigits /\ z \in Int /\ p >= 0 /\ LessThan(number.c, number.q, z)
      BY <1>3, <1>5, <2>1
    <3> HIDE DEF z
    <3>2. LessThan(number.c, number.q + p, z + p)
      BY <1>2, <2>1, <3>1, OrderShifted
    <3> QED
      BY <1>2, <1>3, <2>2, <3>1, <3>2, OrderOfPowers
  <2>4. pc = "down" => p <= 0 /\ ~LessThan(number.c, number.q + p, SigDigits - 1)
    <3> SUFFICES ASSUME pc = "down" PROVE p <= 0 /\ ~LessThan(number.c, number.q + p, SigDigits - 1)
      OBVIOUS
    <3> DEFINE z == SigDigits - 1 - p
    <3>1. z + p = SigDigits - 1 /\ z \in Int /\ p <= 0 /\ MoreThan(number.c, number.q, z)
      BY <1>3, <1>5, <2>1
    <3> HIDE DEF z
    <3>2. MoreThan(number.c, number.q + p, z + p)
      BY <1>2, <2>1, <3>1, OrderShifted
    <3> DEFINE w == SigDigits - 1
    <3>3. w \in Int /\ z + p = w
      BY <1>3, <3>1
    <3> HIDE DEF w
    <3>4. ~LessThan(number.c, number.q + p, w)
      BY <1>2, <2>2, <3>2, <3>3, OrderOfPowers
    <3> QED
      BY <3>1, <3>4 DEF w
  <2>5. \/ p >= 0 /\ ~MoreThan(number.c, number.q + p, SigDigits)
        \/ p <= 0 /\ ~LessThan(number.c, number.q + p, SigDigits - 1)
    BY <1>1, <2>3, <2>4
  <2>6. /\ number' \in FloatNumbers
        /\ number' \in [c : Nat, q : Int] /\ Small(2 * number'.c)
        /\ kept' \in [c : Nat \ {0}, q : Int]
        /\ number'.c = kept'.c /\ number'.q = kept'.q - exponent'
        /\ \A m \in 0 .. SigDigits :
             /\ LessThan(number'.c, number'.q, m) => LessThan(number.c, number.q + p, m)
             /\ MoreThan(number'.c, number'.q, m) => MoreThan(number.c, number.q + p, m)
        /\ n_int' = 0 /\ factor' = factor /\ n' = n /\ decimals' = decimals /\ buf' = buf
        /\ left' = left /\ ebuf' = ebuf
    BY <1>1, <1>2, <2>1, <2>2, <2>5, ScaledTaken
  <2>7. IsScaled'
    <3>1. number'.q + 0 = number'.q
      BY <2>6
    <3> QED
      BY <1>1, <2>6, <3>1 DEF IsScaled
  <2>8. (pc = "up" => ~ScaledAbove(SigDigits)') /\ (pc = "down" => ~ScaledBelow(SigDigits - 1)')
    BY <1>3, <2>3, <2>4, <2>6 DEF ScaledAbove, ScaledBelow
  <2>9. FractionTypeOK'
    BY <1>1, <1>2, <2>1, <2>2, <2>6 DEF FractionTypeOK
  <2>10. LoopsInv'
    BY <1>1, <2>1, <2>6, <2>7, <2>8 DEF LoopsInv
  <2> QED
    BY <1>1, <2>1, <2>6, <2>9, <2>10 DEF FractionInv
<1>6. ASSUME NEW label, Fraction!Goto(label),
             \/ /\ pc = "up" /\ label = "multiply"
                /\ ~LessThan(number.c, number.q, SigDigits - Jump)
             \/ /\ pc = "down" /\ label = "divide"
                /\ ~MoreThan(number.c, number.q, SigDigits - 1 + Jump)
      PROVE  FractionInv'
  <2>1. /\ pc' = label /\ kept' = kept /\ number' = number /\ factor' = factor
        /\ exponent' = exponent /\ n_int' = n_int /\ n' = n /\ decimals' = decimals
        /\ buf' = buf /\ left' = left /\ ebuf' = ebuf
    BY <1>6, FractionGoes
  <2>2. factor' = 0 /\ factor' \in 0 .. Jump - 1 /\ -factor' \in 0 .. Jump - 1
    <3>1. factor' = 0 /\ factor' \in 0 .. Jump - 1
      BY <1>1, <1>3, <2>1
    <3>2. factor' \in Int /\ Jump \in Int /\ -Jump < factor' /\ factor' <= 0
      BY <1>3, <3>1
    <3>3. -factor' \in 0 .. Jump - 1
      BY <3>2, Opposites, Zenon
    <3> QED
      BY <3>1, <3>3, Zenon
  <2>3. (pc = "up" => ~ScaledAbove(SigDigits)') /\ (pc = "down" => ~ScaledBelow(SigDigits - 1)')
    BY <1>1, <2>1 DEF ScaledAbove, ScaledBelow
  <2>4. IsScaled'
    BY <1>1, <2>1 DEF IsScaled
  <2>5. LoopsInv'
    BY <1>1, <1>6, <2>1, <2>2, <2>3, <2>4 DEF LoopsInv
  <2>6. FractionTypeOK'
    BY <1>1, <1>6, <2>1 DEF FractionTypeOK
  <2> QED
    BY <1>1, <1>6, <2>1, <2>5, <2>6 DEF FractionInv
<1>7. /\ SigDigits - Jump \in Int /\ SigDigits - 1 + Jump \in Int
      /\ Jump \in -Jump .. Jump /\ -Jump \in -Jump .. Jump /\ Jump >= 0 /\ -Jump <= 0
      /\ SigDigits - 1 - (-Jump) = SigDigits - 1 + Jump
  BY <1>3
<1>8. CASE Fraction!ScaleUp
  <2>1. pc = "up"
    BY <1>8 DEF Fraction!ScaleUp
  <2>2. \/ Fraction!Scale(Jump) /\ LessThan(number.c, number.q, SigDigits - Jump)
        \/ Fraction!Goto("multiply") /\ ~LessThan(number.c, number.q, SigDigits - Jump)
    BY <1>4, <1>7, <1>8 DEF Fraction!ScaleUp
  <2> QED
    BY <1>5, <1>6, <1>7, <2>1, <2>2
<1>9. CASE Fraction!ScaleDown
  <2>1. pc = "down"
    BY <1>9 DEF Fraction!ScaleDown
  <2>2. \/ Fraction!Scale(-Jump) /\ MoreThan(number.c, number.q, SigDigits - 1 + Jump)
        \/ Fraction!Goto("divide") /\ ~MoreThan(number.c, number.q, SigDigits - 1 + Jump)
    BY <1>4, <1>7, <1>9 DEF Fraction!ScaleDown
  <2> QED
    BY <1>5, <1>6, <1>7, <2>1, <2>2
<1> QED
  BY <1>8, <1>9

\* A product that has the digits wanted is rounded.
LEMMA FractionApplies ==
  ASSUME Fraction!FloatTextAssumption, FractionInv, pc \in {"multiply", "divide"},
         Fraction!Apply, factor \in -Jump .. Jump,
         \/ factor >= 0 /\ ~MoreThan(number.c, number.q + factor, SigDigits)
         \/ factor <= 0 /\ ~LessThan(number.c, number.q + factor, SigDigits - 1),
         NEW r, r = Fraction!Times(number, factor),
         ~LessThan(r.c, r.q, SigDigits - 1), ~MoreThan(r.c, r.q, SigDigits)
  PROVE  FractionInv'
<1>1. /\ FractionTypeOK /\ number \in FloatNumbers /\ n_int = 0 /\ number.c = kept.c
      /\ decimals = 0 /\ buf = << >> /\ ebuf = << >> /\ exponent \in Int
      /\ number.q + factor = kept.q - exponent
  BY FractionLoops
<1>2. pc' = "round" /\ exponent' = exponent /\ Fraction!Take(factor)
  BY DEF Fraction!Apply
<1>3. /\ number' = r /\ number' \in [c : Nat, q : Int] /\ Small(2 * number'.c)
      /\ kept' \in [c : Nat \ {0}, q : Int]
      /\ number'.c = kept'.c /\ number'.q = kept'.q - exponent'
      /\ n_int' = 0 /\ factor' = factor /\ n' = n /\ decimals' = decimals /\ buf' = buf
      /\ left' = left /\ ebuf' = ebuf
  <2>1. exponent' \in Int /\ number.q + factor = kept.q - exponent'
    BY <1>1, <1>2
  <2> QED
    BY <1>1, <1>2, <2>1, ScaledTaken
<1>4. Fraction!Nearest(number)' = Fraction!Nearest(number')
  BY DEF Fraction!Nearest, Fraction!Whole, Fraction!PowerOfTen, Fraction!Min, Fraction!TenTo
<1>5. RoundInv'
  <2> DEFINE m == Fraction!Nearest(number')
  <2>1. m \in Nat /\ IsNearest(number'.c, number'.q, m)
    BY <1>3, NearestIsNearest
  <2> HIDE DEF m
  <2>2. m + n_int' = m
    BY <1>3, <2>1
  <2>3. ~ScaledBelow(SigDigits - 1)' /\ ~ScaledAbove(SigDigits)'
    BY <1>3 DEF ScaledBelow, ScaledAbove
  <2> QED
    BY <1>3, <1>4, <2>1, <2>2, <2>3 DEF RoundInv, m
<1>6. FractionTypeOK'
  BY <1>1, <1>2, <1>3 DEF FractionTypeOK
<1>7. LoopsInv'
  BY <1>2 DEF LoopsInv
<1> QED
  BY <1>1, <1>2, <1>3, <1>5, <1>6, <1>7 DEF FractionInv

\* Another turn of the loops of the factor and of the divisor.
LEMMA FractionCounts ==
  ASSUME Fraction!FloatTextAssumption, FractionInv, pc \in {"multiply", "divide"},
         NEW p \in Int, Fraction!Count(p), n_int' = n_int,
         \/ /\ pc = "multiply" /\ factor + p \in 0 .. Jump - 1
            /\ ~MoreThan(number.c, number.q + factor + p, SigDigits)
         \/ /\ pc = "divide" /\ -(factor + p) \in 0 .. Jump - 1
            /\ ~LessThan(number.c, number.q + factor + p, SigDigits - 1)
  PROVE  FractionInv'
<1>1. /\ FractionTypeOK /\ number \in FloatNumbers /\ n_int = 0 /\ number.c = kept.c
      /\ decimals = 0 /\ buf = << >> /\ ebuf = << >>
      /\ exponent \in Int /\ factor \in Int /\ number.q \in Int /\ kept.q \in Int
      /\ kept.q - exponent = number.q + factor
  BY FractionLoops
<1>2. /\ factor' = factor + p /\ exponent' = exponent - p /\ pc' = pc /\ number' = number
      /\ kept' = kept /\ n' = n /\ decimals' = decimals /\ buf' = buf
      /\ left' = left /\ ebuf' = ebuf
  BY DEF Fraction!Count, Fraction!figures, Fraction!powers
<1>3. /\ factor + p \in Int /\ exponent - p \in Int
      /\ number.q + (factor + p) = kept.q - (exponent - p)
      /\ kept.q - (exponent - p) = number.q + factor + p
  <2> DEFINE q == number.q
             r == kept.q
  <2>1. q \in Int /\ r \in Int /\ exponent \in Int /\ factor \in Int /\ r - exponent = q + factor
    BY <1>1
  <2> HIDE DEF q, r
  <2>2. q + (factor + p) = r - (exponent - p) /\ r - (exponent - p) = q + factor + p
    BY <2>1
  <2> QED
    BY <1>1, <2>2 DEF q, r
<1>4. IsScaled'
  BY <1>1, <1>2, <1>3 DEF IsScaled
<1>5. /\ pc = "multiply" => ~ScaledAbove(SigDigits)'
      /\ pc = "divide" => ~ScaledBelow(SigDigits - 1)'
  BY <1>1, <1>2, <1>3 DEF ScaledAbove, ScaledBelow
<1>6. /\ pc = "multiply" => ~LessThan(number.c, number.q, SigDigits - Jump)
      /\ pc = "divide" => ~MoreThan(number.c, number.q, SigDigits - 1 + Jump)
  BY DEF FractionInv, LoopsInv
<1>7. LoopsInv'
  BY <1>1, <1>2, <1>4, <1>5, <1>6 DEF LoopsInv
<1>8. FractionTypeOK'
  BY <1>1, <1>2, <1>3 DEF FractionTypeOK
<1> QED
  BY <1>1, <1>2, <1>7, <1>8 DEF FractionInv

LEMMA FractionMultiplies ==
  ASSUME Fraction!FloatTextAssumption, FractionInv, Fraction!Multiply
  PROVE  FractionInv'
<1> DEFINE c == number.c
           q == number.q
           r == Fraction!Times(number, factor)
<1>1. /\ pc = "multiply" /\ factor \in 0 .. Jump - 1 /\ number \in FloatNumbers
      /\ ~LessThan(c, q, SigDigits - Jump)
  BY DEF FractionInv, LoopsInv, Fraction!Multiply
<1>2. /\ SigDigits \in Nat \ {0} /\ Jump \in Nat
      /\ SigDigits - 1 \in 0 .. SigDigits /\ SigDigits \in 0 .. SigDigits
  BY DigitsCounted
<1>3. c \in Nat \ {0} /\ q \in Int /\ factor \in Int /\ q + factor \in Int /\ c \in Nat
  BY <1>1, <1>2, MachineNumber
<1>4. ~MoreThan(c, q + factor, SigDigits)
  <2>1. ~ScaledAbove(SigDigits)
    BY <1>1 DEF FractionInv, LoopsInv
  <2> QED
    BY <1>1, <1>2, <2>1, FractionLoops
<1>5. factor \in -Jump .. Jump /\ factor >= 0
  BY <1>1, <1>2
<1>6. /\ r \in FloatNumbers
      /\ LessThan(r.c, r.q, SigDigits - 1) => LessThan(c, q + factor, SigDigits - 1)
      /\ MoreThan(r.c, r.q, SigDigits) => MoreThan(c, q + factor, SigDigits)
  BY <1>1, <1>2, <1>4, <1>5, Product
<1>7. Fraction!Below(r, SigDigits - 1) <=> LessThan(r.c, r.q, SigDigits - 1)
  <2>1. Small(r.c) /\ r.q \in Int /\ SigDigits - 1 \in Int
    BY <1>2, <1>6, MachineNumber
  <2> HIDE DEF r
  <2> QED
    BY <2>1, Comparisons
<1>8. CASE Fraction!Below(r, SigDigits - 1)
  <2>1. Fraction!Count(1) /\ n_int' = n_int
    BY <1>8 DEF Fraction!Multiply
  <2> DEFINE z == SigDigits - 1
             one == 1
  <2>2. z \in Int /\ z + one = SigDigits /\ one \in Int
    BY <1>2
  <2>3. LessThan(c, q + factor, z)
    BY <1>6, <1>7, <1>8
  <2> HIDE DEF c, q, r
  <2>4. ~MoreThan(c, q + factor + 1, SigDigits)
    <3> HIDE DEF z, one
    <3>1. LessThan(c, (q + factor) + one, z + one)
      BY <1>3, <2>2, <2>3, OrderShifted
    <3>2. (q + factor) + one \in Int /\ SigDigits \in Int
      BY <1>2, <1>3, <2>2
    <3>3. ~MoreThan(c, (q + factor) + one, SigDigits)
      BY <1>3, <2>2, <3>1, <3>2, OrderOfPowers
    <3> QED
      BY <3>3 DEF one
  <2>5. factor # Jump - 1
    <3> SUFFICES ASSUME factor = Jump - 1 PROVE FALSE
      OBVIOUS
    <3> DEFINE y == SigDigits - Jump
    <3>1. y \in Int /\ y + factor = z
      BY <1>2, <1>3
    <3> HIDE DEF y, z
    <3>2. LessThan(c, q, y)
      BY <1>3, <2>3, <3>1, OrderShifted
    <3> QED
      BY <1>1, <3>2 DEF y, c, q
  <2>6. factor + 1 \in 0 .. Jump - 1
    BY <1>1, <1>2, <2>5
  <2> QED
    BY <1>1, <2>1, <2>4, <2>6, FractionCounts DEF c, q
<1>9. CASE ~Fraction!Below(r, SigDigits - 1)
  <2>1. Fraction!Apply
    BY <1>9 DEF Fraction!Multiply
  <2>2. ~LessThan(r.c, r.q, SigDigits - 1) /\ ~MoreThan(r.c, r.q, SigDigits)
    BY <1>4, <1>6, <1>7, <1>9
  <2> HIDE DEF r
  <2> QED
    BY <1>1, <1>4, <1>5, <2>1, <2>2, FractionApplies DEF r
<1> QED
  BY <1>8, <1>9

LEMMA FractionDivides ==
  ASSUME Fraction!FloatTextAssumption, FractionInv, Fraction!Divide
  PROVE  FractionInv'
<1> DEFINE c == number.c
           q == number.q
           r == Fraction!Times(number, factor)
<1>1. /\ pc = "divide" /\ -factor \in 0 .. Jump - 1 /\ number \in FloatNumbers
      /\ ~MoreThan(c, q, SigDigits - 1 + Jump)
  BY DEF FractionInv, LoopsInv, Fraction!Divide
<1>2. /\ SigDigits \in Nat \ {0} /\ Jump \in Nat
      /\ SigDigits - 1 \in 0 .. SigDigits /\ SigDigits \in 0 .. SigDigits
  BY DigitsCounted
<1>3. c \in Nat \ {0} /\ q \in Int /\ factor \in Int /\ q + factor \in Int /\ c \in Nat
  BY <1>1, <1>2, MachineNumber, FractionLoops
<1>4. ~LessThan(c, q + factor, SigDigits - 1)
  <2>1. ~ScaledBelow(SigDigits - 1)
    BY <1>1 DEF FractionInv, LoopsInv
  <2> QED
    BY <1>1, <1>2, <2>1, FractionLoops
<1>5. factor \in -Jump .. Jump /\ factor <= 0
  BY <1>1, <1>2, <1>3
<1>6. /\ r \in FloatNumbers
      /\ LessThan(r.c, r.q, SigDigits - 1) => LessThan(c, q + factor, SigDigits - 1)
      /\ MoreThan(r.c, r.q, SigDigits) => MoreThan(c, q + factor, SigDigits)
  BY <1>1, <1>2, <1>4, <1>5, Product
<1>7. Fraction!Above(r, SigDigits) <=> MoreThan(r.c, r.q, SigDigits)
  <2>1. Small(r.c) /\ r.q \in Int /\ SigDigits \in Int
    BY <1>2, <1>6, MachineNumber
  <2> HIDE DEF r
  <2> QED
    BY <2>1, Comparisons
<1>8. CASE Fraction!Above(r, SigDigits)
  <2>1. Fraction!Count(-1) /\ n_int' = n_int
    BY <1>8 DEF Fraction!Divide
  <2> DEFINE z == SigDigits - 1
             one == -1
  <2>2. z \in Int /\ SigDigits + one = z /\ one \in Int /\ SigDigits \in Int
    BY <1>2
  <2>3. MoreThan(c, q + factor, SigDigits)
    BY <1>6, <1>7, <1>8
  <2> HIDE DEF c, q, r
  <2>4. ~LessThan(c, q + factor + (-1), SigDigits - 1)
    <3> HIDE DEF z, one
    <3>1. MoreThan(c, (q + factor) + one, z)
      BY <1>3, <2>2, <2>3, OrderShifted
    <3>2. (q + factor) + one \in Int
      BY <1>2, <1>3, <2>2
    <3>3. ~LessThan(c, (q + factor) + one, z)
      BY <1>3, <2>2, <3>1, <3>2, OrderOfPowers
    <3> QED
      BY <3>3 DEF one, z
  <2>5. -factor # Jump - 1
    <3> SUFFICES ASSUME -factor = Jump - 1 PROVE FALSE
      OBVIOUS
    <3> DEFINE y == SigDigits - 1 + Jump
    <3>1. y \in Int /\ y + factor = SigDigits
      BY <1>2, <1>3
    <3> HIDE DEF y
    <3>2. MoreThan(c, q, y)
      BY <1>2, <1>3, <2>3, <3>1, OrderShifted
    <3> QED
      BY <1>1, <3>2 DEF y, c, q
  <2>6. -(factor + (-1)) \in 0 .. Jump - 1 /\ -1 \in Int
    BY <1>1, <1>2, <1>3, <2>5
  <2> QED
    BY <1>1, <2>1, <2>4, <2>6, FractionCounts DEF c, q
<1>9. CASE ~Fraction!Above(r, SigDigits)
  <2>1. Fraction!Apply
    BY <1>9 DEF Fraction!Divide
  <2>2. ~LessThan(r.c, r.q, SigDigits - 1) /\ ~MoreThan(r.c, r.q, SigDigits)
    BY <1>4, <1>6, <1>7, <1>9
  <2> HIDE DEF r
  <2> QED
    BY <1>1, <1>4, <1>5, <2>1, <2>2, FractionApplies DEF r
<1> QED
  BY <1>8, <1>9

-----------------------------------------------------------------------------
(* Products with powers of ten.                                             *)

LEMMA Cancelled ==
  ASSUME NEW a \in Nat, NEW b \in Nat, NEW d \in Nat \ {0}
  PROVE  /\ a * d < b * d <=> a < b
         /\ a * d <= b * d <=> a <= b
         /\ a * d \in Nat
         /\ a # 0 => d <= a * d
OBVIOUS

\* What an integer is compared with, when it is scaled.
LEMMA WholeCompared ==
  ASSUME NEW c \in Nat \ {0}, NEW q \in Nat, NEW p \in Nat
  PROVE  c * TenTo[q] < TenTo[p] <=> LessThan(c, q, p)
<1> DEFINE X == TenTo[q]
           Y == TenTo[p]
<1>1. X \in Nat \ {0} /\ Y \in Nat \ {0} /\ (X <= Y <=> q <= p) /\ (Y <= X <=> p <= q)
  BY TenToMonotone
<1>2. X <= c * X /\ c * X \in Nat
  <2> HIDE DEF X
  <2> QED
    BY <1>1, Cancelled
<1>3. CASE q < p
  <2> DEFINE d == p - q
             Z == TenTo[d]
  <2>1. d \in Nat /\ p = d + q
    BY <1>3
  <2> HIDE DEF d
  <2>2. Y = Z * X /\ Z \in Nat \ {0}
    BY <2>1, TenToSum, TenToGrows
  <2> HIDE DEF X, Y, Z
  <2>3. c * X < Z * X <=> c < Z
    BY <1>1, <2>2, Cancelled
  <2> QED
    BY <1>3, <2>2, <2>3 DEF LessThan, X, Y, Z, d
<1>4. CASE ~(q < p)
  <2>1. Y <= X
    BY <1>1, <1>4
  <2> HIDE DEF X, Y
  <2>2. ~(c * X < Y)
    BY <1>1, <1>2, <2>1
  <2> QED
    BY <1>4, <2>2 DEF LessThan, X, Y
<1> QED
  BY <1>3, <1>4

\* The same of the integer part of c * 10^-q, which is not 0, scaled by 10^e.
LEMMA PartCompared ==
  ASSUME NEW c \in Nat \ {0}, NEW q \in Nat \ {0}, NEW e \in Nat, NEW p \in Nat, TenTo[q] <= c
  PROVE  (c \div TenTo[q]) * TenTo[e] < TenTo[p] <=> LessThan(c, e - q, p)
<1> DEFINE D == TenTo[q]
           E == TenTo[e]
           P == TenTo[p]
           f == c \div D
           g == c % D
<1>1. D \in Nat \ {0} /\ E \in Nat \ {0} /\ P \in Nat \ {0} /\ (P <= E <=> p <= e)
  BY TenToMonotone
<1>2. f \in Nat /\ g \in Nat /\ g < D /\ c = D * f + g
  <2> HIDE DEF D
  <2> QED
    BY <1>1, QuotientOf
<1> HIDE DEF f, g
<1>3. f # 0
  <2>1. f = 0 => c < D
    BY <1>1, <1>2
  <2>2. D <= c
    OBVIOUS
  <2> QED
    BY <1>1, <2>1, <2>2
<1>4. E <= f * E
  <2> HIDE DEF E
  <2> QED
    BY <1>1, <1>2, <1>3, Cancelled
<1>5. e - q \in Int /\ p - (e - q) = (p - e) + q
  OBVIOUS
<1>6. CASE e <= p
  <2> DEFINE d == p - e
             Z == TenTo[d]
             W == TenTo[d + q]
  <2>1. d \in Nat /\ p = d + e /\ e - q < p
    BY <1>6
  <2> HIDE DEF d
  <2>2. P = Z * E /\ Z \in Nat \ {0} /\ W = Z * D
    BY <2>1, TenToSum, TenToGrows
  <2>3. f * E < P <=> f < Z
    <3> HIDE DEF E, P, Z
    <3> QED
      BY <1>1, <1>2, <2>2, Cancelled
  <2>4. f < Z <=> c < W
    <3> HIDE DEF D, Z, W
    <3>1. ASSUME f < Z PROVE c < W
      <4>1. (f + 1) * D <= Z * D
        <5>1. f + 1 \in Nat /\ f + 1 <= Z
          BY <1>2, <2>2, <3>1
        <5> QED
          BY <1>1, <2>2, <5>1, Cancelled
      <4>2. (f + 1) * D = D * f + D /\ Z * D \in Nat
        BY <1>1, <1>2, <2>2
      <4>3. D * f \in Nat
        BY <1>1, <1>2
      <4> DEFINE t == D * f
      <4> HIDE DEF t
      <4> QED
        BY <1>1, <1>2, <2>2, <4>1, <4>2, <4>3 DEF t
    <3>2. ASSUME ~(f < Z) PROVE ~(c < W)
      <4>1. Z * D <= f * D
        BY <1>1, <1>2, <2>2, <3>2, Cancelled
      <4>2. f * D = D * f /\ D * f \in Nat /\ Z * D \in Nat
        BY <1>1, <1>2, <2>2
      <4> QED
        BY <1>2, <2>2, <4>1, <4>2
    <3> QED
      BY <3>1, <3>2
  <2>5. W = TenTo[p - (e - q)]
    BY <1>5 DEF d
  <2> QED
    BY <2>1, <2>3, <2>4, <2>5 DEF LessThan, f
<1>7. CASE ~(e <= p)
  <2>1. ~(f * E < P)
    <3>1. P <= E
      BY <1>1, <1>7
    <3> HIDE DEF E, P
    <3>2. f * E \in Nat
      BY <1>1, <1>2
    <3> QED
      BY <1>1, <1>4, <3>1, <3>2
  <2>2. ASSUME LessThan(c, e - q, p) PROVE FALSE
    <3> DEFINE d == (p - e) + q
    <3>1. d \in Nat /\ d <= q /\ c < TenTo[d]
      BY <1>5, <1>7, <2>2 DEF LessThan
    <3> HIDE DEF d
    <3>2. TenTo[d] <= TenTo[q] /\ TenTo[d] \in Nat
      BY <3>1, TenToMonotone
    <3> QED
      BY <1>1, <3>1, <3>2
  <2> QED
    BY <2>1, <2>2 DEF f
<1> QED
  BY <1>6, <1>7

\* n_int has fewer than p digits exactly when the number, scaled, has.
LEMMA SplitCompared ==
  ASSUME FractionTypeOK, IsSplit, ~LessThan(kept.c, kept.q, 0), NEW p \in Nat
  PROVE  n_int < TenTo[p] <=> ScaledBelow(p)
<1>1. /\ kept.c \in Nat \ {0} /\ kept.q \in Int /\ factor \in Nat /\ exponent = -factor
      /\ kept.q - exponent = kept.q + factor
  BY DEF FractionTypeOK, IsSplit
<1>2. CASE kept.q < 0
  <2> DEFINE q == -kept.q
             e == factor
             c == kept.c
  <2>1. q \in Nat \ {0} /\ e \in Nat /\ c \in Nat \ {0} /\ 0 - kept.q = q
    BY <1>1, <1>2
  <2>2. n_int = (c \div TenTo[q]) * TenTo[e]
    BY <1>2 DEF IsSplit
  <2>3. ~(c < TenTo[q])
    BY <1>2, <2>1 DEF LessThan
  <2>4. e - q = kept.q - exponent
    BY <1>1
  <2> HIDE DEF q, e, c
  <2>5. TenTo[q] <= c
    BY <2>1, <2>3, TenToGrows
  <2>6. n_int < TenTo[p] <=> LessThan(c, e - q, p)
    BY <2>1, <2>2, <2>5, PartCompared
  <2> QED
    BY <2>4, <2>6 DEF ScaledBelow, c
<1>3. CASE ~(kept.q < 0)
  <2> DEFINE r == kept.q + factor
  <2>1. r \in Nat /\ n_int = kept.c * TenTo[r] /\ kept.q - exponent = r
    BY <1>1, <1>3 DEF IsSplit
  <2> HIDE DEF r
  <2>2. n_int < TenTo[p] <=> LessThan(kept.c, r, p)
    BY <1>1, <2>1, WholeCompared
  <2> QED
    BY <2>1, <2>2 DEF ScaledBelow
<1> QED
  BY <1>2, <1>3

-----------------------------------------------------------------------------
(* Rounding.                                                                *)

LEMMA NearestBounds ==
  ASSUME NEW c \in Nat \ {0}, NEW q \in Int, NEW m \in Nat, IsNearest(c, q, m), NEW p \in Nat
  PROVE  /\ ~LessThan(c, q, p) => TenTo[p] <= m
         /\ ~MoreThan(c, q, p) => m <= TenTo[p]
<1>1. CASE q < 0
  <2> DEFINE d == -q
             D == TenTo[d]
             P == TenTo[p]
  <2>1. d \in Nat \ {0} /\ p - q = p + d /\ q < p
    BY <1>1
  <2>2. Within(m * D, c, D)
    BY <1>1 DEF IsNearest
  <2> HIDE DEF d
  <2>3. D \in Nat \ {0} /\ P \in Nat \ {0} /\ TenTo[p + d] = P * D
    BY <2>1, TenToGrows, TenToSum
  <2> DEFINE x == m * D
             y == P * D
  <2>4. x \in Nat /\ y \in Nat
    BY <2>3
  <2>5. ASSUME m < P PROVE x + D <= y
    <3>1. (m + 1) * D <= P * D
      <4>1. m + 1 \in Nat /\ m + 1 <= P
        BY <2>3, <2>5
      <4> HIDE DEF D, P
      <4> QED
        BY <2>3, <4>1, Cancelled
    <3>2. (m + 1) * D = m * D + D
      <4> HIDE DEF D, P
      <4> QED
        BY <2>3
    <3> QED
      BY <3>1, <3>2
  <2>6. ASSUME P < m PROVE y + D <= x
    <3>1. (P + 1) * D <= m * D
      <4>1. P + 1 \in Nat /\ P + 1 <= m
        BY <2>3, <2>6
      <4> HIDE DEF D, P
      <4> QED
        BY <2>3, <4>1, Cancelled
    <3>2. (P + 1) * D = P * D + D
      <4> HIDE DEF D, P
      <4> QED
        BY <2>3
    <3> QED
      BY <3>1, <3>2
  <2>7. /\ LessThan(c, q, p) <=> c < y
        /\ MoreThan(c, q, p) <=> c > y
    BY <2>1, <2>3 DEF LessThan, MoreThan
  <2>8. Within(x, c, D)
    BY <2>2
  <2> HIDE DEF x, y, D, P
  <2>9. /\ ~(c < y) => P <= m
        /\ ~(c > y) => m <= P
    BY <2>3, <2>4, <2>5, <2>6, <2>8 DEF Within
  <2> QED
    BY <2>7, <2>9 DEF P
<1>2. CASE ~(q < 0)
  <2>1. q \in Nat /\ m = c * TenTo[q]
    BY <1>2 DEF IsNearest
  <2>2. TenTo[p] \in Nat \ {0} /\ (m < TenTo[p] <=> LessThan(c, q, p))
    BY <2>1, WholeCompared, TenToGrows
  <2>3. ASSUME ~MoreThan(c, q, p) PROVE m <= TenTo[p]
    <3>1. CASE q < p
      <4> DEFINE d == p - q
                 X == TenTo[q]
                 Z == TenTo[d]
      <4>1. d \in Nat /\ p = d + q /\ ~(c > Z)
        BY <2>1, <2>3, <3>1 DEF MoreThan
      <4> HIDE DEF d
      <4>2. TenTo[p] = Z * X /\ Z \in Nat \ {0} /\ X \in Nat \ {0} /\ c <= Z
        BY <2>1, <4>1, TenToSum, TenToGrows
      <4>3. c * X <= Z * X
        <5> HIDE DEF X, Z
        <5> QED
          BY <4>2, Cancelled
      <4> QED
        BY <2>1, <4>2, <4>3
    <3>2. CASE ~(q < p)
      <4>1. q = p /\ c = 1
        BY <2>1, <2>3, <3>2 DEF MoreThan
      <4> QED
        BY <2>1, <2>2, <4>1
    <3> QED
      BY <3>1, <3>2
  <2> QED
    BY <2>1, <2>2, <2>3
<1> QED
  BY <1>1, <1>2

\* The integer part and the nearest integer of the rest make the nearest integer.
LEMMA PartsNearest ==
  ASSUME NEW c \in Nat \ {0}, NEW q \in Nat \ {0}, NEW e \in Nat, NEW m \in Nat,
         IsNearest(c % TenTo[q], e - q, m)
  PROVE  IsNearest(c, e - q, m + (c \div TenTo[q]) * TenTo[e])
<1> DEFINE D == TenTo[q]
           E == TenTo[e]
           f == c \div D
           g == c % D
<1>1. D \in Nat \ {0} /\ E \in Nat \ {0}
  BY TenToGrows
<1>2. f \in Nat /\ g \in Nat /\ c = D * f + g
  <2> HIDE DEF D
  <2> QED
    BY <1>1, QuotientOf
<1> HIDE DEF f, g
<1>3. IsNearest(g, e - q, m)
  BY DEF g
<1>4. CASE e - q < 0
  <2> DEFINE d == q - e
             Z == TenTo[d]
  <2>1. d \in Nat /\ d = -(e - q) /\ e + d = q
    BY <1>4
  <2> HIDE DEF d
  <2>2. Within(m * Z, g, Z)
    BY <1>3, <1>4, <2>1 DEF IsNearest
  <2>3. D = E * Z /\ Z \in Nat \ {0}
    BY <2>1, TenToSum, TenToGrows
  <2>4. (m + f * E) * Z = m * Z + D * f
    <3> HIDE DEF D, E, Z
    <3>1. (m + f * E) * Z = m * Z + (f * E) * Z
      BY <1>1, <1>2, <2>3
    <3>2. (f * E) * Z = (E * Z) * f
      BY <1>1, <1>2, <2>3
    <3> QED
      BY <2>3, <3>1, <3>2
  <2> DEFINE x == m * Z
             y == D * f
  <2>5. x \in Nat /\ y \in Nat
    BY <1>1, <1>2, <2>3
  <2>6. Within(x + y, y + g, Z)
    <3> HIDE DEF x, y, Z
    <3>1. Within(x, g, Z)
      BY <2>2 DEF x
    <3> QED
      BY <1>2, <2>3, <2>5, <3>1 DEF Within
  <2>7. Within((m + f * E) * Z, c, Z)
    BY <1>2, <2>4, <2>6
  <2> QED
    BY <1>4, <2>1, <2>7 DEF IsNearest, f
<1>5. CASE ~(e - q < 0)
  <2> DEFINE d == e - q
             Z == TenTo[d]
  <2>1. d \in Nat /\ d + q = e
    BY <1>5
  <2>2. m = g * Z
    BY <1>3, <1>5 DEF IsNearest
  <2> HIDE DEF d
  <2>3. E = Z * D /\ Z \in Nat \ {0}
    BY <2>1, TenToSum, TenToGrows
  <2>4. m + f * E = c * Z
    <3> HIDE DEF D, E, Z
    <3>1. f * (Z * D) = (D * f) * Z
      BY <1>1, <1>2, <2>3
    <3>2. (D * f + g) * Z = (D * f) * Z + g * Z
      BY <1>1, <1>2, <2>3
    <3> QED
      BY <1>2, <2>2, <2>3, <3>1, <3>2
  <2> QED
    BY <1>5, <2>4 DEF IsNearest, f, d
<1> QED
  BY <1>4, <1>5

\* The integer part and the nearest integer of the rest, as they are when nothing
\* had to be rounded.
LEMMA SplitIsNearest ==
  ASSUME Fraction!FloatTextAssumption, FractionTypeOK, IsSplit,
         NEW x \in [c : Nat, q : Int], x.c = number.c, x.q = number.q + factor
  PROVE  /\ Fraction!Nearest(x) + n_int \in Nat
         /\ IsNearest(kept.c, kept.q - exponent, Fraction!Nearest(x) + n_int)
<1> DEFINE m == Fraction!Nearest(x)
<1>1. /\ kept.c \in Nat \ {0} /\ kept.q \in Int /\ factor \in Nat /\ exponent = -factor
      /\ n_int \in Nat /\ Small(2 * x.c)
  BY DEF FractionTypeOK, IsSplit
<1>2. m \in Nat /\ IsNearest(x.c, x.q, m)
  BY <1>1, NearestIsNearest
<1> HIDE DEF m
<1>3. kept.q - exponent = kept.q + factor
  BY <1>1
<1>4. CASE kept.q < 0
  <2> DEFINE q == -kept.q
             e == factor
  <2>1. q \in Nat \ {0} /\ e \in Nat /\ e - q = kept.q + factor
    BY <1>1, <1>4
  <2>2. /\ n_int = (kept.c \div TenTo[q]) * TenTo[e]
        /\ x.c = kept.c % TenTo[q] /\ x.q = kept.q + factor
    BY <1>4 DEF IsSplit
  <2> HIDE DEF q, e
  <2>3. IsNearest(kept.c % TenTo[q], e - q, m)
    BY <1>2, <2>1, <2>2
  <2>4. IsNearest(kept.c, e - q, m + n_int)
    BY <1>1, <1>2, <2>1, <2>2, <2>3, PartsNearest
  <2> QED
    BY <1>1, <1>2, <1>3, <2>1, <2>4 DEF m
<1>5. CASE ~(kept.q < 0)
  <2>1. /\ n_int = kept.c * TenTo[kept.q + factor] /\ x.c = 0 /\ x.q \in Nat
        /\ ~(kept.q + factor < 0)
    BY <1>1, <1>5 DEF IsSplit
  <2>2. m = 0
    <3>1. m = 0 * TenTo[x.q] /\ TenTo[x.q] \in Nat
      BY <1>2, <2>1, TenToGrows DEF IsNearest
    <3> QED
      BY <3>1
  <2>3. m + n_int = n_int
    BY <1>1, <2>2
  <2> QED
    BY <1>1, <1>3, <2>1, <2>3 DEF IsNearest, m
<1> QED
  BY <1>4, <1>5

\* There is room for the rest between the integer part and the power of ten.
LEMMA PartBelow ==
  ASSUME NEW c \in Nat \ {0}, NEW q \in Nat \ {0}, NEW e \in Nat, NEW p \in Nat, e <= p,
         c % TenTo[q] # 0, ~MoreThan(c, e - q, p)
  PROVE  (c \div TenTo[q]) * TenTo[e] + TenTo[e] <= TenTo[p]
<1> DEFINE D == TenTo[q]
           E == TenTo[e]
           d == p - e
           G == TenTo[d]
           f == c \div D
           g == c % D
<1>1. d \in Nat /\ p = d + e /\ e - q < p /\ p - (e - q) = d + q
  OBVIOUS
<1>2. c <= TenTo[d + q]
  <2>1. ~(c > TenTo[p - (e - q)])
    BY <1>1 DEF MoreThan
  <2>2. d + q \in Nat
    BY <1>1
  <2> DEFINE y == d + q
  <2>3. y \in Nat /\ ~(c > TenTo[y])
    BY <1>1, <2>1, <2>2
  <2> HIDE DEF y
  <2>4. c <= TenTo[y]
    BY <2>3, TenToGrows
  <2> QED
    BY <2>4 DEF y
<1> HIDE DEF d
<1>3. /\ D \in Nat \ {0} /\ E \in Nat \ {0} /\ G \in Nat \ {0}
      /\ TenTo[d + q] = G * D /\ TenTo[p] = G * E
  BY <1>1, TenToGrows, TenToSum
<1>4. f \in Nat /\ g \in Nat /\ g # 0 /\ c = D * f + g
  <2>1. g # 0
    OBVIOUS
  <2> HIDE DEF D
  <2> QED
    BY <1>3, <2>1, QuotientOf
<1> HIDE DEF D, E, G, f, g
<1>5. f < G
  <2>1. f * D = D * f /\ D * f \in Nat /\ G * D \in Nat
    BY <1>3, <1>4
  <2> DEFINE x == D * f
             y == G * D
  <2>2. x \in Nat /\ y \in Nat /\ c <= y /\ c = x + g
    BY <1>2, <1>3, <1>4, <2>1
  <2> HIDE DEF x, y
  <2>3. x < y
    BY <1>4, <2>2
  <2> QED
    BY <1>3, <1>4, <2>1, <2>3, Cancelled DEF x, y
<1>6. (f + 1) * E <= G * E
  <2>1. f + 1 \in Nat /\ f + 1 <= G
    BY <1>3, <1>4, <1>5
  <2> QED
    BY <1>3, <2>1, Cancelled
<1>7. (f + 1) * E = f * E + E
  BY <1>3, <1>4
<1>8. f * E + E <= TenTo[p]
  BY <1>3, <1>6, <1>7
<1> QED
  BY <1>8 DEF f, E, D

\* An integer and c * 10^q, as one number.
LEMMA SumStands ==
  ASSUME NEW whole \in Nat \ {0}, NEW c \in Nat \ {0}, NEW q \in Int, NEW e \in Nat,
         NEW p \in Nat, NEW s \in Nat, TenTo[s] <= whole, whole + TenTo[e] <= TenTo[p],
         ~MoreThan(c, q, e), NEW m \in Nat, IsNearest(c, q, m),
         NEW least \in Int, least = IF q <= 0 THEN q ELSE 0
  PROVE  LET sum == whole * TenTo[-least] + c * TenTo[q - least]
         IN  /\ sum \in Nat \ {0} /\ IsNearest(sum, least, m + whole)
             /\ ~LessThan(sum, least, s) /\ ~MoreThan(sum, least, p)
<1>1. /\ TenTo[0] = 1 /\ TenTo[s] \in Nat /\ TenTo[p] \in Nat \ {0} /\ TenTo[e] \in Nat \ {0}
  BY TenToGrows
<1>2. CASE q < 0
  <2> DEFINE d == -q
             D == TenTo[d]
             P == TenTo[p]
             S == TenTo[s]
             E == TenTo[e]
             w == whole * D
  <2>1. d \in Nat /\ least = q /\ q < e /\ e - q = e + d /\ p - q = p + d /\ s - q = s + d /\ q - q = 0
    BY <1>2
  <2>2. -least = d /\ q - least = 0
    BY <2>1
  <2>3. Within(m * D, c, D)
    BY <1>2 DEF IsNearest
  <2>4. ~(c > TenTo[e + d])
    BY <2>1 DEF MoreThan
  <2>5. /\ LessThan(w + c, q, s) => w + c < TenTo[s + d]
        /\ MoreThan(w + c, q, p) => w + c > TenTo[p + d] \/ ~(q < p)
    BY <2>1 DEF LessThan, MoreThan
  <2> HIDE DEF d
  <2>6. /\ D \in Nat \ {0} /\ TenTo[e + d] = E * D /\ TenTo[p + d] = P * D
        /\ TenTo[s + d] = S * D
    BY <2>1, TenToGrows, TenToSum
  <2> HIDE DEF D, P, S, E
  <2>7. P \in Nat /\ S \in Nat /\ E \in Nat /\ S <= whole /\ whole + E <= P
    BY <1>1 DEF P, S, E
  <2>8. w \in Nat /\ E * D \in Nat /\ P * D \in Nat /\ S * D \in Nat /\ m * D \in Nat
    BY <2>6, <2>7
  <2>9. w + E * D <= P * D
    <3>1. (whole + E) * D <= P * D
      <4>1. whole + E \in Nat
        BY <2>7
      <4> QED
        BY <2>6, <2>7, <4>1, Cancelled
    <3>2. (whole + E) * D = whole * D + E * D
      BY <2>6, <2>7
    <3> QED
      BY <3>1, <3>2
  <2>10. S * D <= w
    BY <2>6, <2>7, Cancelled
  <2>11. (m + whole) * D = m * D + w
    BY <2>6
  <2> DEFINE x == E * D
             y == P * D
             z == S * D
             v == m * D
  <2>12. w + c \in Nat \ {0} /\ w + c <= y /\ z <= w + c /\ Within(v + w, w + c, D)
    <3>1. c <= x
      BY <2>4, <2>6, <2>8
    <3>2. x \in Nat /\ y \in Nat /\ z \in Nat /\ v \in Nat /\ w + x <= y /\ z <= w
          /\ Within(v, c, D)
      BY <2>3, <2>8, <2>9, <2>10
    <3> HIDE DEF x, y, z, v, w
    <3> QED
      BY <2>6, <2>8, <3>1, <3>2 DEF Within
  <2>13. ~LessThan(w + c, q, s) /\ ~MoreThan(w + c, q, p)
    <3>1. q < p
      BY <2>1, <1>2
    <3> QED
      BY <2>5, <2>6, <2>8, <2>12, <3>1
  <2>14. IsNearest(w + c, q, m + whole)
    BY <1>2, <2>11, <2>12 DEF IsNearest, D, d
  <2>15. whole * TenTo[-least] + c * TenTo[q - least] = w + c
    <3>1. TenTo[-least] = D /\ TenTo[q - least] = 1 /\ c * 1 = c
      BY <1>1, <2>2 DEF D
    <3> QED
      BY <3>1
  <2> QED
    BY <2>1, <2>12, <2>13, <2>14, <2>15
<1>3. CASE ~(q < 0)
  <2>1. q \in Nat /\ least = 0 /\ -least = 0 /\ q - least = q
    <3>1. q \in Nat /\ least = 0 /\ q - least = q
      BY <1>3
    <3>2. least \in Int /\ least <= 0 /\ least >= 0
      BY <3>1
    <3>3. -least = 0
      BY <3>2, Opposites, Zenon
    <3> QED
      BY <3>1, <3>3, Zenon
  <2>2. m = c * TenTo[q] /\ m <= TenTo[e]
    BY <1>3, <2>1, NearestBounds DEF IsNearest
  <2> DEFINE sum == whole + m
  <2>3. whole * TenTo[-least] + c * TenTo[q - least] = sum
    BY <1>1, <2>1, <2>2
  <2>4. sum \in Nat \ {0} /\ sum <= TenTo[p] /\ TenTo[s] <= sum
    BY <1>1, <2>2
  <2>5. IsNearest(sum, 0, m + whole)
    <3>1. m + whole = sum * 1
      OBVIOUS
    <3> QED
      BY <1>1, <3>1 DEF IsNearest
  <2>6. ~LessThan(sum, 0, s)
    <3>1. s - 0 = s
      OBVIOUS
    <3> QED
      BY <1>1, <2>4, <3>1 DEF LessThan
  <2>7. ~MoreThan(sum, 0, p)
    <3>1. p - 0 = p
      OBVIOUS
    <3>2. CASE 0 < p
      BY <1>1, <2>4, <3>1, <3>2 DEF MoreThan
    <3>3. CASE p = 0
      BY <1>1, <2>4, <3>3 DEF MoreThan
    <3> QED
      BY <3>2, <3>3
  <2> QED
    BY <2>1, <2>3, <2>4, <2>5, <2>6, <2>7
<1> QED
  BY <1>2, <1>3

\* The product of the fraction is rounded.
LEMMA SplitApplies ==
  ASSUME Fraction!FloatTextAssumption, FractionInv, pc = "split", Fraction!Apply,
         TenTo[SigDigits - 1] <= n_int
  PROVE  FractionInv'
<1> DEFINE s == SigDigits - 1
           y == Fraction!Shifted(number, factor)
<1>1. /\ FractionTypeOK /\ IsSplit /\ decimals = 0 /\ buf = << >> /\ ebuf = << >>
      /\ number \in FloatNumbers \/ number.c = 0
      /\ factor \in 0 .. SigDigits - 1
      /\ ~LessThan(kept.c, kept.q, 0) /\ ~ScaledAbove(SigDigits)
  BY DEF FractionInv, LoopsInv
<1>2. /\ kept \in [c : Nat \ {0}, q : Int] /\ kept.c \in Nat \ {0} /\ kept.q \in Int
      /\ factor \in Nat /\ exponent = -factor /\ exponent \in Int
      /\ number \in [c : Nat, q : Int] /\ n_int \in Nat /\ Small(2 * number.c)
  BY <1>1 DEF FractionTypeOK, IsSplit
<1>3. SigDigits \in Nat \ {0} /\ s \in Nat /\ Jump \in Nat /\ Jump > SigDigits /\ s <= SigDigits
  BY DigitsCounted
<1>4. /\ pc' = "round" /\ exponent' = exponent /\ number' = Fraction!Times(number, factor)
      /\ n_int' = n_int /\ factor' = factor /\ n' = n /\ decimals' = decimals /\ buf' = buf
      /\ left' = left /\ ebuf' = ebuf
      /\ kept' = IF number' = y THEN kept ELSE Fraction!Standing(n_int, number', exponent')
  BY DEF Fraction!Apply, Fraction!Take, Fraction!figures, Fraction!powers
<1>5. y \in [c : Nat, q : Int] /\ y.c = number.c /\ y.q = number.q + factor
  BY <1>2 DEF Fraction!Shifted
<1> HIDE DEF y
<1>6. Fraction!Nearest(number)' = Fraction!Nearest(number')
  BY DEF Fraction!Nearest, Fraction!Whole, Fraction!PowerOfTen, Fraction!Min, Fraction!TenTo
<1>7. TenTo[s] \in Nat \ {0} /\ TenTo[factor] \in Nat \ {0}
  <2> HIDE DEF s
  <2> QED
    BY <1>2, <1>3, TenToGrows
<1>8. CASE number' = y
  <2>1. kept' = kept
    BY <1>4, <1>8
  <2> DEFINE m == Fraction!Nearest(y) + n_int
  <2>2. m \in Nat /\ IsNearest(kept.c, kept.q - exponent, m)
    BY <1>1, <1>5, SplitIsNearest
  <2>3. ~ScaledBelow(s)
    <3>1. n_int < TenTo[s] <=> ScaledBelow(s)
      <4> HIDE DEF s
      <4> QED
        BY <1>1, <1>3, SplitCompared
    <3> QED
      BY <1>2, <1>7, <3>1
  <2>4. ~ScaledBelow(s)' /\ ~ScaledAbove(SigDigits)'
    BY <1>1, <1>4, <2>1, <2>3 DEF ScaledBelow, ScaledAbove
  <2>5. RoundInv'
    <3> HIDE DEF m
    <3>1. (Fraction!Nearest(number) + n_int)' = m
      BY <1>4, <1>6, <1>8 DEF m
    <3> QED
      BY <1>4, <2>1, <2>2, <2>4, <3>1 DEF RoundInv
  <2>6. number' \in [c : Nat, q : Int] /\ Small(2 * number'.c)
    BY <1>2, <1>5, <1>8
  <2>7. FractionTypeOK'
    BY <1>1, <1>4, <2>1, <2>6 DEF FractionTypeOK
  <2>8. LoopsInv'
    BY <1>4 DEF LoopsInv
  <2> QED
    BY <1>1, <1>4, <2>5, <2>7, <2>8 DEF FractionInv
<1>9. CASE number' # y
  <2> DEFINE r == Fraction!Times(number, factor)
             least == Fraction!Min({r.q, 0})
  <2>1. number.c # 0 /\ number \in FloatNumbers
    <3>1. number.c # 0
      BY <1>4, <1>9 DEF Fraction!Times, y
    <3> QED
      BY <1>1, <3>1
  <2>2. number.c \in Nat \ {0} /\ number.q \in Int
    BY <2>1, MachineNumber
  <2>3. /\ kept.q < 0 /\ number = [c |-> kept.c % TenTo[-kept.q], q |-> kept.q]
        /\ n_int = (kept.c \div TenTo[-kept.q]) * TenTo[factor]
    BY <1>1, <2>1 DEF IsSplit
  <2>4. LessThan(number.c, number.q, 0)
    <3> DEFINE d == -kept.q
    <3>1. d \in Nat /\ 0 - kept.q = d
      BY <1>2, <2>3
    <3>2. number.c = kept.c % TenTo[d] /\ number.q = kept.q
      BY <2>3
    <3> HIDE DEF d
    <3>3. TenTo[d] \in Nat \ {0}
      BY <3>1, TenToGrows
    <3>4. number.c < TenTo[d]
      BY <1>2, <3>2, <3>3, QuotientOf
    <3> QED
      BY <2>3, <3>1, <3>2, <3>4 DEF LessThan
  <2>5. LessThan(number.c, number.q + factor, factor)
    <3> DEFINE z == 0
    <3>1. z \in Int /\ z + factor = factor /\ factor \in Int
      BY <1>2
    <3> HIDE DEF z
    <3>2. LessThan(number.c, number.q, z) <=> LessThan(number.c, number.q + factor, z + factor)
      BY <2>2, <3>1, OrderShifted
    <3> QED
      BY <2>4, <3>1, <3>2 DEF z
  <2>6. /\ factor \in Int /\ SigDigits \in Int /\ factor <= SigDigits /\ factor >= 0
        /\ number.q + factor \in Int /\ factor \in -Jump .. Jump /\ factor \in 0 .. SigDigits
    BY <1>1, <1>2, <1>3, <2>2
  <2>7. ~MoreThan(number.c, number.q + factor, factor)
    BY <2>2, <2>5, <2>6, OrderOfPowers
  <2>8. ~MoreThan(number.c, number.q + factor, SigDigits)
    BY <2>2, <2>6, <2>7, OrderOfPowers
  <2>9. r \in FloatNumbers /\ ~MoreThan(r.c, r.q, factor)
    BY <2>1, <2>6, <2>7, <2>8, Product
  <2>10. number' = r
    BY <1>4
  <2> HIDE DEF r
  <2>11. r \in [c : Nat, q : Int] /\ r.c \in Nat \ {0} /\ r.q \in Int /\ Small(2 * r.c)
    BY <2>9, MachineNumber
  <2>12. n_int + TenTo[factor] <= TenTo[SigDigits]
    <3> DEFINE q == -kept.q
               c == kept.c
    <3>1. q \in Nat \ {0} /\ c \in Nat \ {0} /\ c % TenTo[q] # 0 /\ factor - q = kept.q - exponent
      BY <1>2, <2>1, <2>3
    <3>2. ~MoreThan(c, factor - q, SigDigits)
      BY <1>1, <3>1 DEF ScaledAbove
    <3>3. n_int = (c \div TenTo[q]) * TenTo[factor]
      BY <2>3
    <3> HIDE DEF q, c
    <3> QED
      BY <1>2, <1>3, <2>6, <3>1, <3>2, <3>3, PartBelow
  <2>13. least \in Int /\ least = IF r.q <= 0 THEN r.q ELSE 0
    <3> DEFINE z == r.q
    <3>1. z \in Int /\ least = Fraction!Min({z, 0}) /\ 0 \in Int
      BY <2>11
    <3> HIDE DEF z, least
    <3>2. Fraction!Min({z, 0}) = IF z <= 0 THEN z ELSE 0
      BY <3>1, FractionExtremes
    <3>3. least \in Int /\ least = IF z <= 0 THEN z ELSE 0
      BY <3>1, <3>2
    <3> QED
      BY <3>3 DEF z
  <2> DEFINE m == Fraction!Nearest(r)
             sum == n_int * TenTo[-least] + r.c * TenTo[r.q - least]
  <2>14. m \in Nat /\ IsNearest(r.c, r.q, m)
    BY <2>11, NearestIsNearest
  <2>15. n_int # 0
    BY <1>2, <1>7
  <2>16. kept' = [c |-> sum, q |-> least + exponent]
    BY <1>4, <1>9, <2>10, <2>15, DecimalsSame DEF Fraction!Standing
  <2> HIDE DEF least, m
  <2>17. /\ sum \in Nat \ {0} /\ IsNearest(sum, least, m + n_int)
         /\ ~LessThan(sum, least, s) /\ ~MoreThan(sum, least, SigDigits)
    <3>1. n_int \in Nat \ {0} /\ TenTo[s] <= n_int /\ SigDigits \in Nat
      BY <1>2, <1>3, <2>15
    <3> HIDE DEF s
    <3> QED
      BY <1>2, <1>3, <2>9, <2>11, <2>12, <2>13, <2>14, <3>1, SumStands
  <2> HIDE DEF sum
  <2>18. /\ kept' \in [c : Nat \ {0}, q : Int] /\ kept'.c = sum /\ kept'.q - exponent' = least
    BY <1>2, <1>4, <2>13, <2>16, <2>17
  <2>19. RoundInv'
    <3>1. (Fraction!Nearest(number) + n_int)' = m + n_int
      BY <1>4, <1>6, <2>10 DEF m
    <3>2. m + n_int \in Nat
      BY <1>2, <2>14
    <3>3. ~ScaledBelow(s)' /\ ~ScaledAbove(SigDigits)'
      BY <2>17, <2>18 DEF ScaledBelow, ScaledAbove
    <3> QED
      BY <2>17, <2>18, <3>1, <3>2, <3>3 DEF RoundInv
  <2>20. FractionTypeOK'
    BY <1>1, <1>4, <2>10, <2>11, <2>18 DEF FractionTypeOK
  <2>21. LoopsInv'
    BY <1>4 DEF LoopsInv
  <2> QED
    BY <1>1, <1>4, <2>19, <2>20, <2>21 DEF FractionInv
<1> QED
  BY <1>8, <1>9

LEMMA FractionSplits ==
  ASSUME Fraction!FloatTextAssumption, FractionInv, Fraction!Split
  PROVE  FractionInv'
<1>1. /\ FractionTypeOK /\ IsSplit /\ pc = "split" /\ decimals = 0 /\ buf = << >> /\ ebuf = << >>
      /\ number \in FloatNumbers \/ number.c = 0
      /\ factor \in 0 .. SigDigits - 1
      /\ ~LessThan(kept.c, kept.q, 0) /\ ~ScaledAbove(SigDigits)
  BY DEF FractionInv, LoopsInv, Fraction!Split
<1>2. /\ kept.c \in Nat \ {0} /\ kept.q \in Int /\ factor \in Nat /\ exponent = -factor
      /\ exponent \in Int /\ n_int \in Nat
  BY <1>1 DEF FractionTypeOK, IsSplit
<1>3. SigDigits \in Nat \ {0} /\ SigDigits - 1 \in Nat
  BY DigitsCounted
<1>4. n_int < TenTo[SigDigits - 1] <=> ScaledBelow(SigDigits - 1)
  BY <1>1, <1>3, SplitCompared
<1>5. Fraction!min_scaled = TenTo[SigDigits - 1]
  BY DecimalsSame DEF Fraction!min_scaled
<1>6. CASE n_int < Fraction!min_scaled
  <2>1. /\ n_int' = 10 * n_int /\ factor' = factor + 1 /\ exponent' = exponent - 1
        /\ number' = number /\ kept' = kept /\ pc' = pc /\ n' = n /\ decimals' = decimals
        /\ buf' = buf /\ left' = left /\ ebuf' = ebuf
    BY <1>6 DEF Fraction!Split, Fraction!Count, Fraction!figures, Fraction!powers
  <2>2. /\ factor + 1 \in Nat /\ exponent - 1 = -(factor + 1) /\ exponent - 1 \in Int
        /\ 10 * n_int \in Nat /\ kept.q - exponent = kept.q + factor
        /\ kept.q - (exponent - 1) = (kept.q + factor) + 1
    BY <1>2
  <2>3. TenTo[factor + 1] = 10 * TenTo[factor] /\ TenTo[factor] \in Nat
    BY <1>2, TenToGrows
  <2>4. IsSplit'
    <3>1. CASE kept.q < 0
      <4> DEFINE d == -kept.q
                 f == kept.c \div TenTo[d]
      <4>1. n_int = f * TenTo[factor]
        BY <1>1, <3>1 DEF IsSplit
      <4>2. f \in Nat
        <5>1. d \in Nat
          BY <1>2, <3>1
        <5> HIDE DEF d
        <5>2. TenTo[d] \in Nat \ {0}
          BY <5>1, TenToGrows
        <5> QED
          BY <1>2, <5>2, QuotientOf
      <4> HIDE DEF f
      <4>3. 10 * (f * TenTo[factor]) = f * (10 * TenTo[factor])
        BY <2>3, <4>2
      <4>4. n_int' = f * TenTo[factor']
        BY <2>1, <2>3, <4>1, <4>3
      <4> QED
        BY <1>1, <2>1, <2>2, <3>1, <4>4 DEF IsSplit, f
    <3>2. CASE ~(kept.q < 0)
      <4> DEFINE r == kept.q + factor
      <4>1. r \in Nat /\ n_int = kept.c * TenTo[r] /\ number = [c |-> 0, q |-> 0]
        BY <1>1, <1>2, <3>2 DEF IsSplit
      <4>2. kept.q + (factor + 1) = r + 1
        BY <1>2
      <4> HIDE DEF r
      <4>3. TenTo[r + 1] = 10 * TenTo[r] /\ TenTo[r] \in Nat
        BY <4>1, TenToGrows
      <4>4. 10 * (kept.c * TenTo[r]) = kept.c * (10 * TenTo[r])
        BY <1>2, <4>3
      <4>5. n_int' = kept.c * TenTo[kept.q + factor']
        BY <2>1, <4>1, <4>2, <4>3, <4>4
      <4> QED
        BY <2>1, <2>2, <3>2, <4>1, <4>5 DEF IsSplit
    <3> QED
      BY <3>1, <3>2
  <2> DEFINE r == kept.q + factor
             p == SigDigits - 1
  <2>5. /\ r \in Int /\ p \in Int /\ p + 1 = SigDigits /\ LessThan(kept.c, r, p)
    BY <1>2, <1>3, <1>4, <1>5, <1>6, <2>2 DEF ScaledBelow
  <2>6. ~ScaledAbove(SigDigits)'
    <3> HIDE DEF r, p
    <3>1. LessThan(kept.c, r + 1, p + 1)
      <4> DEFINE one == 1
      <4>1. one \in Int /\ kept.c \in Nat
        BY <1>2
      <4> HIDE DEF one
      <4>2. LessThan(kept.c, r + one, p + one)
        BY <2>5, <4>1, OrderShifted
      <4> QED
        BY <4>2 DEF one
    <3>2. ~MoreThan(kept.c, r + 1, p + 1)
      BY <1>2, <2>5, <3>1, OrderOfPowers
    <3> QED
      BY <2>1, <2>2, <2>5, <3>2 DEF ScaledAbove, r
  <2>7. factor + 1 \in 0 .. SigDigits - 1
    <3>1. factor < p
      <4> SUFFICES ASSUME p <= factor PROVE FALSE
        BY <1>2, <2>5
      <4> DEFINE z == 0
      <4>1. z \in Int /\ z + factor = factor /\ factor \in Int
        BY <1>2
      <4>2. LessThan(kept.c, kept.q + factor, z + factor)
        BY <1>2, <2>5, <4>1, OrderOfPowers
      <4> HIDE DEF z
      <4>3. LessThan(kept.c, kept.q, z)
        BY <1>2, <4>1, <4>2, OrderShifted
      <4> QED
        BY <1>1, <4>3 DEF z
    <3> QED
      BY <1>2, <1>3, <3>1
  <2>8. FractionTypeOK'
    BY <1>1, <2>1, <2>2 DEF FractionTypeOK
  <2>9. LoopsInv'
    BY <1>1, <2>1, <2>4, <2>6, <2>7 DEF LoopsInv
  <2> QED
    BY <1>1, <2>1, <2>8, <2>9 DEF FractionInv
<1>7. CASE ~(n_int < Fraction!min_scaled)
  <2>1. Fraction!Apply
    BY <1>7 DEF Fraction!Split
  <2>2. TenTo[SigDigits - 1] <= n_int
    <3> DEFINE p == SigDigits - 1
    <3>1. p \in Nat /\ ~(n_int < TenTo[p])
      BY <1>3, <1>5, <1>7
    <3> HIDE DEF p
    <3>2. TenTo[p] <= n_int
      BY <1>2, <3>1, TenToGrows
    <3> QED
      BY <3>2 DEF p
  <2> QED
    BY <1>1, <2>1, <2>2, SplitApplies
<1> QED
  BY <1>6, <1>7

-----------------------------------------------------------------------------
(* The digits of a number, and its last significant one.                    *)

LEMMA DigitsCount ==
  ASSUME NEW x \in Nat \ {0}
  PROVE  \E d \in 1 .. x : TenTo[d - 1] <= x /\ x < TenTo[d]
<1> DEFINE P(d) == TenTo[d - 1] <= x /\ x < TenTo[d]
           T == {l \in Nat : x < TenTo[l] => \E d \in 1 .. x : P(d)}
<1>1. 0 \in T
  BY TenToGrows
<1>2. ASSUME NEW l \in T PROVE l + 1 \in T
  <2>1. l \in Nat /\ l < TenTo[l] /\ TenTo[l] \in Nat
    BY TenToMonotone
  <2>2. CASE TenTo[l] <= x
    <3>1. l + 1 \in 1 .. x /\ (l + 1) - 1 = l
      BY <2>1, <2>2
    <3>2. x < TenTo[l + 1] => P(l + 1)
      BY <2>2, <3>1
    <3> QED
      BY <2>1, <3>1, <3>2
  <2>3. CASE ~(TenTo[l] <= x)
    BY <2>1, <2>3
  <2> QED
    BY <2>2, <2>3
<1>3. T = Nat
  <2> HIDE DEF T
  <2> QED
    BY <1>1, <1>2, Induction DEF T
<1>4. x < TenTo[x]
  BY TenToMonotone
<1> QED
  BY <1>3, <1>4

LEMMA DigitsOfIs ==
  ASSUME NEW x \in Nat \ {0}
  PROVE  /\ Fraction!DigitsOf(x) \in Nat \ {0}
         /\ TenTo[Fraction!DigitsOf(x) - 1] <= x /\ x < TenTo[Fraction!DigitsOf(x)]
         /\ \A w \in Nat : TenTo[w] <= x /\ x < TenTo[w + 1] => Fraction!DigitsOf(x) = w + 1
<1> DEFINE d == Fraction!DigitsOf(x)
<1>1. d \in 1 .. x /\ TenTo[d - 1] <= x /\ x < TenTo[d]
  BY DigitsCount, DecimalsSame DEF Fraction!DigitsOf
<1> HIDE DEF d
<1> DEFINE u == d - 1
<1>2. u \in Nat /\ d = u + 1 /\ d \in Nat \ {0}
  BY <1>1
<1>3. TenTo[u] <= x /\ x < TenTo[u + 1]
  BY <1>1, <1>2
<1> HIDE DEF u
<1>4. ASSUME NEW w \in Nat, TenTo[w] <= x, x < TenTo[w + 1] PROVE u = w
  <2>1. /\ TenTo[u] \in Nat /\ TenTo[w] \in Nat
        /\ TenTo[u + 1] \in Nat /\ TenTo[w + 1] \in Nat
        /\ u + 1 \in Nat /\ w + 1 \in Nat
    BY <1>2, TenToGrows
  <2>2. TenTo[u] < TenTo[w + 1] /\ TenTo[w] < TenTo[u + 1]
    BY <1>3, <1>4, <2>1
  <2>3. ~(w + 1 <= u) /\ ~(u + 1 <= w)
    BY <1>2, <2>1, <2>2, TenToMonotone
  <2> QED
    BY <1>2, <2>3
<1> QED
  BY <1>1, <1>2, <1>4 DEF d

LEMMA LastIs ==
  ASSUME Fraction!FloatTextAssumption, FractionTypeOK
  PROVE  /\ Last \in Int
         /\ ~ScaledBelow(SigDigits - 1) => exponent <= Last
<1> DEFINE d == Fraction!DigitsOf(kept.c)
           r == kept.q - exponent
           p == SigDigits - 1
           c == kept.c
<1>1. /\ c \in Nat \ {0} /\ kept.q \in Int /\ exponent \in Int
      /\ p \in Nat /\ p = SigDigits - 1 /\ SigDigits \in Nat
  BY DigitsCounted DEF FractionTypeOK
<1>2. d \in Nat \ {0} /\ c < TenTo[d]
  BY <1>1, DigitsOfIs
<1>3. Last = d + kept.q - SigDigits /\ r = kept.q - exponent /\ r \in Int
  BY <1>1 DEF Last
<1>4. ~ScaledBelow(SigDigits - 1) <=> ~LessThan(c, r, p)
  BY DEF ScaledBelow
<1> HIDE DEF d, r, p, c
<1>5. ASSUME ~LessThan(c, r, p) PROVE p - r < d
  <2>1. CASE r < p
    <3> DEFINE u == p - r
    <3>1. u \in Nat
      BY <1>1, <1>3, <2>1
    <3>2. TenTo[u] <= c
      <4>1. ~(c < TenTo[u])
        BY <1>5, <2>1 DEF LessThan
      <4> HIDE DEF u
      <4> QED
        BY <1>1, <3>1, <4>1, TenToGrows
    <3> HIDE DEF u
    <3>3. ~(d <= u)
      <4>1. d <= u => TenTo[d] <= TenTo[u] /\ TenTo[d] \in Nat /\ TenTo[u] \in Nat
        BY <1>2, <3>1, TenToMonotone
      <4> QED
        BY <1>1, <1>2, <3>2, <4>1
    <3> QED
      BY <1>2, <3>1, <3>3 DEF u
  <2>2. CASE ~(r < p)
    BY <1>1, <1>2, <1>3, <2>2
  <2> QED
    BY <2>1, <2>2
<1> QED
  BY <1>1, <1>2, <1>3, <1>4, <1>5

\* Differences, scaled.
LEMMA WithinScaled ==
  ASSUME NEW a \in Int, NEW b \in Int, NEW w \in Int, NEW z \in Nat \ {0}
  PROVE  Within(a * z, b * z, w * z) <=> Within(a, b, w)
<1> DEFINE u == w - 2 * (a - b)
           v == w - 2 * (b - a)
<1>1. u \in Int /\ v \in Int
  OBVIOUS
<1>2. w * z - 2 * (a * z - b * z) = u * z /\ w * z - 2 * (b * z - a * z) = v * z
  OBVIOUS
<1>3. a * z \in Int /\ b * z \in Int /\ w * z \in Int /\ u * z \in Int /\ v * z \in Int
  OBVIOUS
<1>4. \A t \in Int : t * z >= 0 <=> t >= 0
  OBVIOUS
<1>5. Within(a, b, w) <=> u >= 0 /\ v >= 0
  BY DEF Within
<1>6. Within(a * z, b * z, w * z) <=> u * z >= 0 /\ v * z >= 0
  <2> DEFINE x == a * z
             y == b * z
             t == w * z
             f == u * z
             g == v * z
  <2>1. /\ x \in Int /\ y \in Int /\ t \in Int /\ f \in Int /\ g \in Int
        /\ t - 2 * (x - y) = f /\ t - 2 * (y - x) = g
    BY <1>2, <1>3
  <2> HIDE DEF x, y, t, f, g
  <2>2. Within(x, y, t) <=> f >= 0 /\ g >= 0
    BY <2>1 DEF Within
  <2> QED
    BY <2>2 DEF x, y, t, f, g
<1> HIDE DEF u, v
<1> QED
  BY <1>1, <1>4, <1>5, <1>6

\* Being close does not depend on the unit.
LEMMA CloseInUnits ==
  ASSUME FractionTypeOK, Last \in Int, NEW m \in Nat, NEW e \in Int, IsClose(m, e),
         NEW u \in Int, u <= e, u <= kept.q, u <= Last
  PROVE  Within(m * TenTo[e - u], kept.c * TenTo[kept.q - u], TenTo[Last - u])
<1> DEFINE c == kept.c
           q == kept.q
           A(l) == Within(m * TenTo[e - l], c * TenTo[q - l], TenTo[Last - l])
<1>1. c \in Nat /\ q \in Int
  BY DEF FractionTypeOK
<1>2. PICK l \in Int : l <= e /\ l <= q /\ l <= Last /\ A(l)
  BY DEF IsClose
<1>3. u <= q
  OBVIOUS
<1> HIDE DEF c, q
<1>4. ASSUME NEW x \in Int, NEW y \in Int, y <= x, x <= e, x <= q, x <= Last
      PROVE  A(y) <=> A(x)
  <2> DEFINE v == x - y
             X == TenTo[e - x]
             Y == TenTo[q - x]
             Z == TenTo[Last - x]
             D == TenTo[v]
  <2>1. v \in Nat /\ e - x \in Nat /\ q - x \in Nat /\ Last - x \in Nat
        /\ e - y = (e - x) + v /\ q - y = (q - x) + v /\ Last - y = (Last - x) + v
    BY <1>1, <1>4
  <2>2. /\ X \in Nat \ {0} /\ Y \in Nat \ {0} /\ Z \in Nat \ {0} /\ D \in Nat \ {0}
        /\ TenTo[e - y] = X * D /\ TenTo[q - y] = Y * D /\ TenTo[Last - y] = Z * D
    <3> DEFINE f == e - x
               g == q - x
               h == Last - x
    <3>1. f \in Nat /\ g \in Nat /\ h \in Nat /\ v \in Nat
      BY <2>1
    <3> HIDE DEF f, g, h, v
    <3>2. /\ TenTo[f] \in Nat \ {0} /\ TenTo[g] \in Nat \ {0} /\ TenTo[h] \in Nat \ {0}
          /\ TenTo[v] \in Nat \ {0}
          /\ TenTo[f + v] = TenTo[f] * TenTo[v] /\ TenTo[g + v] = TenTo[g] * TenTo[v]
          /\ TenTo[h + v] = TenTo[h] * TenTo[v]
      BY <3>1, TenToGrows, TenToSum
    <3> QED
      BY <2>1, <3>2 DEF f, g, h
  <2>3. A(y) <=> Within(m * (X * D), c * (Y * D), Z * D)
    BY <2>2
  <2>4. A(x) <=> Within(m * X, c * Y, Z)
    OBVIOUS
  <2> HIDE DEF X, Y, Z, D
  <2>5. /\ m * (X * D) = (m * X) * D /\ c * (Y * D) = (c * Y) * D
        /\ m * X \in Int /\ c * Y \in Int
    BY <1>1, <2>2
  <2>6. Within((m * X) * D, (c * Y) * D, Z * D) <=> Within(m * X, c * Y, Z)
    <3> DEFINE a == m * X
               b == c * Y
    <3>1. a \in Int /\ b \in Int /\ Z \in Int
      BY <2>2, <2>5
    <3> HIDE DEF a, b
    <3>2. Within(a * D, b * D, Z * D) <=> Within(a, b, Z)
      BY <2>2, <3>1, WithinScaled
    <3> QED
      BY <3>2 DEF a, b
  <2> HIDE DEF A
  <2> QED
    BY <2>3, <2>4, <2>5, <2>6
<1>5. A(u)
  <2> HIDE DEF A
  <2>1. CASE u <= l
    BY <1>2, <1>4, <2>1
  <2>2. CASE l <= u
    BY <1>2, <1>3, <1>4, <2>2
  <2> QED
    BY <2>1, <2>2
<1> QED
  BY <1>5 DEF c, q

\* The nearest integer of the scaled number is as close as is asked for.
LEMMA NearestIsClose ==
  ASSUME FractionTypeOK, Last \in Int, exponent <= Last, NEW m \in Nat,
         IsNearest(kept.c, kept.q - exponent, m)
  PROVE  IsClose(m, exponent)
<1> DEFINE c == kept.c
           q == kept.q
           e == exponent
<1>1. c \in Nat \ {0} /\ q \in Int /\ e \in Int /\ e <= Last
  BY DEF FractionTypeOK
<1>2. IsNearest(c, q - e, m)
  OBVIOUS
<1>3. \A l \in Int :
        /\ l <= e /\ l <= q /\ l <= Last
        /\ Within(m * TenTo[e - l], c * TenTo[q - l], TenTo[Last - l])
        => IsClose(m, exponent)
  BY DEF IsClose
<1> HIDE DEF c, q, e
<1>4. TenTo[0] = 1
  BY TenToGrows
<1>5. CASE q - e < 0
  <2> DEFINE d == e - q
             h == Last - q
             D == TenTo[d]
             H == TenTo[h]
  <2>1. d \in Nat /\ h \in Nat /\ d <= h /\ -(q - e) = d /\ q - q = 0 /\ q <= e /\ q <= Last
    BY <1>1, <1>5
  <2>2. Within(m * D, c, D)
    BY <1>2, <1>5, <2>1 DEF IsNearest
  <2>3. D \in Nat /\ H \in Nat /\ D <= H
    <3> HIDE DEF d, h
    <3> QED
      BY <2>1, TenToMonotone
  <2>4. c * 1 = c
    BY <1>1
  <2>5. Within(m * D, c, H)
    <3> DEFINE x == m * D
    <3>1. x \in Nat /\ Within(x, c, D)
      BY <2>2, <2>3
    <3> HIDE DEF x, D, H
    <3>2. Within(x, c, H)
      BY <1>1, <2>3, <3>1 DEF Within
    <3> QED
      BY <3>2 DEF x
  <2>6. Within(m * TenTo[e - q], c * TenTo[q - q], TenTo[Last - q])
    BY <1>4, <2>1, <2>4, <2>5
  <2> QED
    BY <1>1, <1>3, <2>1, <2>6
<1>6. CASE ~(q - e < 0)
  <2> DEFINE g == q - e
             h == Last - e
             G == TenTo[g]
             H == TenTo[h]
  <2>1. g \in Nat /\ h \in Nat /\ e - e = 0 /\ e <= q /\ e <= e
    BY <1>1, <1>6
  <2>2. m = c * G
    BY <1>2, <1>6 DEF IsNearest
  <2>3. H \in Nat /\ G \in Nat
    <3> HIDE DEF g, h
    <3> QED
      BY <2>1, TenToGrows
  <2>4. m * 1 = m
    OBVIOUS
  <2>5. Within(m, c * G, H)
    <3> HIDE DEF H, G
    <3> QED
      BY <2>2, <2>3 DEF Within
  <2>6. Within(m * TenTo[e - e], c * TenTo[q - e], TenTo[Last - e])
    BY <1>4, <2>1, <2>4, <2>5
  <2> QED
    BY <1>1, <1>3, <2>1, <2>6
<1> QED
  BY <1>5, <1>6

\* A zero at the end of the digits can as well be in the exponent.
LEMMA CloseWithoutZero ==
  ASSUME NEW m \in Nat, NEW e \in Int, IsClose(10 * m, e)
  PROVE  IsClose(m, e + 1)
<1>1. PICK l \in Int :
        /\ l <= e /\ l <= kept.q /\ l <= Last
        /\ Within((10 * m) * TenTo[e - l], kept.c * TenTo[kept.q - l], TenTo[Last - l])
  BY DEF IsClose
<1> DEFINE d == e - l
<1>2. d \in Nat /\ (e + 1) - l = d + 1 /\ l <= e + 1
  BY <1>1
<1>3. (10 * m) * TenTo[d] = m * TenTo[d + 1]
  <2> HIDE DEF d
  <2>1. TenTo[d + 1] = 10 * TenTo[d] /\ TenTo[d] \in Nat
    BY <1>2, TenToGrows
  <2>2. (10 * m) * TenTo[d] = m * (10 * TenTo[d])
    BY <2>1
  <2> QED
    BY <2>1, <2>2
<1>4. Within(m * TenTo[(e + 1) - l], kept.c * TenTo[kept.q - l], TenTo[Last - l])
  BY <1>1, <1>2, <1>3
<1> QED
  BY <1>1, <1>2, <1>4 DEF IsClose

LEMMA CloseStays ==
  ASSUME kept' = kept
  PROVE  Last' = Last /\ \A m, e : IsClose(m, e)' <=> IsClose(m, e)
BY DEF Last, IsClose, Fraction!DigitsOf, Fraction!TenTo

LEMMA FractionRounds ==
  ASSUME Fraction!FloatTextAssumption, FractionInv, Fraction!Round
  PROVE  FractionInv'
<1> DEFINE m == Fraction!Nearest(number) + n_int
           s == SigDigits - 1
<1>1. /\ FractionTypeOK /\ RoundInv /\ pc = "round" /\ decimals = 0
      /\ buf = << >> /\ ebuf = << >>
      /\ ~ScaledBelow(SigDigits - 1) /\ ~ScaledAbove(SigDigits)
  BY DEF FractionInv, RoundInv, Fraction!Round
<1>2. /\ kept.c \in Nat \ {0} /\ kept.q \in Int /\ exponent \in Int
      /\ kept.q - exponent \in Int
  BY <1>1 DEF FractionTypeOK
<1>3. SigDigits \in Nat /\ s \in Nat /\ SigDigits = s + 1 /\ s < SigDigits
  BY DigitsCounted
<1>4. m \in Nat /\ IsNearest(kept.c, kept.q - exponent, m)
  BY <1>1 DEF RoundInv
<1>5. /\ pc' = "place" /\ kept' = kept /\ number' = number /\ factor' = factor
      /\ n_int' = n_int /\ decimals' = decimals /\ buf' = buf /\ left' = left /\ ebuf' = ebuf
      /\ IF m >= TenTo[SigDigits] THEN n' = TenTo[s] /\ exponent' = exponent + 1
                                  ELSE n' = m /\ exponent' = exponent
  BY DecimalsSame
  DEF Fraction!Round, Fraction!max_scaled, Fraction!min_scaled, Fraction!scaling, Fraction!powers
<1>6. /\ ~LessThan(kept.c, kept.q - exponent, s)
      /\ ~MoreThan(kept.c, kept.q - exponent, SigDigits)
  BY <1>1 DEF ScaledBelow, ScaledAbove
<1>7. /\ TenTo[s] \in Nat \ {0} /\ TenTo[SigDigits] = 10 * TenTo[s]
      /\ TenTo[SigDigits] \in Nat
  <2> HIDE DEF s
  <2> QED
    BY <1>3, TenToGrows
<1>8. Last \in Int /\ exponent <= Last
  BY <1>1, LastIs
<1>9. IsClose(m, exponent)
  <2> HIDE DEF m
  <2> QED
    BY <1>1, <1>4, <1>8, NearestIsClose
<1> HIDE DEF m
<1>10. TenTo[s] <= m /\ m <= TenTo[SigDigits]
  <2> HIDE DEF s
  <2> QED
    BY <1>2, <1>3, <1>4, <1>6, NearestBounds
<1>11. TenTo[s] <= n' /\ n' < TenTo[SigDigits] /\ IsClose(n', exponent')
  <2>1. CASE m >= TenTo[SigDigits]
    <3>1. m = 10 * TenTo[s]
      BY <1>4, <1>7, <1>10, <2>1
    <3>2. IsClose(10 * TenTo[s], exponent)
      BY <1>9, <3>1
    <3> HIDE DEF s
    <3>3. IsClose(TenTo[s], exponent + 1)
      BY <1>2, <1>7, <3>2, CloseWithoutZero
    <3> QED
      BY <1>5, <1>7, <2>1, <3>3
  <2>2. CASE ~(m >= TenTo[SigDigits])
    BY <1>4, <1>5, <1>7, <1>9, <1>10, <2>2
  <2> QED
    BY <2>1, <2>2
<1>12. n' \in Nat /\ exponent' \in Int
  BY <1>2, <1>4, <1>5, <1>7
<1>13. FractionTypeOK'
  BY <1>1, <1>5, <1>12 DEF FractionTypeOK
<1>14. IsClose(n, exponent)'
  BY <1>5, <1>11 DEF IsClose, Last, Fraction!DigitsOf, Fraction!TenTo
<1>15. LoopsInv'
  BY <1>5 DEF LoopsInv
<1> QED
  BY <1>1, <1>5, <1>11, <1>13, <1>14, <1>15 DEF FractionInv

-----------------------------------------------------------------------------
(* Placing the decimal point, and printing.                                 *)

LEMMA DigitsInNone ==
  ASSUME NEW m \in Nat
  PROVE  DigitsIn(m, << >>) = m
<1>1. Len(<< >>) = 0 /\ << >> \in Seq(Int)
  BY EmptySeq
<1>2. Fraction!Reverse(<< >>) = << >>
  <2>1. /\ Fraction!Reverse(<< >>) \in Seq(Int) /\ Len(Fraction!Reverse(<< >>)) = 0
    BY <1>1 DEF Fraction!Reverse
  <2> QED
    BY <2>1, EmptySeq
<1>3. ReadBack(<< >>, 10) = 0 /\ TenTo[0] = 1
  BY ReadBackEmpty, TenToGrows
<1>4. DigitsIn(m, << >>) = m * 1 + 0
  BY <1>1, <1>2, <1>3 DEF DigitsIn
<1> QED
  BY <1>4

LEMMA ReverseAppends ==
  ASSUME NEW t \in Seq(Int), NEW d \in Int
  PROVE  /\ Fraction!Reverse(t) \in Seq(Int) /\ Len(Fraction!Reverse(t)) = Len(t)
         /\ Fraction!Reverse(Append(t, d)) = <<d>> \o Fraction!Reverse(t)
<1> DEFINE r == Fraction!Reverse(t)
           u == Fraction!Reverse(Append(t, d))
<1>1. Len(t) \in Nat /\ Append(t, d) \in Seq(Int) /\ Len(Append(t, d)) = Len(t) + 1
  OBVIOUS
<1>2. /\ r = [x \in 1 .. Len(t) |-> t[(Len(t) - x) + 1]]
      /\ u = [x \in 1 .. Len(t) + 1 |-> Append(t, d)[(Len(t) + 1 - x) + 1]]
  BY <1>1 DEF Fraction!Reverse
<1> HIDE DEF r, u
<1>3. r \in Seq(Int) /\ Len(r) = Len(t) /\ u \in Seq(Int) /\ Len(u) = Len(t) + 1
  BY <1>1, <1>2
<1>4. <<d>> \o r \in Seq(Int) /\ Len(<<d>> \o r) = Len(t) + 1
  BY <1>3
<1>5. ASSUME NEW x \in 1 .. Len(t) + 1 PROVE u[x] = (<<d>> \o r)[x]
  <2>1. u[x] = Append(t, d)[(Len(t) + 1 - x) + 1]
    BY <1>2
  <2>2. CASE x = 1
    <3>1. (<<d>> \o r)[x] = d
      BY <1>3, <2>2
    <3>2. (Len(t) + 1 - x) + 1 = Len(t) + 1
      BY <1>1, <2>2
    <3> QED
      BY <1>1, <2>1, <3>1, <3>2
  <2>3. CASE x # 1
    <3> DEFINE y == x - 1
    <3>1. y \in 1 .. Len(t) /\ x = y + 1
      BY <1>1, <2>3
    <3>2. (<<d>> \o r)[x] = r[y]
      BY <1>3, <3>1
    <3>3. r[y] = t[(Len(t) - y) + 1]
      BY <1>2, <3>1
    <3>4. (Len(t) + 1 - x) + 1 = (Len(t) - y) + 1 /\ (Len(t) - y) + 1 \in 1 .. Len(t)
      BY <1>1, <3>1
    <3> DEFINE z == (Len(t) - y) + 1
    <3> HIDE DEF y, z
    <3>5. Append(t, d)[z] = t[z]
      BY <3>4 DEF z
    <3> QED
      BY <2>1, <3>2, <3>3, <3>4, <3>5 DEF z
  <2> QED
    BY <2>2, <2>3
<1> QED
  BY <1>3, <1>4, <1>5, SeqEqual DEF r, u

\* Digits never read as a negative number.
LEMMA ReversedReadsNat ==
  ASSUME NEW t \in Seq(0 .. 9)
  PROVE  ReadBack(Fraction!Reverse(t), 10) \in Nat
<1> DEFINE s == Fraction!Reverse(t)
<1>1. Len(t) \in Nat /\ \A x \in 1 .. Len(t) : t[x] \in Nat
  OBVIOUS
<1>2. s = [x \in 1 .. Len(t) |-> t[(Len(t) - x) + 1]]
  BY DEF Fraction!Reverse
<1> HIDE DEF s
<1>3. \A x \in 1 .. Len(t) : t[(Len(t) - x) + 1] \in Nat
  <2> SUFFICES ASSUME NEW x \in 1 .. Len(t) PROVE t[(Len(t) - x) + 1] \in Nat
    OBVIOUS
  <2>1. (Len(t) - x) + 1 \in 1 .. Len(t)
    BY <1>1
  <2> QED
    BY <1>1, <2>1
<1>4. s \in Seq(Nat) /\ s \in Seq(Int) /\ Len(s) = Len(t) /\ \A x \in 1 .. Len(t) : s[x] \in Nat
  BY <1>1, <1>2, <1>3
<1>5. PICK f : Reads(f, s, 10) /\ ReadBack(s, 10) = f[Len(s)]
  BY <1>4, ReadBackReads
<1> DEFINE T == {l \in Nat : l <= Len(s) => f[l] \in Nat}
<1>6. 0 \in T
  BY <1>5 DEF Reads
<1>7. ASSUME NEW l \in T PROVE l + 1 \in T
  <2>1. l \in Nat /\ (l <= Len(s) => f[l] \in Nat)
    OBVIOUS
  <2>2. ASSUME l + 1 <= Len(s) PROVE f[l + 1] \in Nat
    <3>1. l \in 0 .. Len(s) - 1 /\ l <= Len(s) /\ l + 1 \in 1 .. Len(t)
      BY <1>1, <1>4, <2>1, <2>2
    <3>2. f[l + 1] = 10 * f[l] + s[l + 1] /\ s[l + 1] \in Nat
      BY <1>4, <1>5, <3>1 DEF Reads
    <3> QED
      BY <2>1, <3>1, <3>2
  <2> QED
    BY <2>1, <2>2
<1>8. T = Nat
  <2> HIDE DEF T
  <2> QED
    BY <1>6, <1>7, Induction DEF T
<1>9. Len(s) \in T
  BY <1>1, <1>4, <1>8
<1> QED
  BY <1>4, <1>5, <1>9 DEF s

\* Moving a digit does not change the number.
LEMMA DigitsInMove ==
  ASSUME NEW m \in Nat, NEW t \in Seq(Int)
  PROVE  /\ DigitsIn(m, t) \in Int
         /\ DigitsIn(m \div 10, Append(t, m % 10)) = DigitsIn(m, t)
<1> DEFINE f == m \div 10
           d == m % 10
           R == ReadBack(Fraction!Reverse(t), 10)
           X == TenTo[Len(t)]
<1>1. f \in Nat /\ d \in Nat /\ m = 10 * f + d
  BY QuotientOf
<1> HIDE DEF f, d
<1>2. Len(t) \in Nat /\ Len(Append(t, d)) = Len(t) + 1
  BY <1>1
<1>3. X \in Nat /\ TenTo[Len(t) + 1] = 10 * X
  <2> DEFINE l == Len(t)
  <2> HIDE DEF l
  <2>1. TenTo[l] \in Nat /\ TenTo[l + 1] = 10 * TenTo[l]
    BY <1>2, TenToGrows DEF l
  <2> QED
    BY <2>1 DEF l
<1>4. /\ Fraction!Reverse(t) \in Seq(Int) /\ Len(Fraction!Reverse(t)) = Len(t)
      /\ Fraction!Reverse(Append(t, d)) = <<d>> \o Fraction!Reverse(t)
  BY <1>1, ReverseAppends
<1>5. R \in Int /\ ReadBack(Fraction!Reverse(Append(t, d)), 10) = d * X + R
  <2> DEFINE s == Fraction!Reverse(t)
  <2>1. s \in Seq(Int) /\ d \in Int /\ Len(s) = Len(t)
    BY <1>1, <1>4
  <2> HIDE DEF s
  <2>2. ReadBack(<<d>> \o s, 10) = d * TenTo[Len(s)] + ReadBack(s, 10) /\ ReadBack(s, 10) \in Int
    BY <2>1, ReadBackPrepend, ReadBackAppend
  <2> QED
    BY <1>4, <2>1, <2>2 DEF s
<1>6. DigitsIn(m, t) = m * X + R
  BY DEF DigitsIn
<1>7. DigitsIn(f, Append(t, d)) = f * (10 * X) + (d * X + R)
  BY <1>2, <1>3, <1>5 DEF DigitsIn
<1>8. DigitsIn(m, t) \in Int /\ DigitsIn(f, Append(t, d)) = DigitsIn(m, t)
  <2> HIDE DEF X, R
  <2>1. m * X = f * (10 * X) + d * X
    <3>1. (10 * f + d) * X = (10 * f) * X + d * X
      BY <1>1, <1>3
    <3>2. (10 * f) * X = f * (10 * X)
      BY <1>1, <1>3
    <3> QED
      BY <1>1, <3>1, <3>2
  <2> DEFINE a == m * X
             b == f * (10 * X)
             c == d * X
  <2>2. a \in Int /\ b \in Int /\ c \in Int
    BY <1>1, <1>3
  <2> HIDE DEF a, b, c
  <2>3. a = b + c
    BY <2>1 DEF a, b, c
  <2>4. a + R \in Int /\ b + (c + R) = a + R
    BY <1>5, <2>2, <2>3
  <2> QED
    BY <1>6, <1>7, <2>4 DEF a, b, c
<1> QED
  BY <1>8 DEF f, d

LEMMA FractionPlaces ==
  ASSUME Fraction!FloatTextAssumption, FractionInv, Fraction!Place
  PROVE  FractionInv'
<1> DEFINE e == exponent
           s == SigDigits - 1
<1>1. /\ FractionTypeOK /\ pc = "place" /\ buf = << >> /\ ebuf = << >>
      /\ n \in Nat /\ e \in Int
      /\ TenTo[s] <= n /\ n < TenTo[SigDigits] /\ IsClose(n, e)
  BY DEF FractionInv, FractionTypeOK, Fraction!Place
<1>2. SigDigits \in Nat /\ s \in Nat /\ SigDigits = s + 1
  BY DigitsCounted
<1>3. /\ pc' = "trim" /\ kept' = kept /\ number' = number /\ factor' = factor
      /\ n_int' = n_int /\ n' = n /\ buf' = buf /\ left' = left /\ ebuf' = ebuf
      /\ exponent' = e + decimals'
      /\ decimals' = IF e <= 0 /\ e >= -(SigDigits + 3) THEN -e ELSE s
  BY DEF Fraction!Place, Fraction!Decimals, Fraction!scaling, Fraction!powers
<1>4. decimals' \in Nat /\ decimals' <= SigDigits + 3 /\ exponent' \in Int
  BY <1>1, <1>2, <1>3
<1>5. FractionTypeOK'
  BY <1>1, <1>3, <1>4 DEF FractionTypeOK
<1>6. PICK top \in Int : top = e + s
  BY <1>1, <1>2
<1>7. /\ Fraction!Power' = e /\ top - e = s /\ s \in 0 .. SigDigits - 1
      /\ exponent' = IF top < -4 \/ top >= SigDigits THEN top ELSE 0
  BY <1>1, <1>2, <1>3, <1>6 DEF Fraction!Power
<1>8. AllDigits' = n
  BY <1>1, <1>3, DigitsInNone DEF AllDigits
<1>9. IsClose(AllDigits, Fraction!Power)'
  BY <1>1, <1>3, <1>7, <1>8 DEF IsClose, Last, Fraction!DigitsOf, Fraction!TenTo
<1>10. Len(buf') = 0
  BY <1>1, <1>3, EmptySeq
<1>11. IsPlaced(top)'
  <2>1. /\ top - Fraction!Power' \in 0 .. SigDigits - 1 /\ top - Fraction!Power' = s
        /\ top - Fraction!Power' + 1 = SigDigits
    BY <1>2, <1>7
  <2>2. TenTo[top - Fraction!Power'] <= AllDigits'
    BY <1>1, <1>8, <2>1
  <2>3. AllDigits' < TenTo[top - Fraction!Power' + 1]
    BY <1>1, <1>8, <2>1
  <2>4. Len(buf') <= decimals' + 1
    <3>1. decimals' \in Nat
      BY <1>4
    <3>2. \A z \in Nat : 0 <= z + 1
      OBVIOUS
    <3> QED
      BY <1>10, <3>1, <3>2
  <2> QED
    BY <1>4, <1>7, <1>9, <2>1, <2>2, <2>3, <2>4 DEF IsPlaced
<1>12. LoopsInv'
  BY <1>3 DEF LoopsInv
<1> QED
  BY <1>1, <1>3, <1>5, <1>11, <1>12 DEF FractionInv

LEMMA FractionTrims ==
  ASSUME Fraction!FloatTextAssumption, FractionInv, Fraction!Trim
  PROVE  FractionInv'
<1>1. /\ FractionTypeOK /\ pc = "trim" /\ buf = << >> /\ ebuf = << >> /\ n \in Nat
      /\ exponent \in Int /\ decimals \in Nat
  BY DEF FractionInv, FractionTypeOK, Fraction!Trim
<1>2. PICK top \in Int : IsPlaced(top)
  BY <1>1 DEF FractionInv
<1> DEFINE p == Fraction!Power
           w == top - p
<1>3. p \in Int /\ p = exponent - decimals
  BY <1>1 DEF Fraction!Power
<1>4. AllDigits = n
  BY <1>1, DigitsInNone DEF AllDigits
<1>5. /\ w \in 0 .. SigDigits - 1 /\ TenTo[w] <= n /\ n < TenTo[w + 1] /\ IsClose(n, p)
      /\ exponent = IF top < -4 \/ top >= SigDigits THEN top ELSE 0
      /\ decimals <= SigDigits + 3
  BY <1>2, <1>4 DEF IsPlaced
<1>6. SigDigits \in Nat /\ w \in Nat
  BY <1>3, <1>5, DigitsCounted
<1>7. Len(buf) = 0
  BY <1>1, EmptySeq
<1>8. CASE decimals > 0 /\ n % 10 = 0
  <2> DEFINE m == n \div 10
  <2>1. m \in Nat /\ n = 10 * m
    BY <1>1, <1>8
  <2>2. /\ n' = m /\ decimals' = decimals - 1 /\ kept' = kept /\ pc' = pc /\ number' = number
        /\ factor' = factor /\ exponent' = exponent /\ n_int' = n_int /\ buf' = buf
        /\ left' = left /\ ebuf' = ebuf
    BY <1>8 DEF Fraction!Trim, Fraction!scaling, Fraction!powers
  <2> HIDE DEF m
  <2>3. PICK v \in Nat : w = v + 1
    <3> HIDE DEF w
    <3>1. TenTo[0] = 1 /\ TenTo[0 + 1] = 10 * TenTo[0]
      BY TenToGrows
    <3>2. TenTo[0 + 1] = 10
      BY <3>1
    <3>3. w # 0
      <4>1. ASSUME w = 0 PROVE FALSE
        <5>1. 1 <= n /\ n < 10
          BY <1>5, <3>1, <3>2, <4>1
        <5> QED
          BY <2>1, <5>1
      <4> QED
        BY <4>1
    <3>4. w - 1 \in Nat /\ w = (w - 1) + 1
      BY <1>6, <3>3
    <3> QED
      BY <3>4
  <2>4. TenTo[v] <= m /\ m < TenTo[v + 1]
    <3>1. /\ TenTo[v + 1] = 10 * TenTo[v] /\ TenTo[v] \in Nat /\ TenTo[v + 1] \in Nat
          /\ v + 1 \in Nat
      BY TenToGrows
    <3>2. TenTo[(v + 1) + 1] = 10 * TenTo[v + 1]
      <4> DEFINE x == v + 1
      <4>1. x \in Nat
        OBVIOUS
      <4> HIDE DEF x
      <4> QED
        BY <4>1, TenToGrows
    <3>3. TenTo[v + 1] <= 10 * m /\ 10 * m < TenTo[(v + 1) + 1]
      BY <1>5, <2>1, <2>3
    <3> QED
      BY <2>1, <3>1, <3>2, <3>3
  <2>5. IsClose(m, p + 1)
    <3> HIDE DEF p
    <3> QED
      BY <1>3, <1>5, <2>1, CloseWithoutZero
  <2>6. /\ Fraction!Power' = p + 1 /\ top - (p + 1) = v /\ v \in 0 .. SigDigits - 1
        /\ decimals' \in Nat /\ decimals' <= SigDigits + 3
    BY <1>1, <1>3, <1>5, <1>6, <1>8, <2>2, <2>3 DEF Fraction!Power
  <2>7. AllDigits' = m
    BY <1>1, <2>1, <2>2, DigitsInNone DEF AllDigits
  <2>8. IsClose(AllDigits, Fraction!Power)'
    BY <2>2, <2>5, <2>6, <2>7 DEF IsClose, Last, Fraction!DigitsOf, Fraction!TenTo
  <2>9. Len(buf') <= decimals' + 1
    <3>1. decimals' \in Nat /\ Len(buf') = 0
      BY <1>7, <2>2, <2>6
    <3>2. \A z \in Nat : 0 <= z + 1
      OBVIOUS
    <3> QED
      BY <3>1, <3>2
  <2>10. IsPlaced(top)'
    BY <1>5, <2>2, <2>4, <2>6, <2>7, <2>8, <2>9 DEF IsPlaced
  <2>11. FractionTypeOK'
    BY <1>1, <2>1, <2>2, <2>6 DEF FractionTypeOK
  <2>12. LoopsInv'
    BY <1>1, <2>2 DEF LoopsInv
  <2> QED
    BY <1>1, <2>2, <2>10, <2>11, <2>12 DEF FractionInv
<1>9. CASE ~(decimals > 0 /\ n % 10 = 0)
  <2>1. /\ pc' = "digits" /\ kept' = kept /\ number' = number /\ factor' = factor
        /\ exponent' = exponent /\ n_int' = n_int /\ n' = n /\ decimals' = decimals
        /\ buf' = buf /\ left' = left /\ ebuf' = ebuf
    BY <1>9, FractionGoes DEF Fraction!Trim
  <2>2. IsPlaced(top)'
    BY <1>2, <2>1 DEF IsPlaced, AllDigits, Fraction!Power, IsClose, Last, Fraction!DigitsOf,
                      Fraction!TenTo
  <2>3. NoZerosAround'
    <3>1. ~(0 > decimals + 1)
      BY <1>1
    <3> QED
      BY <1>1, <1>7, <1>9, <2>1, <3>1 DEF NoZerosAround
  <2>4. FractionTypeOK'
    BY <1>1, <2>1 DEF FractionTypeOK
  <2>5. LoopsInv'
    BY <2>1 DEF LoopsInv
  <2> QED
    BY <1>1, <2>1, <2>2, <2>3, <2>4, <2>5 DEF FractionInv
<1> QED
  BY <1>8, <1>9

LEMMA FractionDigits ==
  ASSUME Fraction!FloatTextAssumption, FractionInv, Fraction!Digits
  PROVE  FractionInv'
<1>1. /\ FractionTypeOK /\ pc = "digits" /\ NoZerosAround /\ ebuf = << >>
      /\ buf \in Seq(0 .. 9) /\ n \in Nat /\ exponent \in Int /\ decimals \in Nat
  BY DEF FractionInv, FractionTypeOK, Fraction!Digits
<1>2. PICK top \in Int : IsPlaced(top)
  BY <1>1 DEF FractionInv
<1> DEFINE p == Fraction!Power
           w == top - p
           L == Len(buf)
<1>3. p \in Int /\ buf \in Seq(Int) /\ L \in Nat
  BY <1>1 DEF Fraction!Power
<1>4. /\ w \in 0 .. SigDigits - 1 /\ TenTo[w] <= AllDigits /\ AllDigits < TenTo[w + 1]
      /\ IsClose(AllDigits, p)
      /\ exponent = IF top < -4 \/ top >= SigDigits THEN top ELSE 0
      /\ decimals <= SigDigits + 3
      /\ L <= w + 1 \/ L <= decimals + 1
  BY <1>2 DEF IsPlaced
<1>5. w \in Nat
  BY <1>3, <1>4, DigitsCounted
<1>6. CASE n # 0 \/ L <= decimals
  <2> DEFINE d == n % 10
             m == n \div 10
  <2>1. d \in 0 .. 9 /\ m \in Nat /\ n = 10 * m + d
    BY <1>1
  <2>2. /\ n' = m /\ buf' = Append(buf, d) /\ kept' = kept /\ pc' = pc /\ number' = number
        /\ factor' = factor /\ exponent' = exponent /\ n_int' = n_int /\ decimals' = decimals
        /\ left' = left /\ ebuf' = ebuf
    BY <1>6 DEF Fraction!Digits, Fraction!scaling, Fraction!powers
  <2>3. AllDigits' = AllDigits
    <3>1. DigitsIn(n \div 10, Append(buf, n % 10)) = DigitsIn(n, buf)
      BY <1>1, <1>3, DigitsInMove
    <3> QED
      BY <2>2, <3>1 DEF AllDigits
  <2> HIDE DEF d, m
  <2>4. /\ buf' \in Seq(0 .. 9) /\ Len(buf') = L + 1 /\ buf'[L + 1] = d /\ buf' # << >>
        /\ buf'[1] = IF buf = << >> THEN d ELSE buf[1]
    <3>1. Append(buf, d)[1] = IF buf = << >> THEN d ELSE buf[1]
      BY <1>1, <2>1
    <3> QED
      BY <1>1, <2>1, <2>2, <3>1
  <2>5. n # 0 => L <= w
    <3>1. ASSUME n # 0 PROVE L <= w
      <4> DEFINE X == TenTo[L]
                 R == ReadBack(Fraction!Reverse(buf), 10)
      <4>1. R \in Nat
        BY <1>1, ReversedReadsNat
      <4>2. AllDigits = n * X + R
        BY DEF AllDigits, DigitsIn
      <4>3. X \in Nat \ {0}
        <5> HIDE DEF L
        <5> QED
          BY <1>3, TenToGrows
      <4>4. X <= n * X /\ n * X \in Nat
        <5> HIDE DEF X
        <5> QED
          BY <1>1, <3>1, <4>3, Cancelled
      <4> DEFINE y == n * X
                 v == w + 1
      <4>5. v \in Nat
        BY <1>5
      <4>6. TenTo[v] \in Nat /\ y + R < TenTo[v]
        <5>1. y + R < TenTo[v]
          BY <1>4, <4>2
        <5> HIDE DEF v, y
        <5> QED
          BY <4>5, <5>1, TenToGrows
      <4>7. X <= y /\ y \in Nat
        BY <4>4
      <4> HIDE DEF y, R
      <4>8. X < TenTo[v]
        <5> HIDE DEF X, v
        <5> QED
          BY <4>1, <4>3, <4>6, <4>7
      <4>9. L < v
        <5> HIDE DEF L, v
        <5> QED
          BY <1>3, <4>3, <4>5, <4>8, TenToMonotone
      <4> QED
        BY <1>3, <1>5, <4>9
    <3> QED
      BY <3>1
  <2>6. L + 1 <= w + 1 \/ L + 1 <= decimals + 1
    BY <1>1, <1>3, <1>5, <1>6, <2>5
  <2>7. Fraction!Power' = p
    BY <2>2 DEF Fraction!Power
  <2>8. IsClose(AllDigits, Fraction!Power)'
    BY <1>4, <2>2, <2>3, <2>7 DEF IsClose, Last, Fraction!DigitsOf, Fraction!TenTo
  <2>9. IsPlaced(top)'
    BY <1>4, <2>2, <2>3, <2>4, <2>6, <2>7, <2>8 DEF IsPlaced
  <2>10. NoZerosAround'
    <3>1. decimals > 0 => buf'[1] # 0
      BY <1>1, <2>4 DEF NoZerosAround, d
    <3>2. ASSUME L + 1 > decimals + 1 PROVE m # 0 \/ d # 0
      <4>1. n # 0
        BY <1>1, <1>3, <1>6, <3>2
      <4> QED
        BY <2>1, <4>1
    <3> QED
      BY <2>2, <2>4, <3>1, <3>2 DEF NoZerosAround
  <2>11. FractionTypeOK'
    BY <1>1, <2>1, <2>2, <2>4 DEF FractionTypeOK
  <2>12. LoopsInv'
    BY <1>1, <2>2 DEF LoopsInv
  <2> QED
    BY <1>1, <2>2, <2>9, <2>10, <2>11, <2>12 DEF FractionInv
<1>7. CASE ~(n # 0 \/ L <= decimals)
  <2>1. /\ pc' = IF exponent # 0 THEN "exponent" ELSE "printed"
        /\ kept' = kept /\ number' = number /\ factor' = factor /\ exponent' = exponent
        /\ n_int' = n_int /\ n' = n /\ decimals' = decimals /\ buf' = buf /\ ebuf' = ebuf
        /\ left' = Fraction!Max({exponent, -exponent})
    BY <1>7 DEF Fraction!Digits, Fraction!scaling, Fraction!figures
  <2>2. IsPlaced(top)'
    BY <1>2, <2>1 DEF IsPlaced, AllDigits, Fraction!Power, IsClose, Last, Fraction!DigitsOf,
                      Fraction!TenTo
  <2>3. left' \in Nat /\ (exponent = 0 => left' = 0)
    <3> DEFINE e == exponent
               f == -exponent
    <3>1. e \in Int /\ f \in Int /\ (e >= 0 \/ f >= 0) /\ (e = 0 => f = 0)
      BY <1>1
    <3>2. left' = Fraction!Max({e, f})
      BY <2>1
    <3>3. left' = IF e >= f THEN e ELSE f
      <4> HIDE DEF e, f
      <4> QED
        BY <3>1, <3>2, FractionExtremes
    <3> QED
      BY <3>1, <3>3
  <2>4. pc' \in {"exponent", "printed"} /\ (pc' = "exponent" <=> exponent' # 0)
    BY <2>1
  <2>5. FractionTypeOK'
    BY <1>1, <2>1, <2>3, <2>4 DEF FractionTypeOK
  <2>6. LoopsInv' /\ NoZerosAround'
    BY <1>1, <2>1, <2>4 DEF LoopsInv, NoZerosAround
  <2>7. n' = 0 /\ Len(buf') > decimals'
    BY <1>1, <1>3, <1>7, <2>1
  <2>8. ExponentInv'
    <3>1. AllOfExponent' = left'
      BY <1>1, <2>1, <2>3, DigitsInNone DEF AllOfExponent
    <3>2. Fraction!Max({exponent, -exponent})' = Fraction!Max({exponent, -exponent})
      BY <2>1 DEF Fraction!Max
    <3>3. Len(ebuf') = 0
      BY <1>1, <2>1, EmptySeq
    <3> QED
      BY <2>1, <3>1, <3>2, <3>3 DEF ExponentInv
  <2>9. pc' = "printed" => left' = 0 /\ exponent' = 0 /\ ebuf' = << >>
    BY <1>1, <2>1, <2>3, <2>4
  <2> QED
    BY <2>2, <2>4, <2>5, <2>6, <2>7, <2>8, <2>9 DEF FractionInv
<1> QED
  BY <1>6, <1>7

LEMMA FractionExponents ==
  ASSUME Fraction!FloatTextAssumption, FractionInv, Fraction!ExponentDigits
  PROVE  FractionInv'
<1>1. /\ FractionTypeOK /\ pc = "exponent" /\ NoZerosAround /\ n = 0 /\ Len(buf) > decimals
      /\ ExponentInv /\ exponent # 0
      /\ ebuf \in Seq(0 .. 9) /\ left \in Nat
  BY DEF FractionInv, FractionTypeOK, Fraction!ExponentDigits
<1>2. PICK top \in Int : IsPlaced(top)
  BY <1>1 DEF FractionInv
<1> DEFINE L == Len(ebuf)
<1>3. L \in Nat /\ ebuf \in Seq(Int)
  BY <1>1
<1>4. /\ kept' = kept /\ number' = number /\ factor' = factor /\ exponent' = exponent
      /\ n_int' = n_int /\ n' = n /\ decimals' = decimals /\ buf' = buf
  BY FractionGoes DEF Fraction!ExponentDigits, Fraction!scaling, Fraction!figures
<1>5. IsPlaced(top)' /\ NoZerosAround'
  <2>1. IsPlaced(top)'
    BY <1>2, <1>4 DEF IsPlaced, AllDigits, Fraction!Power, IsClose, Last, Fraction!DigitsOf,
                      Fraction!TenTo
  <2> QED
    BY <1>1, <1>4, <2>1 DEF NoZerosAround
<1>6. Fraction!Max({exponent, -exponent})' = Fraction!Max({exponent, -exponent})
  BY <1>4 DEF Fraction!Max
<1>7. CASE Fraction!MoreDigits
  <2> DEFINE d == left % 10
             m == left \div 10
  <2>1. d \in 0 .. 9 /\ m \in Nat /\ left = 10 * m + d
    BY <1>1
  <2>2. ebuf' = Append(ebuf, d) /\ left' = m /\ pc' = pc
    BY <1>7 DEF Fraction!ExponentDigits
  <2>3. AllOfExponent' = AllOfExponent
    <3>1. DigitsIn(left \div 10, Append(ebuf, left % 10)) = DigitsIn(left, ebuf)
      BY <1>1, <1>3, DigitsInMove
    <3> QED
      BY <2>2, <3>1 DEF AllOfExponent
  <2>4. left # 0 \/ L < 2
    BY <1>7 DEF Fraction!MoreDigits
  <2> HIDE DEF d, m
  <2>5. ebuf' \in Seq(0 .. 9) /\ Len(ebuf') = L + 1 /\ ebuf'[L + 1] = d
    BY <1>1, <2>1, <2>2
  <2>6. L + 1 > 2 => m # 0 \/ d # 0
    BY <1>3, <2>1, <2>4
  <2>7. ExponentInv'
    BY <1>1, <1>6, <2>2, <2>3, <2>5, <2>6 DEF ExponentInv
  <2>8. FractionTypeOK'
    BY <1>1, <1>4, <2>1, <2>2, <2>5 DEF FractionTypeOK
  <2>9. LoopsInv'
    BY <1>1, <2>2 DEF LoopsInv
  <2> QED
    BY <1>1, <1>4, <1>5, <2>2, <2>7, <2>8, <2>9 DEF FractionInv
<1>8. CASE ~Fraction!MoreDigits
  <2>1. pc' = "printed" /\ left' = left /\ ebuf' = ebuf
    BY <1>8, FractionGoes DEF Fraction!ExponentDigits
  <2>2. left' = 0 /\ Len(ebuf') >= 2
    BY <1>1, <1>3, <1>8, <2>1 DEF Fraction!MoreDigits
  <2>3. ExponentInv'
    BY <1>1, <1>6, <2>1 DEF ExponentInv, AllOfExponent
  <2>4. FractionTypeOK' /\ LoopsInv'
    BY <1>1, <1>4, <2>1 DEF FractionTypeOK, LoopsInv
  <2> QED
    BY <1>1, <1>4, <1>5, <2>1, <2>2, <2>3, <2>4 DEF FractionInv
<1> QED
  BY <1>7, <1>8

LEMMA FractionSteps ==
  ASSUME Fraction!FloatTextAssumption, FractionInv, Fraction!Next
  PROVE  FractionInv'
BY FractionBegins, FractionScales, FractionMultiplies, FractionDivides, FractionSplits,
   FractionRounds, FractionPlaces, FractionTrims, FractionDigits, FractionExponents
   DEF Fraction!Next

LEMMA FractionStutters ==
  ASSUME FractionInv, UNCHANGED Fraction!vars
  PROVE  FractionInv'
<1>1. /\ kept' = kept /\ pc' = pc /\ number' = number /\ factor' = factor
      /\ exponent' = exponent /\ n_int' = n_int /\ n' = n /\ decimals' = decimals
      /\ buf' = buf /\ left' = left /\ ebuf' = ebuf
  BY DEF Fraction!vars, Fraction!scaling, Fraction!figures, Fraction!powers
<1>2. FractionTypeOK'
  BY <1>1 DEF FractionInv, FractionTypeOK
<1>3. /\ IsScaled' <=> IsScaled
      /\ IsSplit' <=> IsSplit
      /\ ScaledBelow(SigDigits - 1)' <=> ScaledBelow(SigDigits - 1)
      /\ ScaledAbove(SigDigits)' <=> ScaledAbove(SigDigits)
  BY <1>1 DEF IsScaled, IsSplit, ScaledBelow, ScaledAbove
<1>4. LoopsInv'
  BY <1>1, <1>3 DEF FractionInv, LoopsInv
<1>5. RoundInv => RoundInv'
  <2>1. Fraction!Nearest(number)' = Fraction!Nearest(number)
    BY <1>1 DEF Fraction!Nearest, Fraction!Whole, Fraction!PowerOfTen, Fraction!Min, Fraction!TenTo
  <2> QED
    BY <1>1, <1>3, <2>1 DEF RoundInv
<1>6. IsClose(n, exponent) => IsClose(n, exponent)'
  BY <1>1 DEF IsClose, Last, Fraction!DigitsOf, Fraction!TenTo
<1>7. \A top : IsPlaced(top) => IsPlaced(top)'
  BY <1>1 DEF IsPlaced, AllDigits, Fraction!Power, IsClose, Last, Fraction!DigitsOf, Fraction!TenTo
<1>8. NoZerosAround => NoZerosAround'
  BY <1>1 DEF NoZerosAround
<1>9. ExponentInv => ExponentInv'
  BY <1>1 DEF ExponentInv, AllOfExponent, Fraction!Max
<1> QED
  BY <1>1, <1>2, <1>4, <1>5, <1>6, <1>7, <1>8, <1>9 DEF FractionInv

-----------------------------------------------------------------------------
(* What is printed of a float.                                              *)

LEMMA FractionLeast ==
  ASSUME NEW x \in Int, NEW y \in Int, NEW z \in Int
  PROVE  LET l == Fraction!Min({x, y, z})
         IN  l \in Int /\ l <= x /\ l <= y /\ l <= z
<1>1. \E l \in {x, y, z} : \A v \in {x, y, z} : l <= v
  OBVIOUS
<1> QED
  BY <1>1 DEF Fraction!Min

\* Nothing is left to print: all digits are in the buffer.
LEMMA DigitsInAll ==
  ASSUME NEW t \in Seq(0 .. 9)
  PROVE  /\ DigitsIn(0, t) = ReadBack(Fraction!Reverse(t), 10)
         /\ DigitsIn(0, t) \in Nat
<1> DEFINE R == ReadBack(Fraction!Reverse(t), 10)
           L == Len(t)
<1>1. TenTo[L] \in Nat
  <2>1. L \in Nat
    OBVIOUS
  <2> HIDE DEF L
  <2> QED
    BY <2>1, TenToGrows
<1>2. DigitsIn(0, t) = 0 * TenTo[L] + R
  BY DEF DigitsIn
<1>3. R \in Nat
  BY ReversedReadsNat
<1> HIDE DEF R, L
<1> QED
  BY <1>1, <1>2, <1>3 DEF R

\* When all is printed, the digits are in buf.
LEMMA FractionPrinted ==
  ASSUME Fraction!FloatTextAssumption, FractionInv, pc = "printed"
  PROVE  /\ Fraction!Figures = AllDigits
         /\ \E top \in Int : /\ IsPlaced(top) /\ Fraction!Magnitude = top
                             /\ AllDigits \in Nat \ {0}
<1>1. n = 0 /\ buf \in Seq(0 .. 9) /\ exponent \in Int /\ decimals \in Nat
  BY DEF FractionInv, FractionTypeOK
<1>2. AllDigits \in Nat
  BY <1>1, DigitsInAll DEF AllDigits
<1>3. AllDigits = ReadBack(Fraction!Reverse(buf), 10)
  BY <1>1, DigitsInAll DEF AllDigits
<1>4. Fraction!Figures = AllDigits
  BY <1>3, DecimalsSame DEF Fraction!Figures
<1>5. PICK top \in Int : IsPlaced(top)
  BY DEF FractionInv
<1> DEFINE p == Fraction!Power
           w == top - p
           N == AllDigits
<1>6. p \in Int /\ w \in Nat /\ TenTo[w] <= N /\ N < TenTo[w + 1] /\ N \in Nat
  BY <1>1, <1>2, <1>5, DigitsCounted DEF IsPlaced, Fraction!Power
<1>7. N \in Nat \ {0} /\ Fraction!DigitsOf(N) = w + 1
  <2> HIDE DEF w, N
  <2>1. N \in Nat \ {0}
    BY <1>6, TenToGrows
  <2> QED
    BY <1>6, <2>1, DigitsOfIs
<1>8. Fraction!Magnitude = top
  <2>1. Fraction!Magnitude = Fraction!DigitsOf(N) - 1 + p
    BY <1>4 DEF Fraction!Magnitude
  <2> QED
    BY <1>6, <1>7, <2>1
<1> QED
  BY <1>4, <1>5, <1>7, <1>8

LEMMA FractionNearest ==
  ASSUME Fraction!FloatTextAssumption, FractionInv
  PROVE  Fraction!PrintedIsNearest
<1> SUFFICES ASSUME pc = "printed" PROVE Fraction!IsNearestTo(kept)
  BY DEF Fraction!PrintedIsNearest
<1> DEFINE F == AllDigits
           p == Fraction!Power
           l == Fraction!Min({p, kept.q, Last})
           x == F * TenTo[p - l]
           y == kept.c * TenTo[kept.q - l]
           z == TenTo[Last - l]
<1>1. /\ FractionTypeOK /\ kept.c \in Nat \ {0} /\ kept.q \in Int
      /\ exponent \in Int /\ decimals \in Nat
  BY DEF FractionInv, FractionTypeOK
<1>2. Last \in Int /\ p \in Int
  BY <1>1, LastIs DEF Fraction!Power
<1>3. Fraction!Figures = F /\ F \in Nat /\ IsClose(F, p)
  BY FractionPrinted DEF IsPlaced
<1>4. l \in Int /\ l <= p /\ l <= kept.q /\ l <= Last
  <2> HIDE DEF p
  <2> QED
    BY <1>1, <1>2, FractionLeast
<1> HIDE DEF l
<1>5. Within(x, y, z)
  <2> HIDE DEF F, p
  <2> QED
    BY <1>1, <1>2, <1>3, <1>4, CloseInUnits
<1>6. x \in Int /\ y \in Int /\ z \in Int
  <2> DEFINE f == p - l
             g == kept.q - l
             h == Last - l
  <2>1. f \in Nat /\ g \in Nat /\ h \in Nat
    BY <1>1, <1>2, <1>4
  <2> HIDE DEF f, g, h, F
  <2>2. TenTo[f] \in Nat /\ TenTo[g] \in Nat /\ TenTo[h] \in Nat
    BY <2>1, TenToGrows
  <2>3. F * TenTo[f] \in Int /\ kept.c * TenTo[g] \in Int
    BY <1>1, <1>3, <2>2
  <2> QED
    BY <2>2, <2>3 DEF f, g, h
<1>7. Fraction!LastPlace(kept) = Last
  BY DEF Fraction!LastPlace, Last
<1>8. Fraction!TwiceError(kept, l) = 2 * Fraction!Max({x - y, y - x})
  BY <1>3, DecimalsSame DEF Fraction!TwiceError
<1>9. 2 * Fraction!Max({x - y, y - x}) <= z
  <2> HIDE DEF x, y, z
  <2> DEFINE u == x - y
             v == y - x
  <2>1. u \in Int /\ v \in Int /\ 2 * u <= z /\ 2 * v <= z
    BY <1>5, <1>6 DEF Within
  <2> HIDE DEF u, v
  <2>2. Fraction!Max({u, v}) = IF u >= v THEN u ELSE v
    BY <2>1, FractionExtremes
  <2>3. 2 * Fraction!Max({u, v}) <= z
    BY <2>1, <2>2
  <2> QED
    BY <2>3 DEF u, v
<1>10. Fraction!TwiceError(kept, l) <= Fraction!TenTo[Fraction!LastPlace(kept) - l]
  BY <1>7, <1>8, <1>9, DecimalsSame
<1> QED
  BY <1>7, <1>10 DEF Fraction!IsNearestTo, l

LEMMA FractionFormat ==
  ASSUME Fraction!FloatTextAssumption, FractionInv
  PROVE  Fraction!LooksLikeG
<1> SUFFICES ASSUME pc = "printed" PROVE Fraction!LooksLikeG
  BY DEF Fraction!LooksLikeG
<1>1. /\ buf \in Seq(0 .. 9) /\ Len(buf) \in Nat /\ exponent \in Int /\ decimals \in Nat
      /\ n = 0 /\ Len(buf) > decimals /\ NoZerosAround
  BY DEF FractionInv, FractionTypeOK
<1>2. PICK top \in Int : IsPlaced(top) /\ Fraction!Magnitude = top
  BY FractionPrinted
<1>3. exponent = IF top < -4 \/ top >= SigDigits THEN top ELSE 0
  BY <1>2 DEF IsPlaced
<1>4. top = exponent => Len(buf) = decimals + 1
  <2>1. Len(buf) <= top - Fraction!Power + 1 \/ Len(buf) <= decimals + 1
    BY <1>2 DEF IsPlaced
  <2> QED
    BY <1>1, <2>1 DEF Fraction!Power
<1>5. Len(buf) > decimals + 1 => buf[Len(buf)] # 0
  BY <1>1 DEF NoZerosAround
<1>6. decimals > 0 => buf[1] # 0
  <2>1. buf # << >>
    BY <1>1, EmptySeq
  <2> QED
    BY <1>1, <2>1 DEF NoZerosAround
<1> QED
  BY <1>2, <1>3, <1>4, <1>5, <1>6 DEF Fraction!LooksLikeG

LEMMA FractionExponentReads ==
  ASSUME Fraction!FloatTextAssumption, FractionInv
  PROVE  Fraction!ExponentReadsBack
<1> SUFFICES ASSUME pc = "printed" PROVE Fraction!ExponentReadsBack
  BY DEF Fraction!ExponentReadsBack
<1>1. /\ ebuf \in Seq(0 .. 9) /\ left = 0 /\ ExponentInv
      /\ IF exponent = 0 THEN ebuf = << >> ELSE Len(ebuf) >= 2
  BY DEF FractionInv, FractionTypeOK
<1>2. Fraction!ReadBack(Fraction!Reverse(ebuf), 10) = AllOfExponent
  BY <1>1, DigitsInAll, DecimalsSame DEF AllOfExponent
<1> QED
  BY <1>1, <1>2 DEF ExponentInv, Fraction!ExponentReadsBack

LEMMA FractionFits ==
  ASSUME Fraction!FloatTextAssumption, FractionInv
  PROVE  Fraction!BufferHolds
<1>1. SigDigits \in Nat
  BY DigitsCounted
<1>2. CASE pc \in {"trim", "digits", "exponent", "printed"}
  <2>1. PICK top \in Int : IsPlaced(top)
    BY <1>2 DEF FractionInv
  <2>2. /\ top - Fraction!Power \in 0 .. SigDigits - 1 /\ decimals <= SigDigits + 3
        /\ Len(buf) <= top - Fraction!Power + 1 \/ Len(buf) <= decimals + 1
        /\ Len(buf) \in Nat /\ decimals \in Nat
    BY <2>1 DEF IsPlaced, FractionInv, FractionTypeOK
  <2> QED
    BY <1>1, <2>2 DEF Fraction!BufferHolds
<1>3. CASE pc \notin {"trim", "digits", "exponent", "printed"}
  <2>1. buf = << >>
    BY <1>3 DEF FractionInv
  <2>2. Len(buf) = 0
    BY <2>1, EmptySeq
  <2> QED
    BY <1>1, <2>2 DEF Fraction!BufferHolds
<1> QED
  BY <1>2, <1>3

-----------------------------------------------------------------------------
PrintsInv ==
  /\ part = "digits" => DigitsInv
  /\ part = "fraction" => FractionInv

LEMMA PrintsStart == ChecksInit => PrintsInv
<1> USE ChecksAssumption
<1> QED
  BY DigitsStart, FractionStart DEF ChecksInit, PrintsInv

LEMMA PrintsSteps == PrintsInv /\ [ChecksNext]_checksVars => PrintsInv'
<1> SUFFICES ASSUME PrintsInv, [ChecksNext]_checksVars PROVE PrintsInv'
  OBVIOUS
<1> USE ChecksAssumption
<1>1. part' = part
  BY DEF ChecksNext, checksVars
<1>2. CASE part = "digits"
  <2>1. Digits!Next \/ UNCHANGED Digits!vars
    BY <1>2 DEF ChecksNext, checksVars, printing, integers, Digits!vars
  <2> QED
    BY <1>1, <1>2, <2>1, DigitsSteps, DigitsStutter DEF PrintsInv
<1>3. CASE part = "fraction"
  <2>1. Fraction!Next \/ UNCHANGED Fraction!vars
    BY <1>3 DEF ChecksNext, checksVars, printing, scaled, figures, Fraction!vars,
                Fraction!scaling, Fraction!figures, Fraction!powers
  <2> QED
    BY <1>1, <1>3, <2>1, FractionSteps, FractionStutters DEF PrintsInv
<1>4. CASE part \notin {"digits", "fraction"}
  BY <1>1, <1>4 DEF PrintsInv
<1> QED
  BY <1>2, <1>3, <1>4

(***************************************************************************)
(* For every width and number, every count of significant digits and every *)
(* machine whose rounding is monotone: integers read back as themselves    *)
(* from what Unity prints of them, in every style; floats as the number    *)
(* with the significant digits there are that is nearest to what the       *)
(* machine's rounding has left of them when they are scaled, in the form   *)
(* of %g, with their exponent; and neither the divisor nor the buffer      *)
(* overflows on the way.                                                   *)
(***************************************************************************)
THEOREM NumbersReadBack == ChecksSpec => []NumbersPrintedRight
<1>1. PrintsInv => NumbersPrintedRight
  <2> USE ChecksAssumption
  <2>1. DigitsInv => Digits!ReadsBack /\ Digits!DivisorFits
    BY DigitsFit DEF DigitsInv
  <2>2. FractionInv => /\ Fraction!PrintedIsNearest /\ Fraction!LooksLikeG
                       /\ Fraction!ExponentReadsBack /\ Fraction!BufferHolds
    BY FractionNearest, FractionFormat, FractionExponentReads, FractionFits
  <2> QED
    BY <2>1, <2>2 DEF PrintsInv, NumbersPrintedRight
<1> QED
  BY <1>1, PrintsStart, PrintsSteps, PTL DEF ChecksSpec
=============================================================================
