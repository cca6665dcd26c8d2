----------------------------- MODULE ScanProofs ------------------------------
(***************************************************************************)
(* The checksum that MatchFile rolls along is the one a block with the     *)
(* window's bytes has in the index, for every block size, every width of   *)
(* the integers and every file; and the scan read by read is the scan of   *)
(* module Patch.                                                           *)
(***************************************************************************)
EXTENDS MatchScan, StoreProofs

-----------------------------------------------------------------------------
(* Sums.                                                                   *)

\* SetInduction for the numbers up to n.
LEMMA UpTo ==
  ASSUME NEW n \in Nat, NEW S, 0 \in S, \A m \in 0..(n - 1) : m \in S => m + 1 \in S
  PROVE  \A m \in 0..n : m \in S
<1> DEFINE T == S \cup {m \in Nat : m > n}
<1>1. 0 \in T
  OBVIOUS
<1>2. \A m \in Nat : m \in T => m + 1 \in T
  <2> SUFFICES ASSUME NEW m \in Nat, m \in T  PROVE m + 1 \in T
    OBVIOUS
  <2>1. CASE m < n
    <3>1. m \in 0..(n - 1) /\ m \in S
      BY <2>1
    <3> QED BY <3>1
  <2>2. CASE ~(m < n)
    <3>1. m + 1 \in Nat /\ m + 1 > n
      BY <2>2
    <3> QED BY <3>1
  <2> QED BY <2>1, <2>2
<1> HIDE DEF T
<1>3. Nat \subseteq T
  BY <1>1, <1>2, SetInduction
<1> QED
  <2> SUFFICES ASSUME NEW m \in 0..n  PROVE m \in S
    OBVIOUS
  <2>1. m \in Nat /\ ~(m > n)
    OBVIOUS
  <2> QED BY <1>3, <2>1 DEF T

\* s has the sum of the first numbers of c, for every number of them.
Sums(s, c, n) ==
  /\ s[0] = 0
  /\ \A i \in 1..n : s[i] = s[i - 1] + c[i]

Ints(f, first, last) == \A i \in first..last : f[i] \in Int

\* There are such sums.
LEMMA SumsExist ==
  ASSUME NEW n \in Nat, NEW c \in [1..n -> Int]
  PROVE  \E s \in [0..n -> Int] : s = [i \in 0..n |-> IF i = 0 THEN 0 ELSE s[i - 1] + c[i]]
<1> DEFINE Good(m, s) == s = [i \in 0..m |-> IF i = 0 THEN 0 ELSE s[i - 1] + c[i]]
           S == {m \in 0..n : \E s \in [0..m -> Int] : Good(m, s)}
<1>1. 0 \in S
  <2> DEFINE z == [i \in 0..0 |-> 0]
  <2>1. z \in [0..0 -> Int]
    OBVIOUS
  <2>2. Good(0, z)
    <3>1. \A i \in 0..0 : i = 0
      OBVIOUS
    <3> QED BY <3>1
  <2>3. 0 \in 0..n
    OBVIOUS
  <2> HIDE DEF Good, z
  <2> QED BY <2>1, <2>2, <2>3
<1>2. \A m \in 0..(n - 1) : m \in S => m + 1 \in S
  <2> SUFFICES ASSUME NEW m \in 0..(n - 1), m \in S  PROVE m + 1 \in S
    OBVIOUS
  <2>1. PICK s \in [0..m -> Int] : Good(m, s)
    OBVIOUS
  <2>2. c[m + 1] \in Int /\ m \in Nat /\ m + 1 \in 0..n
    OBVIOUS
  <2>3. \A i \in 0..m : s[i] \in Int /\ s[i] = IF i = 0 THEN 0 ELSE s[i - 1] + c[i]
    <3> SUFFICES ASSUME NEW i \in 0..m
                 PROVE  s[i] \in Int /\ s[i] = IF i = 0 THEN 0 ELSE s[i - 1] + c[i]
      OBVIOUS
    <3>1. s[i] = [j \in 0..m |-> IF j = 0 THEN 0 ELSE s[j - 1] + c[j]][i]
      BY <2>1, Zenon
    <3> QED BY <3>1
  <2> DEFINE t == [i \in 0..(m + 1) |-> IF i = m + 1 THEN s[m] + c[m + 1] ELSE s[i]]
  <2>4. t \in [0..(m + 1) -> Int]
    BY <2>2, <2>3
  <2>5. \A i \in 0..(m + 1) : t[i] = IF i = 0 THEN 0 ELSE t[i - 1] + c[i]
    <3> SUFFICES ASSUME NEW i \in 0..(m + 1)
                 PROVE  t[i] = IF i = 0 THEN 0 ELSE t[i - 1] + c[i]
      OBVIOUS
    <3>1. CASE i = m + 1
      BY <2>2, <3>1
    <3>2. CASE i # m + 1
      <4>1. i \in 0..m /\ (i # 0 => i - 1 \in 0..m /\ i - 1 # m + 1)
        BY <2>2, <3>2
      <4> QED BY <2>3, <3>2, <4>1
    <3> QED BY <3>1, <3>2
  <2>6. t = [i \in 0..(m + 1) |-> t[i]]
    OBVIOUS
  <2> HIDE DEF t
  <2>7. Good(m + 1, t)
    BY <2>5, <2>6
  <2> HIDE DEF Good
  <2> QED BY <2>2, <2>4, <2>7
<1> HIDE DEF S
<1>3. \A m \in 0..n : m \in S
  BY <1>1, <1>2, UpTo
<1>4. n \in 0..n
  OBVIOUS
<1>5. n \in S
  BY <1>3, <1>4
<1> QED BY <1>5 DEF S

\* Total is the last of them.
LEMMA TotalSums ==
  ASSUME NEW c \in Seq(Int)
  PROVE  \E s \in [0..Len(c) -> Int] : Sums(s, c, Len(c)) /\ Total(c) = s[Len(c)]
<1> DEFINE n == Len(c)
           s == CHOOSE f : f = [i \in 0..n |-> IF i = 0 THEN 0 ELSE f[i - 1] + c[i]]
<1>1. n \in Nat /\ c \in [1..n -> Int]
  BY LenProperties
<1>2. Total(c) = s[n]
  BY DEF Total
<1> HIDE DEF n
<1>3. PICK f \in [0..n -> Int] : f = [i \in 0..n |-> IF i = 0 THEN 0 ELSE f[i - 1] + c[i]]
  BY <1>1, SumsExist
<1>4. s = [i \in 0..n |-> IF i = 0 THEN 0 ELSE s[i - 1] + c[i]]
  BY <1>3, Zenon
<1> HIDE DEF s
<1> DEFINE Z == {m \in 0..n : s[m] \in Int}
<1>5. \A i \in 0..n : s[i] = IF i = 0 THEN 0 ELSE s[i - 1] + c[i]
  <2> SUFFICES ASSUME NEW i \in 0..n  PROVE s[i] = IF i = 0 THEN 0 ELSE s[i - 1] + c[i]
    OBVIOUS
  <2>1. s[i] = [j \in 0..n |-> IF j = 0 THEN 0 ELSE s[j - 1] + c[j]][i]
    BY <1>4, Zenon
  <2> QED BY <2>1
<1>6. s[0] = 0 /\ \A i \in 1..n : s[i] = s[i - 1] + c[i]
  BY <1>1, <1>5
<1>7. \A m \in 0..n : m \in Z
  <2>1. 0 \in Z
    BY <1>1, <1>6
  <2>2. \A m \in 0..(n - 1) : m \in Z => m + 1 \in Z
    <3> SUFFICES ASSUME NEW m \in 0..(n - 1), m \in Z  PROVE m + 1 \in Z
      OBVIOUS
    <3>1. m + 1 \in 1..n /\ (m + 1) - 1 = m
      BY <1>1
    <3>2. s[m + 1] = s[m] + c[m + 1] /\ c[m + 1] \in Int
      BY <1>1, <1>6, <3>1
    <3> QED BY <3>1, <3>2
  <2> HIDE DEF Z
  <2> QED BY <1>1, <2>1, <2>2, UpTo
<1>8. s \in [0..n -> Int]
  <2>1. s = [i \in 0..n |-> s[i]]
    BY <1>4
  <2>2. \A i \in 0..n : s[i] \in Int
    BY <1>7
  <2> QED BY <2>1, <2>2
<1> QED BY <1>2, <1>6, <1>8 DEF Sums, n

\* Integers wrap where it does not show: a sum may be taken modulo W before or after.
LEMMA WrapsEarly ==
  ASSUME NEW x \in Int, NEW y \in Int
  PROVE  ((x % W) + y) % W = (x + y) % W
<1> USE WidthAssumption
<1> DEFINE q == x \div W
           r == x % W
           k == (r + y) \div W
           t == (r + y) % W
<1>1. q \in Int /\ r \in Int /\ x = q * W + r
  OBVIOUS
<1> HIDE DEF q, r
<1>2. k \in Int /\ t \in 0..(W - 1) /\ r + y = k * W + t
  BY <1>1
<1> HIDE DEF k, t
<1>3. x + y = q * W + (k * W + t)
  BY <1>1, <1>2
<1>4. q * W + (k * W + t) = (q + k) * W + t
  BY <1>1, <1>2
<1> DEFINE l == q + k
<1>5. l \in Int /\ x + y = l * W + t
  BY <1>1, <1>2, <1>3, <1>4
<1> HIDE DEF l
<1>6. (l * W + t) % W = t
  BY <1>2, <1>5
<1>7. (x + y) % W = t
  BY <1>5, <1>6
<1> QED BY <1>7 DEF r, t

\* Window w of n bytes has moved on by one to v; pw and pv are their weighted bytes.
MovedByOne(n, w, v, pw, pv) ==
  /\ \A i \in 1..(n - 1) : v[i] = w[i + 1]
  /\ \A i \in 1..(n - 1) : pv[i] = pw[i + 1] + w[i + 1]
  /\ pv[n] = v[n]

\* sw and sv are the partial sums of w and v, bw and bv those of pw and pv.
SummedUp(n, w, v, pw, pv, sw, sv, bw, bv) ==
  /\ n \in Nat \ {0}
  /\ Ints(w, 1, n) /\ Ints(v, 1, n) /\ Ints(pw, 1, n) /\ Ints(pv, 1, n)
  /\ Ints(sw, 0, n) /\ Ints(sv, 0, n) /\ Ints(bw, 0, n) /\ Ints(bv, 0, n)
  /\ Sums(sw, w, n) /\ Sums(sv, v, n) /\ Sums(bw, pw, n) /\ Sums(bv, pv, n)

\* What the last sums are then.
Shifted(n, w, v, pw, sw, sv, bw, bv) ==
  /\ sv[n] = sw[n] - w[1] + v[n]
  /\ bv[n] = bw[n] - pw[1] + sv[n]

\* The partial sums of the window move on with it.
LEMMA ShiftedSums ==
  ASSUME NEW n, NEW w, NEW v, NEW pw, NEW pv, NEW sw, NEW sv, NEW bw, NEW bv,
         SummedUp(n, w, v, pw, pv, sw, sv, bw, bv), MovedByOne(n, w, v, pw, pv)
  PROVE  Shifted(n, w, v, pw, sw, sv, bw, bv)
<1>0. /\ n \in Nat \ {0}
      /\ Ints(w, 1, n) /\ Ints(v, 1, n) /\ Ints(pw, 1, n) /\ Ints(pv, 1, n)
      /\ Ints(sw, 0, n) /\ Ints(sv, 0, n) /\ Ints(bw, 0, n) /\ Ints(bv, 0, n)
      /\ Sums(sw, w, n) /\ Sums(sv, v, n) /\ Sums(bw, pw, n) /\ Sums(bv, pv, n)
  BY DEF SummedUp
<1> USE <1>0
<1> DEFINE Z == {m \in 0..(n - 1) : /\ sv[m] = sw[m + 1] - w[1]
                                    /\ bv[m] = bw[m + 1] - pw[1] + sv[m]}
<1>1. 0 \in Z
  <2>1. 1 \in 1..n /\ 0 \in 0..(n - 1) /\ 1 - 1 = 0 /\ 0 + 1 = 1
    OBVIOUS
  <2>2. sw[0] = 0 /\ sv[0] = 0 /\ bw[0] = 0 /\ bv[0] = 0
    BY DEF Sums
  <2>3. sw[1] = sw[0] + w[1] /\ bw[1] = bw[0] + pw[1] /\ w[1] \in Int /\ pw[1] \in Int
    BY <2>1 DEF Sums, Ints
  <2>4. sw[1] = w[1] /\ bw[1] = pw[1]
    BY <2>2, <2>3
  <2> QED BY <2>1, <2>2, <2>3, <2>4
<1>2. \A m \in 0..((n - 1) - 1) : m \in Z => m + 1 \in Z
  <2> SUFFICES ASSUME NEW m \in 0..((n - 1) - 1), m \in Z  PROVE m + 1 \in Z
    OBVIOUS
  <2> DEFINE k == m + 1
             j == m + 2
  <2>1. /\ m \in 0..n /\ k \in 1..n /\ j \in 1..n /\ k \in 0..(n - 1) /\ k \in 1..(n - 1)
        /\ k - 1 = m /\ j - 1 = k /\ k + 1 = j /\ k \in 0..n /\ j \in 0..n
    OBVIOUS
  <2>2. sv[m] = sw[k] - w[1] /\ bv[m] = bw[k] - pw[1] + sv[m]
    OBVIOUS
  <2>3. k = m + 1
    OBVIOUS
  <2> HIDE DEF k, j
  <2>4. /\ sw[j] = sw[k] + w[j] /\ sv[k] = sv[m] + v[k]
        /\ bw[j] = bw[k] + pw[j] /\ bv[k] = bv[m] + pv[k]
        /\ v[k] = w[j] /\ pv[k] = pw[j] + w[j]
    BY <2>1 DEF Sums, MovedByOne
  <2>5. /\ sw[j] \in Int /\ sw[k] \in Int /\ sv[m] \in Int /\ sv[k] \in Int
        /\ bw[j] \in Int /\ bw[k] \in Int /\ bv[m] \in Int /\ bv[k] \in Int
        /\ w[1] \in Int /\ pw[1] \in Int /\ w[j] \in Int /\ pw[j] \in Int
    <3>1. /\ sw[j] \in Int /\ sw[k] \in Int /\ sv[m] \in Int /\ sv[k] \in Int
      BY <2>1 DEF Ints
    <3>2. bw[j] \in Int /\ bw[k] \in Int /\ bv[m] \in Int /\ bv[k] \in Int
      BY <2>1 DEF Ints
    <3>3. w[j] \in Int /\ pw[j] \in Int /\ w[1] \in Int /\ pw[1] \in Int
      BY <2>1, 1 \in 1..n DEF Ints
    <3> QED BY <3>1, <3>2, <3>3
  <2>6. sv[k] = sw[j] - w[1]
    BY <2>2, <2>4, <2>5
  <2>7. bv[k] = bw[j] - pw[1] + sv[k]
    BY <2>2, <2>4, <2>5
  <2> QED BY <2>1, <2>3, <2>6, <2>7
<1>3. n - 1 \in Nat /\ n - 1 \in 0..(n - 1) /\ (n - 1) + 1 = n /\ n \in 1..n /\ n - 1 \in 0..n
  OBVIOUS
<1>4. n - 1 \in Z
  <2> HIDE DEF Z
  <2>1. \A m \in 0..(n - 1) : m \in Z
    BY <1>1, <1>2, <1>3, UpTo
  <2> QED BY <1>3, <2>1
<1>5. sv[n - 1] = sw[n] - w[1] /\ bv[n - 1] = bw[n] - pw[1] + sv[n - 1]
  BY <1>3, <1>4
<1>6. sv[n] = sv[n - 1] + v[n] /\ bv[n] = bv[n - 1] + v[n]
  BY <1>3 DEF Sums, MovedByOne
<1>7. /\ sw[n] \in Int /\ sv[n] \in Int /\ bw[n] \in Int /\ bv[n] \in Int /\ v[n] \in Int
      /\ sv[n - 1] \in Int /\ bv[n - 1] \in Int /\ w[1] \in Int /\ pw[1] \in Int
  BY <1>3, n \in 0..n, 1 \in 1..n DEF Ints
<1> HIDE DEF Z
<1> QED BY <1>5, <1>6, <1>7 DEF Shifted

\* The weighted bytes of a sequence.
LEMMA WeightedFacts ==
  ASSUME NEW w \in Seq(Int)
  PROVE  /\ Weighted(w) \in Seq(Int) /\ Len(Weighted(w)) = Len(w)
         /\ \A i \in 1..Len(w) : Weighted(w)[i] = (Len(w) - i + 1) * w[i]
<1> DEFINE n == Len(w)
           e(i) == (n - i + 1) * w[i]
<1>1. n \in Nat /\ \A i \in 1..n : w[i] \in Int
  BY LenProperties, ElementOfSeq
<1>2. Weighted(w) = [i \in 1..n |-> e(i)]
  BY DEF Weighted
<1>3. n = Len(w)
  OBVIOUS
<1> HIDE DEF n
<1>4. \A i \in 1..n : e(i) \in Int
  <2> SUFFICES ASSUME NEW i \in 1..n  PROVE e(i) \in Int
    OBVIOUS
  <2>1. w[i] \in Int /\ n - i + 1 \in Int
    BY <1>1
  <2> QED BY <2>1
<1>5. \A i \in 1..n : e(i) = (n - i + 1) * w[i]
  OBVIOUS
<1> HIDE DEF e
<1>6. Weighted(w) \in Seq(Int) /\ Len(Weighted(w)) = n
  BY <1>1, <1>2, <1>4
<1>7. \A i \in 1..n : Weighted(w)[i] = e(i)
  BY <1>2
<1> QED BY <1>3, <1>5, <1>6, <1>7

\* The window moves by one: its first byte goes and x comes.
LEMMA AdvanceFacts ==
  ASSUME NEW S, NEW w \in Seq(S), w # <<>>, NEW x \in S
  PROVE  /\ Len(w) \in Nat \ {0} /\ Head(w) = w[1] /\ w[1] \in S
         /\ Append(Tail(w), x) \in Seq(S) /\ Len(Append(Tail(w), x)) = Len(w)
         /\ \A i \in 1..(Len(w) - 1) : Append(Tail(w), x)[i] = w[i + 1]
         /\ Append(Tail(w), x)[Len(w)] = x
<1> DEFINE n == Len(w)
           u == Tail(w)
<1>1. n \in Nat \ {0} /\ \A i \in 1..n : w[i] \in S
  BY EmptySeq, LenProperties, ElementOfSeq
<1>2. Head(w) = w[1] /\ w[1] \in S
  BY <1>1, HeadTailProperties
<1>3. u \in Seq(S) /\ Len(u) = n - 1 /\ \A i \in 1..(n - 1) : u[i] = w[i + 1]
  BY HeadTailProperties
<1> HIDE DEF u, n
<1>4. /\ Append(u, x) \in Seq(S) /\ Len(Append(u, x)) = Len(u) + 1
      /\ \A i \in 1..Len(u) : Append(u, x)[i] = u[i]
      /\ Append(u, x)[Len(u) + 1] = x
  BY <1>3, AppendProperties
<1>5. Len(u) + 1 = n
  BY <1>1, <1>3
<1>6. /\ Append(u, x) \in Seq(S) /\ Len(Append(u, x)) = n /\ Append(u, x)[n] = x
      /\ \A i \in 1..(n - 1) : Append(u, x)[i] = w[i + 1]
  BY <1>3, <1>4, <1>5
<1> QED BY <1>1, <1>2, <1>6 DEF u, n

\* What the sums of the window are then.
LEMMA RolledSums ==
  ASSUME NEW w \in Seq(Int), w # <<>>, NEW x \in Int
  PROVE  LET v == Append(Tail(w), x)
         IN  /\ Total(w) \in Int /\ Total(v) \in Int /\ Total(Weighted(w)) \in Int
             /\ Total(v) = Total(w) - w[1] + x
             /\ Total(Weighted(v)) = Total(Weighted(w)) - Len(w) * w[1] + Total(v)
<1> DEFINE n == Len(w)
           v == Append(Tail(w), x)
           pw == Weighted(w)
           pv == Weighted(v)
<1>1. /\ n \in Nat \ {0} /\ w[1] \in Int /\ v \in Seq(Int) /\ Len(v) = n /\ v[n] = x
      /\ \A i \in 1..(n - 1) : v[i] = w[i + 1]
  BY AdvanceFacts
<1>2. n = Len(w)
  OBVIOUS
<1> HIDE DEF v, n
<1>3. pw \in Seq(Int) /\ Len(pw) = n /\ \A i \in 1..n : pw[i] = (n - i + 1) * w[i]
  BY <1>2, WeightedFacts
<1>4. pv \in Seq(Int) /\ Len(pv) = n /\ \A i \in 1..n : pv[i] = (n - i + 1) * v[i]
  BY <1>1, WeightedFacts
<1> HIDE DEF pw, pv
<1>5. /\ w \in [1..n -> Int] /\ v \in [1..n -> Int]
      /\ pw \in [1..n -> Int] /\ pv \in [1..n -> Int]
  BY <1>1, <1>2, <1>3, <1>4, LenProperties
<1>6. PICK sw \in [0..n -> Int] : Sums(sw, w, n) /\ Total(w) = sw[n]
  BY <1>2, TotalSums
<1>7. PICK sv \in [0..n -> Int] : Sums(sv, v, n) /\ Total(v) = sv[n]
  BY <1>1, TotalSums
<1>8. PICK bw \in [0..n -> Int] : Sums(bw, pw, n) /\ Total(pw) = bw[n]
  BY <1>3, TotalSums
<1>9. PICK bv \in [0..n -> Int] : Sums(bv, pv, n) /\ Total(pv) = bv[n]
  BY <1>4, TotalSums
<1>11. \A i \in 1..(n - 1) : pv[i] = pw[i + 1] + w[i + 1]
  <2> SUFFICES ASSUME NEW i \in 1..(n - 1)  PROVE pv[i] = pw[i + 1] + w[i + 1]
    OBVIOUS
  <2> DEFINE k == n - i
             e == w[i + 1]
  <2>1. k \in Int /\ i \in 1..n /\ i + 1 \in 1..n /\ n - i + 1 = k + 1 /\ n - (i + 1) + 1 = k
    BY <1>1
  <2>2. e \in Int /\ v[i] = e
    BY <1>1, <1>5, <2>1
  <2>3. pv[i] = (k + 1) * e /\ pw[i + 1] = k * e
    BY <1>3, <1>4, <2>1, <2>2
  <2> HIDE DEF k, e
  <2>4. (k + 1) * e = k * e + e
    BY <2>1, <2>2
  <2> QED BY <2>3, <2>4 DEF e
<1>12. pv[n] = v[n] /\ pw[1] = n * w[1]
  <2>1. n \in 1..n /\ 1 \in 1..n /\ n - n + 1 = 1 /\ n - 1 + 1 = n
    BY <1>1
  <2>2. v[n] \in Int
    BY <1>5, <2>1
  <2>3. 1 * v[n] = v[n]
    BY <2>2
  <2> QED BY <1>3, <1>4, <2>1, <2>3
<1>10. MovedByOne(n, w, v, pw, pv)
  BY <1>1, <1>11, <1>12 DEF MovedByOne
<1>13. sv[n] = sw[n] - w[1] + v[n] /\ bv[n] = bw[n] - pw[1] + sv[n]
  <2>1. Ints(w, 1, n) /\ Ints(v, 1, n) /\ Ints(pw, 1, n) /\ Ints(pv, 1, n)
    BY <1>5 DEF Ints
  <2>2. Ints(sw, 0, n) /\ Ints(sv, 0, n) /\ Ints(bw, 0, n) /\ Ints(bv, 0, n)
    BY DEF Ints
  <2>3. SummedUp(n, w, v, pw, pv, sw, sv, bw, bv)
    BY <1>1, <1>6, <1>7, <1>8, <1>9, <2>1, <2>2, Zenon DEF SummedUp
  <2>4. Shifted(n, w, v, pw, sw, sv, bw, bv)
    BY <1>10, <2>3, ShiftedSums, Zenon
  <2> QED BY <2>4 DEF Shifted
<1>14. sw[n] \in Int /\ sv[n] \in Int /\ bw[n] \in Int
  BY <1>1, n \in 0..n
<1>15. /\ Total(w) \in Int /\ Total(v) \in Int /\ Total(pw) \in Int
       /\ Total(v) = Total(w) - w[1] + x
       /\ Total(pv) = Total(pw) - n * w[1] + Total(v)
  BY <1>1, <1>6, <1>7, <1>8, <1>9, <1>12, <1>13, <1>14, Zenon
<1> QED BY <1>15, Zenon DEF pw, pv, v, n

-----------------------------------------------------------------------------
(* The window and the file.                                                *)

\* A range that ends within the file has the length asked for, and its bytes.
LEMMA SliceBytes ==
  ASSUME NEW c \in Seq(Byte), NEW o \in Nat, NEW n \in Nat, o + n <= Len(c)
  PROVE  /\ Slice(c, o, n) \in Seq(Byte) /\ Len(Slice(c, o, n)) = n
         /\ \A i \in 1..n : Slice(c, o, n)[i] = c[o + i]
<1> DEFINE end == IF o + n < Len(c) THEN o + n ELSE Len(c)
           u == SubSeq(c, o + 1, end)
<1>1. Len(c) \in Nat /\ end = o + n
  BY LenProperties
<1>2. Slice(c, o, n) = u
  BY DEF Slice
<1> HIDE DEF end
<1>3. end \in Int /\ o + 1 \in Int
  BY <1>1
<1>4. \A i \in (o + 1)..end : c[i] \in Byte
  BY <1>1, ElementOfSeq
<1>5. /\ u \in Seq(Byte)
      /\ Len(u) = IF o + 1 <= end THEN end - (o + 1) + 1 ELSE 0
      /\ \A i \in 1..(end - (o + 1) + 1) : u[i] = c[(o + 1) + i - 1]
  BY <1>3, <1>4, SubSeqProperties
<1> HIDE DEF u
<1>6. end - (o + 1) + 1 = n /\ (o + 1 <= end <=> n > 0)
  BY <1>1
<1>7. Len(u) = n
  BY <1>5, <1>6
<1>8. \A i \in 1..n : u[i] = c[o + i]
  <2> SUFFICES ASSUME NEW i \in 1..n  PROVE u[i] = c[o + i]
    OBVIOUS
  <2>1. (o + 1) + i - 1 = o + i
    OBVIOUS
  <2> QED BY <1>5, <1>6, <2>1
<1> QED BY <1>2, <1>5, <1>7, <1>8

\* Bytes that follow each other in the file are a range of it.
LEMMA IsSlice ==
  ASSUME NEW c \in Seq(Byte), NEW o \in Nat, NEW w \in Seq(Byte), o + Len(w) <= Len(c),
         \A i \in 1..Len(w) : w[i] = c[o + i]
  PROVE  w = Slice(c, o, Len(w))
<1> DEFINE n == Len(w)
           u == Slice(c, o, n)
<1>1. n \in Nat
  BY LenProperties
<1>2. u \in Seq(Byte) /\ Len(u) = n /\ \A i \in 1..n : u[i] = c[o + i]
  BY <1>1, SliceBytes
<1> HIDE DEF u
<1>3. \A i \in 1..Len(w) : w[i] = u[i]
  BY <1>2
<1>4. w = u
  BY <1>2, <1>3, SeqEqual
<1> QED BY <1>4 DEF u

\* A range is cut off where the file ends, ...
LEMMA SliceToEnd ==
  ASSUME NEW c \in Seq(Byte), NEW o \in Nat, NEW n \in Nat, NEW m \in Nat,
         o + n = Len(c), n <= m
  PROVE  Slice(c, o, m) = Slice(c, o, n)
<1>1. Len(c) \in Nat /\ ~(o + n < Len(c)) /\ ~(o + m < Len(c))
  BY LenProperties
<1> QED BY <1>1 DEF Slice

\* ... and has its own length.
LEMMA SliceOfItsLength ==
  ASSUME NEW c \in Seq(Byte), NEW o \in 0..Len(c), NEW n \in Nat
  PROVE  LET len == Len(Slice(c, o, n))
         IN  /\ len \in 0..n /\ o + len \in 0..Len(c)
             /\ Slice(c, o, n) = Slice(c, o, len)
             /\ len = n \/ o + len = Len(c)
<1> DEFINE len == Len(Slice(c, o, n))
           rest == Len(c) - o
<1>1. Len(c) \in Nat /\ o \in Nat
  BY LenProperties
<1>2. CASE o + n <= Len(c)
  <2>1. len = n
    BY <1>1, <1>2, SliceBytes
  <2> HIDE DEF len
  <2>2. Slice(c, o, n) = Slice(c, o, len)
    BY <2>1
  <2> QED BY <1>1, <1>2, <2>1, <2>2 DEF len
<1>3. CASE ~(o + n <= Len(c))
  <2>1. rest \in Nat /\ o + rest = Len(c) /\ rest <= n
    BY <1>1, <1>3
  <2> HIDE DEF rest
  <2>2. Slice(c, o, n) = Slice(c, o, rest)
    BY <1>1, <2>1, SliceToEnd
  <2>3. len = rest
    BY <1>1, <2>1, <2>2, SliceBytes
  <2> HIDE DEF len
  <2> QED BY <1>1, <2>1, <2>2, <2>3 DEF len
<1> QED BY <1>2, <1>3

\* What is scanned is a file, the one that the scan of Patch is on.
LEMMA ScanFacts ==
  ASSUME IsScanned(world)
  PROVE  /\ File \in Seq(Byte) /\ Len(File) \in Nat
         /\ Coarse!Local = File
         /\ BlockSize \in Nat \ {0}
<1>1. IsTree(world.dst) /\ world.dstRoot # <<>> /\ IsFile(world.dst, world.dstRoot)
  <2>1. Coarse!IsTree(world.dst) <=> IsTree(world.dst)
    BY Zenon DEF Coarse!IsTree, IsTree, Coarse!IsFiniteSet, IsFiniteSet, Coarse!Path, Path,
       Coarse!Entry, Entry
  <2> QED BY <2>1 DEF IsScanned, Coarse!IsWorld, Coarse!IsStore
<1>2. File \in Seq(Byte)
  BY <1>1 DEF File, IsTree, IsFile, Exists, Entry
<1>3. Coarse!Local = File
  BY <1>1 DEF Coarse!Local, Coarse!Located, Coarse!Resolve, File
<1> QED BY <1>2, <1>3, BlockSizeAssumption, LenProperties

\* At the end the whole file has been read, and what was read last is unknown.
Ended == done => dstOffset = Len(File) /\ (window = <<>> \/ Known = {})

\* The window is no longer than what was read.
WindowRead == Len(window) <= dstOffset

IInv ==
  /\ TypeOK
  /\ WindowRead
  /\ WindowInFile
  /\ RolledIsWritten
  /\ Ended

\* What the invariant says of a window.
LEMMA WindowFacts ==
  ASSUME IInv
  PROVE  /\ File \in Seq(Byte) /\ Len(File) \in Nat /\ Coarse!Local = File
         /\ BlockSize \in Nat \ {0}
         /\ dstOffset \in Nat /\ dstOffset <= Len(File)
         /\ window \in Seq(Byte) /\ Len(window) \in Nat /\ Len(window) <= BlockSize
         /\ WindowStart \in Nat /\ WindowStart + Len(window) = dstOffset
<1>1. File \in Seq(Byte) /\ Len(File) \in Nat /\ Coarse!Local = File /\ BlockSize \in Nat \ {0}
  BY ScanFacts DEF IInv, TypeOK
<1>2. /\ dstOffset \in 0..Len(File) /\ window \in Seq(Byte) /\ Len(window) <= BlockSize
      /\ Len(window) <= dstOffset
  BY DEF IInv, TypeOK, WindowRead
<1>3. Len(window) \in Nat
  BY <1>2, LenProperties
<1> QED BY <1>1, <1>2, <1>3 DEF WindowStart

\* A window that is not empty is the one of Patch, and what is known of it too.
LEMMA SameWindow ==
  ASSUME IInv, window # <<>>
  PROVE  window = Coarse!Window /\ Known = Coarse!WindowMatch
<1> DEFINE n == Len(window)
<1>1. /\ File \in Seq(Byte) /\ Len(File) \in Nat /\ Coarse!Local = File /\ BlockSize \in Nat \ {0}
      /\ dstOffset \in Nat /\ dstOffset <= Len(File) /\ n \in Nat /\ n <= BlockSize
      /\ WindowStart \in Nat /\ WindowStart + n = dstOffset
  BY WindowFacts
<1>2. /\ window = Slice(File, WindowStart, n)
      /\ dstOffset < Len(File) => n = BlockSize
  BY DEF IInv, WindowInFile
<1>3. Coarse!Window = Slice(File, WindowStart, BlockSize)
  <2>1. Coarse!Slice(File, WindowStart, BlockSize) = Slice(File, WindowStart, BlockSize)
    BY DEF Coarse!Slice, Slice
  <2>2. Coarse!Window = Coarse!Slice(Coarse!Local, WindowStart, BlockSize)
    BY DEF Coarse!Window
  <2> QED BY <1>1, <2>1, <2>2
<1> HIDE DEF n
<1>4. window = Coarse!Window
  <2>1. CASE dstOffset < Len(File)
    BY <1>2, <1>3, <2>1
  <2>2. CASE ~(dstOffset < Len(File))
    <3>1. WindowStart + n = Len(File)
      BY <1>1, <2>2
    <3>2. Slice(File, WindowStart, BlockSize) = Slice(File, WindowStart, n)
      BY <1>1, <3>1, SliceToEnd
    <3> QED BY <1>2, <1>3, <3>2
  <2> QED BY <2>1, <2>2
<1>5. WeakOf(window) = Get(a, b)
  BY DEF IInv, RolledIsWritten, WeakOf
<1>6. WeakOf(Coarse!Window) = Get(a, b)
  BY <1>4, <1>5
<1>7. Coarse!WindowMatch =
        {blk \in Coarse!WeakBlock(world.repo, world.src, world.srcRoot, WeakOf(Coarse!Window)) :
           blk.bytes = Coarse!Window}
  BY DEF Coarse!WindowMatch, Coarse!src
<1>8. Known = Coarse!WindowMatch
  BY <1>4, <1>6, <1>7, Zenon DEF Known
<1> QED BY <1>4, <1>8

-----------------------------------------------------------------------------
(* The steps.                                                              *)

\* Initially nothing is read.
LEMMA InitInv == Init => IInv
<1> SUFFICES ASSUME Init  PROVE IInv
  OBVIOUS
<1>1. /\ world \in Worlds /\ dstOffset = 0 /\ window = <<>> /\ a = 0 /\ b = 0
      /\ matches = <<>> /\ done = FALSE
  BY DEF Init
<1>2. IsScanned(world)
  BY <1>1, WorldsAssumption
<1>3. File \in Seq(Byte) /\ Len(File) \in Nat /\ BlockSize \in Nat \ {0}
  BY <1>2, ScanFacts
<1>4. Len(window) = 0 /\ window \in Seq(Byte) /\ matches \in Seq([src : Nat, dst : Nat])
  BY <1>1
<1>5. TypeOK
  <2>1. dstOffset \in 0..Len(File) /\ Len(window) <= BlockSize
    BY <1>1, <1>3, <1>4
  <2>2. a \in 0..(W - 1) /\ b \in 0..(W - 1)
    BY <1>1, WidthAssumption
  <2> QED BY <1>1, <1>2, <1>4, <2>1, <2>2 DEF TypeOK
<1>6. WindowRead
  BY <1>1, <1>4 DEF WindowRead
<1>7. WindowInFile
  <2>1. WindowStart = 0
    <3>1. WindowStart = 0 - 0
      BY <1>1, <1>4, Zenon DEF WindowStart
    <3> QED BY <3>1
  <2>2. Slice(File, 0, 0) = <<>>
    <3>1. Slice(File, 0, 0) \in Seq(Byte) /\ Len(Slice(File, 0, 0)) = 0
      BY <1>3, SliceBytes
    <3> QED BY <3>1, EmptySeq
  <2> QED BY <1>1, <1>4, <2>1, <2>2 DEF WindowInFile
<1> QED BY <1>1, <1>5, <1>6, <1>7 DEF IInv, RolledIsWritten, Ended

\* Bytes are integers.
LEMMA BytesAreInts == Byte \subseteq Int /\ Seq(Byte) \subseteq Seq(Int)
<1>1. Byte \subseteq Int
  BY WidthAssumption
<1>2. ASSUME NEW w \in Seq(Byte)  PROVE w \in Seq(Int)
  <2> DEFINE n == Len(w)
  <2>1. n \in Nat /\ w \in [1..n -> Byte]
    BY LenProperties
  <2> HIDE DEF n
  <2>2. w \in [1..n -> Int]
    BY <1>1, <2>1
  <2> QED BY <2>1, <2>2, SeqDef
<1> QED BY <1>1, <1>2

\* The sums written are machine integers.
LEMMA Written ==
  ASSUME NEW w \in Seq(Byte)
  PROVE  WriteA(w) \in 0..(W - 1) /\ WriteB(w) \in 0..(W - 1)
<1>1. w \in Seq(Int)
  BY BytesAreInts
<1>2. \A c \in Seq(Int) : Total(c) \in Int
  <2> SUFFICES ASSUME NEW c \in Seq(Int)  PROVE Total(c) \in Int
    OBVIOUS
  <2>1. PICK s \in [0..Len(c) -> Int] : Sums(s, c, Len(c)) /\ Total(c) = s[Len(c)]
    BY TotalSums
  <2>2. Len(c) \in 0..Len(c)
    BY LenProperties
  <2> QED BY <2>1, <2>2
<1>3. Total(w) \in Int /\ Total(Weighted(w)) \in Int
  BY <1>1, <1>2, WeightedFacts
<1> QED BY <1>3, WidthAssumption DEF WriteA, WriteB

\* What was rolled is what would be written.
LEMMA RolledAsWritten ==
  ASSUME NEW w \in Seq(Byte), w # <<>>, Len(w) = BlockSize, NEW x \in Byte,
         a = WriteA(w), b = WriteB(w)
  PROVE  /\ RolledA(Head(w), x) = WriteA(Append(Tail(w), x))
         /\ RolledB(Head(w), x) = WriteB(Append(Tail(w), x))
<1> DEFINE h == Head(w)
           v == Append(Tail(w), x)
           tw == Total(w)
           tv == Total(v)
           bw == Total(Weighted(w))
           bv == Total(Weighted(v))
<1>1. w \in Seq(Int) /\ x \in Int
  BY BytesAreInts
<1>2. Head(w) = w[1] /\ w[1] \in Int
  BY <1>1, AdvanceFacts
<1>3. /\ tw \in Int /\ tv \in Int /\ bw \in Int
      /\ tv = tw - h + x
      /\ bv = bw - Len(w) * h + tv
  <2>1. /\ Total(w) \in Int /\ Total(Append(Tail(w), x)) \in Int
        /\ Total(Weighted(w)) \in Int
        /\ Total(Append(Tail(w), x)) = Total(w) - w[1] + x
        /\ Total(Weighted(Append(Tail(w), x)))
             = Total(Weighted(w)) - Len(w) * w[1] + Total(Append(Tail(w), x))
    BY <1>1, RolledSums, Zenon
  <2>2. h = w[1]
    BY <1>2
  <2> QED BY <2>1, <2>2, Zenon
<1>4. a = tw % W /\ b = bw % W /\ WriteA(v) = tv % W /\ WriteB(v) = bv % W
  BY DEF WriteA, WriteB
<1>5. h \in Int /\ W \in Nat \ {0} /\ BlockSize \in Nat
  BY <1>2, WidthAssumption, BlockSizeAssumption
<1>6. RolledA(h, x) = (a - (h - x)) % W /\ RolledB(h, x) = (b - (h * BlockSize - RolledA(h, x))) % W
  BY DEF RolledA, RolledB
<1>7. Len(w) = BlockSize
  OBVIOUS
<1> HIDE DEF h, v, tw, tv, bw, bv
<1>8. RolledA(h, x) = tv % W
  <2> DEFINE y == x - h
  <2>1. y \in Int /\ a - (h - x) = (tw % W) + y /\ tw + y = tv
    BY <1>1, <1>3, <1>4, <1>5
  <2> HIDE DEF y
  <2>2. ((tw % W) + y) % W = (tw + y) % W
    BY <1>3, <2>1, WrapsEarly
  <2> QED BY <1>6, <2>1, <2>2
<1>9. RolledB(h, x) = bv % W
  <2> DEFINE hb == BlockSize * h
             r == tv % W
             s == bw % W
  <2>1. hb \in Int /\ r \in Int /\ s \in Int /\ h * BlockSize = hb
    BY <1>3, <1>5
  <2>2. bv = bw - hb + tv
    BY <1>3, <1>7
  <2>3. b = s /\ RolledA(h, x) = r
    BY <1>4, <1>8
  <2>4. RolledB(h, x) = (s - (hb - r)) % W
    BY <1>6, <2>1, <2>3
  <2> HIDE DEF hb, r, s
  <2> DEFINE y == r - hb
             z == bw - hb
  <2>5. y \in Int /\ z \in Int /\ s - (hb - r) = s + y /\ bw + y = r + z /\ tv + z = bv
    BY <1>3, <2>1, <2>2
  <2> HIDE DEF y, z
  <2>6. (s + y) % W = (bw + y) % W
    BY <1>3, <2>5, WrapsEarly DEF s
  <2>7. (r + z) % W = (tv + z) % W
    BY <1>3, <2>5, WrapsEarly DEF r
  <2> QED BY <2>4, <2>5, <2>6, <2>7
<1> QED BY <1>4, <1>8, <1>9 DEF h, v

\* The world stays, so the file does.
LEMMA SameFile ==
  ASSUME IInv, world' = world
  PROVE  IsScanned(world)' /\ File' = File
BY Zenon DEF IInv, TypeOK, File, IsScanned, IsFile, Exists, Coarse!IsWorld, Coarse!IsStore,
   Coarse!IsTree, Coarse!InDirs, Coarse!IsDir, Coarse!Exists, Coarse!TempNamed, Coarse!Path,
   Coarse!Entry

\* A block is read: the window is where the file was read up to.
LEMMA ReadBlockStep ==
  ASSUME IInv, ReadBlock
  PROVE  IInv' /\ UNCHANGED Coarse!vars
<1>1. /\ ~done /\ window = <<>>
      /\ window' = Slice(File, dstOffset, BlockSize)
      /\ dstOffset' = dstOffset + Len(window')
      /\ done' = (window' = <<>>)
      /\ window' # <<>> => a' = WriteA(window') /\ b' = WriteB(window')
      /\ window' = <<>> => a' = a /\ b' = b
      /\ world' = world /\ matches' = matches
  BY DEF ReadBlock
<1>2. IsScanned(world)' /\ File' = File
  BY <1>1, SameFile
<1>3. /\ File \in Seq(Byte) /\ Len(File) \in Nat /\ BlockSize \in Nat \ {0}
      /\ dstOffset \in Nat /\ dstOffset <= Len(File)
  BY WindowFacts
<1> DEFINE len == Len(Slice(File, dstOffset, BlockSize))
<1>4. /\ len \in 0..BlockSize /\ dstOffset + len \in 0..Len(File)
      /\ Slice(File, dstOffset, BlockSize) = Slice(File, dstOffset, len)
      /\ len = BlockSize \/ dstOffset + len = Len(File)
      /\ Slice(File, dstOffset, BlockSize) \in Seq(Byte)
  <2>1. dstOffset \in 0..Len(File) /\ BlockSize \in Nat
    BY <1>3
  <2>2. Slice(File, dstOffset, BlockSize) \in Seq(Byte)
    BY <1>3, <2>1, SliceType
  <2> QED BY <1>3, <2>1, <2>2, SliceOfItsLength, Zenon
<1>5. Len(window') = len /\ window' \in Seq(Byte)
  BY <1>1, <1>4
<1> HIDE DEF len
<1>6. dstOffset' = dstOffset + len /\ WindowStart' = dstOffset' - len
  BY <1>1, <1>5 DEF WindowStart
<1>7. WindowStart' = dstOffset
  BY <1>3, <1>4, <1>6
<1>8. a' \in 0..(W - 1) /\ b' \in 0..(W - 1)
  <2>1. CASE window' = <<>>
    BY <1>1, <2>1 DEF IInv, TypeOK
  <2>2. CASE window' # <<>>
    BY <1>1, <1>5, <2>2, Written
  <2> QED BY <2>1, <2>2
<1>9. TypeOK'
  <2>1. matches' \in Seq([src : Nat, dst : Nat])
    BY <1>1 DEF IInv, TypeOK
  <2>2. Len(window') <= BlockSize /\ dstOffset' \in 0..Len(File)
    BY <1>3, <1>4, <1>5, <1>6
  <2>3. done' \in BOOLEAN
    BY <1>1
  <2> QED BY <1>2, <1>5, <1>8, <2>1, <2>2, <2>3 DEF TypeOK
<1>10. WindowRead'
  BY <1>3, <1>4, <1>5, <1>6 DEF WindowRead
<1>11. WindowInFile'
  <2>1. window' = Slice(File', WindowStart', Len(window'))
    BY <1>1, <1>2, <1>4, <1>5, <1>7
  <2>2. dstOffset' < Len(File') => Len(window') = BlockSize
    BY <1>2, <1>3, <1>4, <1>5, <1>6
  <2> QED BY <2>1, <2>2 DEF WindowInFile
<1>12. RolledIsWritten'
  BY <1>1 DEF RolledIsWritten
<1>13. Ended'
  <2> SUFFICES ASSUME done'  PROVE dstOffset' = Len(File') /\ window' = <<>>
    BY DEF Ended
  <2>1. window' = <<>> /\ len = 0
    BY <1>1, <1>5, EmptySeq
  <2> QED BY <1>2, <1>3, <1>4, <1>6, <2>1
<1>14. UNCHANGED Coarse!vars
  <2>1. WindowStart = dstOffset
    <3>1. WindowStart = dstOffset - 0
      BY <1>1, Zenon, Len(<<>>) = 0 DEF WindowStart
    <3> QED BY <1>3, <3>1
  <2> QED BY <1>1, <1>7, <2>1 DEF Coarse!vars
<1> QED BY <1>9, <1>10, <1>11, <1>12, <1>13, <1>14 DEF IInv

\* A block is recognised: the window is left behind.
LEMMA RecogniseStep ==
  ASSUME IInv, Recognise
  PROVE  IInv' /\ Coarse!MatchBlock
<1>1. PICK blk \in Known :
        matches' = Append(matches, [src |-> blk.offset, dst |-> WindowStart])
  BY DEF Recognise
<1>2. /\ window # <<>> /\ window' = <<>> /\ world' = world
      /\ UNCHANGED <<dstOffset, a, b, done>>
  BY DEF Recognise
<1>3. IsScanned(world)' /\ File' = File
  BY <1>2, SameFile
<1>4. /\ File \in Seq(Byte) /\ Len(File) \in Nat /\ BlockSize \in Nat \ {0}
      /\ dstOffset \in Nat /\ dstOffset <= Len(File)
      /\ window \in Seq(Byte) /\ WindowStart \in Nat /\ WindowStart + Len(window) = dstOffset
  BY WindowFacts
<1>5. window = Coarse!Window /\ Known = Coarse!WindowMatch
  BY <1>2, SameWindow
<1>6. blk.offset \in Nat
  <2>1. blk \in Coarse!Blocks(world.src, world.srcRoot)
    BY DEF Known, Coarse!WeakBlock, Coarse!Found, Coarse!LastAdded, Coarse!FirstRow
  <2> QED BY <2>1 DEF Coarse!Blocks
<1>7. Len(window') = 0 /\ WindowStart' = dstOffset
  <2>1. Len(window') = 0
    BY <1>2
  <2>2. WindowStart' = dstOffset' - Len(window')
    BY DEF WindowStart
  <2> QED BY <1>2, <1>4, <2>1, <2>2
<1>8. TypeOK'
  <2>1. matches' \in Seq([src : Nat, dst : Nat])
    <3>1. matches \in Seq([src : Nat, dst : Nat])
      BY DEF IInv, TypeOK
    <3>2. [src |-> blk.offset, dst |-> WindowStart] \in [src : Nat, dst : Nat]
      BY <1>4, <1>6
    <3> QED BY <1>1, <3>1, <3>2, AppendProperties
  <2>2. window' \in Seq(Byte) /\ Len(window') <= BlockSize
    BY <1>2, <1>4, <1>7
  <2>3. /\ dstOffset' \in 0..Len(File) /\ a' \in 0..(W - 1) /\ b' \in 0..(W - 1)
        /\ done' \in BOOLEAN
    BY <1>2 DEF IInv, TypeOK
  <2> QED BY <1>3, <2>1, <2>2, <2>3 DEF TypeOK
<1>9. WindowRead'
  BY <1>2, <1>4, <1>7 DEF WindowRead
<1>10. WindowInFile'
  <2>1. Slice(File, dstOffset, 0) \in Seq(Byte) /\ Len(Slice(File, dstOffset, 0)) = 0
    BY <1>4, dstOffset + 0 = dstOffset, SliceBytes
  <2>2. Slice(File, dstOffset, 0) = <<>>
    BY <2>1, EmptySeq
  <2> QED BY <1>2, <1>3, <1>7, <2>2 DEF WindowInFile
<1>11. RolledIsWritten'
  BY <1>2 DEF RolledIsWritten
<1>12. Ended'
  BY <1>2, <1>3 DEF IInv, Ended
<1>13. Coarse!MatchBlock
  <2> DEFINE old == [file |-> world.srcRoot, at |-> WindowStart, matches |-> matches,
                     start |-> 0, range |-> 1]
             new == [file |-> world.srcRoot, at |-> dstOffset, matches |-> matches',
                     start |-> 0, range |-> 1]
  <2>1. new = [old EXCEPT !.matches = Append(@, [src |-> blk.offset, dst |-> old.at]),
                          !.at = @ + Len(Coarse!Window)]
    <3> DEFINE more == Append(old.matches, [src |-> blk.offset, dst |-> old.at])
               end == old.at + Len(Coarse!Window)
    <3>1. matches' = more
      BY <1>1
    <3>2. dstOffset = end
      BY <1>4, <1>5
    <3> HIDE DEF more, end
    <3>3. new = [file |-> world.srcRoot, at |-> end, matches |-> more, start |-> 0, range |-> 1]
      BY <3>1, <3>2
    <3>4. [old EXCEPT !.matches = more, !.at = end]
            = [file |-> world.srcRoot, at |-> end, matches |-> more, start |-> 0, range |-> 1]
      <4> DEFINE mid == [file |-> world.srcRoot, at |-> WindowStart, matches |-> more,
                         start |-> 0, range |-> 1]
      <4>1. [old EXCEPT !.matches = more] = mid
        OBVIOUS
      <4>2. [mid EXCEPT !.at = end]
              = [file |-> world.srcRoot, at |-> end, matches |-> more, start |-> 0, range |-> 1]
        OBVIOUS
      <4> HIDE DEF old, mid
      <4>3. [[old EXCEPT !.matches = more] EXCEPT !.at = end] = [mid EXCEPT !.at = end]
        BY <4>1, Zenon
      <4> QED BY <4>2, <4>3
    <3> HIDE DEF new, old
    <3>5. new = [old EXCEPT !.matches = more, !.at = end]
      BY <3>3, <3>4
    <3> QED BY <3>5 DEF more, end
  <2>2. [file |-> world.srcRoot, at |-> WindowStart, matches |-> matches,
         start |-> 0, range |-> 1]' = new
    BY <1>2, <1>7
  <2>3. blk \in Coarse!WindowMatch /\ Coarse!Window # <<>>
    BY <1>2, <1>5
  <2> QED BY <1>2, <2>1, <2>2, <2>3, Zenon DEF Coarse!MatchBlock, Coarse!execVars
<1> QED BY <1>8, <1>9, <1>10, <1>11, <1>12, <1>13 DEF IInv

\* The window rolls on by a byte.
LEMMA RollStep ==
  ASSUME IInv, Roll
  PROVE  IInv' /\ Coarse!MatchRoll
<1> DEFINE x == File[dstOffset + 1]
           n == Len(window)
<1>1. /\ ~done /\ window # <<>> /\ Known = {} /\ dstOffset < Len(File)
      /\ a' = RolledA(Head(window), x) /\ b' = RolledB(Head(window), x)
      /\ window' = Append(Tail(window), x)
      /\ dstOffset' = dstOffset + 1
      /\ world' = world /\ matches' = matches /\ done' = done
  BY DEF Roll, Advance
<1>2. IsScanned(world)' /\ File' = File
  BY <1>1, SameFile
<1>3. /\ File \in Seq(Byte) /\ Len(File) \in Nat /\ Coarse!Local = File
      /\ BlockSize \in Nat \ {0}
      /\ dstOffset \in Nat /\ dstOffset <= Len(File)
      /\ window \in Seq(Byte) /\ n \in Nat
      /\ WindowStart \in Nat /\ WindowStart + n = dstOffset
  BY WindowFacts
<1>4. n = BlockSize /\ window = Slice(File, WindowStart, n)
  BY <1>1 DEF IInv, WindowInFile
<1>5. x \in Byte
  <2>1. dstOffset + 1 \in 1..Len(File)
    BY <1>1, <1>3
  <2> QED BY <1>3, <2>1, ElementOfSeq
<1>6. x = File[dstOffset + 1]
  OBVIOUS
<1>7. n = Len(window)
  OBVIOUS
<1> HIDE DEF x, n
<1>8. /\ window' \in Seq(Byte) /\ Len(window') = n
      /\ \A i \in 1..(n - 1) : window'[i] = window[i + 1]
      /\ window'[n] = x
  BY <1>1, <1>3, <1>5, <1>7, AdvanceFacts
<1>9. WindowStart' = WindowStart + 1
  <2>1. WindowStart' = dstOffset' - Len(window')
    BY DEF WindowStart
  <2>2. WindowStart' = (dstOffset + 1) - n
    BY <1>1, <1>8, <2>1
  <2> QED BY <1>3, <2>2
<1>10. a' = WriteA(window') /\ b' = WriteB(window')
  <2>1. a = WriteA(window) /\ b = WriteB(window)
    BY <1>1 DEF IInv, RolledIsWritten
  <2> QED BY <1>1, <1>3, <1>4, <1>5, <1>7, <2>1, RolledAsWritten
<1>11. TypeOK'
  <2>1. a' \in 0..(W - 1) /\ b' \in 0..(W - 1)
    BY <1>8, <1>10, Written
  <2>2. matches' \in Seq([src : Nat, dst : Nat]) /\ done' \in BOOLEAN
    BY <1>1 DEF IInv, TypeOK
  <2>3. Len(window') <= BlockSize /\ dstOffset' \in 0..Len(File)
    BY <1>1, <1>3, <1>4, <1>8
  <2> QED BY <1>2, <1>8, <2>1, <2>2, <2>3 DEF TypeOK
<1>12. WindowRead'
  BY <1>1, <1>3, <1>8 DEF WindowRead
<1>13. WindowInFile'
  <2> DEFINE o == WindowStart + 1
  <2>1. o \in Nat /\ o + n <= Len(File)
    BY <1>1, <1>3
  <2>2. \A i \in 1..n : window[i] = File[WindowStart + i]
    <3>1. WindowStart + n <= Len(File)
      BY <1>3
    <3>2. \A i \in 1..n : Slice(File, WindowStart, n)[i] = File[WindowStart + i]
      BY <1>3, <3>1, SliceBytes
    <3> QED BY <1>4, <3>2
  <2>3. \A i \in 1..n : window'[i] = File[o + i]
    <3> SUFFICES ASSUME NEW i \in 1..n  PROVE window'[i] = File[o + i]
      OBVIOUS
    <3>1. CASE i = n
      <4>1. o + n = dstOffset + 1
        BY <1>3
      <4> QED BY <1>6, <1>8, <3>1, <4>1
    <3>2. CASE i # n
      <4>1. i \in 1..(n - 1) /\ i + 1 \in 1..n /\ WindowStart + (i + 1) = o + i
        BY <1>3, <3>2
      <4> QED BY <1>8, <2>2, <4>1
    <3> QED BY <3>1, <3>2
  <2> HIDE DEF o
  <2>4. window' = Slice(File, o, n)
    BY <1>3, <1>8, <2>1, <2>3, IsSlice
  <2>5. window' = Slice(File', WindowStart', Len(window'))
    BY <1>2, <1>8, <1>9, <2>4 DEF o
  <2> QED BY <1>4, <1>8, <2>5 DEF WindowInFile
<1>14. RolledIsWritten'
  BY <1>10 DEF RolledIsWritten
<1>15. Ended'
  BY <1>1 DEF Ended
<1>16. Coarse!MatchRoll
  <2> DEFINE old == [file |-> world.srcRoot, at |-> WindowStart, matches |-> matches,
                     start |-> 0, range |-> 1]
             new == [file |-> world.srcRoot, at |-> WindowStart + 1, matches |-> matches,
                     start |-> 0, range |-> 1]
  <2>1. Coarse!WindowMatch = {}
    BY <1>1, SameWindow
  <2>2. old.at + BlockSize < Len(Coarse!Local)
    BY <1>1, <1>3, <1>4
  <2>3. new = [old EXCEPT !.at = @ + 1]
    OBVIOUS
  <2>4. [file |-> world.srcRoot, at |-> WindowStart, matches |-> matches,
         start |-> 0, range |-> 1]' = new
    BY <1>1, <1>9
  <2> QED BY <1>1, <2>1, <2>2, <2>3, <2>4, Zenon DEF Coarse!MatchRoll, Coarse!execVars
<1> QED BY <1>11, <1>12, <1>13, <1>14, <1>15, <1>16 DEF IInv

\* The variables but done stay.
LEMMA OnlyDone ==
  ASSUME IInv, UNCHANGED <<world, dstOffset, window, a, b, matches>>,
         done' \in BOOLEAN,
         done' => dstOffset = Len(File) /\ (window = <<>> \/ Known = {})
  PROVE  IInv' /\ UNCHANGED Coarse!vars
<1>1. IsScanned(world)' /\ File' = File
  BY SameFile
<1>2. /\ dstOffset' = dstOffset /\ window' = window /\ a' = a /\ b' = b
      /\ matches' = matches /\ world' = world
  OBVIOUS
<1>3. WindowStart' = WindowStart
  BY <1>2, Zenon DEF WindowStart
<1>4. Known' = Known
  BY <1>2 DEF Known
<1>5. TypeOK'
  BY <1>1, <1>2 DEF IInv, TypeOK
<1>6. WindowRead' /\ WindowInFile' /\ RolledIsWritten'
  BY <1>1, <1>2, <1>3 DEF IInv, WindowRead, WindowInFile, RolledIsWritten
<1>7. Ended'
  BY <1>1, <1>2, <1>4 DEF Ended
<1>8. UNCHANGED Coarse!vars
  BY <1>2, <1>3 DEF Coarse!vars
<1> QED BY <1>5, <1>6, <1>7, <1>8 DEF IInv

\* Every step preserves the invariant, and is a step of the scan of Patch or none.
LEMMA StepInv == IInv /\ [Next]_vars => IInv' /\ [Coarse!MatchBlock \/ Coarse!MatchRoll]_(Coarse!vars)
<1> SUFFICES ASSUME IInv, [Next]_vars
             PROVE  IInv' /\ [Coarse!MatchBlock \/ Coarse!MatchRoll]_(Coarse!vars)
  OBVIOUS
<1>1. CASE ReadBlock
  BY <1>1, ReadBlockStep
<1>2. CASE Recognise
  BY <1>2, RecogniseStep
<1>3. CASE Roll
  BY <1>3, RollStep
<1>4. CASE EndOfFile
  BY <1>4, OnlyDone DEF EndOfFile
<1>5. CASE UNCHANGED vars
  <2>1. UNCHANGED <<world, dstOffset, window, a, b, matches>> /\ done' = done
    BY <1>5 DEF vars
  <2>2. done => dstOffset = Len(File) /\ (window = <<>> \/ Known = {})
    BY DEF IInv, Ended
  <2>3. done \in BOOLEAN
    BY DEF IInv, TypeOK
  <2> QED BY <2>1, <2>2, <2>3, OnlyDone
<1> QED BY <1>1, <1>2, <1>3, <1>4, <1>5 DEF Next

-----------------------------------------------------------------------------
(* The theorems.                                                           *)

\* What is known of the window and its checksum, read by read.
THEOREM ScanInv == Spec => []IInv
BY InitInv, StepInv, PTL DEF Spec

\* The variables of the scan keep their types; the sums are machine integers.
THEOREM ScanTypes == Spec => []TypeOK
<1>1. IInv => TypeOK
  BY DEF IInv
<1> QED BY <1>1, ScanInv, PTL

\* The rolled checksum is the one that would be written for the window's bytes
\* (index.go:25-42), whatever the width of the integers.
THEOREM RollingIsWriting == Spec => []RolledIsWritten
<1>1. IInv => RolledIsWritten
  BY DEF IInv
<1> QED BY <1>1, ScanInv, PTL

\* The window is a range of the file (match.go:69-79, 107-112), short only at its end.
THEOREM WindowStaysInFile == Spec => []WindowInFile
<1>1. IInv => WindowInFile
  BY DEF IInv
<1> QED BY <1>1, ScanInv, PTL

\* MatchFile, read by read, does what the scan of Patch does (match.go:64-123).
THEOREM ScanImplementsPatchScan == Spec => ScansAsPatch
BY InitInv, StepInv, PTL DEF Spec, ScansAsPatch

\* It ends where that one ends: with the last block left behind, or a window that is
\* unknown at the end of the file (match.go:75-76, 104-105).
THEOREM ScanEndsAsPatch == Spec => []EndsAsPatch
<1>1. IInv => EndsAsPatch
  <2> SUFFICES ASSUME IInv, done
               PROVE  \/ Coarse!Window = <<>>
                      \/ Coarse!WindowMatch = {} /\ WindowStart + BlockSize >= Len(File)
    BY DEF EndsAsPatch
  <2>1. dstOffset = Len(File) /\ (window = <<>> \/ Known = {})
    BY DEF IInv, Ended
  <2>2. /\ File \in Seq(Byte) /\ Len(File) \in Nat /\ Coarse!Local = File
        /\ BlockSize \in Nat \ {0} /\ Len(window) \in Nat /\ Len(window) <= BlockSize
        /\ WindowStart \in Nat /\ WindowStart + Len(window) = dstOffset
    BY WindowFacts
  <2>3. CASE window = <<>>
    <3>1. WindowStart + 0 = Len(File) /\ 0 <= BlockSize
      BY <2>1, <2>2, <2>3
    <3>2. Slice(File, WindowStart, BlockSize) = Slice(File, WindowStart, 0)
      BY <2>2, <3>1, SliceToEnd
    <3>3. Slice(File, WindowStart, 0) = <<>>
      <4>1. /\ Slice(File, WindowStart, 0) \in Seq(Byte)
            /\ Len(Slice(File, WindowStart, 0)) = 0
        BY <2>2, <3>1, SliceBytes
      <4> QED BY <4>1, EmptySeq
    <3>4. Coarse!Window = Slice(File, WindowStart, BlockSize)
      <4>1. Coarse!Slice(File, WindowStart, BlockSize) = Slice(File, WindowStart, BlockSize)
        BY DEF Coarse!Slice, Slice
      <4>2. Coarse!Window = Coarse!Slice(Coarse!Local, WindowStart, BlockSize)
        BY DEF Coarse!Window
      <4> QED BY <2>2, <4>1, <4>2
    <3> QED BY <3>2, <3>3, <3>4
  <2>4. CASE window # <<>>
    <3>1. Coarse!WindowMatch = {}
      BY <2>1, <2>4, SameWindow
    <3>2. WindowStart + BlockSize >= Len(File)
      BY <2>1, <2>2
    <3> QED BY <3>1, <3>2
  <2> QED BY <2>3, <2>4
<1> QED BY <1>1, ScanInv, PTL

=============================================================================
