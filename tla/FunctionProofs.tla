--------------------------- MODULE FunctionProofs ---------------------------
(***************************************************************************)
(* What the pure parts of the engine compute, for every address, port,     *)
(* list and name (AddressPatterns, Encodings, TokenLists): each answer of  *)
(* MCFunctions is the one its property states.                             *)
(*                                                                         *)
(* The functions are recursive: first come induction up to a bound and     *)
(* folds, then numbers and their digits, then the questions, then lists of *)
(* names.                                                                  *)
(***************************************************************************)
EXTENDS MCFunctions, WellFoundedInduction, TLAPS

(* A set with a well-founded order has a minimal element. *)
LEMMA MinIn ==
  ASSUME NEW R, NEW S, IsWellFoundedOn(R, S), NEW T \in SUBSET S, T # {}
  PROVE  \E x \in T : \A y \in T : ~ (<<y, x>> \in R)
<1>1. T \subseteq S
  OBVIOUS
<1>. QED
  BY <1>1, WFMin, Zenon

(* A set of naturals that is not empty has a least element. *)
LEMMA Least ==
  ASSUME NEW S \in SUBSET Nat, S # {}
  PROVE  \E x \in S : \A y \in S : x <= y
<1>1. \A x, y \in Nat : x < y => <<x, y>> \in OpToRel(<, Nat)
  BY Zenon DEF OpToRel
<1>2. \E R : IsWellFoundedOn(R, Nat) /\ \A x, y \in Nat : x < y => <<x, y>> \in R
  BY <1>1, NatLessThanWellFounded, Zenon
<1>3. PICK R : IsWellFoundedOn(R, Nat) /\ \A x, y \in Nat : x < y => <<x, y>> \in R
  BY <1>2, Zenon
<1>4. S \subseteq Nat
  OBVIOUS
<1>5. PICK x \in S : \A y \in S : ~ (<<y, x>> \in R)
  BY <1>3, MinIn, Zenon
<1>6. ASSUME NEW y \in S PROVE ~ (y < x)
  BY <1>3, <1>4, <1>5, Zenon
<1>7. \A y \in S : x <= y
  BY <1>4, <1>6
<1>. QED
  BY <1>7

(* Induction up to a bound, over a set instead of a predicate. *)
LEMMA BoundedInduction ==
  ASSUME NEW n \in Nat, NEW T, 0 \in T, \A k \in 0..(n - 1) : k \in T => k + 1 \in T
  PROVE  \A k \in 0..n : k \in T
<1>. DEFINE S == {k \in 0..n : k \notin T}
<1>1. CASE S = {}
  BY <1>1
<1>2. CASE S # {}
  <2>1. S \in SUBSET Nat
    OBVIOUS
  <2>2. PICK x \in S : \A y \in S : x <= y
    <3>. HIDE DEF S
    <3>. QED
      BY <1>2, <2>1, Least
  <2>3. x \in 0..n /\ x \notin T /\ x # 0 /\ x - 1 \in 0..(n - 1) /\ (x - 1) + 1 = x
    OBVIOUS
  <2>4. x - 1 \notin S
    BY <2>2, <2>3
  <2>. QED
    BY <2>3, <2>4
<1>. QED
  BY <1>1, <1>2

(* g folds step over the numbers up to n. *)
IsFold(g, n, S, a, step) ==
  g \in [0..n -> S] /\ g[0] = a /\ \A k \in 1..n : g[k] = step[<<k, g[k - 1]>>]

(* A step function can be folded over the numbers up to any bound. *)
LEMMA FoldExists ==
  ASSUME NEW n \in Nat, NEW S, NEW a \in S, NEW step \in [(1..n) \X S -> S]
  PROVE  \E g : IsFold(g, n, S, a, step)
<1>. DEFINE App(m) == {g \in [0..m -> S] : g[0] = a /\ \A k \in 1..m : g[k] = step[<<k, g[k - 1]>>]}
            T == {m \in 0..n : \E g : g \in App(m)}
<1>1. 0 \in T
  <2>1. [i \in 0..0 |-> a] \in App(0)
    OBVIOUS
  <2>. QED
    BY <2>1
<1>2. ASSUME NEW m \in 0..(n - 1), m \in T PROVE m + 1 \in T
  <2>1. PICK g : g \in App(m)
    BY <1>2
  <2>2. g \in [0..m -> S] /\ g[0] = a /\ \A k \in 1..m : g[k] = step[<<k, g[k - 1]>>]
    BY <2>1
  <2>. DEFINE h == [i \in 0..(m + 1) |-> IF i = m + 1 THEN step[<<i, g[m]>>] ELSE g[i]]
  <2>3. m + 1 \in 1..n /\ <<m + 1, g[m]>> \in (1..n) \X S
    BY <2>2
  <2>4. h \in [0..(m + 1) -> S] /\ h[0] = a
    BY <2>2, <2>3
  <2>5. ASSUME NEW k \in 1..(m + 1) PROVE h[k] = step[<<k, h[k - 1]>>]
    <3>1. CASE k = m + 1
      BY <3>1
    <3>2. CASE k # m + 1
      BY <2>2, <3>2
    <3>. QED
      BY <3>1, <3>2
  <2>6. h \in App(m + 1)
    <3>. HIDE DEF h
    <3>. QED
      BY <2>4, <2>5
  <2>7. m + 1 \in 0..n
    OBVIOUS
  <2>. HIDE DEF h, App
  <2>. QED
    BY <2>6, <2>7
<1>3. \A m \in 0..n : m \in T
  <2>. HIDE DEF T
  <2>. QED
    BY <1>1, <1>2, BoundedInduction
<1>. QED
  BY <1>3 DEF IsFold

-----------------------------------------------------------------------------
(* Numbers and their digits. *)

(* A number taken apart again. *)
LEMMA DivMod ==
  ASSUME NEW b \in Nat \ {0}, NEW a \in Nat, NEW o \in Nat, o < b
  PROVE  (a * b + o) \div b = a /\ (a * b + o) % b = o
OBVIOUS

(* A number is its quotient and its remainder put together. *)
LEMMA Division ==
  ASSUME NEW b \in Nat \ {0}, NEW n \in Nat
  PROVE  n \div b \in Nat /\ n % b \in 0..(b - 1) /\ n = (n \div b) * b + (n % b)
OBVIOUS

(* The recursion of Values makes sense: its equations hold. *)
LEMMA ValuesDef ==
  ASSUME NEW b \in Nat, NEW d \in Seq(Nat)
  PROVE  LET v == Values(b, d)
         IN  /\ v \in [0..Len(d) -> Nat] /\ v[0] = 0
             /\ \A k \in 1..Len(d) : v[k] = v[k - 1] * b + d[k]
             /\ Value(b, d) = v[Len(d)]
<1>. DEFINE n == Len(d)
            step == [at \in (1..n) \X Nat |-> at[2] * b + d[at[1]]]
            Fits(v) == v = [k \in 0..n |-> IF k = 0 THEN 0 ELSE v[k - 1] * b + d[k]]
<1>1. n \in Nat /\ \A k \in 1..n : d[k] \in Nat
  OBVIOUS
<1>2. step \in [(1..n) \X Nat -> Nat]
  BY <1>1
<1>3. PICK g : IsFold(g, n, Nat, 0, step)
  <2>. HIDE DEF step, n
  <2>. QED
    BY <1>1, <1>2, FoldExists, Zenon
<1>4. g \in [0..n -> Nat] /\ g[0] = 0 /\ \A k \in 1..n : g[k] = step[<<k, g[k - 1]>>]
  BY <1>3, Zenon DEF IsFold
<1>5. \A k \in 1..n : g[k] = g[k - 1] * b + d[k]
  <2>. TAKE k \in 1..n
  <2>1. <<k, g[k - 1]>> \in (1..n) \X Nat
    <3>. HIDE DEF n, step
    <3>1. k - 1 \in 0..n
      BY <1>1
    <3>. QED
      BY <1>4, <3>1
  <2>2. step[<<k, g[k - 1]>>] = g[k - 1] * b + d[k]
    BY <2>1
  <2>. QED
    BY <1>4, <2>2, Zenon
<1>6. Fits(g)
  <2>. HIDE DEF n, step
  <2>. QED
    BY <1>1, <1>4, <1>5
<1>7. Values(b, d) = CHOOSE v : Fits(v)
  BY DEF Values
<1>8. Fits(Values(b, d))
  <2>. HIDE DEF Fits
  <2>. QED
    BY <1>6, <1>7, Zenon
<1>. DEFINE v == Values(b, d)
<1>. HIDE DEF v, n
<1>9. v = [k \in 0..n |-> IF k = 0 THEN 0 ELSE v[k - 1] * b + d[k]]
  BY <1>8, Zenon DEF v
<1>10. v[0] = 0 /\ \A k \in 1..n : v[k] = v[k - 1] * b + d[k]
  <2>1. 0 \in 0..n /\ \A k \in 1..n : k \in 0..n /\ k # 0
    BY <1>1
  <2>2. \A k \in 0..n : v[k] = IF k = 0 THEN 0 ELSE v[k - 1] * b + d[k]
    BY <1>9, Zenon
  <2>. QED
    BY <2>1, <2>2, Zenon
<1>11. \A k \in 0..n : v[k] \in Nat
  <2>. DEFINE T == {k \in 0..n : v[k] \in Nat}
  <2>1. 0 \in T
    BY <1>1, <1>10
  <2>2. ASSUME NEW k \in 0..(n - 1), k \in T PROVE k + 1 \in T
    <3>1. k + 1 \in 1..n /\ (k + 1) - 1 = k
      BY <1>1
    <3>2. v[k + 1] = v[k] * b + d[k + 1]
      BY <1>10, <3>1
    <3>3. v[k] \in Nat /\ d[k + 1] \in Nat
      BY <1>1, <2>2, <3>1
    <3>4. v[k] * b + d[k + 1] \in Nat
      <4>1. \A x, y \in Nat : x * b + y \in Nat
        OBVIOUS
      <4>. QED
        BY <3>3, <4>1, Zenon
    <3>. QED
      BY <1>1, <3>1, <3>2, <3>4
  <2>3. \A k \in 0..n : k \in T
    <3>. HIDE DEF T
    <3>. QED
      BY <1>1, <2>1, <2>2, BoundedInduction, Zenon
  <2>. QED
    BY <2>3
<1>12. v \in [0..n -> Nat]
  BY <1>9, <1>11
<1>. QED
  BY <1>10, <1>12 DEF v, n, Value

(* So do those of Quotients. *)
LEMMA QuotientsDef ==
  ASSUME NEW n \in Nat, NEW w \in Nat
  PROVE  LET q == Quotients(n, w)
         IN  /\ q \in [0..w -> Nat] /\ q[0] = n
             /\ \A k \in 1..w : q[k] = q[k - 1] \div Base
<1>. DEFINE step == [at \in (1..w) \X Nat |-> at[2] \div Base]
            Fits(q) == q = [k \in 0..w |-> IF k = 0 THEN n ELSE q[k - 1] \div Base]
<1>1. \A a \in Nat : a \div Base \in Nat
  BY EncodingAssumption, Division
<1>2. step \in [(1..w) \X Nat -> Nat]
  BY <1>1
<1>3. PICK g : IsFold(g, w, Nat, n, step)
  <2>. HIDE DEF step
  <2>. QED
    BY <1>2, FoldExists, Zenon
<1>4. g \in [0..w -> Nat] /\ g[0] = n /\ \A k \in 1..w : g[k] = step[<<k, g[k - 1]>>]
  BY <1>3, Zenon DEF IsFold
<1>5. \A k \in 1..w : g[k] = g[k - 1] \div Base
  <2>. TAKE k \in 1..w
  <2>1. <<k, g[k - 1]>> \in (1..w) \X Nat
    <3>. HIDE DEF step
    <3>1. k - 1 \in 0..w
      OBVIOUS
    <3>. QED
      BY <1>4, <3>1
  <2>2. step[<<k, g[k - 1]>>] = g[k - 1] \div Base
    BY <2>1
  <2>. QED
    BY <1>4, <2>2, Zenon
<1>6. Fits(g)
  <2>. HIDE DEF step
  <2>. QED
    BY <1>4, <1>5
<1>7. Quotients(n, w) = CHOOSE q : Fits(q)
  BY DEF Quotients
<1>8. Fits(Quotients(n, w))
  <2>. HIDE DEF Fits
  <2>. QED
    BY <1>6, <1>7, Zenon
<1>. DEFINE q == Quotients(n, w)
<1>. HIDE DEF q
<1>9. q = [k \in 0..w |-> IF k = 0 THEN n ELSE q[k - 1] \div Base]
  BY <1>8 DEF q
<1>10. q[0] = n /\ \A k \in 1..w : q[k] = q[k - 1] \div Base
  <2>1. 0 \in 0..w /\ \A k \in 1..w : k \in 0..w /\ k # 0
    OBVIOUS
  <2>2. \A k \in 0..w : q[k] = IF k = 0 THEN n ELSE q[k - 1] \div Base
    BY <1>9, Zenon
  <2>. QED
    BY <2>1, <2>2, Zenon
<1>11. \A k \in 0..w : q[k] \in Nat
  <2>. DEFINE T == {k \in 0..w : q[k] \in Nat}
  <2>1. 0 \in T
    BY <1>10
  <2>2. ASSUME NEW k \in 0..(w - 1), k \in T PROVE k + 1 \in T
    <3>1. k + 1 \in 1..w /\ (k + 1) - 1 = k
      OBVIOUS
    <3>2. q[k + 1] = q[k] \div Base
      BY <1>10, <3>1
    <3>. QED
      BY <1>1, <2>2, <3>1, <3>2
  <2>3. \A k \in 0..w : k \in T
    <3>. HIDE DEF T
    <3>. QED
      BY <2>1, <2>2, BoundedInduction
  <2>. QED
    BY <2>3
<1>12. q \in [0..w -> Nat]
  BY <1>9, <1>11
<1>. QED
  BY <1>10, <1>12 DEF q

Digits == 0..(Base - 1)

(* Octets are numbers, and sequences of octets are sequences of numbers. *)
LEMMA DigitTypes ==
  /\ Base \in Nat /\ Base > 1 /\ Digits \subseteq Nat /\ \A o \in Digits : o < Base
  /\ \A d \in Seq(Digits) : d \in Seq(Nat) /\ Len(d) \in Nat /\ \A k \in 1..Len(d) : d[k] \in Digits
BY EncodingAssumption DEF Digits

(* Sequences are equal if their members are. *)
LEMMA SameSeq ==
  ASSUME NEW S, NEW s \in Seq(S), NEW t \in Seq(S), Len(s) = Len(t),
         \A i \in 1..Len(s) : s[i] = t[i]
  PROVE  s = t
OBVIOUS

(* What Swapped returns. *)
LEMMA SwappedDef ==
  ASSUME NEW S, NEW s \in Seq(S)
  PROVE  /\ Swapped(s) \in Seq(S) /\ Len(Swapped(s)) = Len(s)
         /\ \A i \in 1..Len(s) : Swapped(s)[i] = s[Len(s) - i + 1] /\ Len(s) - i + 1 \in 1..Len(s)
BY DEF Swapped

(* ToLe gives octets, one for each place. *)
LEMMA ToLeDef ==
  ASSUME NEW n \in Nat, NEW w \in Nat
  PROVE  /\ ToLe(n, w) \in Seq(Digits) /\ Len(ToLe(n, w)) = w
         /\ \A i \in 1..w : ToLe(n, w)[i] = Quotients(n, w)[i - 1] % Base
<1>1. \A i \in 1..w : Quotients(n, w)[i - 1] % Base \in Digits
  <2>. TAKE i \in 1..w
  <2>1. Quotients(n, w)[i - 1] \in Nat
    BY QuotientsDef
  <2>. QED
    BY <2>1, Division, EncodingAssumption, Zenon DEF Digits
<1>. QED
  BY <1>1 DEF ToLe

(* The octets of a number that was loaded from octets are these octets. *)
LEMMA LoadStore ==
  ASSUME NEW s \in Seq(Digits)
  PROVE  FromLe(s) \in Nat /\ ToLe(FromLe(s), Len(s)) = s
<1>. DEFINE d == Swapped(s)
            n == Len(s)
            v == Values(Base, d)
            N == FromLe(s)
            q == Quotients(N, n)
<1>1. /\ d \in Seq(Digits) /\ Len(d) = n /\ n \in Nat /\ d \in Seq(Nat)
      /\ \A i \in 1..n : d[i] = s[n - i + 1]
      /\ \A i \in 1..n : s[i] \in Digits /\ d[i] \in Digits
  BY SwappedDef, DigitTypes
<1>2. /\ v \in [0..n -> Nat] /\ \A k \in 1..n : v[k] = v[k - 1] * Base + d[k]
      /\ N = v[n]
  <2>. HIDE DEF d, n
  <2>. QED
    BY <1>1, ValuesDef, DigitTypes, Zenon DEF FromLe, FromBe, d
<1>3. N \in Nat
  BY <1>1, <1>2
<1>. HIDE DEF d, n, v, N
<1>4. q \in [0..n -> Nat] /\ q[0] = N /\ \A k \in 1..n : q[k] = q[k - 1] \div Base
  BY <1>1, <1>3, QuotientsDef, Zenon
<1>. HIDE DEF q
<1>s. ASSUME NEW k \in 1..n PROVE v[k] \div Base = v[k - 1] /\ v[k] % Base = d[k]
  <2>1. k - 1 \in 0..n
    BY <1>1
  <2>2. v[k] = v[k - 1] * Base + d[k] /\ v[k - 1] \in Nat
    BY <1>2, <2>1
  <2>3. d[k] \in Nat /\ d[k] < Base
    BY <1>1, DigitTypes
  <2>4. Base \in Nat \ {0}
    BY EncodingAssumption
  <2>. DEFINE a == v[k - 1]
              o == d[k]
  <2>. HIDE DEF a, o
  <2>5. (a * Base + o) \div Base = a /\ (a * Base + o) % Base = o
    BY <2>2, <2>3, <2>4, DivMod, Zenon DEF a, o
  <2>. QED
    BY <2>2, <2>5 DEF a, o
<1>5. \A k \in 0..n : q[k] = v[n - k]
  <2>. DEFINE T == {k \in 0..n : q[k] = v[n - k]}
  <2>1. 0 \in T
    BY <1>1, <1>2, <1>4
  <2>2. ASSUME NEW k \in 0..(n - 1), k \in T PROVE k + 1 \in T
    <3>1. k + 1 \in 1..n /\ (k + 1) - 1 = k /\ n - k \in 1..n /\ (n - k) - 1 = n - (k + 1) /\ k + 1 \in 0..n
      BY <1>1
    <3>2. q[k + 1] = q[k] \div Base
      BY <1>4, <3>1
    <3>3. q[k] = v[n - k]
      BY <2>2
    <3>. QED
      BY <1>s, <3>1, <3>2, <3>3
  <2>3. \A k \in 0..n : k \in T
    <3>. HIDE DEF T
    <3>. QED
      BY <1>1, <2>1, <2>2, BoundedInduction, Zenon
  <2>. QED
    BY <2>3
<1>6. ToLe(N, n) \in Seq(Digits) /\ Len(ToLe(N, n)) = n /\ \A i \in 1..n : ToLe(N, n)[i] = q[i - 1] % Base
  BY <1>1, <1>3, ToLeDef DEF q
<1>7. ASSUME NEW i \in 1..n PROVE ToLe(N, n)[i] = s[i]
  <2>1. i - 1 \in 0..n /\ n - (i - 1) \in 1..n /\ n - (n - (i - 1)) + 1 = i
    BY <1>1
  <2>2. ToLe(N, n)[i] = v[n - (i - 1)] % Base
    BY <1>5, <1>6, <2>1
  <2>3. v[n - (i - 1)] % Base = d[n - (i - 1)]
    BY <1>s, <2>1
  <2>4. d[n - (i - 1)] = s[i]
    BY <1>1, <2>1
  <2>. QED
    BY <2>2, <2>3, <2>4
<1>8. s \in Seq(Digits) /\ Len(s) = n
  BY DEF n
<1>9. ToLe(N, n) = s
  <2>. DEFINE t == ToLe(N, n)
  <2>1. t \in Seq(Digits) /\ Len(t) = n /\ \A i \in 1..n : t[i] = s[i]
    BY <1>6, <1>7
  <2>. HIDE DEF t
  <2>2. t = s
    BY <1>8, <2>1, SameSeq
  <2>. QED
    BY <2>2 DEF t
<1>. QED
  BY <1>3, <1>9 DEF N, n

(* A number that fits is what its octets denote. *)
LEMMA StoreLoad ==
  ASSUME NEW n \in Nat, NEW w \in Nat, Quotients(n, w)[w] = 0
  PROVE  FromBe(ToBe(n, w)) = n /\ FromLe(ToLe(n, w)) = n
<1>. DEFINE t == ToLe(n, w)
            d == ToBe(n, w)
            v == Values(Base, d)
            q == Quotients(n, w)
<1>1. t \in Seq(Digits) /\ Len(t) = w /\ \A i \in 1..w : t[i] = q[i - 1] % Base
  BY ToLeDef
<1>2. d = Swapped(t)
  BY DEF ToBe
<1>. HIDE DEF t, d
<1>3. /\ d \in Seq(Digits) /\ Len(d) = w /\ d \in Seq(Nat)
      /\ \A i \in 1..w : d[i] = t[w - i + 1] /\ w - i + 1 \in 1..w
  <2>1. /\ d \in Seq(Digits) /\ Len(d) = w
        /\ \A i \in 1..w : d[i] = t[w - i + 1] /\ w - i + 1 \in 1..w
    <3>1. t \in Seq(Digits) /\ Len(t) = w
      BY <1>1
    <3>2. /\ Swapped(t) \in Seq(Digits) /\ Len(Swapped(t)) = Len(t)
          /\ \A i \in 1..Len(t) : Swapped(t)[i] = t[Len(t) - i + 1] /\ Len(t) - i + 1 \in 1..Len(t)
      BY <3>1, SwappedDef
    <3>. QED
      BY <1>2, <3>1, <3>2
  <2>. QED
    BY <2>1, DigitTypes
<1>4. /\ v \in [0..w -> Nat] /\ v[0] = 0 /\ \A k \in 1..w : v[k] = v[k - 1] * Base + d[k]
      /\ FromBe(d) = v[w]
  BY <1>3, ValuesDef, DigitTypes, Zenon DEF FromBe
<1>5. q \in [0..w -> Nat] /\ q[0] = n /\ \A k \in 1..w : q[k] = q[k - 1] \div Base
  BY QuotientsDef, Zenon
<1>6. q[w] = 0
  OBVIOUS
<1>. HIDE DEF v, q
<1>7. \A k \in 0..w : v[k] = q[w - k]
  <2>. DEFINE T == {k \in 0..w : v[k] = q[w - k]}
  <2>1. 0 \in T
    BY <1>4, <1>6
  <2>2. ASSUME NEW k \in 0..(w - 1), k \in T PROVE k + 1 \in T
    <3>1. k + 1 \in 1..w /\ (k + 1) - 1 = k /\ w - k \in 1..w /\ (w - k) - 1 = w - (k + 1) /\ k + 1 \in 0..w
          /\ w - (k + 1) + 1 = w - k /\ w - (k + 1) \in 0..w
      OBVIOUS
    <3>2. v[k + 1] = q[w - k] * Base + d[k + 1]
      BY <1>4, <2>2, <3>1
    <3>3. d[k + 1] = q[w - (k + 1)] % Base
      BY <1>1, <1>3, <3>1
    <3>4. q[w - k] = q[w - (k + 1)] \div Base /\ q[w - (k + 1)] \in Nat
      BY <1>5, <3>1
    <3>5. v[k + 1] = q[w - (k + 1)]
      <4>. DEFINE r == q[w - (k + 1)]
      <4>1. r \in Nat /\ v[k + 1] = (r \div Base) * Base + (r % Base)
        BY <3>2, <3>3, <3>4
      <4>. HIDE DEF r
      <4>2. r = (r \div Base) * Base + (r % Base)
        BY <4>1, Division, EncodingAssumption
      <4>. QED
        BY <4>1, <4>2 DEF r
    <3>. QED
      BY <3>1, <3>5
  <2>3. \A k \in 0..w : k \in T
    <3>. HIDE DEF T
    <3>. QED
      BY <2>1, <2>2, BoundedInduction
  <2>. QED
    BY <2>3
<1>8. FromBe(d) = n
  BY <1>4, <1>5, <1>7
<1>9. FromLe(t) = FromBe(d)
  BY <1>2 DEF FromLe
<1>. QED
  BY <1>8, <1>9 DEF t, d

(* A number below a product, divided by one factor, is below the other. *)
LEMMA Product ==
  ASSUME NEW a \in Nat, NEW b \in Nat, NEW n \in Nat, a > 0, n < a * b
  PROVE  n \div a \in Nat /\ n \div a < b
<1>. DEFINE q == n \div a
<1>1. q \in Nat /\ n = q * a + (n % a) /\ n % a \in Nat
  BY Division
<1>. HIDE DEF q
<1>2. ASSUME q >= b PROVE FALSE
  <2>1. q * a = b * a + (q - b) * a /\ q - b \in Nat
    BY <1>1, <1>2
  <2>2. (q - b) * a \in Nat /\ b * a = a * b /\ a * b \in Nat
    BY <2>1
  <2>. QED
    BY <1>1, <2>1, <2>2
<1>. QED
  BY <1>1, <1>2 DEF q

(* Numbers of two and of four octets. *)
LEMMA HalfWordFits ==
  ASSUME NEW n \in 0..(HalfWord - 1)
  PROVE  n \in Nat /\ Quotients(n, 2)[2] = 0
<1>. DEFINE q == Quotients(n, 2)
<1>1. Base \in Nat /\ Base > 0 /\ Base * Base \in Nat
  BY EncodingAssumption
<1>2. n \in Nat /\ n < Base * Base
  BY <1>1 DEF HalfWord
<1>q. q[0] = n /\ \A k \in 1..2 : q[k] = q[k - 1] \div Base
  <2>. DEFINE w == 2
  <2>1. w \in Nat
    OBVIOUS
  <2>. HIDE DEF w
  <2>2. Quotients(n, w)[0] = n /\ \A k \in 1..w : Quotients(n, w)[k] = Quotients(n, w)[k - 1] \div Base
    BY <1>2, <2>1, QuotientsDef, Zenon
  <2>. QED
    BY <2>2 DEF w
<1>. HIDE DEF q
<1>3. q[0] = n /\ q[1] = q[0] \div Base /\ q[2] = q[1] \div Base
  BY <1>q
<1>4. q[1] \in Nat /\ q[1] < Base
  BY <1>1, <1>2, <1>3, Product
<1>5. q[1] < Base * 1
  BY <1>1, <1>4
<1>6. q[2] \in Nat /\ q[2] < 1
  BY <1>1, <1>3, <1>4, <1>5, Product
<1>. QED
  BY <1>2, <1>6 DEF q

(* A number below Word has no octets beyond the fourth. *)
LEMMA WordFits ==
  ASSUME NEW n \in 0..(Word - 1)
  PROVE  n \in Nat /\ Quotients(n, 4)[4] = 0
<1>. DEFINE q == Quotients(n, 4)
            two == Base * Base
            three == Base * two
<1>1. Base \in Nat /\ Base > 0 /\ two \in Nat /\ three \in Nat
  BY EncodingAssumption
<1>2. n \in Nat /\ n < Base * three
  <2>1. Word = Base * three /\ Word \in Nat
    BY <1>1 DEF Word
  <2>. HIDE DEF three
  <2>. QED
    BY <2>1
<1>q. q[0] = n /\ \A k \in 1..4 : q[k] = q[k - 1] \div Base
  <2>. DEFINE w == 4
  <2>1. w \in Nat
    OBVIOUS
  <2>. HIDE DEF w
  <2>2. Quotients(n, w)[0] = n /\ \A k \in 1..w : Quotients(n, w)[k] = Quotients(n, w)[k - 1] \div Base
    BY <1>2, <2>1, QuotientsDef, Zenon
  <2>. QED
    BY <2>2 DEF w
<1>. HIDE DEF q
<1>3. q[0] = n /\ q[1] = q[0] \div Base /\ q[2] = q[1] \div Base /\ q[3] = q[2] \div Base /\ q[4] = q[3] \div Base
  BY <1>q
<1>4. q[1] \in Nat /\ q[1] < Base * two
  <2>. HIDE DEF three
  <2>1. q[1] \in Nat /\ q[1] < three
    BY <1>1, <1>2, <1>3, Product
  <2>. QED
    BY <2>1 DEF three
<1>5. q[2] \in Nat /\ q[2] < Base * Base
  <2>. HIDE DEF two
  <2>1. q[2] \in Nat /\ q[2] < two
    BY <1>1, <1>3, <1>4, Product
  <2>. QED
    BY <2>1 DEF two
<1>6. q[3] \in Nat /\ q[3] < Base
  BY <1>1, <1>3, <1>5, Product
<1>7. q[3] < Base * 1
  BY <1>1, <1>6
<1>8. q[4] \in Nat /\ q[4] < 1
  BY <1>1, <1>3, <1>6, <1>7, Product
<1>. QED
  BY <1>2, <1>8 DEF q

(* The number in two octets, and in four of which the last two are zero. *)
LEMMA FromLeTwo ==
  ASSUME NEW s \in Seq(Digits), Len(s) = 2 \/ (Len(s) = 4 /\ s[3] = 0 /\ s[4] = 0)
  PROVE  FromLe(s) = s[2] * Base + s[1]
<1>. DEFINE d == Swapped(s)
            v == Values(Base, d)
            n == Len(s)
<1>1. /\ d \in Seq(Digits) /\ d \in Seq(Nat) /\ Len(d) = n /\ \A i \in 1..n : d[i] = s[n - i + 1]
      /\ \A i \in 1..n : s[i] \in Nat
  BY SwappedDef, DigitTypes
<1>. HIDE DEF d
<1>2. v[0] = 0 /\ \A k \in 1..n : v[k] = v[k - 1] * Base + d[k]
  BY <1>1, ValuesDef, DigitTypes
<1>3. FromLe(s) = v[n]
  BY <1>1, ValuesDef, DigitTypes DEF FromLe, FromBe, d
<1>. HIDE DEF v
<1>4. CASE n = 2
  <2>1. d[1] = s[2] /\ d[2] = s[1] /\ s[2] \in Nat
    BY <1>1, <1>4
  <2>2. v[1] = v[0] * Base + d[1] /\ v[2] = v[1] * Base + d[2]
    BY <1>2, <1>4
  <2>. QED
    BY <1>2, <1>3, <1>4, <2>1, <2>2, DigitTypes
<1>5. CASE n = 4 /\ s[3] = 0 /\ s[4] = 0
  <2>1. d[1] = 0 /\ d[2] = 0 /\ d[3] = s[2] /\ d[4] = s[1] /\ s[2] \in Nat
    BY <1>1, <1>5
  <2>2. v[1] = v[0] * Base + d[1] /\ v[2] = v[1] * Base + d[2]
    BY <1>2, <1>5
  <2>3. v[3] = v[2] * Base + d[3] /\ v[4] = v[3] * Base + d[4]
    BY <1>2, <1>5
  <2>4. v[1] = 0 /\ v[2] = 0
    BY <1>2, <2>1, <2>2, DigitTypes
  <2>5. v[3] = s[2]
    BY <2>1, <2>3, <2>4, DigitTypes
  <2>. QED
    BY <1>3, <1>5, <2>1, <2>3, <2>5
<1>. QED
  BY <1>4, <1>5

(* c is s followed by t. *)
Joins(c, s, t, S) ==
  /\ c \in Seq(S) /\ Len(c) = Len(s) + Len(t)
  /\ \A i \in 1..Len(s) : c[i] = s[i]
  /\ \A i \in 1..Len(t) : c[Len(s) + i] = t[i]

(* A concatenation is one part followed by the other. *)
LEMMA ConcatDef ==
  ASSUME NEW S, NEW s \in Seq(S), NEW t \in Seq(S)
  PROVE  Joins(s \o t, s, t, S)
BY DEF Joins

(* What Zeros returns. *)
LEMMA ZerosDef ==
  ASSUME NEW n \in Nat
  PROVE  /\ Zeros(n) \in Seq(Digits) /\ Zeros(n) \in Seq(Nat) /\ Len(Zeros(n)) = n
         /\ \A i \in 1..n : Zeros(n)[i] = 0
BY DigitTypes DEF Zeros, Digits

(* The port of a row is read as it was written. *)
LEMMA PortReadsBack ==
  ASSUME NEW port \in 0..(HalfWord - 1)
  PROVE  TablePortToHost(RowPort(port)) = port
<1>. DEFINE b == ToBe(port, 2)
            r == b \o Zeros(2)
<1>1. port \in Nat /\ FromBe(b) = port
  BY HalfWordFits, StoreLoad
<1>2. b \in Seq(Digits) /\ Len(b) = 2
  BY <1>1, ToLeDef, SwappedDef, Zenon DEF ToBe
<1>. HIDE DEF b
<1>3. r \in Seq(Digits) /\ Len(r) = 4 /\ r[1] = b[1] /\ r[2] = b[2] /\ r[3] = 0 /\ r[4] = 0
  <2>. DEFINE z == Zeros(2)
  <2>1. z \in Seq(Digits) /\ Len(z) = 2 /\ \A i \in 1..2 : z[i] = 0
    BY ZerosDef, Zenon
  <2>. HIDE DEF z
  <2>2. z[1] = 0 /\ z[2] = 0
    BY <2>1
  <2>3. Joins(b \o z, b, z, Digits)
    BY <1>2, <2>1, ConcatDef, Zenon
  <2>. DEFINE c == b \o z
  <2>. HIDE DEF c
  <2>4. /\ c \in Seq(Digits) /\ Len(c) = 2 + 2 /\ \A i \in 1..2 : c[i] = b[i]
        /\ \A i \in 1..2 : c[2 + i] = z[i]
    BY <1>2, <2>1, <2>3 DEF Joins, c
  <2>5. c[1] = b[1] /\ c[2] = b[2] /\ c[2 + 1] = 0 /\ c[2 + 2] = 0
    BY <2>2, <2>4
  <2>. QED
    BY <2>4, <2>5 DEF z, c
<1>. HIDE DEF r
<1>4. FromLe(r) = FromLe(b) /\ FromLe(b) = b[2] * Base + b[1]
  BY <1>2, <1>3, FromLeTwo
<1>5. FromLe(b) \in Nat /\ ToLe(FromLe(b), 2) = b
  BY <1>2, LoadStore, Zenon
<1>6. b[1] \in Nat /\ b[2] \in Nat /\ b[1] < Base /\ b[2] < Base
  BY <1>2, DigitTypes
<1>7. FromLe(b) < HalfWord /\ HalfWord \in Nat
  <2>1. Base \in Nat /\ b[2] <= Base - 1
    BY <1>6, DigitTypes
  <2>2. (Base - 1) * Base = b[2] * Base + (Base - 1 - b[2]) * Base
    BY <1>6, <2>1
  <2>3. (Base - 1 - b[2]) * Base \in Nat /\ b[2] * Base \in Nat
    BY <1>6, <2>1
  <2>4. Base * Base = (Base - 1) * Base + Base /\ Base * Base \in Nat
    BY <2>1
  <2>. QED
    BY <1>4, <1>6, <2>1, <2>2, <2>3, <2>4 DEF HalfWord
<1>8. FromLe(b) % HalfWord = FromLe(b)
  BY <1>5, <1>7
<1>. QED
  BY <1>1, <1>4, <1>5, <1>8 DEF TablePortToHost, RowPort, r, b

-----------------------------------------------------------------------------
(* Numbers are ordered as their digits are. *)

(* Of two numbers the one with the smaller leading part is smaller,        *)
(* whatever the last digit; with equal leading parts the last digit        *)
(* decides.                                                                *)
LEMMA DigitOrder ==
  ASSUME NEW b \in Nat, NEW x \in Nat, NEW y \in Nat, NEW o \in Nat, NEW p \in Nat, o < b, p < b
  PROVE  /\ x * b + o < y * b + p <=> x < y \/ (x = y /\ o < p)
         /\ x * b + o = y * b + p <=> x = y /\ o = p
<1>1. ASSUME NEW u \in Nat, NEW w \in Nat, u < w, NEW c \in Nat, NEW d \in Nat, c < b, d < b
      PROVE  u * b + c < w * b + d
  <2>1. w * b = u * b + b + (w - u - 1) * b /\ w - u - 1 \in Nat
    BY <1>1
  <2>2. (w - u - 1) * b \in Nat /\ u * b \in Nat /\ w * b \in Nat
    BY <1>1, <2>1
  <2>. QED
    BY <1>1, <2>1, <2>2
<1>2. CASE x < y
  BY <1>1, <1>2
<1>3. CASE y < x
  <2>1. y * b + p < x * b + o /\ y * b + p \in Nat /\ x * b + o \in Nat
    BY <1>1, <1>3
  <2>. QED
    BY <1>3, <2>1
<1>4. CASE x = y
  <2>1. x * b \in Nat
    OBVIOUS
  <2>. QED
    BY <1>4, <2>1
<1>. QED
  BY <1>2, <1>3, <1>4

(* a is before d in the first digit in which they differ. *)
Before(a, d, n) == \E k \in 1..n : a[k] < d[k] /\ \A j \in 1..(k - 1) : a[j] = d[j]
Same(a, d, n) == \A j \in 1..n : a[j] = d[j]

(* Digits that are the same make the same tuple. *)
LEMMA SameIsEqual ==
  ASSUME NEW n \in Nat, NEW S, NEW a \in [1..n -> S], NEW d \in [1..n -> S], Same(a, d, n)
  PROVE  a = d
BY DEF Same

(* How the order of the first n digits follows from that of the digits     *)
(* before.                                                                 *)
LEMMA BeforeStep ==
  ASSUME NEW a, NEW d, NEW n \in Nat
  PROVE  /\ Same(a, d, n + 1) <=> Same(a, d, n) /\ a[n + 1] = d[n + 1]
         /\ Before(a, d, n + 1) <=> Before(a, d, n) \/ (Same(a, d, n) /\ a[n + 1] < d[n + 1])
<1>1. 1..(n + 1) = (1..n) \cup {n + 1} /\ (n + 1) - 1 = n
  OBVIOUS
<1>. QED
  BY <1>1 DEF Same, Before

(* The order of the numbers is the lexicographic order of the digits. *)
LEMMA ValueOrder ==
  ASSUME NEW b \in Nat, NEW n \in Nat, NEW a \in [1..n -> 0..(b - 1)], NEW d \in [1..n -> 0..(b - 1)]
  PROVE  /\ Value(b, a) \in Nat /\ Value(b, d) \in Nat
         /\ Value(b, a) < Value(b, d) <=> Before(a, d, n)
         /\ Value(b, a) = Value(b, d) <=> Same(a, d, n)
<1>. DEFINE v == Values(b, a)
            u == Values(b, d)
<1>1. /\ a \in Seq(Nat) /\ Len(a) = n /\ \A k \in 1..n : a[k] \in Nat /\ a[k] < b
      /\ d \in Seq(Nat) /\ Len(d) = n /\ \A k \in 1..n : d[k] \in Nat /\ d[k] < b
  OBVIOUS
<1>2. /\ v \in [0..n -> Nat] /\ v[0] = 0 /\ \A k \in 1..n : v[k] = v[k - 1] * b + a[k]
      /\ Value(b, a) = v[n]
  BY <1>1, ValuesDef, Zenon
<1>3. /\ u \in [0..n -> Nat] /\ u[0] = 0 /\ \A k \in 1..n : u[k] = u[k - 1] * b + d[k]
      /\ Value(b, d) = u[n]
  BY <1>1, ValuesDef, Zenon
<1>. HIDE DEF v, u
<1>. DEFINE T == {k \in 0..n : (v[k] < u[k] <=> Before(a, d, k)) /\ (v[k] = u[k] <=> Same(a, d, k))}
<1>4. 0 \in T
  BY <1>2, <1>3 DEF Before, Same
<1>5. ASSUME NEW k \in 0..(n - 1), k \in T PROVE k + 1 \in T
  <2>1. k + 1 \in 1..n /\ (k + 1) - 1 = k /\ k \in 0..n /\ k \in Nat /\ k + 1 \in 0..n
    OBVIOUS
  <2>2. v[k + 1] = v[k] * b + a[k + 1] /\ u[k + 1] = u[k] * b + d[k + 1]
    BY <1>2, <1>3, <2>1
  <2>3. /\ v[k] \in Nat /\ u[k] \in Nat /\ a[k + 1] \in Nat /\ d[k + 1] \in Nat
        /\ a[k + 1] < b /\ d[k + 1] < b
    BY <1>1, <1>2, <1>3, <2>1
  <2>4. /\ v[k + 1] < u[k + 1] <=> v[k] < u[k] \/ (v[k] = u[k] /\ a[k + 1] < d[k + 1])
        /\ v[k + 1] = u[k + 1] <=> v[k] = u[k] /\ a[k + 1] = d[k + 1]
    <3>. DEFINE x == v[k]
                y == u[k]
                o == a[k + 1]
                p == d[k + 1]
    <3>0. x \in Nat /\ y \in Nat /\ o \in Nat /\ p \in Nat /\ o < b /\ p < b
      BY <2>3
    <3>. HIDE DEF x, y, o, p
    <3>1. /\ x * b + o < y * b + p <=> x < y \/ (x = y /\ o < p)
          /\ x * b + o = y * b + p <=> x = y /\ o = p
      BY <3>0, DigitOrder
    <3>. QED
      BY <2>2, <3>1 DEF x, y, o, p
  <2>5. (v[k] < u[k] <=> Before(a, d, k)) /\ (v[k] = u[k] <=> Same(a, d, k))
    BY <1>5
  <2>6. /\ Same(a, d, k + 1) <=> Same(a, d, k) /\ a[k + 1] = d[k + 1]
        /\ Before(a, d, k + 1) <=> Before(a, d, k) \/ (Same(a, d, k) /\ a[k + 1] < d[k + 1])
    BY <2>1, BeforeStep, Zenon
  <2>. QED
    BY <2>1, <2>4, <2>5, <2>6
<1>6. \A k \in 0..n : k \in T
  <2>. HIDE DEF T
  <2>. QED
    BY <1>4, <1>5, BoundedInduction, Zenon
<1>. QED
  BY <1>2, <1>3, <1>6

(* Addresses compared as numbers. *)
LEMMA OrderIsPrecedes ==
  ASSUME NEW b \in Nat, NEW n \in Nat, NEW a \in [1..n -> 0..(b - 1)], NEW d \in [1..n -> 0..(b - 1)]
  PROVE  Value(b, a) <= Value(b, d) <=> Precedes(a, d)
<1>1. /\ Value(b, a) \in Nat /\ Value(b, d) \in Nat
      /\ Value(b, a) < Value(b, d) <=> Before(a, d, n)
      /\ Value(b, a) = Value(b, d) <=> Same(a, d, n)
  BY ValueOrder, Zenon
<1>2. Same(a, d, n) <=> a = d
  BY DEF Same
<1>3. Precedes(a, d) <=> a = d \/ Before(a, d, n)
  <2>1. DOMAIN a = 1..n
    OBVIOUS
  <2>. QED
    BY <2>1 DEF Precedes, Before
<1>. QED
  BY <1>1, <1>2, <1>3

(* IPv4 addresses compare as the numbers that u32::from makes of them. *)
LEMMA V4Order ==
  ASSUME NEW a \in V4, NEW d \in V4
  PROVE  /\ Number(a) \in Nat
         /\ Number(a) <= Number(d) <=> Precedes(a, d)
         /\ Number(a) = Number(d) <=> a = d
<1>1. Octets \in Nat /\ Base \in Nat
  BY EncodingAssumption
<1>2. a \in [1..Octets -> 0..(Base - 1)] /\ d \in [1..Octets -> 0..(Base - 1)]
  BY DEF V4
<1>3. Value(Base, a) \in Nat
  BY <1>1, <1>2, ValueOrder, Zenon
<1>4. Value(Base, a) <= Value(Base, d) <=> Precedes(a, d)
  BY <1>1, <1>2, OrderIsPrecedes, Zenon
<1>5. Value(Base, a) = Value(Base, d) <=> a = d
  <2>1. Value(Base, a) = Value(Base, d) <=> Same(a, d, Octets)
    BY <1>1, <1>2, ValueOrder, Zenon
  <2>2. ASSUME Same(a, d, Octets) PROVE a = d
    BY <1>1, <1>2, <2>2, SameIsEqual, Zenon
  <2>3. a = d => Same(a, d, Octets)
    BY Zenon DEF Same
  <2>. QED
    BY <2>1, <2>2, <2>3, Zenon
<1>. QED
  BY <1>3, <1>4, <1>5, Zenon DEF Number

(* IPv6 addresses compare as the numbers that u128::from makes of them. *)
LEMMA V6Order ==
  ASSUME NEW a \in V6, NEW d \in V6
  PROVE  /\ Number6(a) \in Nat
         /\ Number6(a) <= Number6(d) <=> Precedes(a, d)
         /\ Number6(a) = Number6(d) <=> a = d
         /\ Number6(a) < Number6(d) <=> Before(a, d, Width)
<1>. DEFINE b == 2
<1>1. Width \in Nat /\ b \in Nat
  BY PatternAssumption
<1>2. a \in [1..Width -> 0..(b - 1)] /\ d \in [1..Width -> 0..(b - 1)]
  BY DEF V6
<1>. HIDE DEF b
<1>3. Value(b, a) <= Value(b, d) <=> Precedes(a, d)
  BY <1>1, <1>2, OrderIsPrecedes, Zenon
<1>4. Value(b, a) \in Nat /\ (Value(b, a) < Value(b, d) <=> Before(a, d, Width))
  BY <1>1, <1>2, ValueOrder, Zenon
<1>5. Value(b, a) = Value(b, d) <=> a = d
  <2>1. Value(b, a) = Value(b, d) <=> Same(a, d, Width)
    BY <1>1, <1>2, ValueOrder, Zenon
  <2>2. ASSUME Same(a, d, Width) PROVE a = d
    BY <1>1, <1>2, <2>2, SameIsEqual, Zenon
  <2>3. a = d => Same(a, d, Width)
    BY Zenon DEF Same
  <2>. QED
    BY <2>1, <2>2, <2>3, Zenon
<1>. QED
  BY <1>3, <1>4, <1>5 DEF b, Number6

(* A shift leaves the ones of the prefix. *)
LEMMA MaskDef ==
  ASSUME NEW w \in Nat, NEW len \in 1..w
  PROVE  Shl(Ones(w), w - len) = [i \in 1..w |-> IF i <= len THEN 1 ELSE 0]
<1>1. DOMAIN Ones(w) = 1..w /\ \A i \in 1..w : Ones(w)[i] = 1
  BY DEF Ones
<1>2. Shl(Ones(w), w - len) = [i \in 1..w |-> IF i + (w - len) \in 1..w THEN Ones(w)[i + (w - len)] ELSE 0]
  BY <1>1 DEF Shl
<1>3. \A i \in 1..w : i + (w - len) \in 1..w <=> i <= len
  OBVIOUS
<1>. QED
  BY <1>1, <1>2, <1>3

(* MatchCidr compares the bits of the prefix and no others. *)
LEMMA CidrBits ==
  ASSUME NEW net \in V6, NEW ip \in V6, NEW len \in 0..(Width + 1)
  PROVE  MatchCidr(net, len, ip) <=> len <= Width /\ \A i \in 1..len : ip[i] = net[i]
<1>1. Width \in Nat /\ net \in [1..Width -> 0..1] /\ ip \in [1..Width -> 0..1] /\ len \in Nat
  BY PatternAssumption DEF V6
<1>2. CASE len = 0
  BY <1>1, <1>2 DEF MatchCidr
<1>3. CASE len > Width
  BY <1>1, <1>3 DEF MatchCidr
<1>4. CASE len \in 1..Width
  <2>. DEFINE m == Mask(len)
              x == And(net, m)
              y == And(ip, m)
  <2>1. m = [i \in 1..Width |-> IF i <= len THEN 1 ELSE 0]
    BY <1>1, <1>4, MaskDef, Zenon DEF Mask
  <2>. HIDE DEF m
  <2>2. x = [i \in 1..Width |-> IF i <= len THEN net[i] ELSE 0]
    <3>1. x = [i \in 1..Width |-> net[i] * m[i]]
      BY <1>1 DEF And
    <3>2. ASSUME NEW i \in 1..Width PROVE net[i] * m[i] = IF i <= len THEN net[i] ELSE 0
      <4>1. net[i] \in Nat
        BY <1>1
      <4>2. CASE i <= len
        BY <2>1, <4>1, <4>2
      <4>3. CASE ~ (i <= len)
        BY <2>1, <4>1, <4>3
      <4>. QED
        BY <4>2, <4>3
    <3>. QED
      BY <3>1, <3>2
  <2>3. y = [i \in 1..Width |-> IF i <= len THEN ip[i] ELSE 0]
    <3>1. y = [i \in 1..Width |-> ip[i] * m[i]]
      BY <1>1 DEF And
    <3>2. ASSUME NEW i \in 1..Width PROVE ip[i] * m[i] = IF i <= len THEN ip[i] ELSE 0
      <4>1. ip[i] \in Nat
        BY <1>1
      <4>2. CASE i <= len
        BY <2>1, <4>1, <4>2
      <4>3. CASE ~ (i <= len)
        BY <2>1, <4>1, <4>3
      <4>. QED
        BY <4>2, <4>3
    <3>. QED
      BY <3>1, <3>2
  <2>. HIDE DEF x, y
  <2>4. ASSUME x = y PROVE \A i \in 1..len : ip[i] = net[i]
    <3>. TAKE i \in 1..len
    <3>1. i \in 1..Width /\ i <= len
      BY <1>1, <1>4
    <3>2. x[i] = net[i] /\ y[i] = ip[i]
      BY <2>2, <2>3, <3>1
    <3>. QED
      BY <2>4, <3>2
  <2>5. ASSUME \A i \in 1..len : ip[i] = net[i] PROVE x = y
    <3>1. ASSUME NEW i \in 1..Width PROVE (IF i <= len THEN net[i] ELSE 0) = (IF i <= len THEN ip[i] ELSE 0)
      BY <1>1, <1>4, <2>5
    <3>. QED
      BY <2>2, <2>3, <3>1
  <2>6. MatchCidr(net, len, ip) <=> x = y
    BY <1>1, <1>4 DEF MatchCidr, x, y, m
  <2>. QED
    BY <1>1, <1>4, <2>4, <2>5, <2>6
<1>. QED
  BY <1>1, <1>2, <1>3, <1>4

(* The addresses with a prefix are those from the prefix and zeros to the  *)
(* prefix and ones.                                                        *)
LEMMA PrefixIsRange ==
  ASSUME NEW net \in V6, NEW ip \in V6, NEW len \in 0..Width,
         NEW lo, lo = [i \in 1..Width |-> IF i <= len THEN net[i] ELSE 0],
         NEW hi, hi = [i \in 1..Width |-> IF i <= len THEN net[i] ELSE 1]
  PROVE  (\A i \in 1..len : ip[i] = net[i]) <=> InRange(Number6(lo), Number6(ip), Number6(hi))
<1>1. Width \in Nat /\ net \in [1..Width -> 0..1] /\ ip \in [1..Width -> 0..1] /\ len \in Nat /\ len <= Width
  BY PatternAssumption DEF V6
<1>2. lo \in V6 /\ hi \in V6
  BY <1>1 DEF V6
<1>3. InRange(Number6(lo), Number6(ip), Number6(hi)) <=> ~ Before(ip, lo, Width) /\ ~ Before(hi, ip, Width)
  BY <1>2, V6Order DEF InRange
<1>4. ASSUME \A i \in 1..len : ip[i] = net[i]
      PROVE  ~ Before(ip, lo, Width) /\ ~ Before(hi, ip, Width)
  <2>1. ASSUME NEW k \in 1..Width PROVE ~ (ip[k] < lo[k]) /\ ~ (hi[k] < ip[k])
    <3>1. ip[k] \in 0..1
      BY <1>1
    <3>2. CASE k <= len
      <4>1. ip[k] = net[k] /\ lo[k] = net[k] /\ hi[k] = net[k]
        BY <1>1, <1>4, <3>2
      <4>. QED
        BY <3>1, <4>1
    <3>3. CASE ~ (k <= len)
      <4>1. lo[k] = 0 /\ hi[k] = 1
        BY <3>3
      <4>. QED
        BY <3>1, <4>1
    <3>. QED
      BY <3>2, <3>3
  <2>. QED
    BY <2>1 DEF Before
<1>5. ASSUME ~ (\A i \in 1..len : ip[i] = net[i])
      PROVE  Before(ip, lo, Width) \/ Before(hi, ip, Width)
  <2>. DEFINE D == {i \in 1..len : ip[i] # net[i]}
  <2>1. D \in SUBSET Nat /\ D # {}
    BY <1>5
  <2>2. PICK k \in D : \A y \in D : k <= y
    <3>. HIDE DEF D
    <3>. QED
      BY <2>1, Least
  <2>3. k \in 1..Width /\ k \in 1..len /\ ip[k] # net[k]
    BY <1>1, <2>2
  <2>4. ASSUME NEW j \in 1..(k - 1) PROVE ip[j] = lo[j] /\ hi[j] = ip[j]
    <3>1. j \in 1..Width /\ j \in 1..len /\ j <= len /\ ~ (k <= j)
      BY <1>1, <2>3
    <3>2. ip[j] = net[j]
      BY <2>2, <3>1
    <3>. QED
      BY <3>1, <3>2
  <2>5. lo[k] = net[k] /\ hi[k] = net[k] /\ net[k] \in 0..1 /\ ip[k] \in 0..1
    BY <1>1, <2>3
  <2>6. ip[k] < lo[k] \/ hi[k] < ip[k]
    BY <2>3, <2>5
  <2>. QED
    BY <2>3, <2>4, <2>6, Zenon DEF Before
<1>. QED
  BY <1>3, <1>4, <1>5

-----------------------------------------------------------------------------
(* A question of the model, and its answer. *)
Asks ==
  \/ /\ pattern \in Pattern /\ dest \in Address \cup PortOf
     /\ pattern.kind # "any" => (dest.family = "port" <=> pattern.kind \in {"port", "ports"})
  \/ /\ pattern \in [kind : {"process"}, list : Lists]
     /\ dest \in [family : {"name"}, addr : Names]
  \/ /\ pattern \in [kind : {"row"}, octets : V4, port : 0..(HalfWord - 1)]
     /\ dest \in [family : {"endpoint"}, addr : V4, port : 0..(HalfWord - 1)]
  \/ pattern \in Encoded /\ dest = [family |-> "kernel"]

Answers(yes) == answer = IF yes THEN "match" ELSE "other"

Answered ==
  /\ dest.family = "port" => Answers(MatchPortPattern(pattern, dest.addr))
  /\ dest.family = "v4" => Answers(MatchIpv4Pattern(pattern, dest.addr))
  /\ dest.family = "v6" => Answers(MatchIpv6Pattern(pattern, dest.addr))
  /\ dest.family = "endpoint" => Answers(RowMatches(pattern, dest.addr, dest.port))
  /\ dest.family = "kernel" => Answers(ReadsBack(pattern))
  /\ dest.family = "name" =>
       /\ Panics(pattern.list, dest.addr) => answer = "panic"
       /\ ~ Panics(pattern.list, dest.addr) => Answers(MatchesProcess(pattern.list, dest.addr))

FunctionsInv == Asks /\ (answer = "pending" \/ Answered)

(* The families of destinations, and what an address of each of them is. *)
LEMMA Families ==
  ASSUME Asks
  PROVE  /\ dest.family \in {"v4", "v6", "port", "name", "endpoint", "kernel"}
         /\ dest.family = "port" <=> dest \in PortOf
         /\ dest.family \in {"v4", "v6"} <=> dest \in Address
         /\ dest.family = "v4" => dest.addr \in V4
         /\ dest.family = "v6" => dest.addr \in V6
         /\ dest.family = "port" => dest.addr \in Ports
<1>1. CASE dest \in Address
  BY <1>1 DEF Address, PortOf
<1>2. CASE dest \in PortOf
  BY <1>2 DEF Address, PortOf
<1>3. CASE dest \in [family : {"name"}, addr : Names]
  BY <1>3 DEF Address, PortOf
<1>4. CASE dest \in [family : {"endpoint"}, addr : V4, port : 0..(HalfWord - 1)]
  BY <1>4 DEF Address, PortOf
<1>5. CASE dest = [family |-> "kernel"]
  BY <1>5 DEF Address, PortOf
<1>. QED
  BY <1>1, <1>2, <1>3, <1>4, <1>5 DEF Asks

(* Every question is one of those that Init asks, and its answer is what   *)
(* the function asked about returns.                                       *)
LEMMA FunctionsInvHolds == SpecFunctions => []FunctionsInv
<1>1. InitFunctions => FunctionsInv
  BY DEF InitFunctions, Init, FunctionsInv, Asks
<1>2. FunctionsInv /\ [NextFunctions]_vars => FunctionsInv'
  <2>. SUFFICES ASSUME FunctionsInv, [NextFunctions]_vars PROVE FunctionsInv'
    OBVIOUS
  <2>1. CASE UNCHANGED vars
    BY <2>1 DEF vars, FunctionsInv, Asks, Answered, Answers
  <2>2. CASE NextFunctions
    <3>1. UNCHANGED <<pattern, dest>>
      BY <2>2 DEF NextFunctions, Answer, AnswerOther
    <3>2. Asks'
      BY <3>1 DEF FunctionsInv, Asks
    <3>3. Answered'
      <4>1. CASE dest.family \in {"v4", "v6", "port"} /\ Answer
        BY <3>1, <4>1 DEF Answer, Answered, Answers, MatchIpPattern
      <4>2. CASE dest.family \in {"name", "endpoint", "kernel"} /\ AnswerOther
        <5>1. CASE dest.family = "name"
          BY <3>1, <4>2, <5>1 DEF AnswerOther, Answered, Answers
        <5>2. CASE dest.family = "endpoint"
          BY <3>1, <4>2, <5>2 DEF AnswerOther, Answered, Answers
        <5>3. CASE dest.family = "kernel"
          BY <3>1, <4>2, <5>3 DEF AnswerOther, Answered, Answers
        <5>. QED
          BY <4>2, <5>1, <5>2, <5>3
      <4>. QED
        BY <2>2, <4>1, <4>2 DEF NextFunctions
    <3>. QED
      BY <3>2, <3>3 DEF FunctionsInv
  <2>. QED
    BY <2>1, <2>2
<1>. QED
  BY <1>1, <1>2, PTL DEF SpecFunctions

(* An IPv6 CIDR of any length matches the addresses that begin with the    *)
(* bits of the network, which are an interval of the numbers (rule.rs,     *)
(* match_ipv6_pattern): masking and shifting never lose or add an address. *)
THEOREM CidrCorrect == SpecFunctions => []CidrIsPrefix
<1>1. FunctionsInv => CidrIsPrefix
  <2>. SUFFICES ASSUME Asks, Answered, pattern.kind = "cidr", dest.family = "v6"
                PROVE  CidrIsPrefix
    BY DEF FunctionsInv, CidrIsPrefix, Asked
  <2>1. pattern.net \in V6 /\ pattern.len \in 0..(Width + 1) /\ dest.addr \in V6
    <3>1. dest.addr \in V6 /\ dest \in Address
      BY Families
    <3>2. pattern \in [kind : {"cidr"}, net : V6, len : 0..(Width + 1)]
      BY DEF Asks, Pattern, Encoded
    <3>. QED
      BY <3>1, <3>2
  <2>. DEFINE len == pattern.len
              ip == dest.addr
              net == pattern.net
              lo == [i \in 1..Width |-> IF i <= len THEN net[i] ELSE 0]
              hi == [i \in 1..Width |-> IF i <= len THEN net[i] ELSE 1]
  <2>2. Yes <=> MatchCidr(net, len, ip)
    BY DEF Answered, Answers, MatchIpv6Pattern, Yes
  <2>3. Yes <=> len <= Width /\ \A i \in 1..len : ip[i] = net[i]
    BY <2>1, <2>2, CidrBits
  <2>4. ASSUME len <= Width
        PROVE  Yes <=> InRange(Number6(lo), Number6(ip), Number6(hi))
    <3>1. len \in 0..Width /\ Width \in Nat
      BY <2>1, <2>4, PatternAssumption
    <3>2. (\A i \in 1..len : ip[i] = net[i]) <=> InRange(Number6(lo), Number6(ip), Number6(hi))
      BY <2>1, <3>1, PrefixIsRange, Zenon
    <3>. QED
      BY <2>3, <2>4, <3>2
  <2>. QED
    BY <2>3, <2>4 DEF CidrIsPrefix
<1>. QED
  BY <1>1, FunctionsInvHolds, PTL

(* A range of IPv4 or IPv6 addresses, compared as u32 or u128, holds the   *)
(* addresses between its ends as they are written (rule.rs,                *)
(* match_ipv4_pattern and match_ipv6_pattern).                             *)
THEOREM RangesCorrect == SpecFunctions => []RangeIsLexicographic
<1>1. FunctionsInv => RangeIsLexicographic
  <2>1. ASSUME Asks, Answered, pattern.kind = "range4", dest.family = "v4"
        PROVE  Yes <=> Precedes(pattern.lo, dest.addr) /\ Precedes(dest.addr, pattern.hi)
    <3>1. pattern \in [kind : {"range4"}, lo : V4, hi : V4]
      BY <2>1 DEF Asks, Pattern, Encoded
    <3>2. pattern.lo \in V4 /\ pattern.hi \in V4 /\ dest.addr \in V4
      BY <2>1, <3>1, Families
    <3>3. Yes <=> InRange(Number(pattern.lo), Number(dest.addr), Number(pattern.hi))
      BY <2>1 DEF Answered, Answers, MatchIpv4Pattern, Yes
    <3>. QED
      BY <3>2, <3>3, V4Order DEF InRange
  <2>2. ASSUME Asks, Answered, pattern.kind = "range6", dest.family = "v6"
        PROVE  Yes <=> Precedes(pattern.lo, dest.addr) /\ Precedes(dest.addr, pattern.hi)
    <3>1. pattern \in [kind : {"range6"}, lo : V6, hi : V6]
      BY <2>2 DEF Asks, Pattern, Encoded
    <3>2. pattern.lo \in V6 /\ pattern.hi \in V6 /\ dest.addr \in V6
      BY <2>2, <3>1, Families
    <3>3. Yes <=> InRange(Number6(pattern.lo), Number6(dest.addr), Number6(pattern.hi))
      BY <2>2 DEF Answered, Answers, MatchIpv6Pattern, Yes
    <3>. QED
      BY <3>2, <3>3, V6Order DEF InRange
  <2>. QED
    BY <2>1, <2>2 DEF FunctionsInv, RangeIsLexicographic, Asked
<1>. QED
  BY <1>1, FunctionsInvHolds, PTL

(* Tuples are equal if their components are. *)
LEMMA SameTuple ==
  ASSUME NEW n \in Nat, NEW S, NEW a \in [1..n -> S], NEW d \in [1..n -> S]
  PROVE  (\A i \in 1..n : a[i] = d[i]) <=> a = d
<1>1. ASSUME \A i \in 1..n : a[i] = d[i] PROVE a = d
  BY <1>1
<1>. QED
  BY <1>1

(* A range from a number to itself. *)
LEMMA OneInRange ==
  ASSUME NEW a \in Nat, NEW d \in Nat
  PROVE  InRange(a, d, a) <=> a = d
BY DEF InRange

(* Every way to write a single address or port matches that one and no     *)
(* other (rule.rs, the match functions of the tokens).                     *)
THEOREM SingleAddressCorrect == SpecFunctions => []SingleAddress
<1>1. FunctionsInv => SingleAddress
  <2>. SUFFICES ASSUME Asks, Answered, answer # "pending" PROVE SingleAddress
    BY DEF FunctionsInv, SingleAddress, Asked
  <2>0. Width \in Nat /\ Octets \in Nat /\ Star \notin 0..Base /\ Base \in Nat
    BY PatternAssumption, EncodingAssumption
  <2>v. pattern.kind \in {"range4", "range6", "octets", "exact6", "cidr"} => dest.family \in {"v4", "v6"}
    BY Families DEF Asks, Pattern, Encoded
  <2>p. pattern.kind \in {"ports", "port"} => dest.family = "port"
    BY Families DEF Asks, Pattern, Encoded
  <2>1. ASSUME pattern.kind = "range4", pattern.lo = pattern.hi PROVE Yes <=> Is("v4", pattern.lo)
    <3>1. pattern \in [kind : {"range4"}, lo : V4, hi : V4]
      BY <2>1 DEF Asks, Pattern, Encoded
    <3>2. CASE dest.family = "v4"
      <4>1. pattern.lo \in V4 /\ dest.addr \in V4
        BY <3>1, <3>2, Families
      <4>2. Yes <=> InRange(Number(pattern.lo), Number(dest.addr), Number(pattern.lo))
        BY <2>1, <3>2 DEF Answered, Answers, MatchIpv4Pattern, Yes
      <4>. QED
        BY <3>2, <4>1, <4>2, V4Order, OneInRange DEF Is
    <3>3. CASE dest.family = "v6"
      BY <2>1, <3>3 DEF Answered, Answers, MatchIpv6Pattern, Yes, Is
    <3>. QED
      BY <2>1, <2>v, <3>2, <3>3
  <2>2. ASSUME pattern.kind = "range6", pattern.lo = pattern.hi PROVE Yes <=> Is("v6", pattern.lo)
    <3>1. pattern \in [kind : {"range6"}, lo : V6, hi : V6]
      BY <2>2 DEF Asks, Pattern, Encoded
    <3>2. CASE dest.family = "v6"
      <4>1. pattern.lo \in V6 /\ dest.addr \in V6
        BY <3>1, <3>2, Families
      <4>2. Yes <=> InRange(Number6(pattern.lo), Number6(dest.addr), Number6(pattern.lo))
        BY <2>2, <3>2 DEF Answered, Answers, MatchIpv6Pattern, Yes
      <4>. QED
        BY <3>2, <4>1, <4>2, V6Order, OneInRange DEF Is
    <3>3. CASE dest.family = "v4"
      BY <2>2, <3>3 DEF Answered, Answers, MatchIpv4Pattern, Yes, Is
    <3>. QED
      BY <2>2, <2>v, <3>2, <3>3
  <2>3. ASSUME pattern.kind = "octets", pattern.parts \in V4 PROVE Yes <=> Is("v4", pattern.parts)
    <3>1. CASE dest.family = "v4"
      <4>. DEFINE a == pattern.parts
                  d == dest.addr
      <4>1. a \in [1..Octets -> 0..(Base - 1)] /\ d \in [1..Octets -> 0..(Base - 1)]
        BY <2>3, <3>1, Families DEF V4
      <4>2. Yes <=> Len(a) = Octets /\ \A k \in 1..Octets : a[k] \in {Star, d[k]}
        BY <2>3, <3>1 DEF Answered, Answers, MatchIpv4Pattern, Yes
      <4>. HIDE DEF a, d
      <4>3. Len(a) = Octets
        BY <2>0, <4>1
      <4>4. \A k \in 1..Octets : a[k] # Star
        BY <2>0, <4>1
      <4>5. (\A k \in 1..Octets : a[k] = d[k]) <=> a = d
        BY <2>0, <4>1, SameTuple
      <4>6. Yes <=> a = d
        BY <4>2, <4>3, <4>4, <4>5
      <4>. QED
        BY <3>1, <4>6 DEF Is, a, d
    <3>2. CASE dest.family = "v6"
      BY <2>3, <3>2 DEF Answered, Answers, MatchIpv6Pattern, Yes, Is
    <3>. QED
      BY <2>3, <2>v, <3>1, <3>2
  <2>4. ASSUME pattern.kind = "exact6" PROVE Yes <=> Is("v6", pattern.addr)
    <3>1. CASE dest.family = "v6"
      BY <2>4, <3>1 DEF Answered, Answers, MatchIpv6Pattern, Yes, Is
    <3>2. CASE dest.family = "v4"
      BY <2>4, <3>2 DEF Answered, Answers, MatchIpv4Pattern, Yes, Is
    <3>. QED
      BY <2>4, <2>v, <3>1, <3>2
  <2>5. ASSUME pattern.kind = "ports", pattern.lo = pattern.hi PROVE Yes <=> Is("port", pattern.lo)
    <3>1. pattern \in [kind : {"ports"}, lo : Ports, hi : Ports] /\ dest.family = "port"
      BY <2>5, <2>p DEF Asks, Pattern, Encoded
    <3>2. pattern.lo \in Nat /\ dest.addr \in Nat
      BY <3>1, Families, PatternAssumption DEF Ports
    <3>3. Yes <=> InRange(pattern.lo, dest.addr, pattern.lo)
      BY <2>5, <3>1 DEF Answered, Answers, MatchPortPattern, Yes
    <3>. QED
      BY <3>1, <3>2, <3>3, OneInRange DEF Is
  <2>6. ASSUME pattern.kind = "port" PROVE Yes <=> Is("port", pattern.port)
    BY <2>6, <2>p DEF Answered, Answers, MatchPortPattern, Yes, Is
  <2>7. ASSUME pattern.kind = "cidr", pattern.len = Width PROVE Yes <=> Is("v6", pattern.net)
    <3>1. pattern \in [kind : {"cidr"}, net : V6, len : 0..(Width + 1)]
      BY <2>7 DEF Asks, Pattern, Encoded
    <3>2. CASE dest.family = "v6"
      <4>. DEFINE a == pattern.net
                  d == dest.addr
      <4>1. a \in V6 /\ d \in V6
        BY <3>1, <3>2, Families
      <4>2. Yes <=> MatchCidr(a, Width, d)
        BY <2>7, <3>2 DEF Answered, Answers, MatchIpv6Pattern, Yes
      <4>. HIDE DEF a, d
      <4>3. MatchCidr(a, Width, d) <=> \A i \in 1..Width : d[i] = a[i]
        BY <2>0, <4>1, CidrBits
      <4>4. (\A i \in 1..Width : d[i] = a[i]) <=> d = a
        BY <2>0, <4>1, SameTuple DEF V6
      <4>. QED
        BY <3>2, <4>2, <4>3, <4>4 DEF Is, a, d
    <3>3. CASE dest.family = "v4"
      BY <2>7, <3>3 DEF Answered, Answers, MatchIpv4Pattern, Yes, Is
    <3>. QED
      BY <2>7, <2>v, <3>2, <3>3
  <2>. QED
    BY <2>1, <2>2, <2>3, <2>4, <2>5, <2>6, <2>7 DEF SingleAddress, Asked
<1>. QED
  BY <1>1, FunctionsInvHolds, PTL

(* A row of a Windows owner table is taken for its own endpoint and for no *)
(* other, for all addresses and ports (windows/process.rs,                 *)
(* table_port_to_host and ipv4_table_key).                                 *)
THEOREM RowsCorrect == SpecFunctions => []RowIsEndpoint
<1>1. FunctionsInv => RowIsEndpoint
  <2>. SUFFICES ASSUME Asks, Answered, pattern.kind = "row"
                PROVE  Yes <=> pattern.octets = dest.addr /\ pattern.port = dest.port
    BY DEF FunctionsInv, RowIsEndpoint, Asked
  <2>1. /\ pattern \in [kind : {"row"}, octets : V4, port : 0..(HalfWord - 1)]
        /\ dest \in [family : {"endpoint"}, addr : V4, port : 0..(HalfWord - 1)]
    BY DEF Asks, Pattern, Encoded
  <2>. DEFINE a == pattern.octets
              d == dest.addr
  <2>2. a \in V4 /\ d \in V4 /\ pattern.port \in 0..(HalfWord - 1)
    BY <2>1
  <2>3. Yes <=> FromLe(a) = FromLe(d) /\ TablePortToHost(RowPort(pattern.port)) = dest.port
    BY <2>1 DEF Answered, Answers, Yes, RowMatches, RowAddr, Ipv4TableKey
  <2>. HIDE DEF a, d
  <2>4. FromLe(a) = FromLe(d) <=> a = d
    <3>1. a \in Seq(Digits) /\ d \in Seq(Digits) /\ Len(a) = Octets /\ Len(d) = Octets
      BY <2>2, EncodingAssumption DEF V4, Digits
    <3>. QED
      BY <3>1, LoadStore
  <2>5. TablePortToHost(RowPort(pattern.port)) = pattern.port
    BY <2>2, PortReadsBack
  <2>. QED
    BY <2>3, <2>4, <2>5 DEF a, d
<1>. QED
  BY <1>1, FunctionsInvHolds, PTL

(* What lies between two pieces of a buffer. *)
LEMMA Middle ==
  ASSUME NEW S, NEW a \in Seq(S), NEW b \in Seq(S), NEW c \in Seq(S)
  PROVE  SubSeq((a \o b) \o c, Len(a) + 1, Len(a) + Len(b)) = b
<1>. DEFINE u == a \o b
            v == u \o c
            w == SubSeq(v, Len(a) + 1, Len(a) + Len(b))
<1>1. Joins(u, a, b, S)
  BY ConcatDef, Zenon
<1>. HIDE DEF u
<1>2. u \in Seq(S)
  BY <1>1 DEF Joins
<1>3. Joins(v, u, c, S)
  BY <1>2, ConcatDef, Zenon
<1>. HIDE DEF v
<1>4. /\ v \in Seq(S) /\ Len(v) = Len(a) + Len(b) + Len(c)
      /\ Len(a) \in Nat /\ Len(b) \in Nat /\ Len(c) \in Nat
  BY <1>1, <1>3 DEF Joins
<1>5. ASSUME NEW i \in 1..Len(b) PROVE v[Len(a) + i] = b[i]
  <2>1. Len(a) + i \in 1..Len(u)
    BY <1>1, <1>4 DEF Joins
  <2>. QED
    BY <1>1, <1>3, <2>1 DEF Joins
<1>6. w \in Seq(S) /\ Len(w) = Len(b) /\ \A i \in 1..Len(b) : w[i] = v[Len(a) + i]
  BY <1>4
<1>. HIDE DEF w
<1>7. w = b
  BY <1>5, <1>6, SameSeq
<1>. QED
  BY <1>7 DEF w, v, u

(* The octets of an address after the header of a sockaddr. *)
LEMMA HeaderThenAddress ==
  ASSUME NEW x \in Nat, NEW y \in Nat, NEW o \in Seq(Nat), Len(o) = Octets, NEW k \in Nat
  PROVE  /\ SinAddr(<<x, y>> \o Zeros(2) \o o \o Zeros(k)) = o
         /\ Sin6Addr(<<x, y>> \o Zeros(2) \o Zeros(4) \o o \o Zeros(k)) = o
<1>. DEFINE h == <<x, y>>
            z == Zeros(2)
            y4 == Zeros(4)
            e == Zeros(k)
            p == h \o z
            r == p \o y4
<1>1. /\ h \in Seq(Nat) /\ Len(h) = 2 /\ z \in Seq(Nat) /\ Len(z) = 2
      /\ y4 \in Seq(Nat) /\ Len(y4) = 4 /\ e \in Seq(Nat)
  <2>1. h \in Seq(Nat) /\ Len(h) = 2
    OBVIOUS
  <2>2. z \in Seq(Nat) /\ Len(z) = 2
    BY ZerosDef, Zenon
  <2>3. y4 \in Seq(Nat) /\ Len(y4) = 4
    BY ZerosDef, Zenon
  <2>4. e \in Seq(Nat)
    BY ZerosDef
  <2>. QED
    BY <2>1, <2>2, <2>3, <2>4
<1>. HIDE DEF h, z, y4, e
<1>2. Joins(p, h, z, Nat)
  BY <1>1, ConcatDef, Zenon
<1>. HIDE DEF p
<1>3. p \in Seq(Nat) /\ Len(p) = 4
  BY <1>1, <1>2 DEF Joins
<1>4. Joins(r, p, y4, Nat)
  BY <1>1, <1>3, ConcatDef, Zenon
<1>. HIDE DEF r
<1>5. r \in Seq(Nat) /\ Len(r) = 8
  BY <1>1, <1>3, <1>4 DEF Joins
<1>6. SubSeq((p \o o) \o e, Len(p) + 1, Len(p) + Len(o)) = o
  BY <1>1, <1>3, Middle, Zenon
<1>7. SubSeq((r \o o) \o e, Len(r) + 1, Len(r) + Len(o)) = o
  BY <1>1, <1>5, Middle, Zenon
<1>8. SinAddr((p \o o) \o e) = o
  <2>. DEFINE v == (p \o o) \o e
  <2>. HIDE DEF v
  <2>1. SubSeq(v, Len(p) + 1, Len(p) + Len(o)) = o
    BY <1>6 DEF v
  <2>2. Len(p) + 1 = 5 /\ Len(p) + Len(o) = 4 + Octets
    BY <1>3
  <2>. QED
    BY <2>1, <2>2, Zenon DEF SinAddr, v
<1>9. Sin6Addr((r \o o) \o e) = o
  <2>. DEFINE v == (r \o o) \o e
  <2>. HIDE DEF v
  <2>1. SubSeq(v, Len(r) + 1, Len(r) + Len(o)) = o
    BY <1>7 DEF v
  <2>2. Len(r) + 1 = 9 /\ Len(r) + Len(o) = 8 + Octets
    BY <1>5
  <2>. QED
    BY <2>1, <2>2, Zenon DEF Sin6Addr, v
<1>. QED
  BY <1>8, <1>9 DEF h, z, y4, e, p, r

(* The kernels read from options, sockaddrs and netmasks what the code     *)
(* meant, for all addresses, interface indexes and prefixes                *)
(* (windows/dial.rs, windows/netcfg.rs, macos/netcfg.rs).                  *)
THEOREM KernelReadsCorrect == SpecFunctions => []KernelReadsBack
<1>1. FunctionsInv => KernelReadsBack
  <2>. SUFFICES ASSUME Asks, Answered,
                       pattern.kind \in {"sockaddr6", "inet4", "inet6", "unicast4", "unicast6", "netmask"}
                PROVE  Yes
    BY DEF FunctionsInv, KernelReadsBack, Asked
  <2>1. pattern \in Encoded /\ dest = [family |-> "kernel"]
    BY DEF Asks, Pattern
  <2>2. SUFFICES ReadsBack(pattern)
    BY <2>1 DEF Answered, Answers, Yes
  <2>3. ASSUME pattern.kind \in {"sockaddr6", "inet4", "inet6"}
        PROVE  /\ pattern.octets \in Seq(Digits) /\ pattern.octets \in Seq(Nat)
               /\ Len(pattern.octets) = Octets
    <3>1. pattern.octets \in V4
      BY <2>1, <2>3 DEF Encoded
    <3>. DEFINE o == pattern.octets
    <3>. HIDE DEF o
    <3>2. o \in Seq(Digits) /\ Len(o) = Octets
      BY <3>1, EncodingAssumption DEF V4, Digits, o
    <3>. QED
      BY <3>2, DigitTypes DEF o
  <2>4. CASE pattern.kind = "sockaddr6"
    <3>1. Sin6Addr(V6Sockaddr(pattern.octets)) = pattern.octets
      BY <2>3, <2>4, HeaderThenAddress DEF V6Sockaddr
    <3>. QED
      BY <2>4, <3>1 DEF ReadsBack
  <2>5. CASE pattern.kind = "inet4"
    <3>1. ToLe(FromLe(pattern.octets), Octets) = pattern.octets
      BY <2>3, <2>5, LoadStore
    <3>2. SinAddr(SockaddrInet(pattern.octets, FALSE)) = pattern.octets
      BY <2>3, <2>5, <3>1, HeaderThenAddress DEF SockaddrInet
    <3>. QED
      BY <2>5, <3>2, Zenon DEF ReadsBack
  <2>6. CASE pattern.kind = "inet6"
    <3>1. Sin6Addr(SockaddrInet(pattern.octets, TRUE)) = pattern.octets
      BY <2>3, <2>6, HeaderThenAddress DEF SockaddrInet
    <3>. QED
      BY <2>6, <3>1, Zenon DEF ReadsBack
  <2>7. ASSUME pattern.kind \in {"unicast4", "unicast6"}
        PROVE  /\ FromBe(ToBe(pattern.index, 4)) = pattern.index /\ FromLe(ToLe(pattern.index, 4)) = pattern.index
               /\ ToLe(FromLe(ToBe(pattern.index, 4)), 4) = ToBe(pattern.index, 4)
    <3>1. pattern.index \in 0..(Word - 1)
      BY <2>1, <2>7 DEF Encoded
    <3>2. pattern.index \in Nat /\ Quotients(pattern.index, 4)[4] = 0
      BY <3>1, WordFits
    <3>. DEFINE w == 4
    <3>3. w \in Nat /\ Quotients(pattern.index, w)[w] = 0
      BY <3>2
    <3>. HIDE DEF w
    <3>4. FromBe(ToBe(pattern.index, w)) = pattern.index /\ FromLe(ToLe(pattern.index, w)) = pattern.index
      BY <3>2, <3>3, StoreLoad
    <3>5. ToBe(pattern.index, w) \in Seq(Digits) /\ Len(ToBe(pattern.index, w)) = w
      BY <3>2, <3>3, ToLeDef, SwappedDef, Zenon DEF ToBe
    <3>6. ToLe(FromLe(ToBe(pattern.index, w)), w) = ToBe(pattern.index, w)
      BY <3>5, LoadStore
    <3>. QED
      BY <3>4, <3>6 DEF w
  <2>8. CASE pattern.kind = "unicast4"
    BY <2>7, <2>8 DEF ReadsBack, UnicastIfRead, UnicastIfValue
  <2>9. CASE pattern.kind = "unicast6"
    BY <2>7, <2>9 DEF ReadsBack, UnicastIfRead, UnicastIfValue
  <2>10. CASE pattern.kind = "netmask"
    <3>1. pattern.prefix \in 0..Width /\ Width \in Nat
      BY <2>1, <2>10, PatternAssumption DEF Encoded
    <3>2. Netmask(pattern.prefix, Width) = [i \in 1..Width |-> IF i <= pattern.prefix THEN 1 ELSE 0]
      <4>1. CASE pattern.prefix = 0
        BY <3>1, <4>1 DEF Netmask, Zeros
      <4>2. CASE pattern.prefix # 0
        <5>. DEFINE len == pattern.prefix
        <5>1. len \in 1..Width
          BY <3>1, <4>2
        <5>. HIDE DEF len
        <5>2. Shl(Ones(Width), Width - len) = [i \in 1..Width |-> IF i <= len THEN 1 ELSE 0]
          BY <3>1, <5>1, MaskDef
        <5>. QED
          BY <4>2, <5>2 DEF Netmask, len
      <4>. QED
        BY <4>1, <4>2
    <3>. QED
      BY <2>10, <3>2 DEF ReadsBack
  <2>. QED
    BY <2>4, <2>5, <2>6, <2>8, <2>9, <2>10
<1>. QED
  BY <1>1, FunctionsInvHolds, PTL

-----------------------------------------------------------------------------
(* The symbols of lists and names, and the letters they are spelled with. *)
Symbols == {Letter, Wide, Suffix, "*", "?", AnyWord, Separator, Blank, ".", "e", "x", "n", "y"}
Text == Seq(Symbols)

(* The recursion of Offsets makes sense: its equations hold. *)
LEMMA OffsetsDef ==
  ASSUME NEW text \in Text
  PROVE  LET n == Offsets(text)
         IN  /\ n \in [0..Len(text) -> Nat] /\ n[0] = 0
             /\ \A k \in 1..Len(text) : n[k] = n[k - 1] + Width8(text[k])
             /\ Bytes(text) = n[Len(text)]
<1>. DEFINE L == Len(text)
            step == [at \in (1..L) \X Nat |-> at[2] + Width8(text[at[1]])]
            Fits(n) == n = [k \in 0..L |-> IF k = 0 THEN 0 ELSE n[k - 1] + Width8(text[k])]
<1>1. L \in Nat /\ \A k \in 1..L : Width8(text[k]) \in Nat
  BY DEF Width8, Text
<1>2. step \in [(1..L) \X Nat -> Nat]
  BY <1>1
<1>3. PICK g : IsFold(g, L, Nat, 0, step)
  <2>. HIDE DEF step, L
  <2>. QED
    BY <1>1, <1>2, FoldExists, Zenon
<1>4. g \in [0..L -> Nat] /\ g[0] = 0 /\ \A k \in 1..L : g[k] = step[<<k, g[k - 1]>>]
  BY <1>3, Zenon DEF IsFold
<1>5. \A k \in 1..L : g[k] = g[k - 1] + Width8(text[k])
  <2>. TAKE k \in 1..L
  <2>1. <<k, g[k - 1]>> \in (1..L) \X Nat
    <3>. HIDE DEF L, step
    <3>1. k - 1 \in 0..L
      BY <1>1
    <3>. QED
      BY <1>4, <3>1
  <2>2. step[<<k, g[k - 1]>>] = g[k - 1] + Width8(text[k])
    BY <2>1
  <2>. QED
    BY <1>4, <2>2, Zenon
<1>6. Fits(g)
  <2>. HIDE DEF L, step
  <2>. QED
    BY <1>1, <1>4, <1>5
<1>7. Offsets(text) = CHOOSE n : Fits(n)
  BY DEF Offsets
<1>8. Fits(Offsets(text))
  <2>. HIDE DEF Fits
  <2>. QED
    BY <1>6, <1>7, Zenon
<1>. DEFINE n == Offsets(text)
<1>. HIDE DEF n, L
<1>9. n = [k \in 0..L |-> IF k = 0 THEN 0 ELSE n[k - 1] + Width8(text[k])]
  BY <1>8, Zenon DEF n
<1>10. n[0] = 0 /\ \A k \in 1..L : n[k] = n[k - 1] + Width8(text[k])
  <2>1. 0 \in 0..L /\ \A k \in 1..L : k \in 0..L /\ k # 0
    BY <1>1
  <2>2. \A k \in 0..L : n[k] = IF k = 0 THEN 0 ELSE n[k - 1] + Width8(text[k])
    BY <1>9, Zenon
  <2>. QED
    BY <2>1, <2>2, Zenon
<1>11. \A k \in 0..L : n[k] \in Nat
  <2>. DEFINE T == {k \in 0..L : n[k] \in Nat}
  <2>1. 0 \in T
    BY <1>1, <1>10
  <2>2. ASSUME NEW k \in 0..(L - 1), k \in T PROVE k + 1 \in T
    <3>1. k + 1 \in 1..L /\ (k + 1) - 1 = k
      BY <1>1
    <3>2. n[k + 1] = n[k] + Width8(text[k + 1])
      BY <1>10, <3>1
    <3>3. n[k] \in Nat /\ Width8(text[k + 1]) \in Nat
      BY <1>1, <2>2, <3>1
    <3>. QED
      BY <1>1, <3>1, <3>2, <3>3
  <2>3. \A k \in 0..L : k \in T
    <3>. HIDE DEF T
    <3>. QED
      BY <1>1, <2>1, <2>2, BoundedInduction
  <2>. QED
    BY <2>3
<1>12. n \in [0..L -> Nat]
  BY <1>9, <1>11
<1>. QED
  BY <1>10, <1>12 DEF n, L, Bytes

(* Short tuples of members of S are sequences over S. *)
LEMMA Literals ==
  ASSUME NEW S, NEW a \in S, NEW b \in S, NEW c \in S, NEW d \in S
  PROVE  <<a>> \in Seq(S) /\ <<a, b, c>> \in Seq(S) /\ <<a, b, c, d>> \in Seq(S)
<1>1. <<a>> \in Seq(S)
  OBVIOUS
<1>2. <<a, b, c>> \in Seq(S)
  OBVIOUS
<1>3. <<a, b, c, d>> \in Seq(S)
  OBVIOUS
<1>. QED
  BY <1>1, <1>2, <1>3

(* So do those of Spelled. *)
LEMMA SpelledDef ==
  ASSUME NEW text \in Text
  PROVE  LET cs == Spelled(text)
         IN  /\ cs \in [0..Len(text) -> Text] /\ cs[0] = <<>>
             /\ \A k \in 1..Len(text) : cs[k] = cs[k - 1] \o Spelling(text[k])
             /\ Characters(text) = cs[Len(text)]
<1>. DEFINE L == Len(text)
            step == [at \in (1..L) \X Text |-> at[2] \o Spelling(text[at[1]])]
            More(n, k) == n[k - 1] \o Spelling(text[k])
            Fits(n) == n = [k \in 0..L |-> IF k = 0 THEN <<>> ELSE More(n, k)]
<1>1. L \in Nat /\ \A k \in 1..L : Spelling(text[k]) \in Text
  <2>1. L \in Nat
    BY DEF Text
  <2>2. ASSUME NEW k \in 1..L PROVE Spelling(text[k]) \in Text
    <3>1. text[k] \in Symbols
      BY DEF Text
    <3>. DEFINE e == <<".", "e", "x", "e">>
                a == <<"a", "n", "y">>
    <3>2. <<text[k]>> \in Text /\ e \in Text /\ a \in Text
      <4>1. <<text[k]>> \in Text
        BY <3>1 DEF Text
      <4>2. "." \in Symbols /\ "e" \in Symbols /\ "x" \in Symbols /\ "a" \in Symbols /\ "n" \in Symbols /\ "y" \in Symbols
        BY DEF Symbols, Letter
      <4>3. e \in Text /\ a \in Text
        BY <4>2, Literals, Zenon DEF Text
      <4>. QED
        BY <4>1, <4>3
    <3>. QED
      BY <3>2 DEF Spelling
  <2>. QED
    BY <2>1, <2>2
<1>t. \A a, b \in Text : a \o b \in Text
  BY DEF Text
<1>0. <<>> \in Text
  BY DEF Text
<1>2. step \in [(1..L) \X Text -> Text]
  <2>. HIDE DEF L
  <2>1. ASSUME NEW at \in (1..L) \X Text PROVE at[2] \o Spelling(text[at[1]]) \in Text
    BY <1>1, <1>t
  <2>. QED
    BY <2>1
<1>3. PICK g : IsFold(g, L, Text, <<>>, step)
  <2>. HIDE DEF step, L
  <2>. QED
    BY <1>0, <1>1, <1>2, FoldExists, Zenon
<1>4. g \in [0..L -> Text] /\ g[0] = <<>> /\ \A k \in 1..L : g[k] = step[<<k, g[k - 1]>>]
  BY <1>3 DEF IsFold
<1>5. \A k \in 1..L : g[k] = More(g, k)
  <2>. TAKE k \in 1..L
  <2>1. <<k, g[k - 1]>> \in (1..L) \X Text
    <3>. HIDE DEF L, step
    <3>1. k - 1 \in 0..L
      BY <1>1
    <3>. QED
      BY <1>4, <3>1
  <2>2. step[<<k, g[k - 1]>>] = g[k - 1] \o Spelling(text[k])
    BY <2>1, Zenon
  <2>. QED
    BY <1>4, <2>2, Zenon
<1>6. Fits(g)
  <2>. HIDE DEF L, step, More
  <2>. QED
    BY <1>1, <1>4, <1>5
<1>7. Spelled(text) = CHOOSE n : Fits(n)
  BY DEF Spelled
<1>8. Fits(Spelled(text))
  <2>. HIDE DEF Fits
  <2>. QED
    BY <1>6, <1>7, Zenon
<1>. DEFINE n == Spelled(text)
<1>. HIDE DEF n, L, More
<1>9. n = [k \in 0..L |-> IF k = 0 THEN <<>> ELSE More(n, k)]
  BY <1>8, Zenon DEF n
<1>10. n[0] = <<>> /\ \A k \in 1..L : n[k] = More(n, k)
  <2>1. 0 \in 0..L /\ \A k \in 1..L : k \in 0..L /\ k # 0
    BY <1>1
  <2>2. \A k \in 0..L : n[k] = IF k = 0 THEN <<>> ELSE More(n, k)
    BY <1>9, Zenon
  <2>. QED
    BY <2>1, <2>2, Zenon
<1>11. \A k \in 0..L : n[k] \in Text
  <2>. DEFINE T == {k \in 0..L : n[k] \in Text}
  <2>1. 0 \in T
    BY <1>0, <1>1, <1>10
  <2>2. ASSUME NEW k \in 0..(L - 1), k \in T PROVE k + 1 \in T
    <3>1. k + 1 \in 1..L /\ (k + 1) - 1 = k
      BY <1>1
    <3>2. n[k + 1] = n[k] \o Spelling(text[k + 1])
      BY <1>10, <3>1, Zenon DEF More
    <3>3. n[k] \in Text /\ Spelling(text[k + 1]) \in Text
      BY <1>1, <2>2, <3>1
    <3>4. n[k + 1] \in Text
      BY <1>t, <3>2, <3>3
    <3>. QED
      BY <1>1, <3>1, <3>4
  <2>3. \A k \in 0..L : k \in T
    <3>. HIDE DEF T
    <3>. QED
      BY <1>1, <2>1, <2>2, BoundedInduction
  <2>. QED
    BY <2>3
<1>12. n \in [0..L -> Text]
  BY <1>9, <1>11
<1>. QED
  BY <1>10, <1>12 DEF n, L, More, Characters

(* And those of Reached. *)
LEMMA ReachedDef ==
  ASSUME NEW glob \in Text, NEW name \in Text
  PROVE  LET at == Reached(glob, name)
         IN  /\ at[0] = {0}
             /\ \A k \in 1..Len(glob) : at[k] = GlobStep(name, at[k - 1], glob[k])
<1>. DEFINE L == Len(glob)
            S == SUBSET Nat
            step == [x \in (1..L) \X S |-> GlobStep(name, x[2], glob[x[1]])]
            More(n, k) == GlobStep(name, n[k - 1], glob[k])
            Fits(n) == n = [k \in 0..L |-> IF k = 0 THEN {0} ELSE More(n, k)]
<1>1. L \in Nat /\ Len(name) \in Nat /\ {0} \in S
  BY DEF Text
<1>t. \A a, c : GlobStep(name, a, c) \in S
  BY <1>1 DEF GlobStep
<1>. HIDE DEF S
<1>2. step \in [(1..L) \X S -> S]
  BY <1>t
<1>3. PICK g : IsFold(g, L, S, {0}, step)
  <2>. HIDE DEF step, L
  <2>. QED
    BY <1>1, <1>2, FoldExists, Zenon
<1>4. g \in [0..L -> S] /\ g[0] = {0} /\ \A k \in 1..L : g[k] = step[<<k, g[k - 1]>>]
  BY <1>3, Zenon DEF IsFold
<1>5. \A k \in 1..L : g[k] = More(g, k)
  <2>. TAKE k \in 1..L
  <2>1. <<k, g[k - 1]>> \in (1..L) \X S
    <3>. HIDE DEF L, step
    <3>1. k - 1 \in 0..L
      BY <1>1
    <3>. QED
      BY <1>4, <3>1
  <2>2. step[<<k, g[k - 1]>>] = More(g, k)
    BY <2>1
  <2>. QED
    BY <1>4, <2>2, Zenon
<1>6. Fits(g)
  <2>. HIDE DEF L, step, More
  <2>. QED
    BY <1>1, <1>4, <1>5
<1>7. Reached(glob, name) = CHOOSE n : Fits(n)
  BY DEF Reached
<1>8. Fits(Reached(glob, name))
  <2>. HIDE DEF Fits
  <2>. QED
    BY <1>6, <1>7, Zenon
<1>. DEFINE n == Reached(glob, name)
<1>. HIDE DEF n, L, More
<1>9. n = [k \in 0..L |-> IF k = 0 THEN {0} ELSE More(n, k)]
  BY <1>8, Zenon DEF n
<1>10. n[0] = {0} /\ \A k \in 1..L : n[k] = More(n, k)
  <2>1. 0 \in 0..L /\ \A k \in 1..L : k \in 0..L /\ k # 0
    BY <1>1
  <2>2. \A k \in 0..L : n[k] = IF k = 0 THEN {0} ELSE More(n, k)
    BY <1>9, Zenon
  <2>. QED
    BY <2>1, <2>2, Zenon
<1>. QED
  BY <1>10 DEF n, L, More

(* `*` matches every name. *)
LEMMA StarMatches ==
  ASSUME NEW name \in Text
  PROVE  CompileGlob(<<"*">>, name)
<1>. DEFINE star == <<"*">>
            g == Characters(star)
            n == Characters(name)
            at == Reached(g, n)
<1>1. star \in Text /\ Len(star) = 1 /\ star[1] = "*"
  BY DEF Text, Symbols
<1>2. n \in Text /\ Len(n) \in Nat
  <2>1. Len(name) \in 0..Len(name)
    BY DEF Text
  <2>2. n \in Text
    BY <2>1, SpelledDef, Zenon
  <2>. QED
    BY <2>2 DEF Text
<1>3. g = star
  <2>. HIDE DEF star
  <2>1. /\ Spelled(star)[0] = <<>> /\ g = Spelled(star)[1]
        /\ \A k \in 1..1 : Spelled(star)[k] = Spelled(star)[k - 1] \o Spelling(star[k])
    BY <1>1, SpelledDef, Zenon
  <2>2. g = <<>> \o Spelling("*")
    <3>1. 1 \in 1..1 /\ 1 - 1 = 0
      OBVIOUS
    <3>2. Spelled(star)[1] = Spelled(star)[1 - 1] \o Spelling(star[1])
      BY <2>1, <3>1, Zenon
    <3>. QED
      BY <1>1, <2>1, <3>1, <3>2, Zenon
  <2>3. Spelling("*") = <<"*">>
    BY DEF Spelling, Suffix, AnyWord
  <2>4. <<>> \o <<"*">> = <<"*">>
    OBVIOUS
  <2>. QED
    BY <2>2, <2>3, <2>4 DEF star
<1>. HIDE DEF star, g, n
<1>4. at[0] = {0} /\ \A k \in 1..1 : at[k] = GlobStep(n, at[k - 1], g[k])
  BY <1>1, <1>2, <1>3, ReachedDef
<1>. HIDE DEF at
<1>5. at[1] = GlobStep(n, {0}, "*")
  BY <1>1, <1>3, <1>4
<1>6. Len(n) \in at[1]
  BY <1>2, <1>5 DEF GlobStep
<1>7. Len(g) = 1
  BY <1>1, <1>3
<1>. QED
  BY <1>6, <1>7, Zenon DEF CompileGlob, star, g, n, at

(* Unless it panics, stripping takes a suffix away, and leaves a text      *)
(* without one as it is.                                                   *)
LEMMA StripDef ==
  ASSUME NEW text \in Text, text # <<>>
  PROVE  /\ HasExe(text) => StripExeSuffix(text) \in {WithoutExe(text), Panic}
         /\ ~ HasExe(text) => StripExeSuffix(text) \in {text, Panic}
<1>1. ASSUME HasExe(text) PROVE ~ (Bytes(text) < 4)
  <2>. DEFINE L == Len(text)
              n == Offsets(text)
  <2>1. L \in Nat /\ L > 0 /\ text[L] = Suffix
    BY <1>1 DEF Text, HasExe
  <2>2. Width8(Suffix) = 4
    BY DEF Width8, Suffix, Wide, AnyWord
  <2>3. /\ n \in [0..L -> Nat] /\ \A k \in 1..L : n[k] = n[k - 1] + Width8(text[k])
        /\ Bytes(text) = n[L]
    BY OffsetsDef
  <2>. HIDE DEF n, L
  <2>4. n[L] = n[L - 1] + Width8(text[L]) /\ n[L - 1] \in Nat
    BY <2>1, <2>3
  <2>. QED
    BY <2>1, <2>2, <2>3, <2>4
<1>. QED
  BY <1>1 DEF StripExeSuffix

(* A text without blanks is left as it is. *)
LEMMA TrimDef ==
  ASSUME NEW text \in Text, text # <<>>, \A i \in DOMAIN text : text[i] # Blank
  PROVE  Trim(text) = text
<1>. DEFINE L == Len(text)
            ink == {i \in DOMAIN text : text[i] # Blank}
<1>1. L \in Nat /\ L > 0 /\ DOMAIN text = 1..L
  BY DEF Text
<1>2. ink = 1..L
  BY <1>1
<1>. HIDE DEF ink, L
<1>3. 1 \in ink /\ L \in ink /\ \A y \in ink : y \in Nat /\ 1 <= y /\ y <= L
  <2>1. 1 \in 1..L /\ L \in 1..L
    BY <1>1
  <2>. QED
    BY <1>1, <1>2, <2>1
<1>4. Min(ink) = 1
  <2>. DEFINE m == CHOOSE x \in ink : \A y \in ink : x <= y
  <2>1. m \in ink /\ \A y \in ink : m <= y
    BY <1>3
  <2>. HIDE DEF m
  <2>2. m \in Nat /\ m <= 1 /\ 1 <= m
    BY <1>3, <2>1
  <2>. QED
    BY <2>2 DEF Min, m
<1>5. Max(ink) = L
  <2>. DEFINE m == CHOOSE x \in ink : \A y \in ink : x >= y
  <2>1. m \in ink /\ \A y \in ink : m >= y
    BY <1>3
  <2>. HIDE DEF m
  <2>2. m \in Nat /\ m <= L /\ L <= m
    BY <1>1, <1>3, <2>1
  <2>. QED
    BY <1>1, <2>2 DEF Max, m
<1>6. SubSeq(text, 1, L) = text
  BY DEF L, Text
<1>. QED
  BY <1>3, <1>4, <1>5, <1>6, Zenon DEF Trim, ink

(* A list of one token is that token. *)
LEMMA SplitOne ==
  ASSUME NEW list \in Text, OneToken(list)
  PROVE  SplitList(list) = {list} /\ (IsMatchAll(list) <=> list = <<"*">>)
<1>. DEFINE L == Len(list)
            Ends == {0, L + 1} \cup {i \in DOMAIN list : list[i] = Separator}
            After(i) == Min({j \in Ends : j > i})
<1>1. L \in Nat /\ L > 0 /\ DOMAIN list = 1..L
  BY DEF Text, OneToken
<1>2. Ends = {0, L + 1}
  BY DEF OneToken
<1>3. After(0) = L + 1
  <2>1. {j \in Ends : j > 0} = {L + 1}
    BY <1>1, <1>2
  <2>. HIDE DEF Ends, L
  <2>2. Min({L + 1}) = L + 1
    BY <1>1 DEF Min
  <2>. QED
    BY <2>1, <2>2
<1>4. SubSeq(list, 0 + 1, After(0) - 1) = list
  <2>1. After(0) - 1 = L
    BY <1>1, <1>3
  <2>2. SubSeq(list, 1, L) = list
    BY DEF Text
  <2>. QED
    BY <2>1, <2>2
<1>5. Trim(list) = list /\ list # <<>>
  BY TrimDef DEF OneToken
<1>6. SplitList(list) = {Trim(SubSeq(list, i + 1, After(i) - 1)) : i \in Ends \ {L + 1}} \ {<<>>}
  BY DEF SplitList
<1>7. Ends \ {L + 1} = {0}
  BY <1>1, <1>2
<1>8. SplitList(list) = {list}
  <2>. HIDE DEF Ends, L, After
  <2>1. {Trim(SubSeq(list, i + 1, After(i) - 1)) : i \in {0}} = {Trim(SubSeq(list, 0 + 1, After(0) - 1))}
    OBVIOUS
  <2>. QED
    BY <1>4, <1>5, <1>6, <1>7, <2>1, Zenon
<1>9. IsMatchAll(list) <=> list = <<"*">>
  BY <1>5 DEF IsMatchAll, OneToken
<1>. QED
  BY <1>8, <1>9

(* The lists and names that are asked about are texts. *)
LEMMA ListTypes ==
  /\ \A list \in Lists : list \in Text
  /\ \A name \in Names : name \in Text /\ name # <<>>
<1>1. ASSUME NEW S \in SUBSET Symbols, NEW max \in Nat, NEW text \in Texts(S, max)
      PROVE  text \in Text
  <2>1. PICK k \in 0..max : text \in [1..k -> S]
    BY <1>1 DEF Texts
  <2>2. k \in Nat /\ text \in [1..k -> Symbols]
    BY <1>1, <2>1
  <2>. QED
    BY <2>2 DEF Text
<1>2. /\ {Letter, Wide, Suffix, "*", "?", AnyWord, Separator, Blank} \in SUBSET Symbols
      /\ {Letter, Wide, Suffix} \in SUBSET Symbols
  BY DEF Symbols
<1>3. ASSUME NEW list \in Lists PROVE list \in Text
  BY <1>1, <1>2, ListAssumption DEF Lists
<1>4. ASSUME NEW name \in Names PROVE name \in Text /\ name # <<>>
  BY <1>1, <1>2, ListAssumption DEF Names
<1>. QED
  BY <1>3, <1>4

Bare(text) == IF HasExe(text) THEN WithoutExe(text) ELSE text

(* Stripping leaves the bare text, or panics. *)
LEMMA StripBare ==
  ASSUME NEW text \in Text, text # <<>>, StripExeSuffix(text) # Panic
  PROVE  StripExeSuffix(text) = Bare(text)
BY StripDef DEF Bare

(* A bare text is a text, with the symbols of the whole one. *)
LEMMA BareType ==
  ASSUME NEW text \in Text, text # <<>>
  PROVE  Bare(text) \in Text /\ \A i \in DOMAIN Bare(text) : i \in DOMAIN text /\ Bare(text)[i] = text[i]
<1>1. Len(text) \in Nat /\ Len(text) > 0
  BY DEF Text
<1>2. WithoutExe(text) \in Text /\ \A i \in DOMAIN WithoutExe(text) : i \in DOMAIN text /\ WithoutExe(text)[i] = text[i]
  BY <1>1 DEF WithoutExe, Text
<1>. QED
  BY <1>2 DEF Bare

(* A `.exe` of the token or of the name does not count. *)
LEMMA ExeDoesNotCount ==
  ASSUME NEW list \in Text, OneToken(list), NEW name \in Text, name # <<>>,
         Bare(list) # <<>>, Bare(list) # <<AnyWord>>, Bare(name) # <<>>,
         Bare(Bare(list)) = Bare(list), Bare(Bare(name)) = Bare(name),
         ~ Panics(list, name), ~ Panics(Bare(list), Bare(name))
  PROVE  MatchesProcess(list, name) <=> MatchesProcess(Bare(list), Bare(name))
<1>. DEFINE token == Bare(list)
            bare == Bare(name)
<1>0. list # <<>>
  BY DEF OneToken
<1>1. token \in Text /\ bare \in Text
  BY <1>0, BareType
<1>2. OneToken(token)
  BY <1>0, BareType DEF OneToken
<1>. HIDE DEF token, bare
<1>3. /\ MatchesProcess(list, name) <=>
           list = <<"*">> \/ CompileGlob(StripExeSuffix(list), StripExeSuffix(name))
      /\ list # <<"*">> => StripExeSuffix(list) # Panic /\ StripExeSuffix(name) # Panic
  BY SplitOne DEF MatchesProcess, Panics
<1>4. /\ MatchesProcess(token, bare) <=>
           token = <<"*">> \/ CompileGlob(StripExeSuffix(token), StripExeSuffix(bare))
      /\ token # <<"*">> => StripExeSuffix(token) # Panic /\ StripExeSuffix(bare) # Panic
  BY <1>1, <1>2, SplitOne DEF MatchesProcess, Panics, token, bare
<1>5. CASE list = <<"*">>
  <2>1. ~ HasExe(list)
    BY <1>5 DEF HasExe, Suffix
  <2>2. token = list
    BY <2>1 DEF token, Bare
  <2>. QED
    BY <1>3, <1>4, <1>5, <2>2 DEF token, bare
<1>6. CASE list # <<"*">>
  <2>1. StripExeSuffix(list) = token /\ StripExeSuffix(name) = bare
    BY <1>0, <1>3, <1>6, StripBare DEF token, bare
  <2>2. CASE token = <<"*">>
    <3>1. CompileGlob(token, bare)
      BY <1>1, <2>2, StarMatches
    <3>. QED
      BY <1>3, <1>4, <2>1, <2>2, <3>1 DEF token, bare
  <2>3. CASE token # <<"*">>
    <3>1. StripExeSuffix(token) = token /\ StripExeSuffix(bare) = bare
      <4>1. token # <<>> /\ bare # <<>> /\ Bare(token) = token /\ Bare(bare) = bare
        BY DEF token, bare
      <4>. QED
        BY <1>1, <1>4, <2>3, <4>1, StripBare
    <3>. QED
      BY <1>3, <1>4, <1>6, <2>1, <2>3, <3>1 DEF token, bare
  <2>. QED
    BY <2>2, <2>3
<1>. QED
  BY <1>5, <1>6

(* A process rule of one token gives one answer whether the token, the     *)
(* name, both or neither end in `.exe`, for all tokens and names (rule.rs, *)
(* strip_exe_suffix and matches_process).                                  *)
THEOREM ExeSuffixCorrect == SpecFunctions => []ExeImmaterial
<1>1. FunctionsInv => ExeImmaterial
  <2>. SUFFICES ASSUME Asks, Answered, answer # "pending", pattern.kind = "process", answer # "panic",
                       OneToken(pattern.list)
                PROVE  ExeImmaterial
    BY DEF FunctionsInv, ExeImmaterial, Asked
  <2>. DEFINE list == pattern.list
              name == dest.addr
  <2>1. list \in Lists /\ name \in Names /\ dest.family = "name"
    BY DEF Asks, Pattern, Encoded
  <2>2. ~ Panics(list, name) /\ (Yes <=> MatchesProcess(list, name))
    BY <2>1 DEF Answered, Answers, Yes
  <2>3. list \in Text /\ name \in Text /\ name # <<>>
    BY <2>1, ListTypes
  <2>4. ASSUME Bare(list) # <<>>, Bare(list) # <<AnyWord>>, Bare(name) # <<>>,
               Bare(Bare(list)) = Bare(list), Bare(Bare(name)) = Bare(name),
               ~ Panics(Bare(list), Bare(name))
        PROVE  Yes <=> MatchesProcess(Bare(list), Bare(name))
    <3>. HIDE DEF list, name
    <3>1. OneToken(list)
      BY DEF list
    <3>. QED
      BY <2>2, <2>3, <2>4, <3>1, ExeDoesNotCount
  <2>. QED
    BY <2>4, Zenon DEF ExeImmaterial, Bare
<1>. QED
  BY <1>1, FunctionsInvHolds, PTL
=============================================================================
