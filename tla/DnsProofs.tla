------------------------------ MODULE DnsProofs -----------------------------
(***************************************************************************)
(* parse_dns_answers returns what the reference definition makes of the    *)
(* message, for every message, and stops (DnsAnswers).                     *)
(*                                                                         *)
(* The reference is recursive: first come induction and recursion on the   *)
(* naturals, then the equations of the reference, then the invariant of    *)
(* the parser.                                                             *)
(***************************************************************************)
EXTENDS DnsAnswers, WellFoundedInduction, TLAPS

(* A set with a well-founded order has a minimal element. *)
LEMMA MinIn ==
  ASSUME NEW R, NEW S, IsWellFoundedOn(R, S), NEW T \in SUBSET S, T # {}
  PROVE  \E x \in T : \A y \in T : ~ (<<y, x>> \in R)
<1>1. T \subseteq S
  OBVIOUS
<1>. QED
  BY <1>1, WFMin, Zenon

(* A set of naturals that is not empty has a least element. *)
LEMMA Least ==
  ASSUME NEW S \in SUBSET Nat, S # {}
  PROVE  \E x \in S : \A y \in S : x <= y
<1>1. \A x, y \in Nat : x < y => <<x, y>> \in OpToRel(<, Nat)
  BY Zenon DEF OpToRel
<1>2. \E R : IsWellFoundedOn(R, Nat) /\ \A x, y \in Nat : x < y => <<x, y>> \in R
  BY <1>1, NatLessThanWellFounded, Zenon
<1>3. PICK R : IsWellFoundedOn(R, Nat) /\ \A x, y \in Nat : x < y => <<x, y>> \in R
  BY <1>2, Zenon
<1>4. S \subseteq Nat
  OBVIOUS
<1>5. PICK x \in S : \A y \in S : ~ (<<y, x>> \in R)
  BY <1>3, MinIn, Zenon
<1>6. ASSUME NEW y \in S PROVE ~ (y < x)
  BY <1>3, <1>4, <1>5, Zenon
<1>7. \A y \in S : x <= y
  BY <1>4, <1>6
<1>. QED
  BY <1>7

(* Induction on the naturals, and its course-of-values form, over a set    *)
(* instead of a predicate.                                                 *)
LEMMA StrongInduction ==
  ASSUME NEW T, \A n \in Nat : (\A m \in Nat : m < n => m \in T) => n \in T
  PROVE  \A n \in Nat : n \in T
<1>. DEFINE S == {n \in Nat : n \notin T}
<1>1. CASE S = {}
  BY <1>1
<1>2. CASE S # {}
  <2>1. PICK x \in S : \A y \in S : x <= y
    <3>. HIDE DEF S
    <3>1. S \in SUBSET Nat
      BY DEF S
    <3>. QED
      BY <1>2, <3>1, Least
  <2>. QED
    BY <2>1
<1>. QED
  BY <1>1, <1>2

(* The plain form, from n to n + 1. *)
LEMMA Induction ==
  ASSUME NEW T, 0 \in T, \A n \in Nat : n \in T => n + 1 \in T
  PROVE  \A n \in Nat : n \in T
<1>1. ASSUME NEW n \in Nat, \A m \in Nat : m < n => m \in T
      PROVE  n \in T
  <2>1. CASE n = 0
    BY <2>1
  <2>2. CASE n # 0
    <3>1. n - 1 \in Nat /\ n - 1 < n /\ (n - 1) + 1 = n
      BY <2>2
    <3>. QED
      BY <1>1, <3>1
  <2>. QED
    BY <2>1, <2>2
<1>. QED
  BY <1>1, StrongInduction

(* f lists what G leads to from a. *)
Orbit(f, S, a, G) == f \in [Nat -> S] /\ f[0] = a /\ \A n \in Nat : f[n + 1] = G[f[n]]

(* A step function can be iterated from any start. *)
LEMMA Iteration ==
  ASSUME NEW S, NEW a \in S, NEW G \in [S -> S]
  PROVE  \E f : Orbit(f, S, a, G)
<1>. DEFINE App(n) == {g \in [0..n -> S] : g[0] = a /\ \A i \in 0..(n - 1) : g[i + 1] = G[g[i]]}
<1>1. \A n \in Nat : \E g : g \in App(n)
  <2>. DEFINE T == {n \in Nat : \E g : g \in App(n)}
  <2>1. 0 \in T
    <3>1. [i \in 0..0 |-> a] \in App(0)
      OBVIOUS
    <3>. QED
      BY <3>1
  <2>2. ASSUME NEW n \in Nat, n \in T PROVE n + 1 \in T
    <3>1. PICK g : g \in App(n)
      BY <2>2
    <3>2. g \in [0..n -> S] /\ g[0] = a /\ \A i \in 0..(n - 1) : g[i + 1] = G[g[i]]
      BY <3>1
    <3>. DEFINE h == [i \in 0..(n + 1) |-> IF i = n + 1 THEN G[g[n]] ELSE g[i]]
    <3>3. h \in [0..(n + 1) -> S] /\ h[0] = a
      BY <3>2
    <3>4. ASSUME NEW i \in 0..n PROVE h[i + 1] = G[h[i]]
      BY <3>2
    <3>5. h \in App(n + 1)
      <4>. HIDE DEF h
      <4>1. (n + 1) - 1 = n
        OBVIOUS
      <4>. QED
        BY <3>3, <3>4, <4>1
    <3>. QED
      BY <3>5
  <2>. HIDE DEF T
  <2>3. \A n \in Nat : n \in T
    BY <2>1, <2>2, Induction
  <2>. QED
    BY <2>3 DEF T
<1>2. \A n, m \in Nat : \A g, h : g \in App(n) /\ h \in App(m) =>
        \A i \in Nat : i <= n /\ i <= m => g[i] = h[i]
  <2>. TAKE n, m \in Nat
  <2>. TAKE g, h
  <2>. HAVE g \in App(n) /\ h \in App(m)
  <2>. DEFINE T == {i \in Nat : i <= n /\ i <= m => g[i] = h[i]}
  <2>1. 0 \in T
    BY Zenon
  <2>2. ASSUME NEW i \in Nat, i \in T PROVE i + 1 \in T
    <3>. SUFFICES ASSUME i + 1 <= n, i + 1 <= m PROVE g[i + 1] = h[i + 1]
      OBVIOUS
    <3>1. i \in 0..(n - 1) /\ i \in 0..(m - 1) /\ i <= n /\ i <= m
      OBVIOUS
    <3>. QED
      BY <2>2, <3>1
  <2>. HIDE DEF T
  <2>3. \A i \in Nat : i \in T
    BY <2>1, <2>2, Induction
  <2>. QED
    BY <2>3 DEF T
<1>. DEFINE At(n) == CHOOSE g : g \in App(n)
            f == [n \in Nat |-> At(n)[n]]
<1>3. \A n \in Nat : At(n) \in App(n)
  <2>. HIDE DEF App
  <2>. QED
    BY <1>1, Zenon
<1>4. \A n \in Nat : At(n) \in [0..n -> S] /\ At(n)[0] = a /\ \A i \in 0..(n - 1) : At(n)[i + 1] = G[At(n)[i]]
  <2>. HIDE DEF At
  <2>. QED
    BY <1>3
<1>5. f \in [Nat -> S] /\ f[0] = a
  <2>. HIDE DEF At
  <2>. QED
    BY <1>4
<1>6. ASSUME NEW n \in Nat PROVE f[n + 1] = G[f[n]]
  <2>. HIDE DEF At, App
  <2>1. n + 1 \in Nat /\ n \in 0..((n + 1) - 1) /\ n <= n /\ n <= n + 1
    OBVIOUS
  <2>2. At(n + 1)[n] = At(n)[n]
    BY <1>2, <1>3, <2>1
  <2>3. At(n + 1)[n + 1] = G[At(n + 1)[n]]
    BY <1>4, <2>1
  <2>. QED
    BY <2>1, <2>2, <2>3
<1>. HIDE DEF f
<1>. QED
  BY <1>5, <1>6 DEF Orbit

(* What H makes of f at x depends on f only where the rank is smaller. *)
Contracts(H, D, S, rank) ==
  \A f, g \in [D -> S] : \A x \in D :
    (\A y \in D : rank[y] < rank[x] => f[y] = g[y]) => H[f][x] = H[g][x]

Fixed(f, H, D, S) == f \in [D -> S] /\ H[f] = f

(* A functional has a fixed point if its value at x depends only on the    *)
(* values at arguments of smaller rank: recursive definitions make sense.  *)
LEMMA Recursion ==
  ASSUME NEW D, NEW S, NEW s \in S, NEW rank \in [D -> Nat],
         NEW H \in [[D -> S] -> [D -> S]], Contracts(H, D, S, rank)
  PROVE  \E f : Fixed(f, H, D, S)
<1>. DEFINE bottom == [x \in D |-> s]
<1>1. PICK F \in [Nat -> [D -> S]] : F[0] = bottom /\ \A n \in Nat : F[n + 1] = H[F[n]]
  <2>. DEFINE Fs == [D -> S]
  <2>1. bottom \in Fs /\ H \in [Fs -> Fs]
    OBVIOUS
  <2>2. PICK F : Orbit(F, Fs, bottom, H)
    <3>. HIDE DEF Fs, bottom
    <3>. QED
      BY <2>1, Iteration, Zenon
  <2>. QED
    BY <2>2 DEF Orbit
<1>. HIDE DEF bottom
<1>t. \A n \in Nat : F[n] \in [D -> S] /\ n + 1 \in Nat /\ F[n + 1] = H[F[n]]
  BY <1>1
<1>2. \A n \in Nat : \A x \in D : rank[x] < n => F[n + 1][x] = F[n][x]
  <2>. DEFINE T == {n \in Nat : \A x \in D : rank[x] < n => F[n + 1][x] = F[n][x]}
  <2>1. 0 \in T
    OBVIOUS
  <2>2. ASSUME NEW n \in Nat, n \in T PROVE n + 1 \in T
    <3>. SUFFICES ASSUME NEW x \in D, rank[x] < n + 1
                  PROVE  F[(n + 1) + 1][x] = F[n + 1][x]
      OBVIOUS
    <3>1. \A y \in D : rank[y] < rank[x] => F[n + 1][y] = F[n][y]
      BY <2>2
    <3>2. H[F[n + 1]][x] = H[F[n]][x]
      BY <1>t, <3>1, Zenon DEF Contracts
    <3>. QED
      BY <1>t, <3>2, Zenon
  <2>. HIDE DEF T
  <2>3. \A n \in Nat : n \in T
    BY <2>1, <2>2, Induction
  <2>. QED
    BY <2>3 DEF T
<1>3. \A k \in Nat : \A n \in Nat : \A x \in D : rank[x] < n => F[n + k][x] = F[n][x]
  <2>. DEFINE T == {k \in Nat : \A n \in Nat : \A x \in D : rank[x] < n => F[n + k][x] = F[n][x]}
  <2>1. 0 \in T
    OBVIOUS
  <2>2. ASSUME NEW k \in Nat, k \in T PROVE k + 1 \in T
    <3>. SUFFICES ASSUME NEW n \in Nat, NEW x \in D, rank[x] < n
                  PROVE  F[n + (k + 1)][x] = F[n][x]
      OBVIOUS
    <3>1. n + k \in Nat /\ rank[x] < n + k /\ n + (k + 1) = (n + k) + 1
      OBVIOUS
    <3>2. F[n + k][x] = F[n][x]
      BY <2>2
    <3>. QED
      BY <1>2, <3>1, <3>2
  <2>. HIDE DEF T
  <2>3. \A k \in Nat : k \in T
    BY <2>1, <2>2, Induction
  <2>. QED
    BY <2>3, Zenon DEF T
<1>. DEFINE f == [x \in D |-> F[rank[x] + 1][x]]
<1>4. f \in [D -> S]
  BY <1>t
<1>5. ASSUME NEW x \in D PROVE H[f][x] = f[x]
  <2>1. ASSUME NEW y \in D, rank[y] < rank[x] PROVE f[y] = F[rank[x]][y]
    <3>. DEFINE k == rank[x] - (rank[y] + 1)
    <3>1. k \in Nat /\ rank[y] + 1 \in Nat /\ rank[y] < rank[y] + 1 /\ (rank[y] + 1) + k = rank[x]
      BY <2>1
    <3>. HIDE DEF k
    <3>2. F[(rank[y] + 1) + k][y] = F[rank[y] + 1][y]
      BY <1>3, <3>1, Zenon
    <3>3. f[y] = F[rank[y] + 1][y]
      OBVIOUS
    <3>. HIDE DEF f
    <3>. QED
      BY <3>1, <3>2, <3>3
  <2>. HIDE DEF f
  <2>2. H[f][x] = H[F[rank[x]]][x]
    BY <1>t, <1>4, <2>1, Zenon DEF Contracts
  <2>3. H[F[rank[x]]][x] = F[rank[x] + 1][x]
    BY <1>t
  <2>. QED
    BY <2>2, <2>3 DEF f
<1>. HIDE DEF f
<1>6. H[f] \in [D -> S]
  BY <1>4
<1>7. H[f] = f
  BY <1>4, <1>5, <1>6
<1>. QED
  BY <1>4, <1>7 DEF Fixed

-----------------------------------------------------------------------------
DnsTypeOK ==
  /\ msg \in Messages /\ stage \in {"question", "more", "answer", "done"}
  /\ left \in Nat /\ offset \in Nat /\ from \in Nat /\ inName \in BOOLEAN
  /\ pos \in Nat /\ jumps \in 0..MaxJumps /\ jumped \in BOOLEAN /\ jumpedEnd \in Nat
  /\ name \in Seq(Nat) /\ qname \in Seq(Nat) /\ out \in Seq(Nat)

(* What the name says from where parse_name is; what it read before, with  *)
(* that, is the name at the cursor.                                        *)
Rest == Name(msg)[<<MaxJumps - jumps, pos>>]

NameInv ==
  inName =>
    /\ stage # "done"
    /\ NameAt(msg, offset).ok = Rest.ok
    /\ Rest.ok => /\ NameAt(msg, offset).labels = name \o Rest.labels
                  /\ NameAt(msg, offset).end = IF jumped THEN jumpedEnd ELSE Rest.end

(* What the message says from the cursor on, with what has been returned,  *)
(* is what it says.                                                        *)
Expected == AnswersOf(msg)

SectionInv ==
  /\ stage = "question" => offset = HeaderLen /\ out = <<>>
  /\ stage = "more" => left > 0 /\ out = <<>> /\ Expected = AnswersAfter(msg)[<<left, offset>>]
  /\ stage = "answer" => left > 0 /\ Expected = out \o Addresses(msg)[<<left, offset>>]
  /\ stage \in {"more", "answer"} => qname = NameAt(msg, HeaderLen).labels
  /\ stage # "done" => msg.ancount > 0 /\ msg.response /\ msg.rcode = 0
  /\ AnswersCorrect

DnsInv == DnsTypeOK /\ NameInv /\ SectionInv

Places == (0..MaxJumps) \X Nat
Reading == [ok : BOOLEAN, labels : Seq(Nat), end : Nat]

(* One turn of the recursion of Name. *)
NameStep(m, f, at) ==
  LET j == at[1]
      p == at[2]
  IN  IF p >= Size(m) THEN Unreadable
      ELSE IF Byte(m, p) = 0 THEN [ok |-> TRUE, labels |-> <<>>, end |-> p + 1]
      ELSE IF Byte(m, p) = Pointer
      THEN IF p + 1 >= Size(m) \/ j = 0 THEN Unreadable
           ELSE [f[<<j - 1, Byte(m, p + 1)>>] EXCEPT !.end = p + 2]
      ELSE IF ~ LabelAt(m, p) THEN Unreadable
      ELSE LET rest == f[<<j, p + 1 + Byte(m, p)>>]
           IN  [rest EXCEPT !.labels = <<p>> \o @]

(* Pointers are few and labels lead forward. *)
Rank(m, at) == at[1] * (Size(m) + 1) + (IF at[2] <= Size(m) THEN Size(m) - at[2] ELSE 0)

(* The constants. *)
LEMMA DnsConstants ==
  /\ MaxJumps \in Nat /\ 0 \in 0..MaxJumps /\ MaxJumps \in 0..MaxJumps /\ Pointer # 0
  /\ HeaderLen \in Nat /\ QuestionLen \in Nat /\ RecordLen \in Nat \ {0, 1}
BY DnsAssumption

(* The bytes of a message. *)
LEMMA MessageTypes ==
  ASSUME NEW m \in Messages
  PROVE  /\ Size(m) \in Nat /\ m.qdcount \in Nat /\ m.ancount \in Nat
         /\ \A p \in Nat : p < Size(m) => Byte(m, p) \in Nat
BY DnsAssumption DEF Size, Byte

(* A name is read at places of smaller rank. *)
LEMMA NameCalls ==
  ASSUME NEW m \in Messages, NEW at \in Places, at[2] < Size(m)
  PROVE  /\ Rank(m, at) \in Nat
         /\ at[2] + 1 < Size(m) /\ at[1] # 0 =>
              LET to == <<at[1] - 1, Byte(m, at[2] + 1)>>
              IN  to \in Places /\ Rank(m, to) \in Nat /\ Rank(m, to) < Rank(m, at)
         /\ LabelAt(m, at[2]) =>
              LET to == <<at[1], at[2] + 1 + Byte(m, at[2])>>
              IN  to \in Places /\ Rank(m, to) \in Nat /\ Rank(m, to) < Rank(m, at)
<1>. DEFINE S == Size(m)
            j == at[1]
            p == at[2]
<1>1. S \in Nat /\ j \in Nat /\ j <= MaxJumps /\ MaxJumps \in Nat /\ p \in Nat /\ p < S /\ at = <<j, p>>
  BY MessageTypes, DnsAssumption DEF Places
<1>2. /\ Byte(m, p) \in Nat
      /\ p + 1 < S => Byte(m, p + 1) \in Nat
      /\ LabelAt(m, p) => p + 1 + Byte(m, p) <= S
  BY <1>1, MessageTypes DEF LabelAt
<1>. HIDE DEF S, j, p
<1>3. j * (S + 1) \in Nat /\ (j # 0 => (j - 1) \in Nat /\ (j - 1) * (S + 1) \in Nat /\ (j - 1) * (S + 1) = j * (S + 1) - (S + 1))
  BY <1>1
<1>4. Rank(m, at) = j * (S + 1) + (S - p) /\ Rank(m, at) \in Nat
  BY <1>1, <1>3 DEF Rank, S, j, p
<1>5. ASSUME p + 1 < S, j # 0
      PROVE  LET to == <<j - 1, Byte(m, p + 1)>>
             IN  to \in Places /\ Rank(m, to) \in Nat /\ Rank(m, to) < Rank(m, at)
  <2>. DEFINE to == <<j - 1, Byte(m, p + 1)>>
  <2>1. to \in Places /\ to[1] = j - 1 /\ to[2] = Byte(m, p + 1) /\ to[2] \in Nat
    BY <1>1, <1>2, <1>5 DEF Places
  <2>. HIDE DEF to
  <2>2. Rank(m, to) = (j - 1) * (S + 1) + (IF to[2] <= S THEN S - to[2] ELSE 0)
    BY <2>1 DEF Rank, S
  <2>3. Rank(m, to) \in Nat /\ Rank(m, to) < Rank(m, at)
    BY <1>1, <1>3, <1>4, <1>5, <2>1, <2>2
  <2>. QED
    BY <2>1, <2>3 DEF to
<1>6. ASSUME LabelAt(m, p)
      PROVE  LET to == <<j, p + 1 + Byte(m, p)>>
             IN  to \in Places /\ Rank(m, to) \in Nat /\ Rank(m, to) < Rank(m, at)
  <2>. DEFINE to == <<j, p + 1 + Byte(m, p)>>
  <2>1. to \in Places /\ to[1] = j /\ to[2] = p + 1 + Byte(m, p) /\ to[2] \in Nat /\ to[2] <= S
    BY <1>1, <1>2, <1>6 DEF Places
  <2>. HIDE DEF to
  <2>2. Rank(m, to) = j * (S + 1) + (S - to[2])
    BY <2>1 DEF Rank, S
  <2>3. Rank(m, to) \in Nat /\ Rank(m, to) < Rank(m, at)
    BY <1>1, <1>2, <1>3, <1>4, <1>6, <2>1, <2>2
  <2>. QED
    BY <2>1, <2>3 DEF to
<1>. QED
  BY <1>4, <1>5, <1>6 DEF S, j, p

(* A turn keeps to readings, and looks only at places of smaller rank. *)
LEMMA NameStepType ==
  ASSUME NEW m \in Messages, NEW f, NEW at \in Places,
         \A to \in Places : Rank(m, to) < Rank(m, at) => f[to] \in Reading
  PROVE  NameStep(m, f, at) \in Reading
<1>1. at[2] \in Nat /\ Size(m) \in Nat /\ Unreadable \in Reading
  BY MessageTypes DEF Places, Unreadable, Reading
<1>2. CASE at[2] >= Size(m)
  BY <1>1, <1>2 DEF NameStep
<1>3. CASE at[2] < Size(m)
  <2>1. CASE Byte(m, at[2]) = 0
    BY <1>1, <1>3, <2>1 DEF NameStep, Reading
  <2>2. CASE Byte(m, at[2]) # 0 /\ Byte(m, at[2]) = Pointer
    <3>1. CASE at[2] + 1 >= Size(m) \/ at[1] = 0
      BY <1>1, <1>3, <2>2, <3>1 DEF NameStep
    <3>2. CASE at[2] + 1 < Size(m) /\ at[1] # 0
      <4>. DEFINE to == <<at[1] - 1, Byte(m, at[2] + 1)>>
      <4>1. f[to] \in Reading
        BY <1>3, <3>2, NameCalls, Zenon
      <4>2. NameStep(m, f, at) = [f[to] EXCEPT !.end = at[2] + 2]
        BY <1>1, <1>3, <2>2, <3>2 DEF NameStep
      <4>. HIDE DEF to
      <4>. QED
        BY <1>1, <4>1, <4>2 DEF Reading
    <3>. QED
      BY <1>1, <3>1, <3>2
  <2>3. CASE Byte(m, at[2]) # 0 /\ Byte(m, at[2]) # Pointer
    <3>1. CASE ~ LabelAt(m, at[2])
      BY <1>1, <1>3, <2>3, <3>1 DEF NameStep
    <3>2. CASE LabelAt(m, at[2])
      <4>. DEFINE to == <<at[1], at[2] + 1 + Byte(m, at[2])>>
      <4>1. f[to] \in Reading
        BY <1>3, <3>2, NameCalls, Zenon
      <4>2. NameStep(m, f, at) = [f[to] EXCEPT !.labels = <<at[2]>> \o @]
        BY <1>1, <1>3, <2>3, <3>2 DEF NameStep
      <4>. HIDE DEF to
      <4>3. <<at[2]>> \o f[to].labels \in Seq(Nat)
        BY <1>1, <4>1 DEF Reading
      <4>. QED
        BY <1>1, <4>1, <4>2, <4>3, Zenon DEF Reading
    <3>. QED
      BY <3>1, <3>2
  <2>. QED
    BY <2>1, <2>2, <2>3
<1>. QED
  BY <1>1, <1>2, <1>3

(* A turn depends on the recursion only at places of smaller rank. *)
LEMMA NameStepLocal ==
  ASSUME NEW m \in Messages, NEW f, NEW g, NEW at \in Places,
         \A to \in Places : Rank(m, to) < Rank(m, at) => f[to] = g[to]
  PROVE  NameStep(m, f, at) = NameStep(m, g, at)
<1>1. at[2] \in Nat /\ Size(m) \in Nat
  BY MessageTypes DEF Places
<1>2. CASE at[2] >= Size(m)
  BY <1>1, <1>2 DEF NameStep
<1>3. CASE at[2] < Size(m)
  <2>1. at[2] + 1 < Size(m) /\ at[1] # 0 =>
          f[<<at[1] - 1, Byte(m, at[2] + 1)>>] = g[<<at[1] - 1, Byte(m, at[2] + 1)>>]
    BY <1>3, NameCalls, Zenon
  <2>2. LabelAt(m, at[2]) =>
          f[<<at[1], at[2] + 1 + Byte(m, at[2])>>] = g[<<at[1], at[2] + 1 + Byte(m, at[2])>>]
    BY <1>3, NameCalls, Zenon
  <2>3. CASE Byte(m, at[2]) = 0
    BY <1>1, <1>3, <2>3 DEF NameStep
  <2>4. CASE Byte(m, at[2]) # 0 /\ Byte(m, at[2]) = Pointer
    <3>1. CASE at[2] + 1 >= Size(m) \/ at[1] = 0
      BY <1>1, <1>3, <2>4, <3>1 DEF NameStep
    <3>2. CASE at[2] + 1 < Size(m) /\ at[1] # 0
      BY <1>1, <1>3, <2>1, <2>4, <3>2 DEF NameStep
    <3>. QED
      BY <1>1, <3>1, <3>2
  <2>5. CASE Byte(m, at[2]) # 0 /\ Byte(m, at[2]) # Pointer
    BY <1>1, <1>3, <2>2, <2>5, Zenon DEF NameStep
  <2>. QED
    BY <2>3, <2>4, <2>5
<1>. QED
  BY <1>1, <1>2, <1>3

(* The recursion of Name makes sense: its equation holds. *)
LEMMA NameDef ==
  ASSUME NEW m \in Messages
  PROVE  /\ Name(m) \in [Places -> Reading]
         /\ \A at \in Places : Name(m)[at] = NameStep(m, Name(m), at)
<1>. DEFINE P(f) == f = [at \in Places |-> NameStep(m, f, at)]
            H == [f \in [Places -> Reading] |-> [at \in Places |-> NameStep(m, f, at)]]
            rank == [at \in Places |-> Rank(m, at)]
<1>1. rank \in [Places -> Nat]
  <2>1. ASSUME NEW at \in Places PROVE Rank(m, at) \in Nat
    <3>1. /\ at[1] \in Nat /\ at[2] \in Nat /\ Size(m) \in Nat
      BY MessageTypes, DnsAssumption DEF Places
    <3>2. at[1] * (Size(m) + 1) \in Nat
      BY <3>1
    <3>. QED
      BY <3>1, <3>2 DEF Rank
  <2>. QED
    BY <2>1
<1>2. H \in [[Places -> Reading] -> [Places -> Reading]]
  <2>1. ASSUME NEW f \in [Places -> Reading], NEW at \in Places
        PROVE  NameStep(m, f, at) \in Reading
    BY NameStepType
  <2>. QED
    BY <2>1
<1>3. Contracts(H, Places, Reading, rank)
  <2>1. ASSUME NEW f \in [Places -> Reading], NEW g \in [Places -> Reading], NEW at \in Places,
               \A to \in Places : rank[to] < rank[at] => f[to] = g[to]
        PROVE  H[f][at] = H[g][at]
    <3>1. NameStep(m, f, at) = NameStep(m, g, at)
      BY <2>1, NameStepLocal
    <3>. QED
      BY <3>1
  <2>. HIDE DEF H, rank
  <2>. QED
    BY <2>1 DEF Contracts
<1>4. \E f : P(f)
  <2>1. PICK f : Fixed(f, H, Places, Reading)
    <3>1. Unreadable \in Reading
      BY DEF Unreadable, Reading
    <3>. HIDE DEF H, rank
    <3>. QED
      BY <1>1, <1>2, <1>3, <3>1, Recursion, Zenon
  <2>2. H[f] = f /\ H[f] = [at \in Places |-> NameStep(m, f, at)]
    BY <2>1 DEF Fixed
  <2>. HIDE DEF H
  <2>3. P(f)
    BY <2>2
  <2>. QED
    BY <2>3, Zenon
<1>5. Name(m) = CHOOSE f : P(f)
  BY DEF Name, NameStep, Places
<1>6. P(Name(m))
  <2>. HIDE DEF P
  <2>. QED
    BY <1>4, <1>5, Zenon
<1>7. \A at \in Places : Name(m)[at] = NameStep(m, Name(m), at)
  <2>. DEFINE N == Name(m)
  <2>1. N = [at \in Places |-> NameStep(m, N, at)]
    BY <1>6
  <2>. HIDE DEF N
  <2>2. \A at \in Places : N[at] = NameStep(m, N, at)
    BY <2>1
  <2>. QED
    BY <2>2 DEF N
<1>8. \A at \in Places : Name(m)[at] \in Reading
  <2>. DEFINE T == {n \in Nat : \A at \in Places : Rank(m, at) = n => Name(m)[at] \in Reading}
  <2>1. ASSUME NEW n \in Nat, \A k \in Nat : k < n => k \in T PROVE n \in T
    <3>. SUFFICES ASSUME NEW at \in Places, Rank(m, at) = n PROVE Name(m)[at] \in Reading
      OBVIOUS
    <3>1. \A to \in Places : Rank(m, to) < Rank(m, at) => Name(m)[to] \in Reading
      <4>1. \A to \in Places : Rank(m, to) \in Nat
        BY <1>1
      <4>. QED
        BY <2>1, <4>1
    <3>2. NameStep(m, Name(m), at) \in Reading
      BY <3>1, NameStepType
    <3>. QED
      BY <1>7, <3>2
  <2>. HIDE DEF T
  <2>2. \A n \in Nat : n \in T
    BY <2>1, StrongInduction
  <2>3. \A at \in Places : Rank(m, at) \in T
    BY <1>1, <2>2
  <2>. QED
    BY <2>3 DEF T
<1>9. Name(m) \in [Places -> Reading]
  <2>. DEFINE N == Name(m)
  <2>1. N = [at \in Places |-> NameStep(m, N, at)] /\ \A at \in Places : N[at] \in Reading
    BY <1>6, <1>8
  <2>. HIDE DEF N
  <2>2. N \in [Places -> Reading]
    BY <2>1
  <2>. QED
    BY <2>2 DEF N
<1>. QED
  BY <1>7, <1>9

(* Where a name ends; what a complete record gives. *)
LEMMA NameTypes ==
  ASSUME NEW m \in Messages, NEW p \in Nat
  PROVE  /\ NameAt(m, p) \in Reading /\ EndOf(m, p) \in Nat
         /\ EndOf(m, p) + QuestionLen \in Nat
         /\ IsRecord(m, p) => AddressOf(m, p) \in Seq(Nat) /\ AfterRecord(m, p) \in Nat
<1>1. <<MaxJumps, p>> \in Places
  BY DnsAssumption DEF Places
<1>2. NameAt(m, p) \in Reading /\ EndOf(m, p) \in Nat
  BY <1>1, NameDef DEF NameAt, EndOf, Reading
<1>3. ASSUME IsRecord(m, p) PROVE AddressOf(m, p) \in Seq(Nat) /\ AfterRecord(m, p) \in Nat
  <2>. DEFINE e == EndOf(m, p)
              last == e + RecordLen - 1
  <2>1. e \in Nat /\ RecordLen \in Nat /\ last \in Nat /\ last < Size(m)
    BY <1>2, <1>3, MessageTypes, DnsAssumption DEF IsRecord
  <2>2. Byte(m, last) \in Nat
    BY <2>1, MessageTypes
  <2>. QED
    BY <2>1, <2>2 DEF AddressOf, AfterRecord
<1>. QED
  BY <1>2, <1>3, DnsAssumption

(* Concatenation. *)
LEMMA Concat ==
  ASSUME NEW S, NEW s \in Seq(S), NEW t \in Seq(S)
  PROVE  /\ s \o t \in Seq(S) /\ s \o <<>> = s /\ <<>> \o s = s
         /\ \A x \in S : Append(s, x) \in Seq(S) /\ Append(s, x) \o t = s \o (<<x>> \o t)
<1>1. s \o t \in Seq(S)
  OBVIOUS
<1>2. s \o <<>> = s /\ <<>> \o s = s
  OBVIOUS
<1>3. ASSUME NEW x \in S PROVE Append(s, x) \in Seq(S) /\ Append(s, x) \o t = s \o (<<x>> \o t)
  OBVIOUS
<1>. QED
  BY <1>1, <1>2, <1>3

(* The recursions over records and over questions make sense. *)
LEMMA AddressesDef ==
  ASSUME NEW m \in Messages
  PROVE  \A k, p \in Nat :
           /\ Addresses(m)[<<k, p>>] \in Seq(Nat)
           /\ Addresses(m)[<<k, p>>] =
                IF k = 0 \/ ~ IsRecord(m, p) THEN <<>>
                ELSE AddressOf(m, p) \o Addresses(m)[<<k - 1, AfterRecord(m, p)>>]
<1>. DEFINE D == Nat \X Nat
            Step(f, at) == IF at[1] = 0 \/ ~ IsRecord(m, at[2]) THEN <<>>
                           ELSE AddressOf(m, at[2]) \o f[<<at[1] - 1, AfterRecord(m, at[2])>>]
            P(f) == f = [at \in D |-> Step(f, at)]
            H == [f \in [D -> Seq(Nat)] |-> [at \in D |-> Step(f, at)]]
            rank == [at \in D |-> at[1]]
<1>1. rank \in [D -> Nat] /\ \A at \in D : at[1] \in Nat /\ at[2] \in Nat /\ rank[at] = at[1]
  OBVIOUS
<1>2. ASSUME NEW at \in D, at[1] # 0, IsRecord(m, at[2])
      PROVE  /\ AddressOf(m, at[2]) \in Seq(Nat)
             /\ <<at[1] - 1, AfterRecord(m, at[2])>> \in D
             /\ rank[<<at[1] - 1, AfterRecord(m, at[2])>>] < rank[at]
  <2>1. AddressOf(m, at[2]) \in Seq(Nat) /\ AfterRecord(m, at[2]) \in Nat
    BY <1>1, <1>2, NameTypes
  <2>2. at[1] \in Nat /\ at[1] - 1 \in Nat
    BY <1>1, <1>2
  <2>. QED
    BY <2>1, <2>2
<1>3. ASSUME NEW f, NEW at \in D, \A to \in D : rank[to] < rank[at] => f[to] \in Seq(Nat)
      PROVE  Step(f, at) \in Seq(Nat)
  <2>1. CASE at[1] = 0 \/ ~ IsRecord(m, at[2])
    BY <2>1
  <2>2. CASE at[1] # 0 /\ IsRecord(m, at[2])
    <3>1. f[<<at[1] - 1, AfterRecord(m, at[2])>>] \in Seq(Nat)
      BY <1>2, <1>3, <2>2, Zenon
    <3>2. AddressOf(m, at[2]) \o f[<<at[1] - 1, AfterRecord(m, at[2])>>] \in Seq(Nat)
      BY <1>2, <2>2, <3>1, Concat, Zenon
    <3>. QED
      BY <2>2, <3>2
  <2>. QED
    BY <2>1, <2>2
<1>4. ASSUME NEW f, NEW g, NEW at \in D, \A to \in D : rank[to] < rank[at] => f[to] = g[to]
      PROVE  Step(f, at) = Step(g, at)
  BY <1>2, <1>4, Zenon
<1>. HIDE DEF Step
<1>5. H \in [[D -> Seq(Nat)] -> [D -> Seq(Nat)]]
  <2>1. ASSUME NEW f \in [D -> Seq(Nat)], NEW at \in D PROVE Step(f, at) \in Seq(Nat)
    BY <1>3
  <2>. QED
    BY <2>1
<1>6. Contracts(H, D, Seq(Nat), rank)
  <2>1. ASSUME NEW f \in [D -> Seq(Nat)], NEW g \in [D -> Seq(Nat)], NEW at \in D,
               \A to \in D : rank[to] < rank[at] => f[to] = g[to]
        PROVE  H[f][at] = H[g][at]
    <3>1. Step(f, at) = Step(g, at)
      BY <1>4, <2>1
    <3>. QED
      BY <3>1
  <2>. HIDE DEF H, rank, D
  <2>. QED
    BY <2>1, Zenon DEF Contracts
<1>7. \E f : P(f)
  <2>1. PICK f : Fixed(f, H, D, Seq(Nat))
    <3>1. <<>> \in Seq(Nat)
      OBVIOUS
    <3>. HIDE DEF H, rank, D
    <3>. QED
      BY <1>1, <1>5, <1>6, <3>1, Recursion, Zenon
  <2>2. H[f] = f /\ H[f] = [at \in D |-> Step(f, at)]
    BY <2>1 DEF Fixed
  <2>. HIDE DEF H
  <2>3. P(f)
    BY <2>2
  <2>. QED
    BY <2>3, Zenon
<1>8. Addresses(m) = CHOOSE f : P(f)
  BY DEF Addresses, Step
<1>9. P(Addresses(m))
  <2>. HIDE DEF P
  <2>. QED
    BY <1>7, <1>8, Zenon
<1>. DEFINE A == Addresses(m)
<1>10. \A at \in D : A[at] = Step(A, at)
  <2>1. A = [at \in D |-> Step(A, at)]
    BY <1>9
  <2>. HIDE DEF A
  <2>. QED
    BY <2>1
<1>11. \A at \in D : A[at] \in Seq(Nat)
  <2>. DEFINE T == {n \in Nat : \A at \in D : rank[at] = n => A[at] \in Seq(Nat)}
  <2>. HIDE DEF A, rank, D
  <2>1. ASSUME NEW n \in Nat, \A k \in Nat : k < n => k \in T PROVE n \in T
    <3>. SUFFICES ASSUME NEW at \in D, rank[at] = n PROVE A[at] \in Seq(Nat)
      OBVIOUS
    <3>1. \A to \in D : rank[to] < rank[at] => A[to] \in Seq(Nat)
      BY <1>1, <2>1
    <3>. QED
      BY <1>3, <1>10, <3>1
  <2>. HIDE DEF T
  <2>2. \A n \in Nat : n \in T
    BY <2>1, StrongInduction
  <2>3. \A at \in D : rank[at] \in T
    BY <1>1, <2>2
  <2>. QED
    BY <2>3 DEF T
<1>. QED
  <2>. HIDE DEF A
  <2>1. ASSUME NEW k \in Nat, NEW p \in Nat
        PROVE  /\ A[<<k, p>>] \in Seq(Nat)
               /\ A[<<k, p>>] = IF k = 0 \/ ~ IsRecord(m, p) THEN <<>>
                                ELSE AddressOf(m, p) \o A[<<k - 1, AfterRecord(m, p)>>]
    <3>1. <<k, p>> \in D /\ <<k, p>>[1] = k /\ <<k, p>>[2] = p
      OBVIOUS
    <3>2. A[<<k, p>>] \in Seq(Nat) /\ A[<<k, p>>] = Step(A, <<k, p>>)
      BY <1>10, <1>11, <3>1
    <3>. QED
      BY <3>1, <3>2 DEF Step
  <2>. QED
    BY <2>1 DEF A

(* The recursion over questions makes sense: its equation holds. *)
LEMMA AnswersAfterDef ==
  ASSUME NEW m \in Messages
  PROVE  \A k, p \in Nat :
           AnswersAfter(m)[<<k, p>>] =
             IF k = 0 THEN Addresses(m)[<<m.ancount, p>>]
             ELSE IF IsQuestion(m, p) THEN AnswersAfter(m)[<<k - 1, EndOf(m, p) + QuestionLen>>]
             ELSE <<>>
<1>. DEFINE D == Nat \X Nat
            Step(f, at) == IF at[1] = 0 THEN Addresses(m)[<<m.ancount, at[2]>>]
                           ELSE IF IsQuestion(m, at[2]) THEN f[<<at[1] - 1, EndOf(m, at[2]) + QuestionLen>>]
                           ELSE <<>>
            P(f) == f = [at \in D |-> Step(f, at)]
            H == [f \in [D -> Seq(Nat)] |-> [at \in D |-> Step(f, at)]]
            rank == [at \in D |-> at[1]]
<1>1. rank \in [D -> Nat] /\ \A at \in D : at[1] \in Nat /\ at[2] \in Nat /\ rank[at] = at[1]
  OBVIOUS
<1>2. ASSUME NEW at \in D, at[1] # 0
      PROVE  /\ <<at[1] - 1, EndOf(m, at[2]) + QuestionLen>> \in D
             /\ rank[<<at[1] - 1, EndOf(m, at[2]) + QuestionLen>>] < rank[at]
  <2>1. EndOf(m, at[2]) + QuestionLen \in Nat
    BY <1>1, NameTypes
  <2>2. at[1] \in Nat /\ at[1] - 1 \in Nat
    BY <1>1, <1>2
  <2>. QED
    BY <2>1, <2>2
<1>3. ASSUME NEW f \in [D -> Seq(Nat)], NEW at \in D PROVE Step(f, at) \in Seq(Nat)
  <2>1. Addresses(m)[<<m.ancount, at[2]>>] \in Seq(Nat)
    BY <1>1, AddressesDef, MessageTypes, Zenon
  <2>2. at[1] # 0 => f[<<at[1] - 1, EndOf(m, at[2]) + QuestionLen>>] \in Seq(Nat)
    BY <1>2, Zenon
  <2>. QED
    BY <2>1, <2>2
<1>4. ASSUME NEW f, NEW g, NEW at \in D, \A to \in D : rank[to] < rank[at] => f[to] = g[to]
      PROVE  Step(f, at) = Step(g, at)
  BY <1>2, <1>4, Zenon
<1>. HIDE DEF Step
<1>5. H \in [[D -> Seq(Nat)] -> [D -> Seq(Nat)]]
  BY <1>3
<1>6. Contracts(H, D, Seq(Nat), rank)
  <2>1. ASSUME NEW f \in [D -> Seq(Nat)], NEW g \in [D -> Seq(Nat)], NEW at \in D,
               \A to \in D : rank[to] < rank[at] => f[to] = g[to]
        PROVE  H[f][at] = H[g][at]
    <3>1. Step(f, at) = Step(g, at)
      BY <1>4, <2>1
    <3>. QED
      BY <3>1
  <2>. HIDE DEF H, rank, D
  <2>. QED
    BY <2>1 DEF Contracts
<1>7. \E f : P(f)
  <2>1. PICK f : Fixed(f, H, D, Seq(Nat))
    <3>1. <<>> \in Seq(Nat)
      OBVIOUS
    <3>. HIDE DEF H, rank, D
    <3>. QED
      BY <1>1, <1>5, <1>6, <3>1, Recursion, Zenon
  <2>2. H[f] = f /\ H[f] = [at \in D |-> Step(f, at)]
    BY <2>1 DEF Fixed
  <2>. HIDE DEF H
  <2>3. P(f)
    BY <2>2
  <2>. QED
    BY <2>3, Zenon
<1>8. AnswersAfter(m) = CHOOSE f : P(f)
  BY DEF AnswersAfter, Step
<1>9. P(AnswersAfter(m))
  <2>. HIDE DEF P
  <2>. QED
    BY <1>7, <1>8, Zenon
<1>. DEFINE A == AnswersAfter(m)
<1>10. \A at \in D : A[at] = Step(A, at)
  <2>1. A = [at \in D |-> Step(A, at)]
    BY <1>9
  <2>. HIDE DEF A
  <2>. QED
    BY <2>1
<1>. QED
  <2>. HIDE DEF A
  <2>1. ASSUME NEW k \in Nat, NEW p \in Nat
        PROVE  A[<<k, p>>] = IF k = 0 THEN Addresses(m)[<<m.ancount, p>>]
                             ELSE IF IsQuestion(m, p) THEN A[<<k - 1, EndOf(m, p) + QuestionLen>>]
                             ELSE <<>>
    <3>1. <<k, p>> \in D /\ <<k, p>>[1] = k /\ <<k, p>>[2] = p
      OBVIOUS
    <3>. QED
      BY <1>10, <3>1 DEF Step
  <2>. QED
    BY <2>1 DEF A

(* A message that announces no answers has none. *)
LEMMA NoAnswers ==
  ASSUME NEW m \in Messages, m.ancount = 0
  PROVE  \A k, p \in Nat : AnswersAfter(m)[<<k, p>>] = <<>>
<1>. DEFINE T == {k \in Nat : \A p \in Nat : AnswersAfter(m)[<<k, p>>] = <<>>}
<1>1. 0 \in T
  <2>1. ASSUME NEW p \in Nat, NEW k \in Nat, k = 0 PROVE AnswersAfter(m)[<<k, p>>] = <<>>
    <3>. HIDE DEF T
    <3>1. AnswersAfter(m)[<<k, p>>] = Addresses(m)[<<m.ancount, p>>]
      BY <2>1, AnswersAfterDef, Zenon
    <3>2. Addresses(m)[<<k, p>>] = <<>>
      BY <2>1, AddressesDef, Zenon
    <3>. QED
      BY <2>1, <3>1, <3>2
  <2>. QED
    BY <2>1
<1>2. ASSUME NEW k \in Nat, k \in T PROVE k + 1 \in T
  <2>1. ASSUME NEW p \in Nat PROVE AnswersAfter(m)[<<k + 1, p>>] = <<>>
    <3>1. k + 1 \in Nat /\ k + 1 # 0 /\ (k + 1) - 1 = k
      OBVIOUS
    <3>a. EndOf(m, p) + QuestionLen \in Nat
      BY NameTypes, Zenon
    <3>2. AnswersAfter(m)[<<k, EndOf(m, p) + QuestionLen>>] = <<>>
      BY <1>2, <3>a
    <3>3. AnswersAfter(m)[<<k + 1, p>>] =
            IF IsQuestion(m, p) THEN AnswersAfter(m)[<<(k + 1) - 1, EndOf(m, p) + QuestionLen>>] ELSE <<>>
      BY <3>1, AnswersAfterDef, Zenon
    <3>. QED
      BY <3>1, <3>2, <3>3
  <2>. QED
    BY <2>1
<1>. HIDE DEF T
<1>3. \A k \in Nat : k \in T
  BY <1>1, <1>2, Induction
<1>. QED
  BY <1>3 DEF T

(* A turn of parse_name and a turn of the recursion. *)
LEMMA NameTurn ==
  ASSUME NEW m \in Messages, NEW j \in 0..MaxJumps, NEW p \in Nat
  PROVE  LET r == Name(m)[<<j, p>>] IN
         /\ r \in Reading
         /\ p < Size(m) /\ Byte(m, p) = 0 => r.ok /\ r.labels = <<>> /\ r.end = p + 1
         /\ \/ p >= Size(m)
            \/ p < Size(m) /\ Byte(m, p) = Pointer /\ (p + 1 >= Size(m) \/ j = 0)
            \/ p < Size(m) /\ Byte(m, p) \notin {0, Pointer} /\ ~ LabelAt(m, p)
            => ~ r.ok
         /\ p + 1 < Size(m) /\ Byte(m, p) = Pointer /\ j # 0 =>
              LET t == Name(m)[<<j - 1, Byte(m, p + 1)>>] IN
              Byte(m, p + 1) \in Nat /\ t \in Reading /\ r.ok = t.ok /\ r.labels = t.labels /\ r.end = p + 2
         /\ p < Size(m) /\ Byte(m, p) \notin {0, Pointer} /\ LabelAt(m, p) =>
              LET t == Name(m)[<<j, p + 1 + Byte(m, p)>>] IN
              /\ p + 1 + Byte(m, p) \in Nat /\ t \in Reading
              /\ r.ok = t.ok /\ r.labels = <<p>> \o t.labels /\ r.end = t.end
<1>. DEFINE at == <<j, p>>
            r == Name(m)[at]
<1>1. at \in Places /\ at[1] = j /\ at[2] = p /\ Size(m) \in Nat /\ Pointer # 0
  BY MessageTypes, DnsAssumption DEF Places
<1>2. r \in Reading /\ r = NameStep(m, Name(m), at)
  BY <1>1, NameDef
<1>. HIDE DEF at
<1>3. p < Size(m) /\ Byte(m, p) = 0 => r.ok /\ r.labels = <<>> /\ r.end = p + 1
  BY <1>1, <1>2 DEF NameStep
<1>4. ASSUME \/ p >= Size(m)
             \/ p < Size(m) /\ Byte(m, p) = Pointer /\ (p + 1 >= Size(m) \/ j = 0)
             \/ p < Size(m) /\ Byte(m, p) \notin {0, Pointer} /\ ~ LabelAt(m, p)
      PROVE  ~ r.ok
  <2>1. NameStep(m, Name(m), at) = Unreadable
    <3>1. CASE p >= Size(m)
      BY <1>1, <3>1 DEF NameStep
    <3>2. CASE p < Size(m) /\ Byte(m, p) = Pointer /\ (p + 1 >= Size(m) \/ j = 0)
      BY <1>1, <3>2 DEF NameStep
    <3>3. CASE p < Size(m) /\ Byte(m, p) \notin {0, Pointer} /\ ~ LabelAt(m, p)
      BY <1>1, <3>3 DEF NameStep
    <3>. QED
      BY <1>4, <3>1, <3>2, <3>3
  <2>. QED
    BY <1>2, <2>1 DEF Unreadable
<1>5. ASSUME p + 1 < Size(m), Byte(m, p) = Pointer, j # 0
      PROVE  LET t == Name(m)[<<j - 1, Byte(m, p + 1)>>] IN
             Byte(m, p + 1) \in Nat /\ t \in Reading /\ r.ok = t.ok /\ r.labels = t.labels /\ r.end = p + 2
  <2>. DEFINE to == <<j - 1, Byte(m, p + 1)>>
              t == Name(m)[to]
  <2>1. Byte(m, p + 1) \in Nat
    BY <1>5, MessageTypes
  <2>2. t \in Reading
    <3>1. to \in Places
      BY <1>5, <2>1, DnsAssumption DEF Places
    <3>. QED
      BY <3>1, NameDef
  <2>3. r = [t EXCEPT !.end = p + 2]
    BY <1>1, <1>2, <1>5 DEF NameStep
  <2>. HIDE DEF t, r
  <2>4. r.ok = t.ok /\ r.labels = t.labels /\ r.end = p + 2
    BY <2>2, <2>3 DEF Reading
  <2>. QED
    BY <2>1, <2>2, <2>4 DEF t
<1>6. ASSUME p < Size(m), Byte(m, p) \notin {0, Pointer}, LabelAt(m, p)
      PROVE  LET t == Name(m)[<<j, p + 1 + Byte(m, p)>>] IN
             /\ p + 1 + Byte(m, p) \in Nat /\ t \in Reading
             /\ r.ok = t.ok /\ r.labels = <<p>> \o t.labels /\ r.end = t.end
  <2>. DEFINE to == <<j, p + 1 + Byte(m, p)>>
              t == Name(m)[to]
  <2>1. p + 1 + Byte(m, p) \in Nat
    BY <1>6, MessageTypes
  <2>2. t \in Reading
    <3>1. to \in Places
      BY <2>1 DEF Places
    <3>. QED
      BY <3>1, NameDef
  <2>3. r = [t EXCEPT !.labels = <<p>> \o @]
    BY <1>1, <1>2, <1>6 DEF NameStep
  <2>. HIDE DEF t, r
  <2>4. r.ok = t.ok /\ r.labels = <<p>> \o t.labels /\ r.end = t.end
    BY <2>2, <2>3 DEF Reading
  <2>. QED
    BY <2>1, <2>2, <2>4 DEF t
<1>. QED
  BY <1>2, <1>3, <1>4, <1>5, <1>6, Zenon DEF at

(* The names of a message do not change. *)
LEMMA NameKept == UNCHANGED msg => Name(msg)' = Name(msg)
BY Zenon

(* A message without a header has no first question. *)
LEMMA NoHeader ==
  ASSUME NEW m \in Messages, ~ (Size(m) >= HeaderLen)
  PROVE  AnswersAfter(m)[<<Questions(m), HeaderLen>>] = <<>>
<1>1. Questions(m) \in Nat /\ Questions(m) # 0 /\ HeaderLen \in Nat /\ HeaderLen >= Size(m)
  BY MessageTypes, DnsAssumption DEF Questions
<1>2. ~ Name(m)[<<MaxJumps, HeaderLen>>].ok
  BY <1>1, NameTurn, DnsConstants, Zenon
<1>3. ~ IsQuestion(m, HeaderLen)
  BY <1>2 DEF IsQuestion, NameAt
<1>. QED
  BY <1>1, <1>3, AnswersAfterDef, Zenon

(* The invariant holds when parse_dns_answers is called. *)
LEMMA DnsInitInv == DnsInit => DnsInv
<1>. SUFFICES ASSUME DnsInit PROVE DnsInv
  OBVIOUS
<1>. USE DEF DnsInit
<1>1. DnsTypeOK
  <2>1. <<>> \in Seq(Nat)
    OBVIOUS
  <2>. QED
    BY <2>1, DnsConstants, Zenon DEF DnsTypeOK
<1>2. NameInv
  BY DEF NameInv
<1>3. SectionInv
  <2>1. msg \in Messages /\ msg.ancount \in Nat /\ Questions(msg) \in Nat /\ HeaderLen \in Nat
    BY MessageTypes, DnsAssumption DEF Questions
  <2>2. CASE ~ HasAnswers(msg)
    <3>1. Expected = <<>>
      <4>1. CASE ~ (msg.response /\ msg.rcode = 0)
        BY <4>1 DEF Expected, AnswersOf
      <4>2. CASE msg.ancount = 0
        BY <2>1, <4>2, NoAnswers DEF Expected, AnswersOf
      <4>3. CASE ~ (Size(msg) >= HeaderLen)
        BY <2>1, <4>3, NoHeader DEF Expected, AnswersOf
      <4>. QED
        BY <2>2, <4>1, <4>2, <4>3 DEF HasAnswers
    <3>. QED
      BY <2>2, <3>1 DEF SectionInv, AnswersCorrect, Expected
  <2>3. CASE HasAnswers(msg)
    BY <2>1, <2>3 DEF SectionInv, AnswersCorrect, HasAnswers
  <2>. QED
    BY <2>2, <2>3
<1>. QED
  BY <1>1, <1>2, <1>3 DEF DnsInv

(* parse_name is called. *)
LEMMA BeginInv == DnsInv /\ Begin => DnsInv'
<1>. SUFFICES ASSUME DnsInv, Begin PROVE DnsInv'
  OBVIOUS
<1>. USE DEF DnsInv
<1>1. msg \in Messages /\ offset \in Nat /\ msg' = msg /\ Size(msg) \in Nat
  BY MessageTypes DEF Begin, Stop, DnsTypeOK
<1>2. CASE stage # "question" /\ offset >= Size(msg)
  <2>1. /\ stage' = "done" /\ inName' = inName /\ ~ inName /\ stage # "done"
        /\ UNCHANGED <<msg, left, offset, from, nameVars, qname, out>>
    BY <1>2 DEF Begin, Stop
  <2>2. DnsTypeOK' /\ NameInv'
    BY <2>1 DEF DnsTypeOK, NameInv, nameVars
  <2>3. ~ NameAt(msg, offset).ok
    <3>1. ~ Name(msg)[<<MaxJumps, offset>>].ok
      BY <1>1, <1>2, NameTurn, DnsConstants, Zenon
    <3>. QED
      BY <3>1 DEF NameAt
  <2>4. out = Expected
    <3>1. CASE stage = "more"
      <4>1. left \in Nat /\ left # 0 /\ ~ IsQuestion(msg, offset)
        BY <2>3, <3>1 DEF SectionInv, DnsTypeOK, IsQuestion
      <4>2. AnswersAfter(msg)[<<left, offset>>] = <<>>
        BY <1>1, <4>1, AnswersAfterDef, Zenon
      <4>. QED
        BY <3>1, <4>2 DEF SectionInv
    <3>2. CASE stage = "answer"
      <4>1. Addresses(msg)[<<left, offset>>] = <<>>
        BY <1>1, <2>3, <3>2, AddressesDef, Zenon DEF DnsTypeOK, IsRecord
      <4>. QED
        BY <3>2, <4>1, Concat DEF SectionInv, DnsTypeOK
    <3>. QED
      BY <1>2, <2>1, <3>1, <3>2 DEF DnsTypeOK
  <2>5. qname = NameAt(msg, HeaderLen).labels
    BY <1>2, <2>1 DEF SectionInv, DnsTypeOK
  <2>6. SectionInv'
    BY <2>1, <2>4, <2>5 DEF SectionInv, AnswersCorrect, Expected
  <2>. QED
    BY <2>2, <2>6
<1>3. CASE ~ (stage # "question" /\ offset >= Size(msg))
  <2>1. /\ inName' = TRUE /\ from' = offset /\ stage # "done"
        /\ pos' = offset /\ jumps' = 0 /\ jumped' = FALSE /\ jumpedEnd' = 0 /\ name' = <<>>
        /\ UNCHANGED <<msg, stage, left, offset, qname, out>>
    BY <1>3 DEF Begin
  <2>2. DnsTypeOK'
    <3>1. <<>> \in Seq(Nat)
      OBVIOUS
    <3>. QED
      BY <2>1, <3>1, DnsConstants, Zenon DEF DnsTypeOK
  <2>3. NameInv'
    <3>1. MaxJumps - 0 = MaxJumps /\ MaxJumps \in 0..MaxJumps
      BY DnsAssumption
    <3>2. Rest' = NameAt(msg, offset) /\ NameAt(msg, offset)' = NameAt(msg, offset)
      BY <2>1, <3>1, NameKept, Zenon DEF Rest, NameAt
    <3>3. NameAt(msg, offset).labels \in Seq(Nat)
      BY <1>1, NameTypes DEF Reading
    <3>4. <<>> \o NameAt(msg, offset).labels = NameAt(msg, offset).labels
      BY <3>3, Concat
    <3>. QED
      BY <2>1, <3>2, <3>4 DEF NameInv
  <2>4. SectionInv'
    BY <2>1, Zenon DEF SectionInv, AnswersCorrect, Expected
  <2>. QED
    BY <2>2, <2>3, <2>4
<1>. QED
  BY <1>2, <1>3

(* A pointer. *)
LEMMA JumpInv == DnsInv /\ Jump => DnsInv'
<1>. SUFFICES ASSUME DnsInv, Jump PROVE DnsInv'
  OBVIOUS
<1>. USE DEF DnsInv
<1>1. /\ inName /\ pos + 1 < Size(msg) /\ Byte(msg, pos) = Pointer /\ jumps < MaxJumps
      /\ jumpedEnd' = (IF jumped THEN jumpedEnd ELSE pos + 2)
      /\ jumped' = TRUE /\ pos' = Byte(msg, pos + 1) /\ jumps' = jumps + 1
      /\ UNCHANGED <<msg, stage, left, offset, from, inName, name, qname, out>>
  BY DEF Jump
<1>2. /\ msg \in Messages /\ pos \in Nat /\ jumps \in Nat /\ MaxJumps \in Nat /\ jumpedEnd \in Nat
      /\ jumped \in BOOLEAN /\ offset \in Nat
  BY DnsAssumption DEF DnsTypeOK
<1>. DEFINE j == MaxJumps - jumps
            t == Name(msg)[<<j - 1, Byte(msg, pos + 1)>>]
<1>3. j \in 0..MaxJumps /\ j # 0 /\ MaxJumps - (jumps + 1) = j - 1
  BY <1>1, <1>2
<1>4. /\ Byte(msg, pos + 1) \in Nat /\ t \in Reading /\ Rest.ok = t.ok /\ Rest.labels = t.labels /\ Rest.end = pos + 2
  <2>. HIDE DEF j
  <2>1. Rest = Name(msg)[<<j, pos>>]
    BY DEF Rest, j
  <2>. QED
    BY <1>1, <1>2, <1>3, <2>1, NameTurn, Zenon
<1>5. DnsTypeOK'
  BY <1>1, <1>2, <1>4 DEF DnsTypeOK
<1>6. NameInv'
  <2>1. Rest' = t /\ NameAt(msg, offset)' = NameAt(msg, offset)
    BY <1>1, <1>3, NameKept, Zenon DEF Rest, NameAt
  <2>. HIDE DEF t, j
  <2>2. CASE jumped
    BY <1>1, <1>4, <2>1, <2>2 DEF NameInv
  <2>3. CASE ~ jumped
    BY <1>1, <1>4, <2>1, <2>3 DEF NameInv
  <2>. QED
    BY <2>2, <2>3
<1>7. SectionInv'
  BY <1>1, Zenon DEF SectionInv, AnswersCorrect, Expected
<1>. QED
  BY <1>5, <1>6, <1>7

(* A label. *)
LEMMA LabelInv == DnsInv /\ Label => DnsInv'
<1>. SUFFICES ASSUME DnsInv, Label PROVE DnsInv'
  OBVIOUS
<1>. USE DEF DnsInv
<1>1. /\ inName /\ pos < Size(msg) /\ Byte(msg, pos) \notin {0, Pointer} /\ LabelAt(msg, pos)
      /\ name' = Append(name, pos) /\ pos' = pos + 1 + Byte(msg, pos)
      /\ UNCHANGED <<msg, stage, left, offset, from, inName, jumps, jumped, jumpedEnd, qname, out>>
  BY DEF Label
<1>2. /\ msg \in Messages /\ pos \in Nat /\ jumps \in 0..MaxJumps /\ name \in Seq(Nat)
  BY DEF DnsTypeOK
<1>. DEFINE j == MaxJumps - jumps
            t == Name(msg)[<<j, pos + 1 + Byte(msg, pos)>>]
<1>3. j \in 0..MaxJumps
  BY <1>2, DnsConstants
<1>4. /\ pos + 1 + Byte(msg, pos) \in Nat /\ t \in Reading
      /\ Rest.ok = t.ok /\ Rest.labels = <<pos>> \o t.labels /\ Rest.end = t.end
  <2>. HIDE DEF j
  <2>1. Rest = Name(msg)[<<j, pos>>]
    BY DEF Rest, j
  <2>. QED
    BY <1>1, <1>2, <1>3, <2>1, NameTurn, Zenon
<1>5. t.labels \in Seq(Nat)
  BY <1>4 DEF Reading
<1>6. Append(name, pos) \in Seq(Nat) /\ Append(name, pos) \o t.labels = name \o (<<pos>> \o t.labels)
  <2>. DEFINE l == t.labels
  <2>1. l \in Seq(Nat)
    BY <1>5
  <2>. HIDE DEF l
  <2>2. Append(name, pos) \in Seq(Nat) /\ Append(name, pos) \o l = name \o (<<pos>> \o l)
    BY <1>2, <2>1, Concat
  <2>. QED
    BY <2>2 DEF l
<1>7. DnsTypeOK'
  BY <1>1, <1>4, <1>6 DEF DnsTypeOK
<1>8. NameInv'
  <2>1. Rest' = t /\ NameAt(msg, offset)' = NameAt(msg, offset)
    BY <1>1, <1>3 DEF Rest, NameAt, Name
  <2>. HIDE DEF t, j
  <2>. QED
    BY <1>1, <1>4, <1>6, <2>1, Zenon DEF NameInv
<1>9. SectionInv'
  BY <1>1, Zenon DEF SectionInv, AnswersCorrect, Expected
<1>. QED
  BY <1>7, <1>8, <1>9

(* How many questions are left, with the one that is being read. *)
Count == IF stage = "question" THEN Questions(msg) ELSE left

(* While questions are read there is one to read, and the answers of the   *)
(* message are those after the questions that are left.                    *)
LEMMA CountIs ==
  ASSUME DnsInv, stage \in {"question", "more"}
  PROVE  /\ Count \in Nat /\ Count # 0 /\ out = <<>>
         /\ Expected = AnswersAfter(msg)[<<Count, offset>>]
<1>. USE DEF DnsInv
<1>1. CASE stage = "question"
  <2>1. Count = Questions(msg) /\ out = <<>> /\ offset = HeaderLen
    BY <1>1 DEF SectionInv, Count
  <2>2. Questions(msg) \in Nat /\ Questions(msg) # 0
    BY MessageTypes DEF DnsTypeOK, Questions
  <2>. QED
    BY <1>1, <2>1, <2>2 DEF Expected, AnswersOf, SectionInv
<1>2. CASE stage = "more"
  BY <1>2 DEF SectionInv, DnsTypeOK, Count
<1>. QED
  BY <1>1, <1>2

(* A question, or a record, that is not complete ends the answers. *)
LEMMA Incomplete ==
  ASSUME DnsInv, stage # "done",
         stage = "answer" => ~ IsRecord(msg, offset),
         stage # "answer" => ~ IsQuestion(msg, offset)
  PROVE  out = Expected
<1>. USE DEF DnsInv
<1>1. msg \in Messages /\ left \in Nat /\ offset \in Nat /\ out \in Seq(Nat)
  BY DEF DnsTypeOK
<1>2. CASE stage = "answer"
  <2>1. Addresses(msg)[<<left, offset>>] = <<>>
    BY <1>1, <1>2, AddressesDef, Zenon
  <2>. QED
    BY <1>1, <1>2, <2>1, Concat DEF SectionInv
<1>3. CASE stage # "answer"
  <2>1. /\ Count \in Nat /\ Count # 0 /\ out = <<>>
        /\ Expected = AnswersAfter(msg)[<<Count, offset>>]
    BY <1>3, CountIs DEF DnsTypeOK
  <2>. HIDE DEF DnsInv
  <2>. QED
    BY <1>1, <1>3, <2>1, AnswersAfterDef, Zenon
<1>. QED
  BY <1>2, <1>3

(* The name is malformed. *)
LEMMA NameFailsInv == DnsInv /\ NameFails => DnsInv'
<1>. SUFFICES ASSUME DnsInv, NameFails PROVE DnsInv'
  OBVIOUS
<1>. USE DEF DnsInv
<1>1. /\ inName /\ stage' = "done" /\ inName' = FALSE
      /\ UNCHANGED <<msg, left, offset, from, nameVars, qname, out>>
      /\ \/ pos >= Size(msg)
         \/ pos < Size(msg) /\ Byte(msg, pos) = Pointer /\ (pos + 1 >= Size(msg) \/ jumps >= MaxJumps)
         \/ pos < Size(msg) /\ Byte(msg, pos) \notin {0, Pointer} /\ ~ LabelAt(msg, pos)
  BY DEF NameFails, Malformed
<1>2. /\ msg \in Messages /\ pos \in Nat /\ jumps \in 0..MaxJumps
  BY DEF DnsTypeOK
<1>. DEFINE j == MaxJumps - jumps
<1>3. j \in 0..MaxJumps /\ (jumps >= MaxJumps => j = 0)
  BY <1>2, DnsConstants
<1>4. ~ Rest.ok
  <2>. HIDE DEF j
  <2>1. Rest = Name(msg)[<<j, pos>>]
    BY DEF Rest, j
  <2>2. \/ pos >= Size(msg)
        \/ pos < Size(msg) /\ Byte(msg, pos) = Pointer /\ (pos + 1 >= Size(msg) \/ j = 0)
        \/ pos < Size(msg) /\ Byte(msg, pos) \notin {0, Pointer} /\ ~ LabelAt(msg, pos)
    BY <1>1, <1>3
  <2>. QED
    BY <1>2, <1>3, <2>1, <2>2, NameTurn, Zenon
<1>5. out = Expected /\ stage # "done"
  BY <1>1, <1>4, Incomplete DEF NameInv, IsRecord, IsQuestion
<1>6. DnsTypeOK' /\ NameInv'
  BY <1>1, Zenon DEF DnsTypeOK, NameInv, nameVars
<1>7. stage = "question" => out = <<>>
  BY DEF SectionInv
<1>8. stage # "question" => qname = NameAt(msg, HeaderLen).labels
  BY <1>5 DEF SectionInv, DnsTypeOK
<1>9. SectionInv'
  BY <1>1, <1>5, <1>7, <1>8 DEF SectionInv, AnswersCorrect, Expected
<1>. QED
  BY <1>6, <1>9

(* The cursor after the name. *)
LEMMA NameRead ==
  ASSUME DnsInv, NameEnds
  PROVE  LET e == IF jumped THEN jumpedEnd ELSE pos + 1 IN
         /\ NameAt(msg, offset).ok /\ NameAt(msg, offset).labels = name
         /\ e = EndOf(msg, offset) /\ e \in Nat
<1>. USE DEF DnsInv
<1>1. inName /\ pos < Size(msg) /\ Byte(msg, pos) = 0
  BY DEF NameEnds
<1>2. msg \in Messages /\ pos \in Nat /\ jumps \in 0..MaxJumps /\ name \in Seq(Nat) /\ jumpedEnd \in Nat
  BY DEF DnsTypeOK
<1>. DEFINE j == MaxJumps - jumps
<1>3. j \in 0..MaxJumps
  BY <1>2, DnsConstants
<1>4. Rest.ok /\ Rest.labels = <<>> /\ Rest.end = pos + 1
  <2>. HIDE DEF j
  <2>1. Rest = Name(msg)[<<j, pos>>]
    BY DEF Rest, j
  <2>. QED
    BY <1>1, <1>2, <1>3, <2>1, NameTurn, Zenon
<1>5. name \o <<>> = name
  BY <1>2, Concat
<1>6. /\ NameAt(msg, offset).ok = Rest.ok
      /\ NameAt(msg, offset).labels = name \o Rest.labels
      /\ EndOf(msg, offset) = IF jumped THEN jumpedEnd ELSE Rest.end
  BY <1>1, <1>4, Zenon DEF NameInv, EndOf
<1>7. NameAt(msg, offset).ok
  BY <1>4, <1>6
<1>8. (IF jumped THEN jumpedEnd ELSE pos + 1) \in Nat
  BY <1>2
<1>. QED
  BY <1>4, <1>5, <1>6, <1>7, <1>8

(* A question is complete, or the answers end here. *)
LEMMA QuestionInv ==
  ASSUME DnsInv, NameEnds, NEW e \in Nat, e = EndOf(msg, offset), Question(e),
         NameAt(msg, offset).ok, NameAt(msg, offset).labels = name
  PROVE  SectionInv' /\ left' \in Nat /\ offset' \in Nat /\ stage' \in {"more", "answer", "done"}
<1>1. /\ msg \in Messages /\ msg.qdcount \in Nat /\ msg.ancount \in Nat /\ offset \in Nat /\ left \in Nat
      /\ QuestionLen \in Nat /\ Size(msg) \in Nat
  BY MessageTypes, DnsConstants DEF DnsInv, DnsTypeOK
<1>2. /\ stage \in {"question", "more"} /\ msg' = msg /\ out' = out
      /\ qname' = IF stage = "question" THEN name ELSE qname
  BY DEF Question, NameEnds
<1>3. qname' = NameAt(msg, HeaderLen).labels /\ msg.ancount > 0 /\ msg.response /\ msg.rcode = 0
  BY <1>2 DEF DnsInv, SectionInv
<1>4. /\ Count \in Nat /\ Count # 0 /\ out = <<>> /\ Expected = AnswersAfter(msg)[<<Count, offset>>]
  BY <1>2, CountIs
<1>5. Expected' = Expected
  BY <1>2 DEF Expected
<1>6. CASE e + QuestionLen > Size(msg)
  <2>1. stage' = "done" /\ left' = left /\ offset' = offset
    BY <1>6 DEF Question
  <2>2. out = Expected
    BY <1>1, <1>2, <1>6, Incomplete DEF IsQuestion
  <2>. QED
    BY <1>1, <1>2, <1>3, <1>4, <1>5, <2>1, <2>2 DEF SectionInv, AnswersCorrect, Expected
<1>7. CASE ~ (e + QuestionLen > Size(msg))
  <2>1. Advance(e + QuestionLen)
    BY <1>7 DEF Question
  <2>2. IsQuestion(msg, offset)
    BY <1>1, <1>7 DEF IsQuestion
  <2>3. Count - 1 \in Nat /\ e + QuestionLen \in Nat
    BY <1>1, <1>4
  <2>4. Expected = AnswersAfter(msg)[<<Count - 1, e + QuestionLen>>]
    BY <1>1, <1>4, <2>2, AnswersAfterDef, Zenon
  <2>. DEFINE l == IF stage = "question" THEN msg.qdcount ELSE left
              more == IF l > 1 THEN l - 1 ELSE 0
  <2>5. more = Count - 1
    BY <1>1, <1>2, <1>4 DEF Count, Questions
  <2>6. /\ offset' = e + QuestionLen
        /\ IF more > 0 THEN left' = more /\ stage' = "more"
           ELSE left' = msg.ancount /\ stage' = "answer"
    BY <1>2, <2>1 DEF Advance
  <2>. HIDE DEF more
  <2>7. CASE more > 0
    BY <1>2, <1>3, <1>4, <1>5, <2>3, <2>4, <2>5, <2>6, <2>7 DEF SectionInv, AnswersCorrect
  <2>8. CASE ~ (more > 0)
    <3>1. Count - 1 = 0
      BY <1>4, <2>5, <2>8
    <3>2. Expected = Addresses(msg)[<<msg.ancount, e + QuestionLen>>]
      BY <1>1, <2>3, <2>4, <3>1, AnswersAfterDef, Zenon
    <3>3. Addresses(msg)[<<msg.ancount, e + QuestionLen>>] \in Seq(Nat)
      BY <1>1, <2>3, AddressesDef, Zenon
    <3>4. Expected = <<>> \o Addresses(msg)[<<msg.ancount, e + QuestionLen>>]
      BY <3>2, <3>3, Concat
    <3>. QED
      BY <1>1, <1>2, <1>3, <1>4, <1>5, <2>3, <2>6, <2>8, <3>4 DEF SectionInv, AnswersCorrect
  <2>. QED
    BY <2>7, <2>8
<1>. QED
  BY <1>6, <1>7

(* A record is complete, or the answers end here. *)
LEMMA RecordInv ==
  ASSUME DnsInv, NameEnds, NEW e \in Nat, e = EndOf(msg, offset), Record(e),
         NameAt(msg, offset).ok
  PROVE  /\ SectionInv' /\ left' \in Nat /\ offset' \in Nat /\ out' \in Seq(Nat)
         /\ stage' \in {"answer", "done"}
<1>. DEFINE last == e + RecordLen - 1
            len == Byte(msg, last)
<1>1. /\ msg \in Messages /\ offset \in Nat /\ left \in Nat /\ out \in Seq(Nat)
      /\ RecordLen \in Nat /\ RecordLen >= 2 /\ Size(msg) \in Nat /\ last \in Nat
  BY MessageTypes, DnsConstants DEF DnsInv, DnsTypeOK
<1>2. stage = "answer" /\ msg' = msg /\ qname' = qname
  BY DEF Record, NameEnds
<1>3. /\ qname = NameAt(msg, HeaderLen).labels /\ msg.ancount > 0 /\ msg.response /\ msg.rcode = 0 /\ left > 0
      /\ Expected = out \o Addresses(msg)[<<left, offset>>]
  BY <1>2, Zenon DEF DnsInv, SectionInv
<1>4. Expected' = Expected
  BY <1>2 DEF Expected
<1>5. CASE e + RecordLen > Size(msg) \/ e + RecordLen + len > Size(msg)
  <2>1. stage' = "done" /\ left' = left /\ offset' = offset /\ out' = out
    BY <1>5 DEF Record
  <2>2. ~ IsRecord(msg, offset)
    <3>1. CASE e + RecordLen > Size(msg)
      BY <1>1, <3>1 DEF IsRecord
    <3>2. CASE ~ (e + RecordLen > Size(msg)) /\ e + RecordLen + len > Size(msg)
      <4>1. last < Size(msg)
        BY <1>1, <3>2
      <4>2. len \in Nat
        BY <1>1, <4>1, MessageTypes
      <4>. QED
        BY <1>1, <3>2, <4>2 DEF IsRecord
    <3>. QED
      BY <1>5, <3>1, <3>2
  <2>3. out = Expected
    BY <1>2, <2>2, Incomplete
  <2>. QED
    BY <1>1, <1>2, <1>3, <1>4, <2>1, <2>3, Zenon DEF SectionInv, AnswersCorrect, Expected
<1>6. CASE ~ (e + RecordLen > Size(msg) \/ e + RecordLen + len > Size(msg))
  <2>1. last < Size(msg)
    BY <1>1, <1>6
  <2>2. len \in Nat
    BY <1>1, <2>1, MessageTypes
  <2>3. IsRecord(msg, offset) /\ AfterRecord(msg, offset) = e + RecordLen + len
    BY <1>1, <1>6, <2>2 DEF IsRecord, AfterRecord
  <2>. DEFINE a == AddressOf(msg, offset)
              rest == Addresses(msg)[<<left - 1, e + RecordLen + len>>]
  <2>4. left - 1 \in Nat /\ e + RecordLen + len \in Nat
    BY <1>1, <1>3, <2>2
  <2>5. Addresses(msg)[<<left, offset>>] = a \o rest /\ rest \in Seq(Nat)
    <3>1. Addresses(msg)[<<left, offset>>] = AddressOf(msg, offset) \o Addresses(msg)[<<left - 1, AfterRecord(msg, offset)>>]
      <4>1. left # 0 /\ left \in Nat /\ offset \in Nat /\ msg \in Messages /\ IsRecord(msg, offset)
        BY <1>1, <1>3, <2>3
      <4>. QED
        BY ONLY <4>1, AddressesDef, Zenon
    <3>. QED
      BY <1>1, <2>3, <2>4, <3>1, AddressesDef, Zenon
  <2>6. out' = (IF (Byte(msg, e) = 1 /\ len = LenA) \/ (Byte(msg, e) = 2 /\ len = LenAAAA)
                THEN Append(out, e + RecordLen) ELSE out)
        /\ Advance(e + RecordLen + len)
    BY <1>6 DEF Record
  <2>7. out' \in Seq(Nat) /\ Expected = out' \o rest
    <3>. HIDE DEF rest, len
    <3>1. CASE (Byte(msg, e) = 1 /\ len = LenA) \/ (Byte(msg, e) = 2 /\ len = LenAAAA)
      <4>1. a = <<e + RecordLen>>
        BY <3>1 DEF AddressOf, len
      <4>2. out \in Seq(Nat) /\ rest \in Seq(Nat) /\ e + RecordLen \in Nat
        BY <1>1, <2>5
      <4>3. Append(out, e + RecordLen) \in Seq(Nat) /\ Append(out, e + RecordLen) \o rest = out \o (<<e + RecordLen>> \o rest)
        BY ONLY <4>2, Concat
      <4>. QED
        BY <1>3, <2>5, <2>6, <3>1, <4>1, <4>3, Zenon
    <3>2. CASE ~ ((Byte(msg, e) = 1 /\ len = LenA) \/ (Byte(msg, e) = 2 /\ len = LenAAAA))
      <4>1. a = <<>>
        BY <3>2 DEF AddressOf, len
      <4>2. <<>> \o rest = rest
        BY <2>5, Concat
      <4>. QED
        BY <1>1, <1>3, <2>5, <2>6, <3>2, <4>1, <4>2, Zenon
    <3>. QED
      BY <3>1, <3>2
  <2>. DEFINE more == IF left > 1 THEN left - 1 ELSE 0
  <2>8. /\ offset' = e + RecordLen + len /\ more = left - 1
        /\ IF more > 0 THEN left' = more /\ stage' = "answer"
           ELSE left' = 0 /\ stage' = "done"
    BY <1>1, <1>2, <1>3, <2>6 DEF Advance
  <2>. HIDE DEF more
  <2>9. CASE more > 0
    <3>1. rest = Addresses(msg)[<<left', offset'>>]
      BY <2>8, <2>9
    <3>. HIDE DEF rest
    <3>. QED
      BY <1>2, <1>3, <1>4, <2>4, <2>7, <2>8, <2>9, <3>1 DEF SectionInv,
             AnswersCorrect
  <2>10. CASE ~ (more > 0)
    <3>1. left - 1 = 0
      BY <1>1, <2>4, <2>8, <2>10
    <3>2. rest = <<>>
      BY <1>1, <2>4, <3>1, AddressesDef, Zenon
    <3>3. Expected = out'
      BY <2>7, <3>2, Concat
    <3>. QED
      BY <1>2, <1>3, <1>4, <2>4, <2>7, <2>8, <2>10, <3>3 DEF SectionInv,
             AnswersCorrect, Expected
  <2>. QED
    BY <2>9, <2>10
<1>. QED
  BY <1>5, <1>6

(* The name has been read: a question or a record follows. *)
LEMMA NameEndsInv == DnsInv /\ NameEnds => DnsInv'
<1>. SUFFICES ASSUME DnsInv, NameEnds PROVE DnsInv'
  OBVIOUS
<1>. DEFINE e == IF jumped THEN jumpedEnd ELSE pos + 1
<1>1. /\ NameAt(msg, offset).ok /\ NameAt(msg, offset).labels = name
      /\ e = EndOf(msg, offset) /\ e \in Nat
  BY NameRead
<1>2. /\ inName' = FALSE /\ UNCHANGED <<msg, from, nameVars>>
      /\ Question(e) \/ Record(e)
  BY DEF NameEnds
<1>3. NameInv'
  BY <1>2 DEF NameInv
<1>4. CASE Question(e)
  <2>. HIDE DEF e
  <2>1. SectionInv' /\ left' \in Nat /\ offset' \in Nat /\ stage' \in {"more", "answer", "done"}
    BY <1>1, <1>4, QuestionInv
  <2>2. qname' \in Seq(Nat) /\ out' = out
    BY <1>4 DEF Question, DnsInv, DnsTypeOK
  <2>3. DnsTypeOK'
    BY <1>2, <2>1, <2>2, Zenon DEF DnsInv, DnsTypeOK, nameVars
  <2>. QED
    BY <1>3, <2>1, <2>3 DEF DnsInv
<1>5. CASE Record(e)
  <2>. HIDE DEF e
  <2>1. /\ SectionInv' /\ left' \in Nat /\ offset' \in Nat /\ out' \in Seq(Nat)
        /\ stage' \in {"answer", "done"}
    BY <1>1, <1>5, RecordInv
  <2>2. qname' = qname
    BY <1>5 DEF Record
  <2>3. DnsTypeOK'
    BY <1>2, <2>1, <2>2, Zenon DEF DnsInv, DnsTypeOK, nameVars
  <2>. QED
    BY <1>3, <2>1, <2>3 DEF DnsInv
<1>. QED
  BY <1>2, <1>4, <1>5

(* What has been read, with what the references make of the rest of the    *)
(* message, is what they make of all of it, at every step.                 *)
LEMMA DnsInvHolds == DnsSpec => []DnsInv
<1>1. DnsInv /\ [DnsNext]_dnsVars => DnsInv'
  <2>. SUFFICES ASSUME DnsInv, [DnsNext]_dnsVars PROVE DnsInv'
    OBVIOUS
  <2>1. CASE UNCHANGED dnsVars
    <3>1. UNCHANGED <<msg, stage, left, offset, from, inName, pos, jumps, jumped, jumpedEnd, name, qname, out>>
      BY <2>1 DEF dnsVars, nameVars
    <3>2. DnsTypeOK'
      BY <3>1 DEF DnsInv, DnsTypeOK
    <3>3. NameInv'
      BY <3>1, Zenon DEF DnsInv, NameInv, Rest
    <3>4. SectionInv'
      BY <3>1, Zenon DEF DnsInv, SectionInv, Expected, AnswersCorrect
    <3>. QED
      BY <3>2, <3>3, <3>4 DEF DnsInv
  <2>. QED
    BY <2>1, BeginInv, NameEndsInv, JumpInv, LabelInv, NameFailsInv DEF DnsNext
<1>. QED
  BY <1>1, DnsInitInv, PTL DEF DnsSpec

(* parse_dns_answers returns the addresses of the complete A and AAAA      *)
(* records up to the first that is not, under the name of the first        *)
(* question, for every message, however its names are compressed           *)
(* (dns.rs:110-238).                                                       *)
THEOREM DnsAnswersCorrect == DnsSpec => []AnswersCorrect
<1>1. DnsInv => AnswersCorrect
  BY DEF DnsInv, SectionInv
<1>. QED
  BY <1>1, DnsInvHolds, PTL

(* Questions and records still to be read, the current one included, and   *)
(* the turns of parse_name it can still take.                              *)
Items ==
  IF stage = "done" THEN 0
  ELSE IF stage = "answer" THEN left
  ELSE Count + msg.ancount

Turns(m) == (MaxJumps + 1) * (Size(m) + 1)

Variant ==
  Items * (Turns(msg) + 2) +
    (IF stage = "done" THEN 0
     ELSE IF inName THEN Rank(msg, <<MaxJumps - jumps, pos>>) + 1
     ELSE Turns(msg) + 1)

(* Whatever the bytes are, every step of the parser makes Variant smaller: *)
(* the pointer loop guard and labels that only lead forward bound each     *)
(* name, and the counts of the header bound the names.                     *)
ParserAdvances == [][Variant' \in Nat /\ Variant' < Variant]_dnsVars

(* The parts of the variant are numbers. *)
LEMMA VariantParts ==
  DnsTypeOK =>
    /\ Items \in Nat /\ Turns(msg) \in Nat /\ Size(msg) \in Nat
    /\ inName => /\ Rank(msg, <<MaxJumps - jumps, pos>>) \in Nat
                 /\ Rank(msg, <<MaxJumps - jumps, pos>>) < Turns(msg)
<1>. HAVE DnsTypeOK
<1>1. /\ msg \in Messages /\ left \in Nat /\ pos \in Nat /\ jumps \in Nat /\ jumps <= MaxJumps
      /\ MaxJumps \in Nat /\ Size(msg) \in Nat /\ msg.qdcount \in Nat /\ msg.ancount \in Nat
  BY MessageTypes, DnsConstants DEF DnsTypeOK
<1>2. Items \in Nat
  BY <1>1 DEF Items, Count, Questions
<1>. DEFINE S == Size(msg) + 1
            j == MaxJumps - jumps
<1>3. S \in Nat /\ S > 0 /\ j \in Nat /\ j <= MaxJumps
  BY <1>1
<1>4. Turns(msg) = (MaxJumps + 1) * S
  BY DEF Turns
<1>. DEFINE ahead == IF pos <= Size(msg) THEN Size(msg) - pos ELSE 0
<1>5. Rank(msg, <<j, pos>>) = j * S + ahead
  BY DEF Rank
<1>6. ahead \in Nat /\ ahead < S
  BY <1>1
<1>. HIDE DEF S, j, ahead
<1>7. MaxJumps * S \in Nat /\ (MaxJumps + 1) * S \in Nat /\ j * S \in Nat /\ (MaxJumps + 1) * S = MaxJumps * S + S /\ j * S <= MaxJumps * S
  <2>1. (MaxJumps + 1) * S = MaxJumps * S + S
    BY <1>1, <1>3
  <2>2. MaxJumps * S \in Nat /\ j * S \in Nat
    BY <1>1, <1>3
  <2>3. j * S <= MaxJumps * S
    <3>1. (MaxJumps - j) * S \in Nat /\ MaxJumps * S = j * S + (MaxJumps - j) * S
      BY <1>1, <1>3
    <3>. QED
      BY <2>2, <3>1
  <2>. QED
    BY <1>3, <2>1, <2>2, <2>3
<1>8. Rank(msg, <<j, pos>>) \in Nat /\ Rank(msg, <<j, pos>>) < Turns(msg)
  BY <1>3, <1>4, <1>5, <1>6, <1>7
<1>. QED
  BY <1>1, <1>2, <1>4, <1>7, <1>8 DEF j

(* What is left of an item weighs less than an item. *)
LEMMA FewerItems ==
  ASSUME NEW n \in Nat, NEW k \in Nat, NEW w \in Nat, NEW r \in Nat, NEW s \in Nat,
         k < n, r < w, s > 0
  PROVE  k * w + r \in Nat /\ k * w + r < n * w + s
<1>1. n * w = k * w + (n - k) * w /\ k * w \in Nat
  OBVIOUS
<1>2. (n - k) * w = w + ((n - k) - 1) * w /\ ((n - k) - 1) * w \in Nat
  OBVIOUS
<1>3. k * w + r < k * w + w
  BY <1>1
<1>. QED
  BY <1>1, <1>2, <1>3

(* Every step of the parser uses up some of what bounds it, so it stops on *)
(* every message: pointers are limited in each name, labels lead forward,  *)
(* and the counts of the header bound the names (dns.rs:110-238).          *)
THEOREM DnsParserAdvances == DnsSpec => ParserAdvances
<1>1. DnsInv /\ DnsInv' /\ [DnsNext]_dnsVars => [Variant' \in Nat /\ Variant' < Variant]_dnsVars
  <2>. SUFFICES ASSUME DnsInv, DnsInv', DnsNext PROVE Variant' \in Nat /\ Variant' < Variant
    OBVIOUS
  <2>. DEFINE w == Turns(msg) + 2
              at == <<MaxJumps - jumps, pos>>
              in == IF stage = "done" THEN 0 ELSE IF inName THEN Rank(msg, at) + 1 ELSE Turns(msg) + 1
  <2>1. msg' = msg
    BY DEF DnsNext, Begin, Stop, NameEnds, Jump, Label, NameFails, Malformed
  <2>2. /\ Items \in Nat /\ Turns(msg) \in Nat /\ w \in Nat
        /\ inName => Rank(msg, at) \in Nat /\ Rank(msg, at) < Turns(msg)
    BY VariantParts DEF DnsInv
  <2>3. /\ Items' \in Nat /\ Turns(msg)' = Turns(msg)
        /\ inName' => Rank(msg, at)' \in Nat /\ Rank(msg, at)' < Turns(msg)
    <3>1. /\ Items' \in Nat /\ Turns(msg)' \in Nat
          /\ inName' => Rank(msg, at)' \in Nat /\ Rank(msg, at)' < Turns(msg)'
      <4>1. (DnsTypeOK => /\ Items \in Nat /\ Turns(msg) \in Nat
                          /\ inName => Rank(msg, at) \in Nat /\ Rank(msg, at) < Turns(msg))'
        BY VariantParts, PTL
      <4>. QED
        BY <4>1 DEF DnsInv
    <3>2. Turns(msg)' = Turns(msg)
      BY <2>1 DEF Turns, Size
    <3>. QED
      BY <3>1, <3>2
  <2>4. Variant = Items * w + in /\ Variant' = Items' * w + in'
    BY <2>3 DEF Variant
  <2>5. in \in Nat /\ in < w /\ (stage # "done" => in > 0) /\ in' \in Nat /\ in' < w
    BY <2>2, <2>3
  <2>6. ASSUME Items' < Items, stage # "done" PROVE Variant' \in Nat /\ Variant' < Variant
    <3>. HIDE DEF w, in
    <3>. QED
      BY <2>2, <2>3, <2>4, <2>5, <2>6, FewerItems, Zenon
  <2>7. ASSUME Items' = Items, in' < in PROVE Variant' \in Nat /\ Variant' < Variant
    <3>. HIDE DEF w, in
    <3>1. Items * w \in Nat
      BY <2>2
    <3>2. Variant' = Items * w + in'
      BY <2>4, <2>7
    <3>. QED
      BY ONLY <2>4, <2>5, <2>7, <3>1, <3>2
  <2>8. /\ msg \in Messages /\ left \in Nat /\ msg.qdcount \in Nat /\ msg.ancount \in Nat
        /\ stage \in {"question", "more", "answer", "done"}
        /\ stage # "done" => Items > 0
    <3>1. /\ msg \in Messages /\ left \in Nat /\ msg.qdcount \in Nat /\ msg.ancount \in Nat
          /\ stage \in {"question", "more", "answer", "done"}
      BY MessageTypes DEF DnsInv, DnsTypeOK
    <3>2. stage # "done" => Items > 0
      BY <3>1 DEF DnsInv, SectionInv, Items, Count, Questions
    <3>. QED
      BY <3>1, <3>2
  <2>9. CASE Begin
    <3>1. CASE stage # "question" /\ offset >= Size(msg)
      <4>1. stage # "done" /\ Items' = 0
        BY <2>9, <3>1 DEF Begin, Stop, Items
      <4>. QED
        BY <2>6, <2>8, <4>1
    <3>2. CASE ~ (stage # "question" /\ offset >= Size(msg))
      <4>1. /\ stage # "done" /\ ~ inName /\ inName' /\ UNCHANGED <<stage, left, msg>>
        BY <2>9, <3>2 DEF Begin
      <4>2. Items' = Items
        BY <4>1 DEF Items, Count
      <4>3. in = Turns(msg) + 1 /\ in' = Rank(msg, at)' + 1
        BY <4>1
      <4>. QED
        BY <2>2, <2>3, <2>7, <4>1, <4>2, <4>3
    <3>. QED
      BY <3>1, <3>2
  <2>10. CASE Jump \/ Label
    <3>1. /\ inName /\ inName' /\ stage # "done" /\ stage' # "done" /\ UNCHANGED <<stage, left, msg>>
      BY <2>10 DEF Jump, Label, DnsInv, NameInv
    <3>2. Items' = Items
      BY <3>1 DEF Items, Count
    <3>3. Rank(msg, at)' < Rank(msg, at)
      <4>1. /\ at \in Places /\ at[1] = MaxJumps - jumps /\ at[2] = pos /\ at[2] < Size(msg)
            /\ MaxJumps \in Nat /\ jumps \in Nat /\ pos \in Nat /\ Size(msg) \in Nat
        <5>1. /\ MaxJumps \in Nat /\ jumps \in 0..MaxJumps /\ pos \in Nat /\ Size(msg) \in Nat
          BY DnsConstants, MessageTypes DEF DnsInv, DnsTypeOK
        <5>2. pos < Size(msg)
          BY <2>10, <5>1 DEF Jump, Label
        <5>3. MaxJumps - jumps \in 0..MaxJumps
          BY <5>1
        <5>. QED
          BY <5>1, <5>2, <5>3 DEF Places
      <4>2. CASE Jump
        <5>1. at' = <<at[1] - 1, Byte(msg, at[2] + 1)>> /\ at[2] + 1 < Size(msg) /\ at[1] # 0
          BY <4>1, <4>2 DEF Jump
        <5>. HIDE DEF at
        <5>2. Rank(msg, at)' = Rank(msg, at')
          BY <2>1 DEF Rank, Size
        <5>. QED
          BY <2>8, <4>1, <5>1, <5>2, NameCalls, Zenon
      <4>3. CASE Label
        <5>1. at' = <<at[1], at[2] + 1 + Byte(msg, at[2])>> /\ LabelAt(msg, at[2])
          BY <4>1, <4>3 DEF Label
        <5>. HIDE DEF at
        <5>2. Rank(msg, at)' = Rank(msg, at')
          BY <2>1 DEF Rank, Size
        <5>. QED
          BY <2>8, <4>1, <5>1, <5>2, NameCalls, Zenon
      <4>. QED
        BY <2>10, <4>2, <4>3
    <3>4. in = Rank(msg, at) + 1 /\ in' = Rank(msg, at)' + 1
      BY <3>1
    <3>. QED
      BY <2>2, <2>3, <2>7, <3>1, <3>2, <3>3, <3>4
  <2>11. CASE NameFails
    <3>1. stage # "done" /\ Items' = 0
      BY <2>11 DEF NameFails, Malformed, DnsInv, NameInv, Items
    <3>. QED
      BY <2>6, <2>8, <3>1
  <2>12. CASE NameEnds
    <3>1. stage # "done"
      BY <2>12 DEF NameEnds, DnsInv, NameInv
    <3>2. Items' < Items
      <4>. DEFINE e == IF jumped THEN jumpedEnd ELSE pos + 1
      <4>1. Question(e) \/ Record(e)
        BY <2>12 DEF NameEnds
      <4>2. CASE stage' = "done"
        BY <2>8, <3>1, <4>2 DEF Items
      <4>3. CASE stage' # "done"
        <5>1. \E x : Advance(x)
          BY <4>1, <4>3 DEF Question, Record
        <5>2. left > 0 \/ stage = "question"
          BY <3>1, <2>8 DEF DnsInv, SectionInv
        <5>. QED
          BY <2>1, <2>8, <3>1, <4>3, <5>1, <5>2 DEF Advance, Items, Count, Questions
      <4>. QED
        BY <4>2, <4>3
    <3>. QED
      BY <2>6, <3>1, <3>2
  <2>. QED
    BY <2>9, <2>10, <2>11, <2>12 DEF DnsNext
<1>. QED
  BY <1>1, DnsInvHolds, PTL DEF DnsSpec, ParserAdvances
=============================================================================
