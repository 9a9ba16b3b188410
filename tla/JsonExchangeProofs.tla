------------------------- MODULE JsonExchangeProofs -------------------------
(****************************************************************************)
(* That the parser reads of every text the writer makes what was written,   *)
(* unless it is nested too deep, and accepts nothing that the writer would  *)
(* not make. The values, the writer and the parser are functions by         *)
(* recursion over the natural numbers: levels of nesting, items, passes of  *)
(* a loop. Each is first shown to satisfy its equation.                     *)
(****************************************************************************)
EXTENDS JsonExchange, SequenceTheorems, WellFoundedInduction, TLAPS

----------------------------------------------------------------------------
(* Induction, from the order of the natural numbers being well founded. *)

LEMMA NatOrder == IsWellFoundedOn({p \in Nat \X Nat : p[1] < p[2]}, Nat)
  BY NatLessThanWellFounded DEF OpToRel

(* A set of numbers with zero in it, and with each number the next, holds them all. *)
LEMMA SetInduction ==
  ASSUME NEW S \in SUBSET Nat, 0 \in S, \A n \in S : n + 1 \in S
  PROVE  S = Nat
<1>. DEFINE R == {p \in Nat \X Nat : p[1] < p[2]}
<1>. SUFFICES ASSUME Nat \ S # {} PROVE FALSE
  OBVIOUS
<1>1. IsWellFoundedOn(R, Nat)
  BY NatOrder
<1>2. PICK x \in Nat \ S : \A y \in Nat \ S : ~ (<<y, x>> \in R)
  <2>. HIDE DEF R
  <2>. QED BY <1>1, WFMin
<1>3. x # 0 /\ x - 1 \in Nat /\ x - 1 < x
  BY <1>2
<1>4. <<x - 1, x>> \in R
  BY <1>2, <1>3
<1>5. x - 1 \in S
  BY <1>2, <1>3, <1>4
<1>6. (x - 1) + 1 \in S
  BY <1>5
<1>. QED BY <1>2, <1>6

(* The values by their levels. *)
LEMMA ValuesRec == \A n \in Nat : Values[n] = ValuesOver(IF n = 0 THEN {} ELSE Values[n - 1])
<1>. DEFINE Step(n, f) == ValuesOver(IF n = 0 THEN {} ELSE f[n - 1])
            Upto(g, n) == g = [i \in 0..n |-> Step(i, g)]
            P(n) == \E g : Upto(g, n) /\ \A m \in Nat : \A h : m >= n /\ Upto(h, m) => \A i \in 0..n : h[i] = g[i]
            A(n) == CHOOSE g : Upto(g, n)
            F == [n \in Nat |-> A(n)[n]]
            S == {n \in Nat : P(n)}
<1>1. \A n \in Nat : \A f, g : n # 0 /\ f[n - 1] = g[n - 1] => Step(n, f) = Step(n, g)
  OBVIOUS
<1>2. \A f, g : Step(0, f) = Step(0, g)
  OBVIOUS
<1>. HIDE DEF Step
<1>3. P(0)
  <2>. DEFINE g == [i \in 0..0 |-> Step(0, <<>>)]
  <2>1. Upto(g, 0)
    BY <1>2
  <2>2. \A m \in Nat : \A h : m >= 0 /\ Upto(h, m) => h[0] = g[0]
    BY <1>2
  <2>. QED BY <2>1, <2>2
<1>4. ASSUME NEW n \in Nat, P(n) PROVE P(n + 1)
  <2>1. PICK g : Upto(g, n) /\ \A m \in Nat : \A h : m >= n /\ Upto(h, m) => \A i \in 0..n : h[i] = g[i]
    BY <1>4
  <2>. DEFINE k == [i \in 0..(n + 1) |-> IF i <= n THEN g[i] ELSE Step(n + 1, g)]
  <2>2. \A i \in 0..(n + 1) : k[i] = Step(i, k)
    BY <2>1, <1>1, <1>2
  <2>3. Upto(k, n + 1)
    BY <2>2
  <2>4. ASSUME NEW m \in Nat, NEW h, m >= n + 1, Upto(h, m) PROVE \A i \in 0..(n + 1) : h[i] = k[i]
    <3>1. \A i \in 0..n : h[i] = g[i]
      BY <2>1, <2>4
    <3>2. h[n + 1] = Step(n + 1, h)
      BY <2>4
    <3>3. h[n + 1] = k[n + 1]
      BY <3>1, <3>2, <1>1
    <3>. QED BY <3>1, <3>3
  <2>. HIDE DEF Upto, k
  <2>. QED BY <2>3, <2>4
<1>5. S = Nat
  <2>. HIDE DEF P
  <2>1. S \in SUBSET Nat /\ 0 \in S
    BY <1>3
  <2>2. \A n \in S : n + 1 \in S
    BY <1>4
  <2>. HIDE DEF S
  <2>. QED BY <2>1, <2>2, SetInduction
<1>6. ASSUME NEW n \in Nat PROVE F[n] = Step(n, F)
  <2>1. \A m \in Nat : Upto(A(m), m)
    BY <1>5
  <2>2. \A m \in Nat : F[m] = A(m)[m]
    OBVIOUS
  <2>. HIDE DEF F, A
  <2>3. A(n)[n] = Step(n, A(n))
    BY <2>1
  <2>4. CASE n = 0
    BY <2>2, <2>3, <2>4, <1>2
  <2>5. CASE n # 0
    <3>1. n - 1 \in Nat /\ n >= n - 1 /\ n - 1 \in 0..(n - 1)
      BY <2>5
    <3>2. PICK g : \A m \in Nat : \A h : m >= n - 1 /\ Upto(h, m) => \A i \in 0..(n - 1) : h[i] = g[i]
      BY <1>5, <3>1
    <3>3. A(n)[n - 1] = A(n - 1)[n - 1]
      <4>. HIDE DEF Upto
      <4>. QED BY <3>1, <3>2, <2>1
    <3>. QED BY <3>1, <3>3, <2>2, <2>3, <2>5, <1>1
  <2>. QED BY <2>4, <2>5
<1>7. F = [n \in Nat |-> Step(n, F)]
  BY <1>6
<1>8. Values = [n \in Nat |-> Step(n, Values)]
  <2>. HIDE DEF F
  <2>1. \E f : f = [n \in Nat |-> Step(n, f)]
    BY <1>7
  <2>. QED BY <2>1 DEF Values, Step
<1>. QED BY <1>8 DEF Step

(* What is written of them. *)
LEMMA WrittenRec == \A n \in Nat : Written[n] = [v \in Values[n] |-> TextOf(v, IF n = 0 THEN <<>> ELSE Written[n - 1])]
<1>. DEFINE Step(n, f) == [v \in Values[n] |-> TextOf(v, IF n = 0 THEN <<>> ELSE f[n - 1])]
            Upto(g, n) == g = [i \in 0..n |-> Step(i, g)]
            P(n) == \E g : Upto(g, n) /\ \A m \in Nat : \A h : m >= n /\ Upto(h, m) => \A i \in 0..n : h[i] = g[i]
            A(n) == CHOOSE g : Upto(g, n)
            F == [n \in Nat |-> A(n)[n]]
            S == {n \in Nat : P(n)}
<1>1. \A n \in Nat : \A f, g : n # 0 /\ f[n - 1] = g[n - 1] => Step(n, f) = Step(n, g)
  OBVIOUS
<1>2. \A f, g : Step(0, f) = Step(0, g)
  OBVIOUS
<1>. HIDE DEF Step
<1>3. P(0)
  <2>. DEFINE g == [i \in 0..0 |-> Step(0, <<>>)]
  <2>1. Upto(g, 0)
    BY <1>2
  <2>2. \A m \in Nat : \A h : m >= 0 /\ Upto(h, m) => h[0] = g[0]
    BY <1>2
  <2>. QED BY <2>1, <2>2
<1>4. ASSUME NEW n \in Nat, P(n) PROVE P(n + 1)
  <2>1. PICK g : Upto(g, n) /\ \A m \in Nat : \A h : m >= n /\ Upto(h, m) => \A i \in 0..n : h[i] = g[i]
    BY <1>4
  <2>. DEFINE k == [i \in 0..(n + 1) |-> IF i <= n THEN g[i] ELSE Step(n + 1, g)]
  <2>2. \A i \in 0..(n + 1) : k[i] = Step(i, k)
    BY <2>1, <1>1, <1>2
  <2>3. Upto(k, n + 1)
    BY <2>2
  <2>4. ASSUME NEW m \in Nat, NEW h, m >= n + 1, Upto(h, m) PROVE \A i \in 0..(n + 1) : h[i] = k[i]
    <3>1. \A i \in 0..n : h[i] = g[i]
      BY <2>1, <2>4
    <3>2. h[n + 1] = Step(n + 1, h)
      BY <2>4
    <3>3. h[n + 1] = k[n + 1]
      BY <3>1, <3>2, <1>1
    <3>. QED BY <3>1, <3>3
  <2>. HIDE DEF Upto, k
  <2>. QED BY <2>3, <2>4
<1>5. S = Nat
  <2>. HIDE DEF P
  <2>1. S \in SUBSET Nat /\ 0 \in S
    BY <1>3
  <2>2. \A n \in S : n + 1 \in S
    BY <1>4
  <2>. HIDE DEF S
  <2>. QED BY <2>1, <2>2, SetInduction
<1>6. ASSUME NEW n \in Nat PROVE F[n] = Step(n, F)
  <2>1. \A m \in Nat : Upto(A(m), m)
    BY <1>5
  <2>2. \A m \in Nat : F[m] = A(m)[m]
    OBVIOUS
  <2>. HIDE DEF F, A
  <2>3. A(n)[n] = Step(n, A(n))
    BY <2>1
  <2>4. CASE n = 0
    BY <2>2, <2>3, <2>4, <1>2
  <2>5. CASE n # 0
    <3>1. n - 1 \in Nat /\ n >= n - 1 /\ n - 1 \in 0..(n - 1)
      BY <2>5
    <3>2. PICK g : \A m \in Nat : \A h : m >= n - 1 /\ Upto(h, m) => \A i \in 0..(n - 1) : h[i] = g[i]
      BY <1>5, <3>1
    <3>3. A(n)[n - 1] = A(n - 1)[n - 1]
      <4>. HIDE DEF Upto
      <4>. QED BY <3>1, <3>2, <2>1
    <3>. QED BY <3>1, <3>3, <2>2, <2>3, <2>5, <1>1
  <2>. QED BY <2>4, <2>5
<1>7. F = [n \in Nat |-> Step(n, F)]
  BY <1>6
<1>8. Written = [n \in Nat |-> Step(n, Written)]
  <2>. HIDE DEF F
  <2>1. \E f : f = [n \in Nat |-> Step(n, f)]
    BY <1>7
  <2>. QED BY <2>1 DEF Written, Step
<1>. QED BY <1>8 DEF Step

(* What is read of what is written. *)
LEMMA AsReadRec == \A n \in Nat : AsRead[n] = [v \in Values[n] |-> ReadOf(v, IF n = 0 THEN <<>> ELSE AsRead[n - 1])]
<1>. DEFINE Step(n, f) == [v \in Values[n] |-> ReadOf(v, IF n = 0 THEN <<>> ELSE f[n - 1])]
            Upto(g, n) == g = [i \in 0..n |-> Step(i, g)]
            P(n) == \E g : Upto(g, n) /\ \A m \in Nat : \A h : m >= n /\ Upto(h, m) => \A i \in 0..n : h[i] = g[i]
            A(n) == CHOOSE g : Upto(g, n)
            F == [n \in Nat |-> A(n)[n]]
            S == {n \in Nat : P(n)}
<1>1. \A n \in Nat : \A f, g : n # 0 /\ f[n - 1] = g[n - 1] => Step(n, f) = Step(n, g)
  OBVIOUS
<1>2. \A f, g : Step(0, f) = Step(0, g)
  OBVIOUS
<1>. HIDE DEF Step
<1>3. P(0)
  <2>. DEFINE g == [i \in 0..0 |-> Step(0, <<>>)]
  <2>1. Upto(g, 0)
    BY <1>2
  <2>2. \A m \in Nat : \A h : m >= 0 /\ Upto(h, m) => h[0] = g[0]
    BY <1>2
  <2>. QED BY <2>1, <2>2
<1>4. ASSUME NEW n \in Nat, P(n) PROVE P(n + 1)
  <2>1. PICK g : Upto(g, n) /\ \A m \in Nat : \A h : m >= n /\ Upto(h, m) => \A i \in 0..n : h[i] = g[i]
    BY <1>4
  <2>. DEFINE k == [i \in 0..(n + 1) |-> IF i <= n THEN g[i] ELSE Step(n + 1, g)]
  <2>2. \A i \in 0..(n + 1) : k[i] = Step(i, k)
    BY <2>1, <1>1, <1>2
  <2>3. Upto(k, n + 1)
    BY <2>2
  <2>4. ASSUME NEW m \in Nat, NEW h, m >= n + 1, Upto(h, m) PROVE \A i \in 0..(n + 1) : h[i] = k[i]
    <3>1. \A i \in 0..n : h[i] = g[i]
      BY <2>1, <2>4
    <3>2. h[n + 1] = Step(n + 1, h)
      BY <2>4
    <3>3. h[n + 1] = k[n + 1]
      BY <3>1, <3>2, <1>1
    <3>. QED BY <3>1, <3>3
  <2>. HIDE DEF Upto, k
  <2>. QED BY <2>3, <2>4
<1>5. S = Nat
  <2>. HIDE DEF P
  <2>1. S \in SUBSET Nat /\ 0 \in S
    BY <1>3
  <2>2. \A n \in S : n + 1 \in S
    BY <1>4
  <2>. HIDE DEF S
  <2>. QED BY <2>1, <2>2, SetInduction
<1>6. ASSUME NEW n \in Nat PROVE F[n] = Step(n, F)
  <2>1. \A m \in Nat : Upto(A(m), m)
    BY <1>5
  <2>2. \A m \in Nat : F[m] = A(m)[m]
    OBVIOUS
  <2>. HIDE DEF F, A
  <2>3. A(n)[n] = Step(n, A(n))
    BY <2>1
  <2>4. CASE n = 0
    BY <2>2, <2>3, <2>4, <1>2
  <2>5. CASE n # 0
    <3>1. n - 1 \in Nat /\ n >= n - 1 /\ n - 1 \in 0..(n - 1)
      BY <2>5
    <3>2. PICK g : \A m \in Nat : \A h : m >= n - 1 /\ Upto(h, m) => \A i \in 0..(n - 1) : h[i] = g[i]
      BY <1>5, <3>1
    <3>3. A(n)[n - 1] = A(n - 1)[n - 1]
      <4>. HIDE DEF Upto
      <4>. QED BY <3>1, <3>2, <2>1
    <3>. QED BY <3>1, <3>3, <2>2, <2>3, <2>5, <1>1
  <2>. QED BY <2>4, <2>5
<1>7. F = [n \in Nat |-> Step(n, F)]
  BY <1>6
<1>8. AsRead = [n \in Nat |-> Step(n, AsRead)]
  <2>. HIDE DEF F
  <2>1. \E f : f = [n \in Nat |-> Step(n, f)]
    BY <1>7
  <2>. QED BY <2>1 DEF AsRead, Step
<1>. QED BY <1>8 DEF Step

(* The texts of a list one by one. *)
LEMMA JoinedRec == \A texts : \A n \in Nat : Joined(texts)[n] = IF n = 0 THEN <<>> ELSE Joined(texts)[n - 1] \o Separator(n) \o texts[n]
<1>. TAKE texts
<1>. DEFINE Step(n, f) == IF n = 0 THEN <<>> ELSE f[n - 1] \o Separator(n) \o texts[n]
            Upto(g, n) == g = [i \in 0..n |-> Step(i, g)]
            P(n) == \E g : Upto(g, n) /\ \A m \in Nat : \A h : m >= n /\ Upto(h, m) => \A i \in 0..n : h[i] = g[i]
            A(n) == CHOOSE g : Upto(g, n)
            F == [n \in Nat |-> A(n)[n]]
            S == {n \in Nat : P(n)}
<1>1. \A n \in Nat : \A f, g : n # 0 /\ f[n - 1] = g[n - 1] => Step(n, f) = Step(n, g)
  OBVIOUS
<1>2. \A f, g : Step(0, f) = Step(0, g)
  OBVIOUS
<1>. HIDE DEF Step
<1>3. P(0)
  <2>. DEFINE g == [i \in 0..0 |-> Step(0, <<>>)]
  <2>1. Upto(g, 0)
    BY <1>2
  <2>2. \A m \in Nat : \A h : m >= 0 /\ Upto(h, m) => h[0] = g[0]
    BY <1>2
  <2>. QED BY <2>1, <2>2
<1>4. ASSUME NEW n \in Nat, P(n) PROVE P(n + 1)
  <2>1. PICK g : Upto(g, n) /\ \A m \in Nat : \A h : m >= n /\ Upto(h, m) => \A i \in 0..n : h[i] = g[i]
    BY <1>4
  <2>. DEFINE k == [i \in 0..(n + 1) |-> IF i <= n THEN g[i] ELSE Step(n + 1, g)]
  <2>2. \A i \in 0..(n + 1) : k[i] = Step(i, k)
    BY <2>1, <1>1, <1>2
  <2>3. Upto(k, n + 1)
    BY <2>2
  <2>4. ASSUME NEW m \in Nat, NEW h, m >= n + 1, Upto(h, m) PROVE \A i \in 0..(n + 1) : h[i] = k[i]
    <3>1. \A i \in 0..n : h[i] = g[i]
      BY <2>1, <2>4
    <3>2. h[n + 1] = Step(n + 1, h)
      BY <2>4
    <3>3. h[n + 1] = k[n + 1]
      BY <3>1, <3>2, <1>1
    <3>. QED BY <3>1, <3>3
  <2>. HIDE DEF Upto, k
  <2>. QED BY <2>3, <2>4
<1>5. S = Nat
  <2>. HIDE DEF P
  <2>1. S \in SUBSET Nat /\ 0 \in S
    BY <1>3
  <2>2. \A n \in S : n + 1 \in S
    BY <1>4
  <2>. HIDE DEF S
  <2>. QED BY <2>1, <2>2, SetInduction
<1>6. ASSUME NEW n \in Nat PROVE F[n] = Step(n, F)
  <2>1. \A m \in Nat : Upto(A(m), m)
    BY <1>5
  <2>2. \A m \in Nat : F[m] = A(m)[m]
    OBVIOUS
  <2>. HIDE DEF F, A
  <2>3. A(n)[n] = Step(n, A(n))
    BY <2>1
  <2>4. CASE n = 0
    BY <2>2, <2>3, <2>4, <1>2
  <2>5. CASE n # 0
    <3>1. n - 1 \in Nat /\ n >= n - 1 /\ n - 1 \in 0..(n - 1)
      BY <2>5
    <3>2. PICK g : \A m \in Nat : \A h : m >= n - 1 /\ Upto(h, m) => \A i \in 0..(n - 1) : h[i] = g[i]
      BY <1>5, <3>1
    <3>3. A(n)[n - 1] = A(n - 1)[n - 1]
      <4>. HIDE DEF Upto
      <4>. QED BY <3>1, <3>2, <2>1
    <3>. QED BY <3>1, <3>3, <2>2, <2>3, <2>5, <1>1
  <2>. QED BY <2>4, <2>5
<1>7. F = [n \in Nat |-> Step(n, F)]
  BY <1>6
<1>8. Joined(texts) = [n \in Nat |-> Step(n, Joined(texts))]
  <2>. HIDE DEF F
  <2>1. \E f : f = [n \in Nat |-> Step(n, f)]
    BY <1>7
  <2>. QED BY <2>1 DEF Joined, Step
<1>. QED BY <1>8 DEF Step

(* The passes of the loop over a list. *)
LEMMA PassesRec == \A txt, inner, closing, start : \A n \in Nat : Passes(txt, inner, closing, start)[n] = IF n = 0 THEN start
                          ELSE IF Ended(txt, closing, Passes(txt, inner, closing, start)[n - 1]) THEN Passes(txt, inner, closing, start)[n - 1]
                          ELSE Pass(txt, inner, closing, Passes(txt, inner, closing, start)[n - 1])
<1>. TAKE txt, inner, closing, start
<1>. DEFINE Step(n, f) == IF n = 0 THEN start
                          ELSE IF Ended(txt, closing, f[n - 1]) THEN f[n - 1]
                          ELSE Pass(txt, inner, closing, f[n - 1])
            Upto(g, n) == g = [i \in 0..n |-> Step(i, g)]
            P(n) == \E g : Upto(g, n) /\ \A m \in Nat : \A h : m >= n /\ Upto(h, m) => \A i \in 0..n : h[i] = g[i]
            A(n) == CHOOSE g : Upto(g, n)
            F == [n \in Nat |-> A(n)[n]]
            S == {n \in Nat : P(n)}
<1>1. \A n \in Nat : \A f, g : n # 0 /\ f[n - 1] = g[n - 1] => Step(n, f) = Step(n, g)
  OBVIOUS
<1>2. \A f, g : Step(0, f) = Step(0, g)
  OBVIOUS
<1>. HIDE DEF Step
<1>3. P(0)
  <2>. DEFINE g == [i \in 0..0 |-> Step(0, <<>>)]
  <2>1. Upto(g, 0)
    BY <1>2
  <2>2. \A m \in Nat : \A h : m >= 0 /\ Upto(h, m) => h[0] = g[0]
    BY <1>2
  <2>. QED BY <2>1, <2>2
<1>4. ASSUME NEW n \in Nat, P(n) PROVE P(n + 1)
  <2>1. PICK g : Upto(g, n) /\ \A m \in Nat : \A h : m >= n /\ Upto(h, m) => \A i \in 0..n : h[i] = g[i]
    BY <1>4
  <2>. DEFINE k == [i \in 0..(n + 1) |-> IF i <= n THEN g[i] ELSE Step(n + 1, g)]
  <2>2. \A i \in 0..(n + 1) : k[i] = Step(i, k)
    BY <2>1, <1>1, <1>2
  <2>3. Upto(k, n + 1)
    BY <2>2
  <2>4. ASSUME NEW m \in Nat, NEW h, m >= n + 1, Upto(h, m) PROVE \A i \in 0..(n + 1) : h[i] = k[i]
    <3>1. \A i \in 0..n : h[i] = g[i]
      BY <2>1, <2>4
    <3>2. h[n + 1] = Step(n + 1, h)
      BY <2>4
    <3>3. h[n + 1] = k[n + 1]
      BY <3>1, <3>2, <1>1
    <3>. QED BY <3>1, <3>3
  <2>. HIDE DEF Upto, k
  <2>. QED BY <2>3, <2>4
<1>5. S = Nat
  <2>. HIDE DEF P
  <2>1. S \in SUBSET Nat /\ 0 \in S
    BY <1>3
  <2>2. \A n \in S : n + 1 \in S
    BY <1>4
  <2>. HIDE DEF S
  <2>. QED BY <2>1, <2>2, SetInduction
<1>6. ASSUME NEW n \in Nat PROVE F[n] = Step(n, F)
  <2>1. \A m \in Nat : Upto(A(m), m)
    BY <1>5
  <2>2. \A m \in Nat : F[m] = A(m)[m]
    OBVIOUS
  <2>. HIDE DEF F, A
  <2>3. A(n)[n] = Step(n, A(n))
    BY <2>1
  <2>4. CASE n = 0
    BY <2>2, <2>3, <2>4, <1>2
  <2>5. CASE n # 0
    <3>1. n - 1 \in Nat /\ n >= n - 1 /\ n - 1 \in 0..(n - 1)
      BY <2>5
    <3>2. PICK g : \A m \in Nat : \A h : m >= n - 1 /\ Upto(h, m) => \A i \in 0..(n - 1) : h[i] = g[i]
      BY <1>5, <3>1
    <3>3. A(n)[n - 1] = A(n - 1)[n - 1]
      <4>. HIDE DEF Upto
      <4>. QED BY <3>1, <3>2, <2>1
    <3>. QED BY <3>1, <3>3, <2>2, <2>3, <2>5, <1>1
  <2>. QED BY <2>4, <2>5
<1>7. F = [n \in Nat |-> Step(n, F)]
  BY <1>6
<1>8. Passes(txt, inner, closing, start) = [n \in Nat |-> Step(n, Passes(txt, inner, closing, start))]
  <2>. HIDE DEF F
  <2>1. \E f : f = [n \in Nat |-> Step(n, f)]
    BY <1>7
  <2>. QED BY <2>1 DEF Passes, Step
<1>. QED BY <1>8 DEF Step

(* What is read by the levels that are left. *)
LEMMA BuilderRec == \A txt : \A n \in Nat : Builder(txt)[n] = [at \in 1..(Len(txt) + 1) |->
              BuildValue(txt, IF n = 0 THEN <<>> ELSE Builder(txt)[n - 1], StackLimit + 1 - n, at)]
<1>. TAKE txt
<1>. DEFINE Step(n, f) == [at \in 1..(Len(txt) + 1) |->
              BuildValue(txt, IF n = 0 THEN <<>> ELSE f[n - 1], StackLimit + 1 - n, at)]
            Upto(g, n) == g = [i \in 0..n |-> Step(i, g)]
            P(n) == \E g : Upto(g, n) /\ \A m \in Nat : \A h : m >= n /\ Upto(h, m) => \A i \in 0..n : h[i] = g[i]
            A(n) == CHOOSE g : Upto(g, n)
            F == [n \in Nat |-> A(n)[n]]
            S == {n \in Nat : P(n)}
<1>1. \A n \in Nat : \A f, g : n # 0 /\ f[n - 1] = g[n - 1] => Step(n, f) = Step(n, g)
  OBVIOUS
<1>2. \A f, g : Step(0, f) = Step(0, g)
  OBVIOUS
<1>. HIDE DEF Step
<1>3. P(0)
  <2>. DEFINE g == [i \in 0..0 |-> Step(0, <<>>)]
  <2>1. Upto(g, 0)
    BY <1>2
  <2>2. \A m \in Nat : \A h : m >= 0 /\ Upto(h, m) => h[0] = g[0]
    BY <1>2
  <2>. QED BY <2>1, <2>2
<1>4. ASSUME NEW n \in Nat, P(n) PROVE P(n + 1)
  <2>1. PICK g : Upto(g, n) /\ \A m \in Nat : \A h : m >= n /\ Upto(h, m) => \A i \in 0..n : h[i] = g[i]
    BY <1>4
  <2>. DEFINE k == [i \in 0..(n + 1) |-> IF i <= n THEN g[i] ELSE Step(n + 1, g)]
  <2>2. \A i \in 0..(n + 1) : k[i] = Step(i, k)
    BY <2>1, <1>1, <1>2
  <2>3. Upto(k, n + 1)
    BY <2>2
  <2>4. ASSUME NEW m \in Nat, NEW h, m >= n + 1, Upto(h, m) PROVE \A i \in 0..(n + 1) : h[i] = k[i]
    <3>1. \A i \in 0..n : h[i] = g[i]
      BY <2>1, <2>4
    <3>2. h[n + 1] = Step(n + 1, h)
      BY <2>4
    <3>3. h[n + 1] = k[n + 1]
      BY <3>1, <3>2, <1>1
    <3>. QED BY <3>1, <3>3
  <2>. HIDE DEF Upto, k
  <2>. QED BY <2>3, <2>4
<1>5. S = Nat
  <2>. HIDE DEF P
  <2>1. S \in SUBSET Nat /\ 0 \in S
    BY <1>3
  <2>2. \A n \in S : n + 1 \in S
    BY <1>4
  <2>. HIDE DEF S
  <2>. QED BY <2>1, <2>2, SetInduction
<1>6. ASSUME NEW n \in Nat PROVE F[n] = Step(n, F)
  <2>1. \A m \in Nat : Upto(A(m), m)
    BY <1>5
  <2>2. \A m \in Nat : F[m] = A(m)[m]
    OBVIOUS
  <2>. HIDE DEF F, A
  <2>3. A(n)[n] = Step(n, A(n))
    BY <2>1
  <2>4. CASE n = 0
    BY <2>2, <2>3, <2>4, <1>2
  <2>5. CASE n # 0
    <3>1. n - 1 \in Nat /\ n >= n - 1 /\ n - 1 \in 0..(n - 1)
      BY <2>5
    <3>2. PICK g : \A m \in Nat : \A h : m >= n - 1 /\ Upto(h, m) => \A i \in 0..(n - 1) : h[i] = g[i]
      BY <1>5, <3>1
    <3>3. A(n)[n - 1] = A(n - 1)[n - 1]
      <4>. HIDE DEF Upto
      <4>. QED BY <3>1, <3>2, <2>1
    <3>. QED BY <3>1, <3>3, <2>2, <2>3, <2>5, <1>1
  <2>. QED BY <2>4, <2>5
<1>7. F = [n \in Nat |-> Step(n, F)]
  BY <1>6
<1>8. Builder(txt) = [n \in Nat |-> Step(n, Builder(txt))]
  <2>. HIDE DEF F
  <2>1. \E f : f = [n \in Nat |-> Step(n, f)]
    BY <1>7
  <2>. QED BY <2>1 DEF Builder, Step
<1>. QED BY <1>8 DEF Step

----------------------------------------------------------------------------
(* What is nested in the values of a level, the texts of it and what is read of them. *)

Below(n) == IF n = 0 THEN {} ELSE Values[n - 1]
TextBelow(n) == IF n = 0 THEN <<>> ELSE Written[n - 1]
ReadBelow(n) == IF n = 0 THEN <<>> ELSE AsRead[n - 1]

LEMMA Levels ==
  ASSUME NEW n \in Nat
  PROVE  /\ Values[n] = ValuesOver(Below(n))
         /\ Written[n] = [v \in Values[n] |-> TextOf(v, TextBelow(n))]
         /\ AsRead[n] = [v \in Values[n] |-> ReadOf(v, ReadBelow(n))]
<1>1. Values[n] = ValuesOver(Below(n))
  BY ValuesRec DEF Below
<1>2. Written[n] = [v \in Values[n] |-> TextOf(v, TextBelow(n))]
  BY WrittenRec DEF TextBelow
<1>3. AsRead[n] = [v \in Values[n] |-> ReadOf(v, ReadBelow(n))]
  BY AsReadRec DEF ReadBelow
<1>. QED BY <1>1, <1>2, <1>3

LEMMA NothingBelowZero == Below(0) = {} /\ \A n \in Nat : n # 0 => n - 1 \in Nat /\ Below(n) = Values[n - 1] /\ TextBelow(n) = Written[n - 1] /\ ReadBelow(n) = AsRead[n - 1]
  BY DEF Below, TextBelow, ReadBelow

(* A value is a scalar or a list of what is nested in it. *)
Distinct(entries) == \A i, j \in DOMAIN entries : entries[i].key = entries[j].key => i = j

LEMMA ValueForms ==
  ASSUME NEW V, NEW v \in ValuesOver(V)
  PROVE  \/ v \in Scalars
         \/ \E items \in Seq(V) : v = JArray(items)
         \/ \E entries \in Seq([key : STRING, value : V]) : v = JObject(entries) /\ Distinct(entries)
<1>1. CASE v \in Arrays(V)
  <2>1. v.items \in Seq(V) /\ v = JArray(v.items)
    BY <1>1 DEF Arrays, JArray
  <2>. QED BY <2>1
<1>2. CASE v \in Objects(V)
  <2>1. v.entries \in Seq([key : STRING, value : V]) /\ v = JObject(v.entries) /\ Distinct(v.entries)
    BY <1>2 DEF Objects, JObject, Distinct
  <2>. QED BY <2>1
<1>. QED BY <1>1, <1>2 DEF ValuesOver

LEMMA FormsAreValues ==
  ASSUME NEW V
  PROVE  /\ Scalars \subseteq ValuesOver(V)
         /\ \A items : JArray(items) \in ValuesOver(V) <=> items \in Seq(V)
         /\ \A entries : JObject(entries) \in ValuesOver(V)
                           <=> entries \in Seq([key : STRING, value : V]) /\ Distinct(entries)
<1>1. ASSUME NEW items PROVE JArray(items) \in ValuesOver(V) <=> items \in Seq(V)
  <2>1. JArray(items) \notin Scalars /\ JArray(items) \notin Objects(V)
    BY DEF JArray, Scalars, Objects, JNull
  <2>2. JArray(items) \in Arrays(V) <=> items \in Seq(V)
    BY DEF JArray, Arrays
  <2>. QED BY <2>1, <2>2 DEF ValuesOver
<1>2. ASSUME NEW entries
      PROVE  JObject(entries) \in ValuesOver(V) <=> entries \in Seq([key : STRING, value : V]) /\ Distinct(entries)
  <2>1. JObject(entries) \notin Scalars /\ JObject(entries) \notin Arrays(V)
    BY DEF JObject, Scalars, Arrays, JNull
  <2>2. JObject(entries) \in Objects(V) <=> entries \in Seq([key : STRING, value : V]) /\ Distinct(entries)
    BY DEF JObject, Objects, Distinct
  <2>. QED BY <2>1, <2>2 DEF ValuesOver
<1>. QED BY <1>1, <1>2 DEF ValuesOver

LEMMA ValuesArePresent ==
  ASSUME NEW V, NEW v \in ValuesOver(V)
  PROVE  v # Absent
  BY DEF ValuesOver, Scalars, Arrays, Objects, Absent, JNull

----------------------------------------------------------------------------
(* The texts. *)

Closers == {"ArrayEnd", "ObjectEnd", "ListSeparator", "ObjectPairSeparator"}
Phrases == {p \in Seq(Tokens) : p # <<>> /\ p[1].tok \notin Closers}

LEMMA TokenTypes ==
  /\ \A k \in {"NullToken", "BoolTrue", "BoolFalse", "ArrayBegin", "ArrayEnd", "ObjectBegin", "ObjectEnd", "ListSeparator", "ObjectPairSeparator"} :
        Token(k) = <<[tok |-> k]>> /\ [tok |-> k] \in Tokens
  /\ \A s \in STRING : StringToken(s) = <<[tok |-> "StringLiteral", string |-> s]>> /\ [tok |-> "StringLiteral", string |-> s] \in Tokens
  /\ \A x \in Numbers : NumberToken(x) = <<[tok |-> "Number", number |-> x]>> /\ [tok |-> "Number", number |-> x] \in Tokens
  BY DEF Token, StringToken, NumberToken, Tokens

LEMMA OneToken == \A k \in Tokens : <<k>> \in Seq(Tokens) /\ Len(<<k>>) = 1 /\ <<k>>[1] = k /\ <<k>> # <<>>
  OBVIOUS

(* The token of a scalar, and what is read where it stands. *)
LEMMA ScalarText ==
  ASSUME NEW v \in Scalars, NEW w
  PROVE  \E k \in Tokens :
           /\ TextOf(v, w) = <<k>> /\ k.tok \notin Closers
           /\ \A txt, at, inner, depth, r :
                at \in DOMAIN txt /\ txt[at] = k /\ ~TooDeep(depth)
                  => BuildValue(txt, inner, depth, at) = Read(ReadOf(v, r), at + 1)
<1>. DEFINE Stands(k) == \A txt, at, inner, depth, r :
                at \in DOMAIN txt /\ txt[at] = k /\ ~TooDeep(depth)
                  => BuildValue(txt, inner, depth, at) = Read(ReadOf(v, r), at + 1)
<1>1. CASE v = JNull
  <2>. DEFINE k == [tok |-> "NullToken"]
  <2>1. k \in Tokens /\ TextOf(v, w) = <<k>> /\ k.tok \notin Closers
    BY <1>1, TokenTypes DEF TextOf, JNull, Closers
  <2>2. Stands(k)
    BY <1>1 DEF BuildValue, Tok, ReadOf, JNull, Read
  <2>. QED BY <2>1, <2>2
<1>2. CASE v \in [t : {"bool"}, bool : BOOLEAN]
  <2>. DEFINE k == [tok |-> IF v.bool THEN "BoolTrue" ELSE "BoolFalse"]
  <2>1. k \in Tokens /\ TextOf(v, w) = <<k>> /\ k.tok \notin Closers
    BY <1>2, TokenTypes DEF TextOf, Closers
  <2>2. Stands(k)
    <3>1. v.bool \in BOOLEAN /\ v = [t |-> "bool", bool |-> v.bool]
      BY <1>2
    <3>2. v.t = "bool" /\ ((k = [tok |-> "BoolTrue"] /\ v = JBool(TRUE)) \/ (k = [tok |-> "BoolFalse"] /\ v = JBool(FALSE)))
      BY <3>1 DEF JBool
    <3>3. \A r : ReadOf(v, r) = v
      BY <3>2 DEF ReadOf
    <3>. HIDE DEF k
    <3>a. ASSUME NEW txt, NEW at, NEW inner, NEW depth, NEW r, at \in DOMAIN txt, txt[at] = k, ~TooDeep(depth)
          PROVE  BuildValue(txt, inner, depth, at) = Read(ReadOf(v, r), at + 1)
      <4>1. Tok(txt, at) = k.tok /\ ReadOf(v, r) = v
        BY <3>3, <3>a DEF Tok
      <4>2. CASE k = [tok |-> "BoolTrue"] /\ v = JBool(TRUE)
        BY <4>1, <4>2, <3>a DEF BuildValue
      <4>3. CASE k = [tok |-> "BoolFalse"] /\ v = JBool(FALSE)
        BY <4>1, <4>3, <3>a DEF BuildValue
      <4>. QED BY <3>2, <4>2, <4>3
    <3>. QED BY <3>a
  <2>. QED BY <2>1, <2>2
<1>3. CASE v \in [t : {"int"}, int : Int]
  <2>. DEFINE k == [tok |-> "Number", number |-> v]
  <2>1. k \in Tokens /\ TextOf(v, w) = <<k>> /\ k.tok \notin Closers
    BY <1>3, TokenTypes DEF TextOf, Closers, Numbers
  <2>2. Stands(k)
    BY <1>3 DEF BuildValue, Tok, ReadOf, Number, Read
  <2>. QED BY <2>1, <2>2
<1>4. CASE v \in [t : {"double"}, double : Doubles] /\ v.double \in NonFinite
  <2>. DEFINE k == [tok |-> "NullToken"]
  <2>1. k \in Tokens /\ TextOf(v, w) = <<k>> /\ k.tok \notin Closers
    BY <1>4, TokenTypes DEF TextOf, Closers
  <2>2. Stands(k)
    BY <1>4 DEF BuildValue, Tok, ReadOf, Read
  <2>. QED BY <2>1, <2>2
<1>5. CASE v \in [t : {"double"}, double : Doubles] /\ v.double \notin NonFinite
  <2>. DEFINE k == [tok |-> "Number", number |-> v]
  <2>1. k \in Tokens /\ TextOf(v, w) = <<k>> /\ k.tok \notin Closers
    BY <1>5, TokenTypes DEF TextOf, Closers, Numbers, NonFinite
  <2>2. Stands(k)
    BY <1>5 DEF BuildValue, Tok, ReadOf, Read
  <2>. QED BY <2>1, <2>2
<1>6. CASE v \in [t : {"string"}, string : STRING]
  <2>. DEFINE k == [tok |-> "StringLiteral", string |-> v.string]
  <2>1. k \in Tokens /\ TextOf(v, w) = <<k>> /\ k.tok \notin Closers
    BY <1>6, TokenTypes DEF TextOf, Closers
  <2>2. Stands(k)
    BY <1>6 DEF BuildValue, Tok, ReadOf, Read, JString
  <2>. QED BY <2>1, <2>2
<1>. QED BY <1>1, <1>2, <1>3, <1>4, <1>5, <1>6 DEF Scalars

LEMMA JoinedSteps ==
  ASSUME NEW texts
  PROVE  /\ Joined(texts)[0] = <<>>
         /\ \A n \in Nat : Joined(texts)[n + 1] = Joined(texts)[n] \o Separator(n + 1) \o texts[n + 1]
<1>1. \A n \in Nat : n + 1 \in Nat /\ n + 1 # 0 /\ (n + 1) - 1 = n
  OBVIOUS
<1>2. Joined(texts)[0] = <<>>
  BY JoinedRec
<1>3. ASSUME NEW n \in Nat
      PROVE  Joined(texts)[n + 1] = Joined(texts)[n] \o Separator(n + 1) \o texts[n + 1]
  BY JoinedRec, <1>1
<1>. QED BY <1>2, <1>3

LEMMA SeparatorText ==
  /\ Separator(1) = <<>>
  /\ \A n \in Nat : Separator(n) \in Seq(Tokens) /\ (n > 1 => Separator(n) = <<[tok |-> "ListSeparator"]>>)
<1>1. Token("ListSeparator") = <<[tok |-> "ListSeparator"]>> /\ Token("ListSeparator") \in Seq(Tokens)
  BY TokenTypes, OneToken
<1>2. <<>> \in Seq(Tokens)
  BY EmptySeq
<1>. QED BY <1>1, <1>2 DEF Separator

LEMMA JoinedType ==
  ASSUME NEW texts \in Seq(Phrases)
  PROVE  \A n \in 0..Len(texts) : Joined(texts)[n] \in Seq(Tokens) /\ Len(Joined(texts)[n]) >= n
<1>. DEFINE S == {n \in Nat : n <= Len(texts) => Joined(texts)[n] \in Seq(Tokens) /\ Len(Joined(texts)[n]) >= n}
<1>1. 0 \in S
  <2>1. <<>> \in Seq(Tokens) /\ Len(<<>>) >= 0
    BY EmptySeq
  <2>. QED BY <2>1, JoinedSteps
<1>2. ASSUME NEW n \in S PROVE n + 1 \in S
  <2>. SUFFICES ASSUME n + 1 <= Len(texts)
                PROVE  Joined(texts)[n + 1] \in Seq(Tokens) /\ Len(Joined(texts)[n + 1]) >= n + 1
    OBVIOUS
  <2>1. Joined(texts)[n] \in Seq(Tokens) /\ Len(Joined(texts)[n]) >= n
    OBVIOUS
  <2>2. texts[n + 1] \in Seq(Tokens) /\ texts[n + 1] # <<>>
    BY DEF Phrases
  <2>. DEFINE comma == Separator(n + 1)
  <2>3. comma \in Seq(Tokens)
    BY SeparatorText
  <2>4. Joined(texts)[n + 1] = Joined(texts)[n] \o comma \o texts[n + 1]
    BY JoinedSteps
  <2>. DEFINE head == Joined(texts)[n]
              last == texts[n + 1]
  <2>5. head \in Seq(Tokens) /\ Len(head) >= n /\ last \in Seq(Tokens) /\ Len(last) >= 1
    BY <2>1, <2>2, EmptySeq
  <2>6. Joined(texts)[n + 1] = head \o comma \o last
    BY <2>4
  <2>. HIDE DEF comma, head, last
  <2>7. head \o comma \in Seq(Tokens) /\ Len(head \o comma) = Len(head) + Len(comma) /\ Len(comma) \in Nat
    BY <2>3, <2>5, ConcatProperties, LenProperties
  <2>8. (head \o comma) \o last \in Seq(Tokens) /\ Len((head \o comma) \o last) = Len(head) + Len(comma) + Len(last)
    BY <2>5, <2>7, ConcatProperties
  <2>. QED BY <2>5, <2>6, <2>7, <2>8
<1>3. S \in SUBSET Nat
  OBVIOUS
<1>4. S = Nat
  <2>. HIDE DEF S
  <2>. QED BY <1>1, <1>2, <1>3, SetInduction
<1>. QED BY <1>4

LEMMA EntryPhrase ==
  ASSUME NEW key \in STRING, NEW rest \in Phrases
  PROVE  StringToken(key) \o Token("ObjectPairSeparator") \o rest \in Phrases
<1>. DEFINE s == [tok |-> "StringLiteral", string |-> key]
            c == [tok |-> "ObjectPairSeparator"]
<1>1. StringToken(key) = <<s>> /\ Token("ObjectPairSeparator") = <<c>> /\ s \in Tokens /\ c \in Tokens /\ s.tok = "StringLiteral"
  BY TokenTypes
<1>. HIDE DEF s, c
<1>2. rest \in Seq(Tokens)
  BY DEF Phrases
<1>3. <<s>> \o <<c>> \o rest \in Seq(Tokens) /\ <<s>> \o <<c>> \o rest # <<>> /\ (<<s>> \o <<c>> \o rest)[1] = s
  BY <1>1, <1>2
<1>. QED BY <1>1, <1>3 DEF Phrases, Closers

(* Every value of a level has a text, if what is nested in it has. *)
LEMMA TextOfType ==
  ASSUME NEW V, NEW w, \A u \in V : w[u] \in Phrases, NEW v \in ValuesOver(V)
  PROVE  /\ TextOf(v, w) \in Phrases
         /\ \A items \in Seq(V) : ItemTexts(items, w) \in Seq(Phrases)
         /\ \A entries \in Seq([key : STRING, value : V]) : EntryTexts(entries, w) \in Seq(Phrases)
<1>1. ASSUME NEW items \in Seq(V) PROVE ItemTexts(items, w) \in Seq(Phrases)
  BY DEF ItemTexts
<1>2. ASSUME NEW entries \in Seq([key : STRING, value : V]) PROVE EntryTexts(entries, w) \in Seq(Phrases)
  <2>1. ASSUME NEW i \in DOMAIN entries
        PROVE  StringToken(entries[i].key) \o Token("ObjectPairSeparator") \o w[entries[i].value] \in Phrases
    <3>0. entries[i] \in [key : STRING, value : V]
      BY ElementOfSeq, LenProperties
    <3>1. entries[i].key \in STRING /\ w[entries[i].value] \in Phrases
      BY <3>0
    <3>. QED BY <3>1, EntryPhrase
  <2>. DEFINE e(i) == StringToken(entries[i].key) \o Token("ObjectPairSeparator") \o w[entries[i].value]
  <2>. HIDE DEF e
  <2>2. DOMAIN entries = 1..Len(entries) /\ Len(entries) \in Nat
    BY LenProperties
  <2>3. [i \in 1..Len(entries) |-> e(i)] \in Seq(Phrases)
    BY <2>1, <2>2 DEF e
  <2>. QED BY <2>2, <2>3 DEF EntryTexts, e
<1>3. ASSUME NEW open \in {"ArrayBegin", "ObjectBegin"}, NEW close \in {"ArrayEnd", "ObjectEnd"}, NEW texts \in Seq(Phrases)
      PROVE  Token(open) \o Separated(texts) \o Token(close) \in Phrases
  <2>. DEFINE a == [tok |-> open]
              b == [tok |-> close]
              m == Separated(texts)
  <2>1. Token(open) = <<a>> /\ Token(close) = <<b>> /\ a \in Tokens /\ b \in Tokens /\ a.tok \notin Closers
    BY TokenTypes DEF Closers
  <2>2. m \in Seq(Tokens)
    <3>1. Len(texts) \in 0..Len(texts)
      <4>1. Len(texts) \in Nat
        BY LenProperties
      <4>. QED BY <4>1
    <3>. QED BY <3>1, JoinedType DEF Separated
  <2>. HIDE DEF a, b, m
  <2>3. <<a>> \o m \o <<b>> \in Seq(Tokens) /\ <<a>> \o m \o <<b>> # <<>> /\ (<<a>> \o m \o <<b>>)[1] = a
    <3>1. <<a>> \in Seq(Tokens) /\ Len(<<a>>) = 1 /\ <<a>>[1] = a /\ <<b>> \in Seq(Tokens) /\ Len(<<b>>) = 1
      BY <2>1, OneToken
    <3>2. <<a>> \o m \in Seq(Tokens) /\ Len(<<a>> \o m) = 1 + Len(m) /\ (<<a>> \o m)[1] = a /\ Len(m) \in Nat
      <4>1. Len(m) \in Nat
        BY <2>2, LenProperties
      <4>. QED BY <4>1, <3>1, <2>2, ConcatProperties
    <3>. DEFINE u == <<a>> \o m
    <3>3. u \in Seq(Tokens) /\ Len(u) = 1 + Len(m) /\ u[1] = a
      BY <3>2
    <3>. HIDE DEF u
    <3>4. u \o <<b>> \in Seq(Tokens) /\ Len(u \o <<b>>) = 2 + Len(m) /\ (u \o <<b>>)[1] = a
      BY <3>1, <3>2, <3>3, ConcatProperties
    <3>5. u \o <<b>> # <<>>
      BY <3>2, <3>4, EmptySeq
    <3>. QED BY <3>4, <3>5 DEF u
  <2>. QED BY <2>1, <2>3 DEF Phrases, m
<1>4. CASE v \in Scalars
  <2>1. PICK k \in Tokens : TextOf(v, w) = <<k>> /\ k.tok \notin Closers
    BY <1>4, ScalarText
  <2>. QED BY <1>1, <1>2, <2>1, OneToken DEF Phrases
<1>5. ASSUME NEW items \in Seq(V), v = JArray(items) PROVE TextOf(v, w) \in Phrases
  <2>1. TextOf(v, w) = Token("ArrayBegin") \o Separated(ItemTexts(items, w)) \o Token("ArrayEnd")
    BY <1>5 DEF TextOf, JArray
  <2>. QED BY <2>1, <1>1, <1>3
<1>6. ASSUME NEW entries \in Seq([key : STRING, value : V]), v = JObject(entries) PROVE TextOf(v, w) \in Phrases
  <2>1. TextOf(v, w) = Token("ObjectBegin") \o Separated(EntryTexts(entries, w)) \o Token("ObjectEnd")
    BY <1>6 DEF TextOf, JObject
  <2>. QED BY <2>1, <1>2, <1>3
<1>. QED BY <1>1, <1>2, <1>4, <1>5, <1>6, ValueForms

(* Every value has a text. *)
LEMMA WrittenType == \A n \in Nat : \A v \in Values[n] : Written[n][v] \in Phrases
<1>. DEFINE S == {n \in Nat : \A v \in Values[n] : Written[n][v] \in Phrases}
<1>1. ASSUME NEW n \in Nat, \A u \in Below(n) : TextBelow(n)[u] \in Phrases PROVE n \in S
  <2>1. \A v \in ValuesOver(Below(n)) : TextOf(v, TextBelow(n)) \in Phrases
    BY <1>1, TextOfType
  <2>2. \A v \in Values[n] : Written[n][v] = TextOf(v, TextBelow(n))
    BY Levels
  <2>3. Values[n] = ValuesOver(Below(n))
    BY Levels
  <2>. QED BY <2>1, <2>2, <2>3
<1>2. 0 \in S
  BY <1>1, NothingBelowZero
<1>3. ASSUME NEW n \in S PROVE n + 1 \in S
  <2>1. n + 1 \in Nat /\ n + 1 # 0 /\ (n + 1) - 1 = n
    OBVIOUS
  <2>2. Below(n + 1) = Values[n] /\ TextBelow(n + 1) = Written[n]
    BY <2>1, NothingBelowZero
  <2>. QED BY <1>1, <2>1, <2>2
<1>4. S \in SUBSET Nat
  OBVIOUS
<1>5. S = Nat
  <2>. HIDE DEF S
  <2>. QED BY <1>2, <1>3, <1>4, SetInduction
<1>. QED BY <1>5

----------------------------------------------------------------------------
(* A text that holds a phrase at a position. *)

Holds(txt, at, p) == at + Len(p) <= Len(txt) + 1 /\ \A i \in 1..Len(p) : txt[at + i - 1] = p[i]

LEMMA HoldsConcat ==
  ASSUME NEW txt \in Seq(Tokens), NEW at \in Nat \ {0}, NEW p \in Seq(Tokens), NEW q \in Seq(Tokens)
  PROVE  Holds(txt, at, p \o q) <=> Holds(txt, at, p) /\ Holds(txt, at + Len(p), q)
<1>. DEFINE m == Len(p)
            n == Len(q)
            pq == p \o q
<1>1. m \in Nat /\ n \in Nat /\ Len(txt) \in Nat
  BY LenProperties
<1>2. Len(pq) = m + n /\ \A i \in 1..(m + n) : pq[i] = IF i <= m THEN p[i] ELSE q[i - m]
  BY ConcatProperties
<1>. HIDE DEF m, n, pq
<1>3. ASSUME Holds(txt, at, pq) PROVE Holds(txt, at, p) /\ Holds(txt, at + m, q)
  <2>1. at + (m + n) <= Len(txt) + 1 /\ \A i \in 1..(m + n) : txt[at + i - 1] = pq[i]
    BY <1>2, <1>3 DEF Holds
  <2>2. \A i \in 1..m : txt[at + i - 1] = p[i]
    BY <1>1, <1>2, <2>1
  <2>3. ASSUME NEW i \in 1..n PROVE txt[(at + m) + i - 1] = q[i]
    <3>1. m + i \in 1..(m + n) /\ at + (m + i) - 1 = (at + m) + i - 1 /\ (m + i) - m = i /\ ~(m + i <= m)
      BY <1>1, <2>3
    <3>. QED BY <1>2, <2>1, <3>1
  <2>4. at + m <= Len(txt) + 1 /\ (at + m) + n <= Len(txt) + 1
    BY <1>1, <2>1
  <2>. QED BY <2>2, <2>3, <2>4 DEF Holds, m, n
<1>4. ASSUME Holds(txt, at, p), Holds(txt, at + m, q) PROVE Holds(txt, at, pq)
  <2>1. at + (m + n) <= Len(txt) + 1
    <3>1. (at + m) + n <= Len(txt) + 1
      BY <1>4 DEF Holds, n
    <3>. QED BY <1>1, <3>1
  <2>2. ASSUME NEW i \in 1..(m + n) PROVE txt[at + i - 1] = pq[i]
    <3>1. CASE i <= m
      <4>1. i \in 1..m /\ pq[i] = p[i]
        BY <1>1, <1>2, <2>2, <3>1
      <4>. QED BY <4>1, <1>4 DEF Holds, m
    <3>2. CASE ~(i <= m)
      <4>1. i - m \in 1..n /\ pq[i] = q[i - m] /\ (at + m) + (i - m) - 1 = at + i - 1
        BY <1>1, <1>2, <2>2, <3>2
      <4>2. \A j \in 1..n : txt[(at + m) + j - 1] = q[j]
        BY <1>4 DEF Holds, n
      <4>3. txt[(at + m) + (i - m) - 1] = q[i - m]
        BY <4>1, <4>2
      <4>. QED BY <4>1, <4>3
    <3>. QED BY <3>1, <3>2
  <2>. QED BY <1>2, <2>1, <2>2 DEF Holds
<1>. QED BY <1>3, <1>4 DEF m, pq

LEMMA HoldsOne ==
  ASSUME NEW txt \in Seq(Tokens), NEW at \in Nat \ {0}, NEW k \in Tokens
  PROVE  Holds(txt, at, <<k>>) <=> at \in DOMAIN txt /\ txt[at] = k
<1>1. DOMAIN txt = 1..Len(txt) /\ Len(txt) \in Nat
  BY LenProperties
<1>2. Len(<<k>>) = 1 /\ <<k>>[1] = k /\ at + 1 - 1 = at
  BY OneToken
<1>. QED BY <1>1, <1>2 DEF Holds

(* Where a phrase starts, none of the tokens stands that close or separate. *)
LEMMA HoldsPhrase ==
  ASSUME NEW txt \in Seq(Tokens), NEW at \in Nat \ {0}, NEW p \in Phrases, Holds(txt, at, p)
  PROVE  at \in DOMAIN txt /\ Tok(txt, at) \notin Closers
<1>1. DOMAIN txt = 1..Len(txt) /\ Len(txt) \in Nat
  BY LenProperties
<1>2. p \in Seq(Tokens) /\ Len(p) \in Nat \ {0} /\ p[1].tok \notin Closers
  BY EmptySeq DEF Phrases
<1>3. at + Len(p) <= Len(txt) + 1 /\ \A i \in 1..Len(p) : txt[at + i - 1] = p[i]
  BY DEF Holds
<1>4. at \in DOMAIN txt /\ at + 1 - 1 = at /\ 1 \in 1..Len(p)
  BY <1>1, <1>2, <1>3
<1>5. txt[at] = p[1]
  BY <1>3, <1>4
<1>. QED BY <1>2, <1>4, <1>5 DEF Tok

LEMMA NoTokenAtZero == \A txt \in Seq(Tokens) : Tok(txt, 0) = "InvalidToken"
<1>1. \A txt \in Seq(Tokens) : DOMAIN txt = 1..Len(txt)
  BY LenProperties
<1>. QED BY <1>1 DEF Tok

(* What holds the first texts of a list and the one after them. *)
LEMMA JoinedHolds ==
  ASSUME NEW txt \in Seq(Tokens), NEW at \in Nat \ {0}, NEW texts \in Seq(Phrases),
         NEW n \in 0..Len(texts), n < Len(texts)
  PROVE  /\ Holds(txt, at, Joined(texts)[n + 1])
              <=> /\ Holds(txt, at, Joined(texts)[n])
                  /\ Holds(txt, at + Len(Joined(texts)[n]), Separator(n + 1))
                  /\ Holds(txt, at + Len(Joined(texts)[n]) + Len(Separator(n + 1)), texts[n + 1])
         /\ Len(Joined(texts)[n + 1]) = Len(Joined(texts)[n]) + Len(Separator(n + 1)) + Len(texts[n + 1])
<1>. DEFINE head == Joined(texts)[n]
            comma == Separator(n + 1)
            last == texts[n + 1]
            whole == Joined(texts)[n + 1]
<1>1. n \in Nat /\ n + 1 \in Nat /\ n + 1 \in 1..Len(texts)
  BY LenProperties
<1>2. head \in Seq(Tokens) /\ comma \in Seq(Tokens) /\ last \in Seq(Tokens)
  BY <1>1, JoinedType, SeparatorText, ElementOfSeq DEF Phrases
<1>3. whole = head \o comma \o last
  BY <1>1, JoinedSteps
<1>. HIDE DEF head, comma, last, whole
<1>4. head \o comma \in Seq(Tokens) /\ Len(head \o comma) = Len(head) + Len(comma)
  BY <1>2, ConcatProperties
<1>5. at + Len(head) \in Nat \ {0} /\ Len(head) \in Nat /\ Len(comma) \in Nat /\ Len(last) \in Nat
  <2>1. Len(head) \in Nat /\ Len(comma) \in Nat /\ Len(last) \in Nat
    BY <1>2, LenProperties
  <2>. QED BY <2>1
<1>6. Len(whole) = Len(head) + Len(comma) + Len(last)
  BY <1>2, <1>3, <1>4, ConcatProperties
<1>7. Holds(txt, at, whole) <=> Holds(txt, at, head \o comma) /\ Holds(txt, at + (Len(head) + Len(comma)), last)
  BY <1>2, <1>3, <1>4, HoldsConcat
<1>8. Holds(txt, at, head \o comma) <=> Holds(txt, at, head) /\ Holds(txt, at + Len(head), comma)
  BY <1>2, HoldsConcat
<1>9. at + (Len(head) + Len(comma)) = at + Len(head) + Len(comma)
  BY <1>5
<1>. QED BY <1>6, <1>7, <1>8, <1>9 DEF head, comma, last, whole

LEMMA JoinedHoldsBefore ==
  ASSUME NEW txt \in Seq(Tokens), NEW at \in Nat \ {0}, NEW texts \in Seq(Phrases),
         Holds(txt, at, Joined(texts)[Len(texts)])
  PROVE  \A n \in 0..Len(texts) : Holds(txt, at, Joined(texts)[n])
<1>. DEFINE S == {n \in Nat : n <= Len(texts) => Holds(txt, at, Joined(texts)[Len(texts) - n])}
<1>1. Len(texts) \in Nat
  BY LenProperties
<1>2. 0 \in S
  <2>1. Len(texts) - 0 = Len(texts)
    BY <1>1
  <2>. QED BY <2>1
<1>3. ASSUME NEW n \in S PROVE n + 1 \in S
  <2>. SUFFICES ASSUME n + 1 <= Len(texts) PROVE Holds(txt, at, Joined(texts)[Len(texts) - (n + 1)])
    OBVIOUS
  <2>. DEFINE m == Len(texts) - (n + 1)
  <2>1. m \in 0..Len(texts) /\ m < Len(texts) /\ m + 1 = Len(texts) - n /\ n <= Len(texts)
    BY <1>1
  <2>2. Holds(txt, at, Joined(texts)[m + 1])
    BY <2>1
  <2>. HIDE DEF m
  <2>3. Holds(txt, at, Joined(texts)[m])
    BY <2>1, <2>2, JoinedHolds
  <2>. QED BY <2>3 DEF m
<1>4. S \in SUBSET Nat
  OBVIOUS
<1>5. S = Nat
  <2>. HIDE DEF S
  <2>. QED BY <1>2, <1>3, <1>4, SetInduction
<1>6. ASSUME NEW n \in 0..Len(texts) PROVE Holds(txt, at, Joined(texts)[n])
  <2>1. Len(texts) - n \in Nat /\ Len(texts) - n <= Len(texts) /\ Len(texts) - (Len(texts) - n) = n
    BY <1>1
  <2>2. Len(texts) - n \in S
    BY <2>1, <1>5
  <2>. QED BY <2>1, <2>2
<1>. QED BY <1>6

----------------------------------------------------------------------------
(* The loop over a list. *)

LEMMA PassesSteps ==
  ASSUME NEW txt, NEW inner, NEW closing, NEW start
  PROVE  /\ Passes(txt, inner, closing, start)[0] = start
         /\ \A k \in Nat :
              /\ Ended(txt, closing, Passes(txt, inner, closing, start)[k])
                   => Passes(txt, inner, closing, start)[k + 1] = Passes(txt, inner, closing, start)[k]
              /\ ~Ended(txt, closing, Passes(txt, inner, closing, start)[k])
                   => Passes(txt, inner, closing, start)[k + 1]
                        = Pass(txt, inner, closing, Passes(txt, inner, closing, start)[k])
<1>1. \A n \in Nat : n + 1 \in Nat /\ n + 1 # 0 /\ (n + 1) - 1 = n
  OBVIOUS
<1>2. Passes(txt, inner, closing, start)[0] = start
  BY PassesRec
<1>. QED BY <1>1, <1>2, PassesRec

LEMMA RefusedEnds ==
  ASSUME NEW txt \in Seq(Tokens), NEW closing
  PROVE  Ended(txt, closing, Refused) /\ Refused.value = Absent /\ Refused.next = 0
  BY DEF Ended, Refused, Read

(* A text that holds the texts of a list and closes it is read item by item, up to the first item
   that is refused. *)
ReadsParts(txt, inner, closing, p, texts, lists, Good) ==
  /\ closing \in {"ArrayEnd", "ObjectEnd"}
  /\ p \in Nat \ {0}
  /\ texts \in Seq(Phrases)
  /\ Holds(txt, p, Joined(texts)[Len(texts)])
  /\ Tok(txt, p + Len(Joined(texts)[Len(texts)])) = closing
  /\ \A k \in 0..Len(texts) : lists[k] # Absent
  /\ Good \in SUBSET (1..Len(texts))
  /\ \A k \in Nat, q \in Nat \ {0} :
        k < Len(texts) /\ Holds(txt, q, texts[k + 1])
          => Part(txt, inner, closing, Read(lists[k], q))
               = IF k + 1 \in Good THEN Read(lists[k + 1], q + Len(texts[k + 1])) ELSE Refused

LEMMA ListRead ==
  ASSUME NEW txt \in Seq(Tokens), NEW inner, NEW closing, NEW p, NEW texts, NEW lists, NEW Good,
         ReadsParts(txt, inner, closing, p, texts, lists, Good)
  PROVE  BuildList(txt, inner, closing, Read(lists[0], p))
           = IF Good = 1..Len(texts)
             THEN Read(lists[Len(texts)], p + Len(Joined(texts)[Len(texts)]) + 1) ELSE Refused
<1>0. /\ closing \in {"ArrayEnd", "ObjectEnd"}
      /\ p \in Nat \ {0}
      /\ texts \in Seq(Phrases)
      /\ Holds(txt, p, Joined(texts)[Len(texts)])
      /\ Tok(txt, p + Len(Joined(texts)[Len(texts)])) = closing
      /\ \A k \in 0..Len(texts) : lists[k] # Absent
      /\ Good \in SUBSET (1..Len(texts))
      /\ \A k \in Nat, q \in Nat \ {0} :
            k < Len(texts) /\ Holds(txt, q, texts[k + 1])
              => Part(txt, inner, closing, Read(lists[k], q))
                   = IF k + 1 \in Good THEN Read(lists[k + 1], q + Len(texts[k + 1])) ELSE Refused
  BY DEF ReadsParts
<1>. USE <1>0
<1>. DEFINE n == Len(texts)
            pos(k) == p + Len(Joined(texts)[k])
            Begin(k) == IF k = 0 THEN p ELSE IF k = n THEN pos(n) ELSE pos(k) + 1
            State(k) == IF 1..k \subseteq Good THEN Read(lists[k], Begin(k)) ELSE Refused
            after == Passes(txt, inner, closing, Read(lists[0], p))
<1>1. n \in Nat
  BY LenProperties
<1>2. \A k \in 0..n : Joined(texts)[k] \in Seq(Tokens) /\ Len(Joined(texts)[k]) \in Nat /\ Len(Joined(texts)[k]) >= k
                        /\ Holds(txt, p, Joined(texts)[k])
  BY JoinedType, JoinedHoldsBefore, LenProperties
<1>3. \A k \in 0..n : pos(k) \in Nat \ {0} /\ Begin(k) \in Nat \ {0}
  BY <1>2
<1>4. pos(0) = p /\ Begin(n) = pos(n)
  <2>1. Joined(texts)[0] = <<>> /\ Len(<<>>) = 0
    BY JoinedSteps, EmptySeq
  <2>2. pos(0) = p + 0
    BY <2>1
  <2>. HIDE DEF pos
  <2>3. pos(0) = p
    BY <2>2
  <2>. QED BY <2>3
<1>5. ASSUME NEW k \in Nat, k < n
      PROVE  /\ Holds(txt, Begin(k), texts[k + 1])
             /\ pos(k + 1) = Begin(k) + Len(texts[k + 1])
             /\ k > 0 => Tok(txt, pos(k)) = "ListSeparator"
  <2>1. k \in 0..n /\ k + 1 \in 0..n
    BY <1>1, <1>5
  <2>2. /\ Holds(txt, pos(k), Separator(k + 1))
        /\ Holds(txt, pos(k) + Len(Separator(k + 1)), texts[k + 1])
        /\ Len(Joined(texts)[k + 1]) = Len(Joined(texts)[k]) + Len(Separator(k + 1)) + Len(texts[k + 1])
    BY <1>2, <1>5, <2>1, JoinedHolds
  <2>3. Begin(k) = pos(k) + Len(Separator(k + 1)) /\ Len(Separator(k + 1)) \in Nat
    <3>1. CASE k = 0
      <4>1. Separator(k + 1) = <<>> /\ Len(<<>>) = 0
        BY <3>1, SeparatorText, EmptySeq
      <4>. QED BY <3>1, <4>1, <1>3, <1>4, <2>1
    <3>2. CASE k # 0
      <4>1. Len(Separator(k + 1)) = 1
        BY <3>2, SeparatorText, OneToken, TokenTypes
      <4>2. Begin(k) = pos(k) + 1
        BY <3>2, <1>5
      <4>3. Len(Separator(k + 1)) \in Nat
        BY <4>1
      <4>4. Begin(k) = pos(k) + Len(Separator(k + 1))
        <5>. HIDE DEF pos, Begin
        <5>. QED BY <4>1, <4>2, Zenon
      <4>. QED BY <4>3, <4>4
    <3>. QED BY <3>1, <3>2
  <2>4. pos(k + 1) = Begin(k) + Len(texts[k + 1])
    <3>1. texts[k + 1] \in Seq(Tokens)
      BY <1>1, <1>5, ElementOfSeq DEF Phrases
    <3>2. Len(texts[k + 1]) \in Nat /\ Len(Joined(texts)[k]) \in Nat
      BY <3>1, <1>2, <2>1, LenProperties
    <3>. DEFINE a == Len(Joined(texts)[k])
                b == Len(Separator(k + 1))
                c == Len(texts[k + 1])
    <3>3. pos(k + 1) = p + (a + b + c) /\ Begin(k) = (p + a) + b
      BY <2>2, <2>3
    <3>4. a \in Nat /\ b \in Nat /\ c \in Nat
      BY <2>3, <3>2
    <3>. HIDE DEF a, b, c, pos, Begin
    <3>5. p + (a + b + c) = ((p + a) + b) + c
      BY <3>4
    <3>. QED BY <3>3, <3>5 DEF c
  <2>5. ASSUME k > 0 PROVE Tok(txt, pos(k)) = "ListSeparator"
    <3>1. Separator(k + 1) = <<[tok |-> "ListSeparator"]>> /\ [tok |-> "ListSeparator"] \in Tokens
      <4>1. k + 1 \in Nat /\ k + 1 > 1
        BY <2>5
      <4>. QED BY <4>1, SeparatorText, TokenTypes
    <3>2. pos(k) \in DOMAIN txt /\ txt[pos(k)] = [tok |-> "ListSeparator"]
      BY <3>1, <2>2, <2>1, <1>3, HoldsOne
    <3>. QED BY <3>2 DEF Tok
  <2>. QED BY <2>2, <2>3, <2>4, <2>5
<1>6. ASSUME NEW k \in Nat, k < n
      PROVE  Tok(txt, Begin(k)) # closing
  <2>1. texts[k + 1] \in Phrases /\ Begin(k) \in Nat \ {0}
    BY <1>1, <1>3, <1>6, ElementOfSeq
  <2>2. Holds(txt, Begin(k), texts[k + 1])
    BY <1>5, <1>6
  <2>. HIDE DEF Begin
  <2>. QED BY <2>1, <2>2, HoldsPhrase DEF Closers
<1>7. Ended(txt, closing, State(n))
  <2>1. CASE 1..n \subseteq Good
    BY <1>4, <2>1 DEF Ended, Read
  <2>2. CASE ~(1..n \subseteq Good)
    BY <2>2, RefusedEnds
  <2>. QED BY <2>1, <2>2
<1>8. ASSUME NEW k \in Nat, k < n
      PROVE  /\ 1..k \subseteq Good <=> ~Ended(txt, closing, State(k))
             /\ 1..k \subseteq Good => Pass(txt, inner, closing, State(k)) = State(k + 1)
             /\ ~(1..k \subseteq Good) => State(k + 1) = State(k)
  <2>1. ASSUME 1..k \subseteq Good PROVE ~Ended(txt, closing, State(k))
    BY <1>6, <1>8, <2>1 DEF Ended, Read
  <2>2. ASSUME ~(1..k \subseteq Good) PROVE State(k + 1) = State(k) /\ Ended(txt, closing, State(k))
    <3>1. ~(1..(k + 1) \subseteq Good)
      BY <2>2
    <3>. QED BY <2>2, <3>1, RefusedEnds
  <2>3. ASSUME 1..k \subseteq Good PROVE Pass(txt, inner, closing, State(k)) = State(k + 1)
    <3>. DEFINE part == Part(txt, inner, closing, State(k))
    <3>1. part = IF k + 1 \in Good THEN Read(lists[k + 1], pos(k + 1)) ELSE Refused
      <4>1. State(k) = Read(lists[k], Begin(k)) /\ Begin(k) \in Nat \ {0}
        BY <1>3, <1>8, <2>3
      <4>2. Holds(txt, Begin(k), texts[k + 1]) /\ pos(k + 1) = Begin(k) + Len(texts[k + 1])
        BY <1>5, <1>8
      <4>. HIDE DEF State, Begin, pos
      <4>. QED BY <1>8, <4>1, <4>2
    <3>2. 1..(k + 1) \subseteq Good <=> k + 1 \in Good
      <4>1. \A i \in 1..(k + 1) : i \in 1..k \/ i = k + 1
        BY <1>8
      <4>2. k + 1 \in 1..(k + 1)
        BY <1>8
      <4>. QED BY <2>3, <4>1, <4>2
    <3>3. CASE k + 1 \notin Good
      <4>1. part = Refused
        BY <3>1, <3>3
      <4>2. Tok(txt, part.next) = "InvalidToken"
        BY <4>1, RefusedEnds, NoTokenAtZero
      <4>3. Pass(txt, inner, closing, State(k)) = Refused
        BY <4>2 DEF Pass, AnotherFollows
      <4>. QED BY <3>2, <3>3, <4>3
    <3>4. CASE k + 1 \in Good /\ k + 1 = n
      <4>1. part = Read(lists[k + 1], pos(k + 1)) /\ part.next = pos(k + 1)
        BY <3>1, <3>4 DEF Read
      <4>2. Pass(txt, inner, closing, State(k)) = part
        <5>1. Tok(txt, pos(k + 1)) = closing
          BY <3>4
        <5>. HIDE DEF pos, State
        <5>2. Tok(txt, part.next) = closing
          BY <4>1, <5>1
        <5>. QED BY <5>2 DEF Pass, AnotherFollows
      <4>3. State(k + 1) = Read(lists[k + 1], pos(k + 1))
        BY <3>2, <3>4, <1>4
      <4>. QED BY <4>1, <4>2, <4>3
    <3>5. CASE k + 1 \in Good /\ k + 1 # n
      <4>1. k + 1 \in Nat /\ k + 1 < n /\ k + 1 > 0 /\ k + 1 # 0
        BY <1>1, <1>8, <3>5
      <4>2. part = Read(lists[k + 1], pos(k + 1)) /\ part.next = pos(k + 1) /\ part.value = lists[k + 1]
        BY <3>1, <3>5 DEF Read
      <4>3. Begin(k + 1) = pos(k + 1) + 1
        BY <4>1
      <4>4. Tok(txt, pos(k + 1)) = "ListSeparator" /\ Tok(txt, pos(k + 1) + 1) # closing
        BY <4>1, <4>3, <1>5, <1>6
      <4>5. Pass(txt, inner, closing, State(k)) = Read(lists[k + 1], pos(k + 1) + 1)
        BY <4>2, <4>4 DEF Pass, AnotherFollows
      <4>6. State(k + 1) = Read(lists[k + 1], pos(k + 1) + 1)
        BY <3>2, <3>5, <4>3
      <4>. QED BY <4>5, <4>6
    <3>. QED BY <3>3, <3>4, <3>5
  <2>. QED BY <2>1, <2>2, <2>3
<1>. HIDE DEF State, Begin, pos
<1>9. \A k \in Nat : after[k] = State(IF k < n THEN k ELSE n)
  <2>. DEFINE S == {k \in Nat : after[k] = State(IF k < n THEN k ELSE n)}
  <2>1. 0 \in S
    <3>1. State(0) = Read(lists[0], p)
      BY DEF State, Begin
    <3>2. (IF 0 < n THEN 0 ELSE n) = 0
      BY <1>1
    <3>3. after[0] = Read(lists[0], p)
      BY PassesSteps
    <3>. QED BY <3>1, <3>2, <3>3
  <2>2. ASSUME NEW k \in S PROVE k + 1 \in S
    <3>. HIDE DEF after
    <3>1. k \in Nat /\ after[k] = State(IF k < n THEN k ELSE n)
      OBVIOUS
    <3>2. /\ Ended(txt, closing, after[k]) => after[k + 1] = after[k]
          /\ ~Ended(txt, closing, after[k]) => after[k + 1] = Pass(txt, inner, closing, after[k])
      BY <3>1, PassesSteps DEF after
    <3>3. CASE k < n
      <4>1. (IF k + 1 < n THEN k + 1 ELSE n) = k + 1
        BY <1>1, <3>1, <3>3
      <4>2. after[k + 1] = State(k + 1)
        BY <1>8, <3>1, <3>2, <3>3
      <4>. QED BY <3>1, <4>1, <4>2
    <3>4. CASE ~(k < n)
      <4>1. (IF k + 1 < n THEN k + 1 ELSE n) = n
        BY <1>1, <3>1, <3>4
      <4>2. after[k + 1] = State(n)
        BY <1>7, <3>1, <3>2, <3>4
      <4>. QED BY <3>1, <4>1, <4>2
    <3>. QED BY <3>3, <3>4
  <2>3. S \in SUBSET Nat
    OBVIOUS
  <2>4. S = Nat
    <3>. HIDE DEF S
    <3>. QED BY <2>1, <2>2, <2>3, SetInduction
  <2>. QED BY <2>4
<1>. DEFINE last == CHOOSE k \in 0..Len(txt) : Ended(txt, closing, after[k])
<1>. HIDE DEF after
<1>10. last \in 0..Len(txt) /\ Ended(txt, closing, after[last])
  <2>1. n \in 0..Len(txt)
    <3>1. p + Len(Joined(texts)[n]) <= Len(txt) + 1 /\ Len(Joined(texts)[n]) >= n /\ Len(Joined(texts)[n]) \in Nat
      BY <1>1, <1>2 DEF Holds
    <3>. QED BY <1>1, <3>1, LenProperties
  <2>2. Ended(txt, closing, after[n])
    BY <1>1, <1>7, <1>9
  <2>. QED BY <2>1, <2>2
<1>11. after[last] = State(n)
  <2>1. last \in Nat /\ after[last] = State(IF last < n THEN last ELSE n)
    BY <1>9, <1>10
  <2>2. CASE last < n
    <3>1. Ended(txt, closing, State(last))
      BY <1>10, <2>1, <2>2
    <3>2. ~(1..last \subseteq Good)
      BY <1>8, <2>1, <2>2, <3>1
    <3>3. ~(1..n \subseteq Good)
      <4>1. \A i \in 1..last : i \in 1..n
        BY <1>1, <2>1, <2>2
      <4>. QED BY <3>2, <4>1
    <3>. QED BY <2>1, <2>2, <3>2, <3>3 DEF State
  <2>. QED BY <2>1, <2>2
<1>12. BuildList(txt, inner, closing, Read(lists[0], p))
         = IF State(n).value = Absent THEN Refused ELSE Read(State(n).value, State(n).next + 1)
  BY <1>11 DEF BuildList, after
<1>13. CASE Good = 1..n
  <2>1. State(n).value = lists[n] /\ State(n).next = pos(n)
    BY <1>4, <1>13 DEF State, Read
  <2>. QED BY <1>1, <1>12, <1>13, <2>1 DEF pos
<1>14. CASE Good # 1..n
  <2>1. State(n) = Refused
    BY <1>14 DEF State
  <2>. QED BY <1>12, <1>14, <2>1, RefusedEnds
<1>. QED BY <1>13, <1>14

(* The first texts of a list do not depend on one that is put behind them. *)
LEMMA JoinedPrefix ==
  ASSUME NEW texts \in Seq(Phrases), NEW t \in Phrases
  PROVE  \A n \in 0..Len(texts) : Joined(Append(texts, t))[n] = Joined(texts)[n]
<1>. DEFINE more == Append(texts, t)
            S == {n \in Nat : n <= Len(texts) => Joined(more)[n] = Joined(texts)[n]}
<1>1. Len(texts) \in Nat /\ \A i \in 1..Len(texts) : more[i] = texts[i]
  BY AppendProperties, LenProperties
<1>. HIDE DEF more
<1>2. 0 \in S
  BY JoinedSteps
<1>3. ASSUME NEW n \in S PROVE n + 1 \in S
  <2>. SUFFICES ASSUME n + 1 <= Len(texts) PROVE Joined(more)[n + 1] = Joined(texts)[n + 1]
    OBVIOUS
  <2>1. n \in Nat /\ n + 1 \in 1..Len(texts) /\ Joined(more)[n] = Joined(texts)[n]
    BY <1>1
  <2>2. more[n + 1] = texts[n + 1]
    BY <1>1, <2>1
  <2>3. Joined(more)[n + 1] = Joined(more)[n] \o Separator(n + 1) \o more[n + 1]
    BY <2>1, JoinedSteps
  <2>4. Joined(texts)[n + 1] = Joined(texts)[n] \o Separator(n + 1) \o texts[n + 1]
    BY <2>1, JoinedSteps
  <2>. QED BY <2>1, <2>2, <2>3, <2>4
<1>4. S \in SUBSET Nat
  OBVIOUS
<1>5. S = Nat
  <2>. HIDE DEF S
  <2>. QED BY <1>2, <1>3, <1>4, SetInduction
<1>. QED BY <1>1, <1>5 DEF more

LEMMA TokensStand ==
  ASSUME NEW txt \in Seq(Tokens), NEW at, Tok(txt, at) # "InvalidToken"
  PROVE  at \in DOMAIN txt /\ at \in 1..Len(txt) /\ Tok(txt, at) = txt[at].tok /\ txt[at] \in Tokens
<1>1. DOMAIN txt = 1..Len(txt)
  BY LenProperties
<1>2. at \in DOMAIN txt /\ Tok(txt, at) = txt[at].tok
  BY DEF Tok
<1>. QED BY <1>1, <1>2, ElementOfSeq

(* From a list and a position on, what is read is refused or leaves the list sound, and a canonical
   text adds its own text to those of the list; and the same up to the end of the list. *)
ReadsOn(txt, v, q, T, Sound, canonical, so) ==
  \/ so = Refused
  \/ \E v2, q2 : /\ so = Read(v2, q2) /\ <<v2, q2>> \in Sound /\ q2 > q
                 /\ canonical => \E t \in Phrases : /\ T[v2] = Append(T[v], t)
                                                    /\ Holds(txt, q, t) /\ q2 = q + Len(t)

ReadsUpTo(txt, closing, p, T, Sound, canonical, so) ==
  \/ so = Refused
  \/ \E v, q : /\ so = Read(v, q + 1) /\ <<v, q>> \in Sound /\ q >= p /\ Tok(txt, q) = closing
               /\ canonical => Holds(txt, p, Separated(T[v])) /\ q = p + Len(Separated(T[v]))

AcceptsParts(txt, inner, closing, p, empty, T, Sound, canonical) ==
  /\ \A v, q : <<v, q>> \in Sound => v # Absent /\ q \in 1..(Len(txt) + 1) /\ T[v] \in Seq(Phrases)
  /\ \A v, q : <<v, q>> \in Sound /\ q + 1 <= Len(txt) + 1 => <<v, q + 1>> \in Sound
  /\ <<empty, p>> \in Sound /\ T[empty] = <<>>
  /\ \A v, q : <<v, q>> \in Sound =>
        ReadsOn(txt, v, q, T, Sound, canonical, Part(txt, inner, closing, Read(v, q)))

(* What is read of a list is sound, whatever that is for its kind, if each part of it that is read
   leaves it so; and the text holds what the writer makes of the list if that is so for the parts. *)
LEMMA ListAccepted ==
  ASSUME NEW txt \in Seq(Tokens), NEW inner, NEW closing \in {"ArrayEnd", "ObjectEnd"},
         NEW p \in 2..(Len(txt) + 1), NEW empty, NEW T, NEW Sound, NEW canonical \in BOOLEAN,
         AcceptsParts(txt, inner, closing, p, empty, T, Sound, canonical)
  PROVE  ReadsUpTo(txt, closing, p, T, Sound, canonical, BuildList(txt, inner, closing, Read(empty, p)))
<1>. SUFFICES \/ BuildList(txt, inner, closing, Read(empty, p)) = Refused
              \/ \E v, q : /\ BuildList(txt, inner, closing, Read(empty, p)) = Read(v, q + 1)
                           /\ <<v, q>> \in Sound /\ q >= p /\ Tok(txt, q) = closing
                           /\ canonical => Holds(txt, p, Separated(T[v])) /\ q = p + Len(Separated(T[v]))
  BY DEF ReadsUpTo
<1>. DEFINE after == Passes(txt, inner, closing, Read(empty, p))
            end(v) == p + Len(Separated(T[v]))
            Written1(v, q) == /\ Holds(txt, p, Separated(T[v]))
                              /\ \/ q = end(v) /\ (T[v] = <<>> \/ Tok(txt, q) = closing)
                                 \/ /\ q = end(v) + 1 /\ T[v] # <<>>
                                    /\ Tok(txt, end(v)) = "ListSeparator" /\ Tok(txt, q) # closing
            Inv(v, q, k) == /\ <<v, q>> \in Sound /\ q >= p
                            /\ Tok(txt, q) = closing \/ q >= p + k
                            /\ canonical => Written1(v, q)
            Goes(v, q) == \/ Part(txt, inner, closing, Read(v, q)) = Refused
                          \/ \E v2, q2 : /\ Part(txt, inner, closing, Read(v, q)) = Read(v2, q2)
                                         /\ <<v2, q2>> \in Sound /\ q2 > q
                                         /\ canonical => \E t \in Phrases : /\ T[v2] = Append(T[v], t)
                                                                            /\ Holds(txt, q, t) /\ q2 = q + Len(t)
            Fine(k) == after[k] = Refused \/ \E v, q : after[k] = Read(v, q) /\ Inv(v, q, k)
<1>0. /\ \A v, q : <<v, q>> \in Sound => Goes(v, q)
      /\ \A v, q : <<v, q>> \in Sound => v # Absent /\ q \in 1..(Len(txt) + 1) /\ T[v] \in Seq(Phrases)
      /\ \A v, q : <<v, q>> \in Sound /\ q + 1 <= Len(txt) + 1 => <<v, q + 1>> \in Sound
      /\ <<empty, p>> \in Sound /\ T[empty] = <<>>
  BY DEF AcceptsParts, ReadsOn
<1>. USE <1>0
<1>. HIDE DEF Goes
<1>1. Len(txt) \in Nat /\ p \in Nat \ {0} /\ DOMAIN txt = 1..Len(txt)
  BY LenProperties
<1>2. \A v, q : <<v, q>> \in Sound => q \in Nat \ {0} /\ Separated(T[v]) \in Seq(Tokens)
                  /\ Len(Separated(T[v])) \in Nat /\ end(v) \in Nat \ {0}
  <2>. SUFFICES ASSUME NEW v, NEW q, <<v, q>> \in Sound
                PROVE  q \in Nat \ {0} /\ Separated(T[v]) \in Seq(Tokens)
                         /\ Len(Separated(T[v])) \in Nat /\ end(v) \in Nat \ {0}
    OBVIOUS
  <2>1. T[v] \in Seq(Phrases) /\ q \in 1..(Len(txt) + 1)
    OBVIOUS
  <2>2. Len(T[v]) \in Nat
    BY <2>1, LenProperties
  <2>3. Len(T[v]) \in 0..Len(T[v])
    BY <2>2
  <2>4. Separated(T[v]) \in Seq(Tokens)
    BY <2>1, <2>3, JoinedType DEF Separated
  <2>5. Len(Separated(T[v])) \in Nat
    BY <2>4, LenProperties
  <2>. QED BY <1>1, <2>1, <2>4, <2>5
<1>3. Separated(T[empty]) = <<>>
  BY JoinedSteps, EmptySeq DEF Separated
<1>4. Fine(0)
  <2>1. after[0] = Read(empty, p)
    BY PassesSteps
  <2>2. Len(<<>>) = 0
    BY EmptySeq
  <2>3. end(empty) = p
    BY <1>1, <1>3, <2>2
  <2>4. Holds(txt, p, <<>>)
    BY <1>1, <2>2 DEF Holds
  <2>5. Written1(empty, p)
    BY <1>3, <2>3, <2>4
  <2>6. Inv(empty, p, 0)
    <3>. HIDE DEF Written1
    <3>. QED BY <1>1, <2>5
  <2>. HIDE DEF Inv, after
  <2>. QED BY <2>1, <2>6
(* One part more: its text follows what the text holds already. *)
<1>5. ASSUME NEW v, NEW q, NEW v2, NEW q2, NEW t \in Phrases, <<v, q>> \in Sound, <<v2, q2>> \in Sound,
             Written1(v, q), Tok(txt, q) # closing, T[v2] = Append(T[v], t), Holds(txt, q, t), q2 = q + Len(t)
      PROVE  Holds(txt, p, Separated(T[v2])) /\ q2 = end(v2) /\ T[v2] # <<>>
  <2>. DEFINE n == Len(T[v])
              tt == T[v2]
  <2>1. T[v] \in Seq(Phrases) /\ tt \in Seq(Phrases) /\ n \in Nat /\ Len(tt) = n + 1 /\ tt # <<>> /\ tt[n + 1] = t
    <3>1. T[v] \in Seq(Phrases) /\ n \in Nat
      BY <1>5, LenProperties
    <3>2. tt = Append(T[v], t)
      BY <1>5
    <3>3. \A s \in Seq(Phrases) : /\ Append(s, t) \in Seq(Phrases) /\ Len(Append(s, t)) = Len(s) + 1
                                  /\ Append(s, t) # <<>> /\ Append(s, t)[Len(s) + 1] = t
      BY AppendProperties
    <3>. HIDE DEF tt
    <3>. QED BY <3>1, <3>2, <3>3
  <2>2. Joined(tt)[n] = Separated(T[v]) /\ Separated(tt) = Joined(tt)[n + 1]
    <3>1. n \in 0..n
      BY <2>1
    <3>2. tt = Append(T[v], t)
      BY <1>5
    <3>3. Joined(Append(T[v], t))[n] = Joined(T[v])[n]
      BY <2>1, <3>1, JoinedPrefix
    <3>. HIDE DEF tt
    <3>. QED BY <2>1, <3>2, <3>3 DEF Separated
  <2>3. n \in 0..Len(tt) /\ n < Len(tt)
    BY <2>1
  <2>4. Holds(txt, end(v), Separator(n + 1)) /\ end(v) + Len(Separator(n + 1)) = q
    <3>1. CASE n = 0
      <4>1. Separator(n + 1) = <<>> /\ Len(<<>>) = 0 /\ T[v] = <<>>
        BY <2>1, <3>1, SeparatorText, EmptySeq
      <4>2. q = end(v) /\ end(v) \in Nat \ {0}
        BY <1>2, <1>5, <4>1
      <4>3. q \in 1..(Len(txt) + 1)
        BY <1>5
      <4>4. Holds(txt, q, <<>>)
        BY <1>1, <4>1, <4>3 DEF Holds
      <4>. HIDE DEF end
      <4>. QED BY <4>1, <4>2, <4>4
    <3>2. CASE n # 0
      <4>1. T[v] # <<>>
        BY <3>2, EmptySeq
      <4>2. q = end(v) + 1 /\ Tok(txt, end(v)) = "ListSeparator" /\ end(v) \in Nat \ {0}
        BY <1>2, <1>5, <4>1
      <4>3. n + 1 \in Nat /\ n + 1 > 1
        <5>1. n \in Nat
          BY <2>1
        <5>2. \A x \in Nat : x # 0 => x + 1 \in Nat /\ x + 1 > 1
          OBVIOUS
        <5>. HIDE DEF n
        <5>. QED BY <5>1, <5>2, <3>2, Zenon
      <4>4. Separator(n + 1) = <<[tok |-> "ListSeparator"]>> /\ [tok |-> "ListSeparator"] \in Tokens
        BY <4>3, SeparatorText, TokenTypes
      <4>5. Len(Separator(n + 1)) = 1
        BY <4>4, OneToken
      <4>. HIDE DEF end
      <4>6. end(v) \in DOMAIN txt /\ txt[end(v)].tok = "ListSeparator" /\ txt[end(v)] \in Tokens
        BY <4>2, TokensStand
      <4>7. txt[end(v)] = [tok |-> "ListSeparator"]
        BY <4>6 DEF Tokens
      <4>8. Holds(txt, end(v), Separator(n + 1))
        BY <4>2, <4>4, <4>6, <4>7, HoldsOne
      <4>9. end(v) + Len(Separator(n + 1)) = end(v) + 1
        BY <4>5, Zenon
      <4>. QED BY <4>2, <4>8, <4>9
    <3>. QED BY <3>1, <3>2
  <2>5. /\ Holds(txt, p, Joined(tt)[n + 1])
              <=> /\ Holds(txt, p, Joined(tt)[n])
                  /\ Holds(txt, p + Len(Joined(tt)[n]), Separator(n + 1))
                  /\ Holds(txt, p + Len(Joined(tt)[n]) + Len(Separator(n + 1)), tt[n + 1])
        /\ Len(Joined(tt)[n + 1]) = Len(Joined(tt)[n]) + Len(Separator(n + 1)) + Len(tt[n + 1])
    BY <1>1, <2>1, <2>3, JoinedHolds
  <2>6. Holds(txt, p, Separated(tt))
    BY <1>5, <2>1, <2>2, <2>4, <2>5
  <2>7. q2 = end(v2)
    <3>. DEFINE a == Len(Separated(T[v]))
                b == Len(Separator(n + 1))
                c == Len(t)
    <3>1. end(v2) = p + (a + b + c) /\ q2 = (p + a) + b + c
      BY <1>5, <2>1, <2>2, <2>4, <2>5
    <3>2. a \in Nat /\ b \in Nat /\ c \in Nat
      BY <1>2, <1>5, <2>1, SeparatorText, LenProperties DEF Phrases
    <3>. HIDE DEF a, b, c, end
    <3>. QED BY <1>1, <3>1, <3>2
  <2>. QED BY <2>1, <2>6, <2>7
<1>6. ASSUME NEW k \in Nat, Fine(k) PROVE Fine(k + 1)
  <2>. HIDE DEF Inv, after
  <2>1. /\ Ended(txt, closing, after[k]) => after[k + 1] = after[k]
        /\ ~Ended(txt, closing, after[k]) => after[k + 1] = Pass(txt, inner, closing, after[k])
    BY PassesSteps DEF after
  <2>2. CASE after[k] = Refused
    BY <2>1, <2>2, RefusedEnds
  <2>3. ASSUME NEW v, NEW q, after[k] = Read(v, q), Inv(v, q, k) PROVE Fine(k + 1)
    <3>1. after[k].value = v /\ after[k].next = q /\ v # Absent /\ <<v, q>> \in Sound /\ q >= p
      BY <2>3 DEF Read, Inv
    <3>2. CASE Tok(txt, q) = closing
      <4>1. after[k + 1] = Read(v, q)
        BY <2>1, <2>3, <3>1, <3>2 DEF Ended
      <4>2. Inv(v, q, k + 1)
        <5>. HIDE DEF Written1
        <5>. QED BY <2>3, <3>2 DEF Inv
      <4>. QED BY <4>1, <4>2
    <3>3. CASE Tok(txt, q) # closing
      <4>. DEFINE part == Part(txt, inner, closing, Read(v, q))
      <4>1. after[k + 1] = Pass(txt, inner, closing, Read(v, q)) /\ q >= p + k
        BY <2>1, <2>3, <3>1, <3>3 DEF Ended, Inv
      <4>2. CASE part = Refused
        <5>1. Tok(txt, part.next) = "InvalidToken"
          BY <4>2, RefusedEnds, NoTokenAtZero
        <5>2. Pass(txt, inner, closing, Read(v, q)) = Refused
          BY <5>1 DEF Pass, AnotherFollows
        <5>. QED BY <4>1, <5>2
      <4>3. ASSUME NEW v2, NEW q2, part = Read(v2, q2), <<v2, q2>> \in Sound, q2 > q,
                   canonical => \E t \in Phrases : T[v2] = Append(T[v], t) /\ Holds(txt, q, t) /\ q2 = q + Len(t)
            PROVE  Fine(k + 1)
        <5>1. part.next = q2 /\ part.value = v2
          BY <4>3 DEF Read
        <5>2. q2 \in Nat /\ q \in Nat /\ q2 >= p /\ q2 >= p + (k + 1)
          <6>1. q2 \in Nat /\ q \in Nat
            BY <1>2, <3>1, <4>3
          <6>. QED BY <1>1, <3>1, <4>1, <4>3, <6>1
        <5>3. canonical => Holds(txt, p, Separated(T[v2])) /\ q2 = end(v2) /\ T[v2] # <<>>
          <6>. SUFFICES ASSUME canonical PROVE Holds(txt, p, Separated(T[v2])) /\ q2 = end(v2) /\ T[v2] # <<>>
            OBVIOUS
          <6>1. PICK t \in Phrases : T[v2] = Append(T[v], t) /\ Holds(txt, q, t) /\ q2 = q + Len(t)
            BY <4>3
          <6>2. Written1(v, q)
            BY <2>3 DEF Inv
          <6>. HIDE DEF Written1, end
          <6>. QED BY <1>5, <3>1, <3>3, <4>3, <6>1, <6>2
        <5>. HIDE DEF end, part
        <5>4. CASE Tok(txt, q2) = closing
          <6>1. Pass(txt, inner, closing, Read(v, q)) = Read(v2, q2)
            BY <4>3, <5>1, <5>4 DEF Pass, AnotherFollows, part
          <6>2. canonical => Written1(v2, q2)
            BY <5>3, <5>4
          <6>3. Inv(v2, q2, k + 1)
            <7>. HIDE DEF Written1
            <7>. QED BY <4>3, <5>2, <5>4, <6>2 DEF Inv
          <6>. QED BY <4>1, <6>1, <6>3
        <5>5. CASE Tok(txt, q2) # closing /\ AnotherFollows(txt, q2, closing)
          <6>1. Pass(txt, inner, closing, Read(v, q)) = Read(v2, q2 + 1)
            BY <5>1, <5>5 DEF Pass, part
          <6>2. Tok(txt, q2) = "ListSeparator" /\ Tok(txt, q2 + 1) # closing
            BY <5>5 DEF AnotherFollows
          <6>3. q2 \in 1..Len(txt)
            BY <6>2, TokensStand
          <6>4. <<v2, q2 + 1>> \in Sound
            <7>1. q2 + 1 <= Len(txt) + 1 /\ <<v2, q2>> \in Sound
              BY <1>1, <4>3, <6>3
            <7>2. \A x, y : <<x, y>> \in Sound /\ y + 1 <= Len(txt) + 1 => <<x, y + 1>> \in Sound
              BY <1>0
            <7>. QED BY <7>1, <7>2, Zenon
          <6>5. canonical => Written1(v2, q2 + 1)
            BY <5>3, <6>2
          <6>6. Inv(v2, q2 + 1, k + 1)
            <7>1. q2 + 1 >= p /\ q2 + 1 >= p + (k + 1)
              BY <1>1, <5>2
            <7>. HIDE DEF Written1
            <7>. QED BY <6>4, <6>5, <7>1 DEF Inv
          <6>. QED BY <4>1, <6>1, <6>6
        <5>6. CASE Tok(txt, q2) # closing /\ ~AnotherFollows(txt, q2, closing)
          <6>1. Pass(txt, inner, closing, Read(v, q)) = Refused
            BY <5>1, <5>6 DEF Pass, part
          <6>. QED BY <4>1, <6>1
        <5>. QED BY <5>4, <5>5, <5>6
      <4>4. \/ part = Refused
            \/ \E v2, q2 : /\ part = Read(v2, q2)
                           /\ <<v2, q2>> \in Sound /\ q2 > q
                           /\ canonical => \E t \in Phrases : /\ T[v2] = Append(T[v], t)
                                                              /\ Holds(txt, q, t) /\ q2 = q + Len(t)
        <5>1. Goes(v, q)
          BY <3>1, <1>0
        <5>. QED BY <5>1 DEF Goes
      <4>. HIDE DEF part
      <4>. QED BY <4>2, <4>3, <4>4
    <3>. QED BY <3>2, <3>3
  <2>. QED BY <1>6, <2>2, <2>3
<1>7. \A k \in Nat : Fine(k)
  <2>. DEFINE S == {k \in Nat : Fine(k)}
  <2>. HIDE DEF Fine
  <2>1. S \in SUBSET Nat /\ 0 \in S /\ \A k \in S : k + 1 \in S
    BY <1>4, <1>6
  <2>2. S = Nat
    <3>. HIDE DEF S
    <3>. QED BY <2>1, SetInduction
  <2>. QED BY <2>2
<1>. DEFINE last == CHOOSE k \in 0..Len(txt) : Ended(txt, closing, after[k])
<1>. HIDE DEF after, Inv
<1>8. last \in 0..Len(txt) /\ Ended(txt, closing, after[last])
  <2>1. Ended(txt, closing, after[Len(txt)])
    <3>1. CASE after[Len(txt)] = Refused
      BY <3>1, RefusedEnds
    <3>2. ASSUME NEW v, NEW q, after[Len(txt)] = Read(v, q), Inv(v, q, Len(txt))
          PROVE  Ended(txt, closing, after[Len(txt)])
      <4>1. q \in 1..(Len(txt) + 1) /\ (Tok(txt, q) = closing \/ q >= p + Len(txt))
        BY <3>2 DEF Inv
      <4>2. Tok(txt, q) = closing
        BY <1>1, <4>1
      <4>. QED BY <3>2, <4>2 DEF Ended, Read
    <3>. QED BY <1>1, <1>7, <3>1, <3>2
  <2>2. Len(txt) \in 0..Len(txt)
    BY <1>1
  <2>. QED BY <2>1, <2>2
<1>9. BuildList(txt, inner, closing, Read(empty, p))
        = IF after[last].value = Absent THEN Refused ELSE Read(after[last].value, after[last].next + 1)
  BY DEF BuildList, after
<1>10. CASE after[last] = Refused
  BY <1>9, <1>10, RefusedEnds
<1>11. ASSUME NEW v, NEW q, after[last] = Read(v, q), Inv(v, q, last)
       PROVE  /\ BuildList(txt, inner, closing, Read(empty, p)) = Read(v, q + 1)
              /\ <<v, q>> \in Sound /\ q >= p /\ Tok(txt, q) = closing
              /\ canonical => Holds(txt, p, Separated(T[v])) /\ q = p + Len(Separated(T[v]))
  <2>1. after[last].value = v /\ after[last].next = q /\ v # Absent /\ <<v, q>> \in Sound /\ q >= p
    BY <1>11 DEF Read, Inv
  <2>2. Tok(txt, q) = closing
    BY <1>8, <2>1 DEF Ended
  <2>3. canonical => Holds(txt, p, Separated(T[v])) /\ q = end(v)
    BY <1>11, <2>2 DEF Inv
  <2>. QED BY <1>9, <2>1, <2>2, <2>3
<1>12. Fine(last)
  <2>1. last \in Nat
    BY <1>1, <1>8
  <2>. HIDE DEF last, Fine
  <2>. QED BY <1>7, <2>1
<1>. HIDE DEF last
<1>. QED BY <1>10, <1>11, <1>12

----------------------------------------------------------------------------
(* Lists and entries in a text. *)

Marks == {"NullToken", "BoolTrue", "BoolFalse", "ArrayBegin", "ArrayEnd", "ObjectBegin", "ObjectEnd",
          "ListSeparator", "ObjectPairSeparator"}

LEMMA HoldsMark ==
  ASSUME NEW txt \in Seq(Tokens), NEW at \in Nat \ {0}, NEW k \in Marks
  PROVE  /\ Holds(txt, at, Token(k)) <=> Tok(txt, at) = k
         /\ Token(k) \in Seq(Tokens) /\ Len(Token(k)) = 1
<1>1. Token(k) = <<[tok |-> k]>> /\ [tok |-> k] \in Tokens /\ k # "InvalidToken"
  BY TokenTypes DEF Marks
<1>2. Token(k) \in Seq(Tokens) /\ Len(Token(k)) = 1
  BY <1>1, OneToken
<1>3. Holds(txt, at, Token(k)) <=> at \in DOMAIN txt /\ txt[at] = [tok |-> k]
  BY <1>1, HoldsOne
<1>4. ASSUME Holds(txt, at, Token(k)) PROVE Tok(txt, at) = k
  BY <1>3, <1>4 DEF Tok
<1>5. ASSUME Tok(txt, at) = k PROVE Holds(txt, at, Token(k))
  <2>1. at \in DOMAIN txt /\ txt[at].tok = k /\ txt[at] \in Tokens
    BY <1>1, <1>5, TokensStand
  <2>2. txt[at] = [tok |-> k]
    BY <2>1 DEF Tokens, Marks
  <2>. QED BY <1>3, <2>1, <2>2
<1>. QED BY <1>2, <1>4, <1>5

LEMMA HoldsBracketed ==
  ASSUME NEW txt \in Seq(Tokens), NEW at \in Nat \ {0}, NEW m \in Seq(Tokens), NEW open \in Marks, NEW close \in Marks
  PROVE  /\ Len(Token(open) \o m \o Token(close)) = Len(m) + 2
         /\ Holds(txt, at, Token(open) \o m \o Token(close))
              <=> Tok(txt, at) = open /\ Holds(txt, at + 1, m) /\ Tok(txt, at + 1 + Len(m)) = close
<1>. DEFINE a == Token(open)
            b == Token(close)
            am == a \o m
<1>1. a \in Seq(Tokens) /\ b \in Seq(Tokens) /\ Len(a) = 1 /\ Len(b) = 1 /\ Len(m) \in Nat
  BY HoldsMark, LenProperties
<1>2. \A q \in Nat \ {0} : (Holds(txt, q, a) <=> Tok(txt, q) = open) /\ (Holds(txt, q, b) <=> Tok(txt, q) = close)
  BY HoldsMark
<1>. HIDE DEF a, b
<1>3. am \in Seq(Tokens) /\ Len(am) = 1 + Len(m)
  BY <1>1, ConcatProperties
<1>4. Len(am \o b) = Len(m) + 2
  <2>1. Len(am \o b) = Len(am) + Len(b)
    BY <1>1, <1>3, ConcatProperties
  <2>. HIDE DEF am
  <2>. QED BY <1>1, <1>3, <2>1
<1>5. Holds(txt, at, am) <=> Holds(txt, at, a) /\ Holds(txt, at + 1, m)
  <2>1. Holds(txt, at, am) <=> Holds(txt, at, a) /\ Holds(txt, at + Len(a), m)
    BY <1>1, HoldsConcat
  <2>. QED BY <1>1, <2>1
<1>6. Holds(txt, at, am \o b) <=> Holds(txt, at, am) /\ Holds(txt, at + 1 + Len(m), b)
  <2>. HIDE DEF am
  <2>1. Holds(txt, at, am \o b) <=> Holds(txt, at, am) /\ Holds(txt, at + Len(am), b)
    BY <1>1, <1>3, HoldsConcat
  <2>2. at + Len(am) = at + 1 + Len(m)
    BY <1>1, <1>3
  <2>. QED BY <2>1, <2>2
<1>7. at + 1 + Len(m) \in Nat \ {0}
  BY <1>1
<1>. QED BY <1>2, <1>4, <1>5, <1>6, <1>7 DEF a, b

LEMMA HoldsKeyed ==
  ASSUME NEW txt \in Seq(Tokens), NEW at \in Nat \ {0}, NEW w \in Seq(Tokens), NEW s \in STRING
  PROVE  /\ Len(StringToken(s) \o Token("ObjectPairSeparator") \o w) = 2 + Len(w)
         /\ Holds(txt, at, StringToken(s) \o Token("ObjectPairSeparator") \o w)
              <=> KeyAt(txt, at) /\ txt[at].string = s /\ Holds(txt, at + 2, w)
<1>. DEFINE a == StringToken(s)
            b == Token("ObjectPairSeparator")
            ab == a \o b
            t == [tok |-> "StringLiteral", string |-> s]
<1>1. a = <<t>> /\ t \in Tokens
  BY TokenTypes
<1>2. a \in Seq(Tokens) /\ Len(a) = 1 /\ b \in Seq(Tokens) /\ Len(b) = 1 /\ Len(w) \in Nat
  BY <1>1, OneToken, HoldsMark, LenProperties DEF Marks
<1>3. Holds(txt, at + 1, b) <=> Tok(txt, at + 1) = "ObjectPairSeparator"
  <2>1. at + 1 \in Nat \ {0}
    OBVIOUS
  <2>. QED BY <2>1, HoldsMark DEF Marks
<1>4. Holds(txt, at, a) <=> Tok(txt, at) = "StringLiteral" /\ txt[at].string = s
  <2>1. Holds(txt, at, a) <=> at \in DOMAIN txt /\ txt[at] = t
    BY <1>1, HoldsOne
  <2>2. ASSUME at \in DOMAIN txt, txt[at] = t PROVE Tok(txt, at) = "StringLiteral" /\ txt[at].string = s
    BY <2>2 DEF Tok
  <2>3. ASSUME Tok(txt, at) = "StringLiteral", txt[at].string = s PROVE at \in DOMAIN txt /\ txt[at] = t
    <3>1. at \in DOMAIN txt /\ txt[at].tok = "StringLiteral" /\ txt[at] \in Tokens
      BY <2>3, TokensStand
    <3>. QED BY <2>3, <3>1 DEF Tokens
  <2>. QED BY <2>1, <2>2, <2>3
<1>. HIDE DEF a, b, t
<1>5. ab \in Seq(Tokens) /\ Len(ab) = 2
  <2>1. ab \in Seq(Tokens) /\ Len(ab) = Len(a) + Len(b)
    BY <1>2, ConcatProperties
  <2>. HIDE DEF ab
  <2>. QED BY <1>2, <2>1
<1>6. Holds(txt, at, ab) <=> Holds(txt, at, a) /\ Holds(txt, at + 1, b)
  <2>1. Holds(txt, at, ab) <=> Holds(txt, at, a) /\ Holds(txt, at + Len(a), b)
    BY <1>2, HoldsConcat
  <2>. QED BY <1>2, <2>1
<1>. HIDE DEF ab
<1>7. Len(ab \o w) = 2 + Len(w)
  <2>1. Len(ab \o w) = Len(ab) + Len(w)
    BY <1>5, ConcatProperties
  <2>. QED BY <1>2, <1>5, <2>1
<1>8. Holds(txt, at, ab \o w) <=> Holds(txt, at, ab) /\ Holds(txt, at + 2, w)
  <2>1. Holds(txt, at, ab \o w) <=> Holds(txt, at, ab) /\ Holds(txt, at + Len(ab), w)
    BY <1>5, HoldsConcat
  <2>. QED BY <1>5, <2>1
<1>. QED BY <1>3, <1>4, <1>6, <1>7, <1>8 DEF KeyAt, a, b, ab

----------------------------------------------------------------------------
(* Reading what was written. *)

(* What is read one level down when n levels are left, and what is then read at a position. *)
LEMMA BuilderSteps ==
  ASSUME NEW txt \in Seq(Tokens), NEW n \in Nat, NEW at \in 1..(Len(txt) + 1)
  PROVE  /\ n = 0 => Builder(txt)[n][at] = Refused
         /\ n # 0 /\ n <= StackLimit + 1 =>
              /\ Builder(txt)[n][at] = BuildValue(txt, Builder(txt)[n - 1], StackLimit + 1 - n, at)
              /\ ~TooDeep(StackLimit + 1 - n)
<1>1. Builder(txt)[n][at] = BuildValue(txt, IF n = 0 THEN <<>> ELSE Builder(txt)[n - 1], StackLimit + 1 - n, at)
  <2>1. Builder(txt)[n] = [q \in 1..(Len(txt) + 1) |->
                             BuildValue(txt, IF n = 0 THEN <<>> ELSE Builder(txt)[n - 1], StackLimit + 1 - n, q)]
    BY BuilderRec, Zenon
  <2>. QED BY <2>1, Zenon
<1>2. StackLimit + 1 - 0 > StackLimit /\ (n # 0 => ~(StackLimit + 1 - n > StackLimit))
  BY StackLimitAssumption
<1>3. n = 0 => TooDeep(StackLimit + 1 - n)
  BY <1>2 DEF TooDeep
<1>4. n # 0 => ~TooDeep(StackLimit + 1 - n)
  BY <1>2 DEF TooDeep
<1>5. n = 0 => Builder(txt)[n][at] = Refused
  BY <1>1, <1>3 DEF BuildValue
<1>. QED BY <1>1, <1>4, <1>5

LEMMA ReadOfIsPresent ==
  ASSUME NEW V, NEW v \in ValuesOver(V), NEW r
  PROVE  ReadOf(v, r) # Absent
<1>1. CASE v \in Scalars
  BY <1>1 DEF ReadOf, Scalars, Number, Absent, JNull, JInt
<1>2. ASSUME NEW items, v = JArray(items) PROVE ReadOf(v, r) # Absent
  BY <1>2 DEF ReadOf, JArray, Absent
<1>3. ASSUME NEW entries, v = JObject(entries) PROVE ReadOf(v, r) # Absent
  BY <1>3 DEF ReadOf, JObject, Absent
<1>. QED BY <1>1, <1>2, <1>3, ValueForms

LEMMA AsReadIsPresent == \A n \in Nat : \A v \in Values[n] : AsRead[n][v] # Absent
<1>1. ASSUME NEW n \in Nat, NEW v \in Values[n] PROVE AsRead[n][v] # Absent
  <2>1. v \in ValuesOver(Below(n)) /\ AsRead[n][v] = ReadOf(v, ReadBelow(n))
    BY Levels
  <2>. QED BY <2>1, ReadOfIsPresent
<1>. QED BY <1>1

(* A list with one more item. *)
LEMMA AppendOne ==
  ASSUME NEW f, NEW n \in Nat
  PROVE  /\ [i \in 1..0 |-> f[i]] = <<>>
         /\ Append([i \in 1..n |-> f[i]], f[n + 1]) = [i \in 1..(n + 1) |-> f[i]]
<1>. DEFINE U == {f[i] : i \in 1..(n + 1)}
            s == [i \in 1..n |-> f[i]]
            r == [i \in 1..(n + 1) |-> f[i]]
<1>1. s \in Seq(U) /\ Len(s) = n /\ r \in Seq(U) /\ Len(r) = n + 1 /\ f[n + 1] \in U
  OBVIOUS
<1>2. \A i \in 1..n : s[i] = f[i]
  OBVIOUS
<1>3. \A i \in 1..(n + 1) : r[i] = f[i]
  OBVIOUS
<1>4. [i \in 1..0 |-> f[i]] = <<>>
  OBVIOUS
<1>. HIDE DEF s, r, U
<1>5. Append(s, f[n + 1]) \in Seq(U) /\ Len(Append(s, f[n + 1])) = n + 1 /\ Append(s, f[n + 1])[n + 1] = f[n + 1]
        /\ \A i \in 1..n : Append(s, f[n + 1])[i] = f[i]
  BY <1>1, <1>2, AppendProperties
<1>6. \A i \in 1..(n + 1) : Append(s, f[n + 1])[i] = r[i]
  <2>1. \A i \in 1..(n + 1) : i \in 1..n \/ i = n + 1
    OBVIOUS
  <2>. QED BY <1>3, <1>5, <2>1
<1>7. Append(s, f[n + 1]) = r
  BY <1>1, <1>5, <1>6, SeqEqual
<1>. QED BY <1>4, <1>7 DEF s, r

(* One level down, where the text holds what was written of a value, it is read or refused. *)
ReadsNested(txt, inner, V, w, r, U) ==
  /\ \A u \in V : w[u] \in Phrases /\ r[u] # Absent
  /\ \A u \in V, q \in Nat \ {0} :
        Holds(txt, q, w[u]) => inner[q] = IF u \in U THEN Read(r[u], q + Len(w[u])) ELSE Refused

(* A text with what was written of an array is read as that array when everything in it is read. *)
LEMMA ArrayRoundTrip ==
  ASSUME NEW txt \in Seq(Tokens), NEW at \in Nat \ {0}, NEW V, NEW w, NEW r, NEW U, NEW inner, NEW depth,
         NEW items \in Seq(V), ReadsNested(txt, inner, V, w, r, U),
         ~TooDeep(depth), Holds(txt, at, TextOf(JArray(items), w))
  PROVE  BuildValue(txt, inner, depth, at)
           = IF items \in Seq(U) THEN Read(ReadOf(JArray(items), r), at + Len(TextOf(JArray(items), w)))
             ELSE Refused
<1>0. /\ \A u \in V : w[u] \in Phrases /\ r[u] # Absent
      /\ \A u \in V, q \in Nat \ {0} :
            Holds(txt, q, w[u]) => inner[q] = IF u \in U THEN Read(r[u], q + Len(w[u])) ELSE Refused
  BY DEF ReadsNested
<1>. USE <1>0
<1>. DEFINE texts == ItemTexts(items, w)
            n == Len(texts)
            m == Separated(texts)
            f == [i \in Nat |-> r[items[i]]]
            lists == [k \in Nat |-> JArray([i \in 1..k |-> f[i]])]
            Good == {i \in 1..n : items[i] \in U}
<1>1. TextOf(JArray(items), w) = Token("ArrayBegin") \o m \o Token("ArrayEnd")
  BY DEF TextOf, JArray
<1>2. DOMAIN items = 1..Len(items) /\ Len(items) \in Nat /\ \A i \in 1..Len(items) : items[i] \in V
  BY LenProperties, ElementOfSeq
<1>3. texts \in Seq(Phrases) /\ n = Len(items) /\ n \in Nat /\ \A i \in 1..n : texts[i] = w[items[i]]
  BY <1>2 DEF ItemTexts
<1>4. m \in Seq(Tokens)
  <2>1. n \in 0..n
    BY <1>3
  <2>. HIDE DEF texts
  <2>. QED BY <1>3, <2>1, JoinedType DEF Separated
<1>. HIDE DEF texts
<1>5. /\ Len(TextOf(JArray(items), w)) = Len(m) + 2
      /\ Tok(txt, at) = "ArrayBegin" /\ Holds(txt, at + 1, m) /\ Tok(txt, at + 1 + Len(m)) = "ArrayEnd"
  BY <1>1, <1>4, HoldsBracketed DEF Marks
<1>6. m = Joined(texts)[n] /\ Len(m) \in Nat
  BY <1>4, LenProperties DEF Separated
<1>. HIDE DEF m
<1>7. lists[0] = JArray(<<>>)
  BY AppendOne
<1>8. \A k \in 0..n : lists[k] # Absent
  BY <1>3 DEF JArray, Absent
<1>9. ASSUME NEW k \in Nat, NEW q \in Nat \ {0}, k < n, Holds(txt, q, texts[k + 1])
      PROVE  Part(txt, inner, "ArrayEnd", Read(lists[k], q))
               = IF k + 1 \in Good THEN Read(lists[k + 1], q + Len(texts[k + 1])) ELSE Refused
  <2>. DEFINE u == items[k + 1]
  <2>1. k + 1 \in 1..n /\ k + 1 \in 1..Len(items)
    BY <1>3, <1>9
  <2>2. u \in V /\ texts[k + 1] = w[u] /\ f[k + 1] = r[u] /\ (k + 1 \in Good <=> u \in U)
    BY <1>2, <1>3, <2>1
  <2>3. inner[q] = IF u \in U THEN Read(r[u], q + Len(w[u])) ELSE Refused
    BY <1>9, <2>2
  <2>4. Part(txt, inner, "ArrayEnd", Read(lists[k], q))
          = IF inner[q].value = Absent THEN Refused ELSE Read(PushValue(lists[k], inner[q].value), inner[q].next)
    BY DEF Part, Item, Read
  <2>5. PushValue(lists[k], r[u]) = lists[k + 1]
    <3>1. Append([i \in 1..k |-> f[i]], f[k + 1]) = [i \in 1..(k + 1) |-> f[i]]
      BY AppendOne
    <3>2. lists[k] = JArray([i \in 1..k |-> f[i]]) /\ lists[k + 1] = JArray([i \in 1..(k + 1) |-> f[i]])
      OBVIOUS
    <3>. HIDE DEF f, lists
    <3>3. PushValue(lists[k], f[k + 1]) = JArray(Append([i \in 1..k |-> f[i]], f[k + 1]))
      BY <3>2 DEF PushValue, JArray
    <3>. QED BY <2>2, <3>1, <3>2, <3>3
  <2>. HIDE DEF f, lists, Good, u
  <2>6. CASE u \in U
    <3>1. inner[q].value = r[u] /\ inner[q].next = q + Len(w[u]) /\ r[u] # Absent
      BY <2>2, <2>3, <2>6 DEF Read
    <3>. QED BY <2>2, <2>4, <2>5, <2>6, <3>1
  <2>7. CASE u \notin U
    BY <2>2, <2>3, <2>4, <2>7, RefusedEnds
  <2>. QED BY <2>6, <2>7
<1>10. BuildValue(txt, inner, depth, at) = BuildList(txt, inner, "ArrayEnd", Read(JArray(<<>>), at + 1))
  BY <1>5 DEF BuildValue
<1>11. BuildList(txt, inner, "ArrayEnd", Read(lists[0], at + 1))
         = IF Good = 1..n THEN Read(lists[n], at + 1 + Len(m) + 1) ELSE Refused
  <2>1. at + 1 \in Nat \ {0} /\ Good \in SUBSET (1..n)
    OBVIOUS
  <2>2. Holds(txt, at + 1, Joined(texts)[Len(texts)]) /\ Tok(txt, at + 1 + Len(Joined(texts)[Len(texts)])) = "ArrayEnd"
    BY <1>5, <1>6
  <2>3. \A k \in Nat, q \in Nat \ {0} :
           k < Len(texts) /\ Holds(txt, q, texts[k + 1])
             => Part(txt, inner, "ArrayEnd", Read(lists[k], q))
                  = IF k + 1 \in Good THEN Read(lists[k + 1], q + Len(texts[k + 1])) ELSE Refused
    BY <1>9
  <2>. DEFINE p == at + 1
              closing == "ArrayEnd"
  <2>4. closing \in {"ArrayEnd", "ObjectEnd"}
    OBVIOUS
  <2>5. \A k \in 0..Len(texts) : lists[k] # Absent
    BY <1>8
  <2>. HIDE DEF lists, Good, p, closing
  <2>6. BuildList(txt, inner, closing, Read(lists[0], p))
         = IF Good = 1..Len(texts)
           THEN Read(lists[Len(texts)], p + Len(Joined(texts)[Len(texts)]) + 1) ELSE Refused
    <3>1. p \in Nat \ {0} /\ Holds(txt, p, Joined(texts)[Len(texts)])
            /\ Tok(txt, p + Len(Joined(texts)[Len(texts)])) = closing
      BY <2>1, <2>2 DEF p, closing
    <3>2. \A k \in Nat, q \in Nat \ {0} :
             k < Len(texts) /\ Holds(txt, q, texts[k + 1])
               => Part(txt, inner, closing, Read(lists[k], q))
                    = IF k + 1 \in Good THEN Read(lists[k + 1], q + Len(texts[k + 1])) ELSE Refused
      BY <2>3 DEF closing
    <3>3. ReadsParts(txt, inner, closing, p, texts, lists, Good)
      BY <1>3, <2>1, <2>4, <2>5, <3>1, <3>2, Zenon DEF ReadsParts
    <3>. QED BY <3>3, ListRead
  <2>. QED BY <1>6, <2>6 DEF p, closing
<1>12. Good = 1..n <=> items \in Seq(U)
  <2>1. ASSUME Good = 1..n PROVE items \in Seq(U)
    <3>1. \A i \in 1..Len(items) : items[i] \in U
      BY <1>3, <2>1
    <3>2. items = [i \in 1..Len(items) |-> items[i]]
      BY <1>2
    <3>3. [i \in 1..Len(items) |-> items[i]] \in Seq(U)
      BY <1>2, <3>1
    <3>. QED BY <3>2, <3>3
  <2>2. ASSUME items \in Seq(U) PROVE Good = 1..n
    <3>1. \A i \in 1..n : items[i] \in U
      BY <1>3, <2>2, ElementOfSeq
    <3>. QED BY <3>1
  <2>. QED BY <2>1, <2>2
<1>13. lists[n] = ReadOf(JArray(items), r)
  <2>1. lists[n] = JArray([i \in 1..n |-> r[items[i]]])
    <3>1. [i \in 1..n |-> f[i]] = [i \in 1..n |-> r[items[i]]]
      BY <1>3
    <3>2. lists[n] = JArray([i \in 1..n |-> f[i]])
      BY <1>3
    <3>. QED BY <3>1, <3>2
  <2>2. ReadOf(JArray(items), r) = JArray([i \in DOMAIN items |-> r[items[i]]])
    BY DEF ReadOf, JArray
  <2>. QED BY <1>2, <1>3, <2>1, <2>2
<1>14. at + 1 + Len(m) + 1 = at + Len(TextOf(JArray(items), w))
  <2>. DEFINE z == Len(m)
  <2>0. z \in Nat
    BY <1>6
  <2>. HIDE DEF z
  <2>1. at + 1 + z + 1 = at + (z + 2)
    BY <2>0
  <2>. QED BY <1>5, <2>1, Zenon DEF z
<1>. HIDE DEF lists, Good, n
<1>. QED BY <1>7, <1>10, <1>11, <1>12, <1>13, <1>14

LEMMA TwoMore == \A q, l \in Nat : (q + 2) + l = q + (2 + l)
  OBVIOUS

EntriesOver(V) == Seq([key : STRING, value : V])

(* The same for an object: no key comes twice, so that every entry is put behind those before it. *)
LEMMA ObjectRoundTrip ==
  ASSUME NEW txt \in Seq(Tokens), NEW at \in Nat \ {0}, NEW V, NEW w, NEW r, NEW U, NEW inner, NEW depth,
         NEW entries \in EntriesOver(V), Distinct(entries),
         ReadsNested(txt, inner, V, w, r, U),
         ~TooDeep(depth), Holds(txt, at, TextOf(JObject(entries), w))
  PROVE  BuildValue(txt, inner, depth, at)
           = IF entries \in EntriesOver(U)
             THEN Read(ReadOf(JObject(entries), r), at + Len(TextOf(JObject(entries), w)))
             ELSE Refused
<1>. USE DEF EntriesOver
<1>0. /\ \A u \in V : w[u] \in Phrases /\ r[u] # Absent
      /\ \A u \in V, q \in Nat \ {0} :
            Holds(txt, q, w[u]) => inner[q] = IF u \in U THEN Read(r[u], q + Len(w[u])) ELSE Refused
  BY DEF ReadsNested
<1>. USE <1>0
<1>. DEFINE texts == EntryTexts(entries, w)
            n == Len(texts)
            m == Separated(texts)
            f == [i \in Nat |-> Entry(entries[i].key, r[entries[i].value])]
            lists == [k \in Nat |-> JObject([i \in 1..k |-> f[i]])]
            Good == {i \in 1..n : entries[i].value \in U}
<1>1. TextOf(JObject(entries), w) = Token("ObjectBegin") \o m \o Token("ObjectEnd")
  BY DEF TextOf, JObject
<1>2. /\ DOMAIN entries = 1..Len(entries) /\ Len(entries) \in Nat
      /\ \A i \in 1..Len(entries) : entries[i] \in [key : STRING, value : V]
  BY LenProperties, ElementOfSeq
<1>3. texts \in Seq(Phrases) /\ n = Len(entries) /\ n \in Nat
        /\ \A i \in 1..n : texts[i] = StringToken(entries[i].key) \o Token("ObjectPairSeparator") \o w[entries[i].value]
  <2>1. texts \in Seq(Phrases)
    <3>1. JNull \in ValuesOver(V)
      BY FormsAreValues DEF Scalars
    <3>. QED BY <3>1, TextOfType
  <2>2. DOMAIN texts = 1..Len(entries)
    BY <1>2 DEF EntryTexts
  <2>3. \A i \in 1..Len(entries) : texts[i] = StringToken(entries[i].key) \o Token("ObjectPairSeparator") \o w[entries[i].value]
    BY <1>2 DEF EntryTexts
  <2>. HIDE DEF texts
  <2>4. n = Len(entries)
    BY <1>2, <2>1, <2>2, LenProperties
  <2>. QED BY <1>2, <2>1, <2>3, <2>4
<1>4. m \in Seq(Tokens)
  <2>1. n \in 0..n
    BY <1>3
  <2>. HIDE DEF texts
  <2>. QED BY <1>3, <2>1, JoinedType DEF Separated
<1>. HIDE DEF texts
<1>5. /\ Len(TextOf(JObject(entries), w)) = Len(m) + 2
      /\ Tok(txt, at) = "ObjectBegin" /\ Holds(txt, at + 1, m) /\ Tok(txt, at + 1 + Len(m)) = "ObjectEnd"
  BY <1>1, <1>4, HoldsBracketed DEF Marks
<1>6. m = Joined(texts)[n] /\ Len(m) \in Nat
  BY <1>4, LenProperties DEF Separated
<1>. HIDE DEF m
<1>7. lists[0] = JObject(<<>>)
  BY AppendOne
<1>8. \A k \in 0..n : lists[k] # Absent
  BY <1>3 DEF JObject, Absent
<1>9. ASSUME NEW k \in Nat, NEW q \in Nat \ {0}, k < n, Holds(txt, q, texts[k + 1])
      PROVE  Part(txt, inner, "ObjectEnd", Read(lists[k], q))
               = IF k + 1 \in Good THEN Read(lists[k + 1], q + Len(texts[k + 1])) ELSE Refused
  <2>. DEFINE u == entries[k + 1].value
              s == entries[k + 1].key
  <2>1. k + 1 \in 1..n /\ k + 1 \in 1..Len(entries)
    BY <1>3, <1>9
  <2>2. u \in V /\ s \in STRING /\ f[k + 1] = Entry(s, r[u]) /\ (k + 1 \in Good <=> u \in U)
          /\ texts[k + 1] = StringToken(s) \o Token("ObjectPairSeparator") \o w[u] /\ w[u] \in Seq(Tokens)
    <3>1. entries[k + 1] \in [key : STRING, value : V]
      BY <1>2, <2>1
    <3>2. u \in V /\ s \in STRING
      BY <3>1
    <3>3. w[u] \in Seq(Tokens)
      BY <3>2 DEF Phrases
    <3>4. texts[k + 1] = StringToken(s) \o Token("ObjectPairSeparator") \o w[u]
      BY <1>3, <2>1
    <3>5. f[k + 1] = Entry(s, r[u])
      OBVIOUS
    <3>6. k + 1 \in Good <=> u \in U
      BY <2>1
    <3>. HIDE DEF f, u, s, Good
    <3>. QED BY <3>2, <3>3, <3>4, <3>5, <3>6
  <2>. HIDE DEF u, s
  <2>3. KeyAt(txt, q) /\ txt[q].string = s /\ Holds(txt, q + 2, w[u]) /\ Len(texts[k + 1]) = 2 + Len(w[u])
    <3>. DEFINE x == StringToken(s) \o Token("ObjectPairSeparator") \o w[u]
    <3>1. Len(x) = 2 + Len(w[u]) /\ (Holds(txt, q, x) <=> KeyAt(txt, q) /\ txt[q].string = s /\ Holds(txt, q + 2, w[u]))
      BY <2>2, HoldsKeyed
    <3>2. texts[k + 1] = x
      BY <2>2
    <3>. HIDE DEF x
    <3>. QED BY <1>9, <3>1, <3>2
  <2>4. inner[q + 2] = IF u \in U THEN Read(r[u], (q + 2) + Len(w[u])) ELSE Refused
    BY <2>2, <2>3, q + 2 \in Nat \ {0}
  <2>5. Part(txt, inner, "ObjectEnd", Read(lists[k], q))
          = IF inner[q + 2].value = Absent THEN Refused
            ELSE Read(SetValue(lists[k], s, inner[q + 2].value), inner[q + 2].next)
    BY <2>3 DEF Part, KeyedItem, Read
  <2>6. SetValue(lists[k], s, r[u]) = lists[k + 1]
    <3>1. Append([i \in 1..k |-> f[i]], f[k + 1]) = [i \in 1..(k + 1) |-> f[i]]
      BY AppendOne
    <3>2. lists[k] = JObject([i \in 1..k |-> f[i]]) /\ lists[k + 1] = JObject([i \in 1..(k + 1) |-> f[i]])
      OBVIOUS
    <3>3. s \notin Keys(lists[k])
      <4>1. \A i \in 1..k : f[i].key = entries[i].key /\ i \in DOMAIN entries /\ i # k + 1
        BY <1>2, <1>3, <1>9 DEF Entry
      <4>2. \A i \in 1..k : f[i].key # s
        BY <1>2, <2>1, <4>1 DEF Distinct, s
      <4>3. Keys(lists[k]) = {f[i].key : i \in 1..k}
        <5>. HIDE DEF f, lists
        <5>. DEFINE g == [i \in 1..k |-> f[i]]
        <5>1. DOMAIN g = 1..k /\ \A i \in 1..k : g[i] = f[i]
          OBVIOUS
        <5>2. lists[k] = JObject(g)
          BY <3>2, Zenon DEF g
        <5>. HIDE DEF g
        <5>3. lists[k].entries = g
          BY <5>2 DEF JObject
        <5>. QED BY <5>1, <5>3 DEF Keys, ToSet
      <4>. HIDE DEF f, lists
      <4>. QED BY <4>2, <4>3
    <3>. HIDE DEF f, lists
    <3>4. SetValue(lists[k], s, r[u]) = JObject(Append([i \in 1..k |-> f[i]], f[k + 1]))
      BY <2>2, <3>2, <3>3 DEF SetValue, JObject
    <3>. QED BY <3>1, <3>2, <3>4
  <2>. HIDE DEF f, lists, Good
  <2>7. CASE u \in U
    <3>1. inner[q + 2].value = r[u] /\ inner[q + 2].next = (q + 2) + Len(w[u]) /\ r[u] # Absent
      BY <2>2, <2>4, <2>7 DEF Read
    <3>2. Len(w[u]) \in Nat
      BY <2>2, LenProperties
    <3>3. (q + 2) + Len(w[u]) = q + Len(texts[k + 1])
      <4>1. (q + 2) + Len(w[u]) = q + (2 + Len(w[u]))
        BY <3>2, TwoMore
      <4>. QED BY <4>1, <2>3, Zenon
    <3>. QED BY <2>2, <2>5, <2>6, <2>7, <3>1, <3>3
  <2>8. CASE u \notin U
    BY <2>2, <2>4, <2>5, <2>8, RefusedEnds
  <2>. QED BY <2>7, <2>8
<1>10. BuildValue(txt, inner, depth, at) = BuildList(txt, inner, "ObjectEnd", Read(JObject(<<>>), at + 1))
  BY <1>5 DEF BuildValue
<1>11. BuildList(txt, inner, "ObjectEnd", Read(lists[0], at + 1))
         = IF Good = 1..n THEN Read(lists[n], at + 1 + Len(m) + 1) ELSE Refused
  <2>1. at + 1 \in Nat \ {0} /\ Good \in SUBSET (1..n)
    OBVIOUS
  <2>2. Holds(txt, at + 1, Joined(texts)[Len(texts)]) /\ Tok(txt, at + 1 + Len(Joined(texts)[Len(texts)])) = "ObjectEnd"
    BY <1>5, <1>6
  <2>3. \A k \in Nat, q \in Nat \ {0} :
           k < Len(texts) /\ Holds(txt, q, texts[k + 1])
             => Part(txt, inner, "ObjectEnd", Read(lists[k], q))
                  = IF k + 1 \in Good THEN Read(lists[k + 1], q + Len(texts[k + 1])) ELSE Refused
    BY <1>9
  <2>. DEFINE p == at + 1
              closing == "ObjectEnd"
  <2>4. closing \in {"ArrayEnd", "ObjectEnd"}
    OBVIOUS
  <2>5. \A k \in 0..Len(texts) : lists[k] # Absent
    BY <1>8
  <2>. HIDE DEF lists, Good, p, closing
  <2>6. BuildList(txt, inner, closing, Read(lists[0], p))
         = IF Good = 1..Len(texts)
           THEN Read(lists[Len(texts)], p + Len(Joined(texts)[Len(texts)]) + 1) ELSE Refused
    <3>1. p \in Nat \ {0} /\ Holds(txt, p, Joined(texts)[Len(texts)])
            /\ Tok(txt, p + Len(Joined(texts)[Len(texts)])) = closing
      BY <2>1, <2>2 DEF p, closing
    <3>2. \A k \in Nat, q \in Nat \ {0} :
             k < Len(texts) /\ Holds(txt, q, texts[k + 1])
               => Part(txt, inner, closing, Read(lists[k], q))
                    = IF k + 1 \in Good THEN Read(lists[k + 1], q + Len(texts[k + 1])) ELSE Refused
      BY <2>3 DEF closing
    <3>3. ReadsParts(txt, inner, closing, p, texts, lists, Good)
      BY <1>3, <2>1, <2>4, <2>5, <3>1, <3>2, Zenon DEF ReadsParts
    <3>. QED BY <3>3, ListRead
  <2>. QED BY <1>6, <2>6 DEF p, closing
<1>12. Good = 1..n <=> entries \in Seq([key : STRING, value : U])
  <2>1. ASSUME Good = 1..n PROVE entries \in Seq([key : STRING, value : U])
    <3>1. \A i \in 1..Len(entries) : entries[i] \in [key : STRING, value : U]
      BY <1>2, <1>3, <2>1
    <3>2. entries = [i \in 1..Len(entries) |-> entries[i]]
      BY <1>2
    <3>3. [i \in 1..Len(entries) |-> entries[i]] \in Seq([key : STRING, value : U])
      BY <1>2, <3>1
    <3>. QED BY <3>2, <3>3
  <2>2. ASSUME entries \in Seq([key : STRING, value : U]) PROVE Good = 1..n
    <3>1. \A i \in 1..n : entries[i] \in [key : STRING, value : U]
      BY <1>3, <2>2, ElementOfSeq
    <3>. QED BY <3>1
  <2>. QED BY <2>1, <2>2
<1>13. lists[n] = ReadOf(JObject(entries), r)
  <2>1. lists[n] = JObject([i \in 1..n |-> Entry(entries[i].key, r[entries[i].value])])
    <3>1. [i \in 1..n |-> f[i]] = [i \in 1..n |-> Entry(entries[i].key, r[entries[i].value])]
      BY <1>3
    <3>2. lists[n] = JObject([i \in 1..n |-> f[i]])
      BY <1>3
    <3>. QED BY <3>1, <3>2
  <2>2. ReadOf(JObject(entries), r) = JObject([i \in DOMAIN entries |-> Entry(entries[i].key, r[entries[i].value])])
    BY DEF ReadOf, JObject
  <2>. QED BY <1>2, <1>3, <2>1, <2>2
<1>14. at + 1 + Len(m) + 1 = at + Len(TextOf(JObject(entries), w))
  <2>. DEFINE z == Len(m)
  <2>0. z \in Nat
    BY <1>6
  <2>. HIDE DEF z
  <2>1. at + 1 + z + 1 = at + (z + 2)
    BY <2>0
  <2>. QED BY <1>5, <2>1, Zenon DEF z
<1>. HIDE DEF lists, Good, n
<1>. QED BY <1>7, <1>10, <1>11, <1>12, <1>13, <1>14

----------------------------------------------------------------------------
(* Every value. *)

(* Where a text holds what was written of a value, the value is read with n levels left if it is
   nested no deeper than that, and nothing is otherwise. *)
RoundTrips(V, w, r) ==
    \A n \in 0..(StackLimit + 1), txt \in Seq(Tokens), at \in Nat \ {0} : \A v \in V :
        Holds(txt, at, w[v])
          => Builder(txt)[n][at] = IF v \in Below(n) THEN Read(r[v], at + Len(w[v])) ELSE Refused

LEMMA LevelRoundTrips ==
  ASSUME NEW d \in Nat, RoundTrips(Below(d), TextBelow(d), ReadBelow(d))
  PROVE  RoundTrips(Values[d], Written[d], AsRead[d])
<1>. SUFFICES ASSUME NEW n \in 0..(StackLimit + 1), NEW txt \in Seq(Tokens), NEW at \in Nat \ {0}, NEW v \in Values[d],
                     Holds(txt, at, Written[d][v])
              PROVE  Builder(txt)[n][at]
                       = IF v \in Below(n) THEN Read(AsRead[d][v], at + Len(Written[d][v])) ELSE Refused
  BY DEF RoundTrips
<1>. DEFINE V == Below(d)
            w == TextBelow(d)
            r == ReadBelow(d)
<1>1. v \in ValuesOver(V) /\ Written[d][v] = TextOf(v, w) /\ AsRead[d][v] = ReadOf(v, r)
  BY Levels
<1>2. n \in Nat /\ n <= StackLimit + 1
  BY StackLimitAssumption
<1>3. at \in 1..(Len(txt) + 1) /\ at \in DOMAIN txt
  <2>1. at \in DOMAIN txt
    BY WrittenType, HoldsPhrase
  <2>. QED BY <2>1, LenProperties
<1>4. CASE n = 0
  BY <1>2, <1>3, <1>4, BuilderSteps, NothingBelowZero
<1>5. CASE n # 0
  <2>. DEFINE U == Below(n - 1)
              inner == Builder(txt)[n - 1]
              depth == StackLimit + 1 - n
  <2>1. n - 1 \in 0..(StackLimit + 1) /\ n - 1 \in Nat
    BY <1>2, <1>5, StackLimitAssumption
  <2>2. Builder(txt)[n][at] = BuildValue(txt, inner, depth, at) /\ ~TooDeep(depth)
    BY <1>2, <1>3, <1>5, BuilderSteps
  <2>3. Below(n) = ValuesOver(U)
    <3>1. Below(n) = Values[n - 1]
      BY <1>5 DEF Below
    <3>. QED BY <2>1, <3>1, Levels
  <2>9. /\ \A x \in Scalars : x \in Below(n)
        /\ \A items : JArray(items) \in Below(n) <=> items \in Seq(U)
        /\ \A entries : JObject(entries) \in Below(n)
                           <=> entries \in Seq([key : STRING, value : U]) /\ Distinct(entries)
    <3>. HIDE DEF U
    <3>1. /\ Scalars \subseteq ValuesOver(U)
          /\ \A items : JArray(items) \in ValuesOver(U) <=> items \in Seq(U)
          /\ \A entries : JObject(entries) \in ValuesOver(U)
                             <=> entries \in Seq([key : STRING, value : U]) /\ Distinct(entries)
      BY FormsAreValues
    <3>2. ASSUME NEW W, W = ValuesOver(U)
          PROVE  /\ \A x \in Scalars : x \in W
                 /\ \A items : JArray(items) \in W <=> items \in Seq(U)
                 /\ \A entries : JObject(entries) \in W
                                    <=> entries \in Seq([key : STRING, value : U]) /\ Distinct(entries)
      BY <3>1, <3>2
    <3>. QED BY <2>3, <3>2
  <2>4. \A u \in V : w[u] \in Phrases /\ r[u] # Absent
    <3>1. CASE d = 0
      BY <3>1, NothingBelowZero
    <3>2. CASE d # 0
      BY <3>2, NothingBelowZero, WrittenType, AsReadIsPresent
    <3>. QED BY <3>1, <3>2
  <2>5. \A u \in V, q \in Nat \ {0} :
            Holds(txt, q, w[u]) => inner[q] = IF u \in U THEN Read(r[u], q + Len(w[u])) ELSE Refused
    BY <2>1 DEF RoundTrips
  <2>10. ReadsNested(txt, inner, V, w, r, U)
    <3>. HIDE DEF U, inner, V, w, r
    <3>. QED BY <2>4, <2>5 DEF ReadsNested
  <2>. HIDE DEF U, inner, depth, V, w, r
  <2>6. CASE v \in Scalars
    <3>1. PICK k \in Tokens :
           /\ TextOf(v, w) = <<k>>
           /\ \A t, a, i, e, x : a \in DOMAIN t /\ t[a] = k /\ ~TooDeep(e) => BuildValue(t, i, e, a) = Read(ReadOf(v, x), a + 1)
      BY <2>6, ScalarText
    <3>2. txt[at] = k
      BY <1>1, <3>1, HoldsOne
    <3>3. BuildValue(txt, inner, depth, at) = Read(ReadOf(v, r), at + 1)
      BY <1>3, <2>2, <3>1, <3>2
    <3>4. Len(TextOf(v, w)) = 1
      BY <3>1, OneToken
    <3>5. v \in Below(n)
      BY <2>6, <2>9
    <3>. QED BY <1>1, <2>2, <3>3, <3>4, <3>5, Zenon
  <2>7. ASSUME NEW items \in Seq(V), v = JArray(items)
        PROVE  Builder(txt)[n][at]
                 = IF v \in Below(n) THEN Read(AsRead[d][v], at + Len(Written[d][v])) ELSE Refused
    <3>1. Holds(txt, at, TextOf(JArray(items), w))
      BY <1>1, <2>7
    <3>2. BuildValue(txt, inner, depth, at)
            = IF items \in Seq(U) THEN Read(ReadOf(JArray(items), r), at + Len(TextOf(JArray(items), w))) ELSE Refused
      BY <2>2, <2>10, <3>1, ArrayRoundTrip
    <3>3. v \in Below(n) <=> items \in Seq(U)
      BY <2>7, <2>9
    <3>. QED BY <1>1, <2>2, <2>7, <3>2, <3>3, Zenon
  <2>8. ASSUME NEW entries \in Seq([key : STRING, value : V]), v = JObject(entries), Distinct(entries)
        PROVE  Builder(txt)[n][at]
                 = IF v \in Below(n) THEN Read(AsRead[d][v], at + Len(Written[d][v])) ELSE Refused
    <3>1. Holds(txt, at, TextOf(JObject(entries), w))
      BY <1>1, <2>8
    <3>2. BuildValue(txt, inner, depth, at)
            = IF entries \in Seq([key : STRING, value : U])
              THEN Read(ReadOf(JObject(entries), r), at + Len(TextOf(JObject(entries), w))) ELSE Refused
      <4>1. ~TooDeep(depth) /\ Distinct(entries) /\ entries \in EntriesOver(V)
        BY <2>2, <2>8 DEF EntriesOver
      <4>2. BuildValue(txt, inner, depth, at)
              = IF entries \in EntriesOver(U)
                THEN Read(ReadOf(JObject(entries), r), at + Len(TextOf(JObject(entries), w))) ELSE Refused
        BY <2>10, <3>1, <4>1, ObjectRoundTrip
      <4>. QED BY <4>2 DEF EntriesOver
    <3>3. v \in Below(n) <=> entries \in Seq([key : STRING, value : U])
      BY <2>8, <2>9
    <3>. QED BY <1>1, <2>2, <2>8, <3>2, <3>3, Zenon
  <2>. QED BY <1>1, <2>6, <2>7, <2>8, ValueForms DEF V
<1>. QED BY <1>4, <1>5

LEMMA AllRoundTrip == \A d \in Nat : RoundTrips(Values[d], Written[d], AsRead[d])
<1>. DEFINE S == {d \in Nat : RoundTrips(Values[d], Written[d], AsRead[d])}
<1>1. 0 \in S
  <2>1. RoundTrips(Below(0), TextBelow(0), ReadBelow(0))
    BY NothingBelowZero DEF RoundTrips
  <2>. QED BY <2>1, LevelRoundTrips
<1>2. ASSUME NEW d \in S PROVE d + 1 \in S
  <2>1. d + 1 \in Nat /\ d + 1 # 0 /\ (d + 1) - 1 = d
    OBVIOUS
  <2>2. RoundTrips(Below(d + 1), TextBelow(d + 1), ReadBelow(d + 1))
    BY <2>1, NothingBelowZero
  <2>. QED BY <2>1, <2>2, LevelRoundTrips
<1>3. S \in SUBSET Nat
  OBVIOUS
<1>4. S = Nat
  <2>. HIDE DEF S
  <2>. QED BY <1>1, <1>2, <1>3, SetInduction
<1>. QED BY <1>4

LEMMA TextHoldsItself ==
  ASSUME NEW txt \in Seq(Tokens)
  PROVE  Holds(txt, 1, txt)
<1>1. Len(txt) \in Nat /\ \A i \in 1..Len(txt) : 1 + i - 1 = i
  BY LenProperties
<1>. QED BY <1>1 DEF Holds

(* What parseJSON makes of the text that writeJSON made of a value, of whatever level: the value, but
   for its numbers, unless it is nested deeper than stackLimit; then nothing. *)
THEOREM ParseWritten ==
  ASSUME NEW d \in Nat, NEW v \in Values[d]
  PROVE  ParseJSON(Written[d][v]) = IF v \in Values[StackLimit] THEN AsRead[d][v] ELSE Absent
<1>. DEFINE txt == Written[d][v]
            n == StackLimit + 1
<1>1. txt \in Seq(Tokens) /\ Holds(txt, 1, txt) /\ Len(txt) \in Nat
  BY WrittenType, TextHoldsItself, LenProperties DEF Phrases
<1>2. n \in 0..(StackLimit + 1) /\ n # 0 /\ n - 1 = StackLimit /\ 1 \in Nat \ {0}
  BY StackLimitAssumption
<1>3. Below(n) = Values[StackLimit]
  BY <1>2 DEF Below
<1>. HIDE DEF txt, n
<1>4. Builder(txt)[n][1] = IF v \in Values[StackLimit] THEN Read(AsRead[d][v], 1 + Len(txt)) ELSE Refused
  BY <1>1, <1>2, <1>3, AllRoundTrip DEF RoundTrips, txt
<1>5. CASE v \in Values[StackLimit]
  <2>1. Builder(txt)[n][1] = Read(AsRead[d][v], 1 + Len(txt)) /\ 1 + Len(txt) = Len(txt) + 1
    BY <1>1, <1>4, <1>5
  <2>. QED BY <1>5, <2>1 DEF ParseJSON, Read, n, txt
<1>6. CASE v \notin Values[StackLimit]
  <2>1. Builder(txt)[n][1] = Refused
    BY <1>4, <1>6
  <2>2. Refused.next # Len(txt) + 1
    BY <1>1, RefusedEnds
  <2>. QED BY <1>6, <2>1, <2>2 DEF ParseJSON, n, txt
<1>. QED BY <1>5, <1>6

----------------------------------------------------------------------------
(* A value of a level is one of every level above it, with the same text. *)

SameOn(V, w, r, V2, w2, r2) == V \subseteq V2 /\ \A v \in V : w2[v] = w[v] /\ r2[v] = r[v]

LEMMA LevelAgrees ==
  ASSUME NEW V, NEW w, NEW r, NEW V2, NEW w2, NEW r2, SameOn(V, w, r, V2, w2, r2), NEW v \in ValuesOver(V)
  PROVE  v \in ValuesOver(V2) /\ TextOf(v, w2) = TextOf(v, w) /\ ReadOf(v, r2) = ReadOf(v, r)
<1>0. V \subseteq V2 /\ \A u \in V : w2[u] = w[u] /\ r2[u] = r[u]
  BY DEF SameOn
<1>1. CASE v \in Scalars
  <2>1. v \in ValuesOver(V2)
    BY <1>1 DEF ValuesOver
  <2>2. v.t # "array" /\ v.t # "object"
    BY <1>1 DEF Scalars, JNull
  <2>3. TextOf(v, w2) = TextOf(v, w) /\ ReadOf(v, r2) = ReadOf(v, r)
    BY <2>2 DEF TextOf, ReadOf
  <2>. QED BY <2>1, <2>3
<1>2. ASSUME NEW items \in Seq(V), v = JArray(items)
      PROVE  v \in ValuesOver(V2) /\ TextOf(v, w2) = TextOf(v, w) /\ ReadOf(v, r2) = ReadOf(v, r)
  <2>1. \A i \in DOMAIN items : items[i] \in V
    BY ElementOfSeq, LenProperties
  <2>2. v \in ValuesOver(V2)
    <3>1. items \in Seq(V2)
      BY <1>0
    <3>2. JArray(items) \in ValuesOver(V2)
      BY <3>1, FormsAreValues
    <3>. QED BY <1>2, <3>2
  <2>3. ItemTexts(items, w2) = ItemTexts(items, w)
    BY <1>0, <2>1 DEF ItemTexts
  <2>4. \A x : TextOf(v, x) = Token("ArrayBegin") \o Separated(ItemTexts(items, x)) \o Token("ArrayEnd")
    BY <1>2 DEF TextOf, JArray
  <2>5. [i \in DOMAIN items |-> r2[items[i]]] = [i \in DOMAIN items |-> r[items[i]]]
    BY <1>0, <2>1
  <2>6. \A x : ReadOf(v, x) = JArray([i \in DOMAIN items |-> x[items[i]]])
    BY <1>2 DEF ReadOf, JArray
  <2>. QED BY <2>2, <2>3, <2>4, <2>5, <2>6
<1>3. ASSUME NEW entries \in Seq([key : STRING, value : V]), v = JObject(entries), Distinct(entries)
      PROVE  v \in ValuesOver(V2) /\ TextOf(v, w2) = TextOf(v, w) /\ ReadOf(v, r2) = ReadOf(v, r)
  <2>1. \A i \in DOMAIN entries : entries[i].value \in V
    <3>1. \A i \in DOMAIN entries : entries[i] \in [key : STRING, value : V]
      BY ElementOfSeq, LenProperties
    <3>. QED BY <3>1
  <2>2. v \in ValuesOver(V2)
    <3>1. entries \in Seq([key : STRING, value : V2])
      <4>1. \A i \in 1..Len(entries) : entries[i] \in [key : STRING, value : V2]
        <5>1. \A i \in 1..Len(entries) : entries[i] \in [key : STRING, value : V]
          BY ElementOfSeq
        <5>. QED BY <1>0, <5>1
      <4>2. entries = [i \in 1..Len(entries) |-> entries[i]] /\ Len(entries) \in Nat
        BY LenProperties
      <4>3. [i \in 1..Len(entries) |-> entries[i]] \in Seq([key : STRING, value : V2])
        BY <4>1, <4>2
      <4>. QED BY <4>2, <4>3
    <3>2. JObject(entries) \in ValuesOver(V2)
      BY <1>3, <3>1, FormsAreValues
    <3>. QED BY <1>3, <3>2
  <2>3. EntryTexts(entries, w2) = EntryTexts(entries, w)
    BY <1>0, <2>1 DEF EntryTexts
  <2>4. \A x : TextOf(v, x) = Token("ObjectBegin") \o Separated(EntryTexts(entries, x)) \o Token("ObjectEnd")
    BY <1>3 DEF TextOf, JObject
  <2>5. [i \in DOMAIN entries |-> Entry(entries[i].key, r2[entries[i].value])]
          = [i \in DOMAIN entries |-> Entry(entries[i].key, r[entries[i].value])]
    BY <1>0, <2>1
  <2>6. \A x : ReadOf(v, x) = JObject([i \in DOMAIN entries |-> Entry(entries[i].key, x[entries[i].value])])
    BY <1>3 DEF ReadOf, JObject
  <2>. QED BY <2>2, <2>3, <2>4, <2>5, <2>6
<1>. QED BY <1>1, <1>2, <1>3, ValueForms

Agree(d, e) == SameOn(Values[d], Written[d], AsRead[d], Values[e], Written[e], AsRead[e])

LEMMA NextAgrees == \A d \in Nat : Agree(d, d + 1)
<1>. DEFINE S == {d \in Nat : Agree(d, d + 1)}
<1>1. ASSUME NEW d \in Nat, SameOn(Below(d), TextBelow(d), ReadBelow(d), Values[d], Written[d], AsRead[d])
      PROVE  d \in S
  <2>1. d + 1 \in Nat /\ d + 1 # 0 /\ (d + 1) - 1 = d
    OBVIOUS
  <2>2. Below(d + 1) = Values[d] /\ TextBelow(d + 1) = Written[d] /\ ReadBelow(d + 1) = AsRead[d]
    BY <2>1, NothingBelowZero
  <2>3. ASSUME NEW v \in Values[d]
        PROVE  v \in Values[d + 1] /\ Written[d + 1][v] = Written[d][v] /\ AsRead[d + 1][v] = AsRead[d][v]
    <3>1. v \in ValuesOver(Below(d)) /\ Written[d][v] = TextOf(v, TextBelow(d)) /\ AsRead[d][v] = ReadOf(v, ReadBelow(d))
      BY Levels
    <3>2. v \in ValuesOver(Values[d]) /\ TextOf(v, Written[d]) = TextOf(v, TextBelow(d))
            /\ ReadOf(v, AsRead[d]) = ReadOf(v, ReadBelow(d))
      BY <1>1, <3>1, LevelAgrees
    <3>3. v \in Values[d + 1]
      BY <2>1, <2>2, <3>2, Levels
    <3>4. Written[d + 1][v] = TextOf(v, Written[d]) /\ AsRead[d + 1][v] = ReadOf(v, AsRead[d])
      <4>1. Written[d + 1][v] = TextOf(v, TextBelow(d + 1)) /\ AsRead[d + 1][v] = ReadOf(v, ReadBelow(d + 1))
        BY <2>1, <3>3, Levels
      <4>. QED BY <2>2, <4>1
    <3>. QED BY <3>1, <3>2, <3>3, <3>4
  <2>. QED BY <2>3 DEF Agree, SameOn
<1>2. 0 \in S
  BY <1>1, NothingBelowZero DEF SameOn
<1>3. ASSUME NEW d \in S PROVE d + 1 \in S
  <2>1. d + 1 \in Nat /\ d + 1 # 0 /\ (d + 1) - 1 = d
    OBVIOUS
  <2>2. SameOn(Below(d + 1), TextBelow(d + 1), ReadBelow(d + 1), Values[d + 1], Written[d + 1], AsRead[d + 1])
    BY <2>1, NothingBelowZero DEF Agree
  <2>. QED BY <1>1, <2>1, <2>2
<1>4. S \in SUBSET Nat
  OBVIOUS
<1>5. S = Nat
  <2>. HIDE DEF S
  <2>. QED BY <1>2, <1>3, <1>4, SetInduction
<1>. QED BY <1>5

LEMMA LevelsAgree == \A d, e \in Nat : d <= e => Agree(d, e)
<1>. SUFFICES ASSUME NEW d \in Nat PROVE \A e \in Nat : d <= e => Agree(d, e)
  OBVIOUS
<1>. DEFINE S == {k \in Nat : Agree(d, d + k)}
<1>1. 0 \in S
  <2>1. Agree(d, d)
    BY DEF Agree, SameOn
  <2>. QED BY <2>1
<1>2. ASSUME NEW k \in S PROVE k + 1 \in S
  <2>1. d + k \in Nat /\ d + (k + 1) = (d + k) + 1
    OBVIOUS
  <2>2. Agree(d, d + k) /\ Agree(d + k, (d + k) + 1)
    BY <2>1, NextAgrees
  <2>3. ASSUME NEW e, NEW e2, Agree(d, e), Agree(e, e2) PROVE Agree(d, e2)
    BY <2>3 DEF Agree, SameOn
  <2>. QED BY <2>1, <2>2, <2>3
<1>3. S \in SUBSET Nat
  OBVIOUS
<1>4. S = Nat
  <2>. HIDE DEF S
  <2>. QED BY <1>1, <1>2, <1>3, SetInduction
<1>5. ASSUME NEW e \in Nat, d <= e PROVE Agree(d, e)
  <2>1. e - d \in Nat /\ d + (e - d) = e
    BY <1>5
  <2>2. Agree(d, d + (e - d))
    BY <1>4, <2>1
  <2>. QED BY <2>1, <2>2
<1>. QED BY <1>5

----------------------------------------------------------------------------
(* What the parser accepts. *)

Plain(txt) == KeysOnce(txt) /\ NormalNumbers(txt) /\ FiniteNumbers(txt)

(* What is read at a position is a value that reading and writing leave as it is, if no number is
   infinite; and it is what the writer makes of it that stands there, if moreover no key comes twice
   and whole numbers have no fraction. *)
Accepts(txt, at, so, V, w, r) ==
    \/ so = Refused
    \/ \E v \in V, q \in (at + 1)..(Len(txt) + 1) :
         /\ so = Read(v, q) /\ (FiniteNumbers(txt) => r[v] = v)
         /\ Plain(txt) => Holds(txt, at, w[v]) /\ q = at + Len(w[v])

AcceptsNested(txt, inner, V, w, r) ==
    /\ \A at \in 1..(Len(txt) + 1) : Accepts(txt, at, inner[at], V, w, r)
    /\ \A v \in V : v # Absent /\ w[v] \in Phrases

(* The values of one level up: what is written of them and what is read of that. *)
WrittenOver(V, w) == [v \in ValuesOver(V) |-> TextOf(v, w)]
ReadOver(V, r) == [v \in ValuesOver(V) |-> ReadOf(v, r)]

(* A value that is one token. *)
LEMMA ScalarAccepted ==
  ASSUME NEW txt \in Seq(Tokens), NEW inner, NEW depth, NEW at \in 1..(Len(txt) + 1), NEW V, NEW w, NEW r,
         ~TooDeep(depth), Tok(txt, at) \in {"NullToken", "BoolTrue", "BoolFalse", "Number", "StringLiteral"}
  PROVE  Accepts(txt, at, BuildValue(txt, inner, depth, at), ValuesOver(V), WrittenOver(V, w), ReadOver(V, r))
<1>. DEFINE so == BuildValue(txt, inner, depth, at)
            StandsFor(v) == /\ v \in Scalars /\ so = Read(v, at + 1)
                            /\ FiniteNumbers(txt) => \A x : ReadOf(v, x) = v
                            /\ Plain(txt) => TextOf(v, w) = <<txt[at]>>
<1>1. at \in DOMAIN txt /\ at \in 1..Len(txt) /\ Tok(txt, at) = txt[at].tok /\ txt[at] \in Tokens
  BY TokensStand
<1>2. at \in Nat \ {0} /\ at + 1 \in (at + 1)..(Len(txt) + 1)
  BY <1>1, LenProperties
<1>. HIDE DEF so
<1>3. ASSUME NEW v, StandsFor(v)
      PROVE  Accepts(txt, at, so, ValuesOver(V), WrittenOver(V, w), ReadOver(V, r))
  <2>1. v \in ValuesOver(V)
    BY <1>3, FormsAreValues
  <2>2. WrittenOver(V, w)[v] = TextOf(v, w) /\ (FiniteNumbers(txt) => ReadOver(V, r)[v] = v)
    BY <1>3, <2>1 DEF WrittenOver, ReadOver
  <2>3. ASSUME Plain(txt) PROVE Holds(txt, at, WrittenOver(V, w)[v]) /\ at + 1 = at + Len(WrittenOver(V, w)[v])
    <3>1. WrittenOver(V, w)[v] = <<txt[at]>>
      BY <1>3, <2>2, <2>3
    <3>2. Holds(txt, at, <<txt[at]>>) /\ Len(<<txt[at]>>) = 1
      BY <1>1, <1>2, HoldsOne, OneToken
    <3>. QED BY <3>1, <3>2, Zenon
  <2>. QED BY <1>2, <1>3, <2>1, <2>2, <2>3 DEF Accepts
<1>4. CASE txt[at].tok = "NullToken"
  <2>1. txt[at] = [tok |-> "NullToken"]
    BY <1>1, <1>4 DEF Tokens
  <2>2. TextOf(JNull, w) = <<txt[at]>>
    BY <2>1, TokenTypes DEF TextOf, JNull
  <2>3. so = Read(JNull, at + 1)
    BY <1>1, <1>4 DEF so, BuildValue
  <2>4. JNull \in Scalars /\ \A x : ReadOf(JNull, x) = JNull
    BY DEF Scalars, ReadOf, JNull
  <2>5. StandsFor(JNull)
    BY <2>2, <2>3, <2>4
  <2>. HIDE DEF StandsFor
  <2>. QED BY <1>3, <2>5 DEF so
<1>5. CASE txt[at].tok = "BoolTrue"
  <2>1. txt[at] = [tok |-> "BoolTrue"]
    BY <1>1, <1>5 DEF Tokens
  <2>2. TextOf(JBool(TRUE), w) = <<txt[at]>>
    BY <2>1, TokenTypes DEF TextOf, JBool
  <2>3. so = Read(JBool(TRUE), at + 1)
    BY <1>1, <1>5 DEF so, BuildValue
  <2>4. JBool(TRUE) \in Scalars /\ \A x : ReadOf(JBool(TRUE), x) = JBool(TRUE)
    BY DEF Scalars, ReadOf, JBool
  <2>5. StandsFor(JBool(TRUE))
    BY <2>2, <2>3, <2>4
  <2>. HIDE DEF StandsFor
  <2>. QED BY <1>3, <2>5 DEF so
<1>6. CASE txt[at].tok = "BoolFalse"
  <2>1. txt[at] = [tok |-> "BoolFalse"]
    BY <1>1, <1>6 DEF Tokens
  <2>2. TextOf(JBool(FALSE), w) = <<txt[at]>>
    BY <2>1, TokenTypes DEF TextOf, JBool
  <2>3. so = Read(JBool(FALSE), at + 1)
    BY <1>1, <1>6 DEF so, BuildValue
  <2>4. JBool(FALSE) \in Scalars /\ \A x : ReadOf(JBool(FALSE), x) = JBool(FALSE)
    BY DEF Scalars, ReadOf, JBool
  <2>5. StandsFor(JBool(FALSE))
    BY <2>2, <2>3, <2>4
  <2>. HIDE DEF StandsFor
  <2>. QED BY <1>3, <2>5 DEF so
<1>7. CASE txt[at].tok = "StringLiteral"
  <2>. DEFINE s == txt[at].string
  <2>1. s \in STRING /\ txt[at] = [tok |-> "StringLiteral", string |-> s]
    BY <1>1, <1>7 DEF Tokens
  <2>2. TextOf(JString(s), w) = <<txt[at]>>
    BY <2>1, TokenTypes DEF TextOf, JString
  <2>3. so = Read(JString(s), at + 1)
    BY <1>1, <1>7 DEF so, BuildValue
  <2>4. JString(s) \in Scalars /\ \A x : ReadOf(JString(s), x) = JString(s)
    BY <2>1 DEF Scalars, ReadOf, JString
  <2>. HIDE DEF s
  <2>5. StandsFor(JString(s))
    BY <2>2, <2>3, <2>4
  <2>. HIDE DEF StandsFor
  <2>. QED BY <1>3, <2>5 DEF so
<1>8. CASE txt[at].tok = "Number"
  <2>. DEFINE x == txt[at].number
              v == Number(x)
  <2>1. x \in Numbers /\ txt[at] = [tok |-> "Number", number |-> x]
    BY <1>1, <1>8 DEF Tokens
  <2>2. so = Read(v, at + 1)
    BY <1>1, <1>8 DEF so, BuildValue
  <2>3. v \in Scalars /\ (FiniteNumbers(txt) => \A y : ReadOf(v, y) = v)
    <3>1. CASE x \in [t : {"int"}, int : Int]
      <4>1. v = x
        BY <3>1 DEF Number
      <4>. QED BY <3>1, <4>1 DEF Scalars, ReadOf
    <3>2. CASE x \in [t : {"double"}, double : Doubles \ {"nan"}] /\ x.double \in DOMAIN Whole
      <4>1. v = [t |-> "int", int |-> 7]
        BY <3>2 DEF Number, JInt, Whole
      <4>2. 7 \in Int
        OBVIOUS
      <4>. QED BY <4>1, <4>2 DEF Scalars, ReadOf
    <3>3. CASE x \in [t : {"double"}, double : Doubles \ {"nan"}] /\ x.double \notin DOMAIN Whole
      <4>1. v = x
        BY <3>3 DEF Number
      <4>2. FiniteNumbers(txt) => \A y : ReadOf(v, y) = Number(v)
        <5>. SUFFICES ASSUME FiniteNumbers(txt), NEW y PROVE ReadOf(v, y) = Number(v)
          OBVIOUS
        <5>1. ~Infinite(x)
          BY <1>1, <1>8 DEF FiniteNumbers
        <5>. HIDE DEF x, v
        <5>. QED BY <3>3, <4>1, <5>1 DEF ReadOf, Infinite
      <4>3. v \in Scalars
        BY <3>3, <4>1 DEF Scalars
      <4>. QED BY <4>1, <4>2, <4>3
    <3>. QED BY <2>1, <3>1, <3>2, <3>3 DEF Numbers
  <2>4. ASSUME Plain(txt) PROVE TextOf(v, w) = <<txt[at]>>
    <3>1. v = x
      BY <1>1, <1>8, <2>4 DEF Plain, NormalNumbers
    <3>2. TextOf(x, w) = NumberToken(x)
      <4>1. ~Infinite(x)
        BY <1>1, <1>8, <2>4 DEF Plain, FiniteNumbers
      <4>. HIDE DEF x
      <4>. QED BY <2>1, <4>1 DEF TextOf, Numbers, Infinite
    <3>. HIDE DEF x, v
    <3>. QED BY <2>1, <3>1, <3>2 DEF NumberToken
  <2>. HIDE DEF v, x
  <2>5. StandsFor(v)
    BY <2>2, <2>3, <2>4
  <2>. HIDE DEF StandsFor
  <2>. QED BY <1>3, <2>5 DEF so
<1>. QED BY <1>1, <1>4, <1>5, <1>6, <1>7, <1>8 DEF so

(* A list that is read between its brackets. *)
StandsBetween(txt, at, open, close, v, q, texts, w) ==
    /\ open \in Marks /\ close \in Marks /\ texts \in Seq(Phrases)
    /\ TextOf(v, w) = Token(open) \o Separated(texts) \o Token(close)
    /\ Tok(txt, at) = open /\ Tok(txt, q) = close /\ q >= at + 1
    /\ Plain(txt) => Holds(txt, at + 1, Separated(texts)) /\ q = at + 1 + Len(Separated(texts))

LEMMA BracketsAccepted ==
  ASSUME NEW txt \in Seq(Tokens), NEW at \in 1..(Len(txt) + 1), NEW open, NEW close, NEW V, NEW w, NEW r,
         NEW v \in ValuesOver(V), NEW q, NEW texts,
         FiniteNumbers(txt) => ReadOf(v, r) = v, StandsBetween(txt, at, open, close, v, q, texts, w)
  PROVE  Accepts(txt, at, Read(v, q + 1), ValuesOver(V), WrittenOver(V, w), ReadOver(V, r))
<1>. DEFINE m == Separated(texts)
<1>1. /\ open \in Marks /\ close \in Marks /\ texts \in Seq(Phrases)
      /\ TextOf(v, w) = Token(open) \o m \o Token(close)
      /\ Tok(txt, at) = open /\ Tok(txt, q) = close /\ q >= at + 1
      /\ Plain(txt) => Holds(txt, at + 1, m) /\ q = at + 1 + Len(m)
  BY DEF StandsBetween
<1>2. m \in Seq(Tokens) /\ Len(m) \in Nat
  <2>1. Len(texts) \in Nat
    BY <1>1, LenProperties
  <2>2. Len(texts) \in 0..Len(texts)
    BY <2>1
  <2>3. m \in Seq(Tokens)
    BY <1>1, <2>2, JoinedType DEF Separated
  <2>. QED BY <2>3, LenProperties
<1>. HIDE DEF m
<1>3. q \in 1..Len(txt)
  BY <1>1, TokensStand DEF Marks
<1>4. q + 1 \in (at + 1)..(Len(txt) + 1) /\ at \in Nat \ {0} /\ q \in Nat /\ Len(txt) \in Nat
  <2>1. Len(txt) \in Nat
    BY LenProperties
  <2>. QED BY <1>1, <1>3, <2>1
<1>5. WrittenOver(V, w)[v] = TextOf(v, w) /\ (FiniteNumbers(txt) => ReadOver(V, r)[v] = v)
  BY DEF WrittenOver, ReadOver
<1>6. ASSUME Plain(txt) PROVE Holds(txt, at, WrittenOver(V, w)[v]) /\ q + 1 = at + Len(WrittenOver(V, w)[v])
  <2>1. Holds(txt, at + 1, m) /\ q = at + 1 + Len(m)
    BY <1>1, <1>6
  <2>2. Holds(txt, at, TextOf(v, w)) /\ Len(TextOf(v, w)) = Len(m) + 2
    <3>1. Tok(txt, at + 1 + Len(m)) = close
      BY <1>1, <2>1, Zenon
    <3>2. /\ Len(Token(open) \o m \o Token(close)) = Len(m) + 2
          /\ Holds(txt, at, Token(open) \o m \o Token(close))
               <=> Tok(txt, at) = open /\ Holds(txt, at + 1, m) /\ Tok(txt, at + 1 + Len(m)) = close
      BY <1>1, <1>2, <1>4, HoldsBracketed
    <3>. QED BY <1>1, <2>1, <3>1, <3>2, Zenon
  <2>3. q + 1 = at + (Len(m) + 2)
    BY <1>2, <1>4, <2>1
  <2>. QED BY <1>5, <2>2, <2>3, Zenon
<1>. QED BY <1>4, <1>5, <1>6 DEF Accepts

LEMMA ArrayAccepted ==
  ASSUME NEW txt \in Seq(Tokens), NEW inner, NEW depth, NEW at \in 1..(Len(txt) + 1), NEW V, NEW w, NEW r,
         ~TooDeep(depth), Tok(txt, at) = "ArrayBegin", AcceptsNested(txt, inner, V, w, r)
  PROVE  Accepts(txt, at, BuildValue(txt, inner, depth, at), ValuesOver(V), WrittenOver(V, w), ReadOver(V, r))
<1>. DEFINE Fixed == {u \in V : FiniteNumbers(txt) => r[u] = u}
            Lists == {JArray(items) : items \in Seq(Fixed)}
            T == [v \in Lists |-> ItemTexts(v.items, w)]
            Sound == Lists \X (1..(Len(txt) + 1))
            empty == JArray(<<>>)
            p == at + 1
            canonical == Plain(txt)
            closing == "ArrayEnd"
<1>0. /\ \A a \in 1..(Len(txt) + 1) : Accepts(txt, a, inner[a], V, w, r)
      /\ \A v \in V : v # Absent /\ w[v] \in Phrases
  BY DEF AcceptsNested
<1>1. Len(txt) \in Nat /\ at \in 1..Len(txt)
  BY LenProperties, TokensStand
<1>2. p \in 2..(Len(txt) + 1) /\ canonical \in BOOLEAN /\ closing \in {"ArrayEnd", "ObjectEnd"}
  <2>1. p \in 2..(Len(txt) + 1)
    BY <1>1
  <2>. QED BY <2>1 DEF Plain, KeysOnce, NormalNumbers, FiniteNumbers
<1>3. ASSUME NEW items \in Seq(Fixed)
      PROVE  /\ JArray(items) \in Lists /\ JArray(items) # Absent /\ JArray(items).items = items
             /\ T[JArray(items)] = ItemTexts(items, w)
             /\ ItemTexts(items, w) \in Seq(Phrases)
             /\ items \in Seq(V) /\ JArray(items) \in ValuesOver(V)
             /\ FiniteNumbers(txt) => ReadOf(JArray(items), r) = JArray(items)
  <2>1. JArray(items) \in Lists /\ JArray(items) # Absent /\ JArray(items).items = items
    BY DEF JArray, Absent
  <2>2. T[JArray(items)] = ItemTexts(items, w)
    BY <2>1
  <2>3. DOMAIN items = 1..Len(items) /\ Len(items) \in Nat /\ \A i \in 1..Len(items) : items[i] \in V /\ (FiniteNumbers(txt) => r[items[i]] = items[i])
    BY LenProperties, ElementOfSeq
  <2>4. items = [i \in 1..Len(items) |-> items[i]]
    BY <2>3
  <2>5. items \in Seq(V)
    BY <2>3, <2>4
  <2>6. ItemTexts(items, w) \in Seq(Phrases)
    BY <1>0, <2>3 DEF ItemTexts
  <2>7. JArray(items) \in ValuesOver(V)
    BY <2>5, FormsAreValues
  <2>8. ASSUME FiniteNumbers(txt) PROVE ReadOf(JArray(items), r) = JArray(items)
    <3>1. ReadOf(JArray(items), r) = JArray([i \in DOMAIN items |-> r[items[i]]])
      BY DEF ReadOf, JArray
    <3>2. [i \in DOMAIN items |-> r[items[i]]] = items
      BY <2>3, <2>4, <2>8
    <3>. QED BY <3>1, <3>2
  <2>. HIDE DEF T, Lists
  <2>. QED BY <2>1, <2>2, <2>5, <2>6, <2>7, <2>8
<1>4. \A v, q : <<v, q>> \in Sound <=> v \in Lists /\ q \in 1..(Len(txt) + 1)
  OBVIOUS
<1>5. <<>> \in Seq(Fixed) /\ ItemTexts(<<>>, w) = <<>>
  BY EmptySeq DEF ItemTexts
<1>6. <<empty, p>> \in Sound /\ T[empty] = <<>>
  <2>1. empty \in Lists /\ T[empty] = ItemTexts(<<>>, w)
    BY <1>3, <1>5
  <2>2. p \in 1..(Len(txt) + 1)
    BY <1>1
  <2>. HIDE DEF T, Lists, empty, p
  <2>. QED BY <1>4, <1>5, <2>1, <2>2
<1>7. ASSUME NEW items \in Seq(Fixed), NEW q \in 1..(Len(txt) + 1)
      PROVE  ReadsOn(txt, JArray(items), q, T, Sound, canonical, Part(txt, inner, closing, Read(JArray(items), q)))
  <2>1. Part(txt, inner, closing, Read(JArray(items), q))
          = IF inner[q].value = Absent THEN Refused
            ELSE Read(JArray(Append(items, inner[q].value)), inner[q].next)
    BY <1>3 DEF Part, Item, Read, PushValue
  <2>2. Accepts(txt, q, inner[q], V, w, r)
    BY <1>0
  <2>3. CASE inner[q] = Refused
    BY <2>1, <2>3, RefusedEnds DEF ReadsOn
  <2>4. ASSUME NEW u \in V, NEW q2 \in (q + 1)..(Len(txt) + 1), inner[q] = Read(u, q2), FiniteNumbers(txt) => r[u] = u,
               Plain(txt) => Holds(txt, q, w[u]) /\ q2 = q + Len(w[u])
        PROVE  ReadsOn(txt, JArray(items), q, T, Sound, canonical, Part(txt, inner, closing, Read(JArray(items), q)))
    <3>. DEFINE more == Append(items, u)
    <3>1. u \in Fixed /\ u # Absent /\ w[u] \in Phrases
      BY <1>0, <2>4
    <3>2. more \in Seq(Fixed) /\ Len(more) = Len(items) + 1 /\ DOMAIN more = 1..Len(more) /\ DOMAIN items = 1..Len(items)
            /\ Len(items) \in Nat /\ more[Len(items) + 1] = u /\ \A i \in 1..Len(items) : more[i] = items[i]
      <4>. HIDE DEF Fixed
      <4>1. more \in Seq(Fixed) /\ Len(more) = Len(items) + 1 /\ more[Len(items) + 1] = u
               /\ \A i \in 1..Len(items) : more[i] = items[i]
        BY <3>1, AppendProperties
      <4>. HIDE DEF more
      <4>. QED BY <4>1, LenProperties
    <3>3. Part(txt, inner, closing, Read(JArray(items), q)) = Read(JArray(more), q2)
      BY <2>1, <2>4, <3>1 DEF Read
    <3>4. <<JArray(more), q2>> \in Sound /\ q2 > q
      <4>1. JArray(more) \in Lists
        <5>. HIDE DEF Lists, more
        <5>. QED BY <3>2, <1>3
      <4>2. q2 \in 1..(Len(txt) + 1) /\ q2 > q
        BY <1>1
      <4>. HIDE DEF Lists, more
      <4>. QED BY <1>4, <4>1, <4>2
    <3>5. T[JArray(more)] = Append(T[JArray(items)], w[u])
      <4>1. T[JArray(more)] = ItemTexts(more, w) /\ T[JArray(items)] = ItemTexts(items, w)
              /\ ItemTexts(items, w) \in Seq(Phrases) /\ ItemTexts(more, w) \in Seq(Phrases)
        <5>. HIDE DEF T, more
        <5>. QED BY <3>2, <1>3
      <4>. DEFINE f == [i \in Nat |-> w[more[i]]]
                  n == Len(items)
      <4>2. ItemTexts(items, w) = [i \in 1..n |-> f[i]]
        <5>. HIDE DEF more
        <5>. QED BY <3>2 DEF ItemTexts
      <4>3. ItemTexts(more, w) = [i \in 1..(n + 1) |-> f[i]]
        <5>. HIDE DEF more
        <5>. QED BY <3>2 DEF ItemTexts
      <4>4. f[n + 1] = w[u] /\ n \in Nat
        <5>. HIDE DEF more
        <5>. QED BY <3>2
      <4>. HIDE DEF f, n, T, more
      <4>. QED BY <4>1, <4>2, <4>3, <4>4, AppendOne
    <3>. HIDE DEF T, Sound, more
    <3>. QED BY <2>4, <3>1, <3>3, <3>4, <3>5 DEF ReadsOn
  <2>. QED BY <2>2, <2>3, <2>4 DEF Accepts
<1>8. AcceptsParts(txt, inner, closing, p, empty, T, Sound, canonical)
  <2>1. \A v, q : <<v, q>> \in Sound => v # Absent /\ q \in 1..(Len(txt) + 1) /\ T[v] \in Seq(Phrases)
    <3>. SUFFICES ASSUME NEW v, NEW q, <<v, q>> \in Sound
                  PROVE  v # Absent /\ q \in 1..(Len(txt) + 1) /\ T[v] \in Seq(Phrases)
      OBVIOUS
    <3>1. PICK items \in Seq(Fixed) : v = JArray(items)
      OBVIOUS
    <3>2. q \in 1..(Len(txt) + 1)
      OBVIOUS
    <3>. HIDE DEF T, Sound, Fixed, Lists
    <3>. QED BY <1>3, <3>1, <3>2
  <2>2. \A v, q : <<v, q>> \in Sound /\ q + 1 <= Len(txt) + 1 => <<v, q + 1>> \in Sound
    <3>1. \A q \in 1..(Len(txt) + 1) : q + 1 <= Len(txt) + 1 => q + 1 \in 1..(Len(txt) + 1)
      BY <1>1
    <3>. HIDE DEF T, Sound, Fixed, Lists
    <3>. QED BY <1>4, <3>1
  <2>3. \A v, q : <<v, q>> \in Sound =>
           ReadsOn(txt, v, q, T, Sound, canonical, Part(txt, inner, closing, Read(v, q)))
    <3>. SUFFICES ASSUME NEW v, NEW q, <<v, q>> \in Sound
                  PROVE  ReadsOn(txt, v, q, T, Sound, canonical, Part(txt, inner, closing, Read(v, q)))
      OBVIOUS
    <3>1. PICK items \in Seq(Fixed) : v = JArray(items)
      OBVIOUS
    <3>2. q \in 1..(Len(txt) + 1)
      OBVIOUS
    <3>. HIDE DEF T, Sound, Fixed, Lists, canonical, closing
    <3>. QED BY <1>7, <3>1, <3>2
  <2>. HIDE DEF T, Sound, canonical, closing, empty, p
  <2>. QED BY <1>6, <2>1, <2>2, <2>3 DEF AcceptsParts
<1>9. BuildValue(txt, inner, depth, at) = BuildList(txt, inner, closing, Read(empty, p))
  BY DEF BuildValue
<1>10. ReadsUpTo(txt, closing, p, T, Sound, canonical, BuildList(txt, inner, closing, Read(empty, p)))
  <2>. HIDE DEF T, Sound, canonical, closing, empty, p
  <2>. QED BY <1>2, <1>8, ListAccepted
<1>11. ASSUME NEW items \in Seq(Fixed), NEW q, q >= p, Tok(txt, q) = closing,
              canonical => Holds(txt, p, Separated(T[JArray(items)])) /\ q = p + Len(Separated(T[JArray(items)]))
       PROVE  Accepts(txt, at, Read(JArray(items), q + 1), ValuesOver(V), WrittenOver(V, w), ReadOver(V, r))
  <2>1. StandsBetween(txt, at, "ArrayBegin", "ArrayEnd", JArray(items), q, ItemTexts(items, w), w)
    <3>1. TextOf(JArray(items), w) = Token("ArrayBegin") \o Separated(ItemTexts(items, w)) \o Token("ArrayEnd")
      BY DEF TextOf, JArray
    <3>2. T[JArray(items)] = ItemTexts(items, w) /\ ItemTexts(items, w) \in Seq(Phrases)
      <4>. HIDE DEF T
      <4>. QED BY <1>3
    <3>3. "ArrayBegin" \in Marks /\ "ArrayEnd" \in Marks
      BY DEF Marks
    <3>4. Plain(txt) => Holds(txt, at + 1, Separated(ItemTexts(items, w)))
                          /\ q = at + 1 + Len(Separated(ItemTexts(items, w)))
      <4>. HIDE DEF T
      <4>. QED BY <1>11, <3>2
    <3>. QED BY <1>11, <3>1, <3>2, <3>3, <3>4 DEF StandsBetween
  <2>2. JArray(items) \in ValuesOver(V) /\ (FiniteNumbers(txt) => ReadOf(JArray(items), r) = JArray(items))
    BY <1>3
  <2>. QED BY <2>1, <2>2, BracketsAccepted
<1>12. CASE BuildList(txt, inner, closing, Read(empty, p)) = Refused
  BY <1>9, <1>12 DEF Accepts
<1>13. ASSUME NEW v, NEW q, BuildList(txt, inner, closing, Read(empty, p)) = Read(v, q + 1),
              <<v, q>> \in Sound, q >= p, Tok(txt, q) = closing,
              canonical => Holds(txt, p, Separated(T[v])) /\ q = p + Len(Separated(T[v]))
       PROVE  Accepts(txt, at, BuildValue(txt, inner, depth, at), ValuesOver(V), WrittenOver(V, w), ReadOver(V, r))
  <2>1. PICK items \in Seq(Fixed) : v = JArray(items)
    BY <1>13
  <2>2. Accepts(txt, at, Read(v, q + 1), ValuesOver(V), WrittenOver(V, w), ReadOver(V, r))
    <3>. HIDE DEF T, Sound, canonical, closing, p
    <3>. QED BY <1>11, <1>13, <2>1
  <2>. QED BY <1>9, <1>13, <2>2
<1>. HIDE DEF T, Sound, canonical, closing, empty, p
<1>. QED BY <1>10, <1>12, <1>13 DEF ReadsUpTo

(* What an object becomes when a key is set. *)
SetsKey(e, s, u, e2) ==
    /\ SetValue(JObject(e), s, u) = JObject(e2) /\ Distinct(e2)
    /\ \A i \in DOMAIN e2 : e2[i].key = s \/ \E j \in DOMAIN e : e[j].key = e2[i].key
    /\ (\A j \in DOMAIN e : e[j].key # s) => e2 = Append(e, Entry(s, u))

(* Setting a key: the keys still differ, and one that was not there comes behind the others. *)
LEMMA EntrySet ==
  ASSUME NEW U, NEW e \in EntriesOver(U), Distinct(e), NEW s \in STRING, NEW u \in U
  PROVE  \E e2 \in EntriesOver(U) : SetsKey(e, s, u, e2)
<1>. DEFINE R == [key : STRING, value : U]
<1>1. e \in Seq(R)
  BY DEF EntriesOver
<1>2. DOMAIN e = 1..Len(e) /\ Len(e) \in Nat /\ \A i \in DOMAIN e : e[i] \in R
  BY <1>1, LenProperties, ElementOfSeq
<1>3. JObject(e).entries = e
  BY DEF JObject
<1>4. s \in Keys(JObject(e)) <=> \E j \in DOMAIN e : e[j].key = s
  <2>1. Keys(JObject(e)) = {x.key : x \in {e[i] : i \in DOMAIN e}}
    BY <1>3 DEF Keys, ToSet
  <2>. QED BY <2>1
<1>5. CASE s \in Keys(JObject(e))
  <2>. DEFINE e2 == [i \in DOMAIN e |-> IF e[i].key = s THEN Entry(s, u) ELSE e[i]]
  <2>1. SetValue(JObject(e), s, u) = JObject(e2)
    BY <1>3, <1>5 DEF SetValue
  <2>2. DOMAIN e2 = DOMAIN e /\ \A i \in DOMAIN e : e2[i].key = e[i].key
    BY DEF Entry
  <2>3. e2 \in EntriesOver(U)
    <3>1. \A i \in 1..Len(e) : e2[i] \in R
      BY <1>2 DEF Entry
    <3>2. e2 = [i \in 1..Len(e) |-> e2[i]]
      BY <1>2
    <3>. HIDE DEF e2, R
    <3>3. [i \in 1..Len(e) |-> e2[i]] \in Seq(R)
      BY <1>2, <3>1
    <3>4. e2 \in Seq(R)
      BY <3>2, <3>3
    <3>. QED BY <3>4 DEF EntriesOver, R
  <2>4. Distinct(e2)
    BY <2>2 DEF Distinct
  <2>. HIDE DEF e2
  <2>5. \A i \in DOMAIN e2 : \E j \in DOMAIN e : e[j].key = e2[i].key
    BY <2>2
  <2>6. SetsKey(e, s, u, e2)
    BY <1>4, <1>5, <2>1, <2>4, <2>5 DEF SetsKey
  <2>. QED BY <2>3, <2>6
<1>6. CASE s \notin Keys(JObject(e))
  <2>. DEFINE x == Entry(s, u)
              e2 == Append(e, x)
  <2>1. SetValue(JObject(e), s, u) = JObject(e2)
    BY <1>3, <1>6 DEF SetValue
  <2>2. x \in R /\ x.key = s
    BY DEF Entry
  <2>. HIDE DEF x, R
  <2>3. e2 \in Seq(R) /\ Len(e2) = Len(e) + 1 /\ e2[Len(e) + 1] = x /\ \A i \in 1..Len(e) : e2[i] = e[i]
    BY <1>1, <2>2, AppendProperties
  <2>. HIDE DEF e2
  <2>4. DOMAIN e2 = 1..(Len(e) + 1)
    BY <2>3, LenProperties
  <2>5. \A i \in DOMAIN e2 : i \in DOMAIN e \/ i = Len(e) + 1
    BY <1>2, <2>4
  <2>6. \A i \in DOMAIN e : e2[i] = e[i] /\ e[i].key # s
    BY <1>2, <1>4, <1>6, <2>3
  <2>7. Distinct(e2)
    BY <2>2, <2>3, <2>5, <2>6 DEF Distinct
  <2>8. \A i \in DOMAIN e2 : e2[i].key = s \/ \E j \in DOMAIN e : e[j].key = e2[i].key
    BY <2>2, <2>3, <2>5, <2>6
  <2>9. e2 \in EntriesOver(U)
    BY <2>3 DEF EntriesOver, R
  <2>10. e2 = Append(e, Entry(s, u))
    BY DEF e2, x
  <2>11. SetsKey(e, s, u, e2)
    BY <2>1, <2>7, <2>8, <2>10 DEF SetsKey
  <2>. QED BY <2>9, <2>11
<1>. QED BY <1>5, <1>6

(* The keys of a list that is read so far all stand before a position. *)
KeysStand(txt, entries, q) ==
    \A i \in DOMAIN entries : \E j \in 1..(q - 1) : KeyAt(txt, j) /\ txt[j].string = entries[i].key

LEMMA ObjectAccepted ==
  ASSUME NEW txt \in Seq(Tokens), NEW inner, NEW depth, NEW at \in 1..(Len(txt) + 1), NEW V, NEW w, NEW r,
         ~TooDeep(depth), Tok(txt, at) = "ObjectBegin", AcceptsNested(txt, inner, V, w, r)
  PROVE  Accepts(txt, at, BuildValue(txt, inner, depth, at), ValuesOver(V), WrittenOver(V, w), ReadOver(V, r))
<1>. DEFINE Fixed == {u \in V : FiniteNumbers(txt) => r[u] = u}
            Chains == {e \in EntriesOver(Fixed) : Distinct(e)}
            Lists == {JObject(e) : e \in Chains}
            T == [v \in Lists |-> EntryTexts(v.entries, w)]
            Sound == {x \in Lists \X (1..(Len(txt) + 1)) : KeysStand(txt, x[1].entries, x[2])}
            empty == JObject(<<>>)
            p == at + 1
            canonical == Plain(txt)
            closing == "ObjectEnd"
<1>0. /\ \A a \in 1..(Len(txt) + 1) : Accepts(txt, a, inner[a], V, w, r)
      /\ \A v \in V : v # Absent /\ w[v] \in Phrases
  BY DEF AcceptsNested
<1>1. Len(txt) \in Nat /\ at \in 1..Len(txt)
  BY LenProperties, TokensStand
<1>2. p \in 2..(Len(txt) + 1) /\ canonical \in BOOLEAN /\ closing \in {"ArrayEnd", "ObjectEnd"}
  <2>1. p \in 2..(Len(txt) + 1)
    BY <1>1
  <2>. QED BY <2>1 DEF Plain, KeysOnce, NormalNumbers, FiniteNumbers
<1>3. ASSUME NEW e \in Chains
      PROVE  /\ JObject(e) \in Lists /\ JObject(e) # Absent /\ JObject(e).entries = e
             /\ T[JObject(e)] = EntryTexts(e, w)
             /\ EntryTexts(e, w) \in Seq(Phrases)
             /\ JObject(e) \in ValuesOver(V)
             /\ FiniteNumbers(txt) => ReadOf(JObject(e), r) = JObject(e)
             /\ DOMAIN e = 1..Len(e) /\ Len(e) \in Nat
  <2>1. JObject(e) \in Lists /\ JObject(e) # Absent /\ JObject(e).entries = e
    BY DEF JObject, Absent
  <2>2. T[JObject(e)] = EntryTexts(e, w)
    BY <2>1
  <2>3. e \in Seq([key : STRING, value : Fixed]) /\ Distinct(e)
    BY DEF EntriesOver
  <2>4. DOMAIN e = 1..Len(e) /\ Len(e) \in Nat /\ \A i \in 1..Len(e) : e[i] \in [key : STRING, value : Fixed]
    BY <2>3, LenProperties, ElementOfSeq
  <2>5. \A i \in 1..Len(e) : /\ e[i] \in [key : STRING, value : V]
                             /\ FiniteNumbers(txt) => Entry(e[i].key, r[e[i].value]) = e[i]
    BY <2>4 DEF Entry
  <2>6. e = [i \in 1..Len(e) |-> e[i]]
    <3>. HIDE DEF Chains, Fixed
    <3>. QED BY <2>3, <2>4
  <2>7. e \in Seq([key : STRING, value : V])
    <3>1. [i \in 1..Len(e) |-> e[i]] \in Seq([key : STRING, value : V])
      BY <2>4, <2>5
    <3>. QED BY <2>6, <3>1
  <2>8. JObject(e) \in ValuesOver(V)
    BY <2>3, <2>7, FormsAreValues
  <2>9. EntryTexts(e, w) \in Seq(Phrases)
    BY <1>0, <2>7, <2>8, TextOfType
  <2>10. ASSUME FiniteNumbers(txt) PROVE ReadOf(JObject(e), r) = JObject(e)
    <3>1. ReadOf(JObject(e), r) = JObject([i \in DOMAIN e |-> Entry(e[i].key, r[e[i].value])])
      BY DEF ReadOf, JObject
    <3>2. [i \in DOMAIN e |-> Entry(e[i].key, r[e[i].value])] = [i \in 1..Len(e) |-> e[i]]
      BY <2>4, <2>5, <2>10
    <3>. QED BY <2>6, <3>1, <3>2
  <2>. HIDE DEF T, Lists
  <2>. QED BY <2>1, <2>2, <2>4, <2>8, <2>9, <2>10
<1>4. \A e \in Chains : \A q : <<JObject(e), q>> \in Sound <=> q \in 1..(Len(txt) + 1) /\ KeysStand(txt, e, q)
  <2>. TAKE e \in Chains
  <2>. TAKE q
  <2>1. JObject(e) \in Lists /\ JObject(e).entries = e
    BY <1>3
  <2>. HIDE DEF Lists
  <2>. QED BY <2>1
<1>5. \A v, q : <<v, q>> \in Sound => \E e \in Chains : v = JObject(e)
  OBVIOUS
<1>6. <<>> \in Chains /\ EntryTexts(<<>>, w) = <<>> /\ \A q : KeysStand(txt, <<>>, q)
  <2>1. <<>> \in EntriesOver(Fixed)
    BY EmptySeq DEF EntriesOver
  <2>2. Distinct(<<>>) /\ \A q : KeysStand(txt, <<>>, q)
    BY EmptySeq DEF Distinct, KeysStand
  <2>3. EntryTexts(<<>>, w) = <<>>
    BY EmptySeq DEF EntryTexts
  <2>. QED BY <2>1, <2>2, <2>3
<1>7. <<empty, p>> \in Sound /\ T[empty] = <<>>
  <2>1. T[empty] = EntryTexts(<<>>, w)
    BY <1>3, <1>6
  <2>2. p \in 1..(Len(txt) + 1)
    BY <1>1
  <2>. HIDE DEF T, Lists, p, Sound, Chains
  <2>. QED BY <1>4, <1>6, <2>1, <2>2
<1>8. \A e, q, q2 : q \in Nat /\ q2 \in Nat /\ q <= q2 /\ KeysStand(txt, e, q) => KeysStand(txt, e, q2)
  <2>. SUFFICES ASSUME NEW e, NEW q \in Nat, NEW q2 \in Nat, q <= q2, KeysStand(txt, e, q) PROVE KeysStand(txt, e, q2)
    OBVIOUS
  <2>1. \A j \in 1..(q - 1) : j \in 1..(q2 - 1)
    OBVIOUS
  <2>. QED BY <2>1 DEF KeysStand
<1>9. ASSUME NEW e \in Chains, NEW q \in 1..(Len(txt) + 1), KeysStand(txt, e, q)
      PROVE  ReadsOn(txt, JObject(e), q, T, Sound, canonical, Part(txt, inner, closing, Read(JObject(e), q)))
  <2>. DEFINE s == txt[q].string
  <2>1. Part(txt, inner, closing, Read(JObject(e), q))
          = IF ~KeyAt(txt, q) \/ inner[q + 2].value = Absent THEN Refused
            ELSE Read(SetValue(JObject(e), s, inner[q + 2].value), inner[q + 2].next)
    BY DEF Part, KeyedItem, Read
  <2>2. CASE ~KeyAt(txt, q)
    BY <2>1, <2>2 DEF ReadsOn
  <2>3. CASE KeyAt(txt, q)
    <3>1. s \in STRING /\ q + 2 \in 1..(Len(txt) + 1) /\ q \in DOMAIN txt
      <4>1. txt[q].tok = "StringLiteral" /\ txt[q] \in Tokens /\ q + 1 \in 1..Len(txt) /\ q \in DOMAIN txt
        BY <2>3, TokensStand DEF KeyAt
      <4>2. s \in STRING
        BY <4>1 DEF Tokens
      <4>. HIDE DEF s
      <4>. QED BY <1>1, <4>1, <4>2
    <3>2. Accepts(txt, q + 2, inner[q + 2], V, w, r)
      BY <1>0, <3>1
    <3>3. CASE inner[q + 2] = Refused
      BY <2>1, <3>3, RefusedEnds DEF ReadsOn
    <3>4. ASSUME NEW u \in V, NEW q2 \in (q + 2 + 1)..(Len(txt) + 1), inner[q + 2] = Read(u, q2), FiniteNumbers(txt) => r[u] = u,
                 Plain(txt) => Holds(txt, q + 2, w[u]) /\ q2 = q + 2 + Len(w[u])
          PROVE  ReadsOn(txt, JObject(e), q, T, Sound, canonical, Part(txt, inner, closing, Read(JObject(e), q)))
      <4>1. u \in Fixed /\ u # Absent /\ w[u] \in Phrases
        BY <1>0, <3>4
      <4>2. q2 \in 1..(Len(txt) + 1) /\ q2 > q /\ q \in Nat /\ q2 \in Nat
        BY <1>1
      <4>3. PICK e2 \in EntriesOver(Fixed) : SetsKey(e, s, u, e2)
        <5>1. e \in EntriesOver(Fixed) /\ Distinct(e)
          OBVIOUS
        <5>. HIDE DEF Chains, Fixed, s
        <5>. QED BY <3>1, <4>1, <5>1, EntrySet
      <4>4. /\ SetValue(JObject(e), s, u) = JObject(e2) /\ Distinct(e2)
            /\ \A i \in DOMAIN e2 : e2[i].key = s \/ \E j \in DOMAIN e : e[j].key = e2[i].key
            /\ (\A j \in DOMAIN e : e[j].key # s) => e2 = Append(e, Entry(s, u))
        BY <4>3 DEF SetsKey
      <4>5. e2 \in Chains
        BY <4>4
      <4>6. Part(txt, inner, closing, Read(JObject(e), q)) = Read(JObject(e2), q2)
        BY <2>1, <2>3, <3>4, <4>1, <4>4 DEF Read
      <4>7. KeysStand(txt, e2, q2)
        <5>1. KeysStand(txt, e, q2)
          <6>1. q <= q2
            BY <4>2
          <6>. HIDE DEF Chains
          <6>. QED BY <1>8, <1>9, <4>2, <6>1
        <5>2. q \in 1..(q2 - 1) /\ KeyAt(txt, q) /\ txt[q].string = s
          BY <2>3, <4>2
        <5>. HIDE DEF s
        <5>. QED BY <4>4, <5>1, <5>2 DEF KeysStand
      <4>8. <<JObject(e2), q2>> \in Sound
        <5>. HIDE DEF Sound, Chains
        <5>. QED BY <1>4, <4>2, <4>5, <4>7
      <4>9. ASSUME canonical
            PROVE  \E t \in Phrases : /\ T[JObject(e2)] = Append(T[JObject(e)], t)
                                      /\ Holds(txt, q, t) /\ q2 = q + Len(t)
        <5>. DEFINE t == StringToken(s) \o Token("ObjectPairSeparator") \o w[u]
        <5>1. \A j \in DOMAIN e : e[j].key # s
          <6>. SUFFICES ASSUME NEW j \in DOMAIN e, e[j].key = s PROVE FALSE
            OBVIOUS
          <6>1. PICK k \in 1..(q - 1) : KeyAt(txt, k) /\ txt[k].string = e[j].key
            BY <1>9 DEF KeysStand
          <6>2. k \in DOMAIN txt
            BY <6>1, TokensStand DEF KeyAt
          <6>3. k = q
            BY <2>3, <3>1, <4>9, <6>1, <6>2 DEF Plain, KeysOnce
          <6>. QED BY <4>2, <6>1, <6>3
        <5>2. e2 = Append(e, Entry(s, u))
          BY <4>4, <5>1
        <5>3. Holds(txt, q, t) /\ q2 = q + Len(t) /\ t \in Phrases
          <6>1. w[u] \in Seq(Tokens) /\ Len(w[u]) \in Nat /\ q \in Nat \ {0}
            <7>1. w[u] \in Seq(Tokens) /\ q \in Nat \ {0}
              BY <4>1, <4>2 DEF Phrases
            <7>. QED BY <7>1, LenProperties
          <6>2. Holds(txt, q + 2, w[u]) /\ q2 = q + 2 + Len(w[u])
            BY <3>4, <4>9
          <6>. HIDE DEF s
          <6>3. Len(t) = 2 + Len(w[u])
                  /\ (Holds(txt, q, t) <=> KeyAt(txt, q) /\ txt[q].string = s /\ Holds(txt, q + 2, w[u]))
            BY <3>1, <6>1, HoldsKeyed
          <6>4. Holds(txt, q, t)
            <7>. HIDE DEF t
            <7>. QED BY <2>3, <6>2, <6>3 DEF s
          <6>5. q2 = q + Len(t)
            <7>1. q + 2 + Len(w[u]) = q + (2 + Len(w[u]))
              BY <6>1, TwoMore
            <7>. QED BY <6>2, <6>3, <7>1, Zenon
          <6>6. t \in Phrases
            BY <3>1, <4>1, EntryPhrase
          <6>. QED BY <6>4, <6>5, <6>6
        <5>4. T[JObject(e2)] = Append(T[JObject(e)], t)
          <6>1. /\ T[JObject(e2)] = EntryTexts(e2, w) /\ T[JObject(e)] = EntryTexts(e, w)
                /\ DOMAIN e = 1..Len(e) /\ Len(e) \in Nat /\ DOMAIN e2 = 1..Len(e2)
            <7>. HIDE DEF T, Chains
            <7>. QED BY <1>3, <4>5
          <6>. DEFINE x == Entry(s, u)
                      n == Len(e)
                      f == [i \in Nat |-> StringToken(e2[i].key) \o Token("ObjectPairSeparator") \o w[e2[i].value]]
          <6>2. Len(e2) = n + 1 /\ e2[n + 1] = x /\ \A i \in 1..n : e2[i] = e[i]
            <7>1. e \in Seq([key : STRING, value : Fixed])
              BY DEF EntriesOver
            <7>2. x \in [key : STRING, value : Fixed]
              BY <3>1, <4>1 DEF Entry
            <7>. HIDE DEF x, Fixed
            <7>. QED BY <5>2, <7>1, <7>2, AppendProperties DEF x
          <6>. HIDE DEF T, Chains, Fixed, Sound, Lists
          <6>3. EntryTexts(e, w) = [i \in 1..n |-> f[i]]
            <7>1. \A i \in 1..n : i \in Nat /\ e2[i] = e[i]
              BY <6>1, <6>2
            <7>. QED BY <6>1, <7>1 DEF EntryTexts
          <6>4. EntryTexts(e2, w) = [i \in 1..(n + 1) |-> f[i]]
            <7>1. DOMAIN e2 = 1..(n + 1) /\ \A i \in 1..(n + 1) : i \in Nat
              BY <6>1, <6>2
            <7>. QED BY <7>1 DEF EntryTexts
          <6>5. f[n + 1] = t
            <7>1. n + 1 \in Nat /\ e2[n + 1].key = s /\ e2[n + 1].value = u
              BY <6>1, <6>2 DEF Entry
            <7>. HIDE DEF n
            <7>. QED BY <7>1
          <6>6. n \in Nat
            BY <6>1
          <6>. HIDE DEF f, n, T, t
          <6>. QED BY <6>1, <6>3, <6>4, <6>5, <6>6, AppendOne
        <5>. HIDE DEF t, T
        <5>. QED BY <5>3, <5>4
      <4>. HIDE DEF T, Sound, canonical, closing
      <4>. QED BY <4>2, <4>6, <4>8, <4>9 DEF ReadsOn
    <3>. QED BY <3>2, <3>3, <3>4 DEF Accepts
  <2>. QED BY <2>2, <2>3
<1>10. AcceptsParts(txt, inner, closing, p, empty, T, Sound, canonical)
  <2>1. ASSUME NEW v, NEW q, <<v, q>> \in Sound
        PROVE  /\ v # Absent /\ q \in 1..(Len(txt) + 1) /\ T[v] \in Seq(Phrases)
               /\ q + 1 <= Len(txt) + 1 => <<v, q + 1>> \in Sound
               /\ ReadsOn(txt, v, q, T, Sound, canonical, Part(txt, inner, closing, Read(v, q)))
    <3>1. PICK e \in Chains : v = JObject(e)
      BY <1>5, <2>1
    <3>. HIDE DEF T, Sound, Lists, Chains, canonical, closing
    <3>2. q \in 1..(Len(txt) + 1) /\ KeysStand(txt, e, q)
      BY <1>4, <2>1, <3>1
    <3>3. v # Absent /\ T[v] \in Seq(Phrases)
      BY <1>3, <3>1
    <3>4. ASSUME q + 1 <= Len(txt) + 1 PROVE <<v, q + 1>> \in Sound
      <4>1. q \in Nat /\ q + 1 \in Nat /\ q <= q + 1 /\ q + 1 \in 1..(Len(txt) + 1)
        BY <1>1, <3>2, <3>4
      <4>2. KeysStand(txt, e, q + 1)
        BY <1>8, <3>2, <4>1
      <4>. QED BY <1>4, <3>1, <4>1, <4>2
    <3>5. ReadsOn(txt, v, q, T, Sound, canonical, Part(txt, inner, closing, Read(v, q)))
      BY <1>9, <3>1, <3>2
    <3>. QED BY <3>2, <3>3, <3>4, <3>5
  <2>. HIDE DEF T, Sound, canonical, closing, empty, p
  <2>. QED BY <1>7, <2>1 DEF AcceptsParts
<1>11. BuildValue(txt, inner, depth, at) = BuildList(txt, inner, closing, Read(empty, p))
  BY DEF BuildValue
<1>12. ReadsUpTo(txt, closing, p, T, Sound, canonical, BuildList(txt, inner, closing, Read(empty, p)))
  <2>. HIDE DEF T, Sound, canonical, closing, empty, p
  <2>. QED BY <1>2, <1>10, ListAccepted
<1>13. ASSUME NEW e \in Chains, NEW q, q >= p, Tok(txt, q) = closing,
              canonical => Holds(txt, p, Separated(T[JObject(e)])) /\ q = p + Len(Separated(T[JObject(e)]))
       PROVE  Accepts(txt, at, Read(JObject(e), q + 1), ValuesOver(V), WrittenOver(V, w), ReadOver(V, r))
  <2>1. StandsBetween(txt, at, "ObjectBegin", "ObjectEnd", JObject(e), q, EntryTexts(e, w), w)
    <3>1. TextOf(JObject(e), w) = Token("ObjectBegin") \o Separated(EntryTexts(e, w)) \o Token("ObjectEnd")
      BY DEF TextOf, JObject
    <3>2. T[JObject(e)] = EntryTexts(e, w) /\ EntryTexts(e, w) \in Seq(Phrases)
      <4>. HIDE DEF T
      <4>. QED BY <1>3
    <3>3. "ObjectBegin" \in Marks /\ "ObjectEnd" \in Marks
      BY DEF Marks
    <3>4. Plain(txt) => Holds(txt, at + 1, Separated(EntryTexts(e, w)))
                          /\ q = at + 1 + Len(Separated(EntryTexts(e, w)))
      <4>. HIDE DEF T
      <4>. QED BY <1>13, <3>2
    <3>. QED BY <1>13, <3>1, <3>2, <3>3, <3>4 DEF StandsBetween
  <2>2. JObject(e) \in ValuesOver(V) /\ (FiniteNumbers(txt) => ReadOf(JObject(e), r) = JObject(e))
    <3>. HIDE DEF Chains, T
    <3>. QED BY <1>3
  <2>. QED BY <2>1, <2>2, BracketsAccepted
<1>14. CASE BuildList(txt, inner, closing, Read(empty, p)) = Refused
  BY <1>11, <1>14 DEF Accepts
<1>15. ASSUME NEW v, NEW q, BuildList(txt, inner, closing, Read(empty, p)) = Read(v, q + 1),
              <<v, q>> \in Sound, q >= p, Tok(txt, q) = closing,
              canonical => Holds(txt, p, Separated(T[v])) /\ q = p + Len(Separated(T[v]))
       PROVE  Accepts(txt, at, BuildValue(txt, inner, depth, at), ValuesOver(V), WrittenOver(V, w), ReadOver(V, r))
  <2>1. PICK e \in Chains : v = JObject(e)
    BY <1>5, <1>15
  <2>2. Accepts(txt, at, Read(v, q + 1), ValuesOver(V), WrittenOver(V, w), ReadOver(V, r))
    <3>. HIDE DEF T, Sound, Chains, canonical, closing, p
    <3>. QED BY <1>13, <1>15, <2>1
  <2>. QED BY <1>11, <1>15, <2>2
<1>. HIDE DEF T, Sound, canonical, closing, empty, p
<1>. QED BY <1>12, <1>14, <1>15 DEF ReadsUpTo

(* Whatever stands at a position, one level up from what is read at each. *)
LEMMA ValueAccepted ==
  ASSUME NEW txt \in Seq(Tokens), NEW inner, NEW depth, NEW at \in 1..(Len(txt) + 1), NEW V, NEW w, NEW r,
         ~TooDeep(depth), AcceptsNested(txt, inner, V, w, r)
  PROVE  Accepts(txt, at, BuildValue(txt, inner, depth, at), ValuesOver(V), WrittenOver(V, w), ReadOver(V, r))
<1>1. CASE Tok(txt, at) \in {"NullToken", "BoolTrue", "BoolFalse", "Number", "StringLiteral"}
  BY <1>1, ScalarAccepted
<1>2. CASE Tok(txt, at) = "ArrayBegin"
  BY <1>2, ArrayAccepted
<1>3. CASE Tok(txt, at) = "ObjectBegin"
  BY <1>3, ObjectAccepted
<1>4. CASE Tok(txt, at) \notin {"NullToken", "BoolTrue", "BoolFalse", "Number", "StringLiteral", "ArrayBegin", "ObjectBegin"}
  <2>1. BuildValue(txt, inner, depth, at) = Refused
    BY <1>4 DEF BuildValue
  <2>. QED BY <2>1 DEF Accepts
<1>. QED BY <1>1, <1>2, <1>3, <1>4

(* What is read at every position with any number of levels left. *)
AllAccepted(n) ==
    \A txt \in Seq(Tokens) :
        \A at \in 1..(Len(txt) + 1) : Accepts(txt, at, Builder(txt)[n][at], Below(n), TextBelow(n), ReadBelow(n))

LEMMA LevelsAccepted == \A n \in 0..(StackLimit + 1) : AllAccepted(n)
<1>. DEFINE S == {n \in Nat : n <= StackLimit + 1 => AllAccepted(n)}
<1>1. 0 \in S
  <2>1. \A txt \in Seq(Tokens) : \A at \in 1..(Len(txt) + 1) : Builder(txt)[0][at] = Refused
    BY BuilderSteps
  <2>. QED BY <2>1 DEF AllAccepted, Accepts
<1>2. ASSUME NEW n \in S PROVE n + 1 \in S
  <2>. SUFFICES ASSUME n + 1 <= StackLimit + 1 PROVE AllAccepted(n + 1)
    OBVIOUS
  <2>1. n \in Nat /\ n + 1 \in Nat /\ n + 1 # 0 /\ (n + 1) - 1 = n
    OBVIOUS
  <2>2. AllAccepted(n)
    BY StackLimitAssumption
  <2>. SUFFICES ASSUME NEW txt \in Seq(Tokens), NEW at \in 1..(Len(txt) + 1)
                PROVE  Accepts(txt, at, Builder(txt)[n + 1][at], Below(n + 1), TextBelow(n + 1), ReadBelow(n + 1))
    BY DEF AllAccepted
  <2>. DEFINE V == Below(n)
              w == TextBelow(n)
              r == ReadBelow(n)
              inner == Builder(txt)[n]
              depth == StackLimit + 1 - (n + 1)
  <2>3. AcceptsNested(txt, inner, V, w, r)
    <3>1. \A a \in 1..(Len(txt) + 1) : Accepts(txt, a, inner[a], V, w, r)
      BY <2>2 DEF AllAccepted
    <3>2. \A v \in V : v # Absent /\ w[v] \in Phrases
      <4>1. CASE n = 0
        BY <4>1, NothingBelowZero
      <4>2. CASE n # 0
        <5>1. n - 1 \in Nat /\ V = Values[n - 1] /\ w = Written[n - 1]
          BY <2>1, <4>2, NothingBelowZero
        <5>2. \A v \in V : v # Absent
          <6>1. V = ValuesOver(Below(n - 1))
            BY <5>1, Levels
          <6>. HIDE DEF V
          <6>. QED BY <6>1, ValuesArePresent
        <5>. QED BY <5>1, <5>2, WrittenType
      <4>. QED BY <4>1, <4>2
    <3>. HIDE DEF V, w, r, inner
    <3>. QED BY <3>1, <3>2 DEF AcceptsNested
  <2>4. Builder(txt)[n + 1][at] = BuildValue(txt, inner, depth, at) /\ ~TooDeep(depth)
    <3>1. /\ Builder(txt)[n + 1][at] = BuildValue(txt, Builder(txt)[(n + 1) - 1], StackLimit + 1 - (n + 1), at)
          /\ ~TooDeep(StackLimit + 1 - (n + 1))
      BY <2>1, BuilderSteps
    <3>. QED BY <2>1, <3>1
  <2>5. Below(n + 1) = ValuesOver(V) /\ TextBelow(n + 1) = WrittenOver(V, w) /\ ReadBelow(n + 1) = ReadOver(V, r)
    <3>1. Below(n + 1) = Values[n] /\ TextBelow(n + 1) = Written[n] /\ ReadBelow(n + 1) = AsRead[n]
      BY <2>1, NothingBelowZero
    <3>2. Values[n] = ValuesOver(V) /\ Written[n] = [v \in Values[n] |-> TextOf(v, w)] /\ AsRead[n] = [v \in Values[n] |-> ReadOf(v, r)]
      BY <2>1, Levels
    <3>. HIDE DEF V, w, r
    <3>. QED BY <3>1, <3>2 DEF WrittenOver, ReadOver
  <2>. HIDE DEF V, w, r, inner, depth
  <2>6. Accepts(txt, at, BuildValue(txt, inner, depth, at), ValuesOver(V), WrittenOver(V, w), ReadOver(V, r))
    BY <2>3, <2>4, ValueAccepted
  <2>. QED BY <2>4, <2>5, <2>6
<1>3. S \in SUBSET Nat
  OBVIOUS
<1>4. S = Nat
  <2>. HIDE DEF S
  <2>. QED BY <1>1, <1>2, <1>3, SetInduction
<1>. QED BY <1>4

LEMMA WholeText ==
  ASSUME NEW txt \in Seq(Tokens), NEW p \in Seq(Tokens), Holds(txt, 1, p), Len(txt) = Len(p)
  PROVE  txt = p
<1>1. \A i \in 1..Len(p) : txt[i] = p[i]
  <2>1. \A i \in 1..Len(p) : 1 + i - 1 = i
    BY LenProperties
  <2>. QED BY <2>1 DEF Holds
<1>. QED BY <1>1, SeqEqual

(* Whatever text the parser accepts, it makes a value of it that is nested no deeper than the limit
   and is read again from what the writer makes of it, but for infinities, which a number too large
   for a double becomes and which come back as null; and what the writer makes of it is the text
   itself, if no key comes twice, whole numbers have no fraction and no number is too large. *)
THEOREM ParseAccepts ==
  ASSUME NEW txt \in Seq(Tokens), ParseJSON(txt) # Absent
  PROVE  /\ ParseJSON(txt) \in Values[StackLimit]
         /\ ParseJSON(WriteJSON(ParseJSON(txt))) = AsRead[MaxNesting][ParseJSON(txt)]
         /\ FiniteNumbers(txt) => ParseJSON(WriteJSON(ParseJSON(txt))) = ParseJSON(txt)
         /\ KeysOnce(txt) /\ NormalNumbers(txt) /\ FiniteNumbers(txt) => WriteJSON(ParseJSON(txt)) = txt
<1>. DEFINE n == StackLimit + 1
            v == ParseJSON(txt)
            so == Builder(txt)[n][1]
<1>1. n \in 0..(StackLimit + 1) /\ n # 0 /\ n - 1 = StackLimit /\ StackLimit \in Nat
  BY StackLimitAssumption
<1>2. Below(n) = Values[StackLimit] /\ TextBelow(n) = Written[StackLimit] /\ ReadBelow(n) = AsRead[StackLimit]
  BY <1>1 DEF Below, TextBelow, ReadBelow
<1>3. 1 \in 1..(Len(txt) + 1) /\ Len(txt) \in Nat
  <2>1. Len(txt) \in Nat
    BY LenProperties
  <2>. QED BY <2>1
<1>4. v = so.value /\ so.next = Len(txt) + 1
  BY DEF ParseJSON
<1>. HIDE DEF n, v, so
<1>5. Accepts(txt, 1, so, Values[StackLimit], Written[StackLimit], AsRead[StackLimit])
  BY <1>1, <1>2, <1>3, LevelsAccepted DEF AllAccepted, so
<1>6. so # Refused
  <2>1. v # Absent
    BY DEF v
  <2>. QED BY <1>4, <2>1, RefusedEnds
<1>7. /\ v \in Values[StackLimit] /\ (FiniteNumbers(txt) => AsRead[StackLimit][v] = v)
      /\ Plain(txt) => Holds(txt, 1, Written[StackLimit][v]) /\ Len(txt) + 1 = 1 + Len(Written[StackLimit][v])
  <2>1. PICK u \in Values[StackLimit], q \in (1 + 1)..(Len(txt) + 1) :
          /\ so = Read(u, q) /\ (FiniteNumbers(txt) => AsRead[StackLimit][u] = u)
          /\ Plain(txt) => Holds(txt, 1, Written[StackLimit][u]) /\ q = 1 + Len(Written[StackLimit][u])
    BY <1>5, <1>6 DEF Accepts
  <2>2. u = v /\ q = Len(txt) + 1
    BY <1>4, <2>1 DEF Read
  <2>. QED BY <2>1, <2>2
<1>8. /\ v \in Values[MaxNesting] /\ Written[MaxNesting][v] = Written[StackLimit][v]
      /\ FiniteNumbers(txt) => AsRead[MaxNesting][v] = v
  <2>1. Agree(StackLimit, MaxNesting)
    BY <1>1, MaxNestingAssumption, LevelsAgree
  <2>. QED BY <1>7, <2>1 DEF Agree, SameOn
<1>9. ParseJSON(WriteJSON(v)) = AsRead[MaxNesting][v]
  BY <1>7, <1>8, MaxNestingAssumption, ParseWritten DEF WriteJSON
<1>10. ASSUME Plain(txt) PROVE WriteJSON(v) = txt
  <2>1. Written[StackLimit][v] \in Seq(Tokens)
    BY <1>1, <1>7, WrittenType DEF Phrases
  <2>2. Len(Written[StackLimit][v]) \in Nat
    BY <2>1, LenProperties
  <2>3. Len(txt) = Len(Written[StackLimit][v])
    BY <1>3, <1>7, <1>10, <2>2
  <2>4. txt = Written[StackLimit][v]
    BY <1>7, <1>10, <2>1, <2>3, WholeText
  <2>. QED BY <1>8, <2>4 DEF WriteJSON
<1>. QED BY <1>7, <1>8, <1>9, <1>10 DEF v, Plain

----------------------------------------------------------------------------
(* The exchange. *)

(* What is written, received and read is well formed at every stage; and once parsed, the value is
   what the parser makes of the text, which for a value that was made is the writer's. *)
ExchangeInv ==
    /\ stage \in {"made", "written", "parsed"}
    /\ made = Absent => text \in Seq(Tokens) /\ stage # "made"
    /\ made # Absent => made \in Made
    /\ made # Absent /\ stage # "made" => text = WriteJSON(made)
    /\ stage = "parsed" => value = ParseJSON(text)

LEMMA MadeArePresent == \A v \in Made : v \in Values[MaxNesting] /\ v # Absent
  BY MadeAssumption, MaxNestingAssumption, Levels, ValuesArePresent

(* What was written and what is read of it stay what the code's writer and parser make of them. *)
THEOREM ExchangeInvariant == Spec => []ExchangeInv
<1>1. Init => ExchangeInv
  BY MadeArePresent, ReceivedAssumption DEF Init, ExchangeInv
<1>2. ExchangeInv /\ [Next]_vars => ExchangeInv'
  <2>. SUFFICES ASSUME ExchangeInv, [Next]_vars PROVE ExchangeInv'
    OBVIOUS
  <2>1. CASE Write
    <3>1. made # Absent
      BY <2>1 DEF Write, ExchangeInv
    <3>. QED BY <2>1, <3>1 DEF Write, ExchangeInv
  <2>2. CASE Parse
    BY <2>2 DEF Parse, ExchangeInv
  <2>3. CASE UNCHANGED vars
    BY <2>3 DEF vars, ExchangeInv
  <2>. QED BY <2>1, <2>2, <2>3 DEF Next
<1>. QED BY <1>1, <1>2, PTL DEF Spec

(* Of every text that the writer makes, however long, the parser reads what was written but for its
   numbers, and nothing exactly when something in it is nested deeper than the limit. *)
THEOREM TextsAreReadable == Spec => []ReadableWithinLimit
<1>1. ExchangeInv => ReadableWithinLimit
  <2>. SUFFICES ASSUME ExchangeInv, stage = "parsed", made # Absent
                PROVE  value = IF made \in Values[StackLimit] THEN AsRead[MaxNesting][made] ELSE Absent
    BY DEF ReadableWithinLimit
  <2>1. value = ParseJSON(WriteJSON(made)) /\ made \in Values[MaxNesting]
    BY MadeArePresent DEF ExchangeInv
  <2>. QED BY <2>1, MaxNestingAssumption, ParseWritten DEF WriteJSON
<1>. QED BY <1>1, ExchangeInvariant, PTL

(* Whatever a front end sends, the parser accepts only the writer's own texts, but for keys that come
   twice, fractions of whole numbers and numbers too large for a double; and what is read is read
   again from what is written of it, but for an infinity, which comes back as null. *)
THEOREM TextsAreCanonical == Spec => []AcceptedIsCanonical
<1>1. ExchangeInv => AcceptedIsCanonical
  <2>. SUFFICES ASSUME ExchangeInv, stage = "parsed", made = Absent, value # Absent
                PROVE  /\ ParseJSON(WriteJSON(value)) = AsRead[MaxNesting][value]
                       /\ FiniteNumbers(text) => ParseJSON(WriteJSON(value)) = value
                       /\ KeysOnce(text) /\ NormalNumbers(text) /\ FiniteNumbers(text)
                            => WriteJSON(value) = text
    BY DEF AcceptedIsCanonical
  <2>1. value = ParseJSON(text) /\ text \in Seq(Tokens)
    BY DEF ExchangeInv
  <2>. QED BY <2>1, ParseAccepts
<1>. QED BY <1>1, ExchangeInvariant, PTL
==============================================================================
