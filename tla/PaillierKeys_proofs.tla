-------------------------- MODULE PaillierKeys_proofs --------------------------
(***************************************************************************)
(* What the numbers of the cryptosystem compute, for keys of every size:   *)
(* exponentiation, greatest common divisors and sizes of BigNumber, the    *)
(* encryptions of PaillierKeys, and their decryptions, which rest on the   *)
(* theorems of Lagrange and Fermat for the units modulo a prime and on the *)
(* Chinese remainder theorem.  The functions that the operators define by  *)
(* recursion are shown to exist, which makes their equations usable;       *)
(* induction is over sets of numbers, as the steps that a counterexample   *)
(* of least size refutes.                                                  *)
(***************************************************************************)
EXTENDS PaillierKeys, TLAPS, WellFoundedInduction, FiniteSetTheorems, SequenceTheorems

-----------------------------------------------------------------------------
(* Division.                                                               *)

LEMMA Remainder ==
    ASSUME NEW m \in Nat \ {0}, NEW i \in Int
    PROVE  i % m \in 0 .. m - 1 /\ i \div m \in Int /\ i = (m * (i \div m)) + (i % m)
OBVIOUS

LEMMA RemainderOfSmall ==
    ASSUME NEW m \in Nat \ {0}, NEW i \in 0 .. m - 1
    PROVE  i % m = i
<1>. DEFINE q == i \div m
<1>1. i % m \in 0 .. m - 1 /\ q \in Int /\ i = (m * q) + (i % m)
  BY Remainder
<1>. HIDE DEF q
<1>2. q = 0
  <2>1. q >= 1 => m * q >= m
    BY <1>1
  <2>2. q <= -1 => m * q <= -m
    BY <1>1
  <2>. QED BY <1>1, <2>1, <2>2
<1>. QED BY <1>1, <1>2

LEMMA RemainderOfNegative ==
    ASSUME NEW m \in Nat \ {0}, NEW i \in -m .. -1
    PROVE  i % m = i + m
<1>. DEFINE q == i \div m
<1>1. i % m \in 0 .. m - 1 /\ q \in Int /\ i = (m * q) + (i % m)
  BY Remainder
<1>. HIDE DEF q
<1>2. q = -1
  <2>1. q >= 0 => m * q >= 0
    BY <1>1
  <2>2. q <= -2 => m * q <= -(m + m)
    BY <1>1
  <2>. QED BY <1>1, <2>1, <2>2
<1>. QED BY <1>1, <1>2

-----------------------------------------------------------------------------
(* Induction and recursion over the natural numbers, by sets.              *)

LEMMA LeastNumber ==
    ASSUME NEW T \in SUBSET Nat, T # {}
    PROVE  \E x \in T : \A y \in T : x <= y
<1>. DEFINE R == OpToRel(<, Nat)
<1>1. IsWellFoundedOn(R, Nat)
  BY NatLessThanWellFounded
<1>2. \A x, y \in Nat : y < x => <<y, x>> \in R
  BY DEF OpToRel
<1>. HIDE DEF R
<1>3. PICK x \in T : \A y \in T : ~(<<y, x>> \in R)
  BY <1>1, WFMin
<1>4. ASSUME NEW y \in T PROVE x <= y
  <2>1. x \in Nat /\ y \in Nat
    OBVIOUS
  <2>2. ~(y < x)
    BY <1>2, <1>3, <2>1, Zenon
  <2>. QED  BY <2>1, <2>2
<1>. QED  BY <1>4

\* What holds of a number if it holds of all the smaller ones holds of all.
LEMMA InductionBySet ==
    ASSUME NEW T, \A n \in Nat : (\A k \in 0 .. n - 1 : k \in T) => n \in T
    PROVE  Nat \subseteq T
<1>. SUFFICES ASSUME Nat \ T # {}
              PROVE  FALSE
  OBVIOUS
<1>1. PICK n \in Nat \ T : \A k \in Nat \ T : n <= k
  BY LeastNumber
<1>2. \A k \in 0 .. n - 1 : k \in T
  BY <1>1
<1>. QED  BY <1>1, <1>2

\* A function defined by one recursive call, at an argument that is smaller by
\* some measure.
Descends(S, mu, base, next) == \A s \in S \ base : mu[next[s]] < mu[s]
Solves(f, S, base, next, c, step) ==
    \A s \in S : f[s] = IF s \in base THEN c[s] ELSE step[<<s, f[next[s]]>>]

LEMMA Recursion ==
    ASSUME NEW S, NEW V, NEW mu \in [S -> Nat], NEW base \in SUBSET S,
           NEW next \in [S -> S], Descends(S, mu, base, next),
           NEW c \in [S -> V], NEW step \in [S \X V -> V]
    PROVE  \E f \in [S -> V] : Solves(f, S, base, next, c, step)
<1>. USE DEF Descends
<1>. DEFINE Below(n) == {s \in S : mu[s] <= n}
            Good(n, g) == \A s \in Below(n) :
                             g[s] = IF s \in base THEN c[s] ELSE step[<<s, g[next[s]]>>]
            Approx(n) == {g \in [S -> V] : Good(n, g)}
<1>1. \A n \in Nat : Approx(n) # {}
  <2>. DEFINE T == {n \in Nat : Approx(n) # {}}
  <2>1. ASSUME NEW n \in Nat, \A k \in 0 .. n - 1 : k \in T PROVE n \in T
    <3>1. PICK g \in [S -> V] : n > 0 => Good(n - 1, g)
      <4>1. CASE n = 0
        BY <4>1
      <4>2. CASE n > 0
        <5>1. n - 1 \in T
          BY <2>1, <4>2
        <5>. QED  BY <5>1
      <4>. QED  BY <4>1, <4>2
    <3>. DEFINE h == [s \in S |-> IF s \in base THEN c[s] ELSE step[<<s, g[next[s]]>>]]
    <3>2. h \in [S -> V]
      OBVIOUS
    <3>3. ASSUME NEW s \in Below(n), s \notin base PROVE h[next[s]] = g[next[s]]
      <4>1. next[s] \in S /\ mu[next[s]] \in Nat /\ mu[next[s]] < mu[s] /\ mu[s] <= n /\ mu[s] \in Nat
        BY <3>3
      <4>2. n > 0 /\ mu[next[s]] <= n - 1
        BY <4>1
      <4>. QED  BY <3>1, <4>1, <4>2
    <3>4. Good(n, h)
      BY <3>3
    <3>. QED  BY <3>2, <3>4
  <2>. HIDE DEF T
  <2>2. Nat \subseteq T
    BY <2>1, InductionBySet
  <2>. QED  BY <2>2 DEF T
<1>2. ASSUME NEW m \in Nat, NEW g \in Approx(m), NEW n \in Nat, NEW h \in Approx(n)
      PROVE  \A s \in S : mu[s] <= m /\ mu[s] <= n => g[s] = h[s]
  <2>. DEFINE T == {k \in Nat : \A s \in S : mu[s] = k /\ k <= m /\ k <= n => g[s] = h[s]}
  <2>1. ASSUME NEW k \in Nat, \A i \in 0 .. k - 1 : i \in T PROVE k \in T
    <3>. SUFFICES ASSUME NEW s \in S, mu[s] = k, k <= m, k <= n PROVE g[s] = h[s]
      OBVIOUS
    <3>1. s \in Below(m) /\ s \in Below(n)
      OBVIOUS
    <3>2. CASE s \in base
      BY <3>1, <3>2
    <3>3. CASE s \notin base
      <4>1. next[s] \in S /\ mu[next[s]] \in 0 .. k - 1
        BY <3>3
      <4>2. g[next[s]] = h[next[s]]
        BY <2>1, <4>1
      <4>. QED  BY <3>1, <3>3, <4>2
    <3>. QED  BY <3>2, <3>3
  <2>. HIDE DEF T
  <2>2. Nat \subseteq T
    BY <2>1, InductionBySet
  <2>. QED  BY <2>2 DEF T
<1>. DEFINE a(n) == CHOOSE g \in Approx(n) : TRUE
<1>3. \A n \in Nat : a(n) \in Approx(n)
  BY <1>1
<1>. DEFINE f == [s \in S |-> a(mu[s])[s]]
<1>. HIDE DEF a
<1>4. f \in [S -> V]
  <2>1. \A s \in S : a(mu[s]) \in [S -> V]
    BY <1>3
  <2>. QED  BY <2>1
<1>5. ASSUME NEW s \in S PROVE f[s] = IF s \in base THEN c[s] ELSE step[<<s, f[next[s]]>>]
  <2>1. a(mu[s]) \in Approx(mu[s]) /\ s \in Below(mu[s])
    BY <1>3
  <2>2. CASE s \in base
    BY <2>1, <2>2
  <2>3. CASE s \notin base
    <3>1. next[s] \in S /\ mu[next[s]] \in Nat /\ mu[next[s]] < mu[s] /\ mu[s] \in Nat
      BY <2>3
    <3>2. a(mu[next[s]]) \in Approx(mu[next[s]])
      BY <1>3, <3>1
    <3>3. a(mu[next[s]])[next[s]] = a(mu[s])[next[s]]
      BY <1>2, <2>1, <3>1, <3>2
    <3>4. f[s] = step[<<s, a(mu[s])[next[s]]>>]
      BY <2>1, <2>3
    <3>. QED  BY <2>3, <3>1, <3>3, <3>4
  <2>. QED  BY <2>2, <2>3
<1>. QED  BY <1>4, <1>5 DEF Solves

-----------------------------------------------------------------------------
(* Residues.                                                               *)

Residues(m) == 0 .. m - 1

LEMMA RemainderUnique ==
    ASSUME NEW m \in Nat \ {0}, NEW q \in Int, NEW r \in Residues(m)
    PROVE  ((m * q) + r) % m = r
<1>. DEFINE a == (m * q) + r
            p == a \div m
            s == a % m
<1>1. s \in 0 .. m - 1 /\ p \in Int /\ a = (m * p) + s /\ a \in Int
  BY Remainder DEF Residues
<1>. HIDE DEF p, s
<1>2. m * (p - q) = r - s
  BY <1>1 DEF a, Residues
<1>3. r - s < m /\ r - s > -m
  BY <1>1 DEF Residues
<1>4. p - q = 0
  <2>. DEFINE d == p - q
  <2>1. d \in Int /\ m * d < m /\ m * d > -m
    BY <1>1, <1>2, <1>3 DEF Residues
  <2>. HIDE DEF d
  <2>2. CASE d >= 1
    <3>1. m * d >= m
      BY <2>1, <2>2
    <3>. QED  BY <2>1, <3>1
  <2>3. CASE d <= -1
    <3>1. m * d <= -m
      BY <2>1, <2>3
    <3>. QED  BY <2>1, <3>1
  <2>4. d = 0
    BY <2>1, <2>2, <2>3
  <2>. QED  BY <2>4 DEF d
<1>5. r = s
  BY <1>1, <1>2, <1>4 DEF Residues
<1>. QED  BY <1>5 DEF s, a

\* Adding a multiple of m changes no residue.
LEMMA ResidueOfSum ==
    ASSUME NEW m \in Nat \ {0}, NEW k \in Int, NEW a \in Int
    PROVE  ((m * k) + a) % m = a % m
<1>. DEFINE q == a \div m
            r == a % m
<1>1. r \in Residues(m) /\ q \in Int /\ a = (m * q) + r
  BY Remainder DEF Residues
<1>. HIDE DEF q, r
<1>2. (m * k) + a = (m * (k + q)) + r
  BY <1>1 DEF Residues
<1>3. ((m * (k + q)) + r) % m = r
  <2>1. k + q \in Int
    BY <1>1
  <2>. QED  BY <1>1, <2>1, RemainderUnique
<1>. QED  BY <1>2, <1>3 DEF r

LEMMA ResidueOfProduct ==
    ASSUME NEW m \in Nat \ {0}, NEW a \in Int, NEW b \in Int
    PROVE  /\ ((a % m) * b) % m = (a * b) % m
           /\ (a * (b % m)) % m = (a * b) % m
           /\ ((a % m) * (b % m)) % m = (a * b) % m
<1>1. ASSUME NEW x \in Int, NEW y \in Int PROVE ((x % m) * y) % m = (x * y) % m
  <2>. DEFINE q == x \div m
              r == x % m
  <2>1. r \in Int /\ q \in Int /\ x = (m * q) + r
    BY Remainder
  <2>. HIDE DEF q, r
  <2>2. x * y = (m * (q * y)) + (r * y) /\ q * y \in Int /\ r * y \in Int
    BY <2>1
  <2>3. ((m * (q * y)) + (r * y)) % m = (r * y) % m
    BY <2>2, ResidueOfSum
  <2>. QED  BY <2>2, <2>3 DEF r
<1>2. a % m \in Int /\ b % m \in Int
  BY Remainder
<1>3. ((a % m) * b) % m = (a * b) % m
  BY <1>1
<1>4. ((b % m) * a) % m = (b * a) % m
  BY <1>1
<1>5. ((a % m) * (b % m)) % m = (a * (b % m)) % m
  BY <1>1, <1>2
<1>6. b * a = a * b /\ (b % m) * a = a * (b % m)
  BY <1>2
<1>. QED  BY <1>3, <1>4, <1>5, <1>6

LEMMA ResidueFacts ==
    ASSUME NEW m \in Nat \ {0}, NEW a \in Int
    PROVE  /\ a % m \in Residues(m) /\ a % m \in Int /\ (a % m) % m = a % m
           /\ a \in Residues(m) => a % m = a
<1>1. a % m \in Residues(m)
  BY Remainder DEF Residues
<1>2. \A r \in Residues(m) : r % m = r
  BY RemainderOfSmall DEF Residues
<1>. QED  BY <1>1, <1>2 DEF Residues

-----------------------------------------------------------------------------
(* Exponentiation.                                                         *)

PowerStep(base, mod, half, e) ==
    IF e % 2 = 0 THEN (half * half) % mod ELSE (((half * half) % mod) * (base % mod)) % mod
PowerBody(base, mod, f) ==
    [e \in Nat |-> IF e = 0 THEN 1 % mod ELSE PowerStep(base, mod, f[e \div 2], e)]
Power(base, mod) == CHOOSE f : f = PowerBody(base, mod, f)

LEMMA modExpIsPower ==
    ASSUME NEW base, NEW exp, NEW mod
    PROVE  modExp(base, exp, mod) = Power(base, mod)[exp]
BY DEF modExp, Power, PowerBody, PowerStep, ModMul, Modulo

LEMMA HalfFacts ==
    ASSUME NEW e \in Nat
    PROVE  /\ e \div 2 \in Nat /\ e % 2 \in {0, 1} /\ e = (2 * (e \div 2)) + (e % 2)
           /\ e # 0 => e \div 2 < e
OBVIOUS

LEMMA PowerStepType ==
    ASSUME NEW base \in Int, NEW mod \in Nat \ {0}, NEW half \in Int, NEW e
    PROVE  PowerStep(base, mod, half, e) \in Residues(mod)
<1>1. half * half \in Int
  OBVIOUS
<1>2. (half * half) % mod \in Int /\ base % mod \in Int /\ (half * half) % mod \in Residues(mod)
  BY <1>1, ResidueFacts
<1>3. ((half * half) % mod) * (base % mod) \in Int
  BY <1>2
<1>4. (((half * half) % mod) * (base % mod)) % mod \in Residues(mod)
  BY <1>3, ResidueFacts
<1>. QED  BY <1>2, <1>4 DEF PowerStep

LEMMA PowerFixpoint ==
    ASSUME NEW base \in Int, NEW mod \in Nat \ {0}
    PROVE  Power(base, mod) = PowerBody(base, mod, Power(base, mod))
<1>. DEFINE V == Residues(mod)
            mu == [e \in Nat |-> e]
            zero == {0}
            next == [e \in Nat |-> e \div 2]
            c == [e \in Nat |-> 1 % mod]
            step == [p \in Nat \X V |-> PowerStep(base, mod, p[2], p[1])]
<1>1. /\ mu \in [Nat -> Nat] /\ next \in [Nat -> Nat] /\ zero \in SUBSET Nat
      /\ Descends(Nat, mu, zero, next)
  BY HalfFacts DEF Descends
<1>2. c \in [Nat -> V]
  <2>1. 1 % mod \in V
    <3>1. 1 \in Int
      OBVIOUS
    <3>. QED  BY <3>1, ResidueFacts
  <2>. QED  BY <2>1
<1>3. step \in [Nat \X V -> V]
  <2>1. \A p \in Nat \X V : PowerStep(base, mod, p[2], p[1]) \in V
    BY PowerStepType DEF Residues
  <2>. QED  BY <2>1
<1>. HIDE DEF mu, zero, next, c, step, V
<1>4. PICK f \in [Nat -> V] : Solves(f, Nat, zero, next, c, step)
  BY <1>1, <1>2, <1>3, Recursion
<1>5. ASSUME NEW e \in Nat
      PROVE  f[e] = IF e = 0 THEN 1 % mod ELSE PowerStep(base, mod, f[e \div 2], e)
  <2>1. e \div 2 \in Nat /\ f[e \div 2] \in V
    <3>1. e \div 2 \in Nat
      BY HalfFacts
    <3>. QED  BY <3>1
  <2>2. next[e] = e \div 2 /\ c[e] = 1 % mod
    BY DEF next, c
  <2>4. e \in zero <=> e = 0
    BY DEF zero
  <2>3. step[<<e, f[e \div 2]>>] = PowerStep(base, mod, f[e \div 2], e)
    BY <2>1 DEF step
  <2>. QED  BY <1>4, <2>2, <2>3, <2>4 DEF Solves
<1>6. f = PowerBody(base, mod, f)
  BY <1>5 DEF PowerBody
<1>. QED  BY <1>6, Zenon DEF Power

LEMMA PowerFacts ==
    ASSUME NEW base \in Int, NEW mod \in Nat \ {0}
    PROVE  /\ Power(base, mod)[0] = 1 % mod
           /\ \A e \in Nat \ {0} : Power(base, mod)[e]
                 = PowerStep(base, mod, Power(base, mod)[e \div 2], e)
           /\ \A e \in Nat : Power(base, mod)[e] \in Residues(mod)
<1>. DEFINE f == Power(base, mod)
            T == {e \in Nat : f[e] \in Residues(mod)}
<1>1. f = PowerBody(base, mod, f)
  BY PowerFixpoint
<1>. HIDE DEF f
<1>2. \A e \in Nat : f[e] = IF e = 0 THEN 1 % mod ELSE PowerStep(base, mod, f[e \div 2], e)
  <2>1. \E g : g = f
    OBVIOUS
  <2>2. PICK g : g = f
    BY <2>1
  <2>3. f = PowerBody(base, mod, g)
    BY <1>1, <2>2
  <2>4. \A e \in Nat : f[e] = IF e = 0 THEN 1 % mod ELSE PowerStep(base, mod, g[e \div 2], e)
    BY <2>3 DEF PowerBody
  <2>. QED  BY <2>2, <2>4
<1>3. ASSUME NEW e \in Nat, \A k \in 0 .. e - 1 : k \in T PROVE e \in T
  <2>1. CASE e = 0
    <3>1. 1 % mod \in Residues(mod)
      <4>1. 1 \in Int
        OBVIOUS
      <4>. QED  BY <4>1, ResidueFacts
    <3>. QED  BY <1>2, <2>1, <3>1
  <2>2. CASE e # 0
    <3>1. e \div 2 \in 0 .. e - 1
      BY <2>2, HalfFacts
    <3>2. f[e \div 2] \in Int
      BY <1>3, <3>1 DEF Residues
    <3>. QED  BY <1>2, <2>2, <3>2, PowerStepType
  <2>. QED  BY <2>1, <2>2
<1>. HIDE DEF T
<1>4. Nat \subseteq T
  BY <1>3, InductionBySet
<1>. QED  BY <1>2, <1>4 DEF T, f

\* One factor more.
LEMMA PowerNext ==
    ASSUME NEW base \in Int, NEW mod \in Nat \ {0}, NEW e \in Nat
    PROVE  Power(base, mod)[e + 1] = (Power(base, mod)[e] * base) % mod
<1>. DEFINE f == Power(base, mod)
            T == {n \in Nat : f[n + 1] = (f[n] * base) % mod}
<1>1. /\ f[0] = 1 % mod
      /\ \A n \in Nat \ {0} : f[n] = PowerStep(base, mod, f[n \div 2], n)
      /\ \A n \in Nat : f[n] \in Residues(mod) /\ f[n] \in Int
  BY PowerFacts DEF Residues
<1>. HIDE DEF f
<1>2. ASSUME NEW n \in Nat, n % 2 = 0 PROVE n \in T
  <2>. DEFINE k == n \div 2
  <2>1. k \in Nat /\ n = 2 * k /\ (n + 1) \div 2 = k /\ (n + 1) % 2 = 1
    BY <1>2
  <2>. HIDE DEF k
  <2>. DEFINE h == f[k]
  <2>2. h \in Int /\ h * h \in Int
    BY <1>1, <2>1
  <2>3. f[n + 1] = (((h * h) % mod) * (base % mod)) % mod
    <3>1. n + 1 \in Nat \ {0} /\ f[n + 1] = PowerStep(base, mod, f[(n + 1) \div 2], n + 1)
      BY <1>1
    <3>2. f[(n + 1) \div 2] = h /\ ~((n + 1) % 2 = 0)
      BY <2>1
    <3>. QED  BY <3>1, <3>2, Zenon DEF PowerStep
  <2>4. f[n] = (h * h) % mod
    <3>1. CASE n = 0
      <4>1. k = 0 /\ f[n] = 1 % mod /\ h = 1 % mod
        BY <1>1, <2>1, <3>1
      <4>2. ((1 % mod) * (1 % mod)) % mod = (1 * 1) % mod
        <5>1. 1 \in Int
          OBVIOUS
        <5>. QED  BY <5>1, ResidueOfProduct
      <4>. QED  BY <4>1, <4>2
    <3>2. CASE n # 0
      BY <1>1, <1>2, <3>2 DEF PowerStep, k
    <3>. QED  BY <3>1, <3>2
  <2>. HIDE DEF h
  <2>5. (h * h) % mod \in Int
    BY <2>2, ResidueFacts
  <2>6. (((h * h) % mod) * (base % mod)) % mod = (((h * h) % mod) * base) % mod
    BY <2>5, ResidueOfProduct
  <2>. QED  BY <2>3, <2>4, <2>6
<1>3. ASSUME NEW n \in Nat, n % 2 = 1, \A i \in 0 .. n - 1 : i \in T PROVE n \in T
  <2>. DEFINE k == n \div 2
  <2>1. k \in Nat /\ n = (2 * k) + 1 /\ (n + 1) \div 2 = k + 1 /\ (n + 1) % 2 = 0 /\ k \in 0 .. n - 1
        /\ n # 0
    BY <1>3
  <2>. DEFINE h == f[k]
              g == f[k + 1]
  <2>2. f[n] = (((h * h) % mod) * (base % mod)) % mod
    BY <1>1, <1>3, <2>1 DEF PowerStep
  <2>. HIDE DEF k
  <2>3. f[n + 1] = (g * g) % mod
    BY <1>1, <2>1 DEF PowerStep
  <2>4. g = (h * base) % mod
    BY <1>3, <2>1
  <2>5. h \in Int /\ h * h \in Int /\ h * base \in Int
    BY <1>1, <2>1
  <2>. HIDE DEF h, g
  <2>6. f[n + 1] = ((h * base) * (h * base)) % mod
    BY <2>3, <2>4, <2>5, ResidueOfProduct
  <2>7. f[n] = ((h * h) * base) % mod
    BY <2>2, <2>5, ResidueOfProduct
  <2>8. (f[n] * base) % mod = (((h * h) * base) * base) % mod
    <3>1. (h * h) * base \in Int
      BY <2>5
    <3>. QED  BY <2>7, <3>1, ResidueOfProduct
  <2>9. ((h * h) * base) * base = (h * base) * (h * base)
    BY <2>5
  <2>. QED  BY <2>6, <2>8, <2>9
<1>4. ASSUME NEW n \in Nat, \A i \in 0 .. n - 1 : i \in T PROVE n \in T
  <2>1. n % 2 = 0 \/ n % 2 = 1
    OBVIOUS
  <2>. QED  BY <1>2, <1>3, <1>4, <2>1
<1>. HIDE DEF T
<1>5. Nat \subseteq T
  BY <1>4, InductionBySet
<1>. QED  BY <1>5 DEF T, f

\* Binary exponentiation multiplies as often as the exponent says.
THEOREM ExponentiationMultiplies ==
    ASSUME NEW base \in Int, NEW mod \in Nat \ {0}
    PROVE  /\ modExp(base, 0, mod) = 1 % mod
           /\ \A e \in Nat : /\ modExp(base, e, mod) \in 0 .. mod - 1
                             /\ modExp(base, e + 1, mod) = ModMul(mod, modExp(base, e, mod), base)
BY modExpIsPower, PowerFacts, PowerNext DEF Residues, ModMul, Modulo

-----------------------------------------------------------------------------
(* Congruences.                                                            *)

Same(m, a, b) == a % m = b % m

LEMMA SameByMultiple ==
    ASSUME NEW m \in Nat \ {0}, NEW a \in Int, NEW b \in Int
    PROVE  Same(m, a, b) <=> \E t \in Int : a = b + (m * t)
<1>1. ASSUME NEW t \in Int, a = b + (m * t) PROVE Same(m, a, b)
  <2>1. a = (m * t) + b
    BY <1>1
  <2>. QED  BY <2>1, ResidueOfSum DEF Same
<1>2. ASSUME Same(m, a, b) PROVE \E t \in Int : a = b + (m * t)
  <2>. DEFINE q == a \div m
              p == b \div m
              r == a % m
              s == b % m
  <2>1. q \in Int /\ r \in Int /\ a = (m * q) + r
    BY Remainder
  <2>2. p \in Int /\ s \in Int /\ b = (m * p) + s
    BY Remainder
  <2>3. r = s
    BY <1>2 DEF Same
  <2>. HIDE DEF q, p, r, s
  <2>4. a = b + (m * (q - p)) /\ q - p \in Int
    BY <2>1, <2>2, <2>3
  <2>. QED  BY <2>4
<1>. QED  BY <1>1, <1>2

LEMMA SameResults ==
    ASSUME NEW m \in Nat \ {0}, NEW a \in Int, NEW b \in Int, NEW c \in Int, NEW d \in Int,
           Same(m, a, c), Same(m, b, d)
    PROVE  Same(m, a * b, c * d) /\ Same(m, a + b, c + d)
<1>1. PICK s \in Int : a = c + (m * s)
  BY SameByMultiple
<1>2. PICK t \in Int : b = d + (m * t)
  BY SameByMultiple
<1>3. a * b = (c * d) + (m * (((c * t) + (d * s)) + (m * (s * t))))
  BY <1>1, <1>2
<1>4. a + b = (c + d) + (m * (s + t))
  BY <1>1, <1>2
<1>5. /\ ((c * t) + (d * s)) + (m * (s * t)) \in Int /\ s + t \in Int
      /\ a * b \in Int /\ c * d \in Int /\ a + b \in Int /\ c + d \in Int
  OBVIOUS
<1>6. Same(m, a * b, c * d)
  BY <1>3, <1>5, SameByMultiple
<1>7. Same(m, a + b, c + d)
  BY <1>4, <1>5, SameByMultiple
<1>. QED  BY <1>6, <1>7

LEMMA SameResidue ==
    ASSUME NEW m \in Nat \ {0}, NEW a \in Int
    PROVE  Same(m, a % m, a) /\ Same(m, a, a % m)
BY ResidueFacts DEF Same

LEMMA SameFacts ==
    ASSUME NEW m, NEW a, NEW b
    PROVE  /\ Same(m, a, a)
           /\ Same(m, a, b) => Same(m, b, a)
           /\ \A c : Same(m, a, b) /\ Same(m, b, c) => Same(m, a, c)
BY DEF Same

LEMMA SameResidues ==
    ASSUME NEW m \in Nat \ {0}, NEW a \in Residues(m), NEW b \in Residues(m), Same(m, a, b)
    PROVE  a = b
BY RemainderOfSmall DEF Same, Residues

-----------------------------------------------------------------------------
(* The laws of exponents.                                                  *)

LEMMA SameTimes ==
    ASSUME NEW m \in Nat \ {0}, NEW a \in Int, NEW b \in Int, NEW c \in Int, Same(m, a, b)
    PROVE  Same(m, a * c, b * c) /\ Same(m, c * a, c * b)
<1>1. Same(m, c, c)
  BY SameFacts
<1>2. Same(m, a * c, b * c)
  BY <1>1, SameResults
<1>3. Same(m, c * a, c * b)
  BY <1>1, SameResults
<1>. QED  BY <1>2, <1>3

LEMMA ExpFacts ==
    ASSUME NEW m \in Nat \ {0}, NEW b \in Int, NEW e \in Nat
    PROVE  /\ Same(m, modExp(b, 0, m), 1)
           /\ modExp(b, e, m) \in Residues(m) /\ modExp(b, e, m) \in Int
           /\ Same(m, modExp(b, e + 1, m), modExp(b, e, m) * b)
<1>. DEFINE x == modExp(b, e, m)
<1>1. /\ modExp(b, 0, m) = 1 % m
      /\ x \in 0 .. m - 1
      /\ modExp(b, e + 1, m) = (x * b) % m
  BY ExponentiationMultiplies DEF ModMul, Modulo
<1>. HIDE DEF x
<1>2. x \in Int /\ x \in Residues(m) /\ x * b \in Int /\ 1 \in Int
  BY <1>1 DEF Residues
<1>3. Same(m, (x * b) % m, x * b) /\ Same(m, 1 % m, 1)
  BY <1>2, SameResidue
<1>. QED  BY <1>1, <1>2, <1>3 DEF x

\* Induction as it is used below.
LEMMA SimpleInduction ==
    ASSUME NEW T, 0 \in T, \A n \in Nat : n \in T => n + 1 \in T
    PROVE  Nat \subseteq T
<1>1. ASSUME NEW n \in Nat, \A k \in 0 .. n - 1 : k \in T PROVE n \in T
  <2>1. CASE n = 0
    BY <2>1
  <2>2. CASE n # 0
    <3>1. n - 1 \in 0 .. n - 1 /\ n - 1 \in Nat /\ (n - 1) + 1 = n
      BY <2>2
    <3>. QED  BY <1>1, <3>1
  <2>. QED  BY <2>1, <2>2
<1>. QED  BY <1>1, InductionBySet

\* Only the residue of the base matters.
LEMMA ExpOfSame ==
    ASSUME NEW m \in Nat \ {0}, NEW a \in Int, NEW b \in Int, Same(m, a, b)
    PROVE  \A e \in Nat : modExp(a, e, m) = modExp(b, e, m)
<1>. DEFINE T == {e \in Nat : Same(m, modExp(a, e, m), modExp(b, e, m))}
<1>1. 0 \in T
  <2>1. 0 \in Nat
    OBVIOUS
  <2>2. Same(m, modExp(a, 0, m), 1) /\ Same(m, modExp(b, 0, m), 1)
    BY <2>1, ExpFacts
  <2>. QED  BY <2>2, SameFacts
<1>2. ASSUME NEW e \in Nat, e \in T PROVE e + 1 \in T
  <2>. DEFINE x == modExp(a, e, m)
              y == modExp(b, e, m)
              x1 == modExp(a, e + 1, m)
              y1 == modExp(b, e + 1, m)
  <2>1. x \in Int /\ y \in Int /\ Same(m, x1, x * a) /\ Same(m, y1, y * b) /\ Same(m, x, y)
    BY <1>2, ExpFacts
  <2>. HIDE DEF x, y, x1, y1
  <2>2. Same(m, x * a, y * b)
    BY <2>1, SameResults
  <2>3. Same(m, x1, y1)
    BY <2>1, <2>2, SameFacts
  <2>. QED  BY <2>3 DEF x1, y1
<1>. HIDE DEF T
<1>3. Nat \subseteq T
  BY <1>1, <1>2, SimpleInduction
<1>4. ASSUME NEW e \in Nat PROVE modExp(a, e, m) = modExp(b, e, m)
  <2>1. Same(m, modExp(a, e, m), modExp(b, e, m))
    BY <1>3 DEF T
  <2>2. modExp(a, e, m) \in Residues(m) /\ modExp(b, e, m) \in Residues(m)
    BY ExpFacts
  <2>. QED  BY <2>1, <2>2, SameResidues
<1>. QED  BY <1>4

LEMMA ExpOfSum ==
    ASSUME NEW m \in Nat \ {0}, NEW b \in Int, NEW e \in Nat
    PROVE  \A f \in Nat : Same(m, modExp(b, e + f, m), modExp(b, e, m) * modExp(b, f, m))
<1>. DEFINE T == {f \in Nat : Same(m, modExp(b, e + f, m), modExp(b, e, m) * modExp(b, f, m))}
<1>1. 0 \in T
  <2>. DEFINE x == modExp(b, e, m)
              y == modExp(b, 0, m)
  <2>0. 0 \in Nat /\ 1 \in Int
    OBVIOUS
  <2>1. x \in Int /\ y \in Int /\ Same(m, y, 1)
    BY <2>0, ExpFacts
  <2>. HIDE DEF x, y
  <2>2. Same(m, x * y, x * 1)
    BY <2>0, <2>1, SameTimes
  <2>3. e + 0 = e /\ x * 1 = x
    BY <2>1
  <2>4. Same(m, x, x * y)
    BY <2>2, <2>3, SameFacts
  <2>. QED  BY <2>3, <2>4 DEF x, y
<1>2. ASSUME NEW f \in Nat, f \in T PROVE f + 1 \in T
  <2>. DEFINE g == e + f
              x == modExp(b, e, m)
              y == modExp(b, f, m)
              z == modExp(b, g, m)
              y1 == modExp(b, f + 1, m)
              z1 == modExp(b, g + 1, m)
  <2>0. g \in Nat /\ f + 1 \in Nat /\ g + 1 \in Nat /\ e + (f + 1) = g + 1
    OBVIOUS
  <2>3. Same(m, z, x * y)
    BY <1>2
  <2>. HIDE DEF g
  <2>1. x \in Int /\ y \in Int /\ z \in Int /\ y1 \in Int /\ z1 \in Int
    BY <2>0, ExpFacts
  <2>2. Same(m, y1, y * b) /\ Same(m, z1, z * b)
    BY <2>0, ExpFacts
  <2>. HIDE DEF x, y, z, y1, z1
  <2>4. x * y \in Int /\ y * b \in Int
    BY <2>1
  <2>5. Same(m, z * b, (x * y) * b)
    BY <2>1, <2>3, <2>4, SameTimes
  <2>6. Same(m, x * y1, x * (y * b))
    BY <2>1, <2>2, <2>4, SameTimes
  <2>7. (x * y) * b = x * (y * b)
    BY <2>1
  <2>8. Same(m, z1, x * y1)
    BY <2>2, <2>5, <2>6, <2>7, SameFacts
  <2>. QED  BY <2>0, <2>8 DEF x, y1, z1
<1>. HIDE DEF T
<1>3. Nat \subseteq T
  BY <1>1, <1>2, SimpleInduction
<1>. QED  BY <1>3 DEF T

LEMMA ExpOfProduct ==
    ASSUME NEW m \in Nat \ {0}, NEW a \in Int, NEW b \in Int
    PROVE  \A e \in Nat : Same(m, modExp(a * b, e, m), modExp(a, e, m) * modExp(b, e, m))
<1>. DEFINE c == a * b
            T == {e \in Nat : Same(m, modExp(c, e, m), modExp(a, e, m) * modExp(b, e, m))}
<1>0. c \in Int
  OBVIOUS
<1>0a. c = a * b
  OBVIOUS
<1>. HIDE DEF c
<1>1. 0 \in T
  <2>. DEFINE x == modExp(a, 0, m)
              y == modExp(b, 0, m)
              z == modExp(c, 0, m)
  <2>1. x \in Int /\ y \in Int /\ Same(m, x, 1) /\ Same(m, y, 1) /\ Same(m, z, 1)
    BY <1>0, ExpFacts
  <2>. HIDE DEF x, y, z
  <2>2. 1 \in Int /\ 1 * 1 = 1
    OBVIOUS
  <2>3. Same(m, x * y, 1 * 1)
    BY <2>1, <2>2, SameResults
  <2>4. Same(m, z, x * y)
    BY <2>1, <2>2, <2>3, SameFacts
  <2>. QED  BY <2>4 DEF x, y, z
<1>2. ASSUME NEW e \in Nat, e \in T PROVE e + 1 \in T
  <2>. DEFINE x == modExp(a, e, m)
              y == modExp(b, e, m)
              z == modExp(c, e, m)
              x1 == modExp(a, e + 1, m)
              y1 == modExp(b, e + 1, m)
              z1 == modExp(c, e + 1, m)
  <2>0. e + 1 \in Nat
    OBVIOUS
  <2>1. x \in Int /\ y \in Int /\ z \in Int /\ y1 \in Int /\ z1 \in Int /\ x1 \in Int
    BY <1>0, <2>0, ExpFacts
  <2>2. Same(m, y1, y * b) /\ Same(m, z1, z * c) /\ Same(m, x1, x * a)
    BY <1>0, ExpFacts
  <2>3. Same(m, z, x * y)
    BY <1>2
  <2>. HIDE DEF x, y, z, y1, z1, x1
  <2>4. x * y \in Int /\ y * b \in Int /\ x * a \in Int
    BY <2>1
  <2>5. Same(m, z * c, (x * y) * c)
    BY <1>0, <2>1, <2>3, <2>4, SameTimes
  <2>6. Same(m, x1 * y1, (x * a) * (y * b))
    BY <2>1, <2>2, <2>4, SameResults
  <2>7. (x * y) * c = (x * a) * (y * b)
    BY <1>0a, <2>1
  <2>8. Same(m, z1, x1 * y1)
    BY <2>2, <2>5, <2>6, <2>7, SameFacts
  <2>. QED  BY <2>8 DEF x1, y1, z1
<1>. HIDE DEF T
<1>3. Nat \subseteq T
  BY <1>1, <1>2, SimpleInduction
<1>. QED  BY <1>0a, <1>3 DEF T

PowerOfPower(m, b, e, f, h) ==
    h = e * f => modExp(modExp(b, e, m), f, m) = modExp(b, h, m)

LEMMA ExpOfExp ==
    ASSUME NEW m \in Nat \ {0}, NEW b \in Int, NEW e \in Nat
    PROVE  \A f \in Nat : \A h : PowerOfPower(m, b, e, f, h)
<1>. DEFINE c == modExp(b, e, m)
            T == {f \in Nat : Same(m, modExp(c, f, m), modExp(b, e * f, m))}
<1>0. c \in Int
  BY ExpFacts
<1>1. 0 \in T
  <2>1. e * 0 = 0 /\ 0 \in Nat
    OBVIOUS
  <2>. HIDE DEF c
  <2>2. Same(m, modExp(c, 0, m), 1) /\ Same(m, modExp(b, 0, m), 1)
    BY <1>0, <2>1, ExpFacts
  <2>. QED  BY <2>1, <2>2, SameFacts
<1>2. ASSUME NEW f \in Nat, f \in T PROVE f + 1 \in T
  <2>. DEFINE g == e * f
              x == modExp(c, f, m)
              y == modExp(b, g, m)
              x1 == modExp(c, f + 1, m)
              y1 == modExp(b, g + e, m)
  <2>0. g \in Nat /\ e * (f + 1) = g + e
    OBVIOUS
  <2>1. Same(m, x, y)
    BY <1>2
  <2>. HIDE DEF g
  <2>2. Same(m, y1, y * c) /\ y \in Int
    BY <2>0, ExpOfSum, ExpFacts
  <2>. HIDE DEF c
  <2>3. Same(m, x1, x * c) /\ x \in Int
    BY <1>0, ExpFacts
  <2>. HIDE DEF x, y, x1, y1
  <2>4. Same(m, x * c, y * c)
    BY <1>0, <2>1, <2>2, <2>3, SameTimes
  <2>5. Same(m, x1, y1)
    BY <2>2, <2>3, <2>4, SameFacts
  <2>. QED  BY <2>0, <2>5 DEF x1, y1
<1>. HIDE DEF T
<1>3. Nat \subseteq T
  BY <1>1, <1>2, SimpleInduction
<1>4. ASSUME NEW f \in Nat PROVE modExp(c, f, m) = modExp(b, e * f, m)
  <2>1. Same(m, modExp(c, f, m), modExp(b, e * f, m))
    BY <1>3 DEF T
  <2>. HIDE DEF c
  <2>2. e * f \in Nat
    OBVIOUS
  <2>3. modExp(c, f, m) \in Residues(m) /\ modExp(b, e * f, m) \in Residues(m)
    BY <1>0, <2>2, ExpFacts
  <2>. QED  BY <2>1, <2>3, SameResidues
<1>. QED  BY <1>4 DEF PowerOfPower

\* Next to 1, where the square of the distance vanishes, powers are linear.
LEMMA ExpNearOne ==
    ASSUME NEW m \in Nat \ {0}, NEW k \in Int, Same(m, k * k, 0)
    PROVE  \A e \in Nat : Same(m, modExp(k + 1, e, m), (k * e) + 1)
<1>. DEFINE b == k + 1
            T == {e \in Nat : Same(m, modExp(b, e, m), (k * e) + 1)}
<1>0. b \in Int /\ b = k + 1
  OBVIOUS
<1>. HIDE DEF b
<1>1. 0 \in T
  <2>1. 0 \in Nat /\ (k * 0) + 1 = 1
    OBVIOUS
  <2>2. Same(m, modExp(b, 0, m), 1)
    BY <1>0, <2>1, ExpFacts
  <2>. QED  BY <2>1, <2>2
<1>2. ASSUME NEW e \in Nat, e \in T PROVE e + 1 \in T
  <2>. DEFINE x == modExp(b, e, m)
              y == (k * e) + 1
              x1 == modExp(b, e + 1, m)
  <2>1. x \in Int /\ Same(m, x1, x * b) /\ Same(m, x, y)
    BY <1>0, <1>2, ExpFacts
  <2>2. y \in Int /\ y * b = ((k * (e + 1)) + 1) + (m * 0) + ((k * k) * e)
    BY <1>0
  <2>. HIDE DEF x, y, x1
  <2>3. Same(m, x * b, y * b)
    BY <1>0, <2>1, <2>2, SameTimes
  <2>4. PICK t \in Int : k * k = 0 + (m * t)
    <3>1. k * k \in Int /\ 0 \in Int
      OBVIOUS
    <3>. QED  BY <3>1, SameByMultiple
  <2>5. y * b = ((k * (e + 1)) + 1) + (m * (t * e)) /\ y * b \in Int /\ t * e \in Int
        /\ (k * (e + 1)) + 1 \in Int
    BY <1>0, <2>2, <2>4
  <2>6. Same(m, y * b, (k * (e + 1)) + 1)
    BY <2>5, SameByMultiple
  <2>7. Same(m, x1, (k * (e + 1)) + 1)
    BY <2>1, <2>3, <2>6, SameFacts
  <2>. QED  BY <2>7 DEF x1
<1>. HIDE DEF T
<1>3. Nat \subseteq T
  BY <1>1, <1>2, SimpleInduction
<1>. QED  BY <1>0, <1>3 DEF T

-----------------------------------------------------------------------------
(* Greatest common divisors and units.                                     *)

EuclidBody(f) ==
    [pair \in Nat \X Nat |->
        IF pair[2] = 0 THEN pair[1] ELSE f[<<pair[2], pair[1] % pair[2]>>]]
Euclid == CHOOSE f : f = EuclidBody(f)

LEMMA gcdIsEuclid ==
    ASSUME NEW a, NEW b
    PROVE  gcd(a, b) = Euclid[<<a, b>>]
BY DEF gcd, Euclid, EuclidBody

LEMMA EuclidFixpoint == Euclid \in [Nat \X Nat -> Nat] /\ Euclid = EuclidBody(Euclid)
<1>. DEFINE S == Nat \X Nat
            mu == [pair \in S |-> pair[2]]
            base == {pair \in S : pair[2] = 0}
            next == [pair \in S |-> IF pair[2] = 0 THEN pair ELSE <<pair[2], pair[1] % pair[2]>>]
            c == [pair \in S |-> pair[1]]
            step == [p \in S \X Nat |-> p[2]]
<1>1. ASSUME NEW pair \in S, pair[2] # 0
      PROVE  <<pair[2], pair[1] % pair[2]>> \in S /\ pair[1] % pair[2] < pair[2]
  <2>1. pair[1] \in Int /\ pair[2] \in Nat \ {0}
    BY <1>1
  <2>2. pair[1] % pair[2] \in 0 .. pair[2] - 1
    BY <2>1, Remainder
  <2>. QED  BY <2>1, <2>2
<1>2. /\ mu \in [S -> Nat] /\ base \in SUBSET S /\ c \in [S -> Nat]
      /\ step \in [S \X Nat -> Nat]
  OBVIOUS
<1>3. next \in [S -> S]
  BY <1>1
<1>4. Descends(S, mu, base, next)
  BY <1>1 DEF Descends
<1>5. /\ \A pair \in S : pair \in base <=> pair[2] = 0
      /\ \A pair \in S : c[pair] = pair[1]
      /\ \A pair \in S : pair[2] # 0 => next[pair] = <<pair[2], pair[1] % pair[2]>>
      /\ \A pair \in S, v \in Nat : step[<<pair, v>>] = v
  OBVIOUS
<1>. HIDE DEF mu, base, next, c, step
<1>6. PICK f \in [S -> Nat] : Solves(f, S, base, next, c, step)
  BY <1>2, <1>3, <1>4, Recursion
<1>7. ASSUME NEW pair \in S
      PROVE  f[pair] = IF pair[2] = 0 THEN pair[1] ELSE f[<<pair[2], pair[1] % pair[2]>>]
  <2>1. CASE pair[2] = 0
    BY <1>5, <1>6, <2>1 DEF Solves
  <2>2. CASE pair[2] # 0
    <3>1. next[pair] = <<pair[2], pair[1] % pair[2]>> /\ next[pair] \in S
      BY <1>1, <1>5, <2>2
    <3>2. f[pair] = step[<<pair, f[next[pair]]>>]
      BY <1>5, <1>6, <2>2 DEF Solves
    <3>3. f[next[pair]] \in Nat
      BY <3>1
    <3>. QED  BY <1>5, <2>2, <3>1, <3>2, <3>3
  <2>. QED  BY <2>1, <2>2
<1>8. f = EuclidBody(f)
  BY <1>7 DEF EuclidBody
<1>9. Euclid = EuclidBody(Euclid)
  BY <1>8, Zenon DEF Euclid
<1>10. \A g : g = EuclidBody(g) => g = f
  <2>. SUFFICES ASSUME NEW g, g = EuclidBody(g) PROVE g = f
    OBVIOUS
  <2>1. \A pair \in S : g[pair] = IF pair[2] = 0 THEN pair[1] ELSE g[<<pair[2], pair[1] % pair[2]>>]
    <3>1. PICK h : h = g
      OBVIOUS
    <3>2. g = EuclidBody(h)
      BY <3>1
    <3>3. \A pair \in S : g[pair]
             = IF pair[2] = 0 THEN pair[1] ELSE h[<<pair[2], pair[1] % pair[2]>>]
      BY <3>2 DEF EuclidBody
    <3>. QED  BY <3>1, <3>3
  <2>2. g = [pair \in S |-> g[pair]] /\ f = [pair \in S |-> f[pair]]
    <3>1. PICK h : h = g
      OBVIOUS
    <3>2. g = EuclidBody(h)
      BY <3>1
    <3>. QED  BY <3>2 DEF EuclidBody
  <2>. DEFINE T == {n \in Nat : \A pair \in S : pair[2] = n => g[pair] = f[pair]}
  <2>3. ASSUME NEW n \in Nat, \A k \in 0 .. n - 1 : k \in T PROVE n \in T
    <3>. SUFFICES ASSUME NEW pair \in S, pair[2] = n PROVE g[pair] = f[pair]
      OBVIOUS
    <3>1. CASE n = 0
      BY <1>7, <2>1, <3>1
    <3>2. CASE n # 0
      <4>. DEFINE next1 == <<pair[2], pair[1] % pair[2]>>
      <4>1. next1 \in S /\ next1[2] \in 0 .. n - 1
        BY <3>2
      <4>2. g[next1] = f[next1]
        BY <2>3, <4>1
      <4>. QED  BY <1>7, <2>1, <3>2, <4>2
    <3>. QED  BY <3>1, <3>2
  <2>. HIDE DEF T
  <2>4. Nat \subseteq T
    BY <2>3, InductionBySet
  <2>5. \A pair \in S : g[pair] = f[pair]
    BY <2>4 DEF T
  <2>. QED  BY <2>2, <2>5
<1>. QED  BY <1>9, <1>10

LEMMA gcdFacts ==
    ASSUME NEW a \in Nat
    PROVE  /\ gcd(a, 0) = a
           /\ \A b \in Nat \ {0} : gcd(a, b) = gcd(b, a % b)
           /\ \A b \in Nat : gcd(a, b) \in Nat
<1>1. \A pair \in Nat \X Nat : Euclid[pair]
         = IF pair[2] = 0 THEN pair[1] ELSE Euclid[<<pair[2], pair[1] % pair[2]>>]
  <2>1. PICK h : h = Euclid
    OBVIOUS
  <2>2. Euclid = EuclidBody(h)
    BY <2>1, EuclidFixpoint
  <2>3. \A pair \in Nat \X Nat : Euclid[pair]
           = IF pair[2] = 0 THEN pair[1] ELSE h[<<pair[2], pair[1] % pair[2]>>]
    BY <2>2 DEF EuclidBody
  <2>. QED  BY <2>1, <2>3
<1>2. \A x, y \in Nat : Euclid[<<x, y>>] = IF y = 0 THEN x ELSE Euclid[<<y, x % y>>]
  BY <1>1
<1>3. \A x, y \in Nat : Euclid[<<x, y>>] \in Nat
  BY EuclidFixpoint
<1>. QED  BY <1>2, <1>3, gcdIsEuclid

\* Bezout: the greatest common divisor divides both and is a combination of them.
Combination(g, a, b) ==
    /\ g \in Nat
    /\ \E s, t \in Int : g = (a * s) + (b * t)
    /\ \E k, l \in Int : a = g * k /\ b = g * l

LEMMA Bezout ==
    \A b \in Nat : \A a \in Nat : Combination(gcd(a, b), a, b)
<1>. DEFINE T == {b \in Nat : \A a \in Nat : Combination(gcd(a, b), a, b)}
<1>1. ASSUME NEW b \in Nat, \A k \in 0 .. b - 1 : k \in T PROVE b \in T
  <2>. SUFFICES ASSUME NEW a \in Nat PROVE Combination(gcd(a, b), a, b)
    OBVIOUS
  <2>1. CASE b = 0
    <3>1. gcd(a, b) = a
      BY <2>1, gcdFacts
    <3>2. /\ a = (a * 1) + (b * 0)
          /\ a = a * 1 /\ b = a * 0
      BY <2>1
    <3>. QED  BY <3>1, <3>2 DEF Combination
  <2>2. CASE b # 0
    <3>. DEFINE q == a \div b
                r == a % b
                g == gcd(b, r)
    <3>1. r \in 0 .. b - 1 /\ q \in Int /\ a = (b * q) + r
      BY <2>2, Remainder
    <3>2. gcd(a, b) = g
      BY <2>2, gcdFacts
    <3>3. Combination(g, b, r)
      BY <1>1, <3>1
    <3>. HIDE DEF q, r, g
    <3>4. PICK s, t \in Int : g = (b * s) + (r * t)
      BY <3>3 DEF Combination
    <3>5. PICK k, l \in Int : b = g * k /\ r = g * l
      BY <3>3 DEF Combination
    <3>6. g \in Nat /\ r \in Int
      BY <3>1, <3>3 DEF Combination
    <3>7. g = (a * t) + (b * (s - (q * t))) /\ s - (q * t) \in Int
      <4>1. r = a - (b * q)
        BY <3>1, <3>6
      <4>2. r * t = (a * t) - (b * (q * t))
        BY <3>1, <4>1
      <4>3. b * (s - (q * t)) = (b * s) - (b * (q * t))
        BY <3>1
      <4>4. q * t \in Int /\ b * (q * t) \in Int /\ b * s \in Int /\ a * t \in Int
        BY <3>1
      <4>. QED  BY <3>4, <4>2, <4>3, <4>4
    <3>8. a = g * ((k * q) + l) /\ (k * q) + l \in Int
      <4>1. b * q = g * (k * q)
        BY <3>1, <3>5, <3>6
      <4>2. g * ((k * q) + l) = (g * (k * q)) + (g * l)
        BY <3>1, <3>6
      <4>. QED  BY <3>1, <3>5, <4>1, <4>2
    <3>. QED  BY <3>2, <3>5, <3>6, <3>7, <3>8 DEF Combination
  <2>. QED  BY <2>1, <2>2
<1>. HIDE DEF T
<1>2. Nat \subseteq T
  BY <1>1, InductionBySet
<1>. QED  BY <1>2 DEF T

Unit(n, a) == \E s \in Int : Same(n, a * s, 1)

LEMMA UnitsAreCoprime ==
    ASSUME NEW n \in Nat \ {0}, NEW a \in Nat
    PROVE  gcd(a, n) = 1 <=> Unit(n, a)
<1>. DEFINE g == gcd(a, n)
<1>1. Combination(g, a, n)
  BY Bezout
<1>. HIDE DEF g
<1>2. PICK s, t \in Int : g = (a * s) + (n * t)
  BY <1>1 DEF Combination
<1>3. PICK k, l \in Int : a = g * k /\ n = g * l
  BY <1>1 DEF Combination
<1>4. g \in Nat
  BY <1>1 DEF Combination
<1>5. ASSUME g = 1 PROVE Unit(n, a)
  <2>1. a * s \in Int /\ 1 \in Int /\ -t \in Int /\ a * s = 1 + (n * (-t))
    BY <1>2, <1>5
  <2>2. Same(n, a * s, 1)
    BY <2>1, SameByMultiple
  <2>. QED  BY <2>2 DEF Unit
<1>6. ASSUME Unit(n, a) PROVE g = 1
  <2>1. PICK u \in Int : Same(n, a * u, 1)
    BY <1>6 DEF Unit
  <2>2. PICK v \in Int : a * u = 1 + (n * v)
    <3>1. a * u \in Int /\ 1 \in Int
      OBVIOUS
    <3>. QED  BY <2>1, <3>1, SameByMultiple
  <2>3. g * ((k * u) - (l * v)) = 1
    <3>1. a * u = g * (k * u) /\ n * v = g * (l * v)
      BY <1>3, <1>4
    <3>2. g * ((k * u) - (l * v)) = (g * (k * u)) - (g * (l * v))
      BY <1>4
    <3>3. g * (k * u) \in Int /\ g * (l * v) \in Int
      BY <1>4
    <3>. QED  BY <2>2, <3>1, <3>2, <3>3
  <2>. DEFINE w == (k * u) - (l * v)
  <2>4. w \in Int /\ g * w = 1
    BY <2>3
  <2>. HIDE DEF w
  <2>5. w >= 1
    <3>1. w <= 0 => g * w <= 0
      BY <1>4, <2>4
    <3>. QED  BY <2>4, <3>1
  <2>6. g <= 1
    <3>1. g * w >= g
      BY <1>4, <2>4, <2>5
    <3>. QED  BY <1>4, <2>4, <3>1
  <2>7. g # 0
    BY <2>4
  <2>. QED  BY <1>4, <2>6, <2>7
<1>. QED  BY <1>5, <1>6 DEF g

LEMMA UnitFacts ==
    ASSUME NEW n \in Nat \ {0}, NEW a \in Int, Unit(n, a)
    PROVE  /\ \A b \in Int : Same(n, a, b) => Unit(n, b)
           /\ \A b \in Int : Unit(n, b) => Unit(n, a * b)
<1>1. PICK s \in Int : Same(n, a * s, 1)
  BY DEF Unit
<1>2. ASSUME NEW b \in Int, Same(n, a, b) PROVE Unit(n, b)
  <2>1. Same(n, b, a)
    BY <1>2, SameFacts
  <2>2. Same(n, b * s, a * s)
    BY <2>1, SameTimes
  <2>3. Same(n, b * s, 1)
    BY <1>1, <2>2, SameFacts
  <2>. QED  BY <2>3 DEF Unit
<1>3. ASSUME NEW b \in Int, Unit(n, b) PROVE Unit(n, a * b)
  <2>1. PICK t \in Int : Same(n, b * t, 1)
    BY <1>3 DEF Unit
  <2>2. a * s \in Int /\ b * t \in Int /\ 1 \in Int /\ s * t \in Int
    OBVIOUS
  <2>3. Same(n, (a * s) * (b * t), 1 * 1)
    BY <1>1, <2>1, <2>2, SameResults
  <2>4. (a * s) * (b * t) = (a * b) * (s * t) /\ 1 * 1 = 1
    OBVIOUS
  <2>. QED  BY <2>2, <2>3, <2>4 DEF Unit
<1>. QED  BY <1>2, <1>3

-----------------------------------------------------------------------------
(* Powers modulo a square.                                                 *)

LEMMA UnitOfPower ==
    ASSUME NEW n \in Nat \ {0}, NEW m \in Nat \ {0}, NEW d \in Int, m = n * d, NEW a \in Int, Unit(n, a)
    PROVE  \A e \in Nat : Unit(n, modExp(a, e, m))
<1>. DEFINE T == {e \in Nat : Unit(n, modExp(a, e, m))}
<1>0. ASSUME NEW x \in Int, NEW y \in Int, Same(m, x, y) PROVE Same(n, y, x)
  <2>1. PICK t \in Int : x = y + (m * t)
    BY <1>0, SameByMultiple
  <2>2. x = y + (n * (d * t)) /\ d * t \in Int
    BY <2>1
  <2>3. Same(n, x, y)
    BY <2>2, SameByMultiple
  <2>. QED  BY <2>3, SameFacts
<1>1. 0 \in T
  <2>. DEFINE x == modExp(a, 0, m)
  <2>1. 0 \in Nat /\ 1 \in Int /\ 1 * 1 = 1
    OBVIOUS
  <2>2. x \in Int /\ Same(m, x, 1)
    BY <2>1, ExpFacts
  <2>. HIDE DEF x
  <2>3. Same(n, 1, x)
    BY <1>0, <2>1, <2>2
  <2>4. Same(n, 1 * 1, 1)
    BY <2>1, SameFacts
  <2>5. Unit(n, 1)
    BY <2>1, <2>4 DEF Unit
  <2>6. Unit(n, x)
    BY <2>1, <2>2, <2>3, <2>5, UnitFacts
  <2>. QED  BY <2>6 DEF x
<1>2. ASSUME NEW e \in Nat, e \in T PROVE e + 1 \in T
  <2>. DEFINE x == modExp(a, e, m)
              x1 == modExp(a, e + 1, m)
  <2>1. x \in Int /\ Same(m, x1, x * a) /\ Unit(n, x)
    BY <1>2, ExpFacts
  <2>2. e + 1 \in Nat
    OBVIOUS
  <2>3. x1 \in Int
    BY <2>2, ExpFacts
  <2>. HIDE DEF x, x1
  <2>4. x * a \in Int
    BY <2>1
  <2>5. Unit(n, x * a)
    BY <2>1, UnitFacts
  <2>6. Same(n, x * a, x1)
    BY <1>0, <2>1, <2>3, <2>4
  <2>7. Unit(n, x1)
    BY <2>3, <2>4, <2>5, <2>6, UnitFacts
  <2>. QED  BY <2>7 DEF x1
<1>. HIDE DEF T
<1>3. Nat \subseteq T
  BY <1>1, <1>2, SimpleInduction
<1>. QED  BY <1>3 DEF T

\* The binomial theorem, but for the terms that vanish.
LEMMA ExpOfShifted ==
    ASSUME NEW n \in Nat \ {0}, NEW m, m = n * n, NEW a \in Int, NEW k \in Int
    PROVE  \A e \in Nat :
              Same(m, modExp(a + (n * k), e + 1, m),
                      modExp(a, e + 1, m) + (((n * k) * (e + 1)) * modExp(a, e, m)))
<1>. DEFINE h == n * k
            b == a + h
            T == {e \in Nat : Same(m, modExp(b, e + 1, m),
                                      modExp(a, e + 1, m) + ((h * (e + 1)) * modExp(a, e, m)))}
<1>1. m \in Nat \ {0} /\ h \in Int /\ b \in Int /\ b = a + h /\ h * h = m * (k * k)
  OBVIOUS
<1>. HIDE DEF h, b
<1>2. 0 \in T
  <2>. DEFINE x == modExp(a, 0, m)
              z == modExp(b, 0, m)
              x1 == modExp(a, 0 + 1, m)
              z1 == modExp(b, 0 + 1, m)
  <2>1. 0 \in Nat /\ 0 + 1 \in Nat /\ 1 \in Int
    OBVIOUS
  <2>2. x \in Int /\ z \in Int /\ Same(m, x, 1) /\ Same(m, z, 1) /\ Same(m, x1, x * a)
        /\ Same(m, z1, z * b)
    BY <1>1, <2>1, ExpFacts
  <2>3. x1 \in Int /\ z1 \in Int
    BY <1>1, <2>1, ExpFacts
  <2>. HIDE DEF x, z, x1, z1
  <2>4. Same(m, x * a, 1 * a) /\ Same(m, z * b, 1 * b)
    BY <1>1, <2>1, <2>2, SameTimes
  <2>5. Same(m, (h * (0 + 1)) * x, (h * (0 + 1)) * 1) /\ (h * (0 + 1)) * x \in Int
    <3>. DEFINE h1 == h * (0 + 1)
    <3>1. h1 \in Int
      BY <1>1
    <3>. HIDE DEF h1
    <3>2. Same(m, h1 * x, h1 * 1)
      BY <1>1, <2>1, <2>2, <3>1, SameTimes
    <3>3. h1 * x \in Int
      BY <2>2, <3>1
    <3>. QED  BY <3>2, <3>3 DEF h1
  <2>6. Same(m, x1, a)
    <3>1. 1 * a = a
      OBVIOUS
    <3>. QED  BY <2>2, <2>4, <3>1, SameFacts
  <2>7. Same(m, x1 + ((h * (0 + 1)) * x), a + ((h * (0 + 1)) * 1))
    <3>1. (h * (0 + 1)) * 1 \in Int
      BY <1>1
    <3>. QED  BY <1>1, <2>3, <2>5, <2>6, <3>1, SameResults
  <2>8. a + ((h * (0 + 1)) * 1) = b /\ 1 * b = b
    BY <1>1
  <2>9. Same(m, z1, x1 + ((h * (0 + 1)) * x))
    BY <2>2, <2>4, <2>7, <2>8, SameFacts
  <2>. QED  BY <2>1, <2>9 DEF x, x1, z1
<1>3. ASSUME NEW e \in Nat, e \in T PROVE e + 1 \in T
  <2>. DEFINE f == e + 1
              w == modExp(a, e, m)
              x == modExp(a, f, m)
              z == modExp(b, f, m)
              x1 == modExp(a, f + 1, m)
              z1 == modExp(b, f + 1, m)
              y == x + ((h * f) * w)
              y1 == x1 + ((h * (f + 1)) * x)
  <2>1. f \in Nat /\ f + 1 \in Nat
    OBVIOUS
  <2>2. Same(m, z, y)
    BY <1>3
  <2>3. Same(m, x, w * a) /\ w \in Int
    BY <1>1, ExpFacts
  <2>. HIDE DEF f
  <2>4. x \in Int /\ z \in Int /\ Same(m, x1, x * a) /\ Same(m, z1, z * b)
    BY <1>1, <2>1, ExpFacts
  <2>5. x1 \in Int /\ z1 \in Int
    BY <1>1, <2>1, ExpFacts
  <2>. HIDE DEF w, x, z, x1, z1
  <2>6. y \in Int /\ h * f \in Int /\ w * a \in Int /\ x * a \in Int
    BY <1>1, <2>1, <2>3, <2>4
  <2>7. Same(m, z * b, y * b)
    BY <1>1, <2>2, <2>4, <2>6, SameTimes
  <2>8. y * b = ((x * a) + (h * x) + ((h * f) * (w * a))) + (m * ((k * k) * (f * w)))
    <3>1. y * b = (x * a) + (x * h) + (((h * f) * w) * a) + (((h * f) * w) * h)
      BY <1>1, <2>1, <2>3, <2>4
    <3>2. ((h * f) * w) * h = (h * h) * (f * w)
      BY <1>1, <2>1, <2>3
    <3>3. (h * h) * (f * w) = m * ((k * k) * (f * w))
      BY <1>1, <2>1, <2>3
    <3>4. x * h = h * x /\ ((h * f) * w) * a = (h * f) * (w * a)
      BY <1>1, <2>1, <2>3, <2>4
    <3>5. x * a \in Int /\ h * x \in Int /\ (h * f) * (w * a) \in Int
          /\ m * ((k * k) * (f * w)) \in Int
      BY <1>1, <2>1, <2>3, <2>4
    <3>. HIDE DEF y
    <3>. QED  BY <3>1, <3>2, <3>3, <3>4, <3>5
  <2>9. Same(m, y * b, (x * a) + (h * x) + ((h * f) * (w * a)))
    <3>1. (k * k) * (f * w) \in Int /\ y * b \in Int
          /\ (x * a) + (h * x) + ((h * f) * (w * a)) \in Int
      BY <1>1, <2>1, <2>3, <2>4, <2>6
    <3>. HIDE DEF y
    <3>. QED  BY <1>1, <2>8, <3>1, SameByMultiple
  <2>10. Same(m, (h * f) * (w * a), (h * f) * x)
    <3>1. Same(m, w * a, x)
      BY <2>3, SameFacts
    <3>. QED  BY <1>1, <2>4, <2>6, <3>1, SameTimes
  <2>11. Same(m, x * a, x1)
    BY <2>4, SameFacts
  <2>12. Same(m, (x * a) + (h * x) + ((h * f) * (w * a)), y1)
    <3>. DEFINE u == h * x
                v == (h * f) * (w * a)
                v1 == (h * f) * x
                t == x * a
    <3>1. u \in Int /\ v \in Int /\ v1 \in Int /\ t \in Int
      BY <1>1, <2>1, <2>3, <2>4
    <3>2. Same(m, v, v1) /\ Same(m, t, x1)
      BY <2>10, <2>11
    <3>3. y1 = (x1 + u) + v1
      BY <1>1, <2>1, <2>4, <2>5
    <3>. HIDE DEF u, v, v1, t, y1
    <3>4. Same(m, u, u)
      BY SameFacts
    <3>5. Same(m, t + u, x1 + u)
      BY <1>1, <2>5, <3>1, <3>2, <3>4, SameResults
    <3>6. t + u \in Int /\ x1 + u \in Int
      BY <2>5, <3>1
    <3>7. Same(m, (t + u) + v, (x1 + u) + v1)
      BY <1>1, <3>1, <3>2, <3>5, <3>6, SameResults
    <3>. QED  BY <3>3, <3>7 DEF u, v, t
  <2>13. Same(m, z1, y1)
    <3>. HIDE DEF y, y1
    <3>. QED  BY <2>4, <2>7, <2>9, <2>12, SameFacts
  <2>. QED  BY <2>1, <2>13 DEF f, x, x1, z1
<1>. HIDE DEF T
<1>4. Nat \subseteq T
  BY <1>2, <1>3, SimpleInduction
<1>. QED  BY <1>4 DEF T, h, b

\* The n-th power of a number modulo n^2 depends only on its residue modulo n.
LEMMA NthPowerOfResidue ==
    ASSUME NEW n \in Nat \ {0}, NEW a \in Int, NEW b \in Int, Same(n, a, b)
    PROVE  modExp(a, n, n * n) = modExp(b, n, n * n)
<1>. DEFINE m == n * n
            e == n - 1
            w == modExp(b, e, m)
            x == modExp(b, e + 1, m)
            z == modExp(a, e + 1, m)
<1>1. m \in Nat \ {0} /\ e \in Nat /\ e + 1 = n /\ e + 1 \in Nat /\ m = n * n
  OBVIOUS
<1>. HIDE DEF e, m
<1>2. PICK k \in Int : a = b + (n * k)
  BY SameByMultiple
<1>3. Same(m, z, x + (((n * k) * (e + 1)) * w))
  BY <1>1, <1>2, ExpOfShifted
<1>4. w \in Int /\ x \in Int /\ z \in Int /\ x \in Residues(m) /\ z \in Residues(m)
  BY <1>1, ExpFacts
<1>. HIDE DEF w, x, z
<1>5. ((n * k) * (e + 1)) * w = m * (k * w) /\ k * w \in Int /\ m * (k * w) \in Int
  BY <1>1, <1>4
<1>6. Same(m, x + (m * (k * w)), x)
  <2>. DEFINE u == k * w
              v == m * u
  <2>1. u \in Int /\ v = m * u /\ v \in Int /\ x + v \in Int
    BY <1>4, <1>5
  <2>. HIDE DEF u, v
  <2>2. Same(m, x + v, x)
    BY <1>1, <1>4, <2>1, SameByMultiple
  <2>. QED  BY <2>2 DEF u, v
<1>7. Same(m, z, x)
  BY <1>3, <1>5, <1>6, SameFacts
<1>8. z = x
  BY <1>1, <1>4, <1>7, SameResidues
<1>. QED  BY <1>1, <1>8 DEF x, z

-----------------------------------------------------------------------------
(* Sizes in bits.                                                          *)

BitsBody(f) == [x \in Nat |-> IF x < 2 THEN 0 ELSE f[x \div 2] + 1]
Bits == CHOOSE f : f = BitsBody(f)

LEMMA MSBIsBits ==
    ASSUME NEW a
    PROVE  MSB(a) = Bits[a]
BY DEF MSB, Bits, BitsBody

LEMMA BitsFixpoint == Bits = BitsBody(Bits)
<1>. DEFINE mu == [x \in Nat |-> x]
            small == {x \in Nat : x < 2}
            next == [x \in Nat |-> x \div 2]
            c == [x \in Nat |-> 0]
            step == [p \in Nat \X Nat |-> p[2] + 1]
<1>1. /\ mu \in [Nat -> Nat] /\ next \in [Nat -> Nat] /\ small \in SUBSET Nat
      /\ c \in [Nat -> Nat] /\ step \in [Nat \X Nat -> Nat]
  BY HalfFacts
<1>2. Descends(Nat, mu, small, next)
  BY HalfFacts DEF Descends
<1>3. /\ \A x \in Nat : x \in small <=> x < 2
      /\ \A x \in Nat : c[x] = 0 /\ next[x] = x \div 2 /\ x \div 2 \in Nat
      /\ \A x \in Nat, v \in Nat : step[<<x, v>>] = v + 1
  BY HalfFacts
<1>. HIDE DEF mu, small, next, c, step
<1>4. PICK f \in [Nat -> Nat] : Solves(f, Nat, small, next, c, step)
  BY <1>1, <1>2, Recursion
<1>5. ASSUME NEW x \in Nat PROVE f[x] = IF x < 2 THEN 0 ELSE f[x \div 2] + 1
  <2>1. f[x] = IF x \in small THEN c[x] ELSE step[<<x, f[next[x]]>>]
    BY <1>4 DEF Solves
  <2>2. next[x] = x \div 2 /\ c[x] = 0 /\ (x \in small <=> x < 2) /\ x \div 2 \in Nat
    BY <1>3
  <2>3. f[x \div 2] \in Nat
    BY <2>2
  <2>4. step[<<x, f[x \div 2]>>] = f[x \div 2] + 1
    BY <1>3, <2>3
  <2>. QED  BY <2>1, <2>2, <2>4
<1>6. f = BitsBody(f)
  BY <1>5 DEF BitsBody
<1>. QED  BY <1>6, Zenon DEF Bits

\* What create makes of the size of a modulus, whose half is not 0 then.
LEMMA BitSizeFacts ==
    ASSUME NEW a \in Nat \ {0, 1}
    PROVE  BitSize(a) \in Nat /\ BitSize(a) >= 2 /\ BitSize(a) \div 2 > 0
<1>1. \A x \in Nat : Bits[x] = IF x < 2 THEN 0 ELSE Bits[x \div 2] + 1
  <2>1. PICK h : h = Bits
    OBVIOUS
  <2>2. Bits = BitsBody(h)
    BY <2>1, BitsFixpoint
  <2>3. \A x \in Nat : Bits[x] = IF x < 2 THEN 0 ELSE h[x \div 2] + 1
    BY <2>2 DEF BitsBody
  <2>. QED  BY <2>1, <2>3
<1>. DEFINE T == {x \in Nat : Bits[x] \in Nat}
<1>2. ASSUME NEW x \in Nat, \A k \in 0 .. x - 1 : k \in T PROVE x \in T
  <2>1. CASE x < 2
    BY <1>1, <2>1
  <2>2. CASE ~(x < 2)
    <3>1. x \div 2 \in 0 .. x - 1
      BY <2>2, HalfFacts
    <3>. QED  BY <1>1, <1>2, <2>2, <3>1
  <2>. QED  BY <2>1, <2>2
<1>. HIDE DEF T
<1>3. Nat \subseteq T
  BY <1>2, InductionBySet
<1>4. a \div 2 \in Nat /\ ~(a < 2)
  BY HalfFacts
<1>5. Bits[a \div 2] \in Nat /\ Bits[a] = Bits[a \div 2] + 1
  BY <1>1, <1>3, <1>4 DEF T
<1>6. BitSize(a) = Bits[a \div 2] + 2
  BY <1>5, MSBIsBits DEF BitSize
<1>. QED  BY <1>5, <1>6

-----------------------------------------------------------------------------
(* Encryptions, by the definition of the scheme: under the modulus n and   *)
(* with the random number r, m is encrypted as (1 + n)^m * r^n.  The code  *)
(* computes the first factor as 1 + n * m (raw_encrypt).                   *)

Encryption(n, m, r) == ModMul(n * n, modExp(n + 1, m, n * n), modExp(r, n, n * n))

Coprime(n) == {r \in 1 .. n - 1 : gcd(r, n) = 1}
UnitPowers(n) == {modExp(r, n, n * n) : r \in Coprime(n)}

Encrypts(n, m, c) == \E r \in Coprime(n) : c = Encryption(n, m, r)

LEMMA SquareFacts ==
    ASSUME NEW n \in Nat \ {0}
    PROVE  n * n \in Nat \ {0} /\ n + 1 \in Int /\ n \in Int /\ n \in Nat
OBVIOUS

LEMMA UnitResidue ==
    ASSUME NEW n \in Nat \ {0, 1}, NEW u \in Int, Unit(n, u)
    PROVE  u % n \in Coprime(n) /\ Same(n, u, u % n)
<1>. DEFINE r == u % n
<1>1. r \in 0 .. n - 1 /\ r \in Int /\ Same(n, u, r)
  BY ResidueFacts, SameResidue DEF Residues
<1>. HIDE DEF r
<1>2. Unit(n, r)
  BY <1>1, UnitFacts
<1>3. r # 0
  <2>. SUFFICES ASSUME r = 0 PROVE FALSE
    OBVIOUS
  <2>1. PICK s \in Int : Same(n, r * s, 1)
    BY <1>2 DEF Unit
  <2>2. r * s = 0
    OBVIOUS
  <2>3. 0 \in 0 .. n - 1 /\ 1 \in 0 .. n - 1
    OBVIOUS
  <2>4. 0 % n = 0 /\ 1 % n = 1
    BY <2>3, RemainderOfSmall
  <2>. QED  BY <2>1, <2>2, <2>4 DEF Same
<1>4. gcd(r, n) = 1
  BY <1>1, <1>2, UnitsAreCoprime
<1>. QED  BY <1>1, <1>3, <1>4 DEF Coprime, r

LEMMA CoprimeFacts ==
    ASSUME NEW n \in Nat \ {0, 1}
    PROVE  /\ \A r \in Coprime(n) : r \in Int /\ r \in Nat /\ Unit(n, r)
           /\ 1 \in Coprime(n)
<1>1. ASSUME NEW r \in Coprime(n) PROVE r \in Int /\ r \in Nat /\ Unit(n, r)
  <2>1. r \in Nat /\ gcd(r, n) = 1
    BY DEF Coprime
  <2>. QED  BY <2>1, UnitsAreCoprime
<1>2. Unit(n, 1)
  <2>1. Same(n, 1 * 1, 1) /\ 1 \in Int
    BY SameFacts
  <2>. QED  BY <2>1 DEF Unit
<1>3. gcd(1, n) = 1
  <2>1. 1 \in Nat
    OBVIOUS
  <2>. QED  BY <1>2, <2>1, UnitsAreCoprime
<1>. QED  BY <1>1, <1>3 DEF Coprime

\* The n-th power of any unit is that of a number below n.
LEMMA PowerOfUnit ==
    ASSUME NEW n \in Nat \ {0, 1}, NEW u \in Int, Unit(n, u)
    PROVE  \E r \in Coprime(n) : modExp(u, n, n * n) = modExp(r, n, n * n)
<1>1. u % n \in Coprime(n) /\ Same(n, u, u % n)
  BY UnitResidue
<1>2. u % n \in Int
  BY <1>1, CoprimeFacts
<1>3. modExp(u, n, n * n) = modExp(u % n, n, n * n)
  BY <1>1, <1>2, NthPowerOfResidue
<1>. QED  BY <1>1, <1>3

\* Messages that are equal modulo n have the same encryptions.
LEMMA EncryptionOfResidue ==
    ASSUME NEW n \in Nat \ {0}, NEW a \in Nat, NEW b \in Nat, Same(n, a, b), NEW r
    PROVE  Encryption(n, a, r) = Encryption(n, b, r)
<1>. DEFINE m == n * n
            x == modExp(n + 1, a, m)
            y == modExp(n + 1, b, m)
<1>1. m \in Nat \ {0} /\ n + 1 \in Int /\ m = n * n
  BY SquareFacts
<1>2. Same(m, x, (n * a) + 1) /\ Same(m, y, (n * b) + 1)
  <2>1. n * n \in Int /\ 0 \in Int /\ n * n = 0 + (m * 1) /\ 1 \in Int
    OBVIOUS
  <2>. HIDE DEF m
  <2>2. Same(m, n * n, 0)
    BY <1>1, <2>1, SameByMultiple
  <2>. QED  BY <1>1, <2>2, ExpNearOne
<1>. HIDE DEF m
<1>3. x \in Residues(m) /\ y \in Residues(m)
  BY <1>1, ExpFacts
<1>4. PICK t \in Int : a = b + (n * t)
  <2>1. a \in Int /\ b \in Int
    OBVIOUS
  <2>. QED  BY <2>1, SameByMultiple
<1>5. (n * a) + 1 = ((n * b) + 1) + (m * t) /\ (n * a) + 1 \in Int /\ (n * b) + 1 \in Int
  BY <1>1, <1>4
<1>6. Same(m, (n * a) + 1, (n * b) + 1)
  BY <1>1, <1>5, SameByMultiple
<1>7. Same(m, x, y)
  BY <1>2, <1>6, SameFacts
<1>8. x = y
  BY <1>1, <1>3, <1>7, SameResidues
<1>. QED  BY <1>1, <1>8 DEF Encryption, x, y

LEMMA EncryptsUnit ==
    ASSUME NEW n \in Nat \ {0, 1}, NEW a \in Nat, NEW u \in Int, Unit(n, u)
    PROVE  Encrypts(n, a % n, Encryption(n, a, u))
<1>1. PICK r \in Coprime(n) : modExp(u, n, n * n) = modExp(r, n, n * n)
  BY PowerOfUnit
<1>2. Encryption(n, a, u) = Encryption(n, a, r)
  BY <1>1 DEF Encryption
<1>3. a % n \in Nat /\ Same(n, a, a % n)
  <2>. DEFINE b == a % n
  <2>1. a \in Int
    OBVIOUS
  <2>2. b \in Residues(n) /\ Same(n, a, b)
    BY <2>1, ResidueFacts, SameResidue
  <2>. HIDE DEF b
  <2>3. b \in Nat
    BY <2>2 DEF Residues
  <2>. QED  BY <2>2, <2>3 DEF b
<1>4. Encryption(n, a, r) = Encryption(n, a % n, r)
  BY <1>3, EncryptionOfResidue
<1>. QED  BY <1>2, <1>4 DEF Encrypts

\* What raw_encrypt computes (pub_key.cpp:107-121) is the encryption with 1 as the
\* random number, and raw_encrypt with an obfuscator (pub_key.cpp) the one with its root:
\* for every modulus and every plaintext, also one that is not below the modulus.
THEOREM FreshTextsEncrypt ==
    ASSUME NEW n \in Nat \ {0, 1}, NEW a \in Nat
    PROVE  /\ Encrypts(n, a % n, Modulo(n * n, n * a + 1))
           /\ \A o \in UnitPowers(n) :
                 Encrypts(n, a % n, ModMul(n * n, Modulo(n * n, n * a + 1), o))
<1>. DEFINE m == n * n
            x == modExp(n + 1, a, m)
            y == modExp(1, n, m)
            z == (n * a) + 1
<1>1. m \in Nat \ {0} /\ n + 1 \in Int /\ n \in Nat /\ n \in Int /\ 0 \in Int /\ 1 \in Int
  BY SquareFacts
<1>2. Same(m, x, z)
  <2>1. n * n \in Int /\ n * n = 0 + (m * 1)
    OBVIOUS
  <2>2. m = n * n
    OBVIOUS
  <2>. HIDE DEF m
  <2>3. Same(m, n * n, 0)
    BY <1>1, <2>1, <2>2, SameByMultiple
  <2>. QED  BY <1>1, <2>3, ExpNearOne
<1>. HIDE DEF m
<1>3. Same(m, y, 1)
  <2>1. 0 * 0 = 0 /\ 0 + 1 = 1 /\ (0 * n) + 1 = 1
    BY <1>1
  <2>2. Same(m, 0 * 0, 0)
    BY <2>1, SameFacts
  <2>3. Same(m, modExp(0 + 1, n, m), (0 * n) + 1)
    BY <1>1, <2>2, ExpNearOne
  <2>. QED  BY <2>1, <2>3
<1>4. x \in Residues(m) /\ x \in Int /\ y \in Int /\ z \in Int /\ 1 \in Coprime(n) /\ x \in Nat
  <2>1. x \in Residues(m) /\ x \in Int /\ y \in Int /\ 1 \in Coprime(n)
    BY <1>1, ExpFacts, CoprimeFacts
  <2>. HIDE DEF x, y
  <2>. QED  BY <1>1, <2>1 DEF Residues
<1>. HIDE DEF x, y, z
<1>5. z % m = x
  <2>1. z % m \in Residues(m) /\ Same(m, z, z % m)
    BY <1>1, <1>4, ResidueFacts, SameResidue
  <2>2. Same(m, x, z % m)
    BY <1>2, <2>1, SameFacts
  <2>. QED  BY <1>1, <1>4, <2>1, <2>2, SameResidues
<1>6. (x * y) % m = x
  <2>1. x * 1 = x /\ x * y \in Int
    BY <1>4
  <2>1a. Same(m, x * y, x * 1)
    BY <1>1, <1>3, <1>4, SameTimes
  <2>2. (x * y) % m \in Residues(m) /\ Same(m, (x * y) % m, x * y)
    BY <1>1, <2>1, ResidueFacts, SameResidue
  <2>3. Same(m, (x * y) % m, x)
    BY <2>1, <2>1a, <2>2, SameFacts
  <2>. QED  BY <1>1, <1>4, <2>2, <2>3, SameResidues
<1>7. Encryption(n, a, 1) = x
  BY <1>6 DEF Encryption, ModMul, Modulo, x, y, m
<1>8. Unit(n, 1)
  BY <1>4, CoprimeFacts
<1>9. Encrypts(n, a % n, Modulo(n * n, n * a + 1))
  <2>1. Modulo(n * n, n * a + 1) = x
    BY <1>5 DEF Modulo, z, m
  <2>. QED  BY <1>1, <1>7, <1>8, <2>1, EncryptsUnit
<1>10. ASSUME NEW o \in UnitPowers(n)
       PROVE  Encrypts(n, a % n, ModMul(n * n, Modulo(n * n, n * a + 1), o))
  <2>1. PICK r \in Coprime(n) : o = modExp(r, n, m)
    BY DEF UnitPowers, m
  <2>2. Encryption(n, a, r) = (x * o) % m
    BY <2>1 DEF Encryption, ModMul, Modulo, x, m
  <2>3. ModMul(n * n, Modulo(n * n, n * a + 1), o) = (x * o) % m
    BY <1>5 DEF ModMul, Modulo, z, m
  <2>4. r \in Int /\ Unit(n, r)
    BY CoprimeFacts
  <2>. QED  BY <2>2, <2>3, <2>4, EncryptsUnit
<1>. QED  BY <1>9, <1>10

LEMMA EncryptionFactors ==
    ASSUME NEW n \in Nat \ {0}, NEW a \in Nat, NEW r \in Int
    PROVE  /\ modExp(n + 1, a, n * n) \in Int /\ modExp(r, n, n * n) \in Int
           /\ Encryption(n, a, r) \in Residues(n * n) /\ Encryption(n, a, r) \in Int
           /\ Same(n * n, Encryption(n, a, r), modExp(n + 1, a, n * n) * modExp(r, n, n * n))
<1>. DEFINE m == n * n
            x == modExp(n + 1, a, m)
            y == modExp(r, n, m)
<1>1. m \in Nat \ {0} /\ n + 1 \in Int /\ n \in Nat
  BY SquareFacts
<1>. HIDE DEF m
<1>2. x \in Int /\ y \in Int
  BY <1>1, ExpFacts
<1>. HIDE DEF x, y
<1>3. x * y \in Int
  BY <1>2
<1>4. (x * y) % m \in Residues(m) /\ (x * y) % m \in Int /\ Same(m, (x * y) % m, x * y)
  BY <1>1, <1>3, ResidueFacts, SameResidue
<1>. QED  BY <1>2, <1>4 DEF Encryption, ModMul, Modulo, m, x, y

\* The product of two encryptions, which raw_add computes (ciphertext.cpp:158-165), is
\* an encryption of the sum modulo n, for every pair of random numbers.
THEOREM EncryptionsAdd ==
    ASSUME NEW n \in Nat \ {0, 1}, NEW a \in Nat, NEW b \in Nat, NEW c, NEW d,
           Encrypts(n, a, c), Encrypts(n, b, d)
    PROVE  Encrypts(n, (a + b) % n, Modulo(n * n, c * d))
<1>. DEFINE m == n * n
<1>1. PICK r \in Coprime(n), s \in Coprime(n) : c = Encryption(n, a, r) /\ d = Encryption(n, b, s)
  BY DEF Encrypts
<1>2. r \in Int /\ Unit(n, r) /\ s \in Int /\ Unit(n, s)
  BY CoprimeFacts
<1>3. r * s \in Int /\ Unit(n, r * s)
  BY <1>2, UnitFacts
<1>4. m \in Nat \ {0} /\ n + 1 \in Int /\ n \in Nat /\ a + b \in Nat
  BY SquareFacts
<1>. DEFINE x1 == modExp(n + 1, a, m)
            y1 == modExp(r, n, m)
            x2 == modExp(n + 1, b, m)
            y2 == modExp(s, n, m)
            x3 == modExp(n + 1, a + b, m)
            y3 == modExp(r * s, n, m)
            e == Encryption(n, a + b, r * s)
<1>5. /\ x1 \in Int /\ y1 \in Int /\ x2 \in Int /\ y2 \in Int /\ x3 \in Int /\ y3 \in Int
      /\ c \in Int /\ d \in Int /\ e \in Int /\ e \in Residues(m)
      /\ Same(m, c, x1 * y1) /\ Same(m, d, x2 * y2) /\ Same(m, e, x3 * y3)
  BY <1>1, <1>2, <1>3, <1>4, EncryptionFactors
<1>. HIDE DEF m, e
<1>6. Same(m, x3, x1 * x2)
  BY <1>4, ExpOfSum
<1>7. Same(m, y3, y1 * y2)
  BY <1>2, <1>4, ExpOfProduct
<1>. HIDE DEF x1, y1, x2, y2, x3, y3
<1>8. /\ x1 * y1 \in Int /\ x2 * y2 \in Int /\ x1 * x2 \in Int /\ y1 * y2 \in Int /\ c * d \in Int
      /\ x3 * y3 \in Int
      /\ (x1 * y1) * (x2 * y2) = (x1 * x2) * (y1 * y2)
  BY <1>5
<1>9. Same(m, c * d, (x1 * y1) * (x2 * y2))
  BY <1>4, <1>5, <1>8, SameResults
<1>10. Same(m, x3 * y3, (x1 * x2) * (y1 * y2))
  BY <1>4, <1>5, <1>6, <1>7, <1>8, SameResults
<1>11. Same(m, e, (x1 * y1) * (x2 * y2))
  BY <1>5, <1>8, <1>10, SameFacts
<1>12. Same(m, (c * d) % m, e)
  <2>1. Same(m, (c * d) % m, c * d)
    BY <1>4, <1>8, SameResidue
  <2>. QED  BY <1>9, <1>11, <2>1, SameFacts
<1>13. (c * d) % m = e
  <2>1. (c * d) % m \in Residues(m)
    BY <1>4, <1>8, ResidueFacts
  <2>. QED  BY <1>4, <1>5, <1>12, <2>1, SameResidues
<1>14. Encrypts(n, (a + b) % n, e)
  BY <1>3, <1>4, EncryptsUnit DEF e
<1>. QED  BY <1>13, <1>14 DEF Modulo, m

\* A power of an encryption, which raw_mul computes (ciphertext.cpp:167-194), is an
\* encryption of the product modulo n, for every factor.
THEOREM EncryptionsMultiply ==
    ASSUME NEW n \in Nat \ {0, 1}, NEW a \in Nat, NEW k \in Nat, NEW c, Encrypts(n, a, c)
    PROVE  Encrypts(n, (a * k) % n, modExp(c, k, n * n))
<1>. DEFINE m == n * n
            p == a * k
            q == n * k
<1>1. PICK r \in Coprime(n) : c = Encryption(n, a, r)
  BY DEF Encrypts
<1>2. r \in Int /\ Unit(n, r)
  BY CoprimeFacts
<1>3. m \in Nat \ {0} /\ m = n * n /\ n + 1 \in Int /\ n \in Nat /\ n \in Int
      /\ p \in Nat /\ p = a * k /\ q \in Nat /\ q = n * k /\ q = k * n
  BY SquareFacts
<1>. HIDE DEF p, q
<1>. DEFINE x == modExp(n + 1, a, m)
            y == modExp(r, n, m)
            g == modExp(r, k, m)
            x3 == modExp(n + 1, p, m)
            y3 == modExp(g, n, m)
            e == Encryption(n, p, g)
            f == modExp(c, k, m)
<1>4. g \in Int /\ Unit(n, g)
  <2>. HIDE DEF m
  <2>. QED  BY <1>2, <1>3, ExpFacts, UnitOfPower
<1>5. /\ x \in Int /\ y \in Int /\ c \in Int /\ Same(m, c, x * y)
      /\ x3 \in Int /\ y3 \in Int /\ e \in Residues(m) /\ Same(m, e, x3 * y3)
  BY <1>1, <1>2, <1>3, <1>4, EncryptionFactors
<1>. HIDE DEF m, e
<1>6. f \in Residues(m)
  BY <1>3, <1>5, ExpFacts
<1>7. x3 = modExp(x, k, m)
  <2>1. PowerOfPower(m, n + 1, a, k, p)
    BY <1>3, ExpOfExp
  <2>. QED  BY <1>3, <2>1 DEF PowerOfPower
<1>8. y3 = modExp(y, k, m)
  <2>1. PowerOfPower(m, r, k, n, q) /\ PowerOfPower(m, r, n, k, q)
    BY <1>2, <1>3, ExpOfExp
  <2>. QED  BY <1>3, <2>1 DEF PowerOfPower
<1>. HIDE DEF x, y, g, x3, y3
<1>9. x * y \in Int
  BY <1>5
<1>10. f = modExp(x * y, k, m)
  BY <1>3, <1>5, <1>9, ExpOfSame
<1>11. Same(m, modExp(x * y, k, m), modExp(x, k, m) * modExp(y, k, m))
  BY <1>3, <1>5, ExpOfProduct
<1>12. f = e
  <2>1. Same(m, f, x3 * y3)
    BY <1>7, <1>8, <1>10, <1>11
  <2>2. Same(m, f, e)
    BY <1>5, <2>1, SameFacts
  <2>. QED  BY <1>3, <1>5, <1>6, <2>2, SameResidues
<1>13. Encrypts(n, p % n, e)
  BY <1>3, <1>4, EncryptsUnit DEF e
<1>. QED  BY <1>12, <1>13 DEF f, m, p

-----------------------------------------------------------------------------
(* The numbers of the private key.                                         *)

LEMMA ExactDivision ==
    ASSUME NEW a \in Nat \ {0}, NEW w \in Int
    PROVE  (a * w) \div a = w
<1>. DEFINE x == a * w
            q == x \div a
            r == x % a
<1>1. x \in Int /\ x = (a * w) + 0 /\ 0 \in Residues(a)
  BY DEF Residues
<1>2. q \in Int /\ x = (a * q) + r /\ r \in Int
  <2>1. x \in Int
    OBVIOUS
  <2>. HIDE DEF x
  <2>2. r \in 0 .. a - 1 /\ q \in Int /\ x = (a * q) + r
    BY <2>1, Remainder
  <2>. QED  BY <2>2
<1>3. ((a * w) + 0) % a = 0
  BY <1>1, RemainderUnique
<1>4. r = 0
  BY <1>1, <1>3
<1>. HIDE DEF q, r
<1>. DEFINE d == q - w
<1>5. d \in Int /\ a * d = 0
  <2>1. a * q = a * w
    BY <1>1, <1>2, <1>4
  <2>. QED  BY <1>2, <2>1
<1>. HIDE DEF d
<1>6. d = 0
  <2>1. d >= 1 => a * d >= 1
    BY <1>5
  <2>2. d <= -1 => a * d <= -1
    BY <1>5
  <2>. QED  BY <1>5, <2>1, <2>2
<1>. QED  BY <1>2, <1>6 DEF d, q

LEMMA InverseFacts ==
    ASSUME NEW m \in Nat \ {0, 1}, NEW a \in Nat, gcd(a, m) = 1
    PROVE  InverseMul(m, a) \in Coprime(m) /\ Same(m, a * InverseMul(m, a), 1)
<1>. DEFINE Inverts(r) == (a * r) % m = 1 % m
            i == CHOOSE r \in 0 .. m - 1 : Inverts(r)
<1>1. InverseMul(m, a) = i
  BY DEF InverseMul, Modulo
<1>2. Unit(m, a) /\ a \in Int
  BY UnitsAreCoprime
<1>3. PICK s \in Int : Same(m, a * s, 1)
  BY <1>2 DEF Unit
<1>4. s % m \in 0 .. m - 1 /\ Inverts(s % m)
  <2>1. s % m \in Residues(m) /\ s % m \in Int /\ Same(m, s % m, s)
    BY ResidueFacts, SameResidue
  <2>2. Same(m, a * (s % m), a * s)
    BY <1>2, <2>1, SameTimes
  <2>3. Same(m, a * (s % m), 1)
    BY <1>3, <2>2, SameFacts
  <2>. QED  BY <2>1, <2>3 DEF Residues, Same
<1>5. i \in 0 .. m - 1 /\ Inverts(i)
  BY <1>4
<1>. HIDE DEF i
<1>6. i \in Int /\ Same(m, a * i, 1) /\ i * a = a * i
  BY <1>2, <1>5 DEF Same
<1>7. Unit(m, i)
  BY <1>2, <1>6 DEF Unit
<1>8. i % m \in Coprime(m) /\ i % m = i
  BY <1>5, <1>6, <1>7, UnitResidue, RemainderOfSmall
<1>. QED  BY <1>1, <1>6, <1>8

\* computeLfun takes a power of a number that is 1 modulo a apart.
LEMMA LfunFacts ==
    ASSUME NEW a \in Nat \ {0, 1}, NEW k \in Int, NEW b \in Int, Same(a * a, b, (k * a) + 1),
           NEW e \in Nat
    PROVE  computeLfun(modExp(b, e, a * a), a) = (k * e) % a
<1>. DEFINE m == a * a
            c == k * a
            x == modExp(b, e, m)
            w == (k * e) % a
            q == (k * e) \div a
            y == (a * w) + 1
<1>1. m \in Nat \ {0} /\ m = a * a /\ c \in Int /\ c = k * a /\ c + 1 \in Int /\ k * e \in Int
      /\ 0 \in Int /\ k * k \in Int
  OBVIOUS
<1>2. w \in 0 .. a - 1 /\ q \in Int /\ k * e = (a * q) + w
  BY <1>1, Remainder
<1>3. c * c = 0 + (m * (k * k)) /\ c * c \in Int
  OBVIOUS
<1>. HIDE DEF m, c, w, q
<1>4. Same(m, c * c, 0)
  BY <1>1, <1>3, SameByMultiple
<1>5. Same(m, modExp(c + 1, e, m), (c * e) + 1)
  BY <1>1, <1>4, ExpNearOne
<1>6. x = modExp(c + 1, e, m) /\ x \in Residues(m)
  BY <1>1, ExpOfSame, ExpFacts DEF m, c
<1>7. y \in Residues(m) /\ y \in Int
  <2>1. a * w >= 0 /\ a * w <= a * (a - 1)
    BY <1>2
  <2>2. a * (a - 1) = m - a /\ a \in Int /\ a >= 2
    BY <1>1
  <2>3. a * w \in Int
    BY <1>2
  <2>. QED  BY <1>1, <2>1, <2>2, <2>3 DEF Residues
<1>8. Same(m, (c * e) + 1, y)
  <2>1. c * e = a * (k * e)
    BY <1>1
  <2>2. a * (k * e) = (m * q) + (a * w)
    BY <1>1, <1>2
  <2>3. (c * e) + 1 = y + (m * q) /\ (c * e) + 1 \in Int
    <3>1. a * w \in Int /\ m * q \in Int /\ c * e \in Int
      BY <1>1, <1>2
    <3>. QED  BY <2>1, <2>2, <3>1
  <2>. HIDE DEF y
  <2>. QED  BY <1>1, <1>2, <1>7, <2>3, SameByMultiple
<1>9. x = y
  <2>. HIDE DEF y, x
  <2>1. Same(m, x, y)
    BY <1>5, <1>6, <1>8, SameFacts
  <2>. QED  BY <1>1, <1>6, <1>7, <2>1, SameResidues
<1>10. (y - 1) \div a = w
  <2>1. y - 1 = a * w /\ w \in Int
    BY <1>2
  <2>. QED  BY <2>1, ExactDivision
<1>. QED  BY <1>9, <1>10 DEF computeLfun, x, w, m

LEMMA HfunFacts ==
    ASSUME NEW a \in Nat \ {0, 1}, NEW b \in Nat, Unit(a, b), NEW n, n = a * b
    PROVE  /\ computeHfun(n, a) \in Coprime(a)
           /\ Same(a, (b * (a - 1)) * computeHfun(n, a), 1)
<1>. DEFINE m == a * a
            c == (n + 1) % m
            v == b * (a - 1)
            u == v % a
<1>1. m \in Nat \ {0} /\ n + 1 \in Int /\ n + 1 = (b * a) + 1 /\ a - 1 \in Nat /\ b \in Int
      /\ a - 1 \in Int /\ v \in Int
  OBVIOUS
<1>2. c \in Int /\ Same(m, c, (b * a) + 1)
  BY <1>1, ResidueFacts, SameResidue
<1>. HIDE DEF c
<1>3. computeLfun(modExp(c, a - 1, m), a) = u
  BY <1>1, <1>2, LfunFacts
<1>4. Unit(a, a - 1)
  <2>1. (a - 1) * (a - 1) = 1 + (a * (a - 2)) /\ a - 2 \in Int /\ (a - 1) * (a - 1) \in Int
        /\ 1 \in Int
    OBVIOUS
  <2>2. Same(a, (a - 1) * (a - 1), 1)
    BY <2>1, SameByMultiple
  <2>. QED  BY <1>1, <2>2 DEF Unit
<1>5. Unit(a, v)
  BY <1>1, <1>4, UnitFacts
<1>. HIDE DEF v
<1>6. u \in Coprime(a) /\ Same(a, v, u)
  BY <1>1, <1>5, UnitResidue
<1>. HIDE DEF u
<1>7. u \in Nat /\ u \in Int /\ gcd(u, a) = 1
  BY <1>6 DEF Coprime
<1>. DEFINE h == InverseMul(a, u)
<1>8. h \in Coprime(a) /\ Same(a, u * h, 1)
  BY <1>7, InverseFacts
<1>9. computeHfun(n, a) = h
  BY <1>3 DEF computeHfun, Modulo, c, m
<1>10. h \in Int
  BY <1>8, CoprimeFacts
<1>. HIDE DEF h
<1>11. Same(a, v * h, u * h)
  BY <1>1, <1>6, <1>7, <1>10, SameTimes
<1>12. Same(a, v * h, 1)
  BY <1>8, <1>11, SameFacts
<1>. QED  BY <1>8, <1>9, <1>12 DEF v

\* What the primes of a key are to each other.
LEMMA GoodPrimesFacts ==
    ASSUME NEW p, NEW q, GoodPrimes(p, q)
    PROVE  /\ Unit(q, p) /\ Unit(p, q) /\ Unit(p * q, (p - 1) * (q - 1))
           /\ GoodPrimes(q, p) /\ p # q
           /\ p * q \in Nat \ {0, 1}
<1>1. p \in Nat \ {0, 1} /\ q \in Nat \ {0, 1} /\ p \in Int /\ q \in Int
  BY DEF GoodPrimes, IsPrime
<1>2. p * q \in Nat \ {0, 1} /\ p * q = q * p /\ (p - 1) * (q - 1) \in Nat
      /\ (p - 1) * (q - 1) = (q - 1) * (p - 1)
  <2>1. p >= 2 /\ q >= 2
    BY <1>1
  <2>2. p * q >= 2 * q
    BY <1>1, <2>1
  <2>3. p - 1 \in Nat /\ q - 1 \in Nat
    BY <1>1
  <2>. QED  BY <1>1, <2>1, <2>2, <2>3
<1>3. Unit(q, p) /\ Unit(p * q, (p - 1) * (q - 1))
  BY <1>1, <1>2, UnitsAreCoprime DEF GoodPrimes, IsPrime
<1>4. Unit(p, q)
  <2>1. PICK s \in Int : Same(q, p * s, 1)
    BY <1>3 DEF Unit
  <2>2. PICK t \in Int : p * s = 1 + (q * t)
    <3>1. p * s \in Int /\ 1 \in Int
      BY <1>1
    <3>. QED  BY <1>1, <2>1, <3>1, SameByMultiple
  <2>3. q * (-t) = 1 + (p * (-s)) /\ -t \in Int /\ -s \in Int /\ q * (-t) \in Int /\ 1 \in Int
    BY <1>1, <2>2
  <2>4. Same(p, q * (-t), 1)
    BY <1>1, <2>3, SameByMultiple
  <2>. QED  BY <2>3, <2>4 DEF Unit
<1>5. gcd(q, p) = 1
  BY <1>1, <1>4, UnitsAreCoprime
<1>6. p # q
  <2>. SUFFICES ASSUME p = q PROVE FALSE
    OBVIOUS
  <2>1. p % p \in Coprime(p)
    BY <1>1, <1>3, UnitResidue
  <2>2. p % p = 0
    <3>1. ((p * 1) + 0) % p = 0
      <4>1. 1 \in Int /\ 0 \in Residues(p)
        BY <1>1 DEF Residues
      <4>. QED  BY <1>1, <4>1, RemainderUnique
    <3>2. (p * 1) + 0 = p
      BY <1>1
    <3>. QED  BY <3>1, <3>2
  <2>. QED  BY <2>1, <2>2 DEF Coprime
<1>. QED  BY <1>1, <1>2, <1>3, <1>4, <1>5, <1>6 DEF GoodPrimes

LEMMA LambdaFacts ==
    ASSUME NEW p, NEW q, GoodPrimes(p, q), NEW lambda, lambda = lcm(p - 1, q - 1)
    PROVE  /\ lambda \in Nat /\ Unit(p * q, lambda)
           /\ \E s, t \in Nat : lambda = (p - 1) * s /\ lambda = (q - 1) * t
<1>. DEFINE a == p - 1
            b == q - 1
            g == gcd(a, b)
            n == p * q
<1>1. a \in Nat \ {0} /\ b \in Nat \ {0} /\ n \in Nat \ {0, 1} /\ Unit(n, a * b)
  <2>1. p \in Nat \ {0, 1} /\ q \in Nat \ {0, 1}
    BY DEF GoodPrimes, IsPrime
  <2>2. n \in Nat \ {0, 1} /\ Unit(n, a * b)
    BY GoodPrimesFacts
  <2>3. a \in Nat \ {0} /\ b \in Nat \ {0}
    BY <2>1
  <2>. QED  BY <2>2, <2>3
<1>. HIDE DEF a, b, n
<1>2. Combination(g, a, b)
  BY <1>1, Bezout
<1>3. g \in Nat
  BY <1>2 DEF Combination
<1>4. PICK k, l \in Int : a = g * k /\ b = g * l
  BY <1>2 DEF Combination
<1>. HIDE DEF g
<1>5. g # 0
  <2>. SUFFICES ASSUME g = 0 PROVE FALSE
    OBVIOUS
  <2>1. g * k = 0
    OBVIOUS
  <2>. QED  BY <1>1, <1>4, <2>1
<1>6. k \in Nat
  <2>1. k < 0 => g * k < 0
    BY <1>3, <1>5
  <2>. QED  BY <1>1, <1>4, <2>1
<1>. DEFINE w == k * b
<1>7. w \in Nat /\ a * b = g * w /\ w \in Int
  <2>1. w \in Nat
    BY <1>1, <1>6
  <2>2. a * b = g * w
    BY <1>1, <1>3, <1>4
  <2>. QED  BY <2>1, <2>2
<1>. HIDE DEF w
<1>8. lambda = w
  <2>1. (g * w) \div g = w
    BY <1>3, <1>5, <1>7, ExactDivision
  <2>2. lambda = (a * b) \div g
    BY DEF lcm, a, b, g
  <2>. QED  BY <1>7, <2>1, <2>2
<1>9. Unit(n, w)
  <2>1. PICK s \in Int : Same(n, (a * b) * s, 1)
    BY <1>1 DEF Unit
  <2>2. (a * b) * s = w * (g * s) /\ g * s \in Int
    BY <1>3, <1>7
  <2>. QED  BY <2>1, <2>2 DEF Unit
<1>10. l \in Nat /\ w = a * l /\ w = b * k
  <2>1. l < 0 => g * l < 0
    BY <1>3, <1>5
  <2>2. (g * k) * l = k * (g * l) /\ k * b = b * k
    BY <1>1, <1>3, <1>4
  <2>. QED  BY <1>1, <1>4, <2>1, <2>2 DEF w
<1>. QED  BY <1>6, <1>7, <1>8, <1>9, <1>10 DEF n, a, b

\* What the constructors compute from good primes: the smaller one first, and the
\* inverses that the decryptions multiply by.
PrivateRecords ==
    [m_isInitialized : BOOLEAN, m_enable_crt : BOOLEAN, m_n : Nat, m_p : Nat, m_q : Nat,
     m_pinverse : Nat, m_hp : Nat, m_hq : Nat, m_lambda : Nat, m_x : Nat]

GoodNumbers(key) ==
    LET n == key.m_n
        p == key.m_p
        q == key.m_q
    IN  /\ GoodPrimes(p, q) /\ p < q /\ n = p * q
        /\ key.m_pinverse \in Coprime(q) /\ Same(q, p * key.m_pinverse, 1)
        /\ key.m_hp \in Coprime(p) /\ Same(p, (q * (p - 1)) * key.m_hp, 1)
        /\ key.m_hq \in Coprime(q) /\ Same(q, (p * (q - 1)) * key.m_hq, 1)
        /\ key.m_lambda = lcm(p - 1, q - 1)
        /\ key.m_x \in Coprime(n) /\ Same(n, key.m_lambda * key.m_x, 1)

SoundPrivateKey(key) ==
    key \in PrivateRecords /\ (key.m_isInitialized => GoodNumbers(key))

LEMMA NewPrivateKeySound ==
    ASSUME NEW p0, NEW q0, GoodPrimes(p0, q0)
    PROVE  SoundPrivateKey(NewPrivateKey(p0, q0))
<1>. DEFINE key == NewPrivateKey(p0, q0)
            p == Ordered(p0, q0)[1]
            q == Ordered(p0, q0)[2]
            n == p0 * q0
            lambda == lcm(p - 1, q - 1)
            pinverse == InverseMul(q, p)
            hp == computeHfun(n, p)
            hq == computeHfun(n, q)
            x == InverseMul(n, computeLfun(modExp(n + 1, lambda, n * n), n))
<1>1. key = [m_isInitialized |-> TRUE, m_enable_crt |-> TRUE, m_n |-> n, m_p |-> p, m_q |-> q,
             m_pinverse |-> pinverse, m_hp |-> hp, m_hq |-> hq, m_lambda |-> lambda, m_x |-> x]
  BY DEF NewPrivateKey
<1>2. GoodPrimes(p, q) /\ p < q /\ n = p * q
  <2>1. p0 \in Nat /\ q0 \in Nat /\ p0 # q0 /\ GoodPrimes(q0, p0) /\ p0 * q0 = q0 * p0
    <3>1. p0 # q0 /\ GoodPrimes(q0, p0)
      BY GoodPrimesFacts
    <3>2. p0 \in Nat /\ q0 \in Nat
      BY DEF GoodPrimes, IsPrime
    <3>. QED  BY <3>1, <3>2
  <2>2. CASE q0 < p0
    <3>1. p = q0 /\ q = p0
      BY <2>2 DEF Ordered
    <3>. QED  BY <2>1, <2>2, <3>1
  <2>3. CASE ~(q0 < p0)
    <3>1. p = p0 /\ q = q0
      BY <2>3 DEF Ordered
    <3>2. p < q
      BY <2>1, <2>3, <3>1
    <3>. QED  BY <3>1, <3>2
  <2>. QED  BY <2>2, <2>3
<1>. HIDE DEF key, p, q, n, lambda, pinverse, hp, hq, x
<1>3. /\ Unit(q, p) /\ Unit(p, q) /\ p * q \in Nat \ {0, 1}
      /\ p \in Nat \ {0, 1} /\ q \in Nat \ {0, 1} /\ gcd(p, q) = 1
  BY <1>2, GoodPrimesFacts DEF GoodPrimes, IsPrime
<1>4. n \in Nat \ {0, 1} /\ n = q * p /\ p \in Nat /\ q \in Nat
  BY <1>2, <1>3
<1>5. pinverse \in Coprime(q) /\ Same(q, p * pinverse, 1)
  BY <1>3, <1>4, InverseFacts DEF pinverse
<1>6. hp \in Coprime(p) /\ Same(p, (q * (p - 1)) * hp, 1)
  BY <1>2, <1>3, <1>4, HfunFacts DEF hp
<1>7. hq \in Coprime(q) /\ Same(q, (p * (q - 1)) * hq, 1)
  BY <1>3, <1>4, HfunFacts DEF hq
<1>8. lambda \in Nat /\ lambda \in Int /\ Unit(n, lambda)
  <2>1. lambda \in Nat /\ Unit(n, lambda)
    BY <1>2, LambdaFacts DEF lambda
  <2>. QED  BY <2>1
<1>9. x \in Coprime(n) /\ Same(n, lambda * x, 1)
  <2>. DEFINE u == lambda % n
  <2>1. u \in Coprime(n) /\ Same(n, lambda, u)
    BY <1>4, <1>8, UnitResidue
  <2>2. computeLfun(modExp(n + 1, lambda, n * n), n) = u
    <3>1. n + 1 \in Int /\ n + 1 = (1 * n) + 1 /\ 1 \in Int /\ 1 * lambda = lambda
      BY <1>4, <1>8
    <3>2. Same(n * n, n + 1, (1 * n) + 1)
      BY <3>1, SameFacts
    <3>3. computeLfun(modExp(n + 1, lambda, n * n), n) = (1 * lambda) % n
      BY <1>4, <1>8, <3>1, <3>2, LfunFacts
    <3>. QED  BY <3>1, <3>3
  <2>. HIDE DEF u
  <2>3. u \in Nat /\ u \in Int /\ gcd(u, n) = 1
    BY <2>1 DEF Coprime
  <2>4. x = InverseMul(n, u)
    BY <2>2 DEF x
  <2>5. x \in Coprime(n) /\ Same(n, u * x, 1)
    BY <1>4, <2>3, <2>4, InverseFacts
  <2>6. x \in Int
    BY <1>4, <2>5, CoprimeFacts
  <2>7. Same(n, lambda * x, u * x)
    BY <1>4, <1>8, <2>1, <2>3, <2>6, SameTimes
  <2>. QED  BY <2>5, <2>7, SameFacts
<1>10. pinverse \in Nat /\ hp \in Nat /\ hq \in Nat /\ x \in Nat /\ n \in Nat
  BY <1>3, <1>4, <1>5, <1>6, <1>7, <1>9, CoprimeFacts
<1>11. key \in PrivateRecords
  BY <1>1, <1>4, <1>8, <1>10 DEF PrivateRecords
<1>12. /\ key.m_n = n /\ key.m_p = p /\ key.m_q = q /\ key.m_pinverse = pinverse
       /\ key.m_hp = hp /\ key.m_hq = hq /\ key.m_lambda = lambda /\ key.m_x = x
  BY <1>1
<1>13. GoodNumbers(key)
  BY <1>2, <1>5, <1>6, <1>7, <1>9, <1>12 DEF GoodNumbers, lambda
<1>. QED  BY <1>11, <1>13 DEF SoundPrivateKey, key

\* The remainders that decrypt ends with.
LEMMA DecryptionIsNumber ==
    ASSUME NEW key, SoundPrivateKey(key), key.m_isInitialized, NEW c \in Int
    PROVE  /\ decryptRAW(key, c) \in 0 .. key.m_n - 1 /\ decryptCRT(key, c) \in 0 .. key.m_n - 1
           /\ decryption(key, c) \in 0 .. key.m_n - 1
<1>. DEFINE n == key.m_n
            p == key.m_p
            q == key.m_q
<1>1. /\ key \in PrivateRecords /\ n = p * q /\ GoodPrimes(p, q)
      /\ p \in Nat \ {0, 1} /\ q \in Nat \ {0, 1}
  BY DEF SoundPrivateKey, GoodNumbers, GoodPrimes, IsPrime
<1>2. n \in Nat \ {0, 1}
  BY <1>1, GoodPrimesFacts
<1>3. key.m_x \in Int /\ key.m_lambda \in Nat /\ key.m_pinverse \in Int
      /\ key.m_hp \in Int /\ key.m_hq \in Int
  BY <1>1 DEF PrivateRecords
<1>. HIDE DEF n, p, q
<1>4. ASSUME NEW m \in Nat \ {0}, NEW b \in Int, NEW e \in Nat, NEW a \in Nat \ {0}, NEW h \in Int,
             NEW r \in Nat \ {0}
      PROVE  Modulo(r, computeLfun(modExp(b, e, m), a) * h) \in 0 .. r - 1
  <2>. DEFINE y == modExp(b, e, m)
              l == (y - 1) \div a
  <2>1. y \in Int
    BY ExpFacts
  <2>. HIDE DEF y
  <2>2. y - 1 \in Int
    BY <2>1
  <2>3. l \in Int
    BY <2>2, Remainder
  <2>. HIDE DEF l
  <2>4. l * h \in Int
    BY <2>3
  <2>5. (l * h) % r \in 0 .. r - 1
    BY <2>4, Remainder
  <2>. QED  BY <2>5 DEF Modulo, computeLfun, l, y
<1>5. /\ n * n \in Nat \ {0} /\ p * p \in Nat \ {0} /\ q * q \in Nat \ {0}
      /\ p - 1 \in Nat /\ q - 1 \in Nat /\ n \in Nat \ {0} /\ p \in Nat \ {0} /\ q \in Nat \ {0}
  BY <1>1, <1>2
<1>6. decryptRAW(key, c) \in 0 .. n - 1
  BY <1>3, <1>4, <1>5 DEF decryptRAW, n
<1>7. decryptCRT(key, c) \in 0 .. n - 1
  <2>. DEFINE mp == Modulo(p, computeLfun(modExp(Modulo(p * p, c), p - 1, p * p), p) * key.m_hp)
              mq == Modulo(q, computeLfun(modExp(Modulo(q * q, c), q - 1, q * q), q) * key.m_hq)
              d == Modulo(q, (mq - mp) * key.m_pinverse)
  <2>1. Modulo(p * p, c) \in Int /\ Modulo(q * q, c) \in Int
    BY <1>5, ResidueFacts DEF Modulo
  <2>2. mp \in 0 .. p - 1 /\ mq \in 0 .. q - 1
    BY <1>3, <1>4, <1>5, <2>1
  <2>3. decryptCRT(key, c) = mp + (d * p)
    BY DEF decryptCRT, computeCRT, p, q
  <2>. HIDE DEF mp, mq
  <2>4. d \in 0 .. q - 1
    <3>. DEFINE z == (mq - mp) * key.m_pinverse
    <3>1. z \in Int
      BY <1>3, <2>2
    <3>. HIDE DEF z
    <3>2. z % q \in 0 .. q - 1
      BY <1>5, <3>1, Remainder
    <3>. QED  BY <3>2 DEF Modulo, z
  <2>. HIDE DEF d
  <2>5. d * p >= 0 /\ d * p <= (q - 1) * p /\ d * p \in Int
    BY <1>5, <2>4
  <2>6. (q - 1) * p = n - p
    BY <1>1, <1>5
  <2>. QED  BY <1>5, <2>2, <2>3, <2>5, <2>6
<1>. QED  BY <1>6, <1>7 DEF decryption, n

-----------------------------------------------------------------------------
(* Fermat's little theorem.                                                *)

\* A unit can be cancelled.
LEMMA CancelUnit ==
    ASSUME NEW n \in Nat \ {0}, NEW u \in Int, Unit(n, u), NEW x \in Int, NEW y \in Int,
           Same(n, u * x, u * y)
    PROVE  Same(n, x, y)
<1>1. PICK s \in Int : Same(n, u * s, 1)
  BY DEF Unit
<1>2. u * x \in Int /\ u * y \in Int /\ u * s \in Int /\ 1 \in Int
  OBVIOUS
<1>3. Same(n, s * (u * x), s * (u * y))
  BY <1>2, SameTimes
<1>4. Same(n, (u * s) * x, 1 * x) /\ Same(n, (u * s) * y, 1 * y)
  BY <1>1, <1>2, SameTimes
<1>5. s * (u * x) = (u * s) * x /\ s * (u * y) = (u * s) * y /\ 1 * x = x /\ 1 * y = y
  OBVIOUS
<1>. QED  BY <1>3, <1>4, <1>5, SameFacts

\* Every positive number below a prime is a unit.
LEMMA PrimeUnits ==
    ASSUME NEW p, IsPrime(p), NEW x \in 1 .. p - 1
    PROVE  Unit(p, x)
<1>. DEFINE g == gcd(x, p)
<1>1. p \in Nat \ {0, 1} /\ x \in Nat
  BY DEF IsPrime
<1>2. Combination(g, x, p)
  BY <1>1, Bezout
<1>. HIDE DEF g
<1>3. PICK k, l \in Int : x = g * k /\ p = g * l
  BY <1>2 DEF Combination
<1>4. g \in Nat
  BY <1>2 DEF Combination
<1>5. g # 0
  BY <1>1, <1>3
<1>6. g <= p - 1
  <2>1. k >= 1
    <3>1. k <= 0 => g * k <= 0
      BY <1>4
    <3>. QED  BY <1>3, <3>1
  <2>2. g * k >= g
    BY <1>4, <2>1
  <2>. QED  BY <1>3, <1>4, <2>2
<1>7. p % g = 0
  <2>1. (g * l) + 0 = p
    BY <1>3, <1>4
  <2>2. g \in Nat \ {0} /\ 0 \in Residues(g)
    BY <1>4, <1>5 DEF Residues
  <2>. QED  BY <2>1, <2>2, RemainderUnique
<1>8. g = 1
  <2>1. ~(g \in 2 .. p - 1)
    BY <1>7 DEF IsPrime
  <2>. QED  BY <1>1, <1>4, <1>5, <1>6, <2>1
<1>. QED  BY <1>1, <1>8, UnitsAreCoprime DEF g

\* The order of a unit: its least power that is 1.
IsOrder(n, a, k) ==
    /\ k \in Nat \ {0} /\ Same(n, modExp(a, k, n), 1)
    /\ \A j \in 1 .. k - 1 : ~Same(n, modExp(a, j, n), 1)

LEMMA UnitOfExp ==
    ASSUME NEW n \in Nat \ {0}, NEW a \in Int, Unit(n, a), NEW e \in Nat
    PROVE  Unit(n, modExp(a, e, n)) /\ modExp(a, e, n) \in Int
<1>1. n = n * 1 /\ 1 \in Int
  OBVIOUS
<1>. QED  BY <1>1, UnitOfPower, ExpFacts

LEMMA ExpDifference ==
    ASSUME NEW n \in Nat \ {0}, NEW a \in Int, Unit(n, a), NEW x \in Int, Unit(n, x),
           NEW e \in Nat, NEW f \in Nat, e <= f,
           Same(n, x * modExp(a, e, n), x * modExp(a, f, n))
    PROVE  Same(n, modExp(a, f - e, n), 1)
<1>. DEFINE d == f - e
            y == modExp(a, e, n)
            z == modExp(a, d, n)
            w == modExp(a, f, n)
<1>1. d \in Nat /\ e + d = f
  OBVIOUS
<1>. HIDE DEF d
<1>2. y \in Int /\ z \in Int /\ w \in Int /\ Unit(n, y)
  BY <1>1, UnitOfExp
<1>3. Same(n, w, y * z)
  BY <1>1, ExpOfSum
<1>. HIDE DEF y, z, w
<1>4. Same(n, x * y, x * w)
  BY DEF y, w
<1>5. Same(n, y, w)
  BY <1>2, <1>4, CancelUnit
<1>6. Same(n, y * 1, y * z) /\ 1 \in Int
  <2>1. y * 1 = y
    BY <1>2
  <2>. QED  BY <1>3, <1>5, <2>1, SameFacts
<1>7. Same(n, 1, z)
  BY <1>2, <1>6, CancelUnit
<1>. QED  BY <1>7, SameFacts DEF z, d

LEMMA OrderExists ==
    ASSUME NEW n \in Nat \ {0}, NEW a \in Int, Unit(n, a)
    PROVE  \E k : IsOrder(n, a, k)
<1>. DEFINE T == {k \in Nat \ {0} : Same(n, modExp(a, k, n), 1)}
            S == 0 .. n
            R == 0 .. n - 1
            f == [e \in S |-> modExp(a, e, n)]
<1>1. IsFiniteSet(S) /\ IsFiniteSet(R) /\ Cardinality(R) < Cardinality(S)
  <2>1. n \in Int /\ n - 1 \in Int /\ 0 \in Int
    OBVIOUS
  <2>. QED  BY <2>1, FS_Interval
<1>2. f \in [S -> R]
  <2>. SUFFICES ASSUME NEW e \in S PROVE modExp(a, e, n) \in R
    OBVIOUS
  <2>1. e \in Nat
    OBVIOUS
  <2>. QED  BY <2>1, ExpFacts DEF Residues
<1>3. \E x, y \in S : x # y /\ f[x] = f[y]
  <2>. HIDE DEF f, S, R
  <2>. QED  BY <1>1, <1>2, FS_PigeonHole
<1>4. PICK x \in S, y \in S : x < y /\ f[x] = f[y]
  <2>1. PICK u \in S, v \in S : u # v /\ f[u] = f[v]
    BY <1>3
  <2>2. u < v \/ v < u
    BY <2>1
  <2>. HIDE DEF f
  <2>. QED  BY <2>1, <2>2
<1>5. modExp(a, x, n) = modExp(a, y, n)
  BY <1>4
<1>6. x \in Nat /\ y \in Nat /\ y - x \in Nat \ {0} /\ 1 \in Int /\ x <= y
  BY <1>4
<1>7. Unit(n, 1)
  <2>1. Same(n, 1 * 1, 1)
    BY SameFacts
  <2>. QED  BY <1>6, <2>1 DEF Unit
<1>8. Same(n, modExp(a, y - x, n), 1)
  <2>1. Same(n, 1 * modExp(a, x, n), 1 * modExp(a, y, n))
    BY <1>5, SameFacts
  <2>. QED  BY <1>6, <1>7, <2>1, ExpDifference
<1>9. y - x \in T
  BY <1>6, <1>8
<1>. HIDE DEF f, S, R
<1>10. T \subseteq Nat /\ T # {}
  BY <1>9
<1>. HIDE DEF T
<1>11. PICK k \in T : \A j \in T : k <= j
  BY <1>10, LeastNumber
<1>12. k \in Nat \ {0} /\ Same(n, modExp(a, k, n), 1)
  BY DEF T
<1>13. ASSUME NEW j \in 1 .. k - 1 PROVE ~Same(n, modExp(a, j, n), 1)
  <2>1. j \notin T
    BY <1>11, <1>12
  <2>. QED  BY <2>1 DEF T
<1>. QED  BY <1>12, <1>13 DEF IsOrder

\* The residues that x goes through when it is multiplied by a.
Orbit(p, a, k, x) == {(x * modExp(a, i, p)) % p : i \in 0 .. k - 1}

LEMMA OrbitSize ==
    ASSUME NEW p, IsPrime(p), NEW a \in Int, Unit(p, a), NEW k, IsOrder(p, a, k), NEW x \in 1 .. p - 1
    PROVE  IsFiniteSet(Orbit(p, a, k, x)) /\ Cardinality(Orbit(p, a, k, x)) = k
<1>. DEFINE S == 0 .. k - 1
            g(i) == (x * modExp(a, i, p)) % p
            f == [i \in S |-> g(i)]
            O == Orbit(p, a, k, x)
<1>1. p \in Nat \ {0} /\ k \in Nat \ {0} /\ x \in Int /\ Unit(p, x)
  <2>1. p \in Nat \ {0, 1}
    BY DEF IsPrime
  <2>. QED  BY <2>1, PrimeUnits DEF IsOrder
<1>2. IsFiniteSet(S) /\ Cardinality(S) = k
  <2>1. k - 1 \in Int /\ 0 \in Int
    BY <1>1
  <2>2. IsFiniteSet(0 .. k - 1) /\ Cardinality(0 .. k - 1) = IF 0 > k - 1 THEN 0 ELSE (k - 1) - 0 + 1
    BY <2>1, FS_Interval
  <2>3. ~(0 > k - 1) /\ (k - 1) - 0 + 1 = k
    BY <1>1
  <2>. QED  BY <2>2, <2>3
<1>3. ASSUME NEW i \in S, NEW j \in S, i < j, g(i) = g(j) PROVE FALSE
  <2>1. i \in Nat /\ j \in Nat /\ j - i \in 1 .. k - 1 /\ i <= j
    BY <1>1, <1>3
  <2>2. Same(p, x * modExp(a, i, p), x * modExp(a, j, p))
    BY <1>3 DEF Same
  <2>3. Same(p, modExp(a, j - i, p), 1)
    BY <1>1, <2>1, <2>2, ExpDifference
  <2>. QED  BY <2>1, <2>3 DEF IsOrder
<1>4. ASSUME NEW i \in S, NEW j \in S, g(i) = g(j) PROVE i = j
  <2>1. g(j) = g(i)
    BY <1>4
  <2>. HIDE DEF g
  <2>2. ~(i < j) /\ ~(j < i)
    BY <1>3, <1>4, <2>1
  <2>. QED  BY <1>1, <2>2
<1>5. O = {g(i) : i \in S}
  BY DEF Orbit
<1>. HIDE DEF g, O, S
<1>6. f \in Bijection(S, O)
  <2>1. f \in [S -> O] /\ \A t \in O : \E s \in S : f[s] = t
    BY <1>5
  <2>2. \A i, j \in S : f[i] = f[j] => i = j
    BY <1>4
  <2>. QED  BY <2>1, <2>2 DEF Bijection, Injection, Surjection, IsInjective
<1>7. ExistsBijection(S, O)
  BY <1>6 DEF ExistsBijection
<1>. QED  BY <1>2, <1>7, FS_Bijection DEF O

Closed(p, a, S) == S \subseteq 1 .. p - 1 /\ \A y \in S : (y * a) % p \in S

\* What is not in an orbit does not come into it.
LEMMA OrbitLeft ==
    ASSUME NEW p, IsPrime(p), NEW a \in Int, Unit(p, a), NEW k, IsOrder(p, a, k),
           NEW S, Closed(p, a, S), NEW x \in S
    PROVE  Orbit(p, a, k, x) \subseteq S /\ Closed(p, a, S \ Orbit(p, a, k, x))
<1>. DEFINE O == Orbit(p, a, k, x)
            A(i) == modExp(a, i, p)
            T == {i \in Nat : (x * A(i)) % p \in S}
<1>1. p \in Nat \ {0} /\ k \in Nat \ {0} /\ x \in Int /\ S \subseteq 1 .. p - 1
  <2>1. p \in Nat \ {0, 1}
    BY DEF IsPrime
  <2>. QED  BY <2>1 DEF IsOrder, Closed
<1>2. ASSUME NEW i \in Nat PROVE A(i) \in Int /\ Same(p, A(i + 1), A(i) * a)
  BY <1>1, ExpFacts
<1>2a. Same(p, A(0), 1) /\ 0 \in Nat
  <2>1. 0 \in Nat
    OBVIOUS
  <2>. QED  BY <1>1, <2>1, ExpFacts
<1>2b. Same(p, A(k), 1)
  BY DEF IsOrder
<1>. HIDE DEF A
<1>3. ASSUME NEW i \in Nat
      PROVE  /\ x * A(i) \in Int /\ x * A(i + 1) \in Int
             /\ Same(p, x * A(i + 1), (x * A(i)) * a)
             /\ (x * A(i)) % p \in Int /\ ((x * A(i)) % p) * a \in Int
             /\ Same(p, (x * A(i)) * a, ((x * A(i)) % p) * a)
  <2>1. A(i) \in Int /\ A(i + 1) \in Int /\ A(i) * a \in Int /\ x * A(i) \in Int
        /\ x * A(i + 1) \in Int /\ x * (A(i) * a) = (x * A(i)) * a
    <3>1. i + 1 \in Nat
      OBVIOUS
    <3>2. A(i) \in Int /\ A(i + 1) \in Int
      BY <1>2, <3>1
    <3>. QED  BY <1>1, <3>2
  <2>2. Same(p, x * A(i + 1), (x * A(i)) * a)
    <3>1. Same(p, A(i + 1), A(i) * a)
      BY <1>2
    <3>2. Same(p, x * A(i + 1), x * (A(i) * a))
      BY <1>1, <2>1, <3>1, SameTimes
    <3>. QED  BY <2>1, <3>2
  <2>. DEFINE y == x * A(i)
              r == y % p
  <2>3. y \in Int
    BY <2>1
  <2>. HIDE DEF y
  <2>4. r \in Int /\ Same(p, y, r)
    BY <1>1, <2>3, ResidueFacts, SameResidue
  <2>. HIDE DEF r
  <2>5. Same(p, y * a, r * a)
    BY <1>1, <2>3, <2>4, SameTimes
  <2>6. r * a \in Int
    BY <2>4
  <2>. QED  BY <2>1, <2>2, <2>4, <2>5, <2>6 DEF y, r
<1>4. O \subseteq S
  <2>1. 0 \in T
    <3>1. Same(p, x * A(0), x * 1) /\ x * 1 = x
      <4>1. A(0) \in Int /\ 1 \in Int
        BY <1>2, <1>2a
      <4>2. Same(p, x * A(0), x * 1)
        BY <1>1, <1>2a, <4>1, SameTimes
      <4>. QED  BY <1>1, <4>2
    <3>2. x % p = x
      BY <1>1, RemainderOfSmall
    <3>. QED  BY <1>2a, <3>1, <3>2 DEF Same
  <2>2. ASSUME NEW i \in Nat, i \in T PROVE i + 1 \in T
    <3>1. (((x * A(i)) % p) * a) % p \in S
      BY <2>2 DEF Closed
    <3>2. (((x * A(i)) % p) * a) % p = (x * A(i + 1)) % p
      BY <1>3 DEF Same
    <3>3. i + 1 \in Nat
      OBVIOUS
    <3>. QED  BY <3>1, <3>2, <3>3
  <2>. HIDE DEF T
  <2>3. Nat \subseteq T
    BY <2>1, <2>2, SimpleInduction
  <2>4. \A i \in 0 .. k - 1 : (x * A(i)) % p \in S
    BY <1>1, <2>3 DEF T
  <2>. QED  BY <2>4 DEF Orbit, A
<1>5. ASSUME NEW y \in S \ O PROVE (y * a) % p \in S \ O
  <2>1. (y * a) % p \in S /\ y \in Int /\ y \in 1 .. p - 1
    BY <1>1 DEF Closed
  <2>2. ASSUME NEW i \in Nat, i < k, (y * a) % p = (x * A(i + 1)) % p PROVE FALSE
    <3>. DEFINE w == (x * A(i)) % p
    <3>1. Same(p, y * a, w * a)
      <4>1. Same(p, y * a, x * A(i + 1))
        BY <2>2 DEF Same
      <4>2. Same(p, x * A(i + 1), (x * A(i)) * a) /\ Same(p, (x * A(i)) * a, w * a)
        BY <1>3
      <4>. QED  BY <4>1, <4>2, SameFacts
    <3>2. w \in Int
      BY <1>3
    <3>3. w \in O
      <4>1. i \in 0 .. k - 1
        BY <1>1, <2>2
      <4>. QED  BY <4>1 DEF Orbit, A
    <3>. HIDE DEF w
    <3>4. y * a = a * y /\ w * a = a * w
      BY <2>1, <3>2
    <3>5. Same(p, y, w)
      BY <1>1, <2>1, <3>1, <3>2, <3>4, CancelUnit
    <3>6. w \in 1 .. p - 1
      BY <1>1, <1>4, <3>3
    <3>7. y = w
      BY <1>1, <2>1, <3>5, <3>6, SameResidues DEF Residues
    <3>. QED  BY <3>3, <3>7
  <2>3. ASSUME (y * a) % p \in O PROVE FALSE
    <3>1. PICK i \in 0 .. k - 1 : (y * a) % p = (x * A(i)) % p
      BY <2>3 DEF Orbit, A
    <3>2. CASE i # 0
      <4>1. i - 1 \in Nat /\ i - 1 < k /\ (i - 1) + 1 = i
        BY <1>1, <3>2
      <4>. QED  BY <2>2, <3>1, <4>1
    <3>3. CASE i = 0
      <4>1. k - 1 \in Nat /\ k - 1 < k /\ (k - 1) + 1 = k /\ k \in Nat
        BY <1>1
      <4>2. Same(p, x * A(0), x * A(k))
        <5>1. A(0) \in Int /\ A(k) \in Int
          BY <1>2, <1>2a, <4>1
        <5>2. Same(p, A(0), A(k))
          BY <1>2a, <1>2b, SameFacts
        <5>. QED  BY <1>1, <5>1, <5>2, SameTimes
      <4>3. (y * a) % p = (x * A(k)) % p
        BY <3>1, <3>3, <4>2 DEF Same
      <4>. QED  BY <2>2, <4>1, <4>3
    <3>. QED  BY <3>2, <3>3
  <2>. QED  BY <2>1, <2>3
<1>. HIDE DEF O
<1>6. Closed(p, a, S \ O)
  BY <1>1, <1>5 DEF Closed
<1>. QED  BY <1>4, <1>6 DEF O

LEMMA OrderDivides ==
    ASSUME NEW p, IsPrime(p), NEW a \in Int, Unit(p, a), NEW k, IsOrder(p, a, k)
    PROVE  \E t \in Nat : p - 1 = k * t
<1>. DEFINE Sized(c) == \A S : Closed(p, a, S) /\ Cardinality(S) = c => \E t \in Nat : c = k * t
            T == {c \in Nat : Sized(c)}
<1>1. p \in Nat \ {0, 1} /\ k \in Nat \ {0}
  BY DEF IsPrime, IsOrder
<1>2. IsFiniteSet(1 .. p - 1) /\ Cardinality(1 .. p - 1) = p - 1
  <2>1. p - 1 \in Int /\ 1 \in Int
    BY <1>1
  <2>2. ~(1 > p - 1) /\ (p - 1) - 1 + 1 = p - 1
    BY <1>1
  <2>3. Cardinality(1 .. p - 1) = IF 1 > p - 1 THEN 0 ELSE (p - 1) - 1 + 1
    BY <2>1, FS_Interval
  <2>. QED  BY <2>1, <2>2, <2>3, FS_Interval
<1>3. ASSUME NEW c \in Nat, \A d \in 0 .. c - 1 : d \in T PROVE c \in T
  <2>. SUFFICES ASSUME NEW S, Closed(p, a, S), Cardinality(S) = c PROVE \E t \in Nat : c = k * t
    OBVIOUS
  <2>1. IsFiniteSet(S)
    <3>1. S \in SUBSET (1 .. p - 1)
      BY DEF Closed
    <3>. HIDE DEF T
    <3>. QED  BY <1>2, <3>1, FS_Subset
  <2>2. CASE S = {}
    <3>1. c = 0
      BY <2>2, FS_EmptySet
    <3>2. c = k * 0 /\ 0 \in Nat
      BY <1>1, <3>1
    <3>. QED  BY <3>2
  <2>3. ASSUME NEW x \in S PROVE \E t \in Nat : c = k * t
    <3>. DEFINE O == Orbit(p, a, k, x)
                R == S \ O
    <3>1. O \subseteq S /\ Closed(p, a, R)
      BY OrbitLeft
    <3>2. Cardinality(O) = k
      <4>1. x \in 1 .. p - 1
        BY DEF Closed
      <4>. QED  BY <4>1, OrbitSize
    <3>3. Cardinality(R) = c - k
      <4>1. S \cap O = O
        BY <3>1
      <4>. HIDE DEF O
      <4>2. Cardinality(S \ O) = Cardinality(S) - Cardinality(S \cap O) /\ IsFiniteSet(S \ O)
        BY <2>1, FS_Difference
      <4>. QED  BY <3>2, <4>1, <4>2
    <3>4. c - k \in Nat
      <4>1. IsFiniteSet(R)
        BY <2>1, FS_Difference
      <4>. HIDE DEF R
      <4>. QED  BY <3>3, <4>1, FS_CardinalityType
    <3>5. c - k \in 0 .. c - 1
      BY <1>1, <3>4
    <3>. HIDE DEF R
    <3>6. Sized(c - k)
      BY <1>3, <3>5
    <3>7. PICK t \in Nat : c - k = k * t
      BY <3>1, <3>3, <3>6
    <3>8. c = k * (t + 1) /\ t + 1 \in Nat
      <4>1. k * (t + 1) = (k * t) + k /\ t + 1 \in Nat
        BY <1>1
      <4>2. k * t \in Int
        BY <1>1
      <4>. QED  BY <1>1, <3>7, <4>1, <4>2
    <3>. QED  BY <3>8
  <2>. QED  BY <2>2, <2>3
<1>4. Closed(p, a, 1 .. p - 1)
  <2>. SUFFICES ASSUME NEW y \in 1 .. p - 1 PROVE (y * a) % p \in 1 .. p - 1
    BY DEF Closed
  <2>1. Unit(p, y) /\ y \in Int /\ p \in Nat \ {0} /\ y * a \in Int
    BY <1>1, PrimeUnits
  <2>2. Unit(p, y * a)
    BY <2>1, UnitFacts
  <2>3. (y * a) % p \in Coprime(p)
    BY <1>1, <2>1, <2>2, UnitResidue
  <2>. QED  BY <2>3 DEF Coprime
<1>5. p - 1 \in Nat
  BY <1>1
<1>. HIDE DEF T
<1>6. Nat \subseteq T
  BY <1>3, InductionBySet
<1>7. Sized(p - 1)
  BY <1>5, <1>6 DEF T
<1>. QED  BY <1>2, <1>4, <1>7

LEMMA ExpOfOne ==
    ASSUME NEW m \in Nat \ {0}, NEW e \in Nat
    PROVE  Same(m, modExp(1, e, m), 1)
<1>1. 0 \in Int /\ 0 * 0 = 0 /\ 0 + 1 = 1 /\ (0 * e) + 1 = 1
  OBVIOUS
<1>2. Same(m, 0 * 0, 0)
  BY <1>1, SameFacts
<1>3. Same(m, modExp(0 + 1, e, m), (0 * e) + 1)
  BY <1>1, <1>2, ExpNearOne
<1>. QED  BY <1>1, <1>3

\* A power of a number whose power is 1.
LEMMA ExpOfMultiple ==
    ASSUME NEW m \in Nat \ {0}, NEW b \in Int, NEW e \in Nat, Same(m, modExp(b, e, m), 1),
           NEW t \in Nat
    PROVE  Same(m, modExp(b, e * t, m), 1)
<1>. DEFINE c == modExp(b, e, m)
            h == e * t
<1>1. c \in Int
  BY ExpFacts
<1>1a. 1 \in Int /\ h = e * t
  OBVIOUS
<1>. HIDE DEF h
<1>2. modExp(c, t, m) = modExp(b, h, m)
  <2>1. PowerOfPower(m, b, e, t, h)
    BY ExpOfExp
  <2>. QED  BY <1>1a, <2>1 DEF PowerOfPower
<1>. HIDE DEF c
<1>3. Same(m, c, 1)
  BY DEF c
<1>4. modExp(c, t, m) = modExp(1, t, m)
  BY <1>1, <1>1a, <1>3, ExpOfSame
<1>. QED  BY <1>1a, <1>2, <1>4, ExpOfOne

\* Fermat's little theorem.
LEMMA Fermat ==
    ASSUME NEW p, IsPrime(p), NEW a \in Int, Unit(p, a), NEW t \in Nat
    PROVE  Same(p, modExp(a, (p - 1) * t, p), 1)
<1>1. p \in Nat \ {0} /\ p - 1 \in Nat
  BY DEF IsPrime
<1>2. PICK k : IsOrder(p, a, k)
  BY <1>1, OrderExists
<1>3. PICK s \in Nat : p - 1 = k * s
  BY <1>2, OrderDivides
<1>4. k \in Nat /\ Same(p, modExp(a, k, p), 1)
  BY <1>2 DEF IsOrder
<1>5. Same(p, modExp(a, k * s, p), 1)
  BY <1>1, <1>4, ExpOfMultiple
<1>. QED  BY <1>1, <1>3, <1>5, ExpOfMultiple

-----------------------------------------------------------------------------
(* Factors of the modulus.                                                 *)

LEMMA SameUnderFactor ==
    ASSUME NEW m \in Nat \ {0}, NEW n \in Nat \ {0}, NEW d \in Int, m = n * d,
           NEW x \in Int, NEW y \in Int, Same(m, x, y)
    PROVE  Same(n, x, y)
<1>1. PICK t \in Int : x = y + (m * t)
  BY SameByMultiple
<1>2. x = y + (n * (d * t)) /\ d * t \in Int
  BY <1>1
<1>. QED  BY <1>2, SameByMultiple

LEMMA ExpUnderFactor ==
    ASSUME NEW m \in Nat \ {0}, NEW n \in Nat \ {0}, NEW d \in Int, m = n * d, NEW b \in Int
    PROVE  \A e \in Nat : Same(n, modExp(b, e, m), modExp(b, e, n))
<1>. DEFINE T == {e \in Nat : Same(n, modExp(b, e, m), modExp(b, e, n))}
<1>1. 0 \in T
  <2>1. 0 \in Nat /\ 1 \in Int
    OBVIOUS
  <2>2. Same(m, modExp(b, 0, m), 1) /\ Same(n, modExp(b, 0, n), 1) /\ modExp(b, 0, m) \in Int
    BY <2>1, ExpFacts
  <2>3. Same(n, modExp(b, 0, m), 1)
    BY <2>1, <2>2, SameUnderFactor
  <2>. QED  BY <2>1, <2>2, <2>3, SameFacts
<1>2. ASSUME NEW e \in Nat, e \in T PROVE e + 1 \in T
  <2>. DEFINE x == modExp(b, e, m)
              y == modExp(b, e, n)
              x1 == modExp(b, e + 1, m)
              y1 == modExp(b, e + 1, n)
  <2>0. e + 1 \in Nat
    OBVIOUS
  <2>1. /\ x \in Int /\ Same(m, x1, x * b)
        /\ y \in Int /\ Same(n, y1, y * b)
    BY ExpFacts
  <2>2. x1 \in Int
    BY <2>0, ExpFacts
  <2>3. Same(n, x, y)
    BY <1>2
  <2>. HIDE DEF x, y, x1, y1
  <2>4. x * b \in Int
    BY <2>1
  <2>5. Same(n, x1, x * b)
    BY <2>1, <2>2, <2>4, SameUnderFactor
  <2>6. Same(n, x * b, y * b)
    BY <2>1, <2>3, SameTimes
  <2>7. Same(n, x1, y1)
    BY <2>1, <2>5, <2>6, SameFacts
  <2>. QED  BY <2>0, <2>7 DEF x1, y1
<1>. HIDE DEF T
<1>3. Nat \subseteq T
  BY <1>1, <1>2, SimpleInduction
<1>. QED  BY <1>3 DEF T

\* What is equal modulo two coprime numbers is equal modulo their product.
LEMMA SameUnderProduct ==
    ASSUME NEW m \in Nat \ {0}, NEW n \in Nat \ {0}, Unit(n, m), NEW x \in Int, NEW y \in Int,
           Same(m, x, y), Same(n, x, y)
    PROVE  Same(m * n, x, y)
<1>1. PICK t \in Int : x = y + (m * t)
  BY SameByMultiple
<1>2. PICK u \in Int : x = y + (n * u)
  BY SameByMultiple
<1>3. m * t = (m * 0) + (n * u) /\ m * t \in Int /\ m * 0 \in Int /\ m \in Int /\ 0 \in Int
  BY <1>1, <1>2
<1>4. Same(n, m * t, m * 0)
  BY <1>3, SameByMultiple
<1>5. Same(n, t, 0)
  BY <1>3, <1>4, CancelUnit
<1>6. PICK v \in Int : t = 0 + (n * v)
  BY <1>3, <1>5, SameByMultiple
<1>7. x = y + ((m * n) * v) /\ m * n \in Nat \ {0}
  <2>1. m * (n * v) = (m * n) * v
    OBVIOUS
  <2>2. t = n * v
    BY <1>6
  <2>. QED  BY <1>1, <2>1, <2>2
<1>. QED  BY <1>7, SameByMultiple

LEMMA UnitOfSquare ==
    ASSUME NEW n \in Nat \ {0}, NEW a \in Int, Unit(n, a)
    PROVE  Unit(n * n, a * a)
<1>1. PICK s \in Int : Same(n, a * s, 1)
  BY DEF Unit
<1>2. a * s \in Int /\ 1 \in Int /\ n * n \in Nat \ {0}
  OBVIOUS
<1>3. PICK t \in Int : a * s = 1 + (n * t)
  BY <1>1, <1>2, SameByMultiple
<1>. DEFINE u == s * (1 - (n * t))
            v == -(t * t)
<1>4. u \in Int /\ v \in Int /\ a * u \in Int /\ a * u = 1 + ((n * n) * v)
  <2>1. a * u = (a * s) * (1 - (n * t))
    OBVIOUS
  <2>2. a * u = (1 + (n * t)) * (1 - (n * t))
    BY <1>3, <2>1
  <2>. DEFINE z == n * t
  <2>3. z \in Int /\ z * z = (n * n) * (t * t)
    OBVIOUS
  <2>4. (n * n) * v = -((n * n) * (t * t)) /\ (n * n) * (t * t) \in Int
    OBVIOUS
  <2>5. a * u = (1 + z) * (1 - z)
    BY <2>2
  <2>. HIDE DEF z, u, v
  <2>6. (1 + z) * (1 - z) = 1 - (z * z) /\ z * z \in Int
    BY <2>3
  <2>7. a * u = 1 + ((n * n) * v)
    BY <2>3, <2>4, <2>5, <2>6
  <2>8. u \in Int /\ v \in Int
    BY DEF u, v
  <2>. QED  BY <2>7, <2>8
<1>. HIDE DEF u, v
<1>5. Same(n * n, a * u, 1)
  BY <1>2, <1>4, SameByMultiple
<1>6. Unit(n * n, a)
  BY <1>4, <1>5 DEF Unit
<1>. QED  BY <1>2, <1>6, UnitFacts

-----------------------------------------------------------------------------
(* Decryption.                                                             *)

\* The exponents of the decryptions make the random factor of an encryption vanish.
LEMMA RandomFactorVanishes ==
    ASSUME NEW p, IsPrime(p), NEW q \in Nat, NEW r \in Int, Unit(p, r), NEW t \in Nat,
           NEW e, e = (p - 1) * t, NEW n, n = p * q
    PROVE  Same(p * p, modExp(r, n * e, p * p), 1)
<1>. DEFINE m == p * p
            y == modExp(r, e, m)
            z == modExp(y, p, m)
<1>1. p \in Nat \ {0} /\ p \in Nat /\ p \in Int /\ e \in Nat /\ 1 \in Int /\ m \in Nat \ {0}
  <2>1. p \in Nat \ {0, 1}
    BY DEF IsPrime
  <2>2. p - 1 \in Nat
    BY <2>1
  <2>3. (p - 1) * t \in Nat
    BY <2>2
  <2>4. p * p \in Nat \ {0}
    BY <2>1
  <2>. QED  BY <2>1, <2>3, <2>4
<1>2. Same(p, modExp(r, e, p), 1)
  BY Fermat
<1>3. y \in Int /\ Same(p, y, modExp(r, e, p))
  <2>1. m = p * p
    OBVIOUS
  <2>. HIDE DEF m
  <2>. QED  BY <1>1, <2>1, ExpFacts, ExpUnderFactor
<1>4. Same(p, y, 1)
  BY <1>2, <1>3, SameFacts
<1>. HIDE DEF y
<1>5. z = modExp(1, p, m)
  BY <1>1, <1>3, <1>4, NthPowerOfResidue
<1>. HIDE DEF m
<1>6. Same(m, z, 1)
  BY <1>1, <1>5, ExpOfOne
<1>7. z = modExp(r, e * p, m) /\ e * p \in Nat
  <2>1. PowerOfPower(m, r, e, p, e * p)
    BY <1>1, ExpOfExp
  <2>2. e * p \in Nat
    BY <1>1
  <2>. QED  BY <2>1, <2>2 DEF PowerOfPower, y
<1>8. Same(m, modExp(r, (e * p) * q, m), 1)
  BY <1>1, <1>6, <1>7, ExpOfMultiple
<1>9. (e * p) * q = n * e
  BY <1>1
<1>. QED  BY <1>8, <1>9 DEF m

Divides(m, n) == \E d \in Int : n = m * d

\* Where it vanishes, a power of an encryption is a power of n + 1.
LEMMA EncryptionPower ==
    ASSUME NEW n \in Nat \ {0}, NEW a \in Nat, NEW r \in Int, NEW e \in Nat,
           NEW m \in Nat \ {0}, Divides(m, n * n), Same(m, modExp(r, n * e, m), 1)
    PROVE  modExp(Encryption(n, a, r), e, m) = modExp(n + 1, a * e, m)
<1>0. PICK d \in Int : n * n = m * d
  BY DEF Divides
<1>. DEFINE s == n * n
            ae == a * e
            ne == n * e
            c == Encryption(n, a, r)
            x == modExp(n + 1, a, s)
            y == modExp(r, n, s)
            x1 == modExp(n + 1, a, m)
            y1 == modExp(r, n, m)
            u == modExp(n + 1, ae, m)
            v == modExp(r, ne, m)
<1>1. s \in Nat \ {0} /\ n + 1 \in Int /\ n \in Nat /\ s = m * d /\ ae \in Nat /\ ne \in Nat
      /\ ae = a * e /\ ne = n * e /\ 1 \in Int
  BY <1>0, SquareFacts
<1>2. x \in Int /\ y \in Int /\ c \in Int /\ Same(s, c, x * y)
  BY EncryptionFactors
<1>. HIDE DEF s, ae, ne
<1>3. x1 \in Int /\ y1 \in Int /\ Same(m, x, x1) /\ Same(m, y, y1)
  BY <1>1, ExpFacts, ExpUnderFactor
<1>4. u \in Int /\ v \in Int /\ u \in Residues(m)
  BY <1>1, ExpFacts
<1>5. modExp(x1, e, m) = u /\ modExp(y1, e, m) = v
  <2>1. PowerOfPower(m, n + 1, a, e, ae) /\ PowerOfPower(m, r, n, e, ne)
    BY <1>1, ExpOfExp
  <2>. QED  BY <1>1, <2>1 DEF PowerOfPower
<1>6. Same(m, v, 1)
  BY <1>1
<1>. HIDE DEF x, y, c, x1, y1, u, v
<1>7. x * y \in Int /\ x1 * y1 \in Int
  BY <1>2, <1>3
<1>8. Same(m, c, x1 * y1)
  <2>1. Same(m, c, x * y)
    BY <1>1, <1>2, <1>7, SameUnderFactor
  <2>2. Same(m, x * y, x1 * y1)
    BY <1>2, <1>3, SameResults
  <2>. QED  BY <2>1, <2>2, SameFacts
<1>9. modExp(c, e, m) = modExp(x1 * y1, e, m)
  BY <1>2, <1>7, <1>8, ExpOfSame
<1>10. Same(m, modExp(x1 * y1, e, m), u * v)
  BY <1>3, <1>5, ExpOfProduct
<1>11. Same(m, u * v, u)
  <2>1. Same(m, u * v, u * 1)
    BY <1>1, <1>4, <1>6, SameTimes
  <2>2. u * 1 = u
    BY <1>4
  <2>. QED  BY <2>1, <2>2
<1>12. modExp(c, e, m) \in Residues(m)
  BY <1>2, ExpFacts
<1>13. modExp(c, e, m) = u
  BY <1>4, <1>9, <1>10, <1>11, <1>12, SameFacts, SameResidues
<1>. QED  BY <1>13 DEF c, u, ae

\* One prime of the private key: the message modulo that prime.
LEMMA HalfDecryption ==
    ASSUME NEW p, NEW q, GoodPrimes(p, q), NEW n, n = p * q, NEW h \in Int,
           Same(p, (q * (p - 1)) * h, 1), NEW a \in Nat, NEW c, Encrypts(n, a, c)
    PROVE  Modulo(p, computeLfun(modExp(Modulo(p * p, c), p - 1, p * p), p) * h) = a % p
<1>. DEFINE m == p * p
            e == p - 1
<1>1. /\ p \in Nat \ {0, 1} /\ q \in Nat \ {0, 1} /\ IsPrime(p)
      /\ e \in Nat /\ e \in Int /\ m \in Nat \ {0} /\ n \in Nat \ {0, 1} /\ n \in Nat \ {0}
      /\ p \in Nat \ {0} /\ p \in Int /\ q \in Nat /\ q \in Int
  <2>1. p \in Nat \ {0, 1} /\ q \in Nat \ {0, 1} /\ IsPrime(p)
    BY DEF GoodPrimes, IsPrime
  <2>2. n \in Nat \ {0, 1}
    BY GoodPrimesFacts
  <2>3. e \in Nat /\ m \in Nat \ {0}
    BY <2>1
  <2>. QED  BY <2>1, <2>2, <2>3
<1>2. PICK r \in Coprime(n) : c = Encryption(n, a, r)
  BY DEF Encrypts
<1>3. r \in Int /\ Unit(n, r)
  BY <1>1, CoprimeFacts
<1>4. Unit(p, r)
  <2>1. PICK s \in Int : Same(n, r * s, 1)
    BY <1>3 DEF Unit
  <2>2. r * s \in Int /\ 1 \in Int
    BY <1>3
  <2>3. Same(p, r * s, 1)
    BY <1>1, <2>1, <2>2, SameUnderFactor
  <2>. QED  BY <2>3 DEF Unit
<1>5. Same(m, modExp(r, n * e, m), 1)
  <2>1. e = (p - 1) * 1 /\ 1 \in Nat
    BY <1>1
  <2>. QED  BY <1>1, <1>3, <1>4, <2>1, RandomFactorVanishes
<1>6. n * n = m * (q * q) /\ q * q \in Int
  BY <1>1
<1>. HIDE DEF m, e
<1>7. modExp(c, e, m) = modExp(n + 1, a * e, m)
  <2>1. Divides(m, n * n)
    BY <1>6 DEF Divides
  <2>2. modExp(Encryption(n, a, r), e, m) = modExp(n + 1, a * e, m)
    BY <1>1, <1>3, <1>5, <2>1, EncryptionPower
  <2>. QED  BY <1>2, <2>2
<1>8. c \in Int
  BY <1>1, <1>2, <1>3, EncryptionFactors
<1>9. modExp(c % m, e, m) = modExp(c, e, m)
  <2>1. Same(m, c % m, c) /\ c % m \in Int
    BY <1>1, <1>8, SameResidue, ResidueFacts
  <2>. QED  BY <1>1, <1>8, <2>1, ExpOfSame
<1>. DEFINE ae == a * e
            l == computeLfun(modExp(n + 1, ae, m), p)
<1>10. ae \in Nat /\ n + 1 \in Int /\ n + 1 = (q * p) + 1
  BY <1>1
<1>11. l = (q * ae) % p
  <2>. HIDE DEF ae
  <2>1. Same(p * p, n + 1, (q * p) + 1)
    BY <1>10, SameFacts
  <2>. QED  BY <1>1, <1>10, <2>1, LfunFacts DEF m
<1>12. Modulo(p, l * h) = a % p
  <2>. DEFINE w == q * ae
              f == (q * e) * h
  <2>1. w \in Int /\ w * h = a * f /\ f \in Int
    <3>1. q * ae = a * (q * e)
      BY <1>1
    <3>2. (a * (q * e)) * h = a * ((q * e) * h)
      BY <1>1
    <3>. QED  BY <1>1, <3>1, <3>2
  <2>2. Same(p, f, 1) /\ 1 \in Int
    BY DEF e
  <2>3. l = w % p
    BY <1>11
  <2>. HIDE DEF w, f, l
  <2>4. (l * h) % p = (w * h) % p
    BY <1>1, <2>1, <2>3, ResidueOfProduct
  <2>5. Same(p, a * f, a * 1) /\ a * 1 = a
    <3>1. Same(p, a * f, a * 1)
      <4>1. a \in Int
        OBVIOUS
      <4>. QED  BY <1>1, <2>1, <2>2, <4>1, SameTimes
    <3>. QED  BY <3>1
  <2>. QED  BY <2>1, <2>4, <2>5 DEF Same, Modulo
<1>. QED  BY <1>7, <1>9, <1>12 DEF Modulo, m, e

\* decryptCRT: the message modulo each of the primes, put together.
LEMMA decryptCRTReturns ==
    ASSUME NEW key, SoundPrivateKey(key), key.m_isInitialized,
           NEW a \in 0 .. key.m_n - 1, NEW c, Encrypts(key.m_n, a, c)
    PROVE  decryptCRT(key, c) = a
<1>. DEFINE n == key.m_n
            p == key.m_p
            q == key.m_q
            i == key.m_pinverse
            hp == key.m_hp
            hq == key.m_hq
            R == decryptCRT(key, c)
<1>1. /\ key \in PrivateRecords /\ n = p * q /\ GoodPrimes(p, q) /\ GoodPrimes(q, p)
      /\ Same(q, p * i, 1) /\ Same(p, (q * (p - 1)) * hp, 1) /\ Same(q, (p * (q - 1)) * hq, 1)
  BY GoodPrimesFacts DEF SoundPrivateKey, GoodNumbers
<1>2. i \in Int /\ hp \in Int /\ hq \in Int
  BY <1>1 DEF PrivateRecords
<1>3. Unit(q, p) /\ n \in Nat \ {0, 1} /\ p \in Nat \ {0, 1} /\ q \in Nat \ {0, 1}
  BY <1>1, GoodPrimesFacts DEF GoodPrimes, IsPrime
<1>4. p \in Nat \ {0} /\ q \in Nat \ {0} /\ p \in Int /\ q \in Int /\ a \in Nat /\ a \in Int
      /\ n = q * p /\ a \in Residues(n) /\ n \in Nat \ {0}
  BY <1>1, <1>3 DEF Residues
<1>5. c \in Int
  <2>1. PICK r \in Coprime(n) : c = Encryption(n, a, r)
    BY DEF Encrypts
  <2>2. r \in Int
    BY <1>3, CoprimeFacts
  <2>. QED  BY <1>4, <2>1, <2>2, EncryptionFactors
<1>6. R \in Residues(n)
  BY <1>5, DecryptionIsNumber DEF Residues
<1>. DEFINE mp == a % p
            mq == a % q
            d == (mq - mp) * i
            e == d % q
<1>7. R = mp + (e * p)
  <2>0. Encrypts(n, a, c)
    OBVIOUS
  <2>. HIDE DEF n, p, q, i, hp, hq
  <2>1. Modulo(p, computeLfun(modExp(Modulo(p * p, c), p - 1, p * p), p) * hp) = a % p
    <3>1. /\ GoodPrimes(p, q) /\ n = p * q /\ hp \in Int /\ Same(p, (q * (p - 1)) * hp, 1)
          /\ a \in Nat /\ Encrypts(n, a, c)
      BY <1>1, <1>2, <1>4, <2>0
    <3>. QED  BY <3>1, HalfDecryption
  <2>2. Modulo(q, computeLfun(modExp(Modulo(q * q, c), q - 1, q * q), q) * hq) = a % q
    <3>1. /\ GoodPrimes(q, p) /\ n = q * p /\ hq \in Int /\ Same(q, (p * (q - 1)) * hq, 1)
          /\ a \in Nat /\ Encrypts(n, a, c)
      BY <1>1, <1>2, <1>4, <2>0
    <3>. QED  BY <3>1, HalfDecryption
  <2>. QED  BY <2>1, <2>2 DEF decryptCRT, computeCRT, Modulo, n, p, q, i, hp, hq
<1>. HIDE DEF n, p, q, i, hp, hq, R
<1>8. mp \in Int /\ mq \in Int /\ Same(p, mp, a) /\ Same(q, mq, a)
  BY <1>4, ResidueFacts, SameResidue
<1>. HIDE DEF mp, mq
<1>9. d \in Int /\ mq - mp \in Int /\ p * i \in Int
  BY <1>2, <1>4, <1>8
<1>10. d * p = (mq - mp) * (p * i)
  BY <1>2, <1>4, <1>8
<1>. HIDE DEF d
<1>11. e \in Int /\ Same(q, e, d)
  BY <1>4, <1>9, ResidueFacts, SameResidue
<1>. HIDE DEF e
<1>12. Same(p, R, a) /\ R \in Int
  <2>1. R = mp + (p * e) /\ R \in Int
    BY <1>4, <1>7, <1>8, <1>11
  <2>2. Same(p, R, mp)
    BY <1>4, <1>8, <1>11, <2>1, SameByMultiple
  <2>. QED  BY <1>8, <2>1, <2>2, SameFacts
<1>13. Same(q, R, a)
  <2>. DEFINE f == mq - mp
              ep == e * p
              dp == d * p
  <2>1. Same(q, ep, dp) /\ ep \in Int /\ dp \in Int
    <3>1. Same(q, e * p, d * p)
      BY <1>4, <1>9, <1>11, SameTimes
    <3>. QED  BY <1>4, <1>9, <1>11, <3>1
  <2>2. Same(q, dp, f)
    <3>1. f \in Int /\ 1 \in Int /\ f * 1 = f
      BY <1>9
    <3>2. Same(q, f * (p * i), f * 1)
      BY <1>1, <1>4, <1>9, <3>1, SameTimes
    <3>. QED  BY <1>10, <3>1, <3>2
  <2>3. Same(q, ep, f) /\ f \in Int /\ mp + f = mq
    BY <1>8, <2>1, <2>2, SameFacts
  <2>. HIDE DEF ep, f, dp
  <2>4. Same(q, mp + ep, mp + f)
    <3>1. Same(q, mp, mp)
      BY SameFacts
    <3>. QED  BY <1>4, <1>8, <2>1, <2>3, <3>1, SameResults
  <2>5. R = mp + ep
    BY <1>7 DEF ep
  <2>. QED  BY <1>8, <2>3, <2>4, <2>5, SameFacts
<1>14. Same(n, R, a)
  BY <1>1, <1>3, <1>4, <1>12, <1>13, SameUnderProduct
<1>. QED  BY <1>4, <1>6, <1>14, SameResidues DEF R

\* decryptRAW: the exponent is a multiple of what either prime needs.
LEMMA decryptRAWReturns ==
    ASSUME NEW key, SoundPrivateKey(key), key.m_isInitialized,
           NEW a \in 0 .. key.m_n - 1, NEW c, Encrypts(key.m_n, a, c)
    PROVE  decryptRAW(key, c) = a
<1>. DEFINE n == key.m_n
            p == key.m_p
            q == key.m_q
            e == key.m_lambda
            x == key.m_x
            R == decryptRAW(key, c)
            m == n * n
            pp == p * p
            qq == q * q
<1>1. /\ key \in PrivateRecords /\ n = p * q /\ GoodPrimes(p, q)
      /\ e = lcm(p - 1, q - 1) /\ Same(n, e * x, 1)
  BY DEF SoundPrivateKey, GoodNumbers
<1>2. x \in Int /\ e \in Nat
  BY <1>1 DEF PrivateRecords
<1>3. /\ Unit(q, p) /\ n \in Nat \ {0, 1} /\ p \in Nat \ {0, 1} /\ q \in Nat \ {0, 1}
      /\ IsPrime(p) /\ IsPrime(q)
  BY <1>1, GoodPrimesFacts DEF GoodPrimes, IsPrime
<1>4. /\ p \in Nat \ {0} /\ q \in Nat \ {0} /\ p \in Int /\ q \in Int /\ p \in Nat /\ q \in Nat
      /\ a \in Nat /\ a \in Int /\ n = q * p /\ a \in Residues(n) /\ n \in Nat \ {0} /\ n \in Int
  BY <1>1, <1>3 DEF Residues
<1>5. PICK r \in Coprime(n) : c = Encryption(n, a, r)
  BY DEF Encrypts
<1>6. r \in Int /\ Unit(n, r)
  BY <1>3, CoprimeFacts
<1>7. c \in Int
  BY <1>4, <1>5, <1>6, EncryptionFactors
<1>8. R \in Residues(n)
  BY <1>7, DecryptionIsNumber DEF Residues
<1>. HIDE DEF n, p, q, x, R
<1>9. PICK s, t \in Nat : e = (p - 1) * s /\ e = (q - 1) * t
  BY <1>1, LambdaFacts
<1>. HIDE DEF e
<1>10. ASSUME NEW f \in Nat \ {0}, NEW g \in Int, n = f * g PROVE Unit(f, r)
  <2>1. PICK u \in Int : Same(n, r * u, 1)
    BY <1>6 DEF Unit
  <2>2. r * u \in Int /\ 1 \in Int
    BY <1>6
  <2>3. Same(f, r * u, 1)
    BY <1>4, <1>10, <2>1, <2>2, SameUnderFactor
  <2>. QED  BY <2>3 DEF Unit
<1>11. Unit(p, r) /\ Unit(q, r)
  BY <1>1, <1>4, <1>10
<1>. DEFINE ne == n * e
            y == modExp(r, ne, m)
<1>12. /\ pp \in Nat \ {0} /\ qq \in Nat \ {0} /\ m \in Nat \ {0} /\ ne \in Nat
       /\ m = pp * qq /\ m = qq * pp /\ 1 \in Int
       /\ pp \in Int /\ qq \in Int
  <2>1. pp \in Nat \ {0} /\ qq \in Nat \ {0} /\ ne \in Nat
    BY <1>2, <1>4
  <2>2. (p * q) * (p * q) = (p * p) * (q * q)
    BY <1>4
  <2>3. (p * p) * (q * q) = (q * q) * (p * p)
    BY <1>4
  <2>4. m = pp * qq /\ m = qq * pp
    BY <1>1, <2>2, <2>3
  <2>5. m \in Nat \ {0}
    BY <1>4, SquareFacts
  <2>. QED  BY <2>1, <2>4, <2>5
<1>13. Same(pp, modExp(r, ne, pp), 1)
  BY <1>1, <1>3, <1>4, <1>6, <1>9, <1>11, RandomFactorVanishes
<1>14. Same(qq, modExp(r, ne, qq), 1)
  BY <1>3, <1>4, <1>6, <1>9, <1>11, RandomFactorVanishes
<1>15. Unit(qq, pp)
  BY <1>3, <1>4, UnitOfSquare
<1>. HIDE DEF m, pp, qq, ne
<1>16. Same(m, y, 1)
  <2>1. y \in Int
    BY <1>6, <1>12, ExpFacts
  <2>2. Same(pp, y, modExp(r, ne, pp)) /\ Same(qq, y, modExp(r, ne, qq))
    BY <1>6, <1>12, ExpUnderFactor
  <2>3. Same(pp, y, 1) /\ Same(qq, y, 1)
    BY <1>13, <1>14, <2>2, SameFacts
  <2>. HIDE DEF y
  <2>4. Same(pp * qq, y, 1)
    BY <1>12, <1>15, <2>1, <2>3, SameUnderProduct
  <2>. QED  BY <1>12, <2>4
<1>17. modExp(c, e, m) = modExp(n + 1, a * e, m)
  <2>1. m * 1 = m
    BY <1>12
  <2>2. n * n = m * 1
    BY <2>1 DEF m
  <2>3. Divides(m, n * n)
    BY <2>2 DEF Divides
  <2>4. Same(m, modExp(r, n * e, m), 1)
    BY <1>16 DEF ne
  <2>5. modExp(Encryption(n, a, r), e, m) = modExp(n + 1, a * e, m)
    BY <1>2, <1>4, <1>6, <1>12, <2>3, <2>4, EncryptionPower
  <2>. QED  BY <1>5, <2>5
<1>. DEFINE ae == a * e
            l == computeLfun(modExp(n + 1, ae, m), n)
<1>18. ae \in Nat /\ n + 1 \in Int /\ n + 1 = (1 * n) + 1 /\ 1 * ae = ae /\ e \in Int
  BY <1>2, <1>4
<1>19. l = ae % n
  <2>. HIDE DEF ae
  <2>1. Same(n * n, n + 1, (1 * n) + 1)
    BY <1>18, SameFacts
  <2>2. l = (1 * ae) % n
    BY <1>3, <1>12, <1>18, <2>1, LfunFacts DEF m
  <2>. QED  BY <1>18, <2>2
<1>20. R = (l * x) % n
  BY <1>17 DEF R, decryptRAW, Modulo, n, e, x, m
<1>. HIDE DEF l
<1>21. (l * x) % n = (ae * x) % n
  <2>. HIDE DEF ae
  <2>. QED  BY <1>2, <1>4, <1>18, <1>19, ResidueOfProduct
<1>22. Same(n, ae * x, a)
  <2>1. ae * x = a * (e * x) /\ e * x \in Int /\ a * 1 = a
    BY <1>2, <1>4, <1>18
  <2>2. Same(n, a * (e * x), a * 1)
    BY <1>1, <1>4, <1>12, <2>1, SameTimes
  <2>. QED  BY <2>1, <2>2
<1>23. Same(n, R, a)
  <2>1. ae * x \in Int
    BY <1>2, <1>18
  <2>2. Same(n, (ae * x) % n, ae * x)
    <3>. HIDE DEF ae
    <3>. QED  BY <1>4, <2>1, SameResidue
  <2>. QED  BY <1>20, <1>21, <1>22, <2>2, SameFacts
<1>. QED  BY <1>4, <1>8, <1>23, SameResidues DEF R

\* The two decryptions of a private key return the message of every encryption
\* (pri_key.cpp:97-150): the CRT one from the message modulo each prime, the raw one with
\* lambda and x.  That the random number of the encryption has no influence is Fermat's
\* little theorem.
THEOREM DecryptionsReturnMessage ==
    ASSUME NEW key, SoundPrivateKey(key), key.m_isInitialized,
           NEW a \in 0 .. key.m_n - 1, NEW c, Encrypts(key.m_n, a, c)
    PROVE  decryptRAW(key, c) = a /\ decryptCRT(key, c) = a /\ decryption(key, c) = a
BY decryptRAWReturns, decryptCRTReturns DEF decryption

-----------------------------------------------------------------------------
(* The message of a ciphertext.                                            *)

\* A number encrypts one message at most, so what decrypt returns (pri_key.cpp:65-90) is the only
\* right answer.
THEOREM OneMessage ==
    ASSUME NEW p, NEW q, GoodPrimes(p, q), NEW n, n = p * q,
           NEW a \in 0 .. n - 1, NEW b \in 0 .. n - 1, NEW c, Encrypts(n, a, c), Encrypts(n, b, c)
    PROVE  a = b
<1>. DEFINE key == NewPrivateKey(p, q)
<1>1. SoundPrivateKey(key)
  BY NewPrivateKeySound
<1>2. key.m_n = n /\ key.m_isInitialized
  BY DEF NewPrivateKey
<1>. HIDE DEF key
<1>3. decryptRAW(key, c) = a /\ decryptRAW(key, c) = b
  BY <1>1, <1>2, decryptRAWReturns
<1>. QED  BY <1>3

\* 1 - n * m is the inverse of (1 + n)^m, so the product with it leaves the random factor.
LEMMA MessageCriterion ==
    ASSUME NEW n \in Nat \ {0, 1}, NEW m \in 0 .. n - 1, NEW c \in Residues(n * n)
    PROVE  Modulo(n * n, c * (n * n + 1 - n * m)) \in UnitPowers(n) <=> Encrypts(n, m, c)
<1>. DEFINE k == n * n
            nm == n * m
            w == k + 1 - nm
            v == nm + 1
            x == modExp(n + 1, m, k)
            P(r) == modExp(r, n, k)
            z == (c * w) % k
<1>1. /\ k \in Nat \ {0} /\ nm \in Int /\ w \in Int /\ v \in Int /\ 1 \in Int /\ m \in Nat
      /\ n \in Nat \ {0} /\ n + 1 \in Int /\ n \in Int /\ n \in Nat /\ 0 \in Int
  <2>1. n \in Nat \ {0} /\ m \in Nat /\ nm \in Int
    OBVIOUS
  <2>2. k \in Nat \ {0}
    BY SquareFacts
  <2>. HIDE DEF k, nm
  <2>. QED  BY <2>1, <2>2
<1>2. Same(k, v * w, 1)
  <2>1. nm * nm = k * (m * m) /\ m * m \in Int
    OBVIOUS
  <2>. DEFINE u == nm + 1 - (m * m)
  <2>2. u \in Int /\ v * w \in Int
    BY <1>1, <2>1
  <2>3. v * w = 1 + (k * u)
    <3>. HIDE DEF k, nm
    <3>1. v * w = ((nm + 1) * k) + ((nm + 1) * (1 - nm))
      BY <1>1
    <3>2. (nm + 1) * (1 - nm) = 1 - (nm * nm)
      BY <1>1
    <3>3. k * u = ((nm + 1) * k) - (k * (m * m))
      BY <1>1, <2>1
    <3>4. (nm + 1) * k \in Int /\ k * (m * m) \in Int /\ nm * nm \in Int /\ k * u \in Int
      BY <1>1, <2>1, <2>2
    <3>. QED  BY <2>1, <3>1, <3>2, <3>3, <3>4
  <2>. HIDE DEF k, nm, w, v, u
  <2>. QED  BY <1>1, <2>2, <2>3, SameByMultiple
<1>3. Same(k, x, v) /\ x \in Int
  <2>1. Same(k, n * n, 0)
    <3>1. n * n = 0 + (k * 1) /\ n * n \in Int
      BY <1>1
    <3>. HIDE DEF k
    <3>. QED  BY <1>1, <3>1, SameByMultiple
  <2>. HIDE DEF k
  <2>2. Same(k, modExp(n + 1, m, k), (n * m) + 1)
    BY <1>1, <2>1, ExpNearOne
  <2>. QED  BY <1>1, <2>2, ExpFacts
<1>4. ASSUME NEW r \in Coprime(n) PROVE r \in Int /\ P(r) \in Int /\ P(r) \in Residues(k)
  <2>1. r \in Int
    BY CoprimeFacts
  <2>. HIDE DEF k
  <2>. QED  BY <1>1, <2>1, ExpFacts
<1>5. UnitPowers(n) = {P(r) : r \in Coprime(n)}
  BY DEF UnitPowers
<1>6. ASSUME NEW r \in Coprime(n)
      PROVE  /\ Encryption(n, m, r) \in Residues(k)
             /\ Same(k, Encryption(n, m, r), x * P(r))
  BY <1>1, <1>4, EncryptionFactors
<1>7. c \in Int /\ c \in Residues(k)
  BY <1>1 DEF Residues
<1>. HIDE DEF k, nm, w, v, x, P
<1>8. c * w \in Int
  BY <1>1, <1>7
<1>9. Same(k, z, c * w) /\ z \in Residues(k) /\ z \in Int
  <2>. DEFINE cw == c * w
  <2>1. cw \in Int
    BY <1>8
  <2>. HIDE DEF cw
  <2>2. Same(k, cw % k, cw) /\ cw % k \in Residues(k) /\ cw % k \in Int
    BY <1>1, <2>1, ResidueFacts, SameResidue
  <2>. QED  BY <2>2 DEF cw
<1>. HIDE DEF z
<1>10. ASSUME NEW r \in Coprime(n), z = P(r) PROVE c = Encryption(n, m, r)
  <2>1. P(r) \in Int /\ Encryption(n, m, r) \in Residues(k) /\ Same(k, Encryption(n, m, r), x * P(r))
    BY <1>4, <1>6
  <2>2. Same(k, x * P(r), v * P(r))
    BY <1>1, <1>3, <2>1, SameTimes
  <2>3. Same(k, v * P(r), v * (c * w))
    BY <1>1, <1>8, <1>9, <1>10, <2>1, SameTimes
  <2>4. v * (c * w) = c * (v * w) /\ c * 1 = c /\ v * w \in Int
    BY <1>1, <1>7
  <2>5. Same(k, c * (v * w), c * 1)
    BY <1>1, <1>2, <1>7, <2>4, SameTimes
  <2>6. Same(k, Encryption(n, m, r), c)
    BY <2>1, <2>2, <2>3, <2>4, <2>5, SameFacts
  <2>. QED  BY <1>1, <1>7, <2>1, <2>6, SameResidues
<1>11. ASSUME NEW r \in Coprime(n), c = Encryption(n, m, r) PROVE z = P(r)
  <2>1. P(r) \in Int /\ P(r) \in Residues(k) /\ Same(k, c, x * P(r))
    BY <1>4, <1>6, <1>11
  <2>2. Same(k, x * P(r), v * P(r)) /\ v * P(r) \in Int
    <3>1. v * P(r) \in Int
      BY <1>1, <2>1
    <3>. QED  BY <1>1, <1>3, <2>1, <3>1, SameTimes
  <2>3. Same(k, c, v * P(r))
    BY <2>1, <2>2, SameFacts
  <2>4. Same(k, c * w, (v * P(r)) * w)
    BY <1>1, <1>7, <2>2, <2>3, SameTimes
  <2>5. (v * P(r)) * w = P(r) * (v * w) /\ P(r) * 1 = P(r) /\ v * w \in Int
    BY <1>1, <2>1
  <2>6. Same(k, P(r) * (v * w), P(r) * 1)
    BY <1>1, <1>2, <2>1, <2>5, SameTimes
  <2>7. Same(k, z, P(r))
    BY <1>9, <2>4, <2>5, <2>6, SameFacts
  <2>. QED  BY <1>1, <1>9, <2>1, <2>7, SameResidues
<1>12. z \in UnitPowers(n) <=> Encrypts(n, m, c)
  BY <1>5, <1>10, <1>11 DEF Encrypts
<1>. QED  BY <1>12 DEF z, w, nm, k, Modulo

-----------------------------------------------------------------------------
(* The public key and its obfuscators.                                     *)

PublicRecords ==
    [m_isInitialized : BOOLEAN, m_n : Nat, m_bits : Nat, m_enable_DJN : BOOLEAN,
     m_hs : Nat, m_randbits : Nat, m_r : Seq(Nat), m_testv : BOOLEAN]

\* A key that makes obfuscators of its kind: with DJN it has an n-th power of a unit
\* as its base, and a test vector holds units.
SoundKey(key) ==
    /\ key \in PublicRecords
    /\ key.m_isInitialized =>
          /\ GoodModulus(key.m_n) /\ key.m_bits >= 2
          /\ key.m_enable_DJN => key.m_hs \in UnitPowers(key.m_n) /\ key.m_randbits > 0
          /\ key.m_testv => key.m_r \in Seq(Coprime(key.m_n))

LEMMA NoKeySound == SoundKey(NoPublicKey) /\ ~NoPublicKey.m_isInitialized
<1>1. NoPublicKey \in PublicRecords
  <2>1. <<>> \in Seq(Nat)
    OBVIOUS
  <2>. QED  BY <2>1 DEF NoPublicKey, PublicRecords
<1>. QED  BY <1>1 DEF SoundKey, NoPublicKey

LEMMA CreatedSound ==
    ASSUME NEW key, SoundKey(key), NEW n, GoodModulus(n), NEW bits \in Nat, bits >= 2
    PROVE  /\ SoundKey(Created(key, n, bits)) /\ Created(key, n, bits).m_isInitialized
           /\ Created(key, n, bits).m_n = n
<1>. DEFINE new == Created(key, n, bits)
<1>1. key \in PublicRecords /\ n \in Nat
  BY DEF SoundKey, GoodModulus
<1>2. new = [key EXCEPT !.m_isInitialized = TRUE, !.m_n = n, !.m_bits = bits,
                        !.m_enable_DJN = FALSE, !.m_hs = 0, !.m_randbits = 0, !.m_testv = FALSE]
  BY DEF Created
<1>. HIDE DEF new
<1>3. /\ new \in PublicRecords
      /\ new.m_isInitialized = TRUE /\ new.m_n = n /\ new.m_bits = bits
      /\ new.m_enable_DJN = FALSE /\ new.m_testv = FALSE
  BY <1>1, <1>2 DEF PublicRecords
<1>. QED  BY <1>3 DEF SoundKey, new

LEMMA UnitPowerFacts ==
    ASSUME NEW n \in Nat \ {0, 1}, NEW u \in Int, Unit(n, u)
    PROVE  modExp(u, n, n * n) \in UnitPowers(n) /\ modExp(u, n, n * n) \in Nat
<1>1. PICK r \in Coprime(n) : modExp(u, n, n * n) = modExp(r, n, n * n)
  BY PowerOfUnit
<1>2. n * n \in Nat \ {0} /\ n \in Nat
  BY SquareFacts
<1>3. modExp(u, n, n * n) \in Residues(n * n)
  <2>. DEFINE m == n * n
  <2>1. m \in Nat \ {0}
    BY <1>2
  <2>. HIDE DEF m
  <2>2. modExp(u, n, m) \in Residues(m)
    BY <1>2, <2>1, ExpFacts
  <2>. QED  BY <2>2 DEF m
<1>4. modExp(u, n, n * n) \in Nat
  BY <1>3 DEF Residues
<1>. QED  BY <1>1, <1>4 DEF UnitPowers

LEMMA DJNBaseFacts ==
    ASSUME NEW n, GoodModulus(n), NEW rand \in DJNBases(n)
    PROVE  /\ rand \in Nat /\ rand \in Int /\ Unit(n, rand)
           /\ MinusOne(n) \in Nat /\ MinusOne(n) \in Int /\ Unit(n, MinusOne(n))
<1>1. n \in Nat \ {0, 1}
  BY DEF GoodModulus
<1>2. rand \in Nat /\ rand \in Int /\ gcd(rand, n) = 1
  BY PaillierKeysAssumption DEF DJNBases
<1>3. MinusOne(n) \in Nat
  <2>. DEFINE x == Modulo(n, 2^16)
              y == (x * x) - 1
  <2>1. 2^16 \in Int
    OBVIOUS
  <2>2. x \in Int
    BY <1>1, <2>1, ResidueFacts DEF Modulo
  <2>. HIDE DEF x
  <2>3. y \in Int
    BY <2>2
  <2>4. MinusOne(n) = y % n
    BY DEF MinusOne, Modulo, x, y
  <2>. HIDE DEF y
  <2>5. y % n \in 0 .. n - 1
    BY <1>1, <2>3, Remainder
  <2>. QED  BY <2>4, <2>5
<1>4. Unit(n, rand) /\ Unit(n, MinusOne(n))
  BY <1>1, <1>2, <1>3, UnitsAreCoprime DEF GoodModulus
<1>. QED  BY <1>2, <1>3, <1>4

\* enableDJN (pub_key.cpp): minus the square of a unit is a unit.
LEMMA EnabledSound ==
    ASSUME NEW key, SoundKey(key), key.m_isInitialized, NEW rand \in DJNBases(key.m_n)
    PROVE  /\ SoundKey(EnabledDJN(key, rand)) /\ EnabledDJN(key, rand).m_isInitialized
           /\ EnabledDJN(key, rand).m_n = key.m_n
<1>. DEFINE n == key.m_n
            s == (rand * rand) % n
            t == s * MinusOne(n)
            h == t % n
            hs == modExp(h, n, n * n)
            new == EnabledDJN(key, rand)
<1>1. /\ key \in PublicRecords /\ n \in Nat \ {0, 1} /\ GoodModulus(n) /\ key.m_bits >= 2
      /\ key.m_testv => key.m_r \in Seq(Coprime(n))
  BY DEF SoundKey, GoodModulus
<1>2. /\ rand \in Int /\ Unit(n, rand) /\ MinusOne(n) \in Int /\ Unit(n, MinusOne(n))
  BY <1>1, DJNBaseFacts
<1>. HIDE DEF n
<1>3. rand * rand \in Int /\ Unit(n, rand * rand)
  BY <1>1, <1>2, UnitFacts
<1>4. s \in Int /\ Unit(n, s)
  BY <1>1, <1>3, ResidueFacts, SameResidue, UnitFacts
<1>. HIDE DEF s
<1>5. t \in Int /\ Unit(n, t)
  <2>1. Unit(n, s * MinusOne(n))
    BY <1>1, <1>2, <1>4, UnitFacts
  <2>. QED  BY <1>2, <1>4, <2>1
<1>. HIDE DEF t
<1>6. h \in Int /\ Unit(n, h)
  BY <1>1, <1>5, ResidueFacts, SameResidue, UnitFacts
<1>. HIDE DEF h
<1>7. hs \in UnitPowers(n) /\ hs \in Nat
  BY <1>1, <1>6, UnitPowerFacts
<1>8. new = [key EXCEPT !.m_hs = hs, !.m_randbits = key.m_bits \div 2, !.m_enable_DJN = TRUE]
  BY DEF EnabledDJN, nsquare, ModMul, Modulo, n, s, t, h, hs
<1>. HIDE DEF hs, new
<1>9. key.m_bits \div 2 \in Nat /\ key.m_bits \div 2 > 0
  <2>1. key.m_bits \in Nat
    BY <1>1 DEF PublicRecords
  <2>. QED  BY <1>1, <2>1
<1>10. new \in PublicRecords
  BY <1>1, <1>7, <1>8, <1>9 DEF PublicRecords
<1>11. /\ new.m_isInitialized = key.m_isInitialized /\ new.m_n = n /\ new.m_bits = key.m_bits
       /\ new.m_hs = hs /\ new.m_randbits = key.m_bits \div 2
       /\ new.m_testv = key.m_testv /\ new.m_r = key.m_r
  BY <1>1, <1>8 DEF PublicRecords, n
<1>12. SoundKey(new)
  BY <1>1, <1>7, <1>9, <1>10, <1>11 DEF SoundKey
<1>. QED  BY <1>11, <1>12 DEF new, n

LEMMA NewKeysSound ==
    ASSUME NEW key, SoundKey(key), NEW n, GoodModulus(n), NEW bits \in Nat, bits >= 2,
           NEW djn, NEW new \in NewPublicKeys(key, n, bits, djn)
    PROVE  SoundKey(new) /\ new.m_isInitialized /\ new.m_n = n
<1>. DEFINE created == Created(key, n, bits)
<1>1. SoundKey(created) /\ created.m_isInitialized /\ created.m_n = n
  BY CreatedSound
<1>. HIDE DEF created
<1>2. CASE new = created
  BY <1>1, <1>2
<1>3. ASSUME NEW rand \in DJNBases(n), new = EnabledDJN(created, rand)
      PROVE  SoundKey(new) /\ new.m_isInitialized /\ new.m_n = n
  BY <1>1, <1>3, EnabledSound
<1>. QED  BY <1>2, <1>3 DEF NewPublicKeys, created

LEMMA LoadedSound ==
    ASSUME NEW key, SoundKey(key), NEW from, SoundKey(from), from.m_isInitialized
    PROVE  /\ SoundKey(Loaded(key, from)) /\ Loaded(key, from).m_isInitialized
           /\ Loaded(key, from).m_n = from.m_n
<1>. DEFINE created == Created(key, from.m_n, from.m_bits)
            new == Loaded(key, from)
<1>1. /\ from \in PublicRecords /\ GoodModulus(from.m_n) /\ from.m_bits >= 2 /\ from.m_bits \in Nat
      /\ from.m_enable_DJN => from.m_hs \in UnitPowers(from.m_n) /\ from.m_randbits > 0
  BY DEF SoundKey, PublicRecords
<1>2. SoundKey(created) /\ created.m_isInitialized /\ created.m_n = from.m_n
  BY <1>1, CreatedSound
<1>3. created.m_testv = FALSE /\ created.m_bits = from.m_bits
  BY DEF Created, SoundKey, PublicRecords
<1>4. new = IF from.m_enable_DJN
            THEN [created EXCEPT !.m_enable_DJN = TRUE, !.m_hs = from.m_hs,
                                 !.m_randbits = from.m_randbits]
            ELSE created
  BY DEF Loaded
<1>. HIDE DEF created, new
<1>5. CASE from.m_enable_DJN
  <2>1. created \in PublicRecords /\ from.m_hs \in Nat /\ from.m_randbits \in Nat
    BY <1>1, <1>2 DEF SoundKey, PublicRecords
  <2>2. /\ new \in PublicRecords
        /\ new.m_isInitialized = created.m_isInitialized /\ new.m_n = from.m_n
        /\ new.m_bits = from.m_bits /\ new.m_hs = from.m_hs
        /\ new.m_randbits = from.m_randbits /\ new.m_testv = FALSE
    BY <1>2, <1>3, <1>4, <1>5, <2>1 DEF PublicRecords
  <2>3. SoundKey(new)
    BY <1>1, <1>5, <2>2 DEF SoundKey
  <2>. QED  BY <1>2, <2>2, <2>3 DEF new
<1>6. CASE ~from.m_enable_DJN
  BY <1>2, <1>4, <1>6 DEF new
<1>. QED  BY <1>5, <1>6

LEMMA NormalRandomFacts ==
    ASSUME NEW n \in Nat \ {0, 1}
    PROVE  NormalRandoms(n) \subseteq Coprime(n)
<1>. SUFFICES ASSUME NEW x \in Randoms, gcd(Modulo(n - 1, x) + 1, n) = 1
              PROVE  Modulo(n - 1, x) + 1 \in Coprime(n)
  BY DEF NormalRandoms
<1>1. x \in Int /\ n - 1 \in Nat \ {0}
  BY PaillierKeysAssumption
<1>2. x % (n - 1) \in Residues(n - 1)
  BY <1>1, ResidueFacts
<1>. DEFINE y == x % (n - 1)
<1>3. y + 1 \in 1 .. n - 1
  <2>. HIDE DEF y
  <2>1. y \in Residues(n - 1)
    BY <1>2 DEF y
  <2>. QED  BY <2>1 DEF Residues
<1>. QED  BY <1>3 DEF Coprime, Modulo

\* Every obfuscator is an n-th power of a unit.
LEMMA ObfuscatorFacts ==
    ASSUME NEW key, SoundKey(key), key.m_isInitialized, NEW sz \in Nat,
           key.m_testv => Len(key.m_r) = sz, NEW o \in Obfuscators(key, sz), NEW i \in 1 .. sz
    PROVE  o[i] \in UnitPowers(key.m_n)
<1>. DEFINE n == key.m_n
<1>1. /\ key \in PublicRecords /\ n \in Nat \ {0, 1}
      /\ key.m_enable_DJN => key.m_hs \in UnitPowers(n)
      /\ key.m_testv => key.m_r \in Seq(Coprime(n))
  BY DEF SoundKey, GoodModulus
<1>. HIDE DEF n
<1>2. key.m_testv => key.m_r[i] \in Coprime(n)
  BY <1>1, LenProperties, ElementOfSeq
<1>3. CASE key.m_enable_DJN
  <2>1. PICK r : /\ o = [j \in 1 .. sz |-> modExp(key.m_hs, r[j], nsquare(key))]
                 /\ \/ key.m_testv /\ r = key.m_r
                    \/ r \in [1 .. sz -> {x \in Randoms : x < 2^key.m_randbits}]
    BY <1>3 DEF Obfuscators, DJNObfuscators
  <2>. DEFINE e == r[i]
  <2>2. e \in Nat
    BY <1>1, <1>2, <2>1, CoprimeFacts, PaillierKeysAssumption
  <2>3. PICK u \in Coprime(n) : key.m_hs = modExp(u, n, n * n)
    BY <1>1, <1>3 DEF UnitPowers
  <2>4. u \in Int /\ Unit(n, u)
    BY <1>1, CoprimeFacts
  <2>5. o[i] = modExp(modExp(u, n, n * n), e, n * n)
    BY <2>1, <2>3 DEF nsquare, n
  <2>. HIDE DEF e
  <2>. DEFINE m == n * n
              h == n * e
              g == modExp(u, e, m)
  <2>6. m \in Nat \ {0} /\ n \in Nat /\ h \in Nat /\ h = n * e /\ h = e * n /\ m = n * n /\ n \in Int
    BY <1>1, <2>2
  <2>. HIDE DEF m, h
  <2>7. PowerOfPower(m, u, n, e, h) /\ PowerOfPower(m, u, e, n, h)
    BY <2>2, <2>4, <2>6, ExpOfExp
  <2>8. modExp(modExp(u, n, m), e, m) = modExp(g, n, m)
    BY <2>6, <2>7 DEF PowerOfPower
  <2>9. g \in Int /\ Unit(n, g)
    BY <1>1, <2>2, <2>4, <2>6, ExpFacts, UnitOfPower
  <2>10. modExp(g, n, m) \in UnitPowers(n)
    <3>. HIDE DEF g
    <3>. QED  BY <1>1, <2>9, UnitPowerFacts DEF m
  <2>. QED  BY <2>5, <2>8, <2>10 DEF m, n
<1>4. CASE ~key.m_enable_DJN
  <2>1. PICK r : /\ o = [j \in 1 .. sz |-> modExp(r[j], key.m_n, nsquare(key))]
                 /\ \/ key.m_testv /\ r = key.m_r
                    \/ r \in [1 .. sz -> NormalRandoms(key.m_n)]
    BY <1>4 DEF Obfuscators, NormalObfuscators
  <2>2. o[i] = modExp(r[i], n, n * n)
    BY <2>1 DEF nsquare, n
  <2>3. NormalRandoms(n) \subseteq Coprime(n)
    BY <1>1, NormalRandomFacts
  <2>4. r[i] \in Coprime(n)
    BY <1>2, <2>1, <2>3 DEF n
  <2>. QED  BY <2>2, <2>4 DEF UnitPowers, n
<1>. QED  BY <1>3, <1>4
====
