----------------------------- MODULE PaillierKeys -----------------------------
(***************************************************************************)
(* Key generation, the public and the private key of the cryptosystem      *)
(* (ipcl/keygen.cpp, pub_key.cpp, pri_key.cpp) as operators: the values    *)
(* that key objects may take and what they compute for one element.  A     *)
(* random choice is a set of results.                                      *)
(***************************************************************************)
EXTENDS BigNumber, Sequences

CONSTANTS
    KeyBits,        \* the key size the user generates
    RefDistance,    \* what getPrimeDistance returns for KeyBits
    Randoms         \* what getRandomBN may return

ASSUME PaillierKeysAssumption ==
    /\ KeyBits \in Nat \ {0, 1}
    /\ RefDistance \in Nat
    /\ Randoms \subseteq Nat

-----------------------------------------------------------------------------
(* Key generation.                                                         *)

\* What ippsPrimeGen_BN finds; it may err with a negligible probability.
IsPrime(p) == p \in Nat \ {0, 1} /\ \A d \in 2 .. p - 1 : p % d # 0

\* getPrimeBN: a prime of exactly so many bits.
PrimesOf(bits) == {p \in 2^(bits - 1) .. 2^bits - 1 : IsPrime(p)}

isClosePrime(p, q) == ~(IF p >= q THEN p - q > RefDistance ELSE q - p > RefDistance)

\* The conditions under which the loops of getNormalBN and getDJNBN end.  The
\* second inner loop of getDJNBN looks at p again, not at q.
GetsNormal(p, q) == p # q /\ BitSize(p * q) = KeyBits /\ ~isClosePrime(p, q)
GetsDJN(p, q) ==
    /\ TestBit(p, 1)
    /\ q # p /\ TestBit(p, 1)
    /\ compare(gcd(p - 1, q - 1), 2) = 0
    /\ BitSize(p * q) = KeyBits /\ ~isClosePrime(p, q)

\* What the arithmetic of the keys asks of two primes.
GoodPrimes(p, q) ==
    /\ IsPrime(p) /\ IsPrime(q)
    /\ gcd(p, q) = 1 /\ gcd((p - 1) * (q - 1), p * q) = 1

-----------------------------------------------------------------------------
(* The public key.                                                         *)

NoPublicKey ==
    [m_isInitialized |-> FALSE, m_n |-> 0, m_bits |-> 0, m_enable_DJN |-> FALSE,
     m_hs |-> 0, m_randbits |-> 0, m_r |-> <<>>, m_testv |-> FALSE]

nsquare(key) == key.m_n * key.m_n

\* create: m_r is left as it is.
Created(key, n, bits) ==
    [key EXCEPT !.m_isInitialized = TRUE, !.m_n = n, !.m_bits = bits,
                !.m_enable_DJN = FALSE, !.m_hs = 0, !.m_randbits = 0, !.m_testv = FALSE]

\* enableDJN draws until the number is coprime to n.  rmod_sq * -1 multiplies
\* by the Ipp32u that -1 converts to, 2^32 - 1 = 3 * 5 * 17 * 257 * 65537, which has
\* an inverse where none of these divides the modulus.
MinusOne(n) == Modulo(n, Modulo(n, 2^16) * Modulo(n, 2^16) - 1)
GoodModulus(n) == n \in Nat \ {0, 1} /\ gcd(MinusOne(n), n) = 1
DJNBases(n) == {rand \in Randoms : gcd(rand, n) = 1}
EnabledDJN(key, rand) ==
    LET n == key.m_n
        h == ModMul(n, ModMul(n, rand, rand), MinusOne(n))
    IN  [key EXCEPT !.m_hs = modExp(h, n, nsquare(key)),
                    !.m_randbits = key.m_bits \div 2,
                    !.m_enable_DJN = TRUE]

\* A key of modulus n, with or without DJN, made from the key object given.
NewPublicKeys(key, n, bits, djn) ==
    IF djn THEN {EnabledDJN(Created(key, n, bits), rand) : rand \in DJNBases(n)}
           ELSE {Created(key, n, bits)}

\* load: create, with DJN set by hand.
MutFlagOnly(key, from) ==
    [Created(key, from.m_n, from.m_bits) EXCEPT !.m_enable_DJN = from.m_enable_DJN]
Loaded(key, from) ==
    LET created == Created(key, from.m_n, from.m_bits)
    IN  IF from.m_enable_DJN
        THEN [created EXCEPT !.m_enable_DJN = TRUE, !.m_hs = from.m_hs,
                             !.m_randbits = from.m_randbits]
        ELSE created

\* The vectors of obfuscators for sz elements.  Of the random numbers of the
\* normal scheme those that share a factor with n are left out: at the code's
\* key sizes such a number would be a factorisation of n.
DJNObfuscators(key, sz) ==
    {[i \in 1 .. sz |-> modExp(key.m_hs, r[i], nsquare(key))] :
        r \in IF key.m_testv THEN {key.m_r}
              ELSE [1 .. sz -> {x \in Randoms : x < 2^key.m_randbits}]}
NormalRandoms(n) == {r \in {Modulo(n - 1, x) + 1 : x \in Randoms} : gcd(r, n) = 1}
NormalObfuscators(key, sz) ==
    {[i \in 1 .. sz |-> modExp(r[i], key.m_n, nsquare(key))] :
        r \in IF key.m_testv THEN {key.m_r} ELSE [1 .. sz -> NormalRandoms(key.m_n)]}
Obfuscators(key, sz) ==
    IF key.m_enable_DJN THEN DJNObfuscators(key, sz) ELSE NormalObfuscators(key, sz)

raw_encrypt(key, pt) ==
    [i \in DOMAIN pt |-> Modulo(nsquare(key), key.m_n * pt[i] + 1)]
Obfuscated(key, ct, o) == [i \in DOMAIN ct |-> ModMul(nsquare(key), ct[i], o[i])]

-----------------------------------------------------------------------------
(* The private key.                                                        *)

NoPrivateKey ==
    [m_isInitialized |-> FALSE, m_enable_crt |-> FALSE, m_n |-> 0, m_p |-> 0, m_q |-> 0,
     m_pinverse |-> 0, m_hp |-> 0, m_hq |-> 0, m_lambda |-> 0, m_x |-> 0]

lcm(p, q) == (p * q) \div gcd(p, q)
computeLfun(a, b) == (a - 1) \div b
computeHfun(n, a) ==
    InverseMul(a, computeLfun(modExp(Modulo(a * a, n + 1), a - 1, a * a), a))

MutUnordered(p, q) == <<p, q>>
Ordered(p, q) == IF q < p THEN <<q, p>> ELSE <<p, q>>

\* What the constructors and load compute from the primes: m_p is the smaller.
NewPrivateKey(p0, q0) ==
    LET n == p0 * q0
        p == Ordered(p0, q0)[1]
        q == Ordered(p0, q0)[2]
        lambda == lcm(p - 1, q - 1)
    IN  [m_isInitialized |-> TRUE, m_enable_crt |-> TRUE, m_n |-> n, m_p |-> p, m_q |-> q,
         m_pinverse |-> InverseMul(q, p),
         m_hp |-> computeHfun(n, p), m_hq |-> computeHfun(n, q),
         m_lambda |-> lambda,
         m_x |-> InverseMul(n, computeLfun(modExp(n + 1, lambda, n * n), n))]

decryptRAW(key, c) ==
    LET n == key.m_n
    IN  Modulo(n, computeLfun(modExp(c, key.m_lambda, n * n), n) * key.m_x)

MutSwapped(key, mp, mq) ==
    mp + Modulo(key.m_q, (mp - mq) * key.m_pinverse) * key.m_p
computeCRT(key, mp, mq) ==
    mp + Modulo(key.m_q, (mq - mp) * key.m_pinverse) * key.m_p

decryptCRT(key, c) ==
    LET p == key.m_p
        q == key.m_q
        resp == modExp(Modulo(p * p, c), p - 1, p * p)
        resq == modExp(Modulo(q * q, c), q - 1, q * q)
    IN  computeCRT(key, Modulo(p, computeLfun(resp, p) * key.m_hp),
                        Modulo(q, computeLfun(resq, q) * key.m_hq))

decryption(key, c) == IF key.m_enable_crt THEN decryptCRT(key, c) ELSE decryptRAW(key, c)

=============================================================================
