------------------------------ MODULE BigNumber ------------------------------
(***************************************************************************)
(* The operations of BigNumber (ipcl/bignum.cpp) that the cryptosystem     *)
(* uses, over the integers: a BigNumber is signed and as long as it needs  *)
(* to be, its +, -, * and / are those of Int and Nat.  Every operator is a *)
(* method of the number that stands first, as in the code.                 *)
(***************************************************************************)
EXTENDS Integers

\* operator% and Modulo: ippsMod_BN returns the residue that is not negative,
\* also of a negative number.
Modulo(m, a) == a % m

ModMul(m, a, b) == Modulo(m, a * b)

gcd(a, b) ==
    LET euclid[pair \in Nat \X Nat] ==
          IF pair[2] = 0 THEN pair[1] ELSE euclid[<<pair[2], pair[1] % pair[2]>>]
    IN  euclid[<<a, b>>]

\* The inverse of a modulo m.  The status of ippsModInv_BN is ignored, and the
\* result was constructed as a copy of m: a number without an inverse gets m.
InverseMul(m, a) ==
    IF gcd(a, m) = 1 THEN CHOOSE r \in 0 .. m - 1 : Modulo(m, a * r) = Modulo(m, 1)
                     ELSE m

\* Bit index of a number that is not negative.
TestBit(a, index) == (a \div 2^index) % 2 = 1

\* The place of the most significant bit; 0 has the size of 1, because MSB(0) is 0.
MSB(a) == LET msb[x \in Nat] == IF x < 2 THEN 0 ELSE msb[x \div 2] + 1 IN msb[a]
BitSize(a) == MSB(a) + 1

compare(a, b) == IF a < b THEN -1 ELSE IF a = b THEN 0 ELSE 1

\* modExp of a single number: IPP's binary exponentiation, which reduces the
\* base when it brings it into Montgomery form.
modExp(base, exp, mod) ==
    LET power[e \in Nat] ==
          IF e = 0 THEN Modulo(mod, 1)
          ELSE LET half == power[e \div 2]
                   square == ModMul(mod, half, half)
               IN  IF e % 2 = 0 THEN square ELSE ModMul(mod, square, Modulo(mod, base))
    IN  power[exp]

=============================================================================
