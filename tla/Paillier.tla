------------------------------- MODULE Paillier -------------------------------
(***************************************************************************)
(* The objects of the cryptosystem (ipcl/pub_key.cpp, pri_key.cpp,         *)
(* ciphertext.cpp, plaintext.cpp), on numbers small enough to compute      *)
(* with.  One user owns a public key, a private key, named ciphertexts, a  *)
(* plaintext and an archive.  A ciphertext holds a shared pointer to a key *)
(* object: its constructors copy the key they are given, its copy          *)
(* constructor and assignment share the object.                            *)
(*                                                                         *)
(* An operation whose ERROR_CHECK fails throws before it changes anything: *)
(* the check is a guard.  modExp of a vector is modExp of its elements;    *)
(* how it is divided between threads and accelerator is in HybridModExp.   *)
(***************************************************************************)
EXTENDS PaillierKeys, BaseText

CONSTANTS
    CipherName,     \* the ciphertexts of the user, and their key objects
    PrimePairs,     \* primes the user may build keys from
    Plains,         \* the plaintexts the user starts from
    Shifts,         \* arguments of rotate
    Earlier,        \* moduli of ciphertexts that an earlier run may have saved
    MaxSize,        \* bound: elements of a ciphertext
    MaxKeySteps,    \* bound: operations on keys
    MaxSteps,       \* bound: operations altogether
    None

ASSUME PaillierAssumption ==
    /\ PrimePairs \subseteq Int \X Int
    /\ Plains \subseteq Seq(Nat)
    /\ Shifts \subseteq -(SizeT \div 2) .. SizeT \div 2 - 1
    /\ Earlier \subseteq Nat
    /\ MaxSize \in 1 .. SizeT \div 2 - 1

\* The primes that keys are made from: those the user brings, and those he may
\* generate.  None divides the other, or the other less one, which is also true of the
\* primes of an earlier run; and the moduli have no factor in common with the number
\* that enableDJN multiplies by.
PrimesInUse ==
    PrimePairs \cup {pair \in PrimesOf(KeyBits \div 2) \X PrimesOf(KeyBits \div 2) :
                      GetsNormal(pair[1], pair[2])}
Moduli == Earlier \cup {pair[1] * pair[2] : pair \in PrimesInUse}

ASSUME PrimesAssumption ==
    /\ \A pair \in PrimesInUse : GoodPrimes(pair[1], pair[2])
    /\ \A n \in Earlier : \E p, q \in 2 .. n : n = p * q /\ GoodPrimes(p, q)
    /\ \A n \in Moduli : GoodModulus(n)

VARIABLES
    pub, pri,       \* the user's PublicKey and PrivateKey
    cipher,         \* the ciphertexts; None is one the user has not assigned
    sharers,        \* the PublicKey objects, each as the ciphertexts that point to it
    plain,          \* the user's PlainText, or None
    archive,        \* what the user serialized last, or None
    keySteps, textSteps
vars == <<pub, pri, cipher, sharers, plain, archive, keySteps, textSteps>>

\* A step of the user on keys, or on texts.
KeyStep ==
    /\ keySteps < MaxKeySteps /\ keySteps + textSteps < MaxSteps
    /\ keySteps' = keySteps + 1
    /\ UNCHANGED <<cipher, sharers, plain, textSteps>>
TextStep ==
    /\ keySteps + textSteps < MaxSteps
    /\ textSteps' = textSteps + 1
    /\ UNCHANGED <<pub, pri, keySteps>>

Init ==
    /\ pub = NoPublicKey /\ pri = NoPrivateKey
    /\ cipher = [x \in CipherName |-> None] /\ sharers = {}
    /\ plain = None
    /\ archive \in {None} \cup {[kind |-> "cipher", texts |-> <<n + 1>>, size |-> 1,
                                key |-> Created(NoPublicKey, n, KeyBits)] : n \in Earlier}
    /\ keySteps = 0 /\ textSteps = 0

-----------------------------------------------------------------------------
(* Keys.                                                                   *)

GenerateKeypair ==
    /\ KeyStep
    /\ \E djn \in BOOLEAN, p \in PrimesOf(KeyBits \div 2), q \in PrimesOf(KeyBits \div 2) :
          /\ IF djn THEN GetsDJN(p, q) ELSE GetsNormal(p, q)
          /\ pub' \in NewPublicKeys(NoPublicKey, p * q, KeyBits, djn)
          /\ pri' = NewPrivateKey(p, q)
    /\ UNCHANGED archive

\* The constructor, and create on the object the user has.
CreatePublicKey ==
    /\ KeyStep
    /\ \E pair \in PrimePairs, djn \in BOOLEAN, key \in {NoPublicKey, pub} :
          LET n == pair[1] * pair[2]
          IN  pub' \in NewPublicKeys(key, n, BitSize(n), djn)
    /\ UNCHANGED <<pri, archive>>

\* Either order of the primes; they have to be those of the public key.
CreatePrivateKey ==
    /\ KeyStep
    /\ pub.m_isInitialized
    /\ \E pair \in PrimePairs, order \in {<<1, 2>>, <<2, 1>>} :
          LET p == pair[order[1]]
              q == pair[order[2]]
          IN  /\ p * q = pub.m_n /\ p # q
              /\ pri' = NewPrivateKey(p, q)
    /\ UNCHANGED <<pub, archive>>

EnableDJN ==
    /\ KeyStep
    /\ pub.m_isInitialized
    /\ pub' \in {EnabledDJN(pub, rand) : rand \in DJNBases(pub.m_n)}
    /\ UNCHANGED <<pri, archive>>

\* setDJN and setHS: the user brings hs, an n-th power as in the scheme.  setDJN
\* does nothing when DJN is on.
HSValues(n) == {modExp(rand, n, n * n) : rand \in DJNBases(n)}
SetDJN ==
    /\ KeyStep
    /\ pub.m_isInitialized
    /\ \E hs \in HSValues(pub.m_n) :
          \/ /\ ~pub.m_enable_DJN
             /\ pub' = [pub EXCEPT !.m_hs = hs, !.m_randbits = pub.m_bits \div 2,
                                   !.m_enable_DJN = TRUE]
          \/ pub' = [pub EXCEPT !.m_hs = hs]
    /\ UNCHANGED <<pri, archive>>

\* setRandom appends to m_r.  The user calls it once for a key object: what
\* encrypt reads would otherwise be the old numbers, or past their end.
SetRandom ==
    /\ KeyStep
    /\ pub.m_isInitialized /\ pub.m_r = <<>>
    /\ \E sz \in 1 .. 2 : \E r \in [1 .. sz -> NormalRandoms(pub.m_n)] :
          pub' = [pub EXCEPT !.m_r = @ \o r, !.m_testv = TRUE]
    /\ UNCHANGED <<pri, archive>>

EnableCRT ==
    /\ KeyStep
    /\ pri.m_isInitialized
    /\ \E crt \in BOOLEAN : pri' = [pri EXCEPT !.m_enable_crt = crt]
    /\ UNCHANGED <<pub, archive>>

\* The archive of a public key has no test vector, that of a private key only
\* the primes.
SaveKey ==
    /\ KeyStep
    /\ \/ pub.m_isInitialized /\ archive' = [kind |-> "public", key |-> pub]
       \/ pri.m_isInitialized /\ archive' = [kind |-> "private", p |-> pri.m_p, q |-> pri.m_q]
    /\ UNCHANGED <<pub, pri>>

LoadPublicKey ==
    /\ KeyStep
    /\ archive # None /\ archive.kind = "public"
    /\ \E key \in {NoPublicKey, pub} : pub' = Loaded(key, archive.key)
    /\ UNCHANGED <<pri, archive>>

LoadPrivateKey ==
    /\ KeyStep
    /\ archive # None /\ archive.kind = "private"
    /\ pri' = NewPrivateKey(archive.p, archive.q)
    /\ UNCHANGED <<pub, archive>>

-----------------------------------------------------------------------------
(* Ciphertexts.                                                            *)

Assigned(x) == cipher[x] # None
KeyOf(x) == cipher[x].m_pk
SameModulus(x, y) == KeyOf(x).m_n = KeyOf(y).m_n
Operands == {Text(v) : v \in Plains} \cup ({plain} \ {None})

\* A new CipherText is assigned to x: it holds its own copy of the key, and x
\* lets go of the object it pointed to.
Without(x) == {o \ {x} : o \in sharers} \ {{}}
Become(x, t, key) ==
    /\ t.m_size <= MaxSize
    /\ cipher' = [cipher EXCEPT ![x] = [m_texts |-> t.m_texts, m_size |-> t.m_size, m_pk |-> key]]
    /\ sharers' = Without(x) \cup {{x}}
    /\ UNCHANGED <<plain, archive>>

\* The texts of x are changed in place.
Edit(x, t) ==
    /\ t.m_size <= MaxSize
    /\ cipher' = [cipher EXCEPT ![x].m_texts = t.m_texts, ![x].m_size = t.m_size]
    /\ UNCHANGED <<sharers, plain, archive>>

\* encrypt, with the obfuscator if make_secure.  A test vector has to have the
\* length of the plaintext: it is indexed like it.
Encrypt(x) ==
    /\ TextStep
    /\ pub.m_isInitialized
    /\ \E pt \in Operands :
          LET ct == raw_encrypt(pub, pt.m_texts)
          IN  /\ pt.m_size > 0
              /\ \/ Become(x, Text(ct), pub)
                 \/ /\ pub.m_testv => Len(pub.m_r) = pt.m_size
                    /\ \E o \in Obfuscators(pub, pt.m_size) :
                          Become(x, Text(Obfuscated(pub, ct, o)), pub)

\* The element of b that meets element i: its only one, or the one at i.
MutFirst(b, i) == b.m_texts[1]
Met(b, i) == b.m_texts[IF b.m_size = 1 THEN 1 ELSE i]
SizesMatch(a, b) == a.m_size = b.m_size \/ b.m_size = 1

raw_add(key, a, b) == [i \in DOMAIN a.m_texts |-> Modulo(nsquare(key), a.m_texts[i] * Met(b, i))]
raw_mul(key, a, b) == [i \in DOMAIN a.m_texts |-> modExp(a.m_texts[i], Met(b, i), nsquare(key))]

AddCipherText(x, y) ==
    /\ TextStep
    /\ Assigned(x) /\ Assigned(y)
    /\ SizesMatch(cipher[x], cipher[y])
    /\ SameModulus(x, y)
    /\ Become(x, Text(raw_add(KeyOf(x), cipher[x], cipher[y])), KeyOf(x))

\* CT + PT encrypts the plaintext without an obfuscator first.
AddPlainText(x) ==
    /\ TextStep
    /\ Assigned(x)
    /\ \E pt \in Operands :
          LET b == Text(raw_encrypt(KeyOf(x), pt.m_texts))
          IN  /\ pt.m_size > 0
              /\ SizesMatch(cipher[x], b)
              /\ Become(x, Text(raw_add(KeyOf(x), cipher[x], b)), KeyOf(x))

MultiplyPlainText(x) ==
    /\ TextStep
    /\ Assigned(x)
    /\ \E pt \in Operands :
          /\ SizesMatch(cipher[x], pt)
          /\ Become(x, Text(raw_mul(KeyOf(x), cipher[x], pt)), KeyOf(x))

\* x becomes getCipherText of y, or is constructed from a chunk of it.
GetCipherText(x, y) ==
    /\ TextStep
    /\ Assigned(y)
    /\ \/ \E idx \in 0 .. MaxSize :
             /\ HasElement(cipher[y], idx)
             /\ Become(x, Text(<<getElement(cipher[y], idx)>>), KeyOf(y))
       \/ \E start, size \in 0 .. MaxSize :
             /\ HasChunk(cipher[y], start, size)
             /\ Become(x, Text(getChunk(cipher[y], start, size)), KeyOf(y))

RotateCipherText(x) ==
    /\ TextStep
    /\ Assigned(x)
    /\ \E shift \in Shifts :
          /\ CipherRotates(cipher[x], shift)
          /\ Become(x, Rotated(cipher[x], shift), KeyOf(x))

\* operator= shares the key object.
Assign(x, y) ==
    /\ TextStep
    /\ x # y /\ Assigned(y)
    /\ cipher' = [cipher EXCEPT ![x] = cipher[y]]
    /\ sharers' = {IF y \in o THEN o \cup {x} ELSE o : o \in Without(x)}
    /\ UNCHANGED <<plain, archive>>

\* insert, with an element of a ciphertext under the same key.
InsertText(x, y) ==
    /\ TextStep
    /\ Assigned(x) /\ Assigned(y) /\ SameModulus(x, y)
    /\ \E pos, idx \in 0 .. MaxSize :
          /\ MayInsert(cipher[x], pos) /\ HasElement(cipher[y], idx)
          /\ Edit(x, Inserted(cipher[x], pos, getElement(cipher[y], idx)))

RemoveText(x) ==
    /\ TextStep
    /\ Assigned(x)
    /\ \E pos, length \in 0 .. MaxSize :
          /\ MayRemove(cipher[x], pos, length)
          /\ Edit(x, Removed(cipher[x], pos, length))

ClearText(x) == TextStep /\ Assigned(x) /\ Edit(x, Cleared)

SaveCipherText(x) ==
    /\ TextStep
    /\ Assigned(x)
    /\ archive' = [kind |-> "cipher", texts |-> cipher[x].m_texts, size |-> cipher[x].m_size,
                   key |-> KeyOf(x)]
    /\ UNCHANGED <<cipher, sharers, plain>>

\* load writes the key of the archive into the object that m_pk points to, for
\* all who point to it.  The user does not load a ciphertext of another modulus
\* into one that shares its key object: the others would keep their texts and
\* change their key.
Sharers(x) == UNION {o \in sharers : x \in o}
MayLoad(x) == archive.key.m_n = KeyOf(x).m_n \/ Sharers(x) = {x}
LoadCipherText(x) ==
    /\ TextStep
    /\ Assigned(x)
    /\ archive # None /\ archive.kind = "cipher"
    /\ MayLoad(x)
    /\ LET rekeyed == [y \in CipherName |->
              IF y \in Sharers(x) THEN [cipher[y] EXCEPT !.m_pk = Loaded(@, archive.key)]
                                  ELSE cipher[y]]
       IN  cipher' = [rekeyed EXCEPT ![x].m_texts = archive.texts, ![x].m_size = archive.size]
    /\ UNCHANGED <<sharers, plain, archive>>

-----------------------------------------------------------------------------
(* Plaintexts.                                                             *)

Decrypt(x) ==
    /\ TextStep
    /\ Assigned(x)
    /\ pri.m_isInitialized
    /\ KeyOf(x).m_n = pri.m_n
    /\ cipher[x].m_size > 0
    /\ plain' = Text([i \in 1 .. cipher[x].m_size |-> decryption(pri, cipher[x].m_texts[i])])
    /\ UNCHANGED <<cipher, sharers, archive>>

ClearPlain ==
    /\ TextStep
    /\ plain # None
    /\ plain' = Cleared
    /\ UNCHANGED <<cipher, sharers, archive>>

RotatePlainText ==
    /\ TextStep
    /\ plain # None
    /\ \E shift \in Shifts :
          PlainRotates(plain, shift) /\ plain' = Rotated(plain, shift)
    /\ UNCHANGED <<cipher, sharers, archive>>

-----------------------------------------------------------------------------
KeyNext ==
    \/ GenerateKeypair \/ CreatePublicKey \/ CreatePrivateKey
    \/ EnableDJN \/ SetDJN \/ SetRandom \/ EnableCRT
    \/ SaveKey \/ LoadPublicKey \/ LoadPrivateKey

TextNext(x) ==
    \/ Encrypt(x) \/ AddPlainText(x) \/ MultiplyPlainText(x) \/ RotateCipherText(x)
    \/ RemoveText(x) \/ ClearText(x) \/ SaveCipherText(x) \/ LoadCipherText(x) \/ Decrypt(x)
    \/ \E y \in CipherName :
          AddCipherText(x, y) \/ GetCipherText(x, y) \/ Assign(x, y) \/ InsertText(x, y)

Next ==
    \/ KeyNext \/ ClearPlain \/ RotatePlainText
    \/ \E x \in CipherName : TextNext(x)

Spec == Init /\ [][Next]_vars

-----------------------------------------------------------------------------
(* The scheme, by its definition: c encrypts m under n if it is            *)
(* (1 + n)^m * r^n modulo n^2 for a unit r, that is if c * (1 - n * m) is  *)
(* an n-th power of a unit.                                                *)

NthPowers == [n \in Moduli |-> {modExp(r, n, n * n) : r \in {u \in 1 .. n - 1 : gcd(u, n) = 1}}]

\* The message of every ciphertext under n; n itself where there is none.
MessageOf ==
    [n \in Moduli |->
      [c \in 0 .. n * n - 1 |->
        LET messages == {m \in 0 .. n - 1 : Modulo(n * n, c * (n * n + 1 - n * m)) \in NthPowers[n]}
        IN  IF messages = {} THEN n ELSE CHOOSE m \in messages : TRUE]]
Decoded(n, texts) == [modulus |-> n, items |-> [i \in DOMAIN texts |-> MessageOf[n][texts[i]]]]

-----------------------------------------------------------------------------
(* Properties.                                                             *)

PublicKey ==
    [m_isInitialized : BOOLEAN, m_n : Moduli \cup {0}, m_bits : Nat, m_enable_DJN : BOOLEAN,
     m_hs : Nat, m_randbits : Nat, m_r : Seq(Nat), m_testv : BOOLEAN]

\* Types: the containers' sizes are those of their vectors.
PaillierTypeOK ==
    /\ pub \in PublicKey
    /\ {x \in CipherName : Assigned(x)} = UNION sharers
    /\ pri.m_isInitialized => pri.m_n \in Moduli
    /\ \A x \in CipherName : Assigned(x) =>
          /\ cipher[x].m_size = Len(cipher[x].m_texts) /\ cipher[x].m_size <= MaxSize
          /\ KeyOf(x) \in PublicKey /\ KeyOf(x).m_isInitialized
    /\ plain # None => plain.m_size = Len(plain.m_texts)

\* Whatever way a private key came about (two constructors, either order of the
\* primes, an archive), its precomputed numbers are the inverses that the
\* decryptions rely on: none of them is the modulus that InverseMul leaves behind
\* when the ignored status of ippsModInv_BN is an error.
PrivateKeySound ==
    pri.m_isInitialized =>
        /\ pri.m_p < pri.m_q /\ pri.m_p * pri.m_q = pri.m_n
        /\ \A k \in 1 .. 4 :
              LET m == <<pri.m_q, pri.m_p, pri.m_q, pri.m_n>>[k]
                  inverse == <<pri.m_pinverse, pri.m_hp, pri.m_hq, pri.m_x>>[k]
              IN  inverse \in 1 .. m - 1 /\ gcd(inverse, m) = 1

\* The two decryptions compute the same number from every element of every
\* ciphertext under the private key's modulus, whatever operations led to it:
\* the message it has by the definition of the scheme.
DecryptionsAgree ==
    pri.m_isInitialized =>
        \A x \in CipherName : Assigned(x) /\ KeyOf(x).m_n = pri.m_n =>
            \A i \in DOMAIN cipher[x].m_texts :
                LET c == cipher[x].m_texts[i]
                IN  /\ decryptRAW(pri, c) = MessageOf[pri.m_n][c]
                    /\ decryptCRT(pri, c) = MessageOf[pri.m_n][c]

\* A public key in the user's hands or in a ciphertext that makes obfuscators
\* with DJN makes n-th powers: hs is one, after any sequence of enableDJN,
\* setDJN, setHS, create, save and load.
ObfuscatorsAreSound ==
    \A key \in {pub} \cup {KeyOf(x) : x \in {y \in CipherName : Assigned(y)}} :
        key.m_isInitialized /\ key.m_enable_DJN =>
            /\ key.m_hs \in NthPowers[key.m_n]
            /\ key.m_randbits > 0

\* Seen through the definition of the scheme, ciphertexts are vectors of
\* residues: addition, multiplication, rotation and editing act on the message
\* vectors element by element, decryption returns them, and no operation on one
\* ciphertext changes another, whatever they share.
Vectors == INSTANCE VectorService WITH
    Names   <- CipherName,
    Inputs  <- Plains,
    modulus <- IF pub.m_isInitialized THEN pub.m_n ELSE None,
    vectors <- [x \in CipherName |->
                  IF Assigned(x) THEN Decoded(KeyOf(x).m_n, cipher[x].m_texts) ELSE None],
    opened  <- IF plain = None THEN None ELSE plain.m_texts,
    saved   <- IF archive # None /\ archive.kind = "cipher"
               THEN Decoded(archive.key.m_n, archive.texts) ELSE None
ImplementsVectors == Vectors!ServiceSpec

=============================================================================
