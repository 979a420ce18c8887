---------------------------- MODULE Paillier_proofs ----------------------------
(***************************************************************************)
(* What holds of the user's objects for every size of key and vector, any  *)
(* number of ciphertexts and any sequence of operations.  The invariant    *)
(* has three layers.  TextsInv: containers whose size is that of their     *)
(* vector, and key objects that are shared exactly by the ciphertexts that *)
(* point to them.  KeysInv: the keys in the user's hands and in an archive *)
(* are sound, by the arithmetic of PaillierKeys_proofs.  SchemeInv: every  *)
(* element of a ciphertext is an encryption under the key it points to.    *)
(* From these come the types, what no operation on one ciphertext does to  *)
(* another, what the operators of the library do to the messages, and that *)
(* the whole of it implements VectorService.                               *)
(***************************************************************************)
EXTENDS Paillier, PaillierKeys_proofs

\* A pointer that the user has not assigned is no ciphertext, plaintext or archive.
NoneIsNothing ==
    /\ \A texts, size, pk : [m_texts |-> texts, m_size |-> size, m_pk |-> pk] # None
    /\ \A texts, size : [m_texts |-> texts, m_size |-> size] # None

-----------------------------------------------------------------------------
(* The shifts that rotate takes.                                           *)

\* An int that is small beside the range of size_t, and what it becomes there.
Small(i) == i \in Int /\ -SizeT <= i + i /\ i + i < SizeT

LEMMA Conversion ==
    ASSUME NEW i, Small(i)
    PROVE  /\ i >= 0 => AsSize(i) = i
           /\ i < 0 => AsSize(i) = i + SizeT
           /\ AsSize(i) \in Int /\ SizeT \in Nat \ {0}
<1>1. SizeT \in Nat \ {0}
  BY DEF SizeT
<1>2. i \in Int /\ -SizeT <= i + i /\ i + i < SizeT
  BY DEF Small
<1>3. ASSUME i >= 0 PROVE AsSize(i) = i
  <2>1. i \in 0 .. SizeT - 1
    BY <1>1, <1>2, <1>3
  <2>2. i % SizeT = i
    BY <1>1, <2>1, RemainderOfSmall
  <2>. QED BY <2>2 DEF AsSize
<1>4. ASSUME i < 0 PROVE AsSize(i) = i + SizeT
  <2>1. i \in -SizeT .. -1
    BY <1>1, <1>2, <1>4
  <2>2. i % SizeT = i + SizeT
    BY <1>1, <2>1, RemainderOfNegative
  <2>. QED BY <2>2 DEF AsSize
<1>5. AsSize(i) \in Int
  BY <1>1, <1>2, <1>3, <1>4
<1>. QED BY <1>1, <1>3, <1>4, <1>5

\* CipherText::rotate takes the shifts to the right, up to the length of the vector,
\* and no shift to the left, although it looks for those below -m_size
\* (ciphertext.cpp:119).
THEOREM CipherRotatesRight ==
    ASSUME NEW t, t.m_size \in Nat \ {1}, Small(t.m_size), NEW shift, Small(shift)
    PROVE  CipherRotates(t, shift) <=> shift \in 0 .. t.m_size
<1>. DEFINE n == t.m_size
            s == AsSize(shift)
<1>1. CipherRotates(t, shift) <=> shift >= -n /\ s <= n
  BY DEF CipherRotates
<1>2. /\ n \in Nat /\ n + n < SizeT /\ SizeT \in Nat
      /\ shift \in Int /\ -SizeT <= shift + shift
      /\ shift >= 0 => s = shift
      /\ shift < 0 => s = shift + SizeT
  BY Conversion DEF Small
<1>. HIDE DEF n, s
<1>3. CASE shift >= 0
  <2>1. s = shift
    BY <1>2, <1>3
  <2>2. CipherRotates(t, shift) <=> shift \in 0 .. n
    BY <1>1, <1>2, <1>3, <2>1
  <2>. QED BY <2>2 DEF n
<1>4. CASE shift < 0
  <2>1. s = shift + SizeT
    BY <1>2, <1>4
  <2>2. ~(s <= n) /\ shift \notin 0 .. n
    BY <1>2, <1>4, <2>1
  <2>. QED BY <1>1, <2>2 DEF n
<1>. QED BY <1>2, <1>3, <1>4

\* PlainText::rotate takes no shift at all of a vector that is not empty: as a
\* size_t, -m_size is larger than every length (plaintext.cpp:59).
THEOREM PlainNeverRotates ==
    ASSUME NEW t, t.m_size \in Nat \ {0}, Small(t.m_size), NEW shift, Small(shift)
    PROVE  ~PlainRotates(t, shift)
<1>. DEFINE n == t.m_size
            s == AsSize(shift)
            m == AsSize(-n)
<1>1. PlainRotates(t, shift) => s >= m /\ s <= n
  BY DEF PlainRotates
<1>2. n \in Nat \ {0} /\ n + n < SizeT /\ SizeT \in Nat /\ s \in Int
  BY Conversion DEF Small
<1>3. Small(-n) /\ -n < 0
  BY <1>2 DEF Small
<1>4. m = -n + SizeT
  BY <1>3, Conversion
<1>. HIDE DEF n, s, m
<1>. QED BY <1>1, <1>2, <1>4

-----------------------------------------------------------------------------
(* Containers.                                                             *)

\* A container counts the elements of its vector.
WellFormed(t) == (\E S : t.m_texts \in Seq(S)) /\ t.m_size = Len(t.m_texts)

LEMMA TextOfSequence ==
    ASSUME NEW S, NEW s \in Seq(S)
    PROVE  WellFormed(Text(s))
BY DEF WellFormed, Text

\* Vectors that are computed element by element.
LEMMA TextOfFunction ==
    ASSUME NEW n \in Nat, NEW f, f = [i \in 1 .. n |-> f[i]]
    PROVE  /\ f \in Seq({f[i] : i \in 1 .. n}) /\ Len(f) = n
           /\ WellFormed(Text(f))
<1>1. f \in [1 .. n -> {f[i] : i \in 1 .. n}]
  OBVIOUS
<1>2. f \in Seq({f[i] : i \in 1 .. n}) /\ Len(f) = n
  BY <1>1, SeqDef, LenProperties
<1>. QED  BY <1>2, TextOfSequence

LEMMA TextOfMap ==
    ASSUME NEW t, WellFormed(t), NEW f, f = [i \in DOMAIN t.m_texts |-> f[i]]
    PROVE  /\ WellFormed(Text(f)) /\ Len(f) = t.m_size
           /\ \A T : (\A i \in DOMAIN t.m_texts : f[i] \in T) => f \in Seq(T)
<1>1. PICK S : t.m_texts \in Seq(S)
  BY DEF WellFormed
<1>2. DOMAIN t.m_texts = 1 .. Len(t.m_texts) /\ Len(t.m_texts) \in Nat
  BY <1>1, LenProperties
<1>3. WellFormed(Text(f)) /\ Len(f) = t.m_size
  BY <1>2, TextOfFunction DEF WellFormed
<1>4. ASSUME NEW T, \A i \in DOMAIN t.m_texts : f[i] \in T PROVE f \in Seq(T)
  <2>1. f \in [1 .. Len(t.m_texts) -> T]
    BY <1>2, <1>4
  <2>. QED  BY <1>2, <2>1, SeqDef
<1>. QED  BY <1>3, <1>4

LEMMA SizeFacts ==
    ASSUME NEW t, WellFormed(t)
    PROVE  t.m_size \in Nat /\ DOMAIN t.m_texts = 1 .. t.m_size
BY LenProperties DEF WellFormed

\* A part of a vector, from any position to any other, empty or not.
LEMMA Part ==
    ASSUME NEW S, NEW s \in Seq(S), NEW m \in 1 .. Len(s) + 1, NEW n \in 0 .. Len(s)
    PROVE  /\ SubSeq(s, m, n) \in Seq(S)
           /\ Len(SubSeq(s, m, n)) = IF m <= n THEN n - m + 1 ELSE 0
<1>1. Len(s) \in Nat
  BY LenProperties
<1>2. CASE m <= n
  <2>1. n \in m - 1 .. Len(s)
    BY <1>1, <1>2
  <2>. QED  BY <1>2, <2>1, SubSeqProperties
<1>3. CASE ~(m <= n)
  <2>1. m \in Int /\ n \in Int /\ m > n
    BY <1>1, <1>3
  <2>2. SubSeq(s, m, n) = <<>>
    BY <2>1, SubSeqEmpty
  <2>. QED  BY <1>3, <2>2
<1>. QED  BY <1>2, <1>3

LEMMA InsertedText ==
    ASSUME NEW t, WellFormed(t), NEW pos \in Nat, MayInsert(t, pos), NEW bn
    PROVE  /\ WellFormed(Inserted(t, pos, bn))
           /\ \A T : t.m_texts \in Seq(T) /\ bn \in T => Inserted(t, pos, bn).m_texts \in Seq(T)
<1>. DEFINE s == t.m_texts
<1>1. t.m_size \in Nat /\ Len(s) = t.m_size /\ DOMAIN s = 1 .. Len(s) /\ pos <= t.m_size
  BY SizeFacts DEF WellFormed, MayInsert
<1>. HIDE DEF s
<1>2. ASSUME NEW T, s \in Seq(T), bn \in T
      PROVE  /\ InsertAt(s, pos + 1, bn) \in Seq(T)
             /\ Len(InsertAt(s, pos + 1, bn)) = t.m_size + 1
  <2>1. t.m_size \in Nat /\ Len(s) = t.m_size /\ pos <= t.m_size
    BY <1>1
  <2>2. s \in Seq(T) /\ <<bn>> \in Seq(T)
    BY <1>2
  <2>3. /\ SubSeq(s, 1, (pos + 1) - 1) \in Seq(T) /\ Len(SubSeq(s, 1, (pos + 1) - 1)) = pos
        /\ SubSeq(s, pos + 1, Len(s)) \in Seq(T)
        /\ Len(SubSeq(s, pos + 1, Len(s))) = Len(s) - pos
    <3>1. /\ 1 \in 1 .. Len(s) + 1 /\ (pos + 1) - 1 = pos /\ pos \in 0 .. Len(s)
          /\ pos + 1 \in 1 .. Len(s) + 1 /\ Len(s) \in 0 .. Len(s)
      BY <2>1
    <3>2. /\ SubSeq(s, 1, pos) \in Seq(T) /\ Len(SubSeq(s, 1, pos)) = IF 1 <= pos THEN pos - 1 + 1 ELSE 0
      BY <2>2, <3>1, Part
    <3>3. /\ SubSeq(s, pos + 1, Len(s)) \in Seq(T)
          /\ Len(SubSeq(s, pos + 1, Len(s)))
                = IF pos + 1 <= Len(s) THEN Len(s) - (pos + 1) + 1 ELSE 0
      BY <2>2, <3>1, Part
    <3>. QED  BY <2>1, <3>1, <3>2, <3>3
  <2>4. /\ InsertAt(s, pos + 1, bn) \in Seq(T)
        /\ Len(InsertAt(s, pos + 1, bn)) = (pos + 1) + (Len(s) - pos)
    <3>. DEFINE front == SubSeq(s, 1, (pos + 1) - 1)
                back == SubSeq(s, pos + 1, Len(s))
    <3>1. front \in Seq(T) /\ Len(front) = pos /\ back \in Seq(T) /\ Len(back) = Len(s) - pos
      BY <2>3
    <3>2. InsertAt(s, pos + 1, bn) = (front \o <<bn>>) \o back
      BY DEF InsertAt
    <3>. HIDE DEF front, back
    <3>3. front \o <<bn>> \in Seq(T) /\ Len(front \o <<bn>>) = pos + 1
      BY <2>2, <3>1, ConcatProperties
    <3>4. /\ (front \o <<bn>>) \o back \in Seq(T)
          /\ Len((front \o <<bn>>) \o back) = (pos + 1) + (Len(s) - pos)
      <4>. DEFINE h == front \o <<bn>>
      <4>1. h \in Seq(T) /\ Len(h) = pos + 1
        BY <3>3
      <4>. HIDE DEF h
      <4>2. h \o back \in Seq(T) /\ Len(h \o back) = Len(h) + Len(back)
        BY <3>1, <4>1, ConcatProperties
      <4>. QED  BY <3>1, <4>1, <4>2 DEF h
    <3>. QED  BY <3>2, <3>4
  <2>5. (pos + 1) + (Len(s) - pos) = t.m_size + 1
    BY <2>1
  <2>. QED  BY <2>4, <2>5
<1>3. PICK S : s \in Seq(S)
  BY DEF WellFormed, s
<1>4. s \in Seq(S \cup {bn})
  <2>1. s \in [1 .. Len(s) -> S \cup {bn}] /\ Len(s) \in Nat
    BY <1>1, <1>3, LenProperties
  <2>. QED  BY <2>1, SeqDef
<1>5. /\ InsertAt(s, pos + 1, bn) \in Seq(S \cup {bn})
      /\ Len(InsertAt(s, pos + 1, bn)) = t.m_size + 1
  BY <1>2, <1>4
<1>6. /\ Inserted(t, pos, bn).m_texts = InsertAt(s, pos + 1, bn)
      /\ Inserted(t, pos, bn).m_size = t.m_size + 1
  BY DEF Inserted, s
<1>7. WellFormed(Inserted(t, pos, bn))
  BY <1>5, <1>6 DEF WellFormed
<1>. QED  BY <1>2, <1>6, <1>7 DEF s

LEMMA RemovedText ==
    ASSUME NEW t, WellFormed(t), NEW pos \in Nat, NEW length \in Nat, MayRemove(t, pos, length)
    PROVE  /\ WellFormed(Removed(t, pos, length)) /\ Removed(t, pos, length).m_size <= t.m_size
           /\ \A T : t.m_texts \in Seq(T) => Removed(t, pos, length).m_texts \in Seq(T)
<1>. DEFINE s == t.m_texts
<1>1. t.m_size \in Nat /\ Len(s) = t.m_size /\ pos + length < t.m_size
  BY SizeFacts DEF WellFormed, MayRemove
<1>. HIDE DEF s
<1>2. ASSUME NEW S, s \in Seq(S)
      PROVE  /\ SubSeq(s, 1, pos) \o SubSeq(s, pos + length + 1, Len(s)) \in Seq(S)
             /\ Len(SubSeq(s, 1, pos) \o SubSeq(s, pos + length + 1, Len(s))) = t.m_size - length
  <2>1. t.m_size \in Nat /\ Len(s) = t.m_size /\ pos + length < t.m_size
    BY <1>1
  <2>2. s \in Seq(S)
    BY <1>2
  <2>3. /\ SubSeq(s, 1, pos) \in Seq(S) /\ Len(SubSeq(s, 1, pos)) = pos
        /\ SubSeq(s, pos + length + 1, Len(s)) \in Seq(S)
        /\ Len(SubSeq(s, pos + length + 1, Len(s))) = Len(s) - (pos + length)
    <3>1. /\ 1 \in 1 .. Len(s) + 1 /\ pos \in 0 .. Len(s)
          /\ pos + length + 1 \in 1 .. Len(s) + 1 /\ Len(s) \in 0 .. Len(s)
      BY <2>1
    <3>2. /\ SubSeq(s, 1, pos) \in Seq(S)
          /\ Len(SubSeq(s, 1, pos)) = IF 1 <= pos THEN pos - 1 + 1 ELSE 0
      BY <2>2, <3>1, Part
    <3>3. /\ SubSeq(s, pos + length + 1, Len(s)) \in Seq(S)
          /\ Len(SubSeq(s, pos + length + 1, Len(s)))
                = IF pos + length + 1 <= Len(s) THEN Len(s) - (pos + length + 1) + 1 ELSE 0
      BY <2>2, <3>1, Part
    <3>. QED  BY <2>1, <3>1, <3>2, <3>3
  <2>4. /\ SubSeq(s, 1, pos) \o SubSeq(s, pos + length + 1, Len(s)) \in Seq(S)
        /\ Len(SubSeq(s, 1, pos) \o SubSeq(s, pos + length + 1, Len(s)))
              = pos + (Len(s) - (pos + length))
    BY <2>2, <2>3, ConcatProperties
  <2>5. pos + (Len(s) - (pos + length)) = t.m_size - length
    BY <2>1
  <2>. QED  BY <2>4, <2>5
<1>3. t.m_size - length <= t.m_size
  BY <1>1
<1>. QED  BY <1>2, <1>3 DEF WellFormed, Removed, s

LEMMA ChunkText ==
    ASSUME NEW t, WellFormed(t), NEW start \in Nat, NEW size \in Nat, HasChunk(t, start, size)
    PROVE  /\ WellFormed(Text(getChunk(t, start, size)))
           /\ \A T : t.m_texts \in Seq(T) => getChunk(t, start, size) \in Seq(T)
<1>1. /\ start + 1 \in 1 .. Len(t.m_texts) + 1 /\ start + size \in 0 .. Len(t.m_texts)
  BY SizeFacts DEF WellFormed, HasChunk
<1>2. \A T : t.m_texts \in Seq(T) => getChunk(t, start, size) \in Seq(T)
  BY <1>1, Part DEF getChunk
<1>. QED  BY <1>2, TextOfSequence DEF WellFormed

\* Where the shift is in the range that either class lets through.
LEMMA RotatedText ==
    ASSUME NEW t, WellFormed(t), NEW shift \in 0 .. t.m_size
    PROVE  /\ WellFormed(Rotated(t, shift))
           /\ \A T : t.m_texts \in Seq(T) => Rotated(t, shift).m_texts \in Seq(T)
<1>. DEFINE s == t.m_texts
            first == t.m_size - shift
<1>1. t.m_size \in Nat /\ Len(s) = t.m_size
  BY SizeFacts DEF WellFormed
<1>2. ASSUME NEW S, s \in Seq(S)
      PROVE  \E u \in Seq(S) : Rotated(t, shift) = Text(u)
  <2>1. CASE shift \in {0, t.m_size, -t.m_size}
    BY <1>2, <2>1 DEF Rotated
  <2>2. CASE shift \notin {0, t.m_size, -t.m_size}
    <3>1. shift > 0 /\ first + 1 \in 1 .. Len(s) + 1 /\ first \in 0 .. Len(s)
          /\ 1 \in 1 .. Len(s) + 1 /\ t.m_size \in 0 .. Len(s)
      BY <1>1, <2>2
    <3>2. Rotated(t, shift) = Text(SubSeq(s, first + 1, t.m_size) \o SubSeq(s, 1, first))
      BY <2>2, <3>1 DEF Rotated
    <3>. HIDE DEF s, first
    <3>3. SubSeq(s, first + 1, t.m_size) \in Seq(S) /\ SubSeq(s, 1, first) \in Seq(S)
      BY <1>2, <3>1, Part
    <3>4. SubSeq(s, first + 1, t.m_size) \o SubSeq(s, 1, first) \in Seq(S)
      BY <3>3, ConcatProperties
    <3>. QED  BY <3>2, <3>4
  <2>. QED  BY <2>1, <2>2
<1>3. \A T : s \in Seq(T) => Rotated(t, shift).m_texts \in Seq(T)
  BY <1>2 DEF Text
<1>4. PICK S : s \in Seq(S)
  BY DEF WellFormed, s
<1>. QED  BY <1>2, <1>3, <1>4, TextOfSequence

-----------------------------------------------------------------------------
(* The invariant.                                                          *)

Mine == {x \in CipherName : Assigned(x)}

\* The ciphertexts are containers within their bound.
CipherOK(x) ==
    LET ct == cipher[x]
    IN  /\ ct = [m_texts |-> ct.m_texts, m_size |-> ct.m_size, m_pk |-> ct.m_pk]
        /\ WellFormed(ct) /\ ct.m_size <= MaxSize

ContainersOK ==
    /\ cipher = [x \in CipherName |-> cipher[x]]
    /\ \A x \in Mine : CipherOK(x)
    /\ plain # None => WellFormed(plain) /\ plain.m_size <= MaxSize
    /\ archive # None /\ archive.kind = "cipher" =>
          /\ \E S : archive.texts \in Seq(S)
          /\ archive.size = Len(archive.texts) /\ archive.size <= MaxSize

\* The key objects in use: each is pointed to by the ciphertexts it is listed with and
\* by no other, and has one value for all of them.
KeyObjectsOK ==
    /\ Mine = UNION sharers
    /\ \A o, p \in sharers : o \cap p # {} => o = p
    /\ \A o \in sharers : \A x, y \in o : KeyOf(x) = KeyOf(y)

\* A key has a modulus.
KeysOK ==
    /\ "m_n" \in DOMAIN pub
    /\ \A x \in Mine : "m_n" \in DOMAIN KeyOf(x)

TextsInv == ContainersOK /\ KeyObjectsOK /\ KeysOK

LEMMA TextsInit == Init => TextsInv
<1>. SUFFICES ASSUME Init PROVE TextsInv
  OBVIOUS
<1>1. Mine = {}
  BY DEF Init, Mine, Assigned
<1>2. ContainersOK
  <2>1. archive # None /\ archive.kind = "cipher" =>
          /\ \E S : archive.texts \in Seq(S)
          /\ archive.size = Len(archive.texts) /\ archive.size <= MaxSize
    <3>. SUFFICES ASSUME NEW n \in Earlier, archive.texts = <<n + 1>>, archive.size = 1
                  PROVE  /\ \E S : archive.texts \in Seq(S)
                         /\ archive.size = Len(archive.texts) /\ archive.size <= MaxSize
      BY DEF Init
    <3>1. <<n + 1>> \in Seq({n + 1}) /\ Len(<<n + 1>>) = 1
      OBVIOUS
    <3>2. 1 <= MaxSize
      BY PaillierAssumption
    <3>. QED  BY <3>1, <3>2
  <2>. QED  BY <1>1, <2>1 DEF Init, ContainersOK
<1>3. KeyObjectsOK
  BY <1>1 DEF Init, KeyObjectsOK
<1>4. KeysOK
  BY <1>1 DEF Init, KeysOK, NoPublicKey
<1>. QED  BY <1>2, <1>3, <1>4 DEF TextsInv

-----------------------------------------------------------------------------
(* Key objects.                                                            *)

\* The object that an assigned ciphertext points to.
LEMMA SharersFacts ==
    ASSUME TextsInv, NEW x \in Mine
    PROVE  /\ Sharers(x) \in sharers /\ x \in Sharers(x) /\ Sharers(x) \subseteq Mine
           /\ \A o \in sharers : x \in o => o = Sharers(x)
           /\ \A y \in Sharers(x) : KeyOf(y) = KeyOf(x)
<1>. USE DEF TextsInv, KeyObjectsOK
<1>1. PICK o \in sharers : x \in o
  OBVIOUS
<1>2. \A p \in sharers : x \in p => p = o
  BY <1>1
<1>3. Sharers(x) = o
  BY <1>1, <1>2 DEF Sharers
<1>. QED  BY <1>1, <1>2, <1>3

\* x lets go of its object, and so it does in all of them.
LEMMA WithoutFacts ==
    ASSUME TextsInv, NEW x \in CipherName
    PROVE  /\ UNION Without(x) = Mine \ {x}
           /\ \A o, p \in Without(x) : o \cap p # {} => o = p
           /\ \A o \in Without(x) : \A y, z \in o : y # x /\ KeyOf(y) = KeyOf(z)
<1>. USE DEF TextsInv, KeyObjectsOK
<1>1. \A o : o \in Without(x) <=> o # {} /\ \E p \in sharers : o = p \ {x}
  BY DEF Without
<1>2. UNION Without(x) = Mine \ {x}
  <2>1. ASSUME NEW y \in UNION Without(x) PROVE y \in Mine \ {x}
    BY <1>1
  <2>2. ASSUME NEW y \in Mine \ {x} PROVE y \in UNION Without(x)
    <3>1. PICK p \in sharers : y \in p
      OBVIOUS
    <3>2. p \ {x} \in Without(x) /\ y \in p \ {x}
      BY <1>1, <2>2, <3>1
    <3>. QED  BY <3>2
  <2>. QED  BY <2>1, <2>2
<1>3. ASSUME NEW o \in Without(x), NEW p \in Without(x), o \cap p # {}
      PROVE  o = p
  <2>1. PICK a \in sharers, b \in sharers : o = a \ {x} /\ p = b \ {x}
    BY <1>1
  <2>2. a \cap b # {}
    BY <1>3, <2>1
  <2>. QED  BY <2>1, <2>2
<1>4. ASSUME NEW o \in Without(x), NEW y \in o, NEW z \in o
      PROVE  y # x /\ KeyOf(y) = KeyOf(z)
  BY <1>1
<1>. QED  BY <1>2, <1>3, <1>4

\* A ciphertext with a key object of its own.
LEMMA BecomeStep ==
    ASSUME NoneIsNothing, TextsInv, NEW x \in CipherName,
           NEW t, WellFormed(t), NEW key, "m_n" \in DOMAIN key, Become(x, t, key),
           "m_n" \in DOMAIN pub'
    PROVE  TextsInv'
<1>1. /\ t.m_size <= MaxSize
      /\ cipher' = [cipher EXCEPT ![x] = [m_texts |-> t.m_texts, m_size |-> t.m_size, m_pk |-> key]]
      /\ sharers' = Without(x) \cup {{x}}
      /\ UNCHANGED <<plain, archive>>
  BY DEF Become
<1>2. cipher = [y \in CipherName |-> cipher[y]]
  BY DEF TextsInv, ContainersOK
<1>3. /\ cipher' = [y \in CipherName |-> cipher'[y]]
      /\ cipher'[x] = [m_texts |-> t.m_texts, m_size |-> t.m_size, m_pk |-> key]
      /\ \A y \in CipherName \ {x} : cipher'[y] = cipher[y]
  BY <1>1, <1>2
<1>4. Mine' = Mine \cup {x}
  BY <1>3 DEF Mine, Assigned, NoneIsNothing
<1>5. ContainersOK'
  <2>1. CipherOK(x)'
    BY <1>1, <1>3 DEF CipherOK, WellFormed
  <2>2. \A y \in Mine \ {x} : CipherOK(y)'
    BY <1>3 DEF TextsInv, ContainersOK, CipherOK, Mine
  <2>. QED  BY <1>1, <1>3, <1>4, <2>1, <2>2 DEF TextsInv, ContainersOK
<1>6. KeyObjectsOK'
  <2>1. /\ UNION Without(x) = Mine \ {x}
        /\ \A o, p \in Without(x) : o \cap p # {} => o = p
        /\ \A o \in Without(x) : \A y, z \in o : y # x /\ KeyOf(y) = KeyOf(z)
    BY WithoutFacts
  <2>2. Mine' = UNION sharers'
    <3>1. UNION sharers' = (UNION Without(x)) \cup {x}
      BY <1>1
    <3>. QED  BY <1>4, <2>1, <3>1
  <2>3. \A o, p \in sharers' : o \cap p # {} => o = p
    BY <1>1, <2>1
  <2>4. ASSUME NEW o \in sharers', NEW y \in o, NEW z \in o PROVE KeyOf(y)' = KeyOf(z)'
    <3>1. CASE o = {x}
      BY <3>1
    <3>2. CASE o \in Without(x)
      <4>1. y \in CipherName \ {x} /\ z \in CipherName \ {x}
        BY <2>1, <3>2 DEF Mine
      <4>. QED  BY <1>3, <2>1, <3>2, <4>1 DEF KeyOf
    <3>. QED  BY <1>1, <3>1, <3>2
  <2>. QED  BY <2>2, <2>3, <2>4 DEF KeyObjectsOK
<1>7. KeysOK'
  BY <1>3, <1>4 DEF TextsInv, KeysOK, KeyOf, Mine
<1>. QED  BY <1>5, <1>6, <1>7 DEF TextsInv

\* The texts of a ciphertext are changed where they are.
LEMMA EditStep ==
    ASSUME NoneIsNothing, TextsInv, NEW x \in Mine,
           NEW t, WellFormed(t), Edit(x, t), UNCHANGED pub
    PROVE  TextsInv'
<1>1. /\ t.m_size <= MaxSize
      /\ cipher' = [cipher EXCEPT ![x].m_texts = t.m_texts, ![x].m_size = t.m_size]
      /\ UNCHANGED <<sharers, plain, archive>>
  BY DEF Edit
<1>2. cipher = [y \in CipherName |-> cipher[y]] /\ x \in CipherName /\ CipherOK(x)
  BY DEF TextsInv, ContainersOK, Mine
<1>3. /\ cipher' = [y \in CipherName |-> cipher'[y]]
      /\ cipher'[x] = [m_texts |-> t.m_texts, m_size |-> t.m_size, m_pk |-> KeyOf(x)]
      /\ \A y \in CipherName \ {x} : cipher'[y] = cipher[y]
  BY <1>1, <1>2 DEF CipherOK, KeyOf
<1>4. Mine' = Mine
  BY <1>3 DEF Mine, Assigned, NoneIsNothing
<1>5. \A y \in CipherName : KeyOf(y)' = KeyOf(y)
  BY <1>3 DEF KeyOf
<1>6. ContainersOK'
  <2>1. CipherOK(x)'
    <3>1. PICK S : t.m_texts \in Seq(S)
      BY DEF WellFormed
    <3>2. t.m_size = Len(t.m_texts)
      BY DEF WellFormed
    <3>3. /\ cipher'[x].m_texts = t.m_texts /\ cipher'[x].m_size = t.m_size
          /\ cipher'[x].m_pk = KeyOf(x)
      BY <1>3
    <3>. QED  BY <1>1, <1>3, <3>1, <3>2, <3>3 DEF CipherOK, WellFormed
  <2>2. \A y \in Mine \ {x} : CipherOK(y)'
    BY <1>3 DEF TextsInv, ContainersOK, CipherOK, Mine
  <2>. QED  BY <1>1, <1>3, <1>4, <2>1, <2>2 DEF TextsInv, ContainersOK
<1>7. \A o \in sharers : o \subseteq CipherName
  BY DEF TextsInv, KeyObjectsOK, Mine
<1>8. KeyObjectsOK' /\ KeysOK'
  BY <1>1, <1>4, <1>5, <1>7 DEF TextsInv, KeyObjectsOK, KeysOK, Mine
<1>. QED  BY <1>6, <1>8 DEF TextsInv

\* operator=: x points to the object of y.
LEMMA AssignStep ==
    ASSUME NoneIsNothing, TextsInv, NEW x \in CipherName, NEW y \in CipherName, Assign(x, y)
    PROVE  TextsInv' /\ \A z \in CipherName \ {x} : cipher'[z] = cipher[z]
<1>1. /\ x # y /\ y \in Mine
      /\ cipher' = [cipher EXCEPT ![x] = cipher[y]]
      /\ sharers' = {IF y \in o THEN o \cup {x} ELSE o : o \in Without(x)}
      /\ UNCHANGED <<pub, plain, archive>>
  BY DEF Assign, TextStep, Mine
<1>2. cipher = [z \in CipherName |-> cipher[z]]
  BY DEF TextsInv, ContainersOK
<1>3. /\ cipher' = [z \in CipherName |-> cipher'[z]]
      /\ cipher'[x] = cipher[y]
      /\ \A z \in CipherName \ {x} : cipher'[z] = cipher[z]
  BY <1>1, <1>2
<1>4. Mine' = Mine \cup {x}
  BY <1>1, <1>3 DEF Mine, Assigned
<1>5. ContainersOK'
  <2>1. CipherOK(x)'
    BY <1>1, <1>3 DEF TextsInv, ContainersOK, CipherOK, Mine
  <2>2. \A z \in Mine \ {x} : CipherOK(z)'
    BY <1>3 DEF TextsInv, ContainersOK, CipherOK, Mine
  <2>. QED  BY <1>1, <1>3, <1>4, <2>1, <2>2 DEF TextsInv, ContainersOK
<1>6. KeyObjectsOK'
  <2>. DEFINE Joined(o) == IF y \in o THEN o \cup {x} ELSE o
  <2>1. /\ UNION Without(x) = Mine \ {x}
        /\ \A o, p \in Without(x) : o \cap p # {} => o = p
        /\ \A o \in Without(x) : \A z, w \in o : z # x /\ KeyOf(z) = KeyOf(w)
    BY WithoutFacts
  <2>2. \A p : p \in sharers' <=> \E o \in Without(x) : p = Joined(o)
    BY <1>1
  <2>3. \A o \in Without(x) : /\ x \notin o
                              /\ \A z : z \in Joined(o) <=> z \in o \/ (z = x /\ y \in o)
    BY <2>1
  <2>4. PICK yo \in Without(x) : y \in yo
    BY <1>1, <2>1
  <2>. HIDE DEF Joined
  <2>5. Mine' = UNION sharers'
    <3>1. ASSUME NEW z \in Mine' PROVE z \in UNION sharers'
      <4>1. CASE z = x
        BY <2>2, <2>3, <2>4, <4>1
      <4>2. CASE z # x
        <5>1. PICK o \in Without(x) : z \in o
          BY <1>4, <2>1, <3>1, <4>2
        <5>2. z \in Joined(o) /\ Joined(o) \in sharers'
          BY <2>2, <2>3, <5>1
        <5>. QED  BY <5>2
      <4>. QED  BY <4>1, <4>2
    <3>2. ASSUME NEW p \in sharers', NEW z \in p PROVE z \in Mine'
      <4>1. PICK o \in Without(x) : p = Joined(o)
        BY <2>2
      <4>2. z \in o \/ z = x
        BY <2>3, <4>1
      <4>. QED  BY <1>4, <2>1, <4>2
    <3>. QED  BY <3>1, <3>2
  <2>6. ASSUME NEW p \in sharers', NEW q \in sharers', p \cap q # {} PROVE p = q
    <3>1. PICK o \in Without(x), r \in Without(x) : p = Joined(o) /\ q = Joined(r)
      BY <2>2
    <3>2. PICK z : z \in Joined(o) /\ z \in Joined(r)
      BY <2>6, <3>1
    <3>3. o \cap r # {}
      BY <2>3, <3>2
    <3>. QED  BY <2>1, <3>1, <3>3
  <2>7. ASSUME NEW p \in sharers', NEW z \in p, NEW w \in p PROVE KeyOf(z)' = KeyOf(w)'
    <3>1. PICK o \in Without(x) : p = Joined(o)
      BY <2>2
    <3>2. \A u \in o : u \in CipherName /\ u # x
      BY <2>1 DEF Mine
    <3>3. CASE y \in o
      <4>1. \A u \in p : KeyOf(u)' = KeyOf(y)
        BY <1>3, <2>1, <2>3, <3>1, <3>2, <3>3 DEF KeyOf
      <4>. QED  BY <4>1
    <3>4. CASE y \notin o
      <4>1. p = o
        BY <3>1, <3>4 DEF Joined
      <4>. QED  BY <1>3, <2>1, <3>2, <4>1 DEF KeyOf
    <3>. QED  BY <3>3, <3>4
  <2>. QED  BY <2>5, <2>6, <2>7 DEF KeyObjectsOK
<1>7. KeysOK'
  BY <1>1, <1>3, <1>4 DEF TextsInv, KeysOK, KeyOf, Mine
<1>. QED  BY <1>3, <1>5, <1>6, <1>7 DEF TextsInv

LEMMA LoadedKey ==
    ASSUME NEW key, "m_n" \in DOMAIN key, NEW from
    PROVE  Loaded(key, from).m_n = from.m_n /\ "m_n" \in DOMAIN Loaded(key, from)
BY DEF Loaded, Created

\* What another ciphertext shows of itself is as before, or it is still none.
Untouched(x) ==
    IF Assigned(x) THEN /\ Assigned(x)'
                        /\ cipher'[x].m_texts = cipher[x].m_texts
                        /\ cipher'[x].m_size = cipher[x].m_size
                        /\ KeyOf(x)'.m_n = KeyOf(x).m_n
                   ELSE ~Assigned(x)'

\* load: the object that x points to gets the key of the archive, and with it all who
\* share it.
LEMMA LoadEffect ==
    ASSUME NoneIsNothing, TextsInv, NEW x \in CipherName, LoadCipherText(x)
    PROVE  /\ x \in Mine /\ Mine' = Mine
           /\ cipher' = [y \in CipherName |-> cipher'[y]]
           /\ cipher'[x] = [m_texts |-> archive.texts, m_size |-> archive.size,
                            m_pk |-> Loaded(KeyOf(x), archive.key)]
           /\ cipher'[x].m_texts = archive.texts /\ cipher'[x].m_size = archive.size
           /\ \A y \in Sharers(x) : y # x =>
                 /\ cipher'[y] = [m_texts |-> cipher[y].m_texts, m_size |-> cipher[y].m_size,
                                  m_pk |-> Loaded(KeyOf(x), archive.key)]
                 /\ cipher'[y].m_texts = cipher[y].m_texts /\ cipher'[y].m_size = cipher[y].m_size
           /\ \A y \in Sharers(x) : KeyOf(y)' = Loaded(KeyOf(x), archive.key)
           /\ \A y \in CipherName \ Sharers(x) : cipher'[y] = cipher[y]
<1>. DEFINE rekeyed == [y \in CipherName |->
              IF y \in Sharers(x) THEN [cipher[y] EXCEPT !.m_pk = Loaded(@, archive.key)]
                                  ELSE cipher[y]]
<1>1. /\ x \in Mine /\ MayLoad(x) /\ archive # None /\ archive.kind = "cipher"
      /\ cipher' = [rekeyed EXCEPT ![x].m_texts = archive.texts, ![x].m_size = archive.size]
      /\ UNCHANGED <<pub, sharers, plain, archive>>
  BY DEF LoadCipherText, TextStep, Mine
<1>2. /\ Sharers(x) \in sharers /\ x \in Sharers(x) /\ Sharers(x) \subseteq Mine
      /\ \A o \in sharers : x \in o => o = Sharers(x)
      /\ \A y \in Sharers(x) : KeyOf(y) = KeyOf(x)
  BY <1>1, SharersFacts
<1>3. \A y \in Mine : CipherOK(y) /\ y \in CipherName
  BY DEF TextsInv, ContainersOK, Mine
<1>. DEFINE key == Loaded(KeyOf(x), archive.key)
<1>4. /\ cipher' = [y \in CipherName |-> cipher'[y]]
      /\ \A y \in CipherName \ Sharers(x) : cipher'[y] = cipher[y]
  BY <1>1, <1>2
<1>5. ASSUME NEW y \in Sharers(x)
      PROVE  rekeyed[y] = [m_texts |-> cipher[y].m_texts, m_size |-> cipher[y].m_size, m_pk |-> key]
  <2>1. y \in CipherName /\ CipherOK(y) /\ cipher[y].m_pk = KeyOf(x)
    BY <1>2, <1>3 DEF KeyOf
  <2>2. rekeyed[y] = [cipher[y] EXCEPT !.m_pk = Loaded(cipher[y].m_pk, archive.key)]
    BY <2>1
  <2>. HIDE DEF rekeyed
  <2>. QED  BY <2>1, <2>2 DEF CipherOK
<1>6. ASSUME NEW y \in Sharers(x), y # x
      PROVE  /\ cipher'[y] = [m_texts |-> cipher[y].m_texts, m_size |-> cipher[y].m_size, m_pk |-> key]
             /\ cipher'[y].m_texts = cipher[y].m_texts /\ cipher'[y].m_size = cipher[y].m_size
             /\ cipher'[y].m_pk = key /\ cipher'[y] # None
  <2>1. cipher'[y] = rekeyed[y]
    BY <1>1, <1>2, <1>3, <1>6
  <2>2. cipher'[y] = [m_texts |-> cipher[y].m_texts, m_size |-> cipher[y].m_size, m_pk |-> key]
    BY <1>5, <2>1
  <2>. HIDE DEF rekeyed, key
  <2>3. cipher'[y] # None
    BY <2>2, Zenon DEF NoneIsNothing
  <2>. QED  BY <2>2, <2>3
<1>7. /\ cipher'[x] = [m_texts |-> archive.texts, m_size |-> archive.size, m_pk |-> key]
      /\ cipher'[x].m_texts = archive.texts /\ cipher'[x].m_size = archive.size
      /\ cipher'[x].m_pk = key /\ cipher'[x] # None
  <2>1. cipher'[x] = [rekeyed[x] EXCEPT !.m_texts = archive.texts, !.m_size = archive.size]
    BY <1>1, <1>3
  <2>2. rekeyed[x] = [m_texts |-> cipher[x].m_texts, m_size |-> cipher[x].m_size, m_pk |-> key]
    BY <1>2, <1>5
  <2>. HIDE DEF rekeyed, key
  <2>. DEFINE r == rekeyed[x]
  <2>3. cipher'[x] = [m_texts |-> archive.texts, m_size |-> archive.size, m_pk |-> key]
    <3>1. r = [m_texts |-> cipher[x].m_texts, m_size |-> cipher[x].m_size, m_pk |-> key]
      BY <2>2
    <3>2. cipher'[x] = [r EXCEPT !.m_texts = archive.texts, !.m_size = archive.size]
      BY <2>1
    <3>. HIDE DEF r
    <3>. QED  BY <3>1, <3>2
  <2>4. cipher'[x] # None
    BY <2>3, Zenon DEF NoneIsNothing
  <2>. QED  BY <2>3, <2>4
<1>. HIDE DEF rekeyed, key
<1>8. Mine' = Mine
  <2>1. ASSUME NEW y \in CipherName PROVE y \in Mine' <=> y \in Mine
    BY <1>1, <1>2, <1>4, <1>6, <1>7 DEF Mine, Assigned
  <2>. QED  BY <2>1 DEF Mine
<1>9. \A y \in Sharers(x) : KeyOf(y)' = key
  BY <1>6, <1>7 DEF KeyOf
<1>. QED  BY <1>1, <1>4, <1>6, <1>7, <1>8, <1>9 DEF key

\* None of them sees another modulus.
LEMMA LoadStep ==
    ASSUME NoneIsNothing, TextsInv, NEW x \in CipherName, LoadCipherText(x)
    PROVE  TextsInv' /\ \A y \in CipherName \ {x} : Untouched(y)
<1>. DEFINE key == Loaded(KeyOf(x), archive.key)
<1>1. /\ x \in Mine /\ MayLoad(x) /\ archive # None /\ archive.kind = "cipher"
      /\ UNCHANGED <<pub, sharers, plain, archive>>
  BY DEF LoadCipherText, TextStep, Mine
<1>2. /\ Sharers(x) \in sharers /\ x \in Sharers(x) /\ Sharers(x) \subseteq Mine
      /\ \A o \in sharers : x \in o => o = Sharers(x)
      /\ \A y \in Sharers(x) : KeyOf(y) = KeyOf(x)
  BY <1>1, SharersFacts
<1>3. \A y \in Mine : CipherOK(y) /\ y \in CipherName
  BY DEF TextsInv, ContainersOK, Mine
<1>4. key.m_n = archive.key.m_n /\ "m_n" \in DOMAIN key
  BY <1>1, LoadedKey DEF TextsInv, KeysOK
<1>5. /\ Mine' = Mine
      /\ cipher' = [y \in CipherName |-> cipher'[y]]
      /\ \A y \in CipherName \ Sharers(x) : cipher'[y] = cipher[y]
      /\ \A y \in Sharers(x) : KeyOf(y)' = key
  BY LoadEffect
<1>6. /\ cipher'[x] = [m_texts |-> archive.texts, m_size |-> archive.size, m_pk |-> key]
      /\ cipher'[x].m_texts = archive.texts /\ cipher'[x].m_size = archive.size
      /\ \A y \in Sharers(x) : y # x =>
            /\ cipher'[y] = [m_texts |-> cipher[y].m_texts, m_size |-> cipher[y].m_size, m_pk |-> key]
            /\ cipher'[y].m_texts = cipher[y].m_texts /\ cipher'[y].m_size = cipher[y].m_size
  BY LoadEffect
<1>. HIDE DEF key
<1>7. \A y \in Mine \ Sharers(x) : KeyOf(y)' = KeyOf(y)
  BY <1>3, <1>5 DEF KeyOf
<1>8. ContainersOK'
  <2>1. CipherOK(x)'
    <3>1. /\ \E S : archive.texts \in Seq(S)
          /\ archive.size = Len(archive.texts) /\ archive.size <= MaxSize
      BY <1>1 DEF TextsInv, ContainersOK
    <3>2. cipher'[x].m_pk = key
      BY <1>6
    <3>. QED  BY <1>6, <3>1, <3>2 DEF CipherOK, WellFormed
  <2>2. ASSUME NEW y \in Sharers(x), y # x PROVE CipherOK(y)'
    <3>1. CipherOK(y)
      BY <1>2, <1>3
    <3>2. cipher'[y] = [m_texts |-> cipher[y].m_texts, m_size |-> cipher[y].m_size, m_pk |-> key]
      BY <1>6, <2>2
    <3>3. cipher'[y].m_pk = key
      BY <3>2
    <3>. QED  BY <1>6, <2>2, <3>1, <3>2, <3>3 DEF CipherOK, WellFormed
  <2>3. ASSUME NEW y \in Mine \ Sharers(x) PROVE CipherOK(y)'
    BY <1>3, <1>5 DEF CipherOK
  <2>. QED  BY <1>1, <1>5, <2>1, <2>2, <2>3 DEF TextsInv, ContainersOK
<1>9. KeyObjectsOK'
  <2>1. ASSUME NEW o \in sharers, NEW y \in o, NEW z \in o PROVE KeyOf(y)' = KeyOf(z)'
    <3>1. CASE o = Sharers(x)
      BY <1>5, <3>1
    <3>2. CASE o # Sharers(x)
      <4>1. o \cap Sharers(x) = {} /\ y \in Mine /\ z \in Mine
        BY <1>2, <3>2 DEF TextsInv, KeyObjectsOK
      <4>. QED  BY <1>7, <4>1 DEF TextsInv, KeyObjectsOK
    <3>. QED  BY <3>1, <3>2
  <2>. QED  BY <1>1, <1>5, <2>1 DEF TextsInv, KeyObjectsOK
<1>10. KeysOK'
  BY <1>1, <1>4, <1>5, <1>7 DEF TextsInv, KeysOK
<1>11. ASSUME NEW y \in CipherName \ {x} PROVE Untouched(y)
  <2>1. CASE y \in Sharers(x)
    <3>1. KeyOf(x).m_n = archive.key.m_n
      BY <1>1, <1>11, <2>1 DEF MayLoad
    <3>2. KeyOf(y).m_n = KeyOf(x).m_n /\ KeyOf(y)'.m_n = archive.key.m_n
      BY <1>2, <1>4, <1>5, <2>1
    <3>3. cipher'[y].m_texts = cipher[y].m_texts /\ cipher'[y].m_size = cipher[y].m_size
      BY <1>6, <1>11, <2>1
    <3>4. Assigned(y) /\ Assigned(y)'
      BY <1>2, <1>5, <2>1 DEF Mine
    <3>. QED  BY <3>1, <3>2, <3>3, <3>4 DEF Untouched
  <2>2. CASE y \notin Sharers(x)
    BY <1>5, <1>11, <2>2 DEF Untouched, Assigned, KeyOf
  <2>. QED  BY <2>1, <2>2
<1>. QED  BY <1>8, <1>9, <1>10, <1>11 DEF TextsInv

-----------------------------------------------------------------------------
(* The operations.                                                         *)

\* An operation on x that no other ciphertext notices.
OnlyOn(x) == \A y \in CipherName \ {x} : Untouched(y)

LEMMA OthersUntouched ==
    ASSUME NEW x \in CipherName, \A y \in CipherName \ {x} : cipher'[y] = cipher[y]
    PROVE  OnlyOn(x)
BY DEF OnlyOn, Untouched, Assigned, KeyOf

LEMMA BecomeTouchesOne ==
    ASSUME TextsInv, NEW x \in CipherName, NEW t, NEW key, Become(x, t, key)
    PROVE  OnlyOn(x)
<1>1. cipher = [y \in CipherName |-> cipher[y]]
  BY DEF TextsInv, ContainersOK
<1>2. \A y \in CipherName \ {x} : cipher'[y] = cipher[y]
  BY <1>1 DEF Become
<1>. QED  BY <1>2, OthersUntouched

LEMMA EditTouchesOne ==
    ASSUME TextsInv, NEW x \in CipherName, NEW t, Edit(x, t)
    PROVE  OnlyOn(x)
<1>1. cipher = [y \in CipherName |-> cipher[y]]
  BY DEF TextsInv, ContainersOK
<1>2. \A y \in CipherName \ {x} : cipher'[y] = cipher[y]
  BY <1>1 DEF Edit
<1>. QED  BY <1>2, OthersUntouched

LEMMA OperandFacts ==
    ASSUME TextsInv, NEW pt \in Operands
    PROVE  WellFormed(pt)
<1>1. CASE pt \in {Text(v) : v \in Plains}
  BY <1>1, TextOfSequence, PaillierAssumption
<1>2. CASE pt = plain /\ plain # None
  BY <1>2 DEF TextsInv, ContainersOK
<1>. QED  BY <1>1, <1>2 DEF Operands

LEMMA MineFacts ==
    ASSUME TextsInv, NEW x \in CipherName, Assigned(x)
    PROVE  /\ x \in Mine /\ WellFormed(cipher[x]) /\ cipher[x].m_size \in Nat
           /\ cipher[x].m_size <= MaxSize /\ "m_n" \in DOMAIN KeyOf(x)
BY SizeFacts DEF TextsInv, ContainersOK, CipherOK, KeysOK, Mine

LEMMA EncryptStep ==
    ASSUME NoneIsNothing, TextsInv, NEW x \in CipherName, Encrypt(x)
    PROVE  TextsInv' /\ OnlyOn(x)
<1>1. pub' = pub /\ "m_n" \in DOMAIN pub
  BY DEF Encrypt, TextStep, TextsInv, KeysOK
<1>2. PICK pt \in Operands :
         \/ Become(x, Text(raw_encrypt(pub, pt.m_texts)), pub)
         \/ \E o : Become(x, Text(Obfuscated(pub, raw_encrypt(pub, pt.m_texts), o)), pub)
  BY DEF Encrypt
<1>3. WellFormed(pt)
  BY OperandFacts
<1>. DEFINE ct == raw_encrypt(pub, pt.m_texts)
<1>4. ct = [i \in DOMAIN pt.m_texts |-> ct[i]] /\ DOMAIN ct = DOMAIN pt.m_texts
  BY DEF raw_encrypt
<1>. HIDE DEF ct
<1>5. CASE Become(x, Text(ct), pub)
  <2>1. WellFormed(Text(ct))
    BY <1>3, <1>4, TextOfMap
  <2>. QED  BY <1>1, <1>5, <2>1, BecomeStep, BecomeTouchesOne
<1>6. ASSUME NEW o, Become(x, Text(Obfuscated(pub, ct, o)), pub)
      PROVE  TextsInv' /\ OnlyOn(x)
  <2>. DEFINE f == Obfuscated(pub, ct, o)
  <2>1. f = [i \in DOMAIN pt.m_texts |-> f[i]]
    BY <1>4 DEF Obfuscated
  <2>. HIDE DEF f
  <2>2. WellFormed(Text(f))
    BY <1>3, <2>1, TextOfMap
  <2>3. Become(x, Text(f), pub)
    BY <1>6 DEF f
  <2>. QED  BY <1>1, <2>2, <2>3, BecomeStep, BecomeTouchesOne
<1>. QED  BY <1>2, <1>5, <1>6 DEF ct

LEMMA ArithmeticStep ==
    ASSUME NoneIsNothing, TextsInv, NEW x \in CipherName,
           AddPlainText(x) \/ MultiplyPlainText(x) \/ \E y \in CipherName : AddCipherText(x, y)
    PROVE  TextsInv' /\ OnlyOn(x)
<1>1. pub' = pub /\ Assigned(x)
  BY DEF AddPlainText, MultiplyPlainText, AddCipherText, TextStep
<1>2. WellFormed(cipher[x]) /\ "m_n" \in DOMAIN KeyOf(x) /\ "m_n" \in DOMAIN pub'
  BY <1>1, MineFacts DEF TextsInv, KeysOK
<1>3. \E b : \/ Become(x, Text(raw_add(KeyOf(x), cipher[x], b)), KeyOf(x))
             \/ Become(x, Text(raw_mul(KeyOf(x), cipher[x], b)), KeyOf(x))
  <2>1. CASE AddPlainText(x)
    BY <2>1 DEF AddPlainText
  <2>2. CASE MultiplyPlainText(x)
    BY <2>2 DEF MultiplyPlainText
  <2>3. CASE \E y \in CipherName : AddCipherText(x, y)
    BY <2>3 DEF AddCipherText
  <2>. QED  BY <2>1, <2>2, <2>3
<1>4. PICK b : \/ Become(x, Text(raw_add(KeyOf(x), cipher[x], b)), KeyOf(x))
               \/ Become(x, Text(raw_mul(KeyOf(x), cipher[x], b)), KeyOf(x))
  BY <1>3
<1>5. ASSUME NEW f, f = [i \in DOMAIN cipher[x].m_texts |-> f[i]],
             Become(x, Text(f), KeyOf(x))
      PROVE  TextsInv' /\ OnlyOn(x)
  <2>1. WellFormed(Text(f))
    BY <1>2, <1>5, TextOfMap
  <2>. QED  BY <1>2, <1>5, <2>1, BecomeStep, BecomeTouchesOne
<1>6. CASE Become(x, Text(raw_add(KeyOf(x), cipher[x], b)), KeyOf(x))
  <2>. DEFINE f == raw_add(KeyOf(x), cipher[x], b)
  <2>1. f = [i \in DOMAIN cipher[x].m_texts |-> f[i]]
    BY DEF raw_add
  <2>. QED  BY <1>5, <1>6, <2>1
<1>7. CASE Become(x, Text(raw_mul(KeyOf(x), cipher[x], b)), KeyOf(x))
  <2>. DEFINE f == raw_mul(KeyOf(x), cipher[x], b)
  <2>1. f = [i \in DOMAIN cipher[x].m_texts |-> f[i]]
    BY DEF raw_mul
  <2>. QED  BY <1>5, <1>7, <2>1
<1>. QED  BY <1>4, <1>6, <1>7

LEMMA GetCipherTextStep ==
    ASSUME NoneIsNothing, TextsInv, NEW x \in CipherName, NEW y \in CipherName, GetCipherText(x, y)
    PROVE  TextsInv' /\ OnlyOn(x)
<1>1. pub' = pub /\ Assigned(y)
  BY DEF GetCipherText, TextStep
<1>2. WellFormed(cipher[y]) /\ "m_n" \in DOMAIN KeyOf(y) /\ "m_n" \in DOMAIN pub'
  BY <1>1, MineFacts DEF TextsInv, KeysOK
<1>3. ASSUME NEW t, WellFormed(t), Become(x, t, KeyOf(y))
      PROVE  TextsInv' /\ OnlyOn(x)
  BY <1>2, <1>3, BecomeStep, BecomeTouchesOne
<1>4. ASSUME NEW e, Become(x, Text(<<e>>), KeyOf(y))
      PROVE  TextsInv' /\ OnlyOn(x)
  <2>1. <<e>> \in Seq({e})
    OBVIOUS
  <2>. QED  BY <1>3, <1>4, <2>1, TextOfSequence
<1>5. ASSUME NEW start \in 0 .. MaxSize, NEW size \in 0 .. MaxSize,
             HasChunk(cipher[y], start, size),
             Become(x, Text(getChunk(cipher[y], start, size)), KeyOf(y))
      PROVE  TextsInv' /\ OnlyOn(x)
  <2>1. start \in Nat /\ size \in Nat
    OBVIOUS
  <2>. QED  BY <1>2, <1>3, <1>5, <2>1, ChunkText
<1>. QED  BY <1>4, <1>5 DEF GetCipherText

\* The shifts that rotate lets through are those the rotation is made for.
LEMMA Halves ==
    ASSUME NEW n \in Nat
    PROVE  n \div 2 \in Int /\ (n \div 2) + (n \div 2) <= n
OBVIOUS

LEMMA ShiftsAreSmall ==
    /\ \A shift \in Shifts : Small(shift)
    /\ \A n \in Nat : n <= MaxSize => Small(n)
<1>. DEFINE h == SizeT \div 2
<1>1. SizeT \in Nat \ {0}
  BY DEF SizeT
<1>2. h \in Int /\ h + h <= SizeT
  BY <1>1, Halves
<1>3. Shifts \subseteq -h .. h - 1 /\ MaxSize \in 1 .. h - 1
  BY PaillierAssumption
<1>. HIDE DEF h
<1>4. ASSUME NEW shift \in Shifts PROVE Small(shift)
  BY <1>1, <1>2, <1>3 DEF Small
<1>5. ASSUME NEW n \in Nat, n <= MaxSize PROVE Small(n)
  BY <1>1, <1>2, <1>3, <1>5 DEF Small
<1>. QED  BY <1>4, <1>5

LEMMA RotateStep ==
    ASSUME NoneIsNothing, TextsInv, NEW x \in CipherName, RotateCipherText(x)
    PROVE  TextsInv' /\ OnlyOn(x)
<1>1. pub' = pub /\ Assigned(x)
  BY DEF RotateCipherText, TextStep
<1>2. /\ WellFormed(cipher[x]) /\ cipher[x].m_size \in Nat /\ cipher[x].m_size <= MaxSize
      /\ "m_n" \in DOMAIN KeyOf(x) /\ "m_n" \in DOMAIN pub'
  BY <1>1, MineFacts DEF TextsInv, KeysOK
<1>3. PICK shift \in Shifts :
         CipherRotates(cipher[x], shift) /\ Become(x, Rotated(cipher[x], shift), KeyOf(x))
  BY DEF RotateCipherText
<1>4. shift \in 0 .. cipher[x].m_size
  <2>1. cipher[x].m_size # 1
    BY <1>3 DEF CipherRotates
  <2>2. Small(cipher[x].m_size) /\ Small(shift)
    BY <1>2, ShiftsAreSmall
  <2>. QED  BY <1>2, <1>3, <2>1, <2>2, CipherRotatesRight
<1>. QED  BY <1>2, <1>3, <1>4, RotatedText, BecomeStep, BecomeTouchesOne

LEMMA EditSteps ==
    ASSUME NoneIsNothing, TextsInv, NEW x \in CipherName,
           RemoveText(x) \/ ClearText(x) \/ \E y \in CipherName : InsertText(x, y)
    PROVE  TextsInv' /\ OnlyOn(x)
<1>1. pub' = pub /\ Assigned(x)
  BY DEF RemoveText, ClearText, InsertText, TextStep
<1>2. x \in Mine /\ WellFormed(cipher[x])
  BY <1>1, MineFacts
<1>3. ASSUME NEW t, WellFormed(t), Edit(x, t)
      PROVE  TextsInv' /\ OnlyOn(x)
  BY <1>1, <1>2, <1>3, EditStep, EditTouchesOne
<1>4. CASE RemoveText(x)
  <2>1. PICK pos \in 0 .. MaxSize, length \in 0 .. MaxSize :
           MayRemove(cipher[x], pos, length) /\ Edit(x, Removed(cipher[x], pos, length))
    BY <1>4 DEF RemoveText
  <2>2. pos \in Nat /\ length \in Nat
    OBVIOUS
  <2>. QED  BY <1>2, <1>3, <2>1, <2>2, RemovedText
<1>5. CASE ClearText(x)
  <2>1. WellFormed(Cleared)
    <3>1. <<>> \in Seq({}) /\ Len(<<>>) = 0
      OBVIOUS
    <3>. QED  BY <3>1 DEF WellFormed, Cleared
  <2>. QED  BY <1>3, <1>5, <2>1 DEF ClearText
<1>6. ASSUME NEW y \in CipherName, InsertText(x, y)
      PROVE  TextsInv' /\ OnlyOn(x)
  <2>1. PICK pos \in 0 .. MaxSize, idx \in 0 .. MaxSize :
           /\ MayInsert(cipher[x], pos)
           /\ Edit(x, Inserted(cipher[x], pos, getElement(cipher[y], idx)))
    BY <1>6 DEF InsertText
  <2>2. pos \in Nat
    OBVIOUS
  <2>. QED  BY <1>2, <1>3, <2>1, <2>2, InsertedText
<1>. QED  BY <1>4, <1>5, <1>6

\* What another operation leaves as it is: the ciphertexts and their key objects.
LEMMA KeepsTexts ==
    ASSUME TextsInv, UNCHANGED <<cipher, sharers>>,
           "m_n" \in DOMAIN pub',
           plain' # None => WellFormed(plain') /\ plain'.m_size <= MaxSize,
           \/ UNCHANGED archive
           \/ archive'.kind # "cipher"
           \/ /\ \E S : archive'.texts \in Seq(S)
              /\ archive'.size = Len(archive'.texts) /\ archive'.size <= MaxSize
    PROVE  TextsInv' /\ \A x \in CipherName : Untouched(x)
<1>1. Mine' = Mine /\ \A x : KeyOf(x)' = KeyOf(x)
  BY DEF Mine, Assigned, KeyOf
<1>2. ContainersOK'
  BY <1>1 DEF TextsInv, ContainersOK, CipherOK, WellFormed
<1>3. KeyObjectsOK' /\ KeysOK'
  BY <1>1 DEF TextsInv, KeyObjectsOK, KeysOK
<1>4. \A x \in CipherName : Untouched(x)
  BY <1>1 DEF Untouched, Assigned
<1>. QED  BY <1>2, <1>3, <1>4 DEF TextsInv

LEMMA SaveStep ==
    ASSUME TextsInv, NEW x \in CipherName, SaveCipherText(x)
    PROVE  TextsInv' /\ \A y \in CipherName : Untouched(y)
<1>1. /\ UNCHANGED <<pub, cipher, sharers, plain>> /\ Assigned(x)
      /\ archive' = [kind |-> "cipher", texts |-> cipher[x].m_texts, size |-> cipher[x].m_size,
                     key |-> KeyOf(x)]
  BY DEF SaveCipherText, TextStep
<1>2. WellFormed(cipher[x]) /\ cipher[x].m_size <= MaxSize
  BY <1>1, MineFacts
<1>3. archive'.texts = cipher[x].m_texts /\ archive'.size = cipher[x].m_size
  BY <1>1
<1>4. /\ \E S : archive'.texts \in Seq(S)
      /\ archive'.size = Len(archive'.texts) /\ archive'.size <= MaxSize
  BY <1>2, <1>3 DEF WellFormed
<1>5. /\ plain' # None => WellFormed(plain') /\ plain'.m_size <= MaxSize
      /\ "m_n" \in DOMAIN pub'
  BY <1>1 DEF TextsInv, ContainersOK, KeysOK
<1>. QED  BY <1>1, <1>4, <1>5, KeepsTexts

\* A plaintext is only rotated by nothing: see PlainNeverRotates.
LEMMA PlainStep ==
    ASSUME TextsInv, ClearPlain \/ RotatePlainText \/ \E x \in CipherName : Decrypt(x)
    PROVE  TextsInv' /\ \A x \in CipherName : Untouched(x)
<1>1. UNCHANGED <<pub, cipher, sharers, archive>> /\ "m_n" \in DOMAIN pub'
  BY DEF ClearPlain, RotatePlainText, Decrypt, TextStep, TextsInv, KeysOK
<1>2. WellFormed(plain') /\ plain'.m_size <= MaxSize
  <2>1. CASE ClearPlain
    <3>1. <<>> \in Seq({}) /\ Len(<<>>) = 0 /\ 0 <= MaxSize
      BY PaillierAssumption, ShiftsAreSmall
    <3>. QED  BY <2>1, <3>1 DEF ClearPlain, Cleared, WellFormed
  <2>2. CASE RotatePlainText
    <3>1. PICK shift \in Shifts : PlainRotates(plain, shift) /\ plain' = Rotated(plain, shift)
      BY <2>2 DEF RotatePlainText
    <3>2. WellFormed(plain) /\ plain.m_size \in Nat /\ plain.m_size <= MaxSize
      BY <2>2, SizeFacts DEF RotatePlainText, TextsInv, ContainersOK
    <3>3. Small(plain.m_size) /\ Small(shift)
      BY <3>2, ShiftsAreSmall
    <3>4. plain.m_size = 0
      BY <3>1, <3>2, <3>3, PlainNeverRotates
    <3>5. shift = 0
      <4>1. AsSize(shift) <= 0
        BY <3>1, <3>4 DEF PlainRotates
      <4>. QED  BY <3>3, <4>1, Conversion DEF Small
    <3>6. WellFormed(Rotated(plain, shift)) /\ Rotated(plain, shift) = Text(plain.m_texts)
      BY <3>2, <3>4, <3>5, RotatedText DEF Rotated
    <3>7. plain'.m_size = plain.m_size
      BY <3>1, <3>2, <3>6 DEF WellFormed, Text
    <3>. QED  BY <3>1, <3>2, <3>6, <3>7
  <2>3. ASSUME NEW x \in CipherName, Decrypt(x) PROVE WellFormed(plain') /\ plain'.m_size <= MaxSize
    <3>. DEFINE f == [i \in 1 .. cipher[x].m_size |-> decryption(pri, cipher[x].m_texts[i])]
    <3>1. plain' = Text(f) /\ Assigned(x)
      BY <2>3 DEF Decrypt
    <3>2. f = [i \in 1 .. cipher[x].m_size |-> f[i]]
      OBVIOUS
    <3>. HIDE DEF f
    <3>3. cipher[x].m_size \in Nat /\ cipher[x].m_size <= MaxSize
      BY <3>1, MineFacts
    <3>4. WellFormed(Text(f)) /\ Len(f) = cipher[x].m_size
      BY <3>2, <3>3, TextOfFunction
    <3>. QED  BY <3>1, <3>3, <3>4 DEF Text
  <2>. QED  BY <2>1, <2>2, <2>3
<1>. QED  BY <1>1, <1>2, KeepsTexts

\* The operations on keys leave the texts alone, and keep a modulus in the key.
LEMMA KeysKept ==
    ASSUME TextsInv, KeyNext
    PROVE  TextsInv' /\ \A x \in CipherName : Untouched(x)
<1>1. UNCHANGED <<cipher, sharers, plain>>
  BY DEF KeyNext, KeyStep, GenerateKeypair, CreatePublicKey, CreatePrivateKey, EnableDJN, SetDJN,
         SetRandom, EnableCRT, SaveKey, LoadPublicKey, LoadPrivateKey
<1>2. UNCHANGED archive \/ archive'.kind # "cipher"
  <2>1. CASE SaveKey
    <3>1. ASSUME archive' = [kind |-> "public", key |-> pub] PROVE archive'.kind = "public"
      BY <3>1
    <3>2. ASSUME archive' = [kind |-> "private", p |-> pri.m_p, q |-> pri.m_q]
          PROVE  archive'.kind = "private"
      BY <3>2
    <3>. QED  BY <2>1, <3>1, <3>2 DEF SaveKey
  <2>2. CASE UNCHANGED archive
    BY <2>2
  <2>. QED  BY <2>1, <2>2 DEF KeyNext, GenerateKeypair, CreatePublicKey, CreatePrivateKey,
            EnableDJN, SetDJN, SetRandom, EnableCRT, LoadPublicKey, LoadPrivateKey
<1>3. "m_n" \in DOMAIN pub /\ "m_n" \in DOMAIN NoPublicKey
  BY DEF TextsInv, KeysOK, NoPublicKey
<1>4. ASSUME NEW key, "m_n" \in DOMAIN key, NEW n, NEW bits, NEW djn, NEW new,
             new \in NewPublicKeys(key, n, bits, djn)
      PROVE  "m_n" \in DOMAIN new
  BY <1>4 DEF NewPublicKeys, EnabledDJN, Created
<1>5. "m_n" \in DOMAIN pub'
  <2>1. CASE GenerateKeypair
    BY <1>3, <1>4, <2>1 DEF GenerateKeypair
  <2>2. CASE CreatePublicKey
    BY <1>3, <1>4, <2>2 DEF CreatePublicKey
  <2>3. CASE EnableDJN
    BY <1>3, <2>3 DEF EnableDJN, EnabledDJN
  <2>4. CASE SetDJN
    BY <1>3, <2>4 DEF SetDJN
  <2>5. CASE SetRandom
    BY <1>3, <2>5 DEF SetRandom
  <2>6. CASE LoadPublicKey
    BY <1>3, <2>6, LoadedKey DEF LoadPublicKey
  <2>7. CASE pub' = pub
    BY <1>3, <2>7
  <2>. QED  BY <2>1, <2>2, <2>3, <2>4, <2>5, <2>6, <2>7
            DEF KeyNext, CreatePrivateKey, EnableCRT, SaveKey, LoadPrivateKey
<1>6. plain' # None => WellFormed(plain') /\ plain'.m_size <= MaxSize
  BY <1>1 DEF TextsInv, ContainersOK
<1>. QED  BY <1>1, <1>2, <1>5, <1>6, KeepsTexts

LEMMA EveryStep ==
    ASSUME NoneIsNothing, TextsInv, [Next]_vars
    PROVE  TextsInv' /\ \E x \in CipherName \cup {None} : \A y \in CipherName \ {x} : Untouched(y)
<1>1. ASSUME TextsInv', NEW x \in CipherName, OnlyOn(x)
      PROVE  \E z \in CipherName \cup {None} : \A y \in CipherName \ {z} : Untouched(y)
  BY <1>1 DEF OnlyOn
<1>2. ASSUME \A x \in CipherName : Untouched(x)
      PROVE  \E z \in CipherName \cup {None} : \A y \in CipherName \ {z} : Untouched(y)
  BY <1>2
<1>3. CASE KeyNext
  BY <1>2, <1>3, KeysKept
<1>4. CASE ClearPlain \/ RotatePlainText
  BY <1>2, <1>4, PlainStep
<1>5. ASSUME NEW x \in CipherName, TextNext(x)
      PROVE  TextsInv' /\ \E z \in CipherName \cup {None} : \A y \in CipherName \ {z} : Untouched(y)
  <2>1. CASE Encrypt(x)
    BY <1>1, <2>1, EncryptStep
  <2>2. CASE AddPlainText(x) \/ MultiplyPlainText(x) \/ \E y \in CipherName : AddCipherText(x, y)
    BY <1>1, <2>2, ArithmeticStep
  <2>3. CASE RotateCipherText(x)
    BY <1>1, <2>3, RotateStep
  <2>4. CASE RemoveText(x) \/ ClearText(x) \/ \E y \in CipherName : InsertText(x, y)
    BY <1>1, <2>4, EditSteps
  <2>5. CASE SaveCipherText(x)
    BY <1>2, <2>5, SaveStep
  <2>6. CASE LoadCipherText(x)
    BY <1>1, <2>6, LoadStep DEF OnlyOn
  <2>7. CASE Decrypt(x)
    BY <1>2, <2>7, PlainStep
  <2>8. ASSUME NEW y \in CipherName, GetCipherText(x, y)
        PROVE  TextsInv' /\ OnlyOn(x)
    BY <2>8, GetCipherTextStep
  <2>9. ASSUME NEW y \in CipherName, Assign(x, y)
        PROVE  TextsInv' /\ OnlyOn(x)
    BY <2>9, AssignStep, OthersUntouched
  <2>. QED  BY <1>1, <1>5, <2>1, <2>2, <2>3, <2>4, <2>5, <2>6, <2>7, <2>8, <2>9 DEF TextNext
<1>6. CASE UNCHANGED vars
  <2>1. /\ UNCHANGED <<pub, cipher, sharers, plain, archive>>
        /\ "m_n" \in DOMAIN pub'
        /\ plain' # None => WellFormed(plain') /\ plain'.m_size <= MaxSize
    BY <1>6 DEF vars, TextsInv, ContainersOK, KeysOK
  <2>. QED  BY <1>2, <2>1, KeepsTexts
<1>. QED  BY <1>3, <1>4, <1>5, <1>6 DEF Next

LEMMA TextsAlways ==
    ASSUME NoneIsNothing
    PROVE  Spec => []TextsInv
<1>1. TextsInv /\ [Next]_vars => TextsInv'
  BY EveryStep
<1>. QED  BY <1>1, TextsInit, PTL DEF Spec

-----------------------------------------------------------------------------
(* The theorems.                                                           *)

\* The sizes that a container keeps by hand (base_text.cpp: insert, remove, clear;
\* ciphertext.cpp and plaintext.cpp: rotate, getCipherText, the serialized form) are
\* those of its vector after every operation, and of what was saved.
THEOREM SizesAreKept ==
    ASSUME NoneIsNothing
    PROVE  Spec => [](/\ \A x \in CipherName :
                            Assigned(x) => cipher[x].m_size = Len(cipher[x].m_texts)
                      /\ plain # None => plain.m_size = Len(plain.m_texts)
                      /\ archive # None /\ archive.kind = "cipher" =>
                            archive.size = Len(archive.texts))
<1>1. TextsInv => /\ \A x \in CipherName :
                        Assigned(x) => cipher[x].m_size = Len(cipher[x].m_texts)
                  /\ plain # None => plain.m_size = Len(plain.m_texts)
                  /\ archive # None /\ archive.kind = "cipher" =>
                        archive.size = Len(archive.texts)
  BY DEF TextsInv, ContainersOK, CipherOK, WellFormed, Mine
<1>. QED  BY <1>1, TextsAlways, PTL

\* The shared pointers m_pk (ciphertext.cpp:11-32): every ciphertext the user has
\* assigned points to one key object, and all who point to an object see one key, also
\* after a load through one of them wrote into it (ciphertext.hpp:70-74).
THEOREM KeyObjectsShared ==
    ASSUME NoneIsNothing
    PROVE  Spec => []KeyObjectsOK
<1>1. TextsInv => KeyObjectsOK
  BY DEF TextsInv
<1>. QED  BY <1>1, TextsAlways, PTL

\* No operation on one ciphertext changes the texts, the size or the modulus of another
\* (ciphertext.cpp, base_text.cpp), though their key objects are shared and load writes
\* through the pointer: of any two ciphertexts a step touches at most one.  The user
\* does not load another modulus into a shared object (MayLoad).
THEOREM OneCipherTextAtATime ==
    ASSUME NoneIsNothing
    PROVE  Spec => [][\A x, y \in CipherName : x = y \/ Untouched(x) \/ Untouched(y)]_vars
<1>1. TextsInv /\ [Next]_vars =>
        [\A x, y \in CipherName : x = y \/ Untouched(x) \/ Untouched(y)]_vars
  <2>. SUFFICES ASSUME TextsInv, [Next]_vars, NEW x \in CipherName, NEW y \in CipherName
                PROVE  x = y \/ Untouched(x) \/ Untouched(y)
    OBVIOUS
  <2>1. PICK z \in CipherName \cup {None} : \A w \in CipherName \ {z} : Untouched(w)
    BY EveryStep
  <2>. QED  BY <2>1
<1>. QED  BY <1>1, TextsAlways, PTL DEF Spec

-----------------------------------------------------------------------------
(* The texts and the keys they are under.                                  *)

\* A key object that is in use, and what a ciphertext under it may hold.
KeyInUse(key) == SoundKey(key) /\ key.m_isInitialized /\ key.m_n \in Moduli
EncryptionsUnder(n) == {c \in Nat : \E m \in 0 .. n - 1 : Encrypts(n, m, c)}

LEMMA ModuliFacts ==
    /\ \A n \in Moduli : GoodModulus(n) /\ n \in Nat \ {0, 1}
    /\ \A key : KeyInUse(key) => /\ key.m_n \in Moduli /\ key.m_n \in Nat \ {0, 1}
                                 /\ SoundKey(key) /\ key.m_isInitialized
BY PrimesAssumption DEF GoodModulus, KeyInUse

\* Every encryption is a number below n^2.
LEMMA EncryptionNumber ==
    ASSUME NEW n \in Nat \ {0, 1}, NEW a \in Nat, NEW c, Encrypts(n, a, c)
    PROVE  c \in Nat /\ c \in Int /\ c \in 0 .. n * n - 1
<1>1. PICK r \in Coprime(n) : c = Encryption(n, a, r)
  BY DEF Encrypts
<1>2. r \in Int /\ n \in Nat \ {0}
  BY <1>1, CoprimeFacts
<1>3. Encryption(n, a, r) \in Residues(n * n)
  BY <1>2, EncryptionFactors
<1>. QED  BY <1>1, <1>3 DEF Residues

LEMMA EncryptionsUnderFacts ==
    ASSUME NEW n \in Nat \ {0, 1}
    PROVE  /\ \A c \in EncryptionsUnder(n) : c \in Nat /\ c \in Int /\ \E m \in 0 .. n - 1 : Encrypts(n, m, c)
           /\ \A c : \A m \in 0 .. n - 1 : Encrypts(n, m, c) => c \in EncryptionsUnder(n)
<1>1. ASSUME NEW c, NEW m \in 0 .. n - 1, Encrypts(n, m, c) PROVE c \in EncryptionsUnder(n)
  <2>1. m \in Nat
    OBVIOUS
  <2>2. c \in Nat
    BY <1>1, <2>1, EncryptionNumber
  <2>. QED  BY <1>1, <2>2 DEF EncryptionsUnder
<1>. QED  BY <1>1 DEF EncryptionsUnder

\* The elements that meet in an operation on two vectors.
LEMMA MetFacts ==
    ASSUME NEW a, WellFormed(a), NEW b, WellFormed(b), SizesMatch(a, b),
           NEW T, b.m_texts \in Seq(T), NEW i \in DOMAIN a.m_texts
    PROVE  Met(b, i) \in T
<1>1. /\ a.m_size \in Nat /\ DOMAIN a.m_texts = 1 .. a.m_size
      /\ b.m_size \in Nat /\ DOMAIN b.m_texts = 1 .. b.m_size
  BY SizeFacts
<1>2. \A k \in 1 .. b.m_size : b.m_texts[k] \in T
  BY <1>1, ElementOfSeq, LenProperties
<1>3. (IF b.m_size = 1 THEN 1 ELSE i) \in 1 .. b.m_size
  BY <1>1 DEF SizesMatch
<1>. QED  BY <1>2, <1>3 DEF Met

LEMMA ItemsOf ==
    ASSUME NEW t, WellFormed(t), NEW T, t.m_texts \in Seq(T), NEW i \in DOMAIN t.m_texts
    PROVE  t.m_texts[i] \in T
<1>1. t.m_size \in Nat /\ DOMAIN t.m_texts = 1 .. t.m_size
  BY SizeFacts
<1>. QED  BY <1>1, ElementOfSeq, LenProperties

\* CT + CT: element by element, the sum of the messages.
LEMMA RawAddSound ==
    ASSUME NEW key, KeyInUse(key), NEW a, WellFormed(a), NEW b, WellFormed(b), SizesMatch(a, b),
           a.m_texts \in Seq(EncryptionsUnder(key.m_n)),
           b.m_texts \in Seq(EncryptionsUnder(key.m_n))
    PROVE  /\ raw_add(key, a, b) \in Seq(EncryptionsUnder(key.m_n))
           /\ \A i \in DOMAIN a.m_texts : \A k, l \in Nat :
                 Encrypts(key.m_n, k, a.m_texts[i]) /\ Encrypts(key.m_n, l, Met(b, i)) =>
                    Encrypts(key.m_n, (k + l) % key.m_n, raw_add(key, a, b)[i])
<1>. DEFINE n == key.m_n
            f == raw_add(key, a, b)
<1>1. n \in Nat \ {0, 1} /\ n \in Nat \ {0}
  BY ModuliFacts
<1>2. /\ f = [i \in DOMAIN a.m_texts |-> f[i]]
      /\ \A i \in DOMAIN a.m_texts : f[i] = Modulo(n * n, a.m_texts[i] * Met(b, i))
  BY DEF raw_add, nsquare
<1>. HIDE DEF n, f
<1>3. ASSUME NEW i \in DOMAIN a.m_texts, NEW k \in Nat, NEW l \in Nat,
             Encrypts(n, k, a.m_texts[i]), Encrypts(n, l, Met(b, i))
      PROVE  Encrypts(n, (k + l) % n, f[i])
  <2>1. Encrypts(n, (k + l) % n, Modulo(n * n, a.m_texts[i] * Met(b, i)))
    BY <1>1, <1>3, EncryptionsAdd
  <2>. QED  BY <1>2, <2>1
<1>4. ASSUME NEW i \in DOMAIN a.m_texts PROVE f[i] \in EncryptionsUnder(n)
  <2>1. a.m_texts[i] \in EncryptionsUnder(n) /\ Met(b, i) \in EncryptionsUnder(n)
    BY MetFacts, ItemsOf DEF n
  <2>2. PICK k \in 0 .. n - 1, l \in 0 .. n - 1 :
           Encrypts(n, k, a.m_texts[i]) /\ Encrypts(n, l, Met(b, i))
    BY <2>1 DEF EncryptionsUnder
  <2>3. k \in Nat /\ l \in Nat
    OBVIOUS
  <2>4. Encrypts(n, (k + l) % n, f[i])
    BY <1>3, <2>2, <2>3
  <2>5. (k + l) % n \in 0 .. n - 1
    <3>1. k + l \in Int
      BY <2>3
    <3>. QED  BY <1>1, <3>1, ResidueFacts DEF Residues
  <2>. QED  BY <1>1, <2>4, <2>5, EncryptionsUnderFacts
<1>5. f \in Seq(EncryptionsUnder(n))
  BY <1>2, <1>4, TextOfMap
<1>. QED  BY <1>3, <1>5 DEF n, f

\* CT * PT: element by element, the product of the messages.
LEMMA RawMulSound ==
    ASSUME NEW key, KeyInUse(key), NEW a, WellFormed(a), NEW b, WellFormed(b), SizesMatch(a, b),
           a.m_texts \in Seq(EncryptionsUnder(key.m_n)), b.m_texts \in Seq(Nat)
    PROVE  /\ raw_mul(key, a, b) \in Seq(EncryptionsUnder(key.m_n))
           /\ \A i \in DOMAIN a.m_texts : \A k \in Nat :
                 Encrypts(key.m_n, k, a.m_texts[i]) =>
                    Encrypts(key.m_n, (k * Met(b, i)) % key.m_n, raw_mul(key, a, b)[i])
<1>. DEFINE n == key.m_n
            f == raw_mul(key, a, b)
<1>1. n \in Nat \ {0, 1} /\ n \in Nat \ {0}
  BY ModuliFacts
<1>2. /\ f = [i \in DOMAIN a.m_texts |-> f[i]]
      /\ \A i \in DOMAIN a.m_texts : f[i] = modExp(a.m_texts[i], Met(b, i), n * n)
  BY DEF raw_mul, nsquare
<1>. HIDE DEF n, f
<1>3. ASSUME NEW i \in DOMAIN a.m_texts, NEW k \in Nat, Encrypts(n, k, a.m_texts[i])
      PROVE  Encrypts(n, (k * Met(b, i)) % n, f[i])
  <2>1. Met(b, i) \in Nat
    BY MetFacts
  <2>2. Encrypts(n, (k * Met(b, i)) % n, modExp(a.m_texts[i], Met(b, i), n * n))
    BY <1>1, <1>3, <2>1, EncryptionsMultiply
  <2>. QED  BY <1>2, <2>2
<1>4. ASSUME NEW i \in DOMAIN a.m_texts PROVE f[i] \in EncryptionsUnder(n)
  <2>1. a.m_texts[i] \in EncryptionsUnder(n) /\ Met(b, i) \in Nat
    BY MetFacts, ItemsOf DEF n
  <2>2. PICK k \in 0 .. n - 1 : Encrypts(n, k, a.m_texts[i])
    BY <2>1 DEF EncryptionsUnder
  <2>3. k \in Nat
    OBVIOUS
  <2>4. Encrypts(n, (k * Met(b, i)) % n, f[i])
    BY <1>3, <2>2, <2>3
  <2>5. (k * Met(b, i)) % n \in 0 .. n - 1
    <3>1. k * Met(b, i) \in Int
      BY <2>1, <2>3
    <3>. QED  BY <1>1, <3>1, ResidueFacts DEF Residues
  <2>. QED  BY <1>1, <2>4, <2>5, EncryptionsUnderFacts
<1>5. f \in Seq(EncryptionsUnder(n))
  BY <1>2, <1>4, TextOfMap
<1>. QED  BY <1>3, <1>5 DEF n, f

\* raw_encrypt, and the obfuscation of what it made.
LEMMA RawEncryptSound ==
    ASSUME NEW key, KeyInUse(key), NEW pt, WellFormed(pt), pt.m_texts \in Seq(Nat)
    PROVE  /\ raw_encrypt(key, pt.m_texts) \in Seq(EncryptionsUnder(key.m_n))
           /\ \A i \in DOMAIN pt.m_texts :
                 Encrypts(key.m_n, pt.m_texts[i] % key.m_n, raw_encrypt(key, pt.m_texts)[i])
<1>. DEFINE n == key.m_n
            f == raw_encrypt(key, pt.m_texts)
<1>1. n \in Nat \ {0, 1} /\ n \in Nat \ {0}
  BY ModuliFacts
<1>2. /\ f = [i \in DOMAIN pt.m_texts |-> f[i]]
      /\ \A i \in DOMAIN pt.m_texts : f[i] = Modulo(n * n, n * pt.m_texts[i] + 1)
  BY DEF raw_encrypt, nsquare
<1>. HIDE DEF n, f
<1>3. ASSUME NEW i \in DOMAIN pt.m_texts
      PROVE  Encrypts(n, pt.m_texts[i] % n, f[i]) /\ f[i] \in EncryptionsUnder(n)
  <2>1. pt.m_texts[i] \in Nat
    BY ItemsOf
  <2>2. Encrypts(n, pt.m_texts[i] % n, f[i])
    <3>1. Encrypts(n, pt.m_texts[i] % n, Modulo(n * n, n * pt.m_texts[i] + 1))
      BY <1>1, <2>1, FreshTextsEncrypt
    <3>. QED  BY <1>2, <3>1
  <2>3. pt.m_texts[i] % n \in 0 .. n - 1
    <3>1. pt.m_texts[i] \in Int
      BY <2>1
    <3>. QED  BY <1>1, <3>1, ResidueFacts DEF Residues
  <2>. QED  BY <1>1, <2>2, <2>3, EncryptionsUnderFacts
<1>4. f \in Seq(EncryptionsUnder(n))
  BY <1>2, <1>3, TextOfMap
<1>. QED  BY <1>3, <1>4 DEF n, f

LEMMA ObfuscatedSound ==
    ASSUME NEW key, KeyInUse(key), NEW pt, WellFormed(pt), pt.m_texts \in Seq(Nat),
           key.m_testv => Len(key.m_r) = pt.m_size, NEW o \in Obfuscators(key, pt.m_size)
    PROVE  /\ Obfuscated(key, raw_encrypt(key, pt.m_texts), o) \in Seq(EncryptionsUnder(key.m_n))
           /\ \A i \in DOMAIN pt.m_texts :
                 Encrypts(key.m_n, pt.m_texts[i] % key.m_n,
                          Obfuscated(key, raw_encrypt(key, pt.m_texts), o)[i])
<1>. DEFINE n == key.m_n
            f == Obfuscated(key, raw_encrypt(key, pt.m_texts), o)
<1>1. n \in Nat \ {0, 1} /\ n \in Nat \ {0} /\ SoundKey(key) /\ key.m_isInitialized
  BY ModuliFacts
<1>2. /\ f = [i \in DOMAIN pt.m_texts |-> f[i]]
      /\ \A i \in DOMAIN pt.m_texts :
            f[i] = ModMul(n * n, Modulo(n * n, n * pt.m_texts[i] + 1), o[i])
  BY DEF raw_encrypt, Obfuscated, nsquare
<1>3. pt.m_size \in Nat /\ DOMAIN pt.m_texts = 1 .. pt.m_size
  BY SizeFacts
<1>4. \A i \in DOMAIN pt.m_texts : o[i] \in UnitPowers(n)
  BY <1>1, <1>3, ObfuscatorFacts
<1>. HIDE DEF n, f
<1>5. ASSUME NEW i \in DOMAIN pt.m_texts
      PROVE  Encrypts(n, pt.m_texts[i] % n, f[i]) /\ f[i] \in EncryptionsUnder(n)
  <2>1. pt.m_texts[i] \in Nat
    BY ItemsOf
  <2>2. Encrypts(n, pt.m_texts[i] % n, f[i])
    <3>1. Encrypts(n, pt.m_texts[i] % n,
                   ModMul(n * n, Modulo(n * n, n * pt.m_texts[i] + 1), o[i]))
      BY <1>1, <1>4, <2>1, FreshTextsEncrypt
    <3>. QED  BY <1>2, <3>1
  <2>3. pt.m_texts[i] % n \in 0 .. n - 1
    <3>1. pt.m_texts[i] \in Int
      BY <2>1
    <3>. QED  BY <1>1, <3>1, ResidueFacts DEF Residues
  <2>. QED  BY <1>1, <2>2, <2>3, EncryptionsUnderFacts
<1>6. f \in Seq(EncryptionsUnder(n))
  BY <1>2, <1>5, TextOfMap
<1>. QED  BY <1>5, <1>6 DEF n, f

-----------------------------------------------------------------------------
(* Keys.                                                                   *)

\* The keys in the user's hands are sound, and so is every key he saved.
KeysInv ==
    /\ pub = NoPublicKey \/ KeyInUse(pub)
    /\ SoundPrivateKey(pri)
    /\ pri.m_isInitialized => pri.m_n \in Moduli
    /\ archive # None =>
          /\ archive.kind = "public" => KeyInUse(archive.key)
          /\ archive.kind = "private" => /\ GoodPrimes(archive.p, archive.q)
                                         /\ archive.p * archive.q \in Moduli

LEMMA KeysInit == Init => KeysInv
<1>. SUFFICES ASSUME Init PROVE KeysInv
  OBVIOUS
<1>1. SoundPrivateKey(pri) /\ ~pri.m_isInitialized
  BY DEF Init, NoPrivateKey, SoundPrivateKey, PrivateRecords
<1>2. archive # None => archive.kind = "cipher"
  BY DEF Init
<1>. QED  BY <1>1, <1>2 DEF KeysInv, Init

\* Primes in use, in either order, and what becomes of them.
LEMMA PrimesFacts ==
    ASSUME NEW pair \in PrimesInUse
    PROVE  /\ GoodPrimes(pair[1], pair[2]) /\ GoodPrimes(pair[2], pair[1])
           /\ pair[1] * pair[2] \in Moduli /\ pair[2] * pair[1] \in Moduli
<1>1. GoodPrimes(pair[1], pair[2]) /\ pair[1] * pair[2] \in Moduli
  BY PrimesAssumption DEF Moduli
<1>2. pair[1] \in Nat /\ pair[2] \in Nat
  BY <1>1 DEF GoodPrimes, IsPrime
<1>3. pair[1] * pair[2] = pair[2] * pair[1]
  BY <1>2
<1>. QED  BY <1>1, <1>3, GoodPrimesFacts

LEMMA GeneratedPrimes ==
    ASSUME NEW p \in PrimesOf(KeyBits \div 2), NEW q \in PrimesOf(KeyBits \div 2),
           GetsDJN(p, q) \/ GetsNormal(p, q)
    PROVE  GoodPrimes(p, q) /\ p * q \in Moduli
<1>1. GetsNormal(p, q)
  BY DEF GetsDJN, GetsNormal
<1>. DEFINE pair == <<p, q>>
<1>2. pair \in PrimesInUse
  BY <1>1 DEF PrimesInUse
<1>3. pair[1] = p /\ pair[2] = q
  OBVIOUS
<1>. HIDE DEF pair
<1>. QED  BY <1>2, <1>3, PrimesFacts

\* A private key made from such primes.
LEMMA NewPrivateKeyInUse ==
    ASSUME NEW p, NEW q, GoodPrimes(p, q), p * q \in Moduli
    PROVE  /\ SoundPrivateKey(NewPrivateKey(p, q)) /\ NewPrivateKey(p, q).m_n = p * q
           /\ NewPrivateKey(p, q).m_n \in Moduli
<1>1. NewPrivateKey(p, q).m_n = p * q
  BY DEF NewPrivateKey
<1>. QED  BY <1>1, NewPrivateKeySound

LEMMA NewPublicKeyInUse ==
    ASSUME NEW key, SoundKey(key), NEW n \in Moduli, NEW bits \in Nat, bits >= 2,
           NEW djn, NEW new \in NewPublicKeys(key, n, bits, djn)
    PROVE  KeyInUse(new)
<1>1. GoodModulus(n)
  BY ModuliFacts
<1>. QED  BY <1>1, NewKeysSound DEF KeyInUse

LEMMA PublicKeySteps ==
    ASSUME KeysInv
    PROVE  /\ SoundKey(pub)
           /\ GenerateKeypair \/ CreatePublicKey \/ EnableDJN \/ SetDJN \/ SetRandom \/ LoadPublicKey
              => KeyInUse(pub')
<1>1. SoundKey(pub) /\ SoundKey(NoPublicKey) /\ (pub.m_isInitialized => KeyInUse(pub))
  BY NoKeySound DEF KeysInv, KeyInUse
<1>2. CASE GenerateKeypair
  <2>1. PICK djn \in BOOLEAN, p \in PrimesOf(KeyBits \div 2), q \in PrimesOf(KeyBits \div 2) :
           /\ GetsDJN(p, q) \/ GetsNormal(p, q)
           /\ pub' \in NewPublicKeys(NoPublicKey, p * q, KeyBits, djn)
    BY <1>2 DEF GenerateKeypair
  <2>2. p * q \in Moduli /\ KeyBits \in Nat /\ KeyBits >= 2
    BY <2>1, GeneratedPrimes, PaillierKeysAssumption
  <2>3. KeyInUse(pub')
    BY <1>1, <2>1, <2>2, NewPublicKeyInUse
  <2>. QED  BY <1>1, <2>3
<1>3. CASE CreatePublicKey
  <2>1. PICK pair \in PrimePairs, djn \in BOOLEAN, key \in {NoPublicKey, pub} :
           pub' \in NewPublicKeys(key, pair[1] * pair[2], BitSize(pair[1] * pair[2]), djn)
    BY <1>3 DEF CreatePublicKey
  <2>2. pair \in PrimesInUse
    BY DEF PrimesInUse
  <2>3. pair[1] * pair[2] \in Moduli
    BY <2>2, PrimesFacts
  <2>4. pair[1] * pair[2] \in Nat \ {0, 1}
    BY <2>3, ModuliFacts
  <2>5. BitSize(pair[1] * pair[2]) \in Nat /\ BitSize(pair[1] * pair[2]) >= 2
    BY <2>4, BitSizeFacts
  <2>6. SoundKey(key)
    BY <1>1
  <2>7. KeyInUse(pub')
    BY <2>1, <2>3, <2>5, <2>6, NewPublicKeyInUse
  <2>. QED  BY <1>1, <2>7
<1>4. CASE EnableDJN
  <2>1. pub.m_isInitialized /\ \E rand \in DJNBases(pub.m_n) : pub' = EnabledDJN(pub, rand)
    BY <1>4 DEF EnableDJN
  <2>2. PICK rand \in DJNBases(pub.m_n) : pub' = EnabledDJN(pub, rand)
    BY <2>1
  <2>3. KeyInUse(pub')
    BY <1>1, <2>1, <2>2, EnabledSound DEF KeyInUse
  <2>. QED  BY <1>1, <2>3
<1>5. CASE SetDJN
  <2>1. pub.m_isInitialized /\ KeyInUse(pub)
    BY <1>1, <1>5 DEF SetDJN
  <2>. DEFINE n == pub.m_n
  <2>2. PICK hs \in HSValues(n) :
           \/ pub' = [pub EXCEPT !.m_hs = hs, !.m_randbits = pub.m_bits \div 2,
                                 !.m_enable_DJN = TRUE]
           \/ pub' = [pub EXCEPT !.m_hs = hs]
    BY <1>5 DEF SetDJN
  <2>3. hs \in UnitPowers(n) /\ hs \in Nat
    <3>1. PICK rand \in DJNBases(n) : hs = modExp(rand, n, n * n)
      BY DEF HSValues
    <3>2. GoodModulus(n) /\ n \in Nat \ {0, 1}
      BY <2>1, ModuliFacts
    <3>3. rand \in Int /\ Unit(n, rand)
      BY <3>2, DJNBaseFacts
    <3>. HIDE DEF n
    <3>. QED  BY <3>1, <3>2, <3>3, UnitPowerFacts
  <2>4. /\ pub \in PublicRecords /\ GoodModulus(n) /\ pub.m_bits >= 2 /\ n \in Moduli
        /\ pub.m_enable_DJN => pub.m_randbits > 0
        /\ pub.m_testv => pub.m_r \in Seq(Coprime(n))
    BY <2>1 DEF KeyInUse, SoundKey
  <2>5. pub.m_bits \div 2 \in Nat /\ pub.m_bits \div 2 > 0
    <3>1. pub.m_bits \in Nat
      BY <2>4 DEF PublicRecords
    <3>. QED  BY <2>4, <3>1
  <2>6. CASE pub' = [pub EXCEPT !.m_hs = hs, !.m_randbits = pub.m_bits \div 2,
                                !.m_enable_DJN = TRUE]
    <3>1. /\ pub' \in PublicRecords /\ pub'.m_n = n /\ pub'.m_isInitialized
          /\ pub'.m_hs = hs /\ pub'.m_randbits = pub.m_bits \div 2
          /\ pub'.m_bits = pub.m_bits /\ pub'.m_testv = pub.m_testv /\ pub'.m_r = pub.m_r
      BY <2>1, <2>3, <2>4, <2>5, <2>6 DEF PublicRecords
    <3>2. SoundKey(pub')
      BY <2>3, <2>4, <2>5, <3>1 DEF SoundKey
    <3>. QED  BY <1>1, <2>4, <3>1, <3>2 DEF KeyInUse
  <2>7. CASE pub' = [pub EXCEPT !.m_hs = hs]
    <3>1. /\ pub' \in PublicRecords /\ pub'.m_n = n /\ pub'.m_isInitialized
          /\ pub'.m_hs = hs /\ pub'.m_randbits = pub.m_randbits
          /\ pub'.m_enable_DJN = pub.m_enable_DJN
          /\ pub'.m_bits = pub.m_bits /\ pub'.m_testv = pub.m_testv /\ pub'.m_r = pub.m_r
      BY <2>1, <2>3, <2>4, <2>7 DEF PublicRecords
    <3>2. SoundKey(pub')
      BY <2>3, <2>4, <3>1 DEF SoundKey
    <3>. QED  BY <1>1, <2>4, <3>1, <3>2 DEF KeyInUse
  <2>. QED  BY <2>2, <2>6, <2>7
<1>6. CASE SetRandom
  <2>1. pub.m_isInitialized /\ KeyInUse(pub) /\ pub.m_r = <<>>
    BY <1>1, <1>6 DEF SetRandom
  <2>. DEFINE n == pub.m_n
  <2>2. PICK sz \in 1 .. 2 : \E r \in [1 .. sz -> NormalRandoms(n)] :
           pub' = [pub EXCEPT !.m_r = pub.m_r \o r, !.m_testv = TRUE]
    BY <1>6 DEF SetRandom
  <2>. PICK r \in [1 .. sz -> NormalRandoms(n)] :
           pub' = [pub EXCEPT !.m_r = pub.m_r \o r, !.m_testv = TRUE]
    BY <2>2
  <2>3. /\ pub \in PublicRecords /\ GoodModulus(n) /\ pub.m_bits >= 2 /\ n \in Moduli
        /\ pub.m_enable_DJN => pub.m_hs \in UnitPowers(n) /\ pub.m_randbits > 0
    BY <2>1 DEF KeyInUse, SoundKey
  <2>4. n \in Nat \ {0, 1}
    BY <2>3 DEF GoodModulus
  <2>5. NormalRandoms(n) \subseteq Coprime(n) /\ \A u \in Coprime(n) : u \in Nat
    BY <2>4, NormalRandomFacts, CoprimeFacts
  <2>. HIDE DEF n
  <2>6. r \in Seq(Coprime(n))
    <3>1. r \in [1 .. sz -> Coprime(n)] /\ sz \in Nat
      BY <2>5
    <3>. QED  BY <3>1, SeqDef
  <2>. DEFINE s == pub.m_r \o r
  <2>7. s \in Seq(Coprime(n))
    <3>1. pub.m_r \in Seq(Coprime(n))
      BY <2>1
    <3>. QED  BY <2>6, <3>1, ConcatProperties
  <2>8. s \in Seq(Nat)
    <3>. HIDE DEF s
    <3>1. s \in [1 .. Len(s) -> Nat] /\ Len(s) \in Nat
      BY <2>5, <2>7, LenProperties
    <3>. QED  BY <3>1, SeqDef
  <2>9. pub' = [pub EXCEPT !.m_r = s, !.m_testv = TRUE]
    BY <2>2
  <2>. HIDE DEF s
  <2>10. /\ pub' \in PublicRecords /\ pub'.m_n = n /\ pub'.m_isInitialized
         /\ pub'.m_hs = pub.m_hs /\ pub'.m_randbits = pub.m_randbits
         /\ pub'.m_enable_DJN = pub.m_enable_DJN
         /\ pub'.m_bits = pub.m_bits /\ pub'.m_r = s
    BY <2>1, <2>3, <2>8, <2>9 DEF PublicRecords, n
  <2>11. SoundKey(pub')
    BY <2>3, <2>7, <2>10 DEF SoundKey
  <2>. QED  BY <1>1, <2>3, <2>10, <2>11 DEF KeyInUse
<1>7. CASE LoadPublicKey
  <2>1. KeyInUse(archive.key)
    BY <1>7 DEF LoadPublicKey, KeysInv
  <2>2. PICK key \in {NoPublicKey, pub} : pub' = Loaded(key, archive.key)
    BY <1>7 DEF LoadPublicKey
  <2>3. SoundKey(key)
    BY <1>1
  <2>4. KeyInUse(pub')
    BY <2>1, <2>2, <2>3, LoadedSound DEF KeyInUse
  <2>. QED  BY <1>1, <2>4
<1>. QED  BY <1>1, <1>2, <1>3, <1>4, <1>5, <1>6, <1>7

LEMMA PrivateKeySteps ==
    ASSUME KeysInv, GenerateKeypair \/ CreatePrivateKey \/ EnableCRT \/ LoadPrivateKey
    PROVE  SoundPrivateKey(pri') /\ (pri'.m_isInitialized => pri'.m_n \in Moduli)
<1>1. CASE GenerateKeypair
  <2>1. PICK p \in PrimesOf(KeyBits \div 2), q \in PrimesOf(KeyBits \div 2) :
           (GetsDJN(p, q) \/ GetsNormal(p, q)) /\ pri' = NewPrivateKey(p, q)
    BY <1>1 DEF GenerateKeypair
  <2>. QED  BY <2>1, GeneratedPrimes, NewPrivateKeyInUse
<1>2. CASE CreatePrivateKey
  <2>1. PICK pair \in PrimePairs, order \in {<<1, 2>>, <<2, 1>>} :
           pri' = NewPrivateKey(pair[order[1]], pair[order[2]])
    BY <1>2 DEF CreatePrivateKey
  <2>2. pair \in PrimesInUse
    BY DEF PrimesInUse
  <2>3. \/ pri' = NewPrivateKey(pair[1], pair[2])
        \/ pri' = NewPrivateKey(pair[2], pair[1])
    BY <2>1
  <2>. QED  BY <2>2, <2>3, PrimesFacts, NewPrivateKeyInUse
<1>3. CASE EnableCRT
  <2>1. PICK crt \in BOOLEAN : pri.m_isInitialized /\ pri' = [pri EXCEPT !.m_enable_crt = crt]
    BY <1>3 DEF EnableCRT
  <2>2. pri \in PrivateRecords /\ GoodNumbers(pri) /\ pri.m_n \in Moduli
    BY <2>1 DEF KeysInv, SoundPrivateKey
  <2>3. /\ pri' \in PrivateRecords /\ pri'.m_n = pri.m_n
        /\ pri'.m_p = pri.m_p /\ pri'.m_q = pri.m_q /\ pri'.m_pinverse = pri.m_pinverse
        /\ pri'.m_hp = pri.m_hp /\ pri'.m_hq = pri.m_hq
        /\ pri'.m_lambda = pri.m_lambda /\ pri'.m_x = pri.m_x
    BY <2>1, <2>2 DEF PrivateRecords
  <2>4. GoodNumbers(pri')
    BY <2>2, <2>3 DEF GoodNumbers
  <2>. QED  BY <2>2, <2>3, <2>4 DEF SoundPrivateKey
<1>4. CASE LoadPrivateKey
  <2>1. GoodPrimes(archive.p, archive.q) /\ archive.p * archive.q \in Moduli
    BY <1>4 DEF LoadPrivateKey, KeysInv
  <2>2. pri' = NewPrivateKey(archive.p, archive.q)
    BY <1>4 DEF LoadPrivateKey
  <2>. QED  BY <2>1, <2>2, NewPrivateKeyInUse
<1>. QED  BY <1>1, <1>2, <1>3, <1>4

\* What else may happen to the archive: the user saves a key, or a ciphertext.
LEMMA ArchivedKeys ==
    ASSUME KeysInv, SaveKey
    PROVE  /\ archive'.kind = "public" => KeyInUse(archive'.key)
           /\ archive'.kind = "private" => /\ GoodPrimes(archive'.p, archive'.q)
                                           /\ archive'.p * archive'.q \in Moduli
<1>1. CASE pub.m_isInitialized /\ archive' = [kind |-> "public", key |-> pub]
  <2>1. archive'.kind = "public" /\ archive'.key = pub
    BY <1>1
  <2>2. KeyInUse(pub)
    BY <1>1, NoKeySound DEF KeysInv
  <2>. QED  BY <2>1, <2>2
<1>2. CASE pri.m_isInitialized /\ archive' = [kind |-> "private", p |-> pri.m_p, q |-> pri.m_q]
  <2>1. archive'.kind = "private" /\ archive'.p = pri.m_p /\ archive'.q = pri.m_q
    BY <1>2
  <2>2. GoodPrimes(pri.m_p, pri.m_q) /\ pri.m_p * pri.m_q \in Moduli
    BY <1>2 DEF KeysInv, SoundPrivateKey, GoodNumbers
  <2>. QED  BY <2>1, <2>2
<1>. QED  BY <1>1, <1>2 DEF SaveKey

LEMMA KeysNext ==
    ASSUME KeysInv, [Next]_vars
    PROVE  KeysInv'
<1>. DEFINE ArchiveOK ==
            archive' # None =>
               /\ archive'.kind = "public" => KeyInUse(archive'.key)
               /\ archive'.kind = "private" => /\ GoodPrimes(archive'.p, archive'.q)
                                               /\ archive'.p * archive'.q \in Moduli
<1>1. ASSUME pub' = pub \/ KeyInUse(pub'),
             \/ pri' = pri
             \/ SoundPrivateKey(pri') /\ (pri'.m_isInitialized => pri'.m_n \in Moduli),
             archive' = archive \/ ArchiveOK
      PROVE  KeysInv'
  BY <1>1 DEF KeysInv
<1>2. CASE GenerateKeypair
  BY <1>1, <1>2, PublicKeySteps, PrivateKeySteps DEF GenerateKeypair
<1>3. CASE CreatePublicKey \/ EnableDJN \/ SetDJN \/ SetRandom \/ LoadPublicKey
  <2>1. UNCHANGED <<pri, archive>>
    BY <1>3 DEF CreatePublicKey, EnableDJN, SetDJN, SetRandom, LoadPublicKey
  <2>. QED  BY <1>1, <1>3, <2>1, PublicKeySteps
<1>4. CASE CreatePrivateKey \/ EnableCRT \/ LoadPrivateKey
  <2>1. UNCHANGED <<pub, archive>>
    BY <1>4 DEF CreatePrivateKey, EnableCRT, LoadPrivateKey
  <2>. QED  BY <1>1, <1>4, <2>1, PrivateKeySteps
<1>5. CASE SaveKey
  <2>1. UNCHANGED <<pub, pri>>
    BY <1>5 DEF SaveKey
  <2>. QED  BY <1>1, <1>5, <2>1, ArchivedKeys
<1>6. CASE ClearPlain \/ RotatePlainText
  BY <1>1, <1>6 DEF ClearPlain, RotatePlainText, TextStep
<1>7. ASSUME NEW x \in CipherName, TextNext(x) PROVE KeysInv'
  <2>1. UNCHANGED <<pub, pri>>
    BY <1>7 DEF TextNext, TextStep, Encrypt, AddPlainText, MultiplyPlainText, RotateCipherText,
          RemoveText, ClearText, SaveCipherText, LoadCipherText, Decrypt, AddCipherText,
          GetCipherText, Assign, InsertText
  <2>2. CASE SaveCipherText(x)
    <3>1. archive'.kind = "cipher"
      BY <2>2 DEF SaveCipherText
    <3>. QED  BY <1>1, <2>1, <3>1
  <2>3. CASE ~SaveCipherText(x)
    <3>1. UNCHANGED archive
      BY <1>7, <2>3 DEF TextNext, Encrypt, AddPlainText, MultiplyPlainText, RotateCipherText,
            RemoveText, ClearText, LoadCipherText, Decrypt, AddCipherText,
            GetCipherText, Assign, InsertText, Become, Edit
    <3>. QED  BY <1>1, <2>1, <3>1
  <2>. QED  BY <2>2, <2>3
<1>8. CASE UNCHANGED vars
  BY <1>1, <1>8 DEF vars
<1>. QED  BY <1>2, <1>3, <1>4, <1>5, <1>6, <1>7, <1>8 DEF Next, KeyNext

LEMMA KeysAlways == Spec => []KeysInv
BY KeysInit, KeysNext, PTL DEF Spec

\* Private keys (pri_key.cpp:13-63), however one came about: from a generated pair, from
\* given primes in either order, from an archive; with enableCRT on or off.  The smaller
\* prime is m_p, and the four numbers that ippsModInv_BN computed are inverses.
THEOREM PrivateKeysAreSound == Spec => []PrivateKeySound
<1>1. KeysInv => PrivateKeySound
  <2>. SUFFICES ASSUME KeysInv, pri.m_isInitialized
                PROVE  /\ pri.m_p < pri.m_q /\ pri.m_p * pri.m_q = pri.m_n
                       /\ pri.m_pinverse \in Coprime(pri.m_q)
                       /\ pri.m_hp \in Coprime(pri.m_p)
                       /\ pri.m_hq \in Coprime(pri.m_q)
                       /\ pri.m_x \in Coprime(pri.m_n)
    BY DEF PrivateKeySound, Coprime
  <2>. QED  BY DEF KeysInv, SoundPrivateKey, GoodNumbers
<1>. QED  BY <1>1, KeysAlways, PTL

-----------------------------------------------------------------------------
(* Texts are encryptions.                                                  *)

\* A ciphertext points to a key in use, and its elements are encryptions under it.
CipherUnder(x) ==
    KeyInUse(KeyOf(x)) /\ cipher[x].m_texts \in Seq(EncryptionsUnder(KeyOf(x).m_n))
PlainIsNumbers == plain # None => plain.m_texts \in Seq(Nat)
SavedUnder ==
    archive # None /\ archive.kind = "cipher" =>
        KeyInUse(archive.key) /\ archive.texts \in Seq(EncryptionsUnder(archive.key.m_n))
SchemeInv == (\A x \in Mine : CipherUnder(x)) /\ PlainIsNumbers /\ SavedUnder

Inv == TextsInv /\ KeysInv /\ SchemeInv

LEMMA SchemeInit == Init => SchemeInv
<1>. SUFFICES ASSUME Init PROVE SchemeInv
  OBVIOUS
<1>1. Mine = {} /\ plain = None
  BY DEF Init, Mine, Assigned
<1>2. ASSUME archive # None PROVE SavedUnder
  <2>1. PICK n \in Earlier : archive = [kind |-> "cipher", texts |-> <<n + 1>>, size |-> 1,
                                        key |-> Created(NoPublicKey, n, KeyBits)]
    BY <1>2 DEF Init
  <2>2. n \in Moduli /\ GoodModulus(n) /\ n \in Nat \ {0, 1}
    BY ModuliFacts DEF Moduli
  <2>. DEFINE key == Created(NoPublicKey, n, KeyBits)
  <2>3. KeyInUse(key) /\ key.m_n = n
    <3>1. KeyBits \in Nat /\ KeyBits >= 2
      BY PaillierKeysAssumption
    <3>. QED  BY <2>2, <3>1, NoKeySound, CreatedSound DEF KeyInUse
  <2>4. Encrypts(n, 1 % n, n + 1)
    <3>1. Encrypts(n, 1 % n, Modulo(n * n, n * 1 + 1))
      <4>1. 1 \in Nat
        OBVIOUS
      <4>. QED  BY <2>2, <4>1, FreshTextsEncrypt
    <3>2. n * 1 + 1 = n + 1 /\ n + 1 \in Residues(n * n) /\ n + 1 \in Int /\ n * n \in Nat \ {0}
      <4>1. n * n >= 2 * n
        BY <2>2
      <4>. QED  BY <2>2, <4>1 DEF Residues
    <3>3. Modulo(n * n, n + 1) = n + 1
      BY <3>2, ResidueFacts DEF Modulo
    <3>. QED  BY <3>1, <3>2, <3>3
  <2>5. 1 % n \in 0 .. n - 1
    <3>1. 1 \in Int /\ n \in Nat \ {0}
      BY <2>2
    <3>. QED  BY <3>1, ResidueFacts DEF Residues
  <2>6. n + 1 \in EncryptionsUnder(n)
    BY <2>2, <2>4, <2>5, EncryptionsUnderFacts
  <2>. HIDE DEF key
  <2>7. archive.key = key /\ archive.texts = <<n + 1>>
    BY <2>1 DEF key
  <2>8. <<n + 1>> \in Seq(EncryptionsUnder(n))
    BY <2>6
  <2>. QED  BY <2>3, <2>7, <2>8 DEF SavedUnder
<1>. QED  BY <1>1, <1>2 DEF SchemeInv, PlainIsNumbers, SavedUnder

LEMMA BecomeSound ==
    ASSUME NoneIsNothing, TextsInv, SchemeInv, NEW x \in CipherName,
           NEW t, NEW key, KeyInUse(key), t.m_texts \in Seq(EncryptionsUnder(key.m_n)),
           Become(x, t, key)
    PROVE  SchemeInv' /\ cipher'[x].m_texts = t.m_texts /\ KeyOf(x)' = key
<1>1. /\ cipher' = [cipher EXCEPT ![x] = [m_texts |-> t.m_texts, m_size |-> t.m_size, m_pk |-> key]]
      /\ UNCHANGED <<plain, archive>>
  BY DEF Become
<1>2. cipher = [y \in CipherName |-> cipher[y]]
  BY DEF TextsInv, ContainersOK
<1>3. /\ cipher'[x] = [m_texts |-> t.m_texts, m_size |-> t.m_size, m_pk |-> key]
      /\ \A y \in CipherName \ {x} : cipher'[y] = cipher[y]
  BY <1>1, <1>2
<1>4. cipher'[x].m_texts = t.m_texts /\ KeyOf(x)' = key
  BY <1>3 DEF KeyOf
<1>5. CipherUnder(x)'
  BY <1>4 DEF CipherUnder
<1>6. \A y \in Mine' : y = x \/ (y \in Mine /\ CipherUnder(y)')
  BY <1>3 DEF SchemeInv, CipherUnder, KeyOf, Mine, Assigned
<1>7. PlainIsNumbers' /\ SavedUnder'
  BY <1>1 DEF SchemeInv, PlainIsNumbers, SavedUnder
<1>. QED  BY <1>4, <1>5, <1>6, <1>7 DEF SchemeInv

LEMMA EditSound ==
    ASSUME TextsInv, SchemeInv, NEW x \in Mine,
           NEW t, t.m_texts \in Seq(EncryptionsUnder(KeyOf(x).m_n)), Edit(x, t)
    PROVE  SchemeInv'
<1>1. /\ cipher' = [cipher EXCEPT ![x].m_texts = t.m_texts, ![x].m_size = t.m_size]
      /\ UNCHANGED <<plain, archive>>
  BY DEF Edit
<1>2. cipher = [y \in CipherName |-> cipher[y]] /\ x \in CipherName /\ CipherOK(x)
  BY DEF TextsInv, ContainersOK, Mine
<1>3. /\ cipher'[x] = [m_texts |-> t.m_texts, m_size |-> t.m_size, m_pk |-> KeyOf(x)]
      /\ \A y \in CipherName \ {x} : cipher'[y] = cipher[y]
  BY <1>1, <1>2 DEF CipherOK, KeyOf
<1>4. cipher'[x].m_texts = t.m_texts /\ KeyOf(x)' = KeyOf(x)
  BY <1>3 DEF KeyOf
<1>5. CipherUnder(x)'
  BY <1>4 DEF CipherUnder, SchemeInv
<1>6. \A y \in Mine' : y = x \/ (y \in Mine /\ CipherUnder(y)')
  BY <1>3 DEF SchemeInv, CipherUnder, KeyOf, Mine, Assigned
<1>7. PlainIsNumbers' /\ SavedUnder'
  BY <1>1 DEF SchemeInv, PlainIsNumbers, SavedUnder
<1>. QED  BY <1>5, <1>6, <1>7 DEF SchemeInv

\* operator=: the key object is that of y.
LEMMA AssignSound ==
    ASSUME TextsInv, SchemeInv, NEW x \in CipherName, NEW y \in CipherName, Assign(x, y)
    PROVE  SchemeInv'
<1>1. /\ y \in Mine /\ cipher' = [cipher EXCEPT ![x] = cipher[y]]
      /\ UNCHANGED <<plain, archive>>
  BY DEF Assign, Mine
<1>2. cipher = [z \in CipherName |-> cipher[z]]
  BY DEF TextsInv, ContainersOK
<1>3. cipher'[x] = cipher[y] /\ \A z \in CipherName \ {x} : cipher'[z] = cipher[z]
  BY <1>1, <1>2
<1>4. CipherUnder(x)'
  BY <1>1, <1>3 DEF SchemeInv, CipherUnder, KeyOf
<1>5. \A z \in Mine' : z = x \/ (z \in Mine /\ CipherUnder(z)')
  BY <1>3 DEF SchemeInv, CipherUnder, KeyOf, Mine, Assigned
<1>6. PlainIsNumbers' /\ SavedUnder'
  BY <1>1 DEF SchemeInv, PlainIsNumbers, SavedUnder
<1>. QED  BY <1>4, <1>5, <1>6 DEF SchemeInv

\* load: who shares the key object of x keeps its texts, and the modulus they are under.
LEMMA LoadSound ==
    ASSUME NoneIsNothing, TextsInv, SchemeInv, NEW x \in CipherName, LoadCipherText(x)
    PROVE  SchemeInv'
<1>. DEFINE key == Loaded(KeyOf(x), archive.key)
<1>1. /\ x \in Mine /\ MayLoad(x) /\ archive # None /\ archive.kind = "cipher"
      /\ UNCHANGED <<plain, archive>>
  BY DEF LoadCipherText, TextStep, Mine
<1>2. /\ x \in Sharers(x) /\ Sharers(x) \subseteq Mine
      /\ \A y \in Sharers(x) : KeyOf(y) = KeyOf(x)
  BY <1>1, SharersFacts
<1>3. /\ Mine' = Mine
      /\ cipher'[x].m_texts = archive.texts
      /\ \A y \in Sharers(x) : y # x => cipher'[y].m_texts = cipher[y].m_texts
      /\ \A y \in Sharers(x) : KeyOf(y)' = key
      /\ \A y \in Mine \ Sharers(x) : cipher'[y] = cipher[y]
  BY LoadEffect DEF Mine
<1>4. KeyInUse(archive.key) /\ archive.texts \in Seq(EncryptionsUnder(archive.key.m_n))
  BY <1>1 DEF SchemeInv, SavedUnder
<1>5. KeyInUse(key) /\ key.m_n = archive.key.m_n
  <2>1. SoundKey(KeyOf(x))
    BY <1>1 DEF SchemeInv, CipherUnder, KeyInUse
  <2>. QED  BY <1>4, <2>1, LoadedSound DEF KeyInUse
<1>. HIDE DEF key
<1>6. CipherUnder(x)'
  BY <1>2, <1>3, <1>4, <1>5 DEF CipherUnder
<1>7. ASSUME NEW y \in Sharers(x), y # x PROVE CipherUnder(y)'
  <2>1. archive.key.m_n = KeyOf(x).m_n
    BY <1>1, <1>7 DEF MayLoad
  <2>2. cipher[y].m_texts \in Seq(EncryptionsUnder(key.m_n))
    BY <1>2, <1>5, <2>1 DEF SchemeInv, CipherUnder
  <2>. QED  BY <1>3, <1>5, <1>7, <2>2 DEF CipherUnder
<1>8. ASSUME NEW y \in Mine \ Sharers(x) PROVE CipherUnder(y)'
  BY <1>3 DEF SchemeInv, CipherUnder, KeyOf
<1>9. PlainIsNumbers' /\ SavedUnder'
  BY <1>1 DEF SchemeInv, PlainIsNumbers, SavedUnder
<1>. QED  BY <1>3, <1>6, <1>7, <1>8, <1>9 DEF SchemeInv

\* The other operations leave the ciphertexts and their keys as they are.
LEMMA KeepsScheme ==
    ASSUME SchemeInv, UNCHANGED cipher,
           UNCHANGED plain \/ plain'.m_texts \in Seq(Nat),
           UNCHANGED archive \/ archive'.kind # "cipher" \/ SavedUnder'
    PROVE  SchemeInv'
<1>1. Mine' = Mine /\ \A x : KeyOf(x)' = KeyOf(x)
  BY DEF Mine, Assigned, KeyOf
<1>2. \A x \in Mine' : CipherUnder(x)'
  BY <1>1 DEF SchemeInv, CipherUnder
<1>3. PlainIsNumbers' /\ SavedUnder'
  BY DEF SchemeInv, PlainIsNumbers, SavedUnder
<1>. QED  BY <1>2, <1>3 DEF SchemeInv

-----------------------------------------------------------------------------
(* What the operations do to the messages.                                 *)

\* encrypt: the new ciphertext encrypts a plaintext, element by element.
EncryptsText(x) ==
    \E pt \in Operands :
        /\ pt.m_size > 0
        /\ DOMAIN cipher'[x].m_texts = DOMAIN pt.m_texts /\ KeyOf(x)' = pub
        /\ \A i \in DOMAIN pt.m_texts :
              Encrypts(pub.m_n, pt.m_texts[i] % pub.m_n, cipher'[x].m_texts[i])

\* CT + CT, CT + PT and CT * PT: the messages are added and multiplied modulo n.
AddsTexts(x, y) ==
    LET n == KeyOf(x).m_n
    IN  /\ SizesMatch(cipher[x], cipher[y])
        /\ DOMAIN cipher'[x].m_texts = DOMAIN cipher[x].m_texts /\ KeyOf(x)' = KeyOf(x)
        /\ \A i \in DOMAIN cipher[x].m_texts : \A k, l \in Nat :
              Encrypts(n, k, cipher[x].m_texts[i]) /\ Encrypts(n, l, Met(cipher[y], i)) =>
                  Encrypts(n, (k + l) % n, cipher'[x].m_texts[i])
AddsPlain(x) ==
    LET n == KeyOf(x).m_n
    IN  \E pt \in Operands :
            /\ pt.m_size > 0 /\ SizesMatch(cipher[x], pt)
            /\ DOMAIN cipher'[x].m_texts = DOMAIN cipher[x].m_texts /\ KeyOf(x)' = KeyOf(x)
            /\ \A i \in DOMAIN cipher[x].m_texts : \A k \in Nat :
                  Encrypts(n, k, cipher[x].m_texts[i]) =>
                      Encrypts(n, (k + Met(pt, i)) % n, cipher'[x].m_texts[i])
MultipliesPlain(x) ==
    LET n == KeyOf(x).m_n
    IN  \E pt \in Operands :
            /\ SizesMatch(cipher[x], pt)
            /\ DOMAIN cipher'[x].m_texts = DOMAIN cipher[x].m_texts /\ KeyOf(x)' = KeyOf(x)
            /\ \A i \in DOMAIN cipher[x].m_texts : \A k \in Nat :
                  Encrypts(n, k, cipher[x].m_texts[i]) =>
                      Encrypts(n, (k * Met(pt, i)) % n, cipher'[x].m_texts[i])

LEMMA OperandNumbers ==
    ASSUME TextsInv, SchemeInv, NEW pt \in Operands
    PROVE  WellFormed(pt) /\ pt.m_texts \in Seq(Nat)
<1>1. CASE pt \in {Text(v) : v \in Plains}
  BY <1>1, OperandFacts, PaillierAssumption DEF Text
<1>2. CASE pt = plain /\ plain # None
  BY <1>2, OperandFacts DEF SchemeInv, PlainIsNumbers
<1>. QED  BY <1>1, <1>2 DEF Operands

LEMMA MineUnder ==
    ASSUME TextsInv, SchemeInv, NEW x \in CipherName, Assigned(x)
    PROVE  /\ x \in Mine /\ WellFormed(cipher[x]) /\ KeyInUse(KeyOf(x))
           /\ cipher[x].m_texts \in Seq(EncryptionsUnder(KeyOf(x).m_n))
BY MineFacts DEF SchemeInv, CipherUnder

LEMMA EncryptSound ==
    ASSUME NoneIsNothing, TextsInv, KeysInv, SchemeInv, NEW x \in CipherName, Encrypt(x)
    PROVE  SchemeInv' /\ EncryptsText(x)
<1>1. KeyInUse(pub)
  BY NoKeySound DEF Encrypt, KeysInv
<1>2. PICK pt \in Operands :
         /\ pt.m_size > 0
         /\ \/ Become(x, Text(raw_encrypt(pub, pt.m_texts)), pub)
            \/ /\ pub.m_testv => Len(pub.m_r) = pt.m_size
               /\ \E o \in Obfuscators(pub, pt.m_size) :
                     Become(x, Text(Obfuscated(pub, raw_encrypt(pub, pt.m_texts), o)), pub)
  BY DEF Encrypt
<1>3. WellFormed(pt) /\ pt.m_texts \in Seq(Nat)
  BY OperandNumbers
<1>. DEFINE n == pub.m_n
<1>4. ASSUME NEW f, DOMAIN f = DOMAIN pt.m_texts, f \in Seq(EncryptionsUnder(n)),
             \A i \in DOMAIN pt.m_texts : Encrypts(n, pt.m_texts[i] % n, f[i]),
             Become(x, Text(f), pub)
      PROVE  SchemeInv' /\ EncryptsText(x)
  <2>1. Text(f).m_texts = f
    BY DEF Text
  <2>2. SchemeInv' /\ cipher'[x].m_texts = f /\ KeyOf(x)' = pub
    BY <1>1, <1>4, <2>1, BecomeSound
  <2>. QED  BY <1>2, <1>4, <2>2 DEF EncryptsText
<1>5. CASE Become(x, Text(raw_encrypt(pub, pt.m_texts)), pub)
  <2>. DEFINE f == raw_encrypt(pub, pt.m_texts)
  <2>1. DOMAIN f = DOMAIN pt.m_texts
    BY DEF raw_encrypt
  <2>2. /\ f \in Seq(EncryptionsUnder(n))
        /\ \A i \in DOMAIN pt.m_texts : Encrypts(n, pt.m_texts[i] % n, f[i])
    BY <1>1, <1>3, RawEncryptSound
  <2>. HIDE DEF f, n
  <2>3. Become(x, Text(f), pub)
    BY <1>5 DEF f
  <2>. QED  BY <1>4, <2>1, <2>2, <2>3
<1>6. ASSUME pub.m_testv => Len(pub.m_r) = pt.m_size,
             NEW o \in Obfuscators(pub, pt.m_size),
             Become(x, Text(Obfuscated(pub, raw_encrypt(pub, pt.m_texts), o)), pub)
      PROVE  SchemeInv' /\ EncryptsText(x)
  <2>. DEFINE f == Obfuscated(pub, raw_encrypt(pub, pt.m_texts), o)
  <2>1. DOMAIN f = DOMAIN pt.m_texts
    BY DEF raw_encrypt, Obfuscated
  <2>2. /\ f \in Seq(EncryptionsUnder(n))
        /\ \A i \in DOMAIN pt.m_texts : Encrypts(n, pt.m_texts[i] % n, f[i])
    BY <1>1, <1>3, <1>6, ObfuscatedSound
  <2>. HIDE DEF f, n
  <2>3. Become(x, Text(f), pub)
    BY <1>6 DEF f
  <2>. QED  BY <1>4, <2>1, <2>2, <2>3
<1>. QED  BY <1>2, <1>5, <1>6

LEMMA AddTextSound ==
    ASSUME NoneIsNothing, TextsInv, SchemeInv, NEW x \in CipherName, NEW y \in CipherName,
           AddCipherText(x, y)
    PROVE  SchemeInv' /\ AddsTexts(x, y)
<1>. DEFINE key == KeyOf(x)
            n == KeyOf(x).m_n
            f == raw_add(key, cipher[x], cipher[y])
<1>1. /\ Assigned(x) /\ Assigned(y) /\ SizesMatch(cipher[x], cipher[y])
      /\ KeyOf(y).m_n = n /\ Become(x, Text(f), key)
  BY DEF AddCipherText, SameModulus
<1>2. /\ WellFormed(cipher[x]) /\ WellFormed(cipher[y]) /\ KeyInUse(key)
      /\ cipher[x].m_texts \in Seq(EncryptionsUnder(n))
      /\ cipher[y].m_texts \in Seq(EncryptionsUnder(n))
  BY <1>1, MineUnder
<1>3. /\ f \in Seq(EncryptionsUnder(n))
      /\ \A i \in DOMAIN cipher[x].m_texts : \A k, l \in Nat :
            Encrypts(n, k, cipher[x].m_texts[i]) /\ Encrypts(n, l, Met(cipher[y], i)) =>
               Encrypts(n, (k + l) % n, f[i])
  BY <1>1, <1>2, RawAddSound
<1>4. DOMAIN f = DOMAIN cipher[x].m_texts /\ Text(f).m_texts = f
  BY DEF raw_add, Text
<1>. HIDE DEF f
<1>5. SchemeInv' /\ cipher'[x].m_texts = f /\ KeyOf(x)' = key
  BY <1>1, <1>2, <1>3, <1>4, BecomeSound
<1>. QED  BY <1>1, <1>3, <1>4, <1>5 DEF AddsTexts

LEMMA AddPlainSound ==
    ASSUME NoneIsNothing, TextsInv, SchemeInv, NEW x \in CipherName, AddPlainText(x)
    PROVE  SchemeInv' /\ AddsPlain(x)
<1>. DEFINE key == KeyOf(x)
            n == KeyOf(x).m_n
            B(pt) == Text(raw_encrypt(key, pt.m_texts))
<1>1. PICK pt \in Operands :
         /\ pt.m_size > 0 /\ SizesMatch(cipher[x], B(pt))
         /\ Become(x, Text(raw_add(key, cipher[x], B(pt))), key)
  BY DEF AddPlainText
<1>2. WellFormed(pt) /\ pt.m_texts \in Seq(Nat)
  BY OperandNumbers
<1>3. /\ WellFormed(cipher[x]) /\ KeyInUse(key)
      /\ cipher[x].m_texts \in Seq(EncryptionsUnder(n))
  BY MineUnder DEF AddPlainText
<1>. DEFINE r == raw_encrypt(key, pt.m_texts)
            b == Text(r)
            f == raw_add(key, cipher[x], b)
<1>4. /\ r \in Seq(EncryptionsUnder(n)) /\ DOMAIN r = DOMAIN pt.m_texts
      /\ \A i \in DOMAIN pt.m_texts : Encrypts(n, pt.m_texts[i] % n, r[i])
  BY <1>2, <1>3, RawEncryptSound DEF raw_encrypt
<1>5. b.m_texts = r /\ WellFormed(b) /\ SizesMatch(cipher[x], b) /\ Become(x, Text(f), key)
  <2>1. b.m_texts = r
    BY DEF Text
  <2>2. WellFormed(b)
    <3>. HIDE DEF r
    <3>. QED  BY <1>4, TextOfSequence
  <2>. QED  BY <1>1, <2>1, <2>2
<1>6. b.m_size = pt.m_size
  <2>1. /\ b.m_size \in Nat /\ DOMAIN b.m_texts = 1 .. b.m_size
        /\ pt.m_size \in Nat /\ DOMAIN pt.m_texts = 1 .. pt.m_size
    <3>. HIDE DEF b
    <3>. QED  BY <1>2, <1>5, SizeFacts
  <2>. HIDE DEF b, r
  <2>2. 1 .. b.m_size = 1 .. pt.m_size
    BY <1>4, <1>5, <2>1
  <2>. QED  BY <2>1, <2>2
<1>7. DOMAIN f = DOMAIN cipher[x].m_texts /\ Text(f).m_texts = f
  BY DEF raw_add, Text
<1>. HIDE DEF B, r, b
<1>8. /\ f \in Seq(EncryptionsUnder(n))
      /\ \A i \in DOMAIN cipher[x].m_texts : \A k, l \in Nat :
            Encrypts(n, k, cipher[x].m_texts[i]) /\ Encrypts(n, l, Met(b, i)) =>
               Encrypts(n, (k + l) % n, f[i])
  BY <1>3, <1>4, <1>5, RawAddSound
<1>. HIDE DEF f
<1>9. SchemeInv' /\ cipher'[x].m_texts = f /\ KeyOf(x)' = key
  BY <1>3, <1>5, <1>7, <1>8, BecomeSound
<1>10. n \in Nat \ {0, 1} /\ n \in Nat \ {0}
  BY <1>3, ModuliFacts
<1>. HIDE DEF n, key
<1>11. ASSUME NEW i \in DOMAIN cipher[x].m_texts, NEW k \in Nat,
              Encrypts(n, k, cipher[x].m_texts[i])
       PROVE  Encrypts(n, (k + Met(pt, i)) % n, f[i])
  <2>. DEFINE j == IF pt.m_size = 1 THEN 1 ELSE i
              m == pt.m_texts[j]
  <2>1. Met(pt, i) = m /\ Met(b, i) = r[j]
    BY <1>5, <1>6 DEF Met
  <2>2. j \in DOMAIN pt.m_texts
    <3>1. /\ cipher[x].m_size \in Nat /\ DOMAIN cipher[x].m_texts = 1 .. cipher[x].m_size
          /\ pt.m_size \in Nat /\ DOMAIN pt.m_texts = 1 .. pt.m_size
      BY <1>2, <1>3, SizeFacts
    <3>2. cipher[x].m_size = pt.m_size \/ pt.m_size = 1
      BY <1>5, <1>6 DEF SizesMatch
    <3>. QED  BY <3>1, <3>2
  <2>. HIDE DEF j
  <2>3. m \in Nat /\ Encrypts(n, m % n, r[j])
    BY <1>2, <1>4, <2>2, ItemsOf
  <2>. HIDE DEF m
  <2>. DEFINE d == m % n
  <2>4. d \in Nat /\ d \in Int /\ m \in Int /\ k \in Int /\ Same(n, d, m)
    <3>1. m \in Int /\ k \in Int
      BY <2>3
    <3>2. d \in Residues(n) /\ Same(n, d, m)
      BY <1>10, <3>1, ResidueFacts, SameResidue
    <3>. HIDE DEF d
    <3>. QED  BY <1>10, <3>1, <3>2 DEF Residues
  <2>5. Encrypts(n, d, r[j])
    BY <2>3
  <2>. HIDE DEF d
  <2>6. Encrypts(n, (k + d) % n, f[i])
    BY <1>8, <1>11, <2>1, <2>4, <2>5
  <2>7. (k + d) % n = (k + m) % n
    <3>1. Same(n, k, k)
      BY SameFacts
    <3>2. Same(n, k + d, k + m)
      BY <1>10, <2>4, <3>1, SameResults
    <3>. QED  BY <3>2 DEF Same
  <2>. QED  BY <2>1, <2>6, <2>7
<1>12. SizesMatch(cipher[x], pt)
  BY <1>5, <1>6 DEF SizesMatch
<1>. QED  BY <1>1, <1>7, <1>9, <1>11, <1>12 DEF AddsPlain, n, key

LEMMA MultiplySound ==
    ASSUME NoneIsNothing, TextsInv, SchemeInv, NEW x \in CipherName, MultiplyPlainText(x)
    PROVE  SchemeInv' /\ MultipliesPlain(x)
<1>. DEFINE key == KeyOf(x)
            n == KeyOf(x).m_n
            F(pt) == raw_mul(key, cipher[x], pt)
<1>1. PICK pt \in Operands :
         SizesMatch(cipher[x], pt) /\ Become(x, Text(F(pt)), key)
  BY DEF MultiplyPlainText
<1>2. WellFormed(pt) /\ pt.m_texts \in Seq(Nat)
  BY OperandNumbers
<1>3. /\ WellFormed(cipher[x]) /\ KeyInUse(key)
      /\ cipher[x].m_texts \in Seq(EncryptionsUnder(n))
  BY MineUnder DEF MultiplyPlainText
<1>. DEFINE f == F(pt)
<1>4. /\ f \in Seq(EncryptionsUnder(n))
      /\ \A i \in DOMAIN cipher[x].m_texts : \A k \in Nat :
            Encrypts(n, k, cipher[x].m_texts[i]) => Encrypts(n, (k * Met(pt, i)) % n, f[i])
  BY <1>1, <1>2, <1>3, RawMulSound
<1>5. DOMAIN f = DOMAIN cipher[x].m_texts /\ Text(f).m_texts = f
  BY DEF raw_mul, Text
<1>6. Become(x, Text(f), key)
  BY <1>1
<1>. HIDE DEF f, F
<1>7. SchemeInv' /\ cipher'[x].m_texts = f /\ KeyOf(x)' = key
  BY <1>3, <1>4, <1>5, <1>6, BecomeSound
<1>. QED  BY <1>1, <1>4, <1>5, <1>7 DEF MultipliesPlain

-----------------------------------------------------------------------------
(* The invariant of the scheme.                                            *)

LEMMA MovingSound ==
    ASSUME NoneIsNothing, TextsInv, SchemeInv, NEW x \in CipherName,
           \/ RotateCipherText(x) \/ RemoveText(x) \/ ClearText(x)
           \/ \E y \in CipherName : GetCipherText(x, y) \/ InsertText(x, y)
    PROVE  SchemeInv'
<1>. DEFINE E(y) == EncryptionsUnder(KeyOf(y).m_n)
<1>1. ASSUME NEW y \in CipherName, Assigned(y)
      PROVE  /\ y \in Mine /\ WellFormed(cipher[y]) /\ KeyInUse(KeyOf(y))
             /\ cipher[y].m_texts \in Seq(E(y))
             /\ cipher[y].m_size \in Nat /\ cipher[y].m_size <= MaxSize
             /\ cipher[y].m_size = Len(cipher[y].m_texts)
             /\ \A idx \in Nat : HasElement(cipher[y], idx) => getElement(cipher[y], idx) \in E(y)
  <2>1. /\ y \in Mine /\ WellFormed(cipher[y]) /\ KeyInUse(KeyOf(y))
        /\ cipher[y].m_texts \in Seq(E(y))
        /\ cipher[y].m_size \in Nat /\ cipher[y].m_size <= MaxSize
        /\ DOMAIN cipher[y].m_texts = 1 .. cipher[y].m_size
        /\ cipher[y].m_size = Len(cipher[y].m_texts)
    BY <1>1, MineUnder, MineFacts, SizeFacts DEF WellFormed
  <2>. HIDE DEF E
  <2>2. ASSUME NEW idx \in Nat, HasElement(cipher[y], idx)
        PROVE  getElement(cipher[y], idx) \in E(y)
    <3>1. idx + 1 \in DOMAIN cipher[y].m_texts
      BY <2>1, <2>2 DEF HasElement
    <3>. QED  BY <2>1, <3>1, ItemsOf DEF getElement
  <2>. QED  BY <2>1, <2>2
<1>2. ASSUME NEW t, NEW y \in CipherName, Assigned(y), t.m_texts \in Seq(E(y)),
             Become(x, t, KeyOf(y))
      PROVE  SchemeInv'
  BY <1>1, <1>2, BecomeSound
<1>3. ASSUME NEW t, Assigned(x), t.m_texts \in Seq(E(x)), Edit(x, t)
      PROVE  SchemeInv'
  BY <1>1, <1>3, EditSound
<1>. HIDE DEF E
<1>4. CASE RotateCipherText(x)
  <2>1. PICK shift \in Shifts :
           CipherRotates(cipher[x], shift) /\ Become(x, Rotated(cipher[x], shift), KeyOf(x))
    BY <1>4 DEF RotateCipherText
  <2>2. Assigned(x)
    BY <1>4 DEF RotateCipherText
  <2>3. shift \in 0 .. cipher[x].m_size
    <3>1. cipher[x].m_size # 1
      BY <2>1 DEF CipherRotates
    <3>2. Small(cipher[x].m_size) /\ Small(shift)
      BY <1>1, <2>2, ShiftsAreSmall
    <3>. QED  BY <1>1, <2>1, <2>2, <3>1, <3>2, CipherRotatesRight
  <2>4. Rotated(cipher[x], shift).m_texts \in Seq(E(x))
    BY <1>1, <2>2, <2>3, RotatedText
  <2>. QED  BY <1>2, <2>1, <2>2, <2>4
<1>5. CASE RemoveText(x)
  <2>1. PICK pos \in 0 .. MaxSize, length \in 0 .. MaxSize :
           MayRemove(cipher[x], pos, length) /\ Edit(x, Removed(cipher[x], pos, length))
    BY <1>5 DEF RemoveText
  <2>2. pos \in Nat /\ length \in Nat /\ Assigned(x)
    BY <1>5 DEF RemoveText
  <2>3. Removed(cipher[x], pos, length).m_texts \in Seq(E(x))
    BY <1>1, <2>1, <2>2, RemovedText
  <2>. QED  BY <1>3, <2>1, <2>2, <2>3
<1>6. CASE ClearText(x)
  <2>1. Cleared.m_texts \in Seq(E(x))
    BY DEF Cleared
  <2>. QED  BY <1>3, <1>6, <2>1 DEF ClearText
<1>7. ASSUME NEW y \in CipherName, InsertText(x, y) PROVE SchemeInv'
  <2>1. Assigned(x) /\ Assigned(y) /\ E(x) = E(y)
    BY <1>7 DEF InsertText, SameModulus, E
  <2>2. PICK pos \in 0 .. MaxSize, idx \in 0 .. MaxSize :
           /\ MayInsert(cipher[x], pos) /\ HasElement(cipher[y], idx)
           /\ Edit(x, Inserted(cipher[x], pos, getElement(cipher[y], idx)))
    BY <1>7 DEF InsertText
  <2>3. pos \in Nat /\ idx \in Nat
    OBVIOUS
  <2>4. getElement(cipher[y], idx) \in E(x)
    BY <1>1, <2>1, <2>2, <2>3
  <2>5. Inserted(cipher[x], pos, getElement(cipher[y], idx)).m_texts \in Seq(E(x))
    BY <1>1, <2>1, <2>2, <2>3, <2>4, InsertedText
  <2>. QED  BY <1>3, <2>1, <2>2, <2>5
<1>8. ASSUME NEW y \in CipherName, GetCipherText(x, y) PROVE SchemeInv'
  <2>1. Assigned(y)
    BY <1>8 DEF GetCipherText
  <2>2. ASSUME NEW idx \in 0 .. MaxSize, HasElement(cipher[y], idx),
               Become(x, Text(<<getElement(cipher[y], idx)>>), KeyOf(y))
        PROVE  SchemeInv'
    <3>1. idx \in Nat
      OBVIOUS
    <3>2. getElement(cipher[y], idx) \in E(y)
      BY <1>1, <2>1, <2>2, <3>1
    <3>3. Text(<<getElement(cipher[y], idx)>>).m_texts \in Seq(E(y))
      BY <3>2 DEF Text
    <3>. QED  BY <1>2, <2>1, <2>2, <3>3
  <2>3. ASSUME NEW start \in 0 .. MaxSize, NEW size \in 0 .. MaxSize,
               HasChunk(cipher[y], start, size),
               Become(x, Text(getChunk(cipher[y], start, size)), KeyOf(y))
        PROVE  SchemeInv'
    <3>1. start \in Nat /\ size \in Nat
      OBVIOUS
    <3>2. getChunk(cipher[y], start, size) \in Seq(E(y))
      BY <1>1, <2>1, <2>3, <3>1, ChunkText
    <3>3. Text(getChunk(cipher[y], start, size)).m_texts \in Seq(E(y))
      BY <3>2 DEF Text
    <3>. QED  BY <1>2, <2>1, <2>3, <3>3
  <2>. QED  BY <1>8, <2>2, <2>3 DEF GetCipherText
<1>. QED  BY <1>4, <1>5, <1>6, <1>7, <1>8

LEMMA SaveSound ==
    ASSUME TextsInv, SchemeInv, NEW x \in CipherName, SaveCipherText(x)
    PROVE  SchemeInv'
<1>1. /\ UNCHANGED <<cipher, plain>> /\ Assigned(x)
      /\ archive' = [kind |-> "cipher", texts |-> cipher[x].m_texts, size |-> cipher[x].m_size,
                     key |-> KeyOf(x)]
  BY DEF SaveCipherText
<1>2. KeyInUse(KeyOf(x)) /\ cipher[x].m_texts \in Seq(EncryptionsUnder(KeyOf(x).m_n))
  BY <1>1, MineUnder
<1>3. archive'.key = KeyOf(x) /\ archive'.texts = cipher[x].m_texts
  BY <1>1
<1>4. SavedUnder'
  BY <1>2, <1>3 DEF SavedUnder
<1>. QED  BY <1>1, <1>4, KeepsScheme

\* decrypt brings numbers below n; the other operations on the plaintext move what it has.
LEMMA PlainSound ==
    ASSUME TextsInv, KeysInv, SchemeInv, ClearPlain \/ RotatePlainText \/ \E x \in CipherName : Decrypt(x)
    PROVE  SchemeInv'
<1>1. UNCHANGED <<cipher, archive>>
  BY DEF ClearPlain, RotatePlainText, Decrypt
<1>2. CASE ClearPlain
  <2>1. plain'.m_texts \in Seq(Nat)
    BY <1>2 DEF ClearPlain, Cleared
  <2>. QED  BY <1>1, <2>1, KeepsScheme
<1>3. CASE RotatePlainText
  <2>1. PICK shift \in Shifts : PlainRotates(plain, shift) /\ plain' = Rotated(plain, shift)
    BY <1>3 DEF RotatePlainText
  <2>2. /\ WellFormed(plain) /\ plain.m_size \in Nat /\ plain.m_size <= MaxSize
        /\ plain.m_texts \in Seq(Nat)
    BY <1>3, SizeFacts DEF RotatePlainText, TextsInv, ContainersOK, SchemeInv, PlainIsNumbers
  <2>3. Small(plain.m_size) /\ Small(shift)
    BY <2>2, ShiftsAreSmall
  <2>4. plain.m_size = 0
    BY <2>1, <2>2, <2>3, PlainNeverRotates
  <2>5. shift = 0
    <3>1. AsSize(shift) <= 0
      BY <2>1, <2>4 DEF PlainRotates
    <3>. QED  BY <2>3, <3>1, Conversion DEF Small
  <2>6. plain'.m_texts = plain.m_texts
    BY <2>1, <2>4, <2>5 DEF Rotated, Text
  <2>. QED  BY <1>1, <2>2, <2>6, KeepsScheme
<1>4. ASSUME NEW x \in CipherName, Decrypt(x) PROVE SchemeInv'
  <2>. DEFINE f == [i \in 1 .. cipher[x].m_size |-> decryption(pri, cipher[x].m_texts[i])]
  <2>1. plain' = Text(f) /\ Assigned(x) /\ pri.m_isInitialized
    BY <1>4 DEF Decrypt
  <2>2. /\ WellFormed(cipher[x]) /\ KeyInUse(KeyOf(x))
        /\ cipher[x].m_texts \in Seq(EncryptionsUnder(KeyOf(x).m_n))
        /\ cipher[x].m_size \in Nat /\ DOMAIN cipher[x].m_texts = 1 .. cipher[x].m_size
    BY <2>1, MineUnder, SizeFacts
  <2>3. ASSUME NEW i \in 1 .. cipher[x].m_size
        PROVE  decryption(pri, cipher[x].m_texts[i]) \in Nat
    <3>1. cipher[x].m_texts[i] \in Int
      <4>1. cipher[x].m_texts[i] \in EncryptionsUnder(KeyOf(x).m_n)
        BY <2>2, ItemsOf
      <4>. QED  BY <4>1 DEF EncryptionsUnder
    <3>2. SoundPrivateKey(pri)
      BY DEF KeysInv
    <3>3. decryption(pri, cipher[x].m_texts[i]) \in 0 .. pri.m_n - 1
      BY <2>1, <3>1, <3>2, DecryptionIsNumber
    <3>. QED  BY <3>3
  <2>4. f \in Seq(Nat)
    <3>1. f \in [1 .. cipher[x].m_size -> Nat]
      BY <2>3
    <3>. HIDE DEF f
    <3>. QED  BY <2>2, <3>1, SeqDef
  <2>. HIDE DEF f
  <2>5. plain'.m_texts \in Seq(Nat)
    BY <2>1, <2>4 DEF Text
  <2>. QED  BY <1>1, <2>5, KeepsScheme
<1>. QED  BY <1>2, <1>3, <1>4

LEMMA SchemeNext ==
    ASSUME NoneIsNothing, Inv, [Next]_vars
    PROVE  SchemeInv'
<1>. USE DEF Inv
<1>1. CASE KeyNext
  <2>1. UNCHANGED <<cipher, plain>>
    BY <1>1 DEF KeyNext, KeyStep, GenerateKeypair, CreatePublicKey, CreatePrivateKey, EnableDJN,
           SetDJN, SetRandom, EnableCRT, SaveKey, LoadPublicKey, LoadPrivateKey
  <2>2. UNCHANGED archive \/ archive'.kind # "cipher"
    <3>1. CASE SaveKey
      <4>1. ASSUME archive' = [kind |-> "public", key |-> pub] PROVE archive'.kind = "public"
        BY <4>1
      <4>2. ASSUME archive' = [kind |-> "private", p |-> pri.m_p, q |-> pri.m_q]
            PROVE  archive'.kind = "private"
        BY <4>2
      <4>. QED  BY <3>1, <4>1, <4>2 DEF SaveKey
    <3>. QED  BY <1>1, <3>1 DEF KeyNext, GenerateKeypair, CreatePublicKey, CreatePrivateKey,
              EnableDJN, SetDJN, SetRandom, EnableCRT, LoadPublicKey, LoadPrivateKey
  <2>. QED  BY <2>1, <2>2, KeepsScheme
<1>2. CASE ClearPlain \/ RotatePlainText
  BY <1>2, PlainSound
<1>3. ASSUME NEW x \in CipherName, TextNext(x) PROVE SchemeInv'
  <2>1. CASE Encrypt(x)
    BY <2>1, EncryptSound
  <2>2. CASE AddPlainText(x)
    BY <2>2, AddPlainSound
  <2>3. CASE MultiplyPlainText(x)
    BY <2>3, MultiplySound
  <2>4. CASE RotateCipherText(x) \/ RemoveText(x) \/ ClearText(x)
    BY <2>4, MovingSound
  <2>5. CASE SaveCipherText(x)
    BY <2>5, SaveSound
  <2>6. CASE LoadCipherText(x)
    BY <2>6, LoadSound
  <2>7. CASE Decrypt(x)
    BY <2>7, PlainSound
  <2>8. ASSUME NEW y \in CipherName,
               AddCipherText(x, y) \/ GetCipherText(x, y) \/ Assign(x, y) \/ InsertText(x, y)
        PROVE  SchemeInv'
    <3>1. CASE AddCipherText(x, y)
      BY <3>1, AddTextSound
    <3>2. CASE GetCipherText(x, y) \/ InsertText(x, y)
      BY <3>2, MovingSound
    <3>3. CASE Assign(x, y)
      BY <3>3, AssignSound
    <3>. QED  BY <2>8, <3>1, <3>2, <3>3
  <2>. QED  BY <1>3, <2>1, <2>2, <2>3, <2>4, <2>5, <2>6, <2>7, <2>8 DEF TextNext
<1>4. CASE UNCHANGED vars
  <2>1. UNCHANGED <<cipher, plain, archive>>
    BY <1>4 DEF vars
  <2>. QED  BY <2>1, KeepsScheme
<1>. QED  BY <1>1, <1>2, <1>3, <1>4 DEF Next

LEMMA InvAlways ==
    ASSUME NoneIsNothing
    PROVE  Spec => []Inv
<1>1. Init => Inv
  BY TextsInit, KeysInit, SchemeInit DEF Inv
<1>2. Inv /\ [Next]_vars => Inv'
  BY EveryStep, KeysNext, SchemeNext DEF Inv
<1>. QED  BY <1>1, <1>2, PTL DEF Spec

\* Every element of every ciphertext encrypts a message under the modulus of the key
\* it points to, whatever operations made it: encryption with a key of any origin,
\* arithmetic, editing, assignment, saving and loading (ciphertext.cpp, pub_key.cpp).
\* load writes through the shared pointer: those who share it keep their texts, and
\* the texts are still encryptions.
THEOREM CipherTextsAreEncryptions ==
    ASSUME NoneIsNothing
    PROVE  Spec => [](\A x \in CipherName : Assigned(x) =>
                        \A i \in DOMAIN cipher[x].m_texts :
                            \E m \in 0 .. KeyOf(x).m_n - 1 :
                                Encrypts(KeyOf(x).m_n, m, cipher[x].m_texts[i]))
<1>1. Inv => \A x \in CipherName : Assigned(x) =>
                \A i \in DOMAIN cipher[x].m_texts :
                    \E m \in 0 .. KeyOf(x).m_n - 1 :
                        Encrypts(KeyOf(x).m_n, m, cipher[x].m_texts[i])
  <2>. SUFFICES ASSUME Inv, NEW x \in CipherName, Assigned(x),
                       NEW i \in DOMAIN cipher[x].m_texts
                PROVE  cipher[x].m_texts[i] \in EncryptionsUnder(KeyOf(x).m_n)
    BY DEF EncryptionsUnder
  <2>. QED  BY MineUnder, ItemsOf DEF Inv
<1>. QED  BY <1>1, InvAlways, PTL

\* The operators of the library compute on the messages what their names say, for
\* every ciphertext that some sequence of operations made: encrypt takes the elements
\* of the plaintext modulo n (pub_key.cpp:107-143), CT + CT and CT + PT the sums
\* (ciphertext.cpp:33-77), CT * PT the products (ciphertext.cpp:79-101), and a vector
\* of one element meets every element of the other.
THEOREM OperationsActOnMessages ==
    ASSUME NoneIsNothing
    PROVE  Spec => [][\A x \in CipherName :
                        /\ Encrypt(x) => EncryptsText(x)
                        /\ AddPlainText(x) => AddsPlain(x)
                        /\ MultiplyPlainText(x) => MultipliesPlain(x)
                        /\ \A y \in CipherName : AddCipherText(x, y) => AddsTexts(x, y)]_vars
<1>1. Inv /\ [Next]_vars =>
        [\A x \in CipherName :
            /\ Encrypt(x) => EncryptsText(x)
            /\ AddPlainText(x) => AddsPlain(x)
            /\ MultiplyPlainText(x) => MultipliesPlain(x)
            /\ \A y \in CipherName : AddCipherText(x, y) => AddsTexts(x, y)]_vars
  BY EncryptSound, AddPlainSound, MultiplySound, AddTextSound DEF Inv
<1>. QED  BY <1>1, InvAlways, PTL DEF Spec

\* The type invariant: the flags and the numbers of the keys, moduli that are those of
\* primes in use, the sizes that containers keep by hand, and key objects that are
\* listed with the ciphertexts that point to them (pub_key.hpp:108-123, base_text.hpp).
THEOREM PaillierTypeCorrect ==
    ASSUME NoneIsNothing
    PROVE  Spec => []PaillierTypeOK
<1>1. Inv => PaillierTypeOK
  <2>. SUFFICES ASSUME Inv PROVE PaillierTypeOK
    OBVIOUS
  <2>1. ASSUME NEW key, KeyInUse(key) PROVE key \in PublicKey /\ key.m_isInitialized
    <3>1. key \in PublicRecords /\ key.m_n \in Moduli /\ key.m_isInitialized
      BY <2>1 DEF KeyInUse, SoundKey
    <3>. QED  BY <3>1 DEF PublicRecords, PublicKey
  <2>2. NoPublicKey \in PublicKey
    <3>1. <<>> \in Seq(Nat)
      OBVIOUS
    <3>. QED  BY <3>1 DEF NoPublicKey, PublicKey
  <2>3. pub \in PublicKey /\ (pri.m_isInitialized => pri.m_n \in Moduli)
    BY <2>1, <2>2 DEF Inv, KeysInv
  <2>4. {x \in CipherName : Assigned(x)} = UNION sharers
    BY DEF Inv, TextsInv, KeyObjectsOK, Mine
  <2>5. ASSUME NEW x \in CipherName, Assigned(x)
        PROVE  /\ cipher[x].m_size = Len(cipher[x].m_texts) /\ cipher[x].m_size <= MaxSize
               /\ KeyOf(x) \in PublicKey /\ KeyOf(x).m_isInitialized
    BY <2>1, <2>5, MineUnder, MineFacts DEF Inv, WellFormed
  <2>6. plain # None => plain.m_size = Len(plain.m_texts)
    BY DEF Inv, TextsInv, ContainersOK, WellFormed
  <2>. QED  BY <2>3, <2>4, <2>5, <2>6 DEF PaillierTypeOK
<1>. QED  BY <1>1, InvAlways, PTL

\* A key with DJN has an n-th power of a unit for hs and draws random numbers of at
\* least one bit, in the user's hands and in every ciphertext: after enableDJN, setDJN,
\* setHS, create on a used key object, and load, which sets the flag and the numbers one
\* by one (pub_key.cpp:40-104, pub_key.hpp:89-101).
THEOREM ObfuscatorsStaySound ==
    ASSUME NoneIsNothing
    PROVE  Spec => []ObfuscatorsAreSound
<1>1. Inv => ObfuscatorsAreSound
  <2>. SUFFICES ASSUME Inv,
                       NEW key \in {pub} \cup {KeyOf(x) : x \in {y \in CipherName : Assigned(y)}},
                       key.m_isInitialized, key.m_enable_DJN
                PROVE  key.m_hs \in NthPowers[key.m_n] /\ key.m_randbits > 0
    BY DEF ObfuscatorsAreSound
  <2>1. KeyInUse(key)
    <3>1. CASE key = pub
      BY <3>1, NoKeySound DEF Inv, KeysInv
    <3>2. ASSUME NEW x \in CipherName, Assigned(x), key = KeyOf(x) PROVE KeyInUse(key)
      BY <3>2, MineUnder DEF Inv
    <3>. QED  BY <3>1, <3>2
  <2>2. key.m_n \in Moduli /\ key.m_hs \in UnitPowers(key.m_n) /\ key.m_randbits > 0
    BY <2>1 DEF KeyInUse, SoundKey
  <2>3. NthPowers[key.m_n] = UnitPowers(key.m_n)
    BY <2>2 DEF NthPowers, UnitPowers, Coprime
  <2>. QED  BY <2>2, <2>3
<1>. QED  BY <1>1, InvAlways, PTL

-----------------------------------------------------------------------------
(* The messages.                                                           *)

LEMMA ModuliPrimes ==
    ASSUME NEW n \in Moduli
    PROVE  \E p, q : GoodPrimes(p, q) /\ n = p * q
<1>1. CASE n \in Earlier
  BY <1>1, PrimesAssumption
<1>2. ASSUME NEW pair \in PrimesInUse, n = pair[1] * pair[2]
      PROVE  \E p, q : GoodPrimes(p, q) /\ n = p * q
  BY <1>2, PrimesAssumption
<1>. QED  BY <1>1, <1>2 DEF Moduli

\* MessageOf has the message of every encryption.
LEMMA MessageIs ==
    ASSUME NEW n \in Moduli, NEW m \in 0 .. n - 1, NEW c, Encrypts(n, m, c)
    PROVE  MessageOf[n][c] = m
<1>. DEFINE messages == {k \in 0 .. n - 1 : Modulo(n * n, c * (n * n + 1 - n * k)) \in NthPowers[n]}
<1>1. n \in Nat \ {0, 1} /\ m \in Nat
  BY ModuliFacts
<1>2. c \in 0 .. n * n - 1 /\ c \in Residues(n * n)
  BY <1>1, EncryptionNumber DEF Residues
<1>3. PICK p, q : GoodPrimes(p, q) /\ n = p * q
  BY ModuliPrimes
<1>4. NthPowers[n] = UnitPowers(n)
  BY DEF NthPowers, UnitPowers, Coprime
<1>5. \A k \in 0 .. n - 1 : k \in messages <=> Encrypts(n, k, c)
  BY <1>1, <1>2, <1>4, MessageCriterion
<1>6. ASSUME NEW k \in messages PROVE k = m
  <2>1. k \in 0 .. n - 1 /\ Encrypts(n, k, c)
    BY <1>5
  <2>. QED  BY <1>3, <2>1, OneMessage
<1>7. m \in messages
  BY <1>5
<1>8. MessageOf[n][c] = IF messages = {} THEN n ELSE CHOOSE k \in messages : TRUE
  BY <1>2 DEF MessageOf
<1>. HIDE DEF messages
<1>9. messages = {m}
  BY <1>6, <1>7
<1>. QED  BY <1>8, <1>9

\* What a ciphertext decrypts to, by either way, is its message by the definition of the
\* scheme: for every private key that some sequence of constructors, archives and switches
\* of CRT made and every ciphertext under its modulus, whatever made it
\* (pri_key.cpp:60-150).
THEOREM BothDecryptionsReturnTheMessage ==
    ASSUME NoneIsNothing
    PROVE  Spec => []DecryptionsAgree
<1>1. Inv => DecryptionsAgree
  <2>. SUFFICES ASSUME Inv, pri.m_isInitialized, NEW x \in CipherName, Assigned(x),
                       KeyOf(x).m_n = pri.m_n, NEW i \in DOMAIN cipher[x].m_texts
                PROVE  LET c == cipher[x].m_texts[i]
                       IN  /\ decryptRAW(pri, c) = MessageOf[pri.m_n][c]
                           /\ decryptCRT(pri, c) = MessageOf[pri.m_n][c]
    BY DEF DecryptionsAgree
  <2>. DEFINE n == pri.m_n
              c == cipher[x].m_texts[i]
  <2>1. c \in EncryptionsUnder(n)
    BY MineUnder, ItemsOf DEF Inv
  <2>2. n \in Moduli /\ SoundPrivateKey(pri)
    BY DEF Inv, KeysInv
  <2>. HIDE DEF c
  <2>3. PICK m \in 0 .. n - 1 : Encrypts(n, m, c)
    BY <2>1 DEF EncryptionsUnder
  <2>4. decryptRAW(pri, c) = m /\ decryptCRT(pri, c) = m
    BY <2>2, <2>3, DecryptionsReturnMessage
  <2>5. MessageOf[n][c] = m
    BY <2>2, <2>3, MessageIs
  <2>. QED  BY <2>4, <2>5 DEF c
<1>. QED  BY <1>1, InvAlways, PTL

-----------------------------------------------------------------------------
(* The refinement.                                                         *)

\* What is not there is no number and no vector either.
NoneIsNoValue ==
    /\ NoneIsNothing
    /\ None \notin Nat /\ None \notin Seq(Nat)
    /\ \A n, items : [modulus |-> n, items |-> items] # None

\* What the service shows of the state.
Shown(x) == IF Assigned(x) THEN Decoded(KeyOf(x).m_n, cipher[x].m_texts) ELSE None
ShownModulus == IF pub.m_isInitialized THEN pub.m_n ELSE None
ShownVectors == [x \in CipherName |-> Shown(x)]
ShownOpened == IF plain = None THEN None ELSE plain.m_texts
ShownSaved ==
    IF archive # None /\ archive.kind = "cipher" THEN Decoded(archive.key.m_n, archive.texts)
                                                 ELSE None

\* The messages of a vector.
Messages(n, texts) == [i \in DOMAIN texts |-> MessageOf[n][texts[i]]]

LEMMA SequenceOf ==
    ASSUME NEW T, NEW k \in Nat, NEW f \in [1 .. k -> T]
    PROVE  f \in Seq(T) /\ Len(f) = k
BY SeqDef, LenProperties

LEMMA MessagesFacts ==
    ASSUME NEW n \in Moduli, NEW texts \in Seq(EncryptionsUnder(n))
    PROVE  /\ Messages(n, texts) \in Seq(0 .. n - 1) /\ Messages(n, texts) \in Seq(Nat)
           /\ Len(Messages(n, texts)) = Len(texts)
           /\ DOMAIN Messages(n, texts) = DOMAIN texts
           /\ \A i \in DOMAIN texts :
                 /\ Encrypts(n, Messages(n, texts)[i], texts[i])
                 /\ Messages(n, texts)[i] \in 0 .. n - 1
                 /\ Messages(n, texts)[i] = MessageOf[n][texts[i]]
           /\ Decoded(n, texts) = [modulus |-> n, items |-> Messages(n, texts)]
<1>. DEFINE ms == Messages(n, texts)
<1>1. Len(texts) \in Nat /\ DOMAIN texts = 1 .. Len(texts)
  BY LenProperties
<1>2. DOMAIN ms = DOMAIN texts /\ \A i \in DOMAIN texts : ms[i] = MessageOf[n][texts[i]]
  BY DEF Messages
<1>3. ASSUME NEW i \in DOMAIN texts PROVE Encrypts(n, ms[i], texts[i]) /\ ms[i] \in 0 .. n - 1
  <2>1. texts[i] \in EncryptionsUnder(n)
    BY <1>1
  <2>2. PICK m \in 0 .. n - 1 : Encrypts(n, m, texts[i])
    BY <2>1 DEF EncryptionsUnder
  <2>3. MessageOf[n][texts[i]] = m
    BY <2>2, MessageIs
  <2>. QED  BY <1>2, <2>2, <2>3
<1>4. n \in Nat
  BY ModuliFacts
<1>5. ms \in [1 .. Len(texts) -> 0 .. n - 1] /\ ms \in [1 .. Len(texts) -> Nat]
  <2>1. ms = [i \in DOMAIN texts |-> ms[i]]
    BY <1>2 DEF Messages
  <2>. HIDE DEF ms
  <2>. QED  BY <1>1, <1>3, <1>4, <2>1
<1>6. Decoded(n, texts) = [modulus |-> n, items |-> ms]
  BY DEF Decoded, Messages
<1>. HIDE DEF ms
<1>7. ms \in Seq(0 .. n - 1) /\ ms \in Seq(Nat)
  BY <1>1, <1>5, SequenceOf
<1>8. Len(ms) = Len(texts)
  BY <1>1, <1>5, SequenceOf
<1>. QED  BY <1>2, <1>3, <1>6, <1>7, <1>8 DEF ms

\* How a vector is recognized: by what its elements encrypt.
LEMMA DecodedUnder ==
    ASSUME NEW n \in Moduli, NEW texts, NEW items, DOMAIN texts = DOMAIN items,
           \A i \in DOMAIN items : items[i] \in Int /\ Encrypts(n, items[i] % n, texts[i])
    PROVE  Decoded(n, texts) = Vectors!Under(n, items)
<1>1. ASSUME NEW i \in DOMAIN items PROVE MessageOf[n][texts[i]] = items[i] % n
  <2>1. n \in Nat \ {0} /\ items[i] \in Int
    BY ModuliFacts
  <2>2. items[i] % n \in 0 .. n - 1
    BY <2>1, ResidueFacts DEF Residues
  <2>. QED  BY <2>2, MessageIs
<1>. QED  BY <1>1 DEF Decoded, Vectors!Under

\* A vector of messages is the vector itself.
LEMMA UnderMessages ==
    ASSUME NEW n \in Moduli, NEW items \in Seq(0 .. n - 1)
    PROVE  Vectors!Under(n, items) = [modulus |-> n, items |-> items]
<1>1. ASSUME NEW i \in DOMAIN items PROVE items[i] % n = items[i]
  <2>1. n \in Nat \ {0} /\ items[i] \in 0 .. n - 1
    BY ModuliFacts, LenProperties
  <2>. QED  BY <2>1, RemainderOfSmall
<1>2. items = [i \in DOMAIN items |-> items[i]]
  BY LenProperties
<1>3. [i \in DOMAIN items |-> items[i] % n] = [i \in DOMAIN items |-> items[i]]
  BY <1>1
<1>. QED  BY <1>2, <1>3 DEF Vectors!Under

\* Where the elements of a vector go, as positions.
LEMMA PartItems ==
    ASSUME NEW S, NEW s \in Seq(S), NEW m \in 1 .. Len(s) + 1, NEW n \in 0 .. Len(s)
    PROVE  /\ SubSeq(s, m, n) \in Seq(S)
           /\ DOMAIN SubSeq(s, m, n) = 1 .. n - m + 1
           /\ \A i \in 1 .. n - m + 1 : m + i - 1 \in 1 .. Len(s) /\ SubSeq(s, m, n)[i] = s[m + i - 1]
<1>1. Len(s) \in Nat /\ m \in Int /\ n \in Int
  BY LenProperties
<1>2. \A i \in m .. n : s[i] \in S
  <2>1. \A i \in m .. n : i \in 1 .. Len(s)
    BY <1>1
  <2>. QED  BY <2>1, LenProperties
<1>3. /\ SubSeq(s, m, n) \in Seq(S)
      /\ Len(SubSeq(s, m, n)) = IF m <= n THEN n - m + 1 ELSE 0
      /\ \A i \in 1 .. n - m + 1 : SubSeq(s, m, n)[i] = s[m + i - 1]
  BY <1>1, <1>2, SubSeqProperties
<1>4. 1 .. n - m + 1 = 1 .. (IF m <= n THEN n - m + 1 ELSE 0)
  BY <1>1
<1>5. DOMAIN SubSeq(s, m, n) = 1 .. Len(SubSeq(s, m, n))
  BY <1>3, LenProperties
<1>6. \A i \in 1 .. n - m + 1 : m + i - 1 \in 1 .. Len(s)
  BY <1>1
<1>. QED  BY <1>3, <1>4, <1>5, <1>6

LEMMA JoinedItems ==
    ASSUME NEW S, NEW s \in Seq(S), NEW u \in Seq(S)
    PROVE  /\ s \o u \in Seq(S) /\ DOMAIN (s \o u) = 1 .. Len(s) + Len(u)
           /\ \A i \in 1 .. Len(s) + Len(u) :
                 (s \o u)[i] = IF i <= Len(s) THEN s[i] ELSE u[i - Len(s)]
BY ConcatProperties, LenProperties

LEMMA SameRange ==
    ASSUME NEW k \in Nat, NEW l \in Nat, 1 .. k = 1 .. l
    PROVE  k = l
<1>1. CASE k < l
  <2>1. l \in 1 .. l /\ l \notin 1 .. k
    BY <1>1
  <2>. QED  BY <2>1
<1>2. CASE l < k
  <2>1. k \in 1 .. k /\ k \notin 1 .. l
    BY <1>2
  <2>. QED  BY <2>1
<1>. QED  BY <1>1, <1>2

LEMMA RemovedItems ==
    ASSUME NEW S, NEW s \in Seq(S), NEW pos \in Nat, NEW length \in Nat, pos + length < Len(s)
    PROVE  LET cut == SubSeq(s, 1, pos) \o SubSeq(s, pos + length + 1, Len(s))
           IN  /\ DOMAIN cut = 1 .. Len(s) - length
               /\ \A i \in 1 .. Len(s) - length :
                     /\ (IF i <= pos THEN i ELSE i + length) \in 1 .. Len(s)
                     /\ cut[i] = s[IF i <= pos THEN i ELSE i + length]
<1>. DEFINE front == SubSeq(s, 1, pos)
            back == SubSeq(s, pos + length + 1, Len(s))
            k == Len(s)
<1>1. k \in Nat /\ pos + length < k
  BY LenProperties
<1>2. /\ 1 \in 1 .. k + 1 /\ pos \in 0 .. k
      /\ pos + length + 1 \in 1 .. k + 1 /\ k \in 0 .. k
  BY <1>1
<1>3. /\ front \in Seq(S) /\ DOMAIN front = 1 .. pos - 1 + 1
      /\ \A i \in 1 .. pos - 1 + 1 : front[i] = s[1 + i - 1]
  BY <1>2, PartItems
<1>4. /\ back \in Seq(S) /\ DOMAIN back = 1 .. k - (pos + length + 1) + 1
      /\ \A i \in 1 .. k - (pos + length + 1) + 1 : back[i] = s[(pos + length + 1) + i - 1]
  BY <1>2, PartItems
<1>. HIDE DEF front, back, k
<1>5. Len(front) = pos /\ Len(back) = k - (pos + length)
  <2>1. /\ Len(front) \in Nat /\ DOMAIN front = 1 .. Len(front)
        /\ Len(back) \in Nat /\ DOMAIN back = 1 .. Len(back)
    BY <1>3, <1>4, LenProperties
  <2>2. /\ pos - 1 + 1 = pos /\ k - (pos + length + 1) + 1 = k - (pos + length)
        /\ pos \in Nat /\ k - (pos + length) \in Nat
    BY <1>1
  <2>3. 1 .. Len(front) = 1 .. pos /\ 1 .. Len(back) = 1 .. k - (pos + length)
    BY <1>3, <1>4, <2>1, <2>2
  <2>. QED  BY <2>1, <2>2, <2>3, SameRange
<1>6. /\ DOMAIN (front \o back) = 1 .. pos + (k - (pos + length))
      /\ \A i \in 1 .. pos + (k - (pos + length)) :
            (front \o back)[i] = IF i <= pos THEN front[i] ELSE back[i - pos]
  <2>1. /\ DOMAIN (front \o back) = 1 .. Len(front) + Len(back)
        /\ \A i \in 1 .. Len(front) + Len(back) :
              (front \o back)[i] = IF i <= Len(front) THEN front[i] ELSE back[i - Len(front)]
    BY <1>3, <1>4, JoinedItems
  <2>. QED  BY <1>5, <2>1
<1>7. pos + (k - (pos + length)) = k - length
  BY <1>1
<1>8. ASSUME NEW i \in 1 .. k - length
      PROVE  /\ (IF i <= pos THEN i ELSE i + length) \in 1 .. k
             /\ (front \o back)[i] = s[IF i <= pos THEN i ELSE i + length]
  <2>1. CASE i <= pos
    <3>1. i \in 1 .. pos - 1 + 1 /\ 1 + i - 1 = i /\ i \in 1 .. k
      BY <1>1, <2>1
    <3>. QED  BY <1>3, <1>6, <1>7, <2>1, <3>1
  <2>2. CASE ~(i <= pos)
    <3>1. /\ i - pos \in 1 .. k - (pos + length + 1) + 1
          /\ (pos + length + 1) + (i - pos) - 1 = i + length /\ i + length \in 1 .. k
      BY <1>1, <2>2
    <3>. QED  BY <1>4, <1>6, <1>7, <2>2, <3>1
  <2>. QED  BY <2>1, <2>2
<1>. QED  BY <1>6, <1>7, <1>8 DEF front, back, k

LEMMA InsertedItems ==
    ASSUME NEW S, NEW s \in Seq(S), NEW e \in S, NEW pos \in 0 .. Len(s)
    PROVE  /\ DOMAIN InsertAt(s, pos + 1, e) = 1 .. Len(s) + 1
           /\ \A i \in 1 .. Len(s) + 1 :
                 /\ i # pos + 1 => (IF i <= pos THEN i ELSE i - 1) \in 1 .. Len(s)
                 /\ InsertAt(s, pos + 1, e)[i]
                      = IF i = pos + 1 THEN e ELSE s[IF i <= pos THEN i ELSE i - 1]
<1>. DEFINE front == SubSeq(s, 1, (pos + 1) - 1)
            back == SubSeq(s, pos + 1, Len(s))
            k == Len(s)
<1>1. k \in Nat /\ pos \in Nat /\ pos <= k
  BY LenProperties
<1>2. /\ 1 \in 1 .. k + 1 /\ (pos + 1) - 1 = pos /\ pos \in 0 .. k
      /\ pos + 1 \in 1 .. k + 1 /\ k \in 0 .. k
  BY <1>1
<1>3. /\ front \in Seq(S) /\ DOMAIN front = 1 .. pos - 1 + 1
      /\ \A i \in 1 .. pos - 1 + 1 : front[i] = s[1 + i - 1]
  BY <1>2, PartItems
<1>4. /\ back \in Seq(S) /\ DOMAIN back = 1 .. k - (pos + 1) + 1
      /\ \A i \in 1 .. k - (pos + 1) + 1 : back[i] = s[(pos + 1) + i - 1]
  BY <1>2, PartItems
<1>. HIDE DEF front, back, k
<1>5. Len(front) = pos /\ Len(back) = k - pos
  <2>1. /\ Len(front) \in Nat /\ DOMAIN front = 1 .. Len(front)
        /\ Len(back) \in Nat /\ DOMAIN back = 1 .. Len(back)
    BY <1>3, <1>4, LenProperties
  <2>2. pos - 1 + 1 = pos /\ k - (pos + 1) + 1 = k - pos /\ pos \in Nat /\ k - pos \in Nat
    BY <1>1
  <2>3. 1 .. Len(front) = 1 .. pos /\ 1 .. Len(back) = 1 .. k - pos
    BY <1>3, <1>4, <2>1, <2>2
  <2>. QED  BY <2>1, <2>2, <2>3, SameRange
<1>. DEFINE start == front \o <<e>>
<1>6. /\ start \in Seq(S) /\ DOMAIN start = 1 .. pos + 1 /\ Len(start) = pos + 1
      /\ \A i \in 1 .. pos + 1 : start[i] = IF i <= pos THEN front[i] ELSE e
  <2>1. <<e>> \in Seq(S) /\ Len(<<e>>) = 1 /\ <<e>>[1] = e
    OBVIOUS
  <2>2. /\ start \in Seq(S) /\ DOMAIN start = 1 .. pos + 1
        /\ \A i \in 1 .. pos + 1 : start[i] = IF i <= pos THEN front[i] ELSE <<e>>[i - pos]
    BY <1>3, <1>5, <2>1, JoinedItems
  <2>3. Len(start) = pos + 1
    BY <1>3, <1>5, <2>1, ConcatProperties
  <2>4. ASSUME NEW i \in 1 .. pos + 1, ~(i <= pos) PROVE i - pos = 1
    BY <1>1, <2>4
  <2>. HIDE DEF start
  <2>. QED  BY <2>1, <2>2, <2>3, <2>4
<1>. HIDE DEF start
<1>7. /\ DOMAIN (start \o back) = 1 .. (pos + 1) + (k - pos)
      /\ \A i \in 1 .. (pos + 1) + (k - pos) :
            (start \o back)[i] = IF i <= pos + 1 THEN start[i] ELSE back[i - (pos + 1)]
  <2>1. /\ DOMAIN (start \o back) = 1 .. Len(start) + Len(back)
        /\ \A i \in 1 .. Len(start) + Len(back) :
              (start \o back)[i] = IF i <= Len(start) THEN start[i] ELSE back[i - Len(start)]
    <3>1. start \in Seq(S) /\ back \in Seq(S)
      BY <1>4, <1>6
    <3>. QED  BY <3>1, JoinedItems
  <2>. QED  BY <1>5, <1>6, <2>1
<1>8. (pos + 1) + (k - pos) = k + 1
  BY <1>1
<1>9. ASSUME NEW i \in 1 .. k + 1
      PROVE  /\ i # pos + 1 => (IF i <= pos THEN i ELSE i - 1) \in 1 .. k
             /\ (start \o back)[i] = IF i = pos + 1 THEN e ELSE s[IF i <= pos THEN i ELSE i - 1]
  <2>1. CASE i <= pos
    <3>1. /\ i \in 1 .. pos - 1 + 1 /\ 1 + i - 1 = i /\ i \in 1 .. k
          /\ i \in 1 .. pos + 1 /\ i # pos + 1 /\ i <= pos + 1
      BY <1>1, <2>1
    <3>. QED  BY <1>3, <1>6, <1>7, <1>8, <2>1, <3>1
  <2>2. CASE i = pos + 1
    <3>1. i \in 1 .. pos + 1 /\ ~(i <= pos) /\ i <= pos + 1
      BY <1>1, <2>2
    <3>. QED  BY <1>6, <1>7, <1>8, <2>2, <3>1
  <2>3. CASE ~(i <= pos + 1)
    <3>1. /\ i - (pos + 1) \in 1 .. k - (pos + 1) + 1 /\ (pos + 1) + (i - (pos + 1)) - 1 = i - 1
          /\ i - 1 \in 1 .. k /\ ~(i <= pos) /\ i # pos + 1
      BY <1>1, <2>3
    <3>2. back[i - (pos + 1)] = s[(pos + 1) + (i - (pos + 1)) - 1]
      BY <1>4, <3>1
    <3>3. (start \o back)[i] = back[i - (pos + 1)]
      BY <1>7, <1>8, <2>3
    <3>. QED  BY <3>1, <3>2, <3>3
  <2>4. i <= pos \/ i = pos + 1 \/ ~(i <= pos + 1)
    BY <1>1
  <2>. QED  BY <2>1, <2>2, <2>3, <2>4
<1>. QED  BY <1>7, <1>8, <1>9 DEF InsertAt, start, front, back, k

\* std::rotate, with the position that the service gives every element.
LEMMA RotatedItems ==
    ASSUME NEW S, NEW t, t.m_texts \in Seq(S), t.m_size = Len(t.m_texts),
           NEW shift \in 0 .. t.m_size
    PROVE  /\ DOMAIN Rotated(t, shift).m_texts = 1 .. t.m_size
           /\ \A i \in 1 .. t.m_size :
                 /\ ((i - 1 - shift) % t.m_size) + 1 \in 1 .. t.m_size
                 /\ Rotated(t, shift).m_texts[i] = t.m_texts[((i - 1 - shift) % t.m_size) + 1]
<1>. DEFINE s == t.m_texts
            k == t.m_size
            r == Rotated(t, shift).m_texts
<1>1. k \in Nat /\ Len(s) = k /\ DOMAIN s = 1 .. k /\ shift \in Nat /\ shift <= k
  BY LenProperties
<1>2. CASE shift \in {0, k}
  <2>1. r = s
    BY <1>2 DEF Rotated, Text
  <2>2. ASSUME NEW i \in 1 .. k PROVE (i - 1 - shift) % k = i - 1
    <3>. HIDE DEF k
    <3>1. k \in Nat \ {0} /\ i - 1 \in 0 .. k - 1
      BY <1>1
    <3>2. CASE shift = 0
      <4>1. i - 1 - shift = i - 1
        BY <1>1, <3>2
      <4>. QED  BY <3>1, <4>1, RemainderOfSmall
    <3>3. CASE shift = k
      <4>1. i - 1 - shift \in -k .. -1 /\ (i - 1 - shift) + k = i - 1
        BY <1>1, <3>3
      <4>. QED  BY <3>1, <4>1, RemainderOfNegative
    <3>. QED  BY <1>2, <3>2, <3>3 DEF k
  <2>3. \A i \in 1 .. k : (i - 1) + 1 = i
    BY <1>1
  <2>. HIDE DEF r, s, k
  <2>4. \A i \in 1 .. k : /\ ((i - 1 - shift) % k) + 1 \in 1 .. k
                          /\ r[i] = s[((i - 1 - shift) % k) + 1]
    BY <2>1, <2>2, <2>3
  <2>. QED  BY <1>1, <2>1, <2>4 DEF r, s, k
<1>3. CASE shift \notin {0, k}
  <2>. DEFINE first == k - shift
              front == SubSeq(s, first + 1, k)
              back == SubSeq(s, 1, first)
  <2>1. r = front \o back
    <3>1. shift > 0 /\ shift \notin {0, k, -k}
      BY <1>1, <1>3
    <3>. QED  BY <3>1 DEF Rotated, Text
  <2>2. /\ first \in Nat /\ first + 1 \in 1 .. Len(s) + 1 /\ k \in 0 .. Len(s)
        /\ 1 \in 1 .. Len(s) + 1 /\ first \in 0 .. Len(s)
        /\ k - (first + 1) + 1 = shift /\ first - 1 + 1 = first /\ shift + first = k
    BY <1>1
  <2>. HIDE DEF k, first, s, r
  <2>3. /\ front \in Seq(S) /\ DOMAIN front = 1 .. k - (first + 1) + 1
        /\ \A i \in 1 .. k - (first + 1) + 1 : front[i] = s[(first + 1) + i - 1]
    BY <2>2, PartItems DEF s
  <2>4. /\ back \in Seq(S) /\ DOMAIN back = 1 .. first - 1 + 1
        /\ \A i \in 1 .. first - 1 + 1 : back[i] = s[1 + i - 1]
    BY <2>2, PartItems DEF s
  <2>. HIDE DEF front, back
  <2>5. Len(front) = shift /\ Len(back) = first
    <3>1. /\ Len(front) \in Nat /\ 1 .. Len(front) = 1 .. shift
          /\ Len(back) \in Nat /\ 1 .. Len(back) = 1 .. first
      <4>1. /\ Len(front) \in Nat /\ DOMAIN front = 1 .. Len(front)
            /\ Len(back) \in Nat /\ DOMAIN back = 1 .. Len(back)
        BY <2>3, <2>4, LenProperties
      <4>. QED  BY <2>2, <2>3, <2>4, <4>1
    <3>. QED  BY <1>1, <2>2, <3>1, SameRange
  <2>6. /\ DOMAIN r = 1 .. k
        /\ \A i \in 1 .. k : r[i] = IF i <= shift THEN front[i] ELSE back[i - shift]
    <3>1. front \in Seq(S) /\ back \in Seq(S)
      BY <2>3, <2>4
    <3>2. /\ DOMAIN (front \o back) = 1 .. Len(front) + Len(back)
          /\ \A i \in 1 .. Len(front) + Len(back) :
                (front \o back)[i] = IF i <= Len(front) THEN front[i] ELSE back[i - Len(front)]
      BY <3>1, JoinedItems
    <3>. QED  BY <2>1, <2>2, <2>5, <3>2
  <2>7. ASSUME NEW i \in 1 .. k
        PROVE  /\ ((i - 1 - shift) % k) + 1 \in 1 .. k
               /\ r[i] = s[((i - 1 - shift) % k) + 1]
    <3>1. k \in Nat \ {0}
      BY <1>1
    <3>2. CASE i <= shift
      <4>1. i - 1 - shift \in -k .. -1
        BY <1>1, <3>2
      <4>2. (i - 1 - shift) % k = (i - 1 - shift) + k
        BY <3>1, <4>1, RemainderOfNegative
      <4>3. /\ ((i - 1 - shift) + k) + 1 \in 1 .. k /\ ((i - 1 - shift) + k) + 1 = (first + 1) + i - 1
            /\ i \in 1 .. shift
        BY <1>1, <2>2, <3>2
      <4>4. r[i] = s[(first + 1) + i - 1]
        BY <2>2, <2>3, <2>6, <3>2, <4>3
      <4>. QED  BY <4>2, <4>3, <4>4
    <3>3. CASE ~(i <= shift)
      <4>1. i - 1 - shift \in 0 .. k - 1
        BY <1>1, <3>3
      <4>2. (i - 1 - shift) % k = i - 1 - shift
        BY <3>1, <4>1, RemainderOfSmall
      <4>3. /\ (i - 1 - shift) + 1 \in 1 .. k /\ (i - 1 - shift) + 1 = 1 + (i - shift) - 1
            /\ i - shift \in 1 .. first
        BY <1>1, <2>2, <3>3
      <4>4. r[i] = s[1 + (i - shift) - 1]
        BY <2>2, <2>4, <2>6, <3>3, <4>3
      <4>. QED  BY <4>2, <4>3, <4>4
    <3>. QED  BY <3>2, <3>3
  <2>. QED  BY <2>6, <2>7 DEF r, s, k
<1>. QED  BY <1>2, <1>3

\* What the service shows of a ciphertext.
LEMMA ShownFacts ==
    ASSUME NoneIsNoValue, Inv, NEW x \in CipherName, Assigned(x)
    PROVE  /\ KeyOf(x).m_n \in Moduli
           /\ cipher[x].m_texts \in Seq(EncryptionsUnder(KeyOf(x).m_n))
           /\ WellFormed(cipher[x])
           /\ Shown(x) # None
           /\ Shown(x).modulus = KeyOf(x).m_n
           /\ Shown(x).items = Messages(KeyOf(x).m_n, cipher[x].m_texts)
           /\ ShownVectors[x] = Shown(x)
<1>1. /\ WellFormed(cipher[x]) /\ KeyOf(x).m_n \in Moduli
      /\ cipher[x].m_texts \in Seq(EncryptionsUnder(KeyOf(x).m_n))
  BY MineUnder, ModuliFacts DEF Inv
<1>2. Decoded(KeyOf(x).m_n, cipher[x].m_texts)
        = [modulus |-> KeyOf(x).m_n, items |-> Messages(KeyOf(x).m_n, cipher[x].m_texts)]
  BY <1>1, MessagesFacts
<1>3. ShownVectors[x] = Shown(x)
  BY DEF ShownVectors
<1>. QED  BY <1>1, <1>2, <1>3 DEF Shown, NoneIsNoValue

LEMMA OthersShown ==
    ASSUME NEW x \in CipherName, OnlyOn(x), NEW y \in CipherName, y # x
    PROVE  Shown(y)' = Shown(y)
BY DEF OnlyOn, Untouched, Shown, Assigned, KeyOf

\* The plain vectors of the two specifications.
LEMMA OperandsShown ==
    ASSUME NoneIsNoValue, Inv, NEW pt \in Operands
    PROVE  /\ pt.m_texts \in Vectors!Operands
           /\ pt.m_texts \in Seq(Nat) /\ Len(pt.m_texts) = pt.m_size /\ pt.m_size \in Nat
           /\ DOMAIN pt.m_texts = 1 .. pt.m_size
           /\ pt.m_size > 0 => pt.m_texts # <<>>
<1>1. WellFormed(pt) /\ pt.m_texts \in Seq(Nat)
  BY OperandNumbers DEF Inv
<1>2. pt.m_texts \in Vectors!Operands
  <2>1. ASSUME NEW v \in Plains, pt = Text(v) PROVE pt.m_texts \in Vectors!Operands
    BY <2>1 DEF Text, Vectors!Operands
  <2>2. CASE plain # None /\ pt = plain
    BY <1>1, <2>2 DEF NoneIsNoValue, Vectors!Operands
  <2>. QED  BY <2>1, <2>2 DEF Operands
<1>3. /\ Len(pt.m_texts) = pt.m_size /\ pt.m_size \in Nat /\ DOMAIN pt.m_texts = 1 .. pt.m_size
  BY <1>1, SizeFacts DEF WellFormed
<1>. QED  BY <1>1, <1>2, <1>3

\* An operation on x is one step of the service if x becomes what the service allows.
LEMMA BecomesShown ==
    ASSUME NEW x \in CipherName, OnlyOn(x), UNCHANGED <<pub, plain, archive>>,
           Vectors!May(ShownVectors, x, Shown(x)')
    PROVE  Vectors!Become
<1>1. \A y \in CipherName \ {x} : Shown(y)' = Shown(y)
  BY OthersShown
<1>2. \A y \in CipherName : ShownVectors[y] = Shown(y) /\ ShownVectors'[y] = Shown(y)'
  BY DEF ShownVectors
<1>3. /\ \A y \in CipherName \ {x} : ShownVectors'[y] = ShownVectors[y]
      /\ Vectors!May(ShownVectors, x, ShownVectors'[x])
  BY <1>1, <1>2
<1>4. UNCHANGED <<ShownModulus, ShownOpened, ShownSaved>>
  BY DEF ShownModulus, ShownOpened, ShownSaved
<1>. QED  BY <1>3, <1>4 DEF Vectors!Become, ShownVectors, Shown, ShownModulus, ShownOpened, ShownSaved

LEMMA BecomeAssigned ==
    ASSUME NoneIsNothing, TextsInv, NEW x \in CipherName, NEW t, NEW key, Become(x, t, key)
    PROVE  /\ Assigned(x)' /\ UNCHANGED <<plain, archive>>
           /\ cipher'[x].m_texts = t.m_texts /\ KeyOf(x)' = key
<1>1. cipher' = [cipher EXCEPT ![x] = [m_texts |-> t.m_texts, m_size |-> t.m_size, m_pk |-> key]]
  BY DEF Become
<1>2. cipher = [y \in CipherName |-> cipher[y]]
  BY DEF TextsInv, ContainersOK
<1>3. cipher'[x] = [m_texts |-> t.m_texts, m_size |-> t.m_size, m_pk |-> key]
  BY <1>1, <1>2
<1>. QED  BY <1>3 DEF Become, Assigned, KeyOf, NoneIsNothing

LEMMA EditAssigned ==
    ASSUME NoneIsNothing, TextsInv, NEW x \in Mine, NEW t, Edit(x, t)
    PROVE  /\ Assigned(x)' /\ UNCHANGED <<plain, archive>>
           /\ cipher'[x].m_texts = t.m_texts /\ KeyOf(x)' = KeyOf(x)
<1>1. /\ cipher = [y \in CipherName |-> cipher[y]] /\ x \in CipherName
      /\ cipher[x] = [m_texts |-> cipher[x].m_texts, m_size |-> cipher[x].m_size,
                      m_pk |-> cipher[x].m_pk]
  BY DEF TextsInv, ContainersOK, CipherOK, Mine
<1>2. cipher' = [cipher EXCEPT ![x].m_texts = t.m_texts, ![x].m_size = t.m_size]
  BY DEF Edit
<1>3. cipher'[x] = [m_texts |-> t.m_texts, m_size |-> t.m_size, m_pk |-> cipher[x].m_pk]
  BY <1>1, <1>2
<1>. QED  BY <1>3 DEF Edit, Assigned, KeyOf, NoneIsNothing

LEMMA EncryptShown ==
    ASSUME NoneIsNoValue, Inv, NEW x \in CipherName, Encrypt(x)
    PROVE  Vectors!Become
<1>1. NoneIsNothing /\ TextsInv /\ KeysInv /\ SchemeInv
  BY DEF NoneIsNoValue, Inv
<1>2. OnlyOn(x) /\ EncryptsText(x)
  BY <1>1, EncryptStep, EncryptSound
<1>3. pub.m_isInitialized /\ pub.m_n \in Moduli /\ pub.m_n \in Nat
  BY <1>1, NoKeySound, ModuliFacts DEF Encrypt, KeysInv
<1>4. Assigned(x)' /\ UNCHANGED <<pub, plain, archive>>
  BY <1>1, BecomeAssigned DEF Encrypt, TextStep
<1>5. PICK pt \in Operands :
        /\ pt.m_size > 0
        /\ DOMAIN cipher'[x].m_texts = DOMAIN pt.m_texts /\ KeyOf(x)' = pub
        /\ \A i \in DOMAIN pt.m_texts :
              Encrypts(pub.m_n, pt.m_texts[i] % pub.m_n, cipher'[x].m_texts[i])
  BY <1>2 DEF EncryptsText
<1>6. pt.m_texts \in Vectors!Operands /\ pt.m_texts # <<>> /\ pt.m_texts \in Seq(Nat)
  BY <1>5, OperandsShown
<1>7. \A i \in DOMAIN pt.m_texts : pt.m_texts[i] \in Int
  BY <1>6, LenProperties
<1>8. Decoded(pub.m_n, cipher'[x].m_texts) = Vectors!Under(pub.m_n, pt.m_texts)
  BY <1>3, <1>5, <1>7, DecodedUnder
<1>9. Shown(x)' = Vectors!Under(pub.m_n, pt.m_texts)
  <2>1. Shown(x)' = Decoded(KeyOf(x)'.m_n, cipher'[x].m_texts)
    BY <1>4 DEF Shown
  <2>. QED  BY <1>5, <1>8, <2>1
<1>10. ShownModulus = pub.m_n /\ pub.m_n # None
  BY <1>3 DEF ShownModulus, NoneIsNoValue
<1>11. Vectors!FromOutside(Shown(x)')
  BY <1>6, <1>9, <1>10 DEF Vectors!FromOutside, ShownModulus
<1>. QED  BY <1>2, <1>4, <1>11, BecomesShown DEF Vectors!May

LEMMA BecomesUnder ==
    ASSUME NEW x \in CipherName, Assigned(x)', NEW n \in Moduli, KeyOf(x)'.m_n = n,
           NEW items, DOMAIN cipher'[x].m_texts = DOMAIN items,
           \A i \in DOMAIN items : items[i] \in Int /\ Encrypts(n, items[i] % n, cipher'[x].m_texts[i])
    PROVE  Shown(x)' = Vectors!Under(n, items)
<1>1. Shown(x)' = Decoded(KeyOf(x)'.m_n, cipher'[x].m_texts)
  BY DEF Shown
<1>2. Decoded(n, cipher'[x].m_texts) = Vectors!Under(n, items)
  BY DecodedUnder
<1>. QED  BY <1>1, <1>2

\* The element that meets another one, here and in the service.
LEMMA MetShown ==
    ASSUME NEW a, WellFormed(a), NEW b, WellFormed(b), SizesMatch(a, b), NEW i \in DOMAIN a.m_texts
    PROVE  /\ b.m_size \in {1, a.m_size}
           /\ (IF b.m_size = 1 THEN 1 ELSE i) \in DOMAIN b.m_texts
<1>1. /\ a.m_size \in Nat /\ DOMAIN a.m_texts = 1 .. a.m_size
      /\ b.m_size \in Nat /\ DOMAIN b.m_texts = 1 .. b.m_size
  BY SizeFacts
<1>. QED  BY <1>1 DEF SizesMatch

LEMMA AddTextShown ==
    ASSUME NoneIsNoValue, Inv, NEW x \in CipherName, NEW y \in CipherName, AddCipherText(x, y)
    PROVE  Vectors!Become
<1>1. NoneIsNothing /\ TextsInv /\ SchemeInv
  BY DEF NoneIsNoValue, Inv
<1>2. OnlyOn(x) /\ AddsTexts(x, y)
  BY <1>1, ArithmeticStep, AddTextSound
<1>3. Assigned(x) /\ Assigned(y) /\ KeyOf(x).m_n = KeyOf(y).m_n
  BY DEF AddCipherText, SameModulus
<1>4. Assigned(x)' /\ UNCHANGED <<pub, plain, archive>>
  BY <1>1, BecomeAssigned DEF AddCipherText, TextStep
<1>. DEFINE n == KeyOf(x).m_n
            a == Messages(n, cipher[x].m_texts)
            b == Messages(n, cipher[y].m_texts)
<1>5. /\ n \in Moduli /\ n \in Nat \ {0}
      /\ WellFormed(cipher[x]) /\ cipher[x].m_texts \in Seq(EncryptionsUnder(n))
      /\ WellFormed(cipher[y]) /\ cipher[y].m_texts \in Seq(EncryptionsUnder(n))
      /\ Shown(x) # None /\ Shown(x).modulus = n /\ Shown(x).items = a /\ ShownVectors[x] = Shown(x)
      /\ Shown(y) # None /\ Shown(y).modulus = n /\ Shown(y).items = b /\ ShownVectors[y] = Shown(y)
  BY <1>3, ShownFacts, ModuliFacts
<1>6. /\ DOMAIN a = DOMAIN cipher[x].m_texts /\ Len(a) = cipher[x].m_size
      /\ \A i \in DOMAIN cipher[x].m_texts : /\ Encrypts(n, a[i], cipher[x].m_texts[i])
                                             /\ a[i] \in 0 .. n - 1
  BY <1>5, MessagesFacts DEF WellFormed
<1>7. /\ DOMAIN b = DOMAIN cipher[y].m_texts /\ Len(b) = cipher[y].m_size
      /\ \A i \in DOMAIN cipher[y].m_texts : /\ Encrypts(n, b[i], cipher[y].m_texts[i])
                                             /\ b[i] \in 0 .. n - 1
  BY <1>5, MessagesFacts DEF WellFormed
<1>. HIDE DEF a, b
<1>. DEFINE items == Vectors!Plus(a, b)
<1>8. /\ SizesMatch(cipher[x], cipher[y])
      /\ DOMAIN cipher'[x].m_texts = DOMAIN cipher[x].m_texts /\ KeyOf(x)' = KeyOf(x)
      /\ \A i \in DOMAIN cipher[x].m_texts : \A k, l \in Nat :
            Encrypts(n, k, cipher[x].m_texts[i]) /\ Encrypts(n, l, Met(cipher[y], i)) =>
                Encrypts(n, (k + l) % n, cipher'[x].m_texts[i])
  BY <1>2 DEF AddsTexts
<1>9. /\ Len(b) \in {1, cipher[x].m_size}
      /\ \A i \in DOMAIN cipher[x].m_texts :
            \E j \in DOMAIN cipher[y].m_texts : /\ Vectors!At(b, i) = b[j]
                                                /\ Met(cipher[y], i) = cipher[y].m_texts[j]
  <2>1. Len(b) \in {1, cipher[x].m_size}
    BY <1>7, <1>8 DEF SizesMatch
  <2>2. ASSUME NEW i \in DOMAIN cipher[x].m_texts
        PROVE  \E j \in DOMAIN cipher[y].m_texts : /\ Vectors!At(b, i) = b[j]
                                                    /\ Met(cipher[y], i) = cipher[y].m_texts[j]
    BY <1>5, <1>7, <1>8, MetShown DEF Vectors!At, Met
  <2>. QED  BY <2>1, <2>2
<1>10. DOMAIN items = DOMAIN a /\ \A i \in DOMAIN a : items[i] = a[i] + Vectors!At(b, i)
  BY DEF Vectors!Plus
<1>. HIDE DEF items
<1>11. ASSUME NEW i \in DOMAIN items
       PROVE  items[i] \in Int /\ Encrypts(n, items[i] % n, cipher'[x].m_texts[i])
  <2>1. i \in DOMAIN cipher[x].m_texts
    BY <1>6, <1>10
  <2>2. PICK j \in DOMAIN cipher[y].m_texts : /\ Vectors!At(b, i) = b[j]
                                              /\ Met(cipher[y], i) = cipher[y].m_texts[j]
    BY <1>9, <2>1
  <2>3. a[i] \in Nat /\ b[j] \in Nat
    BY <1>5, <1>6, <1>7, <2>1
  <2>4. items[i] = a[i] + b[j]
    BY <1>6, <1>10, <2>1, <2>2
  <2>5. Encrypts(n, (a[i] + b[j]) % n, cipher'[x].m_texts[i])
    BY <1>6, <1>7, <1>8, <2>1, <2>2, <2>3
  <2>. QED  BY <2>3, <2>4, <2>5
<1>12. Shown(x)' = Vectors!Under(n, items)
  BY <1>4, <1>5, <1>6, <1>8, <1>10, <1>11, BecomesUnder
<1>13. Vectors!Combined(Shown(x), Shown(y), Shown(x)')
  <2>1. Vectors!Fits(a, b)
    BY <1>6, <1>9 DEF Vectors!Fits
  <2>. QED  BY <1>5, <1>12, <2>1 DEF Vectors!Combined, items
<1>. QED  BY <1>2, <1>4, <1>5, <1>13, BecomesShown DEF Vectors!May

LEMMA PlainShown ==
    ASSUME NoneIsNoValue, Inv, NEW x \in CipherName, AddPlainText(x) \/ MultiplyPlainText(x)
    PROVE  Vectors!Become
<1>1. NoneIsNothing /\ TextsInv /\ SchemeInv
  BY DEF NoneIsNoValue, Inv
<1>2. OnlyOn(x) /\ (AddsPlain(x) \/ MultipliesPlain(x))
  BY <1>1, ArithmeticStep, AddPlainSound, MultiplySound
<1>3. Assigned(x)
  BY DEF AddPlainText, MultiplyPlainText
<1>4. Assigned(x)' /\ UNCHANGED <<pub, plain, archive>>
  BY <1>1, BecomeAssigned DEF AddPlainText, MultiplyPlainText, TextStep
<1>. DEFINE n == KeyOf(x).m_n
            a == Messages(n, cipher[x].m_texts)
<1>5. /\ n \in Moduli /\ n \in Nat \ {0}
      /\ WellFormed(cipher[x]) /\ cipher[x].m_texts \in Seq(EncryptionsUnder(n))
      /\ Shown(x) # None /\ Shown(x).modulus = n /\ Shown(x).items = a /\ ShownVectors[x] = Shown(x)
  BY <1>3, ShownFacts, ModuliFacts
<1>6. /\ DOMAIN a = DOMAIN cipher[x].m_texts /\ Len(a) = cipher[x].m_size
      /\ \A i \in DOMAIN cipher[x].m_texts : /\ Encrypts(n, a[i], cipher[x].m_texts[i])
                                             /\ a[i] \in Nat
  BY <1>5, MessagesFacts DEF WellFormed
<1>. HIDE DEF a
<1>7. ASSUME NEW pt \in Operands, SizesMatch(cipher[x], pt)
      PROVE  /\ Vectors!Fits(a, pt.m_texts)
             /\ \A i \in DOMAIN cipher[x].m_texts :
                   Vectors!At(pt.m_texts, i) = Met(pt, i) /\ Met(pt, i) \in Nat
  <2>1. pt.m_texts \in Seq(Nat) /\ Len(pt.m_texts) = pt.m_size /\ WellFormed(pt)
    BY <1>1, OperandsShown, OperandNumbers
  <2>2. Len(pt.m_texts) \in {1, cipher[x].m_size}
    BY <1>7, <2>1 DEF SizesMatch, WellFormed
  <2>3. \A j \in DOMAIN pt.m_texts : pt.m_texts[j] \in Nat
    BY <2>1, LenProperties
  <2>4. ASSUME NEW i \in DOMAIN cipher[x].m_texts
        PROVE  Vectors!At(pt.m_texts, i) = Met(pt, i) /\ Met(pt, i) \in Nat
    <3>1. (IF pt.m_size = 1 THEN 1 ELSE i) \in DOMAIN pt.m_texts
      BY <1>5, <1>7, <2>1, MetShown
    <3>. QED  BY <2>1, <2>3, <3>1 DEF Vectors!At, Met
  <2>. QED  BY <1>6, <2>2, <2>4 DEF Vectors!Fits
<1>8. CASE AddsPlain(x)
  <2>1. PICK pt \in Operands :
            /\ pt.m_size > 0 /\ SizesMatch(cipher[x], pt)
            /\ DOMAIN cipher'[x].m_texts = DOMAIN cipher[x].m_texts /\ KeyOf(x)' = KeyOf(x)
            /\ \A i \in DOMAIN cipher[x].m_texts : \A k \in Nat :
                  Encrypts(n, k, cipher[x].m_texts[i]) =>
                      Encrypts(n, (k + Met(pt, i)) % n, cipher'[x].m_texts[i])
    BY <1>8 DEF AddsPlain
  <2>. DEFINE v == pt.m_texts
              items == Vectors!Plus(a, v)
  <2>2. v \in Vectors!Operands /\ v # <<>>
    BY <2>1, OperandsShown
  <2>3. DOMAIN items = DOMAIN a /\ \A i \in DOMAIN a : items[i] = a[i] + Vectors!At(v, i)
    BY DEF Vectors!Plus
  <2>. HIDE DEF items
  <2>4. ASSUME NEW i \in DOMAIN items
        PROVE  items[i] \in Int /\ Encrypts(n, items[i] % n, cipher'[x].m_texts[i])
    <3>1. i \in DOMAIN cipher[x].m_texts
      BY <1>6, <2>3
    <3>2. items[i] = a[i] + Met(pt, i) /\ a[i] \in Nat /\ Met(pt, i) \in Nat
      BY <1>6, <1>7, <2>1, <2>3, <3>1
    <3>3. Encrypts(n, (a[i] + Met(pt, i)) % n, cipher'[x].m_texts[i])
      BY <1>6, <2>1, <3>1
    <3>. QED  BY <3>2, <3>3
  <2>5. Shown(x)' = Vectors!Under(n, items)
    BY <1>4, <1>5, <1>6, <2>1, <2>3, <2>4, BecomesUnder
  <2>6. Vectors!Changed(Shown(x), Shown(x)')
    BY <1>5, <1>7, <2>1, <2>2, <2>5 DEF Vectors!Changed, items
  <2>. QED  BY <1>2, <1>4, <1>5, <2>6, BecomesShown DEF Vectors!May
<1>9. CASE MultipliesPlain(x)
  <2>1. PICK pt \in Operands :
            /\ SizesMatch(cipher[x], pt)
            /\ DOMAIN cipher'[x].m_texts = DOMAIN cipher[x].m_texts /\ KeyOf(x)' = KeyOf(x)
            /\ \A i \in DOMAIN cipher[x].m_texts : \A k \in Nat :
                  Encrypts(n, k, cipher[x].m_texts[i]) =>
                      Encrypts(n, (k * Met(pt, i)) % n, cipher'[x].m_texts[i])
    BY <1>9 DEF MultipliesPlain
  <2>. DEFINE v == pt.m_texts
              items == Vectors!Times(a, v)
  <2>2. v \in Vectors!Operands
    BY <2>1, OperandsShown
  <2>3. DOMAIN items = DOMAIN a /\ \A i \in DOMAIN a : items[i] = a[i] * Vectors!At(v, i)
    BY DEF Vectors!Times
  <2>. HIDE DEF items
  <2>4. ASSUME NEW i \in DOMAIN items
        PROVE  items[i] \in Int /\ Encrypts(n, items[i] % n, cipher'[x].m_texts[i])
    <3>1. i \in DOMAIN cipher[x].m_texts
      BY <1>6, <2>3
    <3>2. items[i] = a[i] * Met(pt, i) /\ a[i] \in Nat /\ Met(pt, i) \in Nat
      BY <1>6, <1>7, <2>1, <2>3, <3>1
    <3>3. Encrypts(n, (a[i] * Met(pt, i)) % n, cipher'[x].m_texts[i])
      BY <1>6, <2>1, <3>1
    <3>4. a[i] * Met(pt, i) \in Int
      BY <3>2
    <3>. QED  BY <3>2, <3>3, <3>4
  <2>5. Shown(x)' = Vectors!Under(n, items)
    BY <1>4, <1>5, <1>6, <2>1, <2>3, <2>4, BecomesUnder
  <2>6. Vectors!Changed(Shown(x), Shown(x)')
    BY <1>5, <1>7, <2>1, <2>2, <2>5 DEF Vectors!Changed, items
  <2>. QED  BY <1>2, <1>4, <1>5, <2>6, BecomesShown DEF Vectors!May
<1>. QED  BY <1>2, <1>8, <1>9

\* Where the elements were only moved, so are their messages.
LEMMA MovedShown ==
    ASSUME SchemeInv', NEW x \in CipherName, Assigned(x)', NEW n, KeyOf(x)'.m_n = n,
           NEW items, DOMAIN items = DOMAIN cipher'[x].m_texts,
           \A i \in DOMAIN items : items[i] = MessageOf[n][cipher'[x].m_texts[i]]
    PROVE  Shown(x)' = Vectors!Under(n, items)
<1>1. CipherUnder(x)'
  BY DEF SchemeInv, Mine
<1>. DEFINE texts == cipher'[x].m_texts
<1>2. n \in Moduli /\ n \in Nat \ {0} /\ texts \in Seq(EncryptionsUnder(n))
  BY <1>1, ModuliFacts DEF CipherUnder
<1>3. \A i \in DOMAIN texts : /\ Encrypts(n, Messages(n, texts)[i], texts[i])
                              /\ Messages(n, texts)[i] \in 0 .. n - 1
                              /\ Messages(n, texts)[i] = MessageOf[n][texts[i]]
  <2>. HIDE DEF texts
  <2>. QED  BY <1>2, MessagesFacts
<1>4. ASSUME NEW i \in DOMAIN items
      PROVE  items[i] \in Int /\ Encrypts(n, items[i] % n, texts[i])
  <2>1. items[i] \in 0 .. n - 1 /\ Encrypts(n, items[i], texts[i])
    BY <1>3
  <2>2. items[i] % n = items[i]
    BY <1>2, <2>1, RemainderOfSmall
  <2>. QED  BY <2>1, <2>2
<1>. QED  BY <1>2, <1>4, BecomesUnder

LEMMA RotateShown ==
    ASSUME NoneIsNoValue, Inv, SchemeInv', NEW x \in CipherName, RotateCipherText(x)
    PROVE  Vectors!Become
<1>1. NoneIsNothing /\ TextsInv /\ SchemeInv
  BY DEF NoneIsNoValue, Inv
<1>2. OnlyOn(x) /\ Assigned(x)
  BY <1>1, RotateStep DEF RotateCipherText
<1>. DEFINE n == KeyOf(x).m_n
            s == cipher[x].m_texts
            a == Messages(n, s)
<1>3. /\ n \in Moduli /\ WellFormed(cipher[x]) /\ s \in Seq(EncryptionsUnder(n))
      /\ Shown(x) # None /\ Shown(x).modulus = n /\ Shown(x).items = a /\ ShownVectors[x] = Shown(x)
  BY <1>2, ShownFacts
<1>4. cipher[x].m_size \in Nat /\ cipher[x].m_size <= MaxSize /\ cipher[x].m_size = Len(s)
  BY <1>1, <1>2, MineFacts DEF WellFormed
<1>5. PICK shift \in Shifts :
         CipherRotates(cipher[x], shift) /\ Become(x, Rotated(cipher[x], shift), KeyOf(x))
  BY DEF RotateCipherText
<1>6. shift \in 0 .. cipher[x].m_size
  <2>1. Small(cipher[x].m_size) /\ Small(shift)
    BY <1>4, ShiftsAreSmall
  <2>2. cipher[x].m_size \in Nat \ {1}
    BY <1>4, <1>5 DEF CipherRotates
  <2>. QED  BY <1>5, <2>1, <2>2, CipherRotatesRight
<1>7. /\ Assigned(x)' /\ UNCHANGED <<pub, plain, archive>>
      /\ cipher'[x].m_texts = Rotated(cipher[x], shift).m_texts /\ KeyOf(x)'.m_n = n
  BY <1>1, <1>5, BecomeAssigned DEF RotateCipherText, TextStep
<1>8. /\ DOMAIN a = DOMAIN s /\ Len(a) = Len(s) /\ DOMAIN s = 1 .. Len(s)
      /\ \A i \in DOMAIN s : a[i] = MessageOf[n][s[i]]
  BY <1>3, MessagesFacts, LenProperties
<1>9. /\ DOMAIN cipher'[x].m_texts = 1 .. Len(s)
      /\ \A i \in 1 .. Len(s) :
            /\ ((i - 1 - shift) % Len(s)) + 1 \in 1 .. Len(s)
            /\ cipher'[x].m_texts[i] = s[((i - 1 - shift) % Len(s)) + 1]
  <2>1. /\ DOMAIN Rotated(cipher[x], shift).m_texts = 1 .. cipher[x].m_size
        /\ \A i \in 1 .. cipher[x].m_size :
              /\ ((i - 1 - shift) % cipher[x].m_size) + 1 \in 1 .. cipher[x].m_size
              /\ Rotated(cipher[x], shift).m_texts[i] = s[((i - 1 - shift) % cipher[x].m_size) + 1]
    BY <1>3, <1>4, <1>6, RotatedItems
  <2>. QED  BY <1>4, <1>7, <2>1
<1>. HIDE DEF a, s, n
<1>. DEFINE items == Vectors!RotatedRight(a, shift)
<1>10. DOMAIN items = DOMAIN a /\ \A i \in DOMAIN a : items[i] = a[((i - 1 - shift) % Len(a)) + 1]
  BY DEF Vectors!RotatedRight
<1>. HIDE DEF items
<1>11. \A i \in DOMAIN items : items[i] = MessageOf[n][cipher'[x].m_texts[i]]
  BY <1>8, <1>9, <1>10
<1>12. Shown(x)' = Vectors!Under(n, items)
  <2>1. DOMAIN items = DOMAIN cipher'[x].m_texts
    BY <1>8, <1>9, <1>10
  <2>2. Assigned(x)' /\ KeyOf(x)'.m_n = n
    BY <1>7
  <2>. HIDE DEF items, n
  <2>. QED  BY <1>11, <2>1, <2>2, MovedShown
<1>13. Vectors!Changed(Shown(x), Shown(x)')
  <2>1. shift \in 0 .. Len(a)
    BY <1>4, <1>6, <1>8
  <2>. QED  BY <1>3, <1>12, <2>1 DEF Vectors!Changed, items
<1>. QED  BY <1>2, <1>3, <1>7, <1>13, BecomesShown DEF Vectors!May

LEMMA RemoveShown ==
    ASSUME NoneIsNoValue, Inv, SchemeInv', NEW x \in CipherName, RemoveText(x)
    PROVE  Vectors!Become
<1>1. NoneIsNothing /\ TextsInv /\ SchemeInv
  BY DEF NoneIsNoValue, Inv
<1>2. OnlyOn(x) /\ Assigned(x) /\ x \in Mine
  BY <1>1, EditSteps DEF RemoveText, Mine
<1>. DEFINE n == KeyOf(x).m_n
            s == cipher[x].m_texts
            a == Messages(n, s)
<1>3. /\ n \in Moduli /\ n \in Nat /\ WellFormed(cipher[x]) /\ s \in Seq(EncryptionsUnder(n))
      /\ Shown(x) # None /\ Shown(x).modulus = n /\ Shown(x).items = a /\ ShownVectors[x] = Shown(x)
  BY <1>2, ShownFacts, ModuliFacts
<1>4. MaxSize \in Nat /\ Len(s) \in Nat /\ cipher[x].m_size = Len(s)
  BY <1>3, PaillierAssumption, LenProperties DEF WellFormed
<1>5. PICK pos \in 0 .. MaxSize, length \in 0 .. MaxSize :
         MayRemove(cipher[x], pos, length) /\ Edit(x, Removed(cipher[x], pos, length))
  BY DEF RemoveText
<1>6. pos \in Nat /\ length \in Nat /\ pos + length < Len(s)
  BY <1>4, <1>5 DEF MayRemove
<1>. DEFINE text == SubSeq(s, 1, pos) \o SubSeq(s, pos + length + 1, Len(s))
            items == SubSeq(a, 1, pos) \o SubSeq(a, pos + length + 1, Len(a))
<1>7. /\ Assigned(x)' /\ UNCHANGED <<pub, plain, archive>>
      /\ cipher'[x].m_texts = text /\ KeyOf(x)'.m_n = n
  <2>. DEFINE t == Removed(cipher[x], pos, length)
  <2>1. Edit(x, t)
    BY <1>5
  <2>2. t.m_texts = text
    BY DEF Removed
  <2>. HIDE DEF t, text
  <2>3. /\ Assigned(x)' /\ UNCHANGED <<plain, archive>>
        /\ cipher'[x].m_texts = t.m_texts /\ KeyOf(x)' = KeyOf(x)
    BY <1>1, <1>2, <2>1, EditAssigned
  <2>. QED  BY <2>2, <2>3 DEF RemoveText, TextStep
<1>8. /\ DOMAIN a = DOMAIN s /\ Len(a) = Len(s) /\ DOMAIN s = 1 .. Len(s) /\ a \in Seq(0 .. n - 1)
      /\ \A i \in DOMAIN s : a[i] = MessageOf[n][s[i]]
  BY <1>3, MessagesFacts, LenProperties
<1>. HIDE DEF a, s, n
<1>9. /\ DOMAIN text = 1 .. Len(s) - length
      /\ \A i \in 1 .. Len(s) - length :
            /\ (IF i <= pos THEN i ELSE i + length) \in 1 .. Len(s)
            /\ text[i] = s[IF i <= pos THEN i ELSE i + length]
  BY <1>3, <1>6, RemovedItems
<1>10. /\ DOMAIN items = 1 .. Len(a) - length
       /\ \A i \in 1 .. Len(a) - length : items[i] = a[IF i <= pos THEN i ELSE i + length]
  BY <1>6, <1>8, RemovedItems
<1>. HIDE DEF text
<1>. HIDE DEF items
<1>11. ASSUME NEW i \in DOMAIN items PROVE items[i] = MessageOf[n][cipher'[x].m_texts[i]]
  <2>. DEFINE j == IF i <= pos THEN i ELSE i + length
  <2>1. i \in 1 .. Len(s) - length
    BY <1>8, <1>10
  <2>2. j \in 1 .. Len(s) /\ text[i] = s[j] /\ items[i] = a[j]
    BY <1>8, <1>9, <1>10, <2>1
  <2>. HIDE DEF j
  <2>. QED  BY <1>7, <1>8, <2>2
<1>12. Shown(x)' = Vectors!Under(n, items)
  <2>1. DOMAIN items = DOMAIN cipher'[x].m_texts
    BY <1>7, <1>8, <1>9, <1>10
  <2>2. Assigned(x)' /\ KeyOf(x)'.m_n = n
    BY <1>7
  <2>3. \A i \in DOMAIN items : items[i] = MessageOf[n][cipher'[x].m_texts[i]]
    BY <1>11
  <2>. QED  BY <2>1, <2>2, <2>3, MovedShown
<1>13. Vectors!Changed(Shown(x), Shown(x)')
  <2>1. pos \in 0 .. Len(a) /\ length \in 0 .. Len(a) /\ pos + length < Len(a)
    BY <1>4, <1>6, <1>8
  <2>. QED  BY <1>3, <1>12, <2>1 DEF Vectors!Changed, items
<1>. QED  BY <1>2, <1>3, <1>7, <1>13, BecomesShown DEF Vectors!May

\* A ciphertext that becomes a part of another one, or of itself.
BecomesPart(x, y, first, last) ==
    /\ KeyOf(x)'.m_n = KeyOf(y).m_n
    /\ DOMAIN cipher'[x].m_texts = 1 .. last - first + 1
    /\ \A i \in 1 .. last - first + 1 : cipher'[x].m_texts[i] = cipher[y].m_texts[first + i - 1]

LEMMA TakenShown ==
    ASSUME NoneIsNoValue, Inv, SchemeInv', NEW x \in CipherName, NEW y \in CipherName, OnlyOn(x),
           UNCHANGED <<pub, plain, archive>>, Assigned(y), Assigned(x)',
           NEW first \in 1 .. Len(cipher[y].m_texts) + 1, NEW last \in 0 .. Len(cipher[y].m_texts),
           BecomesPart(x, y, first, last)
    PROVE  Vectors!Become
<1>. DEFINE n == KeyOf(y).m_n
            s == cipher[y].m_texts
            a == Messages(n, s)
            items == SubSeq(a, first, last)
<1>1. /\ n \in Moduli /\ s \in Seq(EncryptionsUnder(n))
      /\ Shown(y) # None /\ Shown(y).modulus = n /\ Shown(y).items = a /\ ShownVectors[y] = Shown(y)
  BY ShownFacts
<1>2. /\ DOMAIN a = DOMAIN s /\ Len(a) = Len(s) /\ DOMAIN s = 1 .. Len(s) /\ a \in Seq(0 .. n - 1)
      /\ \A i \in DOMAIN s : a[i] = MessageOf[n][s[i]]
  BY <1>1, MessagesFacts, LenProperties
<1>3. /\ first \in 1 .. Len(s) + 1 /\ last \in 0 .. Len(s) /\ KeyOf(x)'.m_n = n
      /\ DOMAIN cipher'[x].m_texts = 1 .. last - first + 1
      /\ \A i \in 1 .. last - first + 1 : cipher'[x].m_texts[i] = s[first + i - 1]
  BY DEF BecomesPart
<1>. HIDE DEF a, s, n
<1>4. /\ DOMAIN items = 1 .. last - first + 1
      /\ \A i \in 1 .. last - first + 1 :
            first + i - 1 \in 1 .. Len(a) /\ items[i] = a[first + i - 1]
  <2>1. first \in 1 .. Len(a) + 1 /\ last \in 0 .. Len(a)
    BY <1>2, <1>3
  <2>. QED  BY <1>2, <2>1, PartItems
<1>5. Shown(x)' = Vectors!Under(n, items)
  <2>. HIDE DEF items
  <2>1. DOMAIN items = DOMAIN cipher'[x].m_texts
    BY <1>3, <1>4
  <2>2. ASSUME NEW i \in DOMAIN items PROVE items[i] = MessageOf[n][cipher'[x].m_texts[i]]
    <3>1. first + i - 1 \in DOMAIN s /\ items[i] = a[first + i - 1]
      BY <1>2, <1>4
    <3>2. cipher'[x].m_texts[i] = s[first + i - 1]
      BY <1>3, <1>4
    <3>. QED  BY <1>2, <3>1, <3>2
  <2>3. \A i \in DOMAIN items : items[i] = MessageOf[n][cipher'[x].m_texts[i]]
    BY <2>2
  <2>4. Assigned(x)' /\ KeyOf(x)'.m_n = n
    BY <1>3
  <2>. QED  BY <2>1, <2>3, <2>4, MovedShown
<1>6. Vectors!Taken(Shown(y), Shown(x)')
  <2>1. first \in 1 .. Len(a) + 1 /\ last \in 0 .. Len(a)
    BY <1>2, <1>3
  <2>. QED  BY <1>1, <1>5, <2>1 DEF Vectors!Taken
<1>. QED  BY <1>1, <1>6, BecomesShown DEF Vectors!May

LEMMA GetShown ==
    ASSUME NoneIsNoValue, Inv, SchemeInv', NEW x \in CipherName, NEW y \in CipherName,
           GetCipherText(x, y)
    PROVE  Vectors!Become
<1>1. NoneIsNothing /\ TextsInv
  BY DEF NoneIsNoValue, Inv
<1>2. OnlyOn(x) /\ Assigned(y) /\ pub' = pub
  BY <1>1, GetCipherTextStep DEF GetCipherText, TextStep
<1>. DEFINE s == cipher[y].m_texts
<1>3. WellFormed(cipher[y]) /\ s \in Seq(EncryptionsUnder(KeyOf(y).m_n))
  BY <1>2, ShownFacts
<1>4. Len(s) \in Nat /\ cipher[y].m_size = Len(s)
  BY <1>3, LenProperties DEF WellFormed
<1>5. ASSUME NEW t, Become(x, t, KeyOf(y))
      PROVE  /\ Assigned(x)' /\ UNCHANGED <<pub, plain, archive>>
             /\ cipher'[x].m_texts = t.m_texts /\ KeyOf(x)' = KeyOf(y)
  BY <1>1, <1>2, <1>5, BecomeAssigned
<1>6. ASSUME NEW idx \in 0 .. MaxSize, HasElement(cipher[y], idx),
             Become(x, Text(<<getElement(cipher[y], idx)>>), KeyOf(y))
      PROVE  Vectors!Become
  <2>1. cipher'[x].m_texts = <<s[idx + 1]>> /\ KeyOf(x)'.m_n = KeyOf(y).m_n /\ Assigned(x)'
    BY <1>5, <1>6 DEF Text, getElement
  <2>2. /\ idx + 1 \in 1 .. Len(s) + 1 /\ idx + 1 \in 0 .. Len(s) /\ (idx + 1) - (idx + 1) + 1 = 1
        /\ \A i \in 1 .. 1 : (idx + 1) + i - 1 = idx + 1
    BY <1>4, <1>6 DEF HasElement
  <2>3. /\ DOMAIN cipher'[x].m_texts = 1 .. (idx + 1) - (idx + 1) + 1
        /\ \A i \in 1 .. (idx + 1) - (idx + 1) + 1 : cipher'[x].m_texts[i] = s[(idx + 1) + i - 1]
    <3>1. DOMAIN cipher'[x].m_texts = 1 .. 1 /\ cipher'[x].m_texts[1] = s[idx + 1]
      BY <2>1
    <3>2. ASSUME NEW i \in 1 .. 1 PROVE cipher'[x].m_texts[i] = s[(idx + 1) + i - 1]
      <4>1. i = 1 /\ (idx + 1) + i - 1 = idx + 1
        BY <2>2
      <4>. QED  BY <3>1, <4>1
    <3>. QED  BY <2>2, <3>1, <3>2
  <2>4. UNCHANGED <<pub, plain, archive>>
    BY <1>5, <1>6
  <2>. DEFINE k == idx + 1
  <2>5. /\ k \in 1 .. Len(s) + 1 /\ k \in 0 .. Len(s)
        /\ DOMAIN cipher'[x].m_texts = 1 .. k - k + 1
        /\ \A i \in 1 .. k - k + 1 : cipher'[x].m_texts[i] = s[k + i - 1]
    BY <2>2, <2>3
  <2>. HIDE DEF k
  <2>. QED  BY <1>2, <2>1, <2>4, <2>5, TakenShown DEF BecomesPart
<1>7. ASSUME NEW start \in 0 .. MaxSize, NEW size \in 0 .. MaxSize, HasChunk(cipher[y], start, size),
             Become(x, Text(getChunk(cipher[y], start, size)), KeyOf(y))
      PROVE  Vectors!Become
  <2>. DEFINE first == start + 1
              last == start + size
  <2>1. cipher'[x].m_texts = SubSeq(s, first, last) /\ KeyOf(x)'.m_n = KeyOf(y).m_n /\ Assigned(x)'
    BY <1>5, <1>7 DEF Text, getChunk
  <2>2. first \in 1 .. Len(s) + 1 /\ last \in 0 .. Len(s)
    BY <1>4, <1>7 DEF HasChunk
  <2>3. UNCHANGED <<pub, plain, archive>>
    BY <1>5, <1>7
  <2>. HIDE DEF first, last
  <2>4. /\ DOMAIN cipher'[x].m_texts = 1 .. last - first + 1
        /\ \A i \in 1 .. last - first + 1 : cipher'[x].m_texts[i] = s[first + i - 1]
    <3>. HIDE DEF s
    <3>. QED  BY <1>3, <2>1, <2>2, PartItems
  <2>. QED  BY <1>2, <2>1, <2>2, <2>3, <2>4, TakenShown DEF BecomesPart
<1>. QED  BY <1>6, <1>7 DEF GetCipherText

LEMMA AssignShown ==
    ASSUME NoneIsNoValue, Inv, SchemeInv', NEW x \in CipherName, NEW y \in CipherName, Assign(x, y)
    PROVE  Vectors!Become
<1>1. NoneIsNothing /\ TextsInv
  BY DEF NoneIsNoValue, Inv
<1>2. /\ OnlyOn(x) /\ Assigned(y) /\ UNCHANGED <<pub, plain, archive>>
      /\ cipher' = [cipher EXCEPT ![x] = cipher[y]]
  BY <1>1, AssignStep, OthersUntouched DEF Assign, TextStep
<1>3. cipher'[x] = cipher[y]
  <2>1. cipher = [z \in CipherName |-> cipher[z]]
    BY <1>1 DEF TextsInv, ContainersOK
  <2>. QED  BY <1>2, <2>1
<1>. DEFINE s == cipher[y].m_texts
<1>4. s \in Seq(EncryptionsUnder(KeyOf(y).m_n))
  BY <1>2, ShownFacts
<1>5. /\ Assigned(x)' /\ KeyOf(x)'.m_n = KeyOf(y).m_n /\ cipher'[x].m_texts = s
  BY <1>2, <1>3 DEF Assigned, KeyOf
<1>. DEFINE first == 1
            last == Len(s)
<1>6. /\ first \in 1 .. Len(s) + 1 /\ last \in 0 .. Len(s) /\ DOMAIN s = 1 .. last - first + 1
      /\ \A i \in 1 .. last - first + 1 : first + i - 1 = i
  <2>1. Len(s) \in Nat /\ DOMAIN s = 1 .. Len(s) /\ Len(s) - 1 + 1 = Len(s)
    BY <1>4, LenProperties
  <2>. HIDE DEF s
  <2>. QED  BY <2>1
<1>7. /\ DOMAIN cipher'[x].m_texts = 1 .. last - first + 1
      /\ \A i \in 1 .. last - first + 1 : cipher'[x].m_texts[i] = s[first + i - 1]
  BY <1>5, <1>6
<1>. HIDE DEF first, last
<1>. QED  BY <1>2, <1>5, <1>6, <1>7, TakenShown DEF BecomesPart

LEMMA ClearShown ==
    ASSUME NoneIsNoValue, Inv, SchemeInv', NEW x \in CipherName, ClearText(x)
    PROVE  Vectors!Become
<1>1. NoneIsNothing /\ TextsInv
  BY DEF NoneIsNoValue, Inv
<1>2. OnlyOn(x) /\ Assigned(x) /\ x \in Mine /\ pub' = pub /\ Edit(x, Cleared)
  BY <1>1, EditSteps DEF ClearText, TextStep, Mine
<1>3. /\ Assigned(x)' /\ UNCHANGED <<pub, plain, archive>>
      /\ cipher'[x].m_texts = <<>> /\ KeyOf(x)'.m_n = KeyOf(x).m_n
  BY <1>1, <1>2, EditAssigned DEF Cleared
<1>. DEFINE s == cipher[x].m_texts
<1>4. s \in Seq(EncryptionsUnder(KeyOf(x).m_n))
  BY <1>2, ShownFacts
<1>. DEFINE first == 1
            last == 0
<1>5. /\ first \in 1 .. Len(s) + 1 /\ last \in 0 .. Len(s) /\ 1 .. last - first + 1 = {}
  <2>1. Len(s) \in Nat
    BY <1>4, LenProperties
  <2>. QED  BY <2>1
<1>6. /\ DOMAIN cipher'[x].m_texts = 1 .. last - first + 1
      /\ \A i \in 1 .. last - first + 1 : cipher'[x].m_texts[i] = s[first + i - 1]
  <2>1. DOMAIN cipher'[x].m_texts = {}
    BY <1>3
  <2>. QED  BY <1>5, <2>1
<1>. HIDE DEF first, last
<1>. QED  BY <1>2, <1>3, <1>5, <1>6, TakenShown DEF BecomesPart

LEMMA InsertShown ==
    ASSUME NoneIsNoValue, Inv, SchemeInv', NEW x \in CipherName, NEW y \in CipherName,
           InsertText(x, y)
    PROVE  Vectors!Become
<1>1. NoneIsNothing /\ TextsInv
  BY DEF NoneIsNoValue, Inv
<1>2. /\ OnlyOn(x) /\ Assigned(x) /\ Assigned(y) /\ x \in Mine /\ pub' = pub
      /\ KeyOf(y).m_n = KeyOf(x).m_n
  BY <1>1, EditSteps DEF InsertText, TextStep, Mine, SameModulus
<1>. DEFINE n == KeyOf(x).m_n
            s == cipher[x].m_texts
            u == cipher[y].m_texts
            a == Messages(n, s)
            b == Messages(n, u)
<1>3. /\ n \in Moduli /\ n \in Nat /\ s \in Seq(EncryptionsUnder(n)) /\ u \in Seq(EncryptionsUnder(n))
      /\ WellFormed(cipher[x]) /\ WellFormed(cipher[y])
      /\ Shown(x) # None /\ Shown(x).modulus = n /\ Shown(x).items = a /\ ShownVectors[x] = Shown(x)
      /\ Shown(y) # None /\ Shown(y).modulus = n /\ Shown(y).items = b /\ ShownVectors[y] = Shown(y)
  BY <1>2, ShownFacts, ModuliFacts
<1>4. /\ Len(s) \in Nat /\ cipher[x].m_size = Len(s)
      /\ Len(u) \in Nat /\ cipher[y].m_size = Len(u) /\ DOMAIN u = 1 .. Len(u)
  BY <1>3, LenProperties DEF WellFormed
<1>5. PICK pos \in 0 .. MaxSize, idx \in 0 .. MaxSize :
         /\ MayInsert(cipher[x], pos) /\ HasElement(cipher[y], idx)
         /\ Edit(x, Inserted(cipher[x], pos, getElement(cipher[y], idx)))
  BY DEF InsertText
<1>. DEFINE e == u[idx + 1]
            m == b[idx + 1]
            text == InsertAt(s, pos + 1, e)
            items == InsertAt(a, pos + 1, m)
<1>6. /\ pos \in 0 .. Len(s) /\ pos \in Nat /\ idx + 1 \in DOMAIN u
  BY <1>4, <1>5 DEF MayInsert, HasElement
<1>7. /\ Assigned(x)' /\ UNCHANGED <<pub, plain, archive>>
      /\ cipher'[x].m_texts = text /\ KeyOf(x)'.m_n = n
  <2>. DEFINE t == Inserted(cipher[x], pos, getElement(cipher[y], idx))
  <2>1. Edit(x, t)
    BY <1>5
  <2>2. t.m_texts = text
    BY DEF Inserted, getElement
  <2>. HIDE DEF t, text
  <2>3. /\ Assigned(x)' /\ UNCHANGED <<plain, archive>>
        /\ cipher'[x].m_texts = t.m_texts /\ KeyOf(x)' = KeyOf(x)
    BY <1>1, <1>2, <2>1, EditAssigned
  <2>. QED  BY <1>2, <2>2, <2>3
<1>8. /\ DOMAIN a = DOMAIN s /\ Len(a) = Len(s) /\ DOMAIN s = 1 .. Len(s) /\ a \in Seq(0 .. n - 1)
      /\ \A i \in DOMAIN s : a[i] = MessageOf[n][s[i]]
  BY <1>3, MessagesFacts, LenProperties
<1>9. /\ DOMAIN b = DOMAIN u /\ Len(b) = Len(u)
      /\ m \in 0 .. n - 1 /\ m = MessageOf[n][e] /\ e \in EncryptionsUnder(n)
  <2>1. e \in EncryptionsUnder(n)
    BY <1>3, <1>4, <1>6
  <2>. QED  BY <1>3, <1>6, <2>1, MessagesFacts
<1>. HIDE DEF a, b, s, u, n, e, m
<1>10. /\ DOMAIN text = 1 .. Len(s) + 1
       /\ \A i \in 1 .. Len(s) + 1 :
             /\ i # pos + 1 => (IF i <= pos THEN i ELSE i - 1) \in 1 .. Len(s)
             /\ text[i] = IF i = pos + 1 THEN e ELSE s[IF i <= pos THEN i ELSE i - 1]
  <2>. DEFINE S == EncryptionsUnder(n)
  <2>1. s \in Seq(S) /\ e \in S /\ pos \in 0 .. Len(s)
    BY <1>3, <1>6, <1>9
  <2>. HIDE DEF S
  <2>. QED  BY <2>1, InsertedItems
<1>11. /\ DOMAIN items = 1 .. Len(s) + 1
       /\ \A i \in 1 .. Len(s) + 1 :
             items[i] = IF i = pos + 1 THEN m ELSE a[IF i <= pos THEN i ELSE i - 1]
  <2>. DEFINE S == 0 .. n - 1
  <2>1. a \in Seq(S) /\ m \in S /\ pos \in 0 .. Len(a)
    BY <1>6, <1>8, <1>9
  <2>. HIDE DEF S
  <2>2. /\ DOMAIN items = 1 .. Len(a) + 1
        /\ \A i \in 1 .. Len(a) + 1 :
              items[i] = IF i = pos + 1 THEN m ELSE a[IF i <= pos THEN i ELSE i - 1]
    BY <2>1, InsertedItems
  <2>. QED  BY <1>8, <2>2
<1>12. items = Vectors!InsertAt(a, pos + 1, m)
  BY DEF InsertAt, Vectors!InsertAt
<1>. HIDE DEF text, items
<1>13. ASSUME NEW i \in DOMAIN items PROVE items[i] = MessageOf[n][cipher'[x].m_texts[i]]
  <2>. DEFINE j == IF i <= pos THEN i ELSE i - 1
  <2>1. /\ i # pos + 1 => j \in 1 .. Len(s)
        /\ text[i] = IF i = pos + 1 THEN e ELSE s[j]
        /\ items[i] = IF i = pos + 1 THEN m ELSE a[j]
    BY <1>10, <1>11
  <2>. HIDE DEF j
  <2>. QED  BY <1>7, <1>8, <1>9, <2>1
<1>14. Shown(x)' = Vectors!Under(n, items)
  <2>1. DOMAIN items = DOMAIN cipher'[x].m_texts
    BY <1>7, <1>10, <1>11
  <2>2. Assigned(x)' /\ KeyOf(x)'.m_n = n
    BY <1>7
  <2>3. \A i \in DOMAIN items : items[i] = MessageOf[n][cipher'[x].m_texts[i]]
    BY <1>13
  <2>. QED  BY <2>1, <2>2, <2>3, MovedShown
<1>15. Vectors!Combined(Shown(x), Shown(y), Shown(x)')
  <2>1. /\ pos + 1 \in 1 .. Len(a) + 1 /\ idx + 1 \in DOMAIN b
        /\ Shown(x)' = Vectors!Under(n, Vectors!InsertAt(a, pos + 1, b[idx + 1]))
    BY <1>4, <1>6, <1>8, <1>9, <1>12, <1>14 DEF m
  <2>2. \E i \in DOMAIN b, k \in 1 .. Len(a) + 1 :
            Shown(x)' = Vectors!Under(n, Vectors!InsertAt(a, k, b[i]))
    BY <2>1
  <2>. QED  BY <1>3, <2>2 DEF Vectors!Combined
<1>. QED  BY <1>2, <1>3, <1>7, <1>15, BecomesShown DEF Vectors!May

LEMMA LoadShown ==
    ASSUME NoneIsNoValue, Inv, NEW x \in CipherName, LoadCipherText(x)
    PROVE  Vectors!Become
<1>1. NoneIsNothing /\ TextsInv
  BY DEF NoneIsNoValue, Inv
<1>2. /\ OnlyOn(x) /\ Assigned(x) /\ UNCHANGED <<pub, plain, archive>>
      /\ archive # None /\ archive.kind = "cipher"
  BY <1>1, LoadStep DEF LoadCipherText, TextStep, OnlyOn
<1>3. KeyInUse(archive.key) /\ archive.texts \in Seq(EncryptionsUnder(archive.key.m_n))
  BY <1>2 DEF Inv, SchemeInv, SavedUnder
<1>4. /\ Assigned(x)' /\ cipher'[x].m_texts = archive.texts
      /\ KeyOf(x)' = Loaded(KeyOf(x), archive.key)
  <2>1. /\ x \in Mine /\ Mine' = Mine
        /\ cipher'[x] = [m_texts |-> archive.texts, m_size |-> archive.size,
                         m_pk |-> Loaded(KeyOf(x), archive.key)]
    BY <1>1, LoadEffect
  <2>. QED  BY <2>1 DEF Mine, KeyOf
<1>5. Loaded(KeyOf(x), archive.key).m_n = archive.key.m_n
  <2>1. SoundKey(KeyOf(x))
    BY <1>2 DEF Inv, SchemeInv, CipherUnder, KeyInUse, Mine
  <2>. QED  BY <1>3, <2>1, LoadedSound DEF KeyInUse
<1>6. Shown(x)' = ShownSaved
  BY <1>2, <1>4, <1>5 DEF Shown, ShownSaved
<1>7. ShownSaved # None
  <2>1. archive.key.m_n \in Moduli
    BY <1>3, ModuliFacts
  <2>2. ShownSaved = [modulus |-> archive.key.m_n, items |-> Messages(archive.key.m_n, archive.texts)]
    BY <1>2, <1>3, <2>1, MessagesFacts DEF ShownSaved
  <2>. QED  BY <2>2 DEF NoneIsNoValue
<1>8. ShownVectors[x] # None
  BY <1>2, ShownFacts
<1>9. Vectors!May(ShownVectors, x, Shown(x)')
  BY <1>6, <1>7, <1>8 DEF Vectors!May, ShownSaved
<1>. QED  BY <1>2, <1>9, BecomesShown

\* What the other operations leave alone.
LEMMA KeptShown ==
    /\ UNCHANGED pub => UNCHANGED ShownModulus
    /\ UNCHANGED cipher => UNCHANGED ShownVectors
    /\ UNCHANGED plain => UNCHANGED ShownOpened
    /\ UNCHANGED archive => UNCHANGED ShownSaved
<1>1. ASSUME UNCHANGED cipher PROVE UNCHANGED ShownVectors
  <2>1. \A x \in CipherName : Shown(x)' = Shown(x)
    BY <1>1 DEF Shown, Assigned, KeyOf
  <2>. QED  BY <2>1 DEF ShownVectors
<1>. QED  BY <1>1 DEF ShownModulus, ShownOpened, ShownSaved

LEMMA SaveShown ==
    ASSUME NEW x \in CipherName, SaveCipherText(x)
    PROVE  Vectors!Save
<1>1. /\ Assigned(x) /\ UNCHANGED <<pub, cipher, plain>>
      /\ archive' = [kind |-> "cipher", texts |-> cipher[x].m_texts, size |-> cipher[x].m_size,
                     key |-> KeyOf(x)]
  BY DEF SaveCipherText, TextStep
<1>2. UNCHANGED <<ShownModulus, ShownVectors, ShownOpened>>
  BY <1>1, KeptShown
<1>3. ShownSaved' \in {None, Shown(x)}
  <2>1. archive'.kind = "cipher" /\ archive'.texts = cipher[x].m_texts /\ archive'.key = KeyOf(x)
    BY <1>1
  <2>. QED  BY <1>1, <2>1 DEF ShownSaved, Shown
<1>4. ShownSaved' \in {None} \cup {ShownVectors[y] : y \in CipherName}
  <2>1. Shown(x) = ShownVectors[x]
    BY DEF ShownVectors
  <2>. QED  BY <1>3, <2>1
<1>. QED  BY <1>2, <1>4 DEF Vectors!Save, ShownVectors, Shown, ShownModulus, ShownOpened, ShownSaved

LEMMA DecryptShown ==
    ASSUME NoneIsNoValue, Inv, NEW x \in CipherName, Decrypt(x)
    PROVE  Vectors!Open
<1>. DEFINE f == [i \in 1 .. cipher[x].m_size |-> decryption(pri, cipher[x].m_texts[i])]
            n == pri.m_n
            s == cipher[x].m_texts
            a == Messages(n, s)
<1>1. /\ plain' = Text(f) /\ Assigned(x) /\ pri.m_isInitialized /\ KeyOf(x).m_n = n
      /\ cipher[x].m_size > 0 /\ UNCHANGED <<pub, cipher, archive>>
  BY DEF Decrypt, TextStep
<1>2. /\ n \in Moduli /\ s \in Seq(EncryptionsUnder(n)) /\ WellFormed(cipher[x])
      /\ Shown(x) # None /\ Shown(x).items = a /\ ShownVectors[x] = Shown(x)
  BY <1>1, ShownFacts
<1>3. /\ cipher[x].m_size \in Nat /\ DOMAIN s = 1 .. cipher[x].m_size
      /\ DOMAIN a = DOMAIN s /\ Len(a) = cipher[x].m_size
      /\ \A i \in DOMAIN s : Encrypts(n, a[i], s[i]) /\ a[i] \in 0 .. n - 1
  BY <1>2, SizeFacts, MessagesFacts DEF WellFormed
<1>4. SoundPrivateKey(pri)
  BY DEF Inv, KeysInv
<1>5. \A i \in 1 .. cipher[x].m_size : f[i] = a[i]
  <2>1. ASSUME NEW i \in 1 .. cipher[x].m_size PROVE decryption(pri, s[i]) = a[i]
    <3>. HIDE DEF a, s
    <3>. QED  BY <1>1, <1>3, <1>4, DecryptionsReturnMessage
  <2>. QED  BY <2>1
<1>6. a = [i \in DOMAIN s |-> a[i]]
  BY DEF Messages
<1>. HIDE DEF a
<1>7. f = a
  BY <1>3, <1>5, <1>6
<1>8. ShownOpened' = Shown(x).items
  <2>1. plain' # None /\ plain'.m_texts = f
    BY <1>1 DEF Text, NoneIsNoValue, NoneIsNothing
  <2>. QED  BY <1>2, <1>7, <2>1 DEF ShownOpened
<1>9. Shown(x).items # <<>>
  BY <1>1, <1>2, <1>3
<1>10. UNCHANGED <<ShownModulus, ShownVectors, ShownSaved>>
  BY <1>1, KeptShown
<1>11. ShownVectors[x] # None /\ ShownVectors[x].items # <<>> /\ ShownOpened' = ShownVectors[x].items
  BY <1>2, <1>8, <1>9
<1>12. \E y \in CipherName :
          ShownVectors[y] # None /\ ShownVectors[y].items # <<>> /\ ShownOpened' = ShownVectors[y].items
  BY <1>11
<1>. QED  BY <1>10, <1>12
          DEF Vectors!Open, ShownVectors, Shown, ShownModulus, ShownOpened, ShownSaved

LEMMA PlainTextShown ==
    ASSUME NoneIsNoValue, Inv, ClearPlain \/ RotatePlainText
    PROVE  Vectors!Drop \/ UNCHANGED <<ShownModulus, ShownVectors, ShownOpened, ShownSaved>>
<1>1. UNCHANGED <<ShownModulus, ShownVectors, ShownSaved>> /\ plain # None
  BY KeptShown DEF ClearPlain, RotatePlainText, TextStep
<1>2. CASE ClearPlain
  <2>1. plain' # None /\ plain'.m_texts = <<>>
    BY <1>2 DEF ClearPlain, Cleared, NoneIsNoValue, NoneIsNothing
  <2>2. ShownOpened' = <<>>
    BY <2>1 DEF ShownOpened
  <2>. QED  BY <1>1, <2>2
            DEF Vectors!Drop, ShownVectors, Shown, ShownModulus, ShownOpened, ShownSaved
<1>3. CASE RotatePlainText
  <2>1. PICK shift \in Shifts : PlainRotates(plain, shift) /\ plain' = Rotated(plain, shift)
    BY <1>3 DEF RotatePlainText
  <2>2. /\ WellFormed(plain) /\ plain.m_size \in Nat /\ plain.m_size <= MaxSize
    BY <1>1, SizeFacts DEF Inv, TextsInv, ContainersOK
  <2>3. Small(plain.m_size) /\ Small(shift)
    BY <2>2, ShiftsAreSmall
  <2>4. plain.m_size = 0
    BY <2>1, <2>2, <2>3, PlainNeverRotates
  <2>5. shift = 0
    <3>1. AsSize(shift) <= 0
      BY <2>1, <2>4 DEF PlainRotates
    <3>. QED  BY <2>3, <3>1, Conversion DEF Small
  <2>6. plain'.m_texts = plain.m_texts /\ plain' # None
    BY <2>1, <2>4, <2>5 DEF Rotated, Text, NoneIsNoValue, NoneIsNothing
  <2>7. UNCHANGED ShownOpened
    BY <1>1, <2>6 DEF ShownOpened
  <2>. QED  BY <1>1, <2>7
<1>. QED  BY <1>2, <1>3

LEMMA KeyShown ==
    ASSUME Inv, KeyNext
    PROVE  \/ Vectors!Rekey \/ Vectors!Save
           \/ UNCHANGED <<ShownModulus, ShownVectors, ShownOpened, ShownSaved>>
<1>1. UNCHANGED <<cipher, plain>>
  BY DEF KeyNext, KeyStep, GenerateKeypair, CreatePublicKey, CreatePrivateKey, EnableDJN, SetDJN,
         SetRandom, EnableCRT, SaveKey, LoadPublicKey, LoadPrivateKey
<1>2. UNCHANGED <<ShownVectors, ShownOpened>>
  BY <1>1, KeptShown
<1>3. CASE GenerateKeypair \/ CreatePublicKey \/ EnableDJN \/ SetDJN \/ SetRandom \/ LoadPublicKey
  <2>1. UNCHANGED archive
    BY <1>3 DEF GenerateKeypair, CreatePublicKey, EnableDJN, SetDJN, SetRandom, LoadPublicKey
  <2>2. KeyInUse(pub')
    BY <1>3, PublicKeySteps DEF Inv
  <2>3. ShownModulus' \in Moduli
    BY <2>2 DEF ShownModulus, KeyInUse
  <2>4. UNCHANGED ShownSaved
    BY <2>1, KeptShown
  <2>. QED  BY <1>2, <2>3, <2>4
            DEF Vectors!Rekey, ShownVectors, Shown, ShownModulus, ShownOpened, ShownSaved
<1>4. CASE SaveKey
  <2>1. UNCHANGED pub /\ archive'.kind # "cipher"
    <3>1. ASSUME archive' = [kind |-> "public", key |-> pub] PROVE archive'.kind = "public"
      BY <3>1
    <3>2. ASSUME archive' = [kind |-> "private", p |-> pri.m_p, q |-> pri.m_q]
          PROVE  archive'.kind = "private"
      BY <3>2
    <3>. QED  BY <1>4, <3>1, <3>2 DEF SaveKey
  <2>2. UNCHANGED ShownModulus /\ ShownSaved' = None
    BY <2>1, KeptShown DEF ShownSaved
  <2>. QED  BY <1>2, <2>2
            DEF Vectors!Save, ShownVectors, Shown, ShownModulus, ShownOpened, ShownSaved
<1>5. CASE CreatePrivateKey \/ EnableCRT \/ LoadPrivateKey
  <2>1. UNCHANGED <<pub, archive>>
    BY <1>5 DEF CreatePrivateKey, EnableCRT, LoadPrivateKey
  <2>. QED  BY <1>2, <2>1, KeptShown
<1>. QED  BY <1>3, <1>4, <1>5 DEF KeyNext

LEMMA ServiceBegins ==
    ASSUME NoneIsNoValue, Init
    PROVE  Vectors!ServiceInit
<1>1. ~pub.m_isInitialized /\ plain = None /\ cipher = [x \in CipherName |-> None]
  BY DEF Init, NoPublicKey
<1>2. ShownModulus = None /\ ShownOpened = None /\ ShownVectors = [x \in CipherName |-> None]
  BY <1>1 DEF ShownModulus, ShownOpened, ShownVectors, Shown, Assigned
<1>3. ShownSaved \in {None} \cup [modulus : Moduli, items : {<<1>>}]
  <2>1. CASE archive = None
    BY <2>1 DEF ShownSaved
  <2>2. ASSUME NEW n \in Earlier,
               archive = [kind |-> "cipher", texts |-> <<n + 1>>, size |-> 1,
                          key |-> Created(NoPublicKey, n, KeyBits)]
        PROVE  ShownSaved \in {None} \cup [modulus : Moduli, items : {<<1>>}]
    <3>1. n \in Moduli /\ n \in Nat \ {0, 1} /\ GoodModulus(n)
      BY ModuliFacts DEF Moduli
    <3>2. Encrypts(n, 1 % n, n + 1) /\ 1 % n = 1
      <4>1. Encrypts(n, 1 % n, Modulo(n * n, n * 1 + 1))
        <5>1. 1 \in Nat
          OBVIOUS
        <5>. QED  BY <3>1, <5>1, FreshTextsEncrypt
      <4>2. n * 1 + 1 = n + 1 /\ n + 1 \in Residues(n * n) /\ n + 1 \in Int /\ n * n \in Nat \ {0}
        <5>1. n * n >= 2 * n
          BY <3>1
        <5>. QED  BY <3>1, <5>1 DEF Residues
      <4>3. Modulo(n * n, n + 1) = n + 1
        BY <4>2, ResidueFacts DEF Modulo
      <4>4. 1 % n = 1
        <5>1. n \in Nat \ {0} /\ 1 \in 0 .. n - 1
          BY <3>1
        <5>. QED  BY <5>1, RemainderOfSmall
      <4>. QED  BY <4>1, <4>2, <4>3, <4>4
    <3>3. MessageOf[n][n + 1] = 1
      <4>1. 1 \in 0 .. n - 1
        BY <3>1
      <4>. QED  BY <3>1, <3>2, <4>1, MessageIs
    <3>4. Decoded(n, <<n + 1>>) = [modulus |-> n, items |-> <<1>>]
      <4>1. DOMAIN <<n + 1>> = 1 .. 1 /\ <<n + 1>>[1] = n + 1
        OBVIOUS
      <4>2. [i \in 1 .. 1 |-> MessageOf[n][<<n + 1>>[i]]] = [i \in 1 .. 1 |-> 1]
        BY <3>3, <4>1
      <4>3. [i \in 1 .. 1 |-> 1] = <<1>>
        OBVIOUS
      <4>. QED  BY <4>1, <4>2, <4>3 DEF Decoded
    <3>5. archive.texts = <<n + 1>> /\ archive.key.m_n = n
      BY <2>2 DEF Created, NoPublicKey
    <3>. QED  BY <3>1, <3>4, <3>5 DEF ShownSaved
  <2>. QED  BY <2>1, <2>2 DEF Init
<1>. QED  BY <1>2, <1>3
          DEF Vectors!ServiceInit, ShownVectors, Shown, ShownModulus, ShownOpened, ShownSaved

LEMMA ServiceSteps ==
    ASSUME NoneIsNoValue, Inv, SchemeInv', [Next]_vars
    PROVE  \/ Vectors!ServiceNext
           \/ UNCHANGED <<ShownModulus, ShownVectors, ShownOpened, ShownSaved>>
<1>1. CASE KeyNext
  BY <1>1, KeyShown DEF Vectors!ServiceNext
<1>2. CASE ClearPlain \/ RotatePlainText
  BY <1>2, PlainTextShown DEF Vectors!ServiceNext
<1>3. ASSUME NEW x \in CipherName, TextNext(x) PROVE Vectors!ServiceNext
  <2>1. CASE Encrypt(x)
    BY <2>1, EncryptShown DEF Vectors!ServiceNext
  <2>2. CASE AddPlainText(x) \/ MultiplyPlainText(x)
    BY <2>2, PlainShown DEF Vectors!ServiceNext
  <2>3. CASE RotateCipherText(x)
    BY <2>3, RotateShown DEF Vectors!ServiceNext
  <2>4. CASE RemoveText(x)
    BY <2>4, RemoveShown DEF Vectors!ServiceNext
  <2>5. CASE ClearText(x)
    BY <2>5, ClearShown DEF Vectors!ServiceNext
  <2>6. CASE SaveCipherText(x)
    BY <2>6, SaveShown DEF Vectors!ServiceNext
  <2>7. CASE LoadCipherText(x)
    BY <2>7, LoadShown DEF Vectors!ServiceNext
  <2>8. CASE Decrypt(x)
    BY <2>8, DecryptShown DEF Vectors!ServiceNext
  <2>9. ASSUME NEW y \in CipherName,
               AddCipherText(x, y) \/ GetCipherText(x, y) \/ Assign(x, y) \/ InsertText(x, y)
        PROVE  Vectors!Become
    BY <2>9, AddTextShown, GetShown, AssignShown, InsertShown
  <2>. QED  BY <1>3, <2>1, <2>2, <2>3, <2>4, <2>5, <2>6, <2>7, <2>8, <2>9
            DEF TextNext, Vectors!ServiceNext
<1>4. CASE UNCHANGED vars
  BY <1>4, KeptShown DEF vars
<1>. QED  BY <1>1, <1>2, <1>3, <1>4 DEF Next

\* The library (pub_key.cpp, pri_key.cpp, ciphertext.cpp, base_text.cpp) is a service of
\* vectors.  Through the definition of the scheme, every operation is the operation on
\* vectors of residues that the user means, whatever keys, ciphertexts and archives he has
\* and however many share a key object: encrypting and adding, multiplying and editing,
\* rotating and taking apart, saving and loading, decrypting with or without CRT.
THEOREM VectorsImplemented ==
    ASSUME NoneIsNoValue
    PROVE  Spec => ImplementsVectors
<1>1. Init => Vectors!ServiceInit
  BY ServiceBegins
<1>2. Inv /\ Inv' /\ [Next]_vars => [Vectors!ServiceNext]_(Vectors!serviceVars)
  <2>1. UNCHANGED <<ShownModulus, ShownVectors, ShownOpened, ShownSaved>>
          => UNCHANGED Vectors!serviceVars
    BY DEF Vectors!serviceVars, ShownVectors, Shown, ShownModulus, ShownOpened, ShownSaved
  <2>. QED  BY <2>1, ServiceSteps DEF Inv
<1>3. NoneIsNothing
  BY DEF NoneIsNoValue
<1>. QED  BY <1>1, <1>2, <1>3, InvAlways, PTL DEF Spec, ImplementsVectors, Vectors!ServiceSpec
=============================================================================
