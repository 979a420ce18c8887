---------------------------- MODULE VectorService ----------------------------
(***************************************************************************)
(* What the cryptosystem promises its user, without any cryptography: a    *)
(* ciphertext is a vector of residues that can be added to, scaled and     *)
(* edited, whose items come back when it is opened, and no operation on    *)
(* one vector changes another.                                             *)
(***************************************************************************)
EXTENDS Integers, SequencesExt

CONSTANTS
    Names,      \* the vectors of the user
    Inputs,     \* the plain vectors the user has
    Moduli,     \* the moduli of the keys
    None

VARIABLES
    modulus,    \* of the key that encrypts, or None
    vectors,    \* [Names -> None or a vector under a modulus]
    opened,     \* the plain vector that was opened last, or None
    saved       \* the vector in the user's archive, or None
serviceVars == <<modulus, vectors, opened, saved>>

Under(n, items) == [modulus |-> n, items |-> [i \in DOMAIN items |-> items[i] % n]]
Operands == Inputs \cup ({opened} \ {None})

\* Element by element, with a vector of the same length or with a single item.
Fits(a, b) == Len(b) \in {1, Len(a)}
At(b, i) == IF Len(b) = 1 THEN b[1] ELSE b[i]
Plus(a, b) == [i \in DOMAIN a |-> a[i] + At(b, i)]
Times(a, b) == [i \in DOMAIN a |-> a[i] * At(b, i)]
RotatedRight(a, k) == [i \in DOMAIN a |-> a[((i - 1 - k) % Len(a)) + 1]]

-----------------------------------------------------------------------------
(* What a vector may become: from outside, from itself, from another one.  *)

FromOutside(to) == modulus # None /\ \E v \in Operands : v # <<>> /\ to = Under(modulus, v)

Changed(from, to) ==
    LET n == from.modulus
        a == from.items
    IN  \/ \E v \in Operands :
              /\ Fits(a, v)
              /\ \/ to = Under(n, Times(a, v))
                 \/ v # <<>> /\ to = Under(n, Plus(a, v))
        \/ \E k \in 0 .. Len(a) : to = Under(n, RotatedRight(a, k))
        \/ \E pos, length \in 0 .. Len(a) :
              /\ pos + length < Len(a)
              /\ to = Under(n, SubSeq(a, 1, pos) \o SubSeq(a, pos + length + 1, Len(a)))

Combined(from, other, to) ==
    LET n == from.modulus
        a == from.items
        b == other.items
    IN  /\ n = other.modulus
        /\ \/ Fits(a, b) /\ to = Under(n, Plus(a, b))
           \/ \E i \in DOMAIN b, pos \in 1 .. Len(a) + 1 : to = Under(n, InsertAt(a, pos, b[i]))

\* A part of another vector, or of itself: the whole of it and nothing included.
Taken(other, to) ==
    \E first \in 1 .. Len(other.items) + 1, last \in 0 .. Len(other.items) :
        to = Under(other.modulus, SubSeq(other.items, first, last))

May(now, x, to) ==
    \/ FromOutside(to)
    \/ now[x] # None /\ saved # None /\ to = saved
    \/ now[x] # None /\ Changed(now[x], to)
    \/ \E y \in Names : now[y] # None /\
          (Taken(now[y], to) \/ (now[x] # None /\ Combined(now[x], now[y], to)))

-----------------------------------------------------------------------------
ServiceInit ==
    /\ modulus = None /\ opened = None
    /\ vectors = [x \in Names |-> None]
    /\ saved \in {None} \cup [modulus : Moduli, items : {<<1>>}]

Rekey == modulus' \in Moduli /\ UNCHANGED <<vectors, opened>> /\ saved' \in {saved, None}

Become ==
    /\ UNCHANGED <<modulus, opened, saved>>
    /\ \E x \in Names :
          /\ \A y \in Names \ {x} : vectors'[y] = vectors[y]
          /\ May(vectors, x, vectors'[x])

Open ==
    /\ \E x \in Names : vectors[x] # None /\ vectors[x].items # <<>> /\ opened' = vectors[x].items
    /\ UNCHANGED <<modulus, vectors, saved>>

\* The user drops what was opened, saves a vector, or saves something else.
Drop == opened' = <<>> /\ UNCHANGED <<modulus, vectors, saved>>
Save ==
    /\ saved' \in {None} \cup {vectors[x] : x \in Names}
    /\ UNCHANGED <<modulus, vectors, opened>>

ServiceNext == Rekey \/ Become \/ Open \/ Drop \/ Save
ServiceSpec == ServiceInit /\ [][ServiceNext]_serviceVars

=============================================================================
