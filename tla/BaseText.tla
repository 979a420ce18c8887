------------------------------- MODULE BaseText -------------------------------
(***************************************************************************)
(* The container under PlainText and CipherText (ipcl/base_text.cpp): a    *)
(* vector m_texts beside a size m_size that the code keeps by hand, with   *)
(* the bounds its operations check, and the rotation of the two classes.   *)
(* Positions count from 0.                                                 *)
(***************************************************************************)
EXTENDS Integers, SequencesExt

\* std::size_t, narrowed to 16 bits: what a comparison with m_size makes of an
\* int.
SizeT == 2^16
AsSize(i) == i % SizeT

Text(bns) == [m_texts |-> bns, m_size |-> Len(bns)]

MayInsert(t, pos) == pos <= t.m_size
Inserted(t, pos, bn) ==
    [m_texts |-> InsertAt(t.m_texts, pos + 1, bn), m_size |-> t.m_size + 1]

Cleared == [m_texts |-> <<>>, m_size |-> 0]

\* erase from pos to pos + length, which may not be the end of the vector.
MayRemove(t, pos, length) == pos + length < t.m_size
MutKeepsSize(t, pos, length) ==
    [t EXCEPT !.m_texts = SubSeq(@, 1, pos) \o SubSeq(@, pos + length + 1, Len(@))]
Removed(t, pos, length) ==
    [m_texts |-> SubSeq(t.m_texts, 1, pos)
                 \o SubSeq(t.m_texts, pos + length + 1, Len(t.m_texts)),
     m_size  |-> t.m_size - length]

HasElement(t, idx) == idx < t.m_size
getElement(t, idx) == t.m_texts[idx + 1]

HasChunk(t, start, size) == start + size <= t.m_size
getChunk(t, start, size) == SubSeq(t.m_texts, start + 1, start + size)

\* CipherText::rotate compares the shift with -m_size as an int, and with
\* m_size as a size_t.
CipherRotates(t, shift) ==
    /\ t.m_size # 1
    /\ shift >= -t.m_size
    /\ AsSize(shift) <= t.m_size

\* PlainText::rotate compares both as size_t.
PlainRotates(t, shift) ==
    /\ t.m_size # 1
    /\ AsSize(shift) >= AsSize(-t.m_size)
    /\ AsSize(shift) <= t.m_size

\* std::rotate makes the element at position `first` the first one.
Rotated(t, shift) ==
    LET first == IF shift > 0 THEN t.m_size - shift ELSE -shift
    IN  IF shift \in {0, t.m_size, -t.m_size} THEN Text(t.m_texts)
        ELSE Text(SubSeq(t.m_texts, first + 1, t.m_size)
                  \o SubSeq(t.m_texts, 1, first))

=============================================================================
