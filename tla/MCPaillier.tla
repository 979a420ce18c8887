------------------------------ MODULE MCPaillier ------------------------------
(***************************************************************************)
(* Paillier with a few small primes and plaintexts, for TLC.               *)
(***************************************************************************)
EXTENDS Paillier

\* The ciphertexts of the user are interchangeable.
Symmetry == Permutations(CipherName)

Pairs == {<<7, 11>>}
\* One element, and two of which one is larger than the modulus.
Inputs == {<<6>>, <<80, 3>>}
Rotations == {-1, 0, 1, 2}

=============================================================================
