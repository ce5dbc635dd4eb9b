-------------------------- MODULE MCSeqlockBuffer --------------------------
(* Small instances of SeqlockBuffer for TLC. *)
EXTENDS SeqlockBuffer

CONSTANTS di, ai, r1, r2

\* A digital and an analog word: the least that can be torn.
MCWords == {di, ai}
MCReaders == {r1, r2}

\* The loads of the other reader may be delayed.
MCInOrder == {r1}
=============================================================================
