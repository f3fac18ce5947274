------------------------------- MODULE Phases -------------------------------
(***************************************************************************)
(* The phases of a collection and the bit operations on them.              *)
(***************************************************************************)
EXTENDS Integers

(***************************************************************************)
(* enum sml_sync_phase.  Even phases are signals not yet accepted.         *)
(***************************************************************************)
PREASYNC == 0
ASYNC    == 1
PRESYNC1 == 2
SYNC1    == 3
PRESYNC2 == 4
SYNC2    == 5
PREMARK  == 6
MARK     == 7

Phase == 0 .. 7
IsPre(p) == p % 2 = 0

\* Mutant of Accept: state + 1, which moves on an accepted phase too
AcceptByAdding(p) == p + 1

\* state | 1: accept a pending signal; an accepted phase is left as it is
Accept(p) == 2 * (p \div 2) + 1

\* a ^ b on the three phase bits
BitXor(a, b) == (a + b) % 2
Xor(a, b) == 4 * BitXor(a \div 4, b \div 4)
             + 2 * BitXor((a \div 2) % 2, (b \div 2) % 2)
             + BitXor(a % 2, b % 2)

\* fetch_xor(&worker->state, old_phase ^ new_phase)
Signal(p, old, new) == Xor(p, Xor(old, new))

=============================================================================
