---------------------------- MODULE MCCreditLine ----------------------------
EXTENDS CreditLine, TLC

\* A line without a minimum, and a wider one with a minimum.
MCTerms == {[limit |-> 1, minimum |-> 0], [limit |-> 2, minimum |-> 1]}
MCSymmetry == Permutations(Gens)
=============================================================================
