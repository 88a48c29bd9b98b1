----------------------------- MODULE MCPayments -----------------------------
EXTENDS Payments

\* A pack is disputed whole, a plan in part or whole.
MCDisputed == [PACK |-> {2}, PLAN |-> {1, 2}]
MCUndisputed == [PACK |-> {}]
=============================================================================
