-------------------------- MODULE MCProviderCalls --------------------------
(* Small instances of ProviderCalls: workers and vendors as model values. *)
EXTENDS ProviderCalls, TLC

CONSTANTS w1, w2, va, vb

=============================================================================
