----------------------------- MODULE MCExchange -----------------------------
(* Instances of ExchangeEngine for TLC. *)
EXTENDS ExchangeSafety, TLC

\* The operations behind the node's HTTP endpoints.
HttpOps == AllOps \ {"confirm_local"}

\* Without the administrator's sweep.
RequestOps == HttpOps \ {"sweep"}

\* With the in-process confirm of the demos and of the autonomy runner.
EveryOp == AllOps

NoTimeouts == {}
VerifyAndConfirm == {"verify", "confirm"}

Symmetric == Permutations(Thread) \union Permutations(Handle) \union Permutations(Vdc)
=============================================================================
