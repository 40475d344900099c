--------------------------- MODULE MCAnchorLogin ---------------------------
(* Two logins on one plugin; wallets that approve with either key, on the *)
(* wrong chain, with some link fields only, or that reject.               *)
EXTENDS AnchorLogin

CONSTANTS o1, o2, c1, c2, a1, k1, k2

Approval(c, k, link) ==
  [kind |-> "approved", account |-> a1, chain |-> c, key |-> k, link |-> link]
Refusal(kind) ==
  [kind |-> kind, account |-> a1, chain |-> c1, key |-> k1, link |-> LinkField]

MCCallbacks ==
  {Approval(c1, k1, LinkField), Approval(c1, k2, {"url"}), Approval(c2, k1, LinkField),
   Refusal("rejected")}
=============================================================================
