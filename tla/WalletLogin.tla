---------------------------- MODULE WalletLogin ----------------------------
(***************************************************************************)
(* What the session kit relies on of the Anchor plugin's login: the plugin *)
(* data change twice, when the keypair of the login is stored and, in the  *)
(* step that makes the login succeed, when the link fields of the wallet's *)
(* callback are.  A login that fails changes nothing more.  These are the  *)
(* changes LoginBegin, LoginApproved and LoginFails of SessionKit make.    *)
(***************************************************************************)
EXTENDS AnchorChannel

VARIABLES data,    \* the plugin's data
          status   \* status[o]: what became of login o

walletLoginVars == <<data, status>>

Init ==
  /\ data = Empty
  /\ status = [o \in Ops |-> "idle"]

Becomes(o, s) == status' = [status EXCEPT ![o] = s]

Ask(o) ==
  /\ status[o] = "idle"
  /\ data' = WithKeypair(data, o)
  /\ Becomes(o, "asked")

Approve(o, link) ==
  /\ status[o] = "asked"
  /\ data' = WithLink(data, o, link)
  /\ Becomes(o, "ok")

Fail(o) ==
  /\ status[o] \in {"idle", "asked"}
  /\ Becomes(o, "err")
  /\ UNCHANGED data

Next == \E o \in Ops :
  Ask(o) \/ Fail(o) \/ \E link \in SUBSET LinkField : Approve(o, link)

Spec == Init /\ [][Next]_walletLoginVars

=============================================================================
