---------------------------- MODULE AnchorLogin ----------------------------
(***************************************************************************)
(* run_login of the Anchor plugin (login_flow.rs): logins that share one   *)
(* plugin, each waiting for the first of its token, its timer, its         *)
(* listener on the relay and its prompt, then checking the callback it got *)
(* against the chain.  The wallet, the relay, the node and the user are    *)
(* external: modelled from how the code uses them.                         *)
(*                                                                         *)
(* The proof in a callback is abstracted to the key its signature recovers *)
(* to; a proof over other bytes recovers to a key no account has.  Token   *)
(* and timer are latched until the next poll, since they go before an      *)
(* answer; stream errors and the prompt are taken as they happen.          *)
(***************************************************************************)
EXTENDS AnchorChannel

CONSTANTS Chains,     \* chain ids
          Accounts,   \* permission levels
          Keys,       \* public keys
          KeySets,    \* the sets of keys an account may have
          Callbacks   \* the callbacks that wallets post

Callback == [kind : {"approved", "rejected", "unusable"}, account : Accounts,
             chain : Chains, key : Keys, link : SUBSET LinkField]

ASSUME CallbacksAssumption == Callbacks \subseteq Callback /\ None \notin Callback

ASSUME KeySetsAssumption == KeySets \subseteq SUBSET Keys

VARIABLES data,       \* plugin.data
          pc,         \* pc[o]: where login o is
          chain,      \* chain[o]: the chain of its context
          got,        \* got[o]: the callback it took from its stream
          seen,       \* seen[o]: the keys get_account answered
          result,     \* result[o]: how it ended
          cancelled,  \* logins whose token was cancelled while they waited
          elapsed,    \* waiting logins whose 120 seconds are over
          connected,  \* waiting logins whose WebSocket is open
          mail,       \* mail[o]: the next message the relay has for o
          keys,       \* keys[a]: the keys of account a on the chain
          valid       \* valid[o]: account and key pairs there were while o ran (history)

vars == <<data, pc, chain, got, seen, result, cancelled, elapsed,
          connected, mail, keys, valid>>
waitVars == <<cancelled, elapsed, connected, mail>>

AllKeys(k) == {p \in Accounts \X Keys : p[2] \in k[p[1]]}

Init ==
  /\ data = Empty
  /\ pc = [o \in Ops |-> "idle"]
  /\ chain = [o \in Ops |-> None]
  /\ got = [o \in Ops |-> None]
  /\ seen = [o \in Ops |-> {}]
  /\ result = [o \in Ops |-> "none"]
  /\ cancelled = {} /\ elapsed = {} /\ connected = {}
  /\ mail = [o \in Ops |-> None]
  /\ keys \in [Accounts -> KeySets]
  /\ valid = [o \in Ops |-> {}]

End(o, r) ==
  /\ pc' = [pc EXCEPT ![o] = "done"]
  /\ result' = [result EXCEPT ![o] = r]
  /\ seen' = [seen EXCEPT ![o] = {}]

\* The select is over: the futures it did not take are dropped, and nobody
\* reads the channel any more.
StopWaiting(o) ==
  /\ cancelled' = cancelled \ {o}
  /\ elapsed' = elapsed \ {o}
  /\ connected' = connected \ {o}
  /\ mail' = [mail EXCEPT ![o] = None]

-----------------------------------------------------------------------------
(* The login *)

\* Up to the select: the identity request for chain c, the keypair in the
\* plugin's data, the wallet opened, the prompt and the listener started.
Begin(o, c) ==
  /\ pc[o] = "idle"
  /\ data' = WithKeypair(data, o)
  /\ chain' = [chain EXCEPT ![o] = c]
  /\ pc' = [pc EXCEPT ![o] = "wait"]
  /\ valid' = [valid EXCEPT ![o] = AllKeys(keys)]
  /\ UNCHANGED <<got, seen, result, waitVars, keys>>

\* No chain in the context, no keypair, or no identity request; an encoding
\* that fails after the keypair was stored is Begin and then StreamFails.
BeginFails(o) ==
  /\ pc[o] = "idle"
  /\ End(o, "err")
  /\ UNCHANGED <<data, chain, got, waitVars, keys, valid>>

\* The login returns an error from the select.
Leave(o, r) ==
  /\ End(o, r)
  /\ StopWaiting(o)
  /\ UNCHANGED <<data, chain, got, keys, valid>>

\* Mutant: the timer is not armed once the WebSocket is open.
Expired_NotConnected(o) ==
  /\ pc[o] = "wait" /\ o \in elapsed \ (cancelled \cup connected)
  /\ Leave(o, "expired")

\* The select is biased: each branch is taken only if none before it is
\* ready, the token first.
Cancelled(o) == pc[o] = "wait" /\ o \in cancelled /\ Leave(o, "cancelled")

Expired(o) ==
  pc[o] = "wait" /\ o \in elapsed \ cancelled /\ Leave(o, "expired")

\* Mutant: the stream is polled before the token and the timer.
Listening_Unbiased(o) == pc[o] = "wait"

Listening(o) == pc[o] = "wait" /\ o \notin cancelled \cup elapsed

Answered(o) == o \in connected /\ mail[o] # None

\* The WebSocket cannot be opened, fails or is closed.
StreamFails(o) == Listening(o) /\ ~Answered(o) /\ Leave(o, "err")

\* The prompt returns, in any way: closed, expired, an error.
PromptReturns(o) == Listening(o) /\ ~Answered(o) /\ Leave(o, "closed")

\* What parse_login_callback checks before it asks the node.
Acceptable(o, m) == m.kind = "approved" /\ m.chain = chain[o]

\* Mutant: the link fields are stored before the proof is checked.
TakeCallback_StoresLink(o) ==
  /\ Listening(o) /\ Answered(o)
  /\ got' = [got EXCEPT ![o] = mail[o]]
  /\ StopWaiting(o)
  /\ data' = WithLink(data, o, mail[o].link)
  /\ IF Acceptable(o, mail[o])
     THEN pc' = [pc EXCEPT ![o] = "lookup"] /\ UNCHANGED <<result, seen>>
     ELSE End(o, IF mail[o].kind = "rejected" THEN "rejected" ELSE "err")
  /\ UNCHANGED <<chain, keys, valid>>

\* Mutant: the message is taken from the stream and not kept.
TakeCallback_Forgets(o) ==
  /\ Listening(o) /\ Answered(o)
  /\ StopWaiting(o)
  /\ pc' = [pc EXCEPT ![o] = "lookup"]
  /\ UNCHANGED <<data, chain, got, seen, result, keys, valid>>

\* The first message of the stream: go on to the account lookup, or fail.
TakeCallback(o) ==
  /\ Listening(o) /\ Answered(o)
  /\ got' = [got EXCEPT ![o] = mail[o]]
  /\ StopWaiting(o)
  /\ IF Acceptable(o, mail[o])
     THEN pc' = [pc EXCEPT ![o] = "lookup"] /\ UNCHANGED <<result, seen>>
     ELSE End(o, IF mail[o].kind = "rejected" THEN "rejected" ELSE "err")
  /\ UNCHANGED <<data, chain, keys, valid>>

\* get_account was answered with the keys the account had by then.
AccountRead(o) ==
  /\ pc[o] = "lookup"
  /\ seen' = [seen EXCEPT ![o] = keys[got[o].account]]
  /\ pc' = [pc EXCEPT ![o] = "verify"]
  /\ UNCHANGED <<data, chain, got, result, waitVars, keys, valid>>

\* Mutant: the recovered key is not looked for among the account's keys.
Verified_AnyKey(o) == pc[o] = "verify"

Verified(o) == pc[o] = "verify" /\ got[o].key \in seen[o]

\* verify_recovered_key_on_chain: the key is in required_auth.  The link
\* fields are stored and run_login returns without another await.
Succeed(o) ==
  /\ Verified(o)
  /\ data' = WithLink(data, o, got[o].link)
  /\ End(o, "ok")
  /\ UNCHANGED <<chain, got, waitVars, keys, valid>>

Unverified(o) ==
  /\ pc[o] = "verify" /\ ~Verified(o)
  /\ End(o, "unverified")
  /\ UNCHANGED <<data, chain, got, waitVars, keys, valid>>

\* get_account fails: no such account or permission, or no answer.
LookupFails(o) ==
  /\ pc[o] = "lookup"
  /\ End(o, "err")
  /\ UNCHANGED <<data, chain, got, waitVars, keys, valid>>

\* The kit drops the login, whose token its own select watches too, or the
\* application drops the kit's.
Dropped(o) == pc[o] \in {"wait", "lookup", "verify"} /\ Leave(o, "dropped")

-----------------------------------------------------------------------------
(* External: the application, the user, the timer, the relay, wallet, node *)

External(o) == pc[o] = "wait" /\ UNCHANGED <<data, pc, chain, got, seen, result, keys, valid>>

Cancel(o) ==
  /\ External(o) /\ cancelled' = cancelled \cup {o}
  /\ UNCHANGED <<elapsed, connected, mail>>

TimerFires(o) ==
  /\ External(o) /\ elapsed' = elapsed \cup {o}
  /\ UNCHANGED <<cancelled, connected, mail>>

\* The relay accepts the connection.
Connects(o) ==
  /\ External(o) /\ connected' = connected \cup {o}
  /\ UNCHANGED <<cancelled, elapsed, mail>>

\* A wallet posts an answer; the relay keeps the first one for the listener.
Posts(o, m) ==
  /\ External(o) /\ mail[o] = None
  /\ mail' = [mail EXCEPT ![o] = m]
  /\ UNCHANGED <<cancelled, elapsed, connected>>

\* The relay loses it.
Loses(o) ==
  /\ External(o) /\ mail[o] # None
  /\ mail' = [mail EXCEPT ![o] = None]
  /\ UNCHANGED <<cancelled, elapsed, connected>>

\* The owner of an account changes its keys.
KeysChange(a, K) ==
  /\ keys' = [keys EXCEPT ![a] = K]
  /\ valid' = [o \in Ops |-> IF pc[o] \in {"idle", "done"} THEN valid[o]
                             ELSE valid[o] \cup AllKeys(keys')]
  /\ UNCHANGED <<data, pc, chain, got, seen, result, waitVars>>

-----------------------------------------------------------------------------

Login(o) ==
  \/ \E c \in Chains : Begin(o, c)
  \/ BeginFails(o) \/ Cancelled(o) \/ Expired(o) \/ StreamFails(o)
  \/ PromptReturns(o) \/ TakeCallback(o) \/ AccountRead(o) \/ Succeed(o)
  \/ Unverified(o) \/ LookupFails(o) \/ Dropped(o)

Environment(o) ==
  \/ Cancel(o) \/ TimerFires(o) \/ Connects(o)
  \/ \E m \in Callbacks : Posts(o, m)
  \/ Loses(o)

Next ==
  \/ \E o \in Ops : Login(o) \/ Environment(o)
  \/ \E a \in Accounts, K \in KeySets : KeysChange(a, K)

Spec == Init /\ [][Next]_vars

\* The executor polls a login that can go on, the timer fires, and the node
\* answers or the request to it fails.  Nothing is owed by wallet and relay.
Progress(o) ==
  \/ Cancelled(o) \/ Expired(o) \/ TakeCallback(o)
  \/ AccountRead(o) \/ LookupFails(o) \/ Succeed(o) \/ Unverified(o)

FairSpec ==
  Spec /\ \A o \in Ops : WF_vars(Progress(o)) /\ WF_vars(TimerFires(o))

-----------------------------------------------------------------------------
(* What the login promises *)

Results == {"none", "ok", "rejected", "cancelled", "expired", "closed", "err",
            "unverified", "dropped"}

\* Every variable keeps its shape, and a login has taken a callback by the
\* time it reads from it.
TypeOK ==
  /\ data \in Channel
  /\ pc \in [Ops -> {"idle", "wait", "lookup", "verify", "done"}]
  /\ chain \in [Ops -> Chains \cup {None}]
  /\ got \in [Ops -> Callbacks \cup {None}]
  /\ seen \in [Ops -> SUBSET Keys]
  /\ result \in [Ops -> Results]
  /\ cancelled \subseteq Ops /\ elapsed \subseteq Ops /\ connected \subseteq Ops
  /\ mail \in [Ops -> Callbacks \cup {None}]
  /\ keys \in [Accounts -> KeySets]
  /\ valid \in [Ops -> SUBSET (Accounts \X Keys)]
  /\ \A o \in Ops : pc[o] \in {"lookup", "verify"} => got[o] # None

\* The wallet key and the address in the plugin are those of a callback that
\* carried them and of a login that succeeded: a callback that came too late,
\* was refused or could not be checked leaves no trace (login_flow.rs 109-119,
\* 210-251).
LinkFromSuccess ==
  /\ data.signer # None =>
       result[data.signer] = "ok" /\ "signer" \in got[data.signer].link
  /\ data.url # None =>
       result[data.url] = "ok" /\ "url" \in got[data.url].link

\* A login succeeds for an account on the chain it asked for, with a key that
\* was the account's at some time while the login ran: keys taken away before
\* do not log in (login_flow.rs 229-246, 285-322).
OkIsCurrent ==
  \A o \in Ops : result[o] = "ok" =>
    /\ got[o].chain = chain[o]
    /\ <<got[o].account, got[o].key>> \in valid[o]

\* Once its token is cancelled or its time is over, a waiting login only ends,
\* whatever has arrived (the biased select, login_flow.rs 109-119).
AnswerInTime ==
  [][\A o \in Ops : o \in cancelled \cup elapsed /\ pc'[o] # pc[o] =>
       result'[o] \in {"cancelled", "expired", "dropped"}]_vars

\* Every login returns, though wallet, relay and user may never answer
\* (login_flow.rs 109-119, 245-246).
EveryLoginReturns == \A o \in Ops : pc[o] # "idle" ~> pc[o] = "done"

\* The login as the session kit sees it.
loginStatus == [o \in Ops |-> IF pc[o] = "idle" THEN "idle"
                              ELSE IF pc[o] # "done" THEN "asked"
                              ELSE IF result[o] = "ok" THEN "ok" ELSE "err"]

WL == INSTANCE WalletLogin WITH data <- data, status <- loginStatus

\* The login changes the plugin as WalletLogin says: twice if it succeeds,
\* once if it fails, and never after it has returned (login_flow.rs 72-80,
\* 248-251).
RefinesWalletLogin == WL!Spec

=============================================================================
