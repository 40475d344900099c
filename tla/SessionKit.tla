----------------------------- MODULE SessionKit -----------------------------
(***************************************************************************)
(* SessionKit (kit.rs) with the wallet plugins it shares between all its   *)
(* sessions (plugin.rs, login_flow.rs of the Anchor plugin) and the        *)
(* persistent SessionStorage: login, restore and logout as interleaved     *)
(* async operations whose every await may fail or be dropped, and          *)
(* restarts of the application, which lose memory and keep the storage.    *)
(*                                                                         *)
(* Awaits that touch neither the plugin data nor the storage are merged    *)
(* into the step that follows them: the state an error leaves there is the *)
(* state before that step.                                                 *)
(***************************************************************************)
EXTENDS AnchorChannel, FiniteSets

CONSTANTS Chains,    \* chain ids
          Accounts,  \* permission levels
          Wallets,   \* wallet plugin ids
          Default,   \* DEFAULT_SESSION_KEY, no session's own key
          Links,     \* sets of link fields a wallet may put in a callback
          Overlap    \* TRUE: the application overlaps operations of the kit

ASSUME LinksAssumption == Links \subseteq SUBSET LinkField

ASSUME KeysAssumption ==
  /\ None \notin Chains /\ None \notin Accounts /\ None \notin Wallets
  /\ Default \notin Chains \X Accounts

VARIABLES args,      \* the chains and wallet plugins the kit is built with
          data,      \* data[w]: what plugin w keeps in memory
          store,     \* the storage: one record, or None, per key
          sessions,  \* Session values the application holds
          pc,        \* pc[o]: where operation o is
          req,       \* req[o]: what operation o works on
          bytes,     \* bytes[o]: the serialized session o wrote or read
          result,    \* result[o]: how o ended
          last       \* the operation that ended last since the start (history)

vars == <<args, data, store, sessions, pc, req, bytes, result, last>>

-----------------------------------------------------------------------------
(* Data *)

\* SerializedSession; `by` is the login that serialized it.
Record  == [chain : Chains, account : Accounts, wallet : Wallets,
            data : Channel, by : Ops]

ASSUME NoneIsNoRecord == None \notin Record

\* Session; `by` is the login it goes back to.
Session == [chain : Chains, account : Accounts, wallet : Wallets, by : Ops]

SessionKeys == Chains \X Accounts
Keys        == SessionKeys \cup {Default}

KeyOf(r) == <<r.chain, r.account>>             \* session_key

Config == [chains : SUBSET Chains, wallets : SUBSET Wallets]

Request == [chain : Chains \cup {None}, account : Accounts \cup {None},
            wallet : Wallets \cup {None}, default : BOOLEAN, by : Maybe]
NoRequest == [chain |-> None, account |-> None, wallet |-> None,
              default |-> FALSE, by |-> None]

LoginPc == {"approve", "after", "write", "default", "complete"}
Active(o) == pc[o] \notin {"idle", "done"}

Init ==
  /\ args \in Config
  /\ data = [w \in Wallets |-> Empty]
  /\ store = [k \in Keys |-> None]
  /\ sessions = {}
  /\ pc = [o \in Ops |-> "idle"]
  /\ req = [o \in Ops |-> NoRequest]
  /\ bytes = [o \in Ops |-> None]
  /\ result = [o \in Ops |-> "none"]
  /\ last = None

-----------------------------------------------------------------------------
(* Common to the operations *)

MayBegin(o) == pc[o] = "idle" /\ (Overlap \/ \A p \in Ops : ~Active(p))

Goto(o, l) == pc' = [pc EXCEPT ![o] = l] /\ UNCHANGED <<result, last>>

End(o, r) ==
  /\ pc' = [pc EXCEPT ![o] = "done"]
  /\ result' = [result EXCEPT ![o] = r]
  /\ last' = o

-----------------------------------------------------------------------------
(* login *)

TheOnly(S) == IF Cardinality(S) = 1 THEN CHOOSE x \in S : TRUE ELSE None
Find(S, x) == IF x \in S THEN x ELSE None

\* The wallet and the chain a login settles on, from its options (a chain, a
\* wallet id) and the answer of the login UI where one of them is left open.
\* Where the UI is asked, it may answer for both.
Selection(opts, answer) ==
  LET askUi == \/ opts.wallet = None /\ Cardinality(args.wallets) # 1
               \/ opts.chain = None /\ Cardinality(args.chains) # 1
      wallet == IF Cardinality(args.wallets) = 1
                THEN TheOnly(args.wallets) ELSE Find(args.wallets, opts.wallet)
      chain  == IF opts.chain # None
                THEN Find(args.chains, opts.chain) ELSE TheOnly(args.chains)
  IN  [wallet |-> IF wallet = None /\ askUi
                  THEN Find(args.wallets, answer.wallet) ELSE wallet,
       chain  |-> IF askUi /\ answer.chain # None
                  THEN Find(args.chains, answer.chain) ELSE chain]

Choices == [wallet : Wallets \cup {None}, chain : Chains \cup {None}]

\* Mutant: the login goes on without a chain.
Settled_AnyChain(sel) == sel.wallet # None

\* Neither LoginContextMissing error.
Settled(sel) == sel.wallet # None /\ sel.chain # None

\* From on_login to the identity request: select a wallet and a chain, run
\* the before_login hooks, generate the channel keypair and store it in the
\* plugin; or fail on the way there.
LoginBegin(o) ==
  /\ MayBegin(o)
  /\ \E opts, answer \in Choices, default \in BOOLEAN :
       LET sel == Selection(opts, answer)
       IN  /\ req' = [req EXCEPT ![o] =
                        [chain |-> sel.chain, account |-> None,
                         wallet |-> sel.wallet, default |-> default, by |-> o]]
           /\ \/ /\ Settled(sel)
                 /\ data' = [data EXCEPT ![sel.wallet] = WithKeypair(@, o)]
                 /\ Goto(o, "approve")
              \/ /\ data' = data
                 /\ End(o, "err")
  /\ UNCHANGED <<args, store, sessions, bytes>>

\* A valid callback for account a arrives within the timeout: its link
\* fields are stored and wallet.login returns.
LoginApproved(o, a, link) ==
  /\ pc[o] = "approve"
  /\ data' = [data EXCEPT ![req[o].wallet] = WithLink(@, o, link)]
  /\ req' = [req EXCEPT ![o].account = a]
  /\ Goto(o, "after")
  /\ UNCHANGED <<args, store, sessions, bytes>>

\* persist_session, first half: serialize the session with whatever the
\* plugin holds by now.
LoginSerialize(o) ==
  /\ pc[o] = "after"
  /\ bytes' = [bytes EXCEPT ![o] =
                 [chain |-> req[o].chain, account |-> req[o].account,
                  wallet |-> req[o].wallet, data |-> data[req[o].wallet],
                  by |-> o]]
  /\ Goto(o, "write")
  /\ UNCHANGED <<args, data, store, sessions, req>>

\* Mutant: a default session is written under the default key only.
LoginWrite_EitherKey(o) ==
  /\ pc[o] = "write"
  /\ store' = [store EXCEPT
                ![IF req[o].default THEN Default ELSE KeyOf(bytes[o])] = bytes[o]]
  /\ Goto(o, "complete")
  /\ UNCHANGED <<args, data, sessions, req, bytes>>

\* storage.write under the session's own key
LoginWrite(o) ==
  /\ pc[o] = "write"
  /\ store' = [store EXCEPT ![KeyOf(bytes[o])] = bytes[o]]
  /\ Goto(o, IF req[o].default THEN "default" ELSE "complete")
  /\ UNCHANGED <<args, data, sessions, req, bytes>>

\* storage.write under DEFAULT_SESSION_KEY
LoginWriteDefault(o) ==
  /\ pc[o] = "default"
  /\ store' = [store EXCEPT ![Default] = bytes[o]]
  /\ Goto(o, "complete")
  /\ UNCHANGED <<args, data, sessions, req, bytes>>

\* on_login_complete returned: the application gets its Session.
LoginComplete(o) ==
  /\ pc[o] = "complete"
  /\ sessions' = sessions \cup
       {[chain |-> bytes[o].chain, account |-> bytes[o].account,
         wallet |-> bytes[o].wallet, by |-> o]}
  /\ End(o, "ok")
  /\ UNCHANGED <<args, data, store, req, bytes>>

\* Any other end of login: a rejected or invalid callback, a closed prompt,
\* a relay error, the 120 second timeout, a failing hook, UI or storage call,
\* a cancelled token, a dropped future.  What was done stays done.
LoginFails(o) ==
  /\ pc[o] \in LoginPc
  /\ End(o, "err")
  /\ UNCHANGED <<args, data, store, sessions, req, bytes>>

-----------------------------------------------------------------------------
(* restore and logout *)

\* restore up to the answer of storage.read
RestoreRead(o, k) ==
  /\ MayBegin(o)
  /\ req' = [req EXCEPT ![o].chain = k[1], ![o].account = k[2]]
  /\ bytes' = [bytes EXCEPT ![o] = store[k]]
  /\ IF store[k] = None THEN End(o, "err") ELSE Goto(o, "apply")
  /\ UNCHANGED <<args, data, store, sessions>>

\* The rest of restore: the plugin takes the stored data before the chain is
\* looked up.
RestoreApply(o) ==
  /\ pc[o] = "apply"
  /\ LET r == bytes[o]
     IN  \/ /\ r.wallet \notin args.wallets
            /\ End(o, "err")
            /\ UNCHANGED <<data, sessions>>
         \/ /\ r.wallet \in args.wallets
            /\ data' = [data EXCEPT ![r.wallet] = r.data]
            /\ \/ /\ req[o].chain \notin args.chains
                  /\ End(o, "err")
                  /\ UNCHANGED sessions
               \/ /\ req[o].chain \in args.chains
                  /\ End(o, "ok")
                  /\ sessions' = sessions \cup
                       {[chain |-> req[o].chain, account |-> req[o].account,
                         wallet |-> r.wallet, by |-> r.by]}
  /\ UNCHANGED <<args, store, req, bytes>>

\* Mutant: the record stays in the storage.
LogoutRemove_Keeps(o, s) ==
  /\ MayBegin(o)
  /\ req' = [req EXCEPT ![o] = [chain |-> s.chain, account |-> s.account,
                                wallet |-> s.wallet, default |-> FALSE,
                                by |-> s.by]]
  /\ Goto(o, "logout")
  /\ UNCHANGED <<args, data, store, sessions, bytes>>

\* logout up to the answer of storage.remove, which may be an error.
LogoutRemove(o, s) ==
  /\ MayBegin(o)
  /\ req' = [req EXCEPT ![o] = [chain |-> s.chain, account |-> s.account,
                                wallet |-> s.wallet, default |-> FALSE,
                                by |-> s.by]]
  /\ \/ /\ store' = [store EXCEPT ![KeyOf(s)] = None]
        /\ Goto(o, "logout")
     \/ /\ UNCHANGED store
        /\ End(o, "err")
  /\ UNCHANGED <<args, data, sessions, bytes>>

\* wallet_plugin.logout empties the plugin, whichever session it served.
LogoutWallet(o) ==
  /\ pc[o] = "logout"
  /\ data' = [data EXCEPT ![req[o].wallet] = Empty]
  /\ End(o, "ok")
  /\ UNCHANGED <<args, store, sessions, req, bytes>>

\* The future of restore or logout is dropped at its await.
Dropped(o) ==
  /\ pc[o] \in {"apply", "logout"}
  /\ End(o, "err")
  /\ UNCHANGED <<args, data, store, sessions, req, bytes>>

\* The application stops, at any point, and starts again with a kit that may
\* know other chains and wallets.
Restart ==
  /\ args' \in Config
  /\ data' = [w \in Wallets |-> Empty]
  /\ sessions' = {}
  /\ pc' = [o \in Ops |-> IF Active(o) THEN "done" ELSE pc[o]]
  /\ result' = [o \in Ops |-> IF Active(o) THEN "err" ELSE result[o]]
  /\ last' = None
  /\ UNCHANGED <<store, req, bytes>>

-----------------------------------------------------------------------------

Operation(o) ==
  \/ LoginBegin(o)
  \/ \E a \in Accounts, link \in Links : LoginApproved(o, a, link)
  \/ \E k \in SessionKeys : RestoreRead(o, k)
  \/ \E s \in sessions : LogoutRemove(o, s)
  \/ LoginSerialize(o) \/ LoginWrite(o) \/ LoginWriteDefault(o)
  \/ LoginComplete(o) \/ LoginFails(o)
  \/ RestoreApply(o) \/ LogoutWallet(o) \/ Dropped(o)

Next == Restart \/ \E o \in Ops : Operation(o)

Spec == Init /\ [][Next]_vars

-----------------------------------------------------------------------------
(* What the kit promises. *)

\* Every variable keeps the shape of the structs of the code, and an
\* operation under way has what its next step reads.
TypeOK ==
  /\ args \in Config
  /\ data \in [Wallets -> Channel]
  /\ store \in [Keys -> Record \cup {None}]
  /\ sessions \subseteq Session
  /\ pc \in [Ops -> LoginPc \cup {"idle", "apply", "logout", "done"}]
  /\ req \in [Ops -> Request]
  /\ bytes \in [Ops -> Record \cup {None}]
  /\ result \in [Ops -> {"none", "ok", "err"}]
  /\ last \in Maybe
  /\ \A o \in Ops :
       /\ pc[o] \in LoginPc \cup {"logout"} =>
            req[o].wallet # None /\ req[o].chain # None
       /\ pc[o] \in (LoginPc \ {"approve"}) \cup {"apply"} => req[o].account # None
       /\ pc[o] \in {"write", "default", "complete", "apply"} => bytes[o] # None

\* A stored session can reach its wallet: the keypair, the wallet's key and
\* the channel address it carries belong together and to the login that
\* stored it, whatever failed, was dropped or was restored before.  (For a
\* wallet that always sends its link fields, and one operation at a time.)
PersistedCoherent ==
  \A k \in Keys : store[k] # None =>
    Coherent(store[k].data) /\ store[k].data.key = store[k].by

\* After a login or a restore that succeeded, what the plugin holds in memory
\* is what a restart would bring back from the storage.
DurableSession ==
  (last # None /\ bytes[last] # None /\ result[last] = "ok"
     /\ \A o \in Ops : ~Active(o))
    => /\ store[KeyOf(bytes[last])] = bytes[last]
       /\ data[bytes[last].wallet] = bytes[last].data

\* The default record is only ever written when the same record is already
\* stored under its own key, so a crash between the two writes cannot leave
\* a default session that cannot be restored.
DefaultFollowsSession ==
  [][store'[Default] # store[Default]
       => store[KeyOf(store'[Default])] = store'[Default]]_vars

\* A logout that succeeded leaves no trace of the login under any session key
\* or in any plugin, and no later restore, failed login or restart brings the
\* channel back.  (The default record is not removed and not covered.)
LoggedOut(o) == result[o] = "ok" /\ bytes[o] = None

LogoutForgets ==
  \A o \in Ops : LoggedOut(o) =>
    /\ \A w \in Wallets : data[w].key # req[o].by
    /\ \A k \in SessionKeys : store[k] # None => store[k].by # req[o].by

\* The doc of try_channel_state: what it returns between two operations is
\* an established channel, all of it set up by one login.
ChannelEstablished ==
  (\A o \in Ops : ~Active(o))
    => \A w \in Wallets : HasChannel(data[w]) => Coherent(data[w])

=============================================================================
