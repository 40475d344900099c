------------------------------ MODULE Transact ------------------------------
(***************************************************************************)
(* Session::transact and Session::sign_transaction (session.rs), run       *)
(* concurrently on one session, with the two kinds of wallet plugin: one   *)
(* that signs the transaction it is given, and the Anchor plugin           *)
(* (sign_flow.rs), whose signatures come back through the relay from a     *)
(* wallet that was only sent the actions.  The wallet, the relay and the   *)
(* chain node are external: modelled from the calls the code makes.        *)
(*                                                                         *)
(* A transaction is abstracted to its actions and its reference block; its *)
(* expiration is Ttl blocks later.  A signature is the transaction signed. *)
(***************************************************************************)
EXTENDS Naturals, FiniteSets

CONSTANTS Calls,     \* calls of the application
          Payloads,  \* action lists
          MaxHead,   \* bound: the last block of the behaviours
          Ttl,       \* blocks until a transaction expires
          None       \* an absent Option

ASSUME NaturalsAssumption == MaxHead \in Nat /\ Ttl \in Nat

VARIABLES wallet,    \* kind of the session's wallet plugin
          pc,        \* pc[c]: the await where call c is
          args,      \* args[c]: operation, actions and opts.broadcast
          tx,        \* tx[c]: resolved.transaction
          sigs,      \* sigs[c]: what the returned signatures sign
          result,    \* result[c]: how c ended
          requests,  \* signing requests the wallet app has received
          relay,     \* relay[ch]: answers posted on callback channel ch
          signed,    \* what the wallet signed, and for which call (history)
          wire,      \* send_transaction requests the node has not processed
          answer,    \* answer[c]: the node's answer to the request c awaits
          lost,      \* lost[c]: some error c saw was no answer of the node (history)
          v2,        \* the node has send_transaction2
          head,      \* the head block of the chain
          ran        \* what ran on the chain, for which call (history)

vars == <<wallet, pc, args, tx, sigs, result, requests, relay, signed,
          wire, answer, lost, v2, head, ran>>
walletVars == <<requests, relay, signed>>
chainVars  == <<wire, answer, lost, v2, head, ran>>

Heads       == 0..MaxHead
Transaction == [payload : Payloads, ref : Heads]
Args        == [op : {"transact", "sign"}, payload : Payloads \cup {None},
                broadcast : BOOLEAN]
Request     == [call : Calls, payload : Payloads, broadcast : BOOLEAN,
                channel : Calls]
Message     == [call : Calls, tx : Transaction, sigs : Transaction,
                endpoint : {"v2", "v1"}]

ASSUME NoneAssumption == None \notin Transaction \cup {"accepted", "refused"}

Awaits == {"head", "sign", "post", "listen", "signed", "send", "resend", "finish"}

Init ==
  /\ wallet \in {"local", "anchor"}
  /\ v2 \in BOOLEAN
  /\ pc = [c \in Calls |-> "idle"]
  /\ args = [c \in Calls |-> [op |-> "transact", payload |-> None, broadcast |-> FALSE]]
  /\ tx = [c \in Calls |-> None]
  /\ sigs = [c \in Calls |-> None]
  /\ result = [c \in Calls |-> "none"]
  /\ requests = {}
  /\ relay = [c \in Calls |-> {}]
  /\ signed = {}
  /\ wire = {}
  /\ answer = [c \in Calls |-> None]
  /\ lost = [c \in Calls |-> FALSE]
  /\ head = 0
  /\ ran = {}

Goto(c, l) == pc' = [pc EXCEPT ![c] = l] /\ UNCHANGED result

End(c, r) == pc' = [pc EXCEPT ![c] = "done"] /\ result' = [result EXCEPT ![c] = r]

-----------------------------------------------------------------------------
(* The call *)

\* transact, to the answer it awaits from get_info.
Begin(c, p, broadcast) ==
  /\ pc[c] = "idle"
  /\ args' = [args EXCEPT ![c] = [op |-> "transact", payload |-> p,
                                  broadcast |-> broadcast]]
  /\ Goto(c, "head")
  /\ UNCHANGED <<wallet, tx, sigs, walletVars, chainVars>>

\* fetch_chain_head answered: create the request and resolve it locally.
ResolveAtHead(c) ==
  /\ pc[c] = "head"
  /\ tx' = [tx EXCEPT ![c] = [payload |-> args[c].payload, ref |-> head]]
  /\ Goto(c, "sign")
  /\ UNCHANGED <<wallet, args, sigs, walletVars, chainVars>>

\* sign_transaction: the application brings a transaction of its own.
BeginSign(c, t) ==
  /\ pc[c] = "idle"
  /\ t.ref <= head
  /\ args' = [args EXCEPT ![c] = [op |-> "sign", payload |-> t.payload,
                                  broadcast |-> FALSE]]
  /\ tx' = [tx EXCEPT ![c] = t]
  /\ Goto(c, "sign")
  /\ UNCHANGED <<wallet, sigs, walletVars, chainVars>>

\* wallet_plugin.sign returned: transact goes on, sign_transaction is over.
Signed(c, t) ==
  /\ sigs' = [sigs EXCEPT ![c] = t]
  /\ \/ args[c].op = "transact" /\ Goto(c, "signed")
     \/ args[c].op = "sign" /\ End(c, "ok")

\* A plugin with its own key signs resolved.transaction.
SignLocally(c) ==
  /\ wallet = "local" /\ pc[c] = "sign"
  /\ Signed(c, tx[c])
  /\ signed' = signed \cup {[call |-> c, tx |-> tx[c]]}
  /\ UNCHANGED <<wallet, args, tx, requests, relay, chainVars>>

\* Mutant: the request keeps the broadcast flag that create gives it.
SignRequest_Broadcasts(c, ch) ==
  [call |-> c, payload |-> args[c].payload, broadcast |-> TRUE, channel |-> ch]

\* build_sign_request: the actions without a header, and not to be broadcast.
SignRequest(c, ch) ==
  [call |-> c, payload |-> args[c].payload, broadcast |-> FALSE, channel |-> ch]

\* Mutant: every request of the session is answered on one channel.
CallbackChannel_Shared(c) == CHOOSE ch \in Calls : TRUE

\* run_sign names the callback channel with a fresh uuid.
CallbackChannel(c) == c

\* run_sign: send the sealed request to the wallet's channel, or open it.
PostRequest(c) ==
  /\ wallet = "anchor" /\ pc[c] = "sign"
  /\ requests' = requests \cup {SignRequest(c, CallbackChannel(c))}
  /\ Goto(c, "post")
  /\ UNCHANGED <<wallet, args, tx, sigs, relay, signed, chainVars>>

\* The POST is over: only now is the callback channel listened on.
Listen(c) ==
  /\ pc[c] = "post"
  /\ Goto(c, "listen")
  /\ UNCHANGED <<wallet, args, tx, sigs, walletVars, chainVars>>

\* Mutant: a callback without signatures is taken.
Answered_TakesEmpty(c) ==
  /\ pc[c] = "listen"
  /\ \E m \in relay[CallbackChannel(c)] :
       IF m.rejected THEN End(c, "wallet") /\ UNCHANGED sigs ELSE Signed(c, m.tx)
  /\ UNCHANGED <<wallet, args, tx, walletVars, chainVars>>

\* The first message of the stream wins the select: parse_sign_callback.
Answered(c) ==
  /\ pc[c] = "listen"
  /\ \E m \in relay[CallbackChannel(c)] :
       IF m.rejected \/ m.tx = None
       THEN End(c, "wallet") /\ UNCHANGED sigs
       ELSE Signed(c, m.tx)
  /\ UNCHANGED <<wallet, args, tx, walletVars, chainVars>>

\* Mutant: the timer starts with the first message.
Expire_AfterMessage(c) ==
  /\ pc[c] = "listen" /\ relay[CallbackChannel(c)] # {}
  /\ End(c, "wallet")
  /\ UNCHANGED <<wallet, args, tx, sigs, walletVars, chainVars>>

\* DEFAULT_SIGN_TIMEOUT_SECS
Expire(c) ==
  /\ pc[c] = "listen"
  /\ End(c, "wallet")
  /\ UNCHANGED <<wallet, args, tx, sigs, walletVars, chainVars>>

\* A signed transaction on its way to one of the node's two endpoints.
SendTo(c, endpoint) ==
  [call |-> c, tx |-> tx[c], sigs |-> sigs[c], endpoint |-> endpoint]

\* Mutant: both endpoints are asked at once.
Send_Both(c) ==
  /\ pc[c] = "signed" /\ args[c].broadcast
  /\ wire' = wire \cup {SendTo(c, "v2"), SendTo(c, "v1")}
  /\ Goto(c, "send")
  /\ UNCHANGED <<wallet, args, tx, sigs, walletVars, answer, lost, v2, head, ran>>

\* broadcast, first endpoint
Send(c) ==
  /\ pc[c] = "signed" /\ args[c].broadcast
  /\ wire' = wire \cup {SendTo(c, "v2")}
  /\ Goto(c, "send")
  /\ UNCHANGED <<wallet, args, tx, sigs, walletVars, answer, lost, v2, head, ran>>

SkipBroadcast(c) ==
  /\ pc[c] = "signed" /\ ~args[c].broadcast
  /\ Goto(c, "finish")
  /\ UNCHANGED <<wallet, args, tx, sigs, walletVars, chainVars>>

\* send_transaction after send_transaction2, the same signed transaction.
Resend(c) ==
  /\ wire' = wire \cup {SendTo(c, "v1")}
  /\ answer' = [answer EXCEPT ![c] = None]
  /\ Goto(c, "resend")
  /\ UNCHANGED <<wallet, args, tx, sigs, walletVars, v2, head, ran>>

\* Mutant: the older endpoint's refusal is taken for a response.
SendAnswered_TakesAny(c) ==
  /\ \/ pc[c] \in {"send", "resend"} /\ answer[c] = "accepted"
     \/ pc[c] = "resend" /\ answer[c] = "refused"
  /\ Goto(c, "finish")
  /\ UNCHANGED <<wallet, args, tx, sigs, walletVars, chainVars>>

\* The node ran the transaction and its answer could be read.
SendAnswered(c) ==
  /\ pc[c] \in {"send", "resend"} /\ answer[c] = "accepted"
  /\ Goto(c, "finish")
  /\ UNCHANGED <<wallet, args, tx, sigs, walletVars, chainVars>>

\* The request ends in an error: the node refused, or, at any time, the
\* connection failed or the answer could not be read, whatever the node did.
\* The first endpoint's error falls back to the second when its text contains
\* 404, which any of these errors may; if not, TransactError::Broadcast.
SendFails(c) ==
  /\ pc[c] \in {"send", "resend"}
  /\ \/ answer[c] = "refused" /\ UNCHANGED lost
     \/ lost' = [lost EXCEPT ![c] = TRUE]
  /\ \/ pc[c] = "send" /\ Resend(c)
     \/ /\ End(c, "broadcast")
        /\ UNCHANGED <<wallet, args, tx, sigs, walletVars, wire, answer, v2, head, ran>>

\* on_broadcast_complete and on_transact_complete returned.
Finish(c) ==
  /\ pc[c] = "finish"
  /\ End(c, "ok")
  /\ UNCHANGED <<wallet, args, tx, sigs, walletVars, chainVars>>

\* Any other error at an await (UI, get_info, ctx.cancel) or a dropped future;
\* or, until there are signatures, the plugin's: an unusable callback, the
\* status of the POST, a closed prompt.
Fails(c) ==
  /\ pc[c] \in Awaits
  /\ \/ End(c, "err")
     \/ pc[c] \in {"head", "sign", "post", "listen"} /\ End(c, "wallet")
  /\ UNCHANGED <<wallet, args, tx, sigs, walletVars, chainVars>>

-----------------------------------------------------------------------------
(* External: the wallet app and the node *)

\* The wallet resolves the actions against the block it sees, signs,
\* broadcasts if the request says so, and answers on the callback channel.
WalletApproves(r) ==
  LET t == [payload |-> r.payload, ref |-> head]
  IN  /\ signed' = signed \cup {[call |-> r.call, tx |-> t]}
      /\ relay' = [relay EXCEPT ![r.channel] = @ \cup {[rejected |-> FALSE, tx |-> t]}]
      /\ ran' = IF r.broadcast
                THEN ran \cup {[call |-> r.call, tx |-> t]} ELSE ran
      /\ requests' = requests \ {r}
      /\ UNCHANGED <<wallet, pc, args, tx, sigs, result, wire, answer, lost, v2, head>>

\* The wallet posts a rejection, or a payload without signatures.
WalletRejects(r) ==
  /\ \E b \in BOOLEAN :
       relay' = [relay EXCEPT ![r.channel] = @ \cup {[rejected |-> b, tx |-> None]}]
  /\ requests' = requests \ {r}
  /\ UNCHANGED <<wallet, pc, args, tx, sigs, result, signed, chainVars>>

\* The node runs a transaction whose signatures fit, which has not expired
\* and has not run before, and refuses any other.
Runnable(m) ==
  /\ m.endpoint = "v2" => v2
  /\ m.sigs = m.tx
  /\ head <= m.tx.ref + Ttl
  /\ \A r \in ran : r.tx # m.tx

\* The call that still awaits the request; an answer that is late is dropped.
Awaited(m) == pc[m.call] = IF m.endpoint = "v2" THEN "send" ELSE "resend"

NodeProcesses(m) ==
  /\ wire' = wire \ {m}
  /\ ran' = IF Runnable(m) THEN ran \cup {[call |-> m.call, tx |-> m.tx]} ELSE ran
  /\ answer' = IF Awaited(m)
               THEN [answer EXCEPT ![m.call] = IF Runnable(m) THEN "accepted" ELSE "refused"]
               ELSE answer
  /\ UNCHANGED <<wallet, pc, args, tx, sigs, result, walletVars, lost, v2, head>>

NextBlock ==
  /\ head < MaxHead
  /\ head' = head + 1
  /\ UNCHANGED <<wallet, pc, args, tx, sigs, result, walletVars, wire, answer, lost, v2, ran>>

-----------------------------------------------------------------------------

Call(c) ==
  \/ \E p \in Payloads, b \in BOOLEAN : Begin(c, p, b)
  \/ \E t \in Transaction : BeginSign(c, t)
  \/ ResolveAtHead(c) \/ SignLocally(c)
  \/ PostRequest(c) \/ Listen(c) \/ Answered(c) \/ Expire(c)
  \/ Send(c) \/ SkipBroadcast(c) \/ SendAnswered(c) \/ SendFails(c)
  \/ Finish(c) \/ Fails(c)

External ==
  \/ \E r \in requests : WalletApproves(r) \/ WalletRejects(r)
  \/ \E m \in wire : NodeProcesses(m)
  \/ NextBlock

Terminated == (\A c \in Calls : pc[c] = "done") /\ UNCHANGED vars

Next == External \/ (\E c \in Calls : Call(c)) \/ Terminated

Spec == Init /\ [][Next]_vars

\* The executor polls a call that can go on, a request to the node or the
\* relay is answered or fails, and the timer fires.  The wallet owes nothing.
Progress(c) ==
  \/ ResolveAtHead(c) \/ SignLocally(c) \/ PostRequest(c) \/ Listen(c)
  \/ Expire(c) \/ Send(c) \/ SkipBroadcast(c)
  \/ SendAnswered(c) \/ SendFails(c) \/ Finish(c)

FairSpec == Spec /\ \A c \in Calls : WF_vars(Progress(c))

-----------------------------------------------------------------------------
(* What transact promises. *)

\* Every variable keeps its shape, and a call has a transaction to sign and
\* signatures to send by the time it needs them.
TypeOK ==
  /\ wallet \in {"local", "anchor"}
  /\ pc \in [Calls -> Awaits \cup {"idle", "done"}]
  /\ args \in [Calls -> Args]
  /\ tx \in [Calls -> Transaction \cup {None}]
  /\ sigs \in [Calls -> Transaction \cup {None}]
  /\ result \in [Calls -> {"none", "ok", "wallet", "broadcast", "err"}]
  /\ requests \subseteq Request
  /\ relay \in [Calls -> SUBSET [rejected : BOOLEAN, tx : Transaction \cup {None}]]
  /\ signed \subseteq [call : Calls, tx : Transaction]
  /\ wire \subseteq Message
  /\ answer \in [Calls -> {None, "accepted", "refused"}]
  /\ lost \in [Calls -> BOOLEAN]
  /\ v2 \in BOOLEAN
  /\ head \in Heads
  /\ ran \subseteq [call : Calls, tx : Transaction]
  /\ \A c \in Calls :
       /\ pc[c] \in Awaits \ {"head"} => tx[c] # None
       /\ pc[c] \in {"signed", "send", "resend", "finish"} => sigs[c] # None

\* Whatever runs on the chain runs for a call that was told to broadcast, with
\* the transaction it holds and signatures the wallet gave that call for it;
\* and a call that blames the wallet for its failure has run nothing.
RanAsReported ==
  \A r \in ran :
    /\ args[r.call].broadcast
    /\ r.tx = tx[r.call]
    /\ sigs[r.call] = tx[r.call]
    /\ r \in signed
    /\ result[r.call] # "wallet"

\* The signatures of a call were given for that call, though calls overlap
\* and answers may come late.
OwnSignatures ==
  \A c \in Calls : sigs[c] # None => [call |-> c, tx |-> sigs[c]] \in signed

\* A call that broadcast and succeeded has run, by its own request: two
\* equal transactions never both succeed.
SuccessRan ==
  \A c \in Calls : result[c] = "ok" /\ args[c].broadcast =>
    [call |-> c, tx |-> tx[c]] \in ran

\* When a broadcast fails and every error on the way was a refusal of the node,
\* no request of that call has run and none is under way, the fallback
\* included.  It says nothing of an equal transaction of another call, whose
\* run may be why the node refused, and nothing once an answer was lost: then
\* the call reports the same TransactError::Broadcast though it may have run.
RefusedNeverRuns ==
  \A c \in Calls : result[c] = "broadcast" /\ ~lost[c] =>
    (\A r \in ran : r.call # c) /\ (\A m \in wire : m.call # c)

\* Every call returns, though the wallet may never answer.
EveryCallReturns == \A c \in Calls : pc[c] # "idle" ~> pc[c] = "done"

\* The doc of WalletPluginSignResponse::resolved: what is broadcast is what
\* the wallet signed.
SentAsSigned == \A m \in wire : m.sigs = m.tx

=============================================================================
