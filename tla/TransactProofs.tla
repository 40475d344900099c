---------------------------- MODULE TransactProofs ----------------------------
(* Proofs of the safety properties of Transact, for every set of calls and   *)
(* action lists, either wallet plugin and either node.                       *)
EXTENDS Transact, TLAPS

Sent == {"send", "resend", "finish", "done"}

Unsigned == {"idle", "head", "sign", "post", "listen"}

\* A call that has begun has actions, one that has a result is over,
\* sign_transaction never broadcasts, and a call that waits for the wallet, or
\* that the wallet failed, has no signatures.
CallInv ==
  \A c \in Calls :
    /\ pc[c] # "idle" => args[c].payload \in Payloads
    /\ result[c] # "none" => pc[c] = "done"
    /\ args[c].op = "sign" => ~args[c].broadcast
    /\ pc[c] \in Unsigned \/ result[c] = "wallet" => sigs[c] = None

\* The wallet is asked to answer each call on a channel of its own, and not to
\* broadcast; so what is on a channel was signed for the call that listens.
RequestInv == \A r \in requests : r.channel = r.call /\ ~r.broadcast

RelayInv ==
  \A c \in Calls : \A m \in relay[c] :
    m.tx # None => [call |-> c, tx |-> m.tx] \in signed

\* A request on the wire carries what its call holds.
WireInv ==
  \A m \in wire :
    /\ m.tx = tx[m.call] /\ m.sigs = sigs[m.call]
    /\ args[m.call].broadcast
    /\ pc[m.call] \in Sent

\* A transaction ran only if its call sent it.
RanInv == \A r \in ran : r.tx = tx[r.call] /\ pc[r.call] \in Sent

\* As long as the node has answered every request of a call so far, its only
\* request on the wire is the one it awaits, and it has run only if the node
\* said so.
Sole(c) ==
  /\ answer[c] # None => \A m \in wire : m.call # c
  /\ answer[c] # "accepted" => \A r \in ran : r.call # c
  /\ \A m \in wire : m.call = c => m.endpoint = IF pc[c] = "send" THEN "v2" ELSE "v1"

SoleInv == \A c \in Calls : ~lost[c] /\ pc[c] \in {"send", "resend"} => Sole(c)

AnswerInv ==
  \A c \in Calls :
    /\ answer[c] # None => pc[c] \in Sent
    /\ answer[c] = "accepted" => [call |-> c, tx |-> tx[c]] \in ran
    /\ pc[c] = "finish" /\ args[c].broadcast => [call |-> c, tx |-> tx[c]] \in ran
    /\ pc[c] \in {"send", "resend"} => args[c].broadcast

IInv ==
  /\ TypeOK
  /\ CallInv /\ RequestInv /\ RelayInv /\ WireInv /\ RanInv /\ AnswerInv /\ SoleInv
  /\ RanAsReported /\ OwnSignatures /\ SuccessRan /\ RefusedNeverRuns

-----------------------------------------------------------------------------

LEMMA BeginStep ==
  ASSUME IInv, NEW c \in Calls, NEW p \in Payloads, NEW broadcast \in BOOLEAN, Begin(c, p, broadcast)
  PROVE  IInv'
<1>1. TypeOK'
  BY DEF IInv, TypeOK, Transaction, Args, Request, Message, Heads, Awaits, Begin, Goto, walletVars, chainVars
<1>2. CallInv'
  BY DEF IInv, TypeOK, CallInv, Unsigned, Awaits, Begin, Goto, walletVars, chainVars
<1>3. RequestInv'
  BY DEF IInv, TypeOK, RequestInv, Begin, Goto, walletVars, chainVars
<1>4. RelayInv'
  BY DEF IInv, TypeOK, RelayInv, Begin, Goto, walletVars, chainVars
<1>5. WireInv'
  BY DEF IInv, TypeOK, WireInv, Sent, Awaits, Begin, Goto, walletVars, chainVars
<1>6. RanInv'
  BY DEF IInv, TypeOK, RanInv, Sent, Awaits, Begin, Goto, walletVars, chainVars
<1>7. AnswerInv'
  BY DEF IInv, TypeOK, AnswerInv, Sent, Awaits, Begin, Goto, walletVars, chainVars
<1>8. RanAsReported'
  BY DEF IInv, TypeOK, RanAsReported, RanInv, Sent, Begin, Goto, walletVars, chainVars
<1>9. OwnSignatures'
  BY DEF IInv, TypeOK, OwnSignatures, Begin, Goto, walletVars, chainVars
<1>10. SuccessRan'
  BY DEF IInv, TypeOK, SuccessRan, CallInv, Awaits, Begin, Goto, walletVars, chainVars
<1>11. RefusedNeverRuns'
  BY DEF IInv, TypeOK, RefusedNeverRuns, Begin, Goto, walletVars, chainVars
<1>12. SoleInv'
  BY DEF IInv, TypeOK, SoleInv, Sole, Begin, Goto, walletVars, chainVars
<1> QED
  BY <1>1, <1>2, <1>3, <1>4, <1>5, <1>6, <1>7, <1>8, <1>9, <1>10, <1>11, <1>12 DEF IInv

LEMMA BeginSignStep ==
  ASSUME IInv, NEW c \in Calls, NEW t \in Transaction, BeginSign(c, t)
  PROVE  IInv'
<1>1. TypeOK'
  <2>1. args[c]' \in Args /\ args' \in [Calls -> Args]
    BY DEF IInv, TypeOK, Transaction, Args, BeginSign
  <2>2. tx' \in [Calls -> Transaction \cup {None}] /\ tx[c]' # None
    BY NoneAssumption DEF IInv, TypeOK, BeginSign
  <2> QED
    BY <2>1, <2>2 DEF IInv, TypeOK, Awaits, BeginSign, Goto, walletVars, chainVars
<1>2. CallInv'
  BY DEF IInv, TypeOK, CallInv, Unsigned, Awaits, Transaction, BeginSign, Goto, walletVars, chainVars
<1>3. RequestInv'
  BY DEF IInv, TypeOK, RequestInv, BeginSign, Goto, walletVars, chainVars
<1>4. RelayInv'
  BY DEF IInv, TypeOK, RelayInv, BeginSign, Goto, walletVars, chainVars
<1>5. WireInv'
  BY DEF IInv, TypeOK, WireInv, Sent, Awaits, BeginSign, Goto, walletVars, chainVars
<1>6. RanInv'
  BY DEF IInv, TypeOK, RanInv, Sent, Awaits, BeginSign, Goto, walletVars, chainVars
<1>7. AnswerInv'
  BY DEF IInv, TypeOK, AnswerInv, Sent, Awaits, RanInv, BeginSign, Goto, walletVars, chainVars
<1>8. RanAsReported'
  BY DEF IInv, TypeOK, RanAsReported, RanInv, Sent, BeginSign, Goto, walletVars, chainVars
<1>9. OwnSignatures'
  BY DEF IInv, TypeOK, OwnSignatures, BeginSign, Goto, walletVars, chainVars
<1>10. SuccessRan'
  BY DEF IInv, TypeOK, SuccessRan, BeginSign, Goto, walletVars, chainVars
<1>11. RefusedNeverRuns'
  BY DEF IInv, TypeOK, RefusedNeverRuns, BeginSign, Goto, walletVars, chainVars
<1>12. SoleInv'
  BY DEF IInv, TypeOK, SoleInv, Sole, BeginSign, Goto, walletVars, chainVars
<1> QED
  BY <1>1, <1>2, <1>3, <1>4, <1>5, <1>6, <1>7, <1>8, <1>9, <1>10, <1>11, <1>12 DEF IInv

LEMMA ResolveAtHeadStep ==
  ASSUME IInv, NEW c \in Calls, ResolveAtHead(c)
  PROVE  IInv'
<1>1. TypeOK'
  <2>1. [payload |-> args[c].payload, ref |-> head] \in Transaction
    BY DEF IInv, TypeOK, CallInv, Transaction, ResolveAtHead
  <2>2. tx' \in [Calls -> Transaction \cup {None}] /\ tx[c]' # None
    BY <2>1, NoneAssumption DEF IInv, TypeOK, ResolveAtHead
  <2> QED
    BY <2>1, <2>2 DEF IInv, TypeOK, Awaits, ResolveAtHead, Goto, walletVars, chainVars
<1>2. CallInv'
  BY DEF IInv, TypeOK, CallInv, Unsigned, Awaits, ResolveAtHead, Goto, walletVars, chainVars
<1>3. RequestInv'
  BY DEF IInv, TypeOK, RequestInv, ResolveAtHead, Goto, walletVars, chainVars
<1>4. RelayInv'
  BY DEF IInv, TypeOK, RelayInv, ResolveAtHead, Goto, walletVars, chainVars
<1>5. WireInv'
  BY DEF IInv, TypeOK, WireInv, Sent, Awaits, ResolveAtHead, Goto, walletVars, chainVars
<1>6. RanInv'
  BY DEF IInv, TypeOK, RanInv, Sent, Awaits, ResolveAtHead, Goto, walletVars, chainVars
<1>7. AnswerInv'
  BY DEF IInv, TypeOK, AnswerInv, Sent, Awaits, RanInv, ResolveAtHead, Goto, walletVars, chainVars
<1>8. RanAsReported'
  BY DEF IInv, TypeOK, RanAsReported, RanInv, Sent, ResolveAtHead, Goto, walletVars, chainVars
<1>9. OwnSignatures'
  BY DEF IInv, TypeOK, OwnSignatures, ResolveAtHead, Goto, walletVars, chainVars
<1>10. SuccessRan'
  BY DEF IInv, TypeOK, SuccessRan, CallInv, Awaits, ResolveAtHead, Goto, walletVars, chainVars
<1>11. RefusedNeverRuns'
  BY DEF IInv, TypeOK, RefusedNeverRuns, ResolveAtHead, Goto, walletVars, chainVars
<1>12. SoleInv'
  BY DEF IInv, TypeOK, SoleInv, Sole, ResolveAtHead, Goto, walletVars, chainVars
<1> QED
  BY <1>1, <1>2, <1>3, <1>4, <1>5, <1>6, <1>7, <1>8, <1>9, <1>10, <1>11, <1>12 DEF IInv

LEMMA SignLocallyStep ==
  ASSUME IInv, NEW c \in Calls, SignLocally(c)
  PROVE  IInv'
<1>1. TypeOK'
  <2>1. tx[c] \in Transaction
    BY DEF IInv, TypeOK, Awaits, SignLocally
  <2>2. sigs' \in [Calls -> Transaction \cup {None}] /\ sigs[c]' # None
    BY <2>1, NoneAssumption DEF IInv, TypeOK, SignLocally, Signed
  <2>3. signed' \subseteq [call : Calls, tx : Transaction]
    BY <2>1 DEF IInv, TypeOK, SignLocally
  <2>4. /\ pc' \in [Calls -> Awaits \cup {"idle", "done"}]
        /\ result' \in [Calls -> {"none", "ok", "wallet", "broadcast", "err"}]
        /\ \A d \in Calls : pc'[d] # pc[d] => d = c
    BY DEF IInv, TypeOK, Awaits, SignLocally, Signed, Goto, End
  <2> QED
    BY <2>1, <2>2, <2>3, <2>4 DEF IInv, TypeOK, Awaits, SignLocally, Signed, Goto, End, chainVars
<1>2. CallInv'
  BY DEF IInv, TypeOK, CallInv, Unsigned, Awaits, SignLocally, Signed, Goto, End, chainVars
<1>3. RequestInv'
  BY DEF IInv, TypeOK, RequestInv, SignLocally, Signed, Goto, End, chainVars
<1>4. RelayInv'
  BY DEF IInv, TypeOK, RelayInv, SignLocally, Signed, Goto, End, chainVars
<1>5. WireInv'
  <2>1. \A m \in wire : m.call # c /\ m.call \in Calls
    BY DEF IInv, TypeOK, Message, WireInv, Sent, SignLocally
  <2>2. UNCHANGED <<wire, answer, args, tx>>
    BY DEF SignLocally, Signed, End, chainVars
  <2>3. \A d \in Calls : d # c => pc'[d] = pc[d] /\ sigs'[d] = sigs[d]
    BY DEF IInv, TypeOK, SignLocally, Signed, Goto, End
  <2> QED
    BY <2>1, <2>2, <2>3 DEF IInv, WireInv
<1>6. RanInv'
  BY DEF IInv, TypeOK, RanInv, Sent, Awaits, SignLocally, Signed, Goto, End, chainVars
<1>7. AnswerInv'
  BY DEF IInv, TypeOK, AnswerInv, Sent, Awaits, SignLocally, Signed, Goto, End, chainVars
<1>8. RanAsReported'
  BY DEF IInv, TypeOK, RanAsReported, RanInv, Sent, SignLocally, Signed, Goto, End, chainVars
<1>9. OwnSignatures'
  BY DEF IInv, TypeOK, OwnSignatures, SignLocally, Signed, Goto, End, chainVars
<1>10. SuccessRan'
  BY DEF IInv, TypeOK, SuccessRan, CallInv, Awaits, SignLocally, Signed, Goto, End, chainVars
<1>11. RefusedNeverRuns'
  BY DEF IInv, TypeOK, RefusedNeverRuns, SignLocally, Signed, Goto, End, chainVars
<1>12. SoleInv'
  BY DEF IInv, TypeOK, SoleInv, Sole, SignLocally, Signed, Goto, End, chainVars
<1> QED
  BY <1>1, <1>2, <1>3, <1>4, <1>5, <1>6, <1>7, <1>8, <1>9, <1>10, <1>11, <1>12 DEF IInv

LEMMA PostRequestStep ==
  ASSUME IInv, NEW c \in Calls, PostRequest(c)
  PROVE  IInv'
<1>1. TypeOK'
  <2>1. SignRequest(c, c) \in Request
    BY DEF IInv, TypeOK, CallInv, Request, SignRequest, PostRequest
  <2>2. requests' \subseteq Request
    BY <2>1 DEF IInv, TypeOK, PostRequest, CallbackChannel
  <2> QED
    BY <2>1, <2>2 DEF IInv, TypeOK, Awaits, PostRequest, Goto, chainVars
<1>2. CallInv'
  BY DEF IInv, TypeOK, CallInv, Unsigned, Awaits, PostRequest, SignRequest, CallbackChannel, Goto, chainVars
<1>3. RequestInv'
  BY DEF IInv, TypeOK, RequestInv, PostRequest, SignRequest, CallbackChannel, Goto, chainVars
<1>4. RelayInv'
  BY DEF IInv, TypeOK, RelayInv, PostRequest, SignRequest, CallbackChannel, Goto, chainVars
<1>5. WireInv'
  BY DEF IInv, TypeOK, WireInv, Sent, Awaits, PostRequest, SignRequest, CallbackChannel, Goto, chainVars
<1>6. RanInv'
  BY DEF IInv, TypeOK, RanInv, Sent, Awaits, PostRequest, SignRequest, CallbackChannel, Goto, chainVars
<1>7. AnswerInv'
  BY DEF IInv, TypeOK, AnswerInv, Sent, Awaits, PostRequest, SignRequest, CallbackChannel, Goto, chainVars
<1>8. RanAsReported'
  BY DEF IInv, TypeOK, RanAsReported, PostRequest, SignRequest, CallbackChannel, Goto, chainVars
<1>9. OwnSignatures'
  BY DEF IInv, TypeOK, OwnSignatures, PostRequest, SignRequest, CallbackChannel, Goto, chainVars
<1>10. SuccessRan'
  BY DEF IInv, TypeOK, SuccessRan, PostRequest, SignRequest, CallbackChannel, Goto, chainVars
<1>11. RefusedNeverRuns'
  BY DEF IInv, TypeOK, RefusedNeverRuns, PostRequest, SignRequest, CallbackChannel, Goto, chainVars
<1>12. SoleInv'
  BY DEF IInv, TypeOK, SoleInv, Sole, PostRequest, SignRequest, CallbackChannel, Goto, chainVars
<1> QED
  BY <1>1, <1>2, <1>3, <1>4, <1>5, <1>6, <1>7, <1>8, <1>9, <1>10, <1>11, <1>12 DEF IInv

LEMMA ListenStep ==
  ASSUME IInv, NEW c \in Calls, Listen(c)
  PROVE  IInv'
<1>1. TypeOK'
  BY DEF IInv, TypeOK, Transaction, Args, Request, Message, Heads, Awaits, Listen, Goto, walletVars, chainVars
<1>2. CallInv'
  BY DEF IInv, TypeOK, CallInv, Unsigned, Awaits, Listen, Goto, walletVars, chainVars
<1>3. RequestInv'
  BY DEF IInv, TypeOK, RequestInv, Listen, Goto, walletVars, chainVars
<1>4. RelayInv'
  BY DEF IInv, TypeOK, RelayInv, Listen, Goto, walletVars, chainVars
<1>5. WireInv'
  BY DEF IInv, TypeOK, WireInv, Sent, Awaits, Listen, Goto, walletVars, chainVars
<1>6. RanInv'
  BY DEF IInv, TypeOK, RanInv, Sent, Awaits, Listen, Goto, walletVars, chainVars
<1>7. AnswerInv'
  BY DEF IInv, TypeOK, AnswerInv, Sent, Awaits, Listen, Goto, walletVars, chainVars
<1>8. RanAsReported'
  BY DEF IInv, TypeOK, RanAsReported, Listen, Goto, walletVars, chainVars
<1>9. OwnSignatures'
  BY DEF IInv, TypeOK, OwnSignatures, Listen, Goto, walletVars, chainVars
<1>10. SuccessRan'
  BY DEF IInv, TypeOK, SuccessRan, Listen, Goto, walletVars, chainVars
<1>11. RefusedNeverRuns'
  BY DEF IInv, TypeOK, RefusedNeverRuns, Listen, Goto, walletVars, chainVars
<1>12. SoleInv'
  BY DEF IInv, TypeOK, SoleInv, Sole, Listen, Goto, walletVars, chainVars
<1> QED
  BY <1>1, <1>2, <1>3, <1>4, <1>5, <1>6, <1>7, <1>8, <1>9, <1>10, <1>11, <1>12 DEF IInv

LEMMA AnsweredStep ==
  ASSUME IInv, NEW c \in Calls, Answered(c)
  PROVE  IInv'
<1>1. TypeOK'
  <2>1. PICK m \in relay[c] : IF m.rejected \/ m.tx = None
                              THEN End(c, "wallet") /\ UNCHANGED sigs ELSE Signed(c, m.tx)
    BY DEF Answered, CallbackChannel
  <2>2. m.tx \in Transaction \cup {None}
    BY DEF IInv, TypeOK
  <2>3. CASE m.rejected \/ m.tx = None
    BY <2>1, <2>3 DEF IInv, TypeOK, Awaits, Answered, End, walletVars, chainVars
  <2>4. CASE ~(m.rejected \/ m.tx = None)
    BY <2>1, <2>2, <2>4 DEF IInv, TypeOK, Awaits, Answered, Signed, Goto, End, walletVars, chainVars
  <2> QED
    BY <2>3, <2>4
<1>2. CallInv'
  BY DEF IInv, TypeOK, CallInv, Unsigned, Awaits, Answered, Signed, CallbackChannel, Goto, End, walletVars, chainVars
<1>3. RequestInv'
  BY DEF IInv, TypeOK, RequestInv, Answered, Signed, CallbackChannel, Goto, End, walletVars, chainVars
<1>4. RelayInv'
  BY DEF IInv, TypeOK, RelayInv, Answered, Signed, CallbackChannel, Goto, End, walletVars, chainVars
<1>5. WireInv'
  <2>1. \A m \in wire : m.call # c /\ m.call \in Calls
    BY DEF IInv, TypeOK, Message, WireInv, Sent, Answered
  <2>2. UNCHANGED <<wire, answer, args, tx>>
    BY DEF Answered, Signed, End, chainVars
  <2>3. \A d \in Calls : d # c => pc'[d] = pc[d] /\ sigs'[d] = sigs[d]
    BY DEF IInv, TypeOK, Answered, Signed, Goto, End
  <2> QED
    BY <2>1, <2>2, <2>3 DEF IInv, WireInv
<1>6. RanInv'
  BY DEF IInv, TypeOK, RanInv, Sent, Awaits, Answered, Signed, CallbackChannel, Goto, End, walletVars, chainVars
<1>7. AnswerInv'
  BY DEF IInv, TypeOK, AnswerInv, Sent, Awaits, Answered, Signed, CallbackChannel, Goto, End, walletVars, chainVars
<1>8. RanAsReported'
  BY DEF IInv, TypeOK, RanAsReported, RanInv, Sent, Answered, Signed, CallbackChannel, Goto, End, walletVars, chainVars
<1>9. OwnSignatures'
  BY DEF IInv, TypeOK, OwnSignatures, RelayInv, Answered, Signed, CallbackChannel, Goto, End, walletVars, chainVars
<1>10. SuccessRan'
  BY DEF IInv, TypeOK, SuccessRan, CallInv, Awaits, Answered, Signed, CallbackChannel, Goto, End, walletVars, chainVars
<1>11. RefusedNeverRuns'
  BY DEF IInv, TypeOK, RefusedNeverRuns, Answered, Signed, CallbackChannel, Goto, End, walletVars, chainVars
<1>12. SoleInv'
  BY DEF IInv, TypeOK, SoleInv, Sole, Answered, Signed, CallbackChannel, Goto, End, walletVars, chainVars
<1> QED
  BY <1>1, <1>2, <1>3, <1>4, <1>5, <1>6, <1>7, <1>8, <1>9, <1>10, <1>11, <1>12 DEF IInv

LEMMA ExpireStep ==
  ASSUME IInv, NEW c \in Calls, Expire(c)
  PROVE  IInv'
<1>1. TypeOK'
  BY DEF IInv, TypeOK, Transaction, Args, Request, Message, Heads, Awaits, Expire, End, walletVars, chainVars
<1>2. CallInv'
  BY DEF IInv, TypeOK, CallInv, Unsigned, Awaits, Expire, End, walletVars, chainVars
<1>3. RequestInv'
  BY DEF IInv, TypeOK, RequestInv, Expire, End, walletVars, chainVars
<1>4. RelayInv'
  BY DEF IInv, TypeOK, RelayInv, Expire, End, walletVars, chainVars
<1>5. WireInv'
  BY DEF IInv, TypeOK, WireInv, Sent, Awaits, Expire, End, walletVars, chainVars
<1>6. RanInv'
  BY DEF IInv, TypeOK, RanInv, Sent, Awaits, Expire, End, walletVars, chainVars
<1>7. AnswerInv'
  BY DEF IInv, TypeOK, AnswerInv, Sent, Awaits, Expire, End, walletVars, chainVars
<1>8. RanAsReported'
  BY DEF IInv, TypeOK, RanAsReported, RanInv, Sent, Expire, End, walletVars, chainVars
<1>9. OwnSignatures'
  BY DEF IInv, TypeOK, OwnSignatures, Expire, End, walletVars, chainVars
<1>10. SuccessRan'
  BY DEF IInv, TypeOK, SuccessRan, Expire, End, walletVars, chainVars
<1>11. RefusedNeverRuns'
  BY DEF IInv, TypeOK, RefusedNeverRuns, Expire, End, walletVars, chainVars
<1>12. SoleInv'
  BY DEF IInv, TypeOK, SoleInv, Sole, Expire, End, walletVars, chainVars
<1> QED
  BY <1>1, <1>2, <1>3, <1>4, <1>5, <1>6, <1>7, <1>8, <1>9, <1>10, <1>11, <1>12 DEF IInv

LEMMA SendStep ==
  ASSUME IInv, NEW c \in Calls, Send(c)
  PROVE  IInv'
<1>1. TypeOK'
  BY DEF IInv, TypeOK, Transaction, Args, Request, Message, Heads, Awaits, Send, SendTo, Goto, walletVars
<1>2. CallInv'
  BY DEF IInv, TypeOK, CallInv, Unsigned, Awaits, Send, Goto, walletVars
<1>3. RequestInv'
  BY DEF IInv, TypeOK, RequestInv, Send, Goto, walletVars
<1>4. RelayInv'
  BY DEF IInv, TypeOK, RelayInv, Send, Goto, walletVars
<1>5. WireInv'
  <2>1. \A m \in wire' : m \in wire \/ (m.call = c /\ m.tx = tx[c] /\ m.sigs = sigs[c])
    BY DEF Send, SendTo
  <2> QED
    BY <2>1 DEF IInv, TypeOK, WireInv, Sent, Awaits, Send, Goto
<1>6. RanInv'
  BY DEF IInv, TypeOK, RanInv, Sent, Awaits, Send, Goto, walletVars
<1>7. AnswerInv'
  BY DEF IInv, TypeOK, AnswerInv, Sent, Awaits, Send, Goto, walletVars
<1>8. RanAsReported'
  BY DEF IInv, TypeOK, RanAsReported, Send, Goto, walletVars
<1>9. OwnSignatures'
  BY DEF IInv, TypeOK, OwnSignatures, Send, Goto, walletVars
<1>10. SuccessRan'
  BY DEF IInv, TypeOK, SuccessRan, Send, Goto, walletVars
<1>11. RefusedNeverRuns'
  <2>1. result'[c] = "none" /\ result' = result /\ UNCHANGED <<lost, ran>>
    BY DEF IInv, TypeOK, CallInv, Awaits, Send, Goto
  <2>2. \A m \in wire' : m \in wire \/ m.call = c
    BY DEF Send, SendTo
  <2> QED
    BY <2>1, <2>2 DEF IInv, RefusedNeverRuns
<1>12. SoleInv'
  <2>1. \A m \in wire : m.call # c /\ m.call \in Calls
    BY DEF IInv, TypeOK, Message, WireInv, Sent, Send
  <2>2. \A r \in ran : r.call # c
    BY DEF IInv, RanInv, Sent, Send
  <2>3. answer[c] = None
    BY DEF IInv, AnswerInv, Sent, Send
  <2>4. \A m \in wire' : m \in wire \/ (m.call = c /\ m.endpoint = "v2")
    BY DEF Send, SendTo
  <2>5. pc'[c] = "send" /\ (\A d \in Calls : d # c => pc'[d] = pc[d]) /\ wire \subseteq wire'
    BY DEF IInv, TypeOK, Send, Goto
  <2>6. UNCHANGED <<answer, lost, ran>>
    BY DEF Send
  <2>7. Sole(c)'
    BY <2>1, <2>2, <2>3, <2>4, <2>5, <2>6 DEF Sole
  <2>8. ASSUME NEW d \in Calls, d # c, Sole(d) PROVE Sole(d)'
    BY <2>1, <2>4, <2>5, <2>6, <2>8 DEF Sole
  <2> QED
    BY <2>5, <2>6, <2>7, <2>8 DEF IInv, SoleInv
<1> QED
  BY <1>1, <1>2, <1>3, <1>4, <1>5, <1>6, <1>7, <1>8, <1>9, <1>10, <1>11, <1>12 DEF IInv

LEMMA SkipBroadcastStep ==
  ASSUME IInv, NEW c \in Calls, SkipBroadcast(c)
  PROVE  IInv'
<1>1. TypeOK'
  BY DEF IInv, TypeOK, Transaction, Args, Request, Message, Heads, Awaits, SkipBroadcast, Goto, walletVars, chainVars
<1>2. CallInv'
  BY DEF IInv, TypeOK, CallInv, Unsigned, Awaits, SkipBroadcast, Goto, walletVars, chainVars
<1>3. RequestInv'
  BY DEF IInv, TypeOK, RequestInv, SkipBroadcast, Goto, walletVars, chainVars
<1>4. RelayInv'
  BY DEF IInv, TypeOK, RelayInv, SkipBroadcast, Goto, walletVars, chainVars
<1>5. WireInv'
  BY DEF IInv, TypeOK, WireInv, Sent, Awaits, SkipBroadcast, Goto, walletVars, chainVars
<1>6. RanInv'
  BY DEF IInv, TypeOK, RanInv, Sent, Awaits, SkipBroadcast, Goto, walletVars, chainVars
<1>7. AnswerInv'
  BY DEF IInv, TypeOK, AnswerInv, Sent, Awaits, SkipBroadcast, Goto, walletVars, chainVars
<1>8. RanAsReported'
  BY DEF IInv, TypeOK, RanAsReported, SkipBroadcast, Goto, walletVars, chainVars
<1>9. OwnSignatures'
  BY DEF IInv, TypeOK, OwnSignatures, SkipBroadcast, Goto, walletVars, chainVars
<1>10. SuccessRan'
  BY DEF IInv, TypeOK, SuccessRan, SkipBroadcast, Goto, walletVars, chainVars
<1>11. RefusedNeverRuns'
  BY DEF IInv, TypeOK, RefusedNeverRuns, SkipBroadcast, Goto, walletVars, chainVars
<1>12. SoleInv'
  BY DEF IInv, TypeOK, SoleInv, Sole, SkipBroadcast, Goto, walletVars, chainVars
<1> QED
  BY <1>1, <1>2, <1>3, <1>4, <1>5, <1>6, <1>7, <1>8, <1>9, <1>10, <1>11, <1>12 DEF IInv

LEMMA SendAnsweredStep ==
  ASSUME IInv, NEW c \in Calls, SendAnswered(c)
  PROVE  IInv'
<1>1. TypeOK'
  BY DEF IInv, TypeOK, Awaits, SendAnswered, Goto, walletVars, chainVars
<1>2. CallInv'
  BY DEF IInv, TypeOK, CallInv, Unsigned, Awaits, SendAnswered, Goto, walletVars, chainVars
<1>3. RequestInv'
  BY DEF IInv, TypeOK, RequestInv, SendAnswered, Goto, walletVars, chainVars
<1>4. RelayInv'
  BY DEF IInv, TypeOK, RelayInv, SendAnswered, Goto, walletVars, chainVars
<1>5. WireInv'
  BY DEF IInv, TypeOK, WireInv, Sent, Awaits, SendAnswered, Goto, walletVars, chainVars
<1>6. RanInv'
  BY NoneAssumption DEF IInv, TypeOK, RanInv, Sent, Awaits, SendAnswered, Goto, walletVars, chainVars
<1>7. AnswerInv'
  BY NoneAssumption DEF IInv, TypeOK, AnswerInv, Sent, Awaits, RanInv, SendAnswered, Goto, walletVars, chainVars
<1>8. RanAsReported'
  BY DEF IInv, TypeOK, RanAsReported, SendAnswered, Goto, walletVars, chainVars
<1>9. OwnSignatures'
  BY DEF IInv, TypeOK, OwnSignatures, SendAnswered, Goto, walletVars, chainVars
<1>10. SuccessRan'
  BY DEF IInv, TypeOK, SuccessRan, SendAnswered, Goto, walletVars, chainVars
<1>11. RefusedNeverRuns'
  BY DEF IInv, TypeOK, RefusedNeverRuns, SendAnswered, Goto, walletVars, chainVars
<1>12. SoleInv'
  BY DEF IInv, TypeOK, SoleInv, Sole, SendAnswered, Goto, walletVars, chainVars
<1> QED
  BY <1>1, <1>2, <1>3, <1>4, <1>5, <1>6, <1>7, <1>8, <1>9, <1>10, <1>11, <1>12 DEF IInv

LEMMA SendFailsStep ==
  ASSUME IInv, NEW c \in Calls, SendFails(c)
  PROVE  IInv'
<1> DEFINE Falls == pc[c] = "send" /\ Resend(c)
           Stops == End(c, "broadcast") /\ UNCHANGED <<wallet, args, tx, sigs, walletVars,
                                                       wire, answer, v2, head, ran>>
<1>a. Falls \/ Stops
  BY DEF SendFails
<1>b. /\ pc[c] \in {"send", "resend"} /\ pc'[c] \in {"resend", "done"}
      /\ \A d \in Calls : d # c => pc'[d] = pc[d] /\ lost'[d] = lost[d] /\ answer'[d] = answer[d]
      /\ ~lost'[c] => ~lost[c] /\ answer[c] = "refused"
      /\ UNCHANGED <<wallet, args, tx, sigs, requests, relay, signed, v2, head, ran>>
  BY <1>a DEF IInv, TypeOK, Awaits, SendFails, Resend, Goto, End, walletVars
<1>c. \A m \in wire' : m \in wire \/ (m.call = c /\ m.tx = tx[c] /\ m.sigs = sigs[c] /\ m.endpoint = "v1")
  BY <1>a DEF Resend, SendTo
<1>d. \A m \in wire : m.call \in Calls
  BY DEF IInv, TypeOK, Message
<1>1. TypeOK'
  <2>1. lost' \in [Calls -> BOOLEAN]
    BY DEF IInv, TypeOK, SendFails
  <2>2. CASE Stops
    BY <2>1, <2>2 DEF IInv, TypeOK, Awaits, End, walletVars
  <2>3. CASE Falls
    <3>1. tx[c] \in Transaction /\ sigs[c] \in Transaction
      BY <2>3 DEF IInv, TypeOK, Awaits
    <3>2. wire' \subseteq Message
      BY <2>3, <3>1 DEF IInv, TypeOK, Message, Resend, SendTo
    <3> QED
      BY <2>1, <2>3, <3>2 DEF IInv, TypeOK, Awaits, Resend, Goto, walletVars
  <2> QED
    BY <1>a, <2>2, <2>3
<1>2. CallInv'
  BY <1>a, <1>b DEF IInv, TypeOK, CallInv, Unsigned, Resend, Goto, End
<1>3. RequestInv'
  BY <1>b DEF IInv, RequestInv
<1>4. RelayInv'
  BY <1>b DEF IInv, RelayInv
<1>5. WireInv'
  BY <1>b, <1>c, <1>d DEF IInv, WireInv, AnswerInv, Sent
<1>6. RanInv'
  BY <1>b DEF IInv, TypeOK, RanInv, Sent
<1>7. AnswerInv'
  <2>1. answer'[c] = None \/ answer'[c] = answer[c]
    BY <1>a DEF IInv, TypeOK, Resend
  <2> QED
    BY <1>b, <2>1, NoneAssumption DEF IInv, TypeOK, AnswerInv, Sent
<1>8. RanAsReported'
  BY <1>a, <1>b DEF IInv, TypeOK, RanAsReported, Resend, Goto, End
<1>9. OwnSignatures'
  BY <1>b DEF IInv, OwnSignatures
<1>10. SuccessRan'
  BY <1>a, <1>b DEF IInv, TypeOK, SuccessRan, Resend, Goto, End
<1>11. RefusedNeverRuns'
  <2>1. ASSUME NEW d \in Calls, result'[d] = "broadcast", ~lost'[d]
        PROVE  (\A r \in ran' : r.call # d) /\ (\A m \in wire' : m.call # d)
    <3>1. CASE d # c
      <4>1. result'[d] = result[d]
        BY <1>a, <3>1 DEF IInv, TypeOK, Resend, Goto, End
      <4> QED
        BY <1>b, <1>c, <2>1, <3>1, <4>1 DEF IInv, RefusedNeverRuns
    <3>2. CASE d = c
      <4>1. Stops
        BY <1>a, <1>b, <2>1, <3>2 DEF IInv, TypeOK, CallInv, Resend, Goto
      <4>2. Sole(c) /\ answer[c] = "refused"
        BY <1>b, <2>1, <3>2 DEF IInv, SoleInv
      <4> QED
        BY <1>b, <3>2, <4>1, <4>2, NoneAssumption DEF Sole
    <3> QED
      BY <3>1, <3>2
  <2> QED
    BY <2>1 DEF RefusedNeverRuns
<1>12. SoleInv'
  <2>1. ASSUME NEW d \in Calls, d # c, Sole(d) PROVE Sole(d)'
    BY <1>b, <1>c, <2>1 DEF Sole
  <2>2. ASSUME ~lost'[c], pc'[c] = "resend" PROVE Sole(c)'
    <3>1. Falls
      BY <1>a, <1>b, <2>2 DEF IInv, TypeOK, End
    <3>2. Sole(c) /\ answer[c] = "refused"
      BY <1>b, <2>2 DEF IInv, SoleInv
    <3>3. answer'[c] = None
      BY <3>1 DEF IInv, TypeOK, Resend
    <3> QED
      BY <1>b, <1>c, <2>2, <3>2, <3>3, NoneAssumption DEF Sole
  <2> QED
    BY <1>b, <2>1, <2>2 DEF IInv, SoleInv
<1> QED
  BY <1>1, <1>2, <1>3, <1>4, <1>5, <1>6, <1>7, <1>8, <1>9, <1>10, <1>11, <1>12 DEF IInv

LEMMA FinishStep ==
  ASSUME IInv, NEW c \in Calls, Finish(c)
  PROVE  IInv'
<1>1. TypeOK'
  BY DEF IInv, TypeOK, Transaction, Args, Request, Message, Heads, Awaits, Finish, End, walletVars, chainVars
<1>2. CallInv'
  BY DEF IInv, TypeOK, CallInv, Unsigned, Awaits, Finish, End, walletVars, chainVars
<1>3. RequestInv'
  BY DEF IInv, TypeOK, RequestInv, Finish, End, walletVars, chainVars
<1>4. RelayInv'
  BY DEF IInv, TypeOK, RelayInv, Finish, End, walletVars, chainVars
<1>5. WireInv'
  BY DEF IInv, TypeOK, WireInv, Sent, Awaits, Finish, End, walletVars, chainVars
<1>6. RanInv'
  BY DEF IInv, TypeOK, RanInv, Sent, Awaits, Finish, End, walletVars, chainVars
<1>7. AnswerInv'
  BY DEF IInv, TypeOK, AnswerInv, Sent, Awaits, Finish, End, walletVars, chainVars
<1>8. RanAsReported'
  BY DEF IInv, TypeOK, RanAsReported, Finish, End, walletVars, chainVars
<1>9. OwnSignatures'
  BY DEF IInv, TypeOK, OwnSignatures, Finish, End, walletVars, chainVars
<1>10. SuccessRan'
  BY DEF IInv, TypeOK, SuccessRan, AnswerInv, Finish, End, walletVars, chainVars
<1>11. RefusedNeverRuns'
  BY DEF IInv, TypeOK, RefusedNeverRuns, Finish, End, walletVars, chainVars
<1>12. SoleInv'
  BY DEF IInv, TypeOK, SoleInv, Sole, Finish, End, walletVars, chainVars
<1> QED
  BY <1>1, <1>2, <1>3, <1>4, <1>5, <1>6, <1>7, <1>8, <1>9, <1>10, <1>11, <1>12 DEF IInv

LEMMA FailsStep ==
  ASSUME IInv, NEW c \in Calls, Fails(c)
  PROVE  IInv'
<1>1. TypeOK'
  BY DEF IInv, TypeOK, Transaction, Args, Request, Message, Heads, Awaits, Fails, End, walletVars, chainVars
<1>2. CallInv'
  BY DEF IInv, TypeOK, CallInv, Unsigned, Awaits, Fails, End, walletVars, chainVars
<1>3. RequestInv'
  BY DEF IInv, TypeOK, RequestInv, Fails, End, walletVars, chainVars
<1>4. RelayInv'
  BY DEF IInv, TypeOK, RelayInv, Fails, End, walletVars, chainVars
<1>5. WireInv'
  <2>1. UNCHANGED <<wire, args, tx, sigs>>
    BY DEF Fails, chainVars
  <2>2. \A d \in Calls : pc'[d] = pc[d] \/ pc'[d] = "done"
    BY DEF IInv, TypeOK, Fails, End
  <2> QED
    BY <2>1, <2>2 DEF IInv, TypeOK, Message, WireInv, Sent
<1>6. RanInv'
  BY DEF IInv, TypeOK, RanInv, Sent, Awaits, Fails, End, walletVars, chainVars
<1>7. AnswerInv'
  BY DEF IInv, TypeOK, AnswerInv, Sent, Awaits, Fails, End, walletVars, chainVars
<1>8. RanAsReported'
  BY DEF IInv, TypeOK, RanAsReported, RanInv, Sent, Fails, End, walletVars, chainVars
<1>9. OwnSignatures'
  BY DEF IInv, TypeOK, OwnSignatures, Fails, End, walletVars, chainVars
<1>10. SuccessRan'
  BY DEF IInv, TypeOK, SuccessRan, Fails, End, walletVars, chainVars
<1>11. RefusedNeverRuns'
  BY DEF IInv, TypeOK, RefusedNeverRuns, Fails, End, walletVars, chainVars
<1>12. SoleInv'
  BY DEF IInv, TypeOK, SoleInv, Sole, Fails, End, walletVars, chainVars
<1> QED
  BY <1>1, <1>2, <1>3, <1>4, <1>5, <1>6, <1>7, <1>8, <1>9, <1>10, <1>11, <1>12 DEF IInv

LEMMA WalletApprovesStep ==
  ASSUME IInv, NEW r \in requests, WalletApproves(r)
  PROVE  IInv'
<1>1. TypeOK'
  <2>1. [payload |-> r.payload, ref |-> head] \in Transaction /\ r.call \in Calls /\ r.channel \in Calls
    BY DEF IInv, TypeOK, Request, Transaction
  <2>2. signed' \subseteq [call : Calls, tx : Transaction] /\ ran' \subseteq [call : Calls, tx : Transaction]
    BY <2>1 DEF IInv, TypeOK, WalletApproves
  <2> DEFINE answers == relay[r.channel] \cup
               {[rejected |-> FALSE, tx |-> [payload |-> r.payload, ref |-> head]]}
  <2>4. answers \in SUBSET [rejected : BOOLEAN, tx : Transaction \cup {None}]
    <3>1. relay[r.channel] \in SUBSET [rejected : BOOLEAN, tx : Transaction \cup {None}]
      BY <2>1 DEF IInv, TypeOK
    <3>2. [rejected |-> FALSE, tx |-> [payload |-> r.payload, ref |-> head]]
            \in [rejected : BOOLEAN, tx : Transaction \cup {None}]
      BY <2>1
    <3> QED
      BY <3>1, <3>2
  <2>5. relay' = [relay EXCEPT ![r.channel] = answers]
    BY DEF WalletApproves
  <2>6. relay' \in [Calls -> SUBSET [rejected : BOOLEAN, tx : Transaction \cup {None}]]
    <3> HIDE DEF answers
    <3> QED
      BY <2>4, <2>5 DEF IInv, TypeOK
  <2> QED
    BY <2>1, <2>2, <2>6 DEF IInv, TypeOK, WalletApproves
<1>2. CallInv'
  BY DEF IInv, TypeOK, CallInv, Unsigned, Awaits, WalletApproves
<1>3. RequestInv'
  BY DEF IInv, TypeOK, RequestInv, WalletApproves
<1>4. RelayInv'
  BY DEF IInv, TypeOK, RelayInv, RequestInv, Request, WalletApproves
<1>5. WireInv'
  BY DEF IInv, TypeOK, WireInv, Sent, Awaits, WalletApproves
<1>6. RanInv'
  BY DEF IInv, TypeOK, RanInv, Sent, Awaits, RequestInv, WalletApproves
<1>7. AnswerInv'
  BY DEF IInv, TypeOK, AnswerInv, Sent, Awaits, RequestInv, WalletApproves
<1>8. RanAsReported'
  BY DEF IInv, TypeOK, RanAsReported, RequestInv, WalletApproves
<1>9. OwnSignatures'
  BY DEF IInv, TypeOK, OwnSignatures, WalletApproves
<1>10. SuccessRan'
  BY DEF IInv, TypeOK, SuccessRan, RequestInv, WalletApproves
<1>11. RefusedNeverRuns'
  BY DEF IInv, TypeOK, RefusedNeverRuns, RequestInv, WalletApproves
<1>12. SoleInv'
  BY DEF IInv, SoleInv, Sole, RequestInv, WalletApproves
<1> QED
  BY <1>1, <1>2, <1>3, <1>4, <1>5, <1>6, <1>7, <1>8, <1>9, <1>10, <1>11, <1>12 DEF IInv

LEMMA WalletRejectsStep ==
  ASSUME IInv, NEW r \in requests, WalletRejects(r)
  PROVE  IInv'
<1>1. TypeOK'
  BY DEF IInv, TypeOK, Transaction, Args, Request, Message, Heads, Awaits, WalletRejects, chainVars
<1>2. CallInv'
  BY DEF IInv, TypeOK, CallInv, Unsigned, Awaits, WalletRejects, chainVars
<1>3. RequestInv'
  BY DEF IInv, TypeOK, RequestInv, WalletRejects, chainVars
<1>4. RelayInv'
  BY DEF IInv, TypeOK, RelayInv, WalletRejects, chainVars
<1>5. WireInv'
  BY DEF IInv, TypeOK, WireInv, Sent, Awaits, WalletRejects, chainVars
<1>6. RanInv'
  BY DEF IInv, TypeOK, RanInv, Sent, Awaits, WalletRejects, chainVars
<1>7. AnswerInv'
  BY DEF IInv, TypeOK, AnswerInv, Sent, Awaits, WalletRejects, chainVars
<1>8. RanAsReported'
  BY DEF IInv, TypeOK, RanAsReported, WalletRejects, chainVars
<1>9. OwnSignatures'
  BY DEF IInv, TypeOK, OwnSignatures, WalletRejects, chainVars
<1>10. SuccessRan'
  BY DEF IInv, TypeOK, SuccessRan, WalletRejects, chainVars
<1>11. RefusedNeverRuns'
  BY DEF IInv, TypeOK, RefusedNeverRuns, WalletRejects, chainVars
<1>12. SoleInv'
  BY DEF IInv, TypeOK, SoleInv, Sole, WalletRejects, chainVars
<1> QED
  BY <1>1, <1>2, <1>3, <1>4, <1>5, <1>6, <1>7, <1>8, <1>9, <1>10, <1>11, <1>12 DEF IInv

LEMMA NodeProcessesStep ==
  ASSUME IInv, NEW m \in wire, NodeProcesses(m)
  PROVE  IInv'
<1>1. TypeOK'
  BY DEF IInv, TypeOK, Transaction, Args, Request, Message, Heads, Awaits, NodeProcesses, Runnable, Awaited, walletVars
<1>2. CallInv'
  BY DEF IInv, TypeOK, CallInv, Unsigned, Awaits, NodeProcesses, Runnable, walletVars
<1>3. RequestInv'
  BY DEF IInv, TypeOK, RequestInv, NodeProcesses, Runnable, walletVars
<1>4. RelayInv'
  BY DEF IInv, TypeOK, RelayInv, NodeProcesses, Runnable, walletVars
<1>a. m.call \in Calls /\ m.tx = tx[m.call] /\ pc[m.call] \in Sent
  BY DEF IInv, TypeOK, Message, WireInv
<1>b. UNCHANGED <<pc, args, tx, sigs, result, lost>> /\ wire' \subseteq wire
  BY DEF NodeProcesses
<1>c. \A d \in Calls : d # m.call => answer'[d] = answer[d]
  BY DEF IInv, TypeOK, NodeProcesses
<1>d. ran' = ran \/ ran' = ran \cup {[call |-> m.call, tx |-> m.tx]}
  BY DEF NodeProcesses
<1>5. WireInv'
  BY <1>b DEF IInv, WireInv
<1>6. RanInv'
  BY <1>a, <1>b, <1>d DEF IInv, RanInv
<1>7. AnswerInv'
  <2>1. answer'[m.call] = "accepted" => answer[m.call] = "accepted" \/ [call |-> m.call, tx |-> m.tx] \in ran'
    BY <1>a DEF IInv, TypeOK, NodeProcesses
  <2> QED
    BY <1>a, <1>b, <1>c, <1>d, <2>1 DEF IInv, AnswerInv
<1>8. RanAsReported'
  <2>1. \A r \in ran' : r \in ran \/ (r = [call |-> m.call, tx |-> m.tx] /\ m.sigs = m.tx)
    BY DEF NodeProcesses, Runnable
  <2>2. m.sigs = m.tx => [call |-> m.call, tx |-> m.tx] \in signed
    BY NoneAssumption DEF IInv, TypeOK, Message, WireInv, OwnSignatures
  <2>3. sigs[m.call] # None
    BY NoneAssumption DEF IInv, TypeOK, Message, WireInv
  <2>4. result[m.call] # "wallet"
    BY <1>a, <2>3 DEF IInv, CallInv
  <2>5. ASSUME NEW r \in ran'
        PROVE  /\ args[r.call].broadcast /\ r.tx = tx[r.call]
               /\ sigs[r.call] = tx[r.call] /\ r \in signed /\ result[r.call] # "wallet"
    BY <1>a, <2>1, <2>2, <2>4 DEF IInv, RanAsReported, WireInv
  <2>6. UNCHANGED signed
    BY DEF NodeProcesses, walletVars
  <2> QED
    BY <1>b, <2>5, <2>6 DEF RanAsReported
<1>9. OwnSignatures'
  BY DEF IInv, TypeOK, OwnSignatures, NodeProcesses, Runnable, walletVars
<1>10. SuccessRan'
  BY DEF IInv, TypeOK, SuccessRan, NodeProcesses, Runnable, walletVars
<1>11. RefusedNeverRuns'
  BY <1>b, <1>d DEF IInv, RefusedNeverRuns
<1>12. SoleInv'
  <2>1. ASSUME NEW d \in Calls, d # m.call, Sole(d) PROVE Sole(d)'
    BY <1>b, <1>c, <1>d, <2>1 DEF Sole
  <2>2. ASSUME ~lost[m.call], pc[m.call] \in {"send", "resend"} PROVE Sole(m.call)'
    <3>1. Sole(m.call)
      BY <1>a, <2>2 DEF IInv, SoleInv
    <3>2. Awaited(m) /\ answer[m.call] = None
      BY <2>2, <3>1 DEF Sole, Awaited
    <3>3. \A r \in ran : r.call # m.call
      BY <3>1, <3>2, NoneAssumption DEF Sole
    <3>4. \A n \in wire : n.call = m.call => n = m
      BY <3>1 DEF IInv, TypeOK, WireInv, Message, Sole
    <3>5. \A n \in wire' : n.call # m.call
      BY <3>4 DEF NodeProcesses
    <3>6. ran' # ran => answer'[m.call] = "accepted"
      BY <1>a, <3>2 DEF IInv, TypeOK, NodeProcesses
    <3> QED
      BY <1>b, <3>3, <3>5, <3>6 DEF Sole
  <2> QED
    BY <1>b, <2>1, <2>2 DEF IInv, SoleInv
<1> QED
  BY <1>1, <1>2, <1>3, <1>4, <1>5, <1>6, <1>7, <1>8, <1>9, <1>10, <1>11, <1>12 DEF IInv

LEMMA NextBlockStep ==
  ASSUME IInv, NextBlock
  PROVE  IInv'
<1>1. TypeOK'
  BY NaturalsAssumption DEF IInv, TypeOK, Transaction, Args, Request, Message, Heads, Awaits, NextBlock, walletVars
<1>2. CallInv'
  BY DEF IInv, TypeOK, CallInv, Unsigned, Awaits, NextBlock, walletVars
<1>3. RequestInv'
  BY DEF IInv, TypeOK, RequestInv, NextBlock, walletVars
<1>4. RelayInv'
  BY DEF IInv, TypeOK, RelayInv, NextBlock, walletVars
<1>5. WireInv'
  BY DEF IInv, TypeOK, WireInv, Sent, Awaits, NextBlock, walletVars
<1>6. RanInv'
  BY DEF IInv, TypeOK, RanInv, Sent, Awaits, NextBlock, walletVars
<1>7. AnswerInv'
  BY DEF IInv, TypeOK, AnswerInv, Sent, Awaits, NextBlock, walletVars
<1>8. RanAsReported'
  BY DEF IInv, TypeOK, RanAsReported, NextBlock, walletVars
<1>9. OwnSignatures'
  BY DEF IInv, TypeOK, OwnSignatures, NextBlock, walletVars
<1>10. SuccessRan'
  BY DEF IInv, TypeOK, SuccessRan, NextBlock, walletVars
<1>11. RefusedNeverRuns'
  BY DEF IInv, TypeOK, RefusedNeverRuns, NextBlock, walletVars
<1>12. SoleInv'
  BY DEF IInv, TypeOK, SoleInv, Sole, NextBlock, walletVars
<1> QED
  BY <1>1, <1>2, <1>3, <1>4, <1>5, <1>6, <1>7, <1>8, <1>9, <1>10, <1>11, <1>12 DEF IInv

LEMMA InvInit == Init => IInv
  BY NaturalsAssumption, NoneAssumption
  DEF Init, IInv, TypeOK, Args, Request, Message, Heads, Awaits, CallInv, Unsigned, RequestInv, RelayInv,
      WireInv, RanInv, AnswerInv, SoleInv, Sole, RanAsReported, OwnSignatures, SuccessRan, RefusedNeverRuns

LEMMA InvStep == IInv /\ [Next]_vars => IInv'
<1> SUFFICES ASSUME IInv, [Next]_vars PROVE IInv'
  OBVIOUS
<1>1. CASE External
  BY <1>1, WalletApprovesStep, WalletRejectsStep, NodeProcessesStep, NextBlockStep DEF External
<1>2. ASSUME NEW c \in Calls, Call(c) PROVE IInv'
  BY <1>2, BeginStep, BeginSignStep, ResolveAtHeadStep, SignLocallyStep, PostRequestStep, ListenStep, AnsweredStep,
     ExpireStep, SendStep, SkipBroadcastStep, SendAnsweredStep, SendFailsStep, FinishStep, FailsStep
  DEF Call
<1>3. CASE UNCHANGED vars
  BY <1>3 DEF vars, walletVars, chainVars, IInv, TypeOK, CallInv, Unsigned, RequestInv, RelayInv, WireInv,
     RanInv, AnswerInv, SoleInv, Sole, RanAsReported, OwnSignatures, SuccessRan, RefusedNeverRuns
<1> QED
  BY <1>1, <1>2, <1>3 DEF Next, Terminated

THEOREM Inductive == Spec => []IInv
  BY InvInit, InvStep, PTL DEF Spec

\* Every variable keeps its shape, and a call has what it needs where it needs it.
THEOREM Typed == Spec => []TypeOK
<1>1. IInv => TypeOK
  BY DEF IInv
<1> QED
  BY <1>1, Inductive, PTL

\* What runs on the chain runs for a call told to broadcast, with its own
\* transaction and the wallet's signatures for it, and not for one that blames
\* the wallet.
THEOREM ChainAgrees == Spec => []RanAsReported
<1>1. IInv => RanAsReported
  BY DEF IInv
<1> QED
  BY <1>1, Inductive, PTL

\* The signatures of a call were given for that call.
THEOREM SignaturesBelong == Spec => []OwnSignatures
<1>1. IInv => OwnSignatures
  BY DEF IInv
<1> QED
  BY <1>1, Inductive, PTL

\* A call that broadcast and succeeded has run.
THEOREM SuccessMeansRan == Spec => []SuccessRan
<1>1. IInv => SuccessRan
  BY DEF IInv
<1> QED
  BY <1>1, Inductive, PTL

\* A call whose every request the node refused has run none of them and will
\* run none.
THEOREM RefusalIsFinal == Spec => []RefusedNeverRuns
<1>1. IInv => RefusedNeverRuns
  BY DEF IInv
<1> QED
  BY <1>1, Inductive, PTL
=============================================================================
