------------------------- MODULE AnchorLoginProofs -------------------------
(***************************************************************************)
(* What holds of any number of logins, callbacks, accounts and keys.       *)
(***************************************************************************)
EXTENDS AnchorLogin, TLAPS

\* A callback under check is for the chain asked for, and what the node said
\* of its account was so while the login ran.
LoginInv(o) ==
  /\ pc[o] # "done" => result[o] = "none"
  /\ o \in cancelled \cup elapsed => pc[o] = "wait"
  /\ pc[o] \in {"wait", "lookup", "verify"} => AllKeys(keys) \subseteq valid[o]
  /\ pc[o] \in {"lookup", "verify"} => got[o].chain = chain[o]
  /\ pc[o] = "verify" => {got[o].account} \X seen[o] \subseteq valid[o]

IInv ==
  /\ TypeOK
  /\ \A o \in Ops : LoginInv(o)
  /\ LinkFromSuccess
  /\ OkIsCurrent

-----------------------------------------------------------------------------
(* Types *)

LEMMA TypeInit == Init => TypeOK
<1>. SUFFICES ASSUME Init PROVE TypeOK
  OBVIOUS
<1>. USE DEF Init
<1>1. data \in Channel
  BY DEF Channel, Empty, Maybe
<1>. QED
  BY <1>1 DEF TypeOK, Results

\* The data of the plugin keep their shape.
LEMMA ChannelSteps ==
  ASSUME NEW d \in Channel, NEW o \in Ops
  PROVE  WithKeypair(d, o) \in Channel /\ \A link : WithLink(d, o, link) \in Channel
  BY DEF Channel, Maybe, WithKeypair, WithLink

LEMMA EndType ==
  ASSUME TypeOK, NEW o \in Ops, NEW r \in Results, End(o, r)
  PROVE  /\ pc' \in [Ops -> {"idle", "wait", "lookup", "verify", "done"}]
         /\ result' \in [Ops -> Results]
         /\ seen' \in [Ops -> SUBSET Keys]
         /\ \A p \in Ops : pc'[p] \in {"lookup", "verify"} => pc'[p] = pc[p]
  BY DEF TypeOK, End

LEMMA StopWaitingType ==
  ASSUME TypeOK, NEW o \in Ops, StopWaiting(o)
  PROVE  /\ cancelled' \subseteq Ops /\ elapsed' \subseteq Ops /\ connected' \subseteq Ops
         /\ mail' \in [Ops -> Callbacks \cup {None}]
  BY DEF TypeOK, StopWaiting

LEMMA LeaveType ==
  ASSUME TypeOK, NEW o \in Ops, NEW r \in Results, Leave(o, r)
  PROVE  TypeOK'
<1>1. End(o, r) /\ StopWaiting(o)
  BY DEF Leave
<1>2. /\ pc' \in [Ops -> {"idle", "wait", "lookup", "verify", "done"}]
      /\ result' \in [Ops -> Results]
      /\ seen' \in [Ops -> SUBSET Keys]
      /\ \A p \in Ops : pc'[p] \in {"lookup", "verify"} => pc'[p] = pc[p]
  BY <1>1, EndType
<1>3. /\ cancelled' \subseteq Ops /\ elapsed' \subseteq Ops /\ connected' \subseteq Ops
      /\ mail' \in [Ops -> Callbacks \cup {None}]
  BY <1>1, StopWaitingType
<1>. QED
  BY <1>2, <1>3 DEF TypeOK, Leave

LEMMA LoginType ==
  ASSUME TypeOK, NEW o \in Ops, Login(o)
  PROVE  TypeOK'
<1>1. ASSUME NEW c \in Chains, Begin(o, c) PROVE TypeOK'
  <2>1. data' \in Channel
    BY <1>1, ChannelSteps DEF TypeOK, Begin
  <2>2. valid' \in [Ops -> SUBSET (Accounts \X Keys)]
    BY <1>1 DEF TypeOK, Begin, AllKeys
  <2>. QED
    BY <1>1, <2>1, <2>2 DEF TypeOK, Begin, waitVars
<1>2. CASE BeginFails(o)
  BY <1>2, EndType DEF TypeOK, BeginFails, waitVars, Results
<1>3. CASE Cancelled(o) \/ Expired(o) \/ StreamFails(o) \/ PromptReturns(o) \/ Dropped(o)
  <2>1. PICK r \in Results : Leave(o, r)
    BY <1>3 DEF Cancelled, Expired, StreamFails, PromptReturns, Dropped, Results
  <2>. QED
    BY <2>1, LeaveType
<1>4. CASE TakeCallback(o)
  <2>. USE <1>4 DEF TakeCallback
  <2>1. mail[o] \in Callbacks /\ mail[o] # None
    BY DEF TypeOK, Answered
  <2>2. /\ cancelled' \subseteq Ops /\ elapsed' \subseteq Ops /\ connected' \subseteq Ops
        /\ mail' \in [Ops -> Callbacks \cup {None}]
    BY StopWaitingType
  <2>3. got' \in [Ops -> Callbacks \cup {None}]
    BY <2>1 DEF TypeOK
  <2>4. /\ pc' \in [Ops -> {"idle", "wait", "lookup", "verify", "done"}]
        /\ result' \in [Ops -> Results] /\ seen' \in [Ops -> SUBSET Keys]
    BY DEF TypeOK, End, Results
  <2>5. ASSUME NEW p \in Ops, pc'[p] \in {"lookup", "verify"} PROVE got'[p] # None
    BY <2>1, <2>5 DEF TypeOK, End
  <2>. QED
    BY <2>2, <2>3, <2>4, <2>5 DEF TypeOK
<1>5. CASE AccountRead(o)
  <2>. USE <1>5 DEF AccountRead
  <2>1. got[o] \in Callback
    BY CallbacksAssumption DEF TypeOK
  <2>2. keys[got[o].account] \in SUBSET Keys
    BY <2>1, KeySetsAssumption DEF TypeOK, Callback
  <2>. QED
    BY <2>2 DEF TypeOK, waitVars
<1>6. CASE Succeed(o)
  <2>1. data' \in Channel
    BY <1>6, ChannelSteps DEF TypeOK, Succeed
  <2>. QED
    BY <1>6, <2>1, EndType DEF TypeOK, Succeed, waitVars, Results
<1>7. CASE Unverified(o)
  BY <1>7, EndType DEF TypeOK, Unverified, waitVars, Results
<1>8. CASE LookupFails(o)
  BY <1>8, EndType DEF TypeOK, LookupFails, waitVars, Results
<1>. QED
  BY <1>1, <1>2, <1>3, <1>4, <1>5, <1>6, <1>7, <1>8 DEF Login

LEMMA EnvironmentType ==
  ASSUME TypeOK, NEW o \in Ops, Environment(o)
  PROVE  TypeOK'
<1>. USE DEF External
<1>1. CASE Cancel(o)
  BY <1>1 DEF TypeOK, Cancel
<1>2. CASE TimerFires(o)
  BY <1>2 DEF TypeOK, TimerFires
<1>3. CASE Connects(o)
  BY <1>3 DEF TypeOK, Connects
<1>4. ASSUME NEW m \in Callbacks, Posts(o, m) PROVE TypeOK'
  BY <1>4 DEF TypeOK, Posts
<1>5. CASE Loses(o)
  BY <1>5 DEF TypeOK, Loses
<1>. QED
  BY <1>1, <1>2, <1>3, <1>4, <1>5 DEF Environment

LEMMA KeysChangeType ==
  ASSUME TypeOK, NEW a \in Accounts, NEW K \in KeySets, KeysChange(a, K)
  PROVE  TypeOK'
<1>1. keys' \in [Accounts -> KeySets]
  BY DEF TypeOK, KeysChange
<1>2. AllKeys(keys') \subseteq Accounts \X Keys
  BY DEF AllKeys
<1>3. valid' \in [Ops -> SUBSET (Accounts \X Keys)]
  BY <1>2 DEF TypeOK, KeysChange
<1>. QED
  BY <1>1, <1>3 DEF TypeOK, KeysChange, waitVars

LEMMA TypeStep == TypeOK /\ [Next]_vars => TypeOK'
<1>. SUFFICES ASSUME TypeOK, [Next]_vars PROVE TypeOK'
  OBVIOUS
<1>1. CASE UNCHANGED vars
  BY <1>1 DEF TypeOK, vars
<1>2. CASE Next
  BY <1>2, LoginType, EnvironmentType, KeysChangeType DEF Next
<1>. QED
  BY <1>1, <1>2

\* The plugin, the logins and what they wait for keep their shape, and a login
\* has its callback when it reads from it (login_flow.rs 109-132).
THEOREM TypeCorrect == Spec => []TypeOK
  BY TypeInit, TypeStep, PTL DEF Spec

-----------------------------------------------------------------------------
(* Who may log in, and what is left in the plugin *)

LEMMA InvInit == Init => IInv
<1>. SUFFICES ASSUME Init PROVE IInv
  OBVIOUS
<1>1. TypeOK
  BY TypeInit
<1>2. ASSUME NEW o \in Ops PROVE LoginInv(o)
  BY <1>2 DEF Init, LoginInv
<1>3. LinkFromSuccess /\ OkIsCurrent
  BY DEF Init, LinkFromSuccess, OkIsCurrent, Empty
<1>. QED
  BY <1>1, <1>2, <1>3 DEF IInv

\* A login that ends in another way than "ok" leaves the others as they were.
LEMMA EndInv ==
  ASSUME IInv, NEW o \in Ops, NEW r \in Results \ {"ok"},
         pc[o] # "done", End(o, r),
         cancelled' = cancelled \ {o} \/ (cancelled' = cancelled /\ pc[o] # "wait"),
         elapsed' = elapsed \ {o} \/ (elapsed' = elapsed /\ pc[o] # "wait"),
         \A p \in Ops \ {o} : got'[p] = got[p],
         UNCHANGED <<data, chain, keys, valid>>
  PROVE  (\A p \in Ops : LoginInv(p)') /\ LinkFromSuccess' /\ OkIsCurrent'
<1>. USE DEF IInv
<1>1. /\ pc'[o] = "done" /\ result'[o] = r
      /\ \A p \in Ops \ {o} : pc'[p] = pc[p] /\ result'[p] = result[p] /\ seen'[p] = seen[p]
  BY DEF TypeOK, End
<1>2. result[o] # "ok" /\ o \notin cancelled' \cup elapsed'
  BY DEF LoginInv
<1>3. ASSUME NEW p \in Ops PROVE LoginInv(p)'
  BY <1>1, <1>2, <1>3 DEF LoginInv
<1>4. LinkFromSuccess'
  BY <1>1, <1>2 DEF LinkFromSuccess, TypeOK, Channel, Maybe
<1>5. OkIsCurrent'
  BY <1>1, <1>2 DEF OkIsCurrent
<1>. QED
  BY <1>3, <1>4, <1>5

LEMMA LeaveInv ==
  ASSUME IInv, NEW o \in Ops, NEW r \in Results \ {"ok"}, pc[o] # "done", Leave(o, r)
  PROVE  (\A p \in Ops : LoginInv(p)') /\ LinkFromSuccess' /\ OkIsCurrent'
  BY EndInv DEF Leave, StopWaiting

LEMMA LoginStep ==
  ASSUME IInv, NEW o \in Ops, Login(o)
  PROVE  (\A p \in Ops : LoginInv(p)') /\ LinkFromSuccess' /\ OkIsCurrent'
<1>. DEFINE Kept == (\A p \in Ops : LoginInv(p)') /\ LinkFromSuccess' /\ OkIsCurrent'
<1>. USE DEF IInv
<1>1. ASSUME NEW c \in Chains, Begin(o, c) PROVE Kept
  <2>. USE <1>1 DEF Begin, waitVars
  <2>1. /\ pc'[o] = "wait" /\ valid'[o] = AllKeys(keys)
        /\ \A p \in Ops \ {o} : pc'[p] = pc[p] /\ chain'[p] = chain[p] /\ valid'[p] = valid[p]
    BY DEF TypeOK
  <2>2. result[o] = "none"
    BY DEF LoginInv
  <2>3. ASSUME NEW p \in Ops PROVE LoginInv(p)'
    BY <2>1, <2>2, <2>3 DEF LoginInv
  <2>4. data'.signer = data.signer /\ data'.url = data.url
    BY DEF TypeOK, Channel, WithKeypair
  <2>5. LinkFromSuccess'
    BY <2>4 DEF LinkFromSuccess
  <2>6. OkIsCurrent'
    BY <2>1, <2>2 DEF OkIsCurrent
  <2>. QED
    BY <2>3, <2>5, <2>6
<1>2. CASE BeginFails(o)
  BY <1>2, EndInv DEF BeginFails, waitVars, Results
<1>3. CASE Cancelled(o) \/ Expired(o) \/ StreamFails(o) \/ PromptReturns(o) \/ Dropped(o)
  <2>1. PICK r \in Results \ {"ok"} : Leave(o, r) /\ pc[o] # "done"
    BY <1>3 DEF Cancelled, Expired, StreamFails, PromptReturns, Dropped, Listening, Results
  <2>. QED
    BY <2>1, LeaveInv
<1>4. CASE TakeCallback(o)
  <2>. USE <1>4
  <2>1. /\ got'[o] = mail[o] /\ \A p \in Ops \ {o} : got'[p] = got[p]
        /\ pc[o] = "wait" /\ result[o] = "none"
    BY DEF TakeCallback, TypeOK, Listening, LoginInv
  <2>2. CASE Acceptable(o, mail[o])
    <3>1. /\ pc'[o] = "lookup" /\ \A p \in Ops \ {o} : pc'[p] = pc[p]
          /\ o \notin cancelled' \cup elapsed' /\ mail[o].chain = chain[o]
          /\ cancelled' \subseteq cancelled /\ elapsed' \subseteq elapsed
          /\ UNCHANGED <<data, chain, result, seen, keys, valid>>
      BY <2>2 DEF TakeCallback, TypeOK, StopWaiting, Acceptable
    <3>2. ASSUME NEW p \in Ops PROVE LoginInv(p)'
      BY <2>1, <3>1, <3>2 DEF LoginInv
    <3>3. LinkFromSuccess'
      BY <2>1, <3>1 DEF LinkFromSuccess, TypeOK, Channel, Maybe
    <3>4. OkIsCurrent'
      BY <2>1, <3>1 DEF OkIsCurrent
    <3>. QED
      BY <3>2, <3>3, <3>4
  <2>3. CASE ~Acceptable(o, mail[o])
    <3>1. PICK r \in Results \ {"ok"} : End(o, r)
      BY <2>3 DEF TakeCallback, Results
    <3>. QED
      BY <2>1, <3>1, EndInv DEF TakeCallback, StopWaiting
  <2>. QED
    BY <2>2, <2>3
<1>5. CASE AccountRead(o)
  <2>. USE <1>5 DEF AccountRead, waitVars
  <2>1. /\ pc[o] = "lookup" /\ pc'[o] = "verify" /\ seen'[o] = keys[got[o].account]
        /\ \A p \in Ops \ {o} : pc'[p] = pc[p] /\ seen'[p] = seen[p]
    BY DEF TypeOK
  <2>2. got[o].account \in Accounts /\ keys[got[o].account] \subseteq Keys
    BY CallbacksAssumption, KeySetsAssumption DEF TypeOK, Callback
  <2>3. {got[o].account} \X seen'[o] \subseteq AllKeys(keys)
    BY <2>1, <2>2 DEF AllKeys
  <2>4. ASSUME NEW p \in Ops PROVE LoginInv(p)'
    BY <2>1, <2>3, <2>4 DEF LoginInv
  <2>. QED
    BY <2>4 DEF LinkFromSuccess, OkIsCurrent
<1>6. CASE Succeed(o)
  <2>. USE <1>6 DEF Succeed, waitVars
  <2>1. /\ pc'[o] = "done" /\ result'[o] = "ok"
        /\ \A p \in Ops \ {o} : pc'[p] = pc[p] /\ result'[p] = result[p] /\ seen'[p] = seen[p]
    BY DEF TypeOK, End
  <2>2. pc[o] = "verify" /\ o \notin cancelled \cup elapsed
    BY DEF Verified, LoginInv
  <2>3. ASSUME NEW p \in Ops PROVE LoginInv(p)'
    BY <2>1, <2>2, <2>3 DEF LoginInv
  <2>4. /\ data'.signer = IF "signer" \in got[o].link THEN o ELSE data.signer
        /\ data'.url = IF "url" \in got[o].link THEN o ELSE data.url
    BY DEF WithLink
  <2>5. LinkFromSuccess'
    BY <2>1, <2>4 DEF LinkFromSuccess, TypeOK, Channel, Maybe
  <2>6. <<got[o].account, got[o].key>> \in valid[o] /\ got[o].chain = chain[o]
    BY <2>2 DEF Verified, LoginInv
  <2>7. OkIsCurrent'
    BY <2>1, <2>6 DEF OkIsCurrent
  <2>. QED
    BY <2>3, <2>5, <2>7
<1>7. CASE Unverified(o)
  BY <1>7, EndInv DEF Unverified, waitVars, Results
<1>8. CASE LookupFails(o)
  BY <1>8, EndInv DEF LookupFails, waitVars, Results
<1>. QED
  BY <1>1, <1>2, <1>3, <1>4, <1>5, <1>6, <1>7, <1>8 DEF Login

LEMMA OtherStep ==
  ASSUME IInv, \/ \E o \in Ops : Environment(o)
               \/ \E a \in Accounts, K \in KeySets : KeysChange(a, K)
               \/ UNCHANGED vars
  PROVE  (\A p \in Ops : LoginInv(p)') /\ LinkFromSuccess' /\ OkIsCurrent'
<1>. USE DEF IInv
<1>1. ASSUME NEW o \in Ops, Environment(o)
      PROVE  (\A p \in Ops : LoginInv(p)') /\ LinkFromSuccess' /\ OkIsCurrent'
  <2>1. /\ UNCHANGED <<data, pc, chain, got, seen, result, keys, valid>> /\ pc[o] = "wait"
        /\ cancelled' \cup elapsed' \subseteq cancelled \cup elapsed \cup {o}
    BY <1>1 DEF Environment, Cancel, TimerFires, Connects, Posts, Loses, External
  <2>2. ASSUME NEW p \in Ops PROVE LoginInv(p)'
    BY <2>1, <2>2 DEF LoginInv
  <2>. QED
    BY <2>1, <2>2 DEF LinkFromSuccess, OkIsCurrent
<1>2. ASSUME NEW a \in Accounts, NEW K \in KeySets, KeysChange(a, K)
      PROVE  (\A p \in Ops : LoginInv(p)') /\ LinkFromSuccess' /\ OkIsCurrent'
  <2>. USE <1>2
  <2>1. UNCHANGED <<data, pc, chain, got, seen, result, cancelled, elapsed>>
    BY DEF KeysChange, waitVars
  <2>2. \A p \in Ops : valid'[p] = IF pc[p] \in {"idle", "done"} THEN valid[p]
                                   ELSE valid[p] \cup AllKeys(keys')
    BY DEF KeysChange
  <2>3. ASSUME NEW p \in Ops PROVE LoginInv(p)'
    BY <2>1, <2>2, <2>3 DEF LoginInv
  <2>4. OkIsCurrent'
    BY <2>1, <2>2 DEF OkIsCurrent
  <2>. QED
    BY <2>1, <2>3, <2>4 DEF LinkFromSuccess
<1>3. CASE UNCHANGED vars
  BY <1>3 DEF vars, LoginInv, LinkFromSuccess, OkIsCurrent
<1>. QED
  BY <1>1, <1>2, <1>3

LEMMA InvStep == IInv /\ [Next]_vars => IInv'
<1>. SUFFICES ASSUME IInv, [Next]_vars PROVE IInv'
  OBVIOUS
<1>1. TypeOK'
  BY TypeStep DEF IInv
<1>2. (\A p \in Ops : LoginInv(p)') /\ LinkFromSuccess' /\ OkIsCurrent'
  BY LoginStep, OtherStep DEF Next
<1>. QED
  BY <1>1, <1>2 DEF IInv

LEMMA Inductive == Spec => []IInv
  BY InvInit, InvStep, PTL DEF Spec

\* The link fields in the plugin come from callbacks of logins that succeeded
\* (login_flow.rs 210-251).
THEOREM LinksOfSuccess == Spec => []LinkFromSuccess
<1>1. IInv => LinkFromSuccess
  BY DEF IInv
<1>. QED
  BY <1>1, Inductive, PTL

\* A login succeeds on the chain it asked for, with a key its account had
\* while it ran (login_flow.rs 229-246, 285-322).
THEOREM Current == Spec => []OkIsCurrent
<1>1. IInv => OkIsCurrent
  BY DEF IInv
<1>. QED
  BY <1>1, Inductive, PTL

-----------------------------------------------------------------------------
(* What a login may do once it is over *)

\* A cancelled or expired login that moves returns an error.
LateStep(o) ==
  o \in cancelled \cup elapsed /\ pc'[o] # pc[o] =>
    result'[o] \in {"cancelled", "expired", "dropped"}

LEMMA LateSteps ==
  ASSUME IInv, Next, NEW o \in Ops
  PROVE  LateStep(o)
<1>. SUFFICES ASSUME o \in cancelled \cup elapsed, pc'[o] # pc[o]
              PROVE  result'[o] \in {"cancelled", "expired", "dropped"}
  BY DEF LateStep
<1>. USE DEF IInv
<1>1. pc[o] = "wait"
  BY DEF LoginInv
<1>2. PICK p \in Ops : Login(p)
  BY DEF Next, Environment, External, Cancel, TimerFires, Connects, Posts, Loses, KeysChange
<1>3. p = o
  BY <1>2 DEF Login, Begin, BeginFails, Cancelled, Expired, StreamFails, PromptReturns,
     TakeCallback, AccountRead, Succeed, Unverified, LookupFails, Dropped, Leave, End, TypeOK
<1>4. Cancelled(o) \/ Expired(o) \/ Dropped(o)
  BY <1>1, <1>2, <1>3 DEF Login, Begin, BeginFails, StreamFails, PromptReturns,
     TakeCallback, Listening, AccountRead, Succeed, Verified, Unverified, LookupFails
<1>. QED
  BY <1>4 DEF Cancelled, Expired, Dropped, Leave, End, TypeOK

\* A cancelled or expired login takes no answer any more (the biased select,
\* login_flow.rs 109-119).
THEOREM InTime == Spec => AnswerInTime
<1>1. IInv /\ [Next]_vars =>
        [\A o \in Ops : o \in cancelled \cup elapsed /\ pc'[o] # pc[o] =>
           result'[o] \in {"cancelled", "expired", "dropped"}]_vars
  BY LateSteps DEF LateStep
<1>. QED
  BY <1>1, Inductive, PTL DEF Spec, AnswerInTime

-----------------------------------------------------------------------------
(* The plugin as the session kit sees it *)

\* A login that fails is a failure for the kit, at whatever point it does.
LEMMA EndFails ==
  ASSUME TypeOK, NEW o \in Ops, NEW r \in Results \ {"ok"},
         pc[o] # "done", End(o, r), UNCHANGED data
  PROVE  WL!Fail(o)
<1>1. /\ pc' = [pc EXCEPT ![o] = "done"] /\ result' = [result EXCEPT ![o] = r]
  BY DEF End
<1>2. loginStatus[o] \in {"idle", "asked"}
  BY DEF loginStatus
<1>3. loginStatus' = [loginStatus EXCEPT ![o] = "err"]
  BY <1>1 DEF loginStatus, TypeOK
<1>. QED
  BY <1>2, <1>3 DEF WL!Fail, WL!Becomes

LEMMA LoginRefines ==
  ASSUME IInv, NEW o \in Ops, Login(o)
  PROVE  [WL!Next]_<<data, loginStatus>>
<1>. USE DEF IInv
<1>1. ASSUME NEW c \in Chains, Begin(o, c) PROVE WL!Ask(o)
  <2>1. loginStatus' = [loginStatus EXCEPT ![o] = "asked"]
    BY <1>1 DEF Begin, loginStatus, TypeOK
  <2>2. loginStatus[o] = "idle"
    BY <1>1 DEF Begin, loginStatus
  <2>. QED
    BY <1>1, <2>1, <2>2 DEF Begin, WL!Ask, WL!Becomes, WL!WithKeypair, WithKeypair
<1>2. CASE BeginFails(o) \/ Unverified(o) \/ LookupFails(o)
  <2>. WL!Fail(o)
    BY <1>2, EndFails DEF BeginFails, Unverified, LookupFails, Results
  <2>. QED
    BY DEF WL!Next
<1>3. CASE Cancelled(o) \/ Expired(o) \/ StreamFails(o) \/ PromptReturns(o) \/ Dropped(o)
  <2>1. PICK r \in Results \ {"ok"} : Leave(o, r) /\ pc[o] # "done"
    BY <1>3 DEF Cancelled, Expired, StreamFails, PromptReturns, Dropped, Listening, Results
  <2>. WL!Fail(o)
    BY <2>1, EndFails DEF Leave
  <2>. QED
    BY DEF WL!Next
<1>4. CASE TakeCallback(o)
  <2>. USE <1>4
  <2>1. CASE Acceptable(o, mail[o])
    <3>1. /\ pc[o] = "wait" /\ pc' = [pc EXCEPT ![o] = "lookup"]
          /\ UNCHANGED <<data, result>>
      BY <2>1 DEF TakeCallback, Listening
    <3>2. UNCHANGED loginStatus
      BY <3>1 DEF loginStatus, TypeOK
    <3>. QED
      BY <3>1, <3>2
  <2>2. CASE ~Acceptable(o, mail[o])
    <3>1. PICK r \in Results \ {"ok"} : End(o, r) /\ pc[o] # "done" /\ UNCHANGED data
      BY <2>2 DEF TakeCallback, Listening, Results
    <3>. WL!Fail(o)
      BY <3>1, EndFails
    <3>. QED
      BY DEF WL!Next
  <2>. QED
    BY <2>1, <2>2
<1>5. CASE AccountRead(o)
  <2>1. /\ pc[o] = "lookup" /\ pc' = [pc EXCEPT ![o] = "verify"]
        /\ UNCHANGED <<data, result>>
    BY <1>5 DEF AccountRead
  <2>2. UNCHANGED loginStatus
    BY <2>1 DEF loginStatus, TypeOK
  <2>. QED
    BY <2>1, <2>2
<1>6. CASE Succeed(o)
  <2>1. /\ pc[o] = "verify" /\ pc' = [pc EXCEPT ![o] = "done"]
        /\ result' = [result EXCEPT ![o] = "ok"]
        /\ data' = WithLink(data, o, got[o].link)
    BY <1>6 DEF Succeed, Verified, End
  <2>2. loginStatus' = [loginStatus EXCEPT ![o] = "ok"] /\ loginStatus[o] = "asked"
    BY <2>1 DEF loginStatus, TypeOK
  <2>3. got[o].link \in SUBSET LinkField
    BY <2>1, CallbacksAssumption DEF TypeOK, Callback
  <2>4. WL!Approve(o, got[o].link)
    BY <2>1, <2>2 DEF WL!Approve, WL!Becomes, WL!WithLink, WithLink
  <2>. QED
    BY <2>3, <2>4 DEF WL!Next, WL!LinkField, LinkField
<1>. QED
  BY <1>1, <1>2, <1>3, <1>4, <1>5, <1>6 DEF Login, WL!Next

\* run_login changes the plugin as the model of the session kit takes it to
\* (login_flow.rs 72-80, 248-251).
THEOREM Refines == Spec => RefinesWalletLogin
<1>1. Init => WL!Init
  BY DEF Init, WL!Init, WL!Empty, Empty, loginStatus
<1>2. ASSUME IInv, [Next]_vars PROVE [WL!Next]_<<data, loginStatus>>
  <2>1. CASE UNCHANGED vars
    BY <2>1 DEF vars, loginStatus
  <2>2. ASSUME NEW o \in Ops, Environment(o) PROVE UNCHANGED <<data, loginStatus>>
    BY <2>2 DEF Environment, External, Cancel, TimerFires, Connects, Posts, Loses, loginStatus
  <2>3. ASSUME NEW a \in Accounts, NEW K \in KeySets, KeysChange(a, K)
        PROVE  UNCHANGED <<data, loginStatus>>
    BY <2>3 DEF KeysChange, loginStatus
  <2>. QED
    BY <1>2, <2>1, <2>2, <2>3, LoginRefines DEF Next
<1>. QED
  BY <1>1, <1>2, Inductive, PTL DEF Spec, RefinesWalletLogin, WL!Spec, WL!walletLoginVars

=============================================================================
