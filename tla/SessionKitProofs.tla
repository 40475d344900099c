-------------------------- MODULE SessionKitProofs --------------------------
(* Proofs of the safety properties of SessionKit.  Type correctness holds   *)
(* always; the other properties hold when the application lets one          *)
(* operation of the kit end before it begins the next, and the wallet sends *)
(* all its link fields with every approval.                                 *)
EXTENDS SessionKit, FiniteSetTheorems, TLAPS

Sequential == ~Overlap /\ Links = {LinkField}

\* The channel that login o establishes.
Full(o) == [key |-> o, signer |-> o, url |-> o]

OneActive == \A o, p \in Ops : Active(o) /\ Active(p) => o = p

\* A stored session carries the channel of the login that stored it, under
\* the key that login was for.
LoginKey(l) == <<req[l].chain, req[l].account>>

Over(l) == pc[l] \notin {"idle", "approve", "after"}

StoreInv ==
  \A k \in Keys : store[k] # None =>
    LET l == store[k].by
    IN  /\ store[k].data = Full(l)
        /\ store[k].wallet = req[l].wallet
        /\ KeyOf(store[k]) = LoginKey(l)
        /\ k # Default => k = LoginKey(l)
        /\ Over(l)

\* What a plugin holds was put there for a login that uses this plugin.
DataInv ==
  \A w \in Wallets : data[w].key # None =>
    pc[data[w].key] # "idle" /\ w = req[data[w].key].wallet

SessionInv ==
  \A s \in sessions :
    pc[s.by] = "done" /\ KeyOf(s) = LoginKey(s.by) /\ s.wallet = req[s.by].wallet

\* What an operation has done by the time it reaches each await.
LoginInv ==
  \A o \in Ops :
    /\ pc[o] \in LoginPc => req[o].by = o
    /\ pc[o] = "approve" => data[req[o].wallet].key = o
    /\ pc[o] \in {"after", "write", "default", "complete"} =>
         data[req[o].wallet] = Full(o)
    /\ pc[o] \in {"write", "default", "complete"} =>
         /\ bytes[o].by = o
         /\ bytes[o].data = Full(o)
         /\ bytes[o].wallet = req[o].wallet
         /\ KeyOf(bytes[o]) = LoginKey(o)
    /\ pc[o] \in {"default", "complete"} => store[LoginKey(o)] = bytes[o]

RestoreInv ==
  \A o \in Ops : pc[o] = "apply" =>
    /\ LoginKey(o) \in SessionKeys
    /\ store[LoginKey(o)] = bytes[o]

LogoutInv ==
  \A o \in Ops : pc[o] = "logout" =>
    /\ req[o].by \in Ops
    /\ pc[req[o].by] = "done"
    /\ req[o].wallet = req[req[o].by].wallet
    /\ \A k \in SessionKeys : store[k] # None => store[k].by # req[o].by

LoggedOutInv ==
  \A o \in Ops :
    /\ LoggedOut(o) => req[o].by \in Ops /\ pc[req[o].by] = "done"
    /\ pc[o] # "done" => result[o] = "none"
    /\ pc[o] \in {"idle", "logout"} => bytes[o] = None

IInv ==
  /\ TypeOK
  /\ OneActive /\ StoreInv /\ DataInv /\ SessionInv
  /\ LoginInv /\ RestoreInv /\ LogoutInv /\ LoggedOutInv
  /\ LogoutForgets /\ DurableSession

-----------------------------------------------------------------------------
(* Types *)

LEMMA TheOnlyType ==
  ASSUME NEW S PROVE TheOnly(S) \in S \cup {None}
<1>1. CASE S = {}
  BY <1>1, FS_EmptySet DEF TheOnly
<1>2. CASE S # {}
  BY <1>2 DEF TheOnly
<1> QED
  BY <1>1, <1>2

LEMMA SelectionType ==
  ASSUME TypeOK, NEW opts \in Choices, NEW answer \in Choices
  PROVE  /\ Selection(opts, answer).wallet \in Wallets \cup {None}
         /\ Selection(opts, answer).chain \in Chains \cup {None}
<1>1. args.wallets \subseteq Wallets /\ args.chains \subseteq Chains
  BY DEF TypeOK, Config
<1>2. TheOnly(args.wallets) \in Wallets \cup {None}
  BY <1>1, TheOnlyType
<1>3. TheOnly(args.chains) \in Chains \cup {None}
  BY <1>1, TheOnlyType
<1> QED
  BY <1>1, <1>2, <1>3 DEF Selection, Find, Choices

LEMMA LoginBeginType ==
  ASSUME TypeOK, NEW o \in Ops, LoginBegin(o)
  PROVE  TypeOK'
<1>1. PICK opts \in Choices, answer \in Choices, default \in BOOLEAN :
        LoginBegin(o)!2!(opts, answer, default)
  BY DEF LoginBegin
<1> DEFINE sel == Selection(opts, answer)
<1>2. sel.wallet \in Wallets \cup {None} /\ sel.chain \in Chains \cup {None}
  BY SelectionType
<1>3. req' \in [Ops -> Request] /\ req'[o].wallet = sel.wallet /\ req'[o].chain = sel.chain
  BY <1>1, <1>2 DEF TypeOK, Request, Maybe
<1>4. \A p \in Ops \ {o} : req'[p] = req[p]
  BY <1>1 DEF TypeOK
<1>5. data' \in [Wallets -> Channel]
  BY <1>1, <1>2 DEF TypeOK, Channel, Maybe, WithKeypair, Settled
<1> QED
  BY <1>1, <1>3, <1>4, <1>5
  DEF TypeOK, LoginBegin, Settled, Goto, End, LoginPc, Maybe

LEMMA LoginApprovedType ==
  ASSUME TypeOK, NEW o \in Ops, NEW a \in Accounts, NEW link \in Links, LoginApproved(o, a, link)
  PROVE  TypeOK'
<1>1. req[o].wallet \in Wallets /\ data[req[o].wallet] \in Channel
  BY DEF LoginApproved, TypeOK, LoginPc, Request
<1>2. data' \in [Wallets -> Channel]
  BY <1>1 DEF LoginApproved, TypeOK, WithLink, Channel, Maybe
<1>3. req' \in [Ops -> Request]
  BY DEF LoginApproved, TypeOK, Request
<1>4. /\ req'[o].wallet = req[o].wallet /\ req'[o].chain = req[o].chain
      /\ req'[o].account = a
      /\ \A p \in Ops \ {o} : req'[p] = req[p]
  BY DEF LoginApproved, TypeOK, Request
<1> QED
  BY <1>2, <1>3, <1>4, KeysAssumption DEF LoginApproved, Goto, TypeOK, LoginPc

LEMMA LoginSerializeType ==
  ASSUME TypeOK, NEW o \in Ops, LoginSerialize(o)
  PROVE  TypeOK'
<1>1. /\ req[o].wallet \in Wallets /\ req[o].chain \in Chains
      /\ req[o].account \in Accounts
  BY DEF LoginSerialize, TypeOK, LoginPc, Request
<1>2. /\ bytes' \in [Ops -> Record \cup {None}]
      /\ bytes'[o] \in Record
      /\ \A p \in Ops \ {o} : bytes'[p] = bytes[p]
  BY <1>1 DEF LoginSerialize, TypeOK, Record
<1>3. None \notin Record
  BY NoneIsNoRecord
<1> QED
  BY <1>2, <1>3 DEF LoginSerialize, Goto, TypeOK, LoginPc

LEMMA LoginWriteType ==
  ASSUME TypeOK, NEW o \in Ops, LoginWrite(o)
  PROVE  TypeOK'
  BY DEF LoginWrite, Goto, TypeOK, LoginPc, Record, KeyOf, Keys,
     SessionKeys

LEMMA LoginWriteDefaultType ==
  ASSUME TypeOK, NEW o \in Ops, LoginWriteDefault(o)
  PROVE  TypeOK'
  BY DEF LoginWriteDefault, Goto, TypeOK, LoginPc, Record, Keys

LEMMA LoginCompleteType ==
  ASSUME TypeOK, NEW o \in Ops, LoginComplete(o)
  PROVE  TypeOK'
  BY DEF LoginComplete, End, TypeOK, LoginPc, Record, Session, Maybe

LEMMA LoginFailsType ==
  ASSUME TypeOK, NEW o \in Ops, LoginFails(o)
  PROVE  TypeOK'
  BY DEF LoginFails, End, TypeOK, LoginPc, Maybe

LEMMA RestoreReadType ==
  ASSUME TypeOK, NEW o \in Ops, NEW k \in SessionKeys, RestoreRead(o, k)
  PROVE  TypeOK'
<1>1. k[1] \in Chains /\ k[2] \in Accounts /\ store[k] \in Record \cup {None}
  BY DEF SessionKeys, TypeOK, Keys
<1> DEFINE r == [req[o] EXCEPT !.chain = k[1], !.account = k[2]]
<1>2. r \in Request /\ r.account = k[2]
  BY <1>1 DEF TypeOK, Request
<1>3. req' = [req EXCEPT ![o] = r]
  BY DEF RestoreRead, TypeOK, Request
<1>4. /\ req' \in [Ops -> Request] /\ req'[o].account # None
      /\ \A p \in Ops \ {o} : req'[p] = req[p]
  BY <1>1, <1>2, <1>3, KeysAssumption DEF TypeOK
<1>5. /\ bytes' \in [Ops -> Record \cup {None}] /\ bytes'[o] = store[k]
      /\ \A p \in Ops \ {o} : bytes'[p] = bytes[p]
  BY <1>1 DEF RestoreRead, TypeOK
<1>6. CASE store[k] = None
  BY <1>4, <1>5, <1>6 DEF RestoreRead, End, TypeOK, LoginPc, Maybe
<1>7. CASE store[k] # None
  BY <1>4, <1>5, <1>7 DEF RestoreRead, Goto, TypeOK, LoginPc
<1> QED
  BY <1>6, <1>7

LEMMA RestoreApplyType ==
  ASSUME TypeOK, NEW o \in Ops, RestoreApply(o)
  PROVE  TypeOK'
<1>1. bytes[o] \in Record /\ req[o] \in Request /\ req[o].account \in Accounts
  BY DEF RestoreApply, TypeOK, Request
<1>2. data' \in [Wallets -> Channel]
  BY <1>1 DEF RestoreApply, TypeOK, Record
<1> DEFINE s == [chain |-> req[o].chain, account |-> req[o].account,
                 wallet |-> bytes[o].wallet, by |-> bytes[o].by]
<1>3. req[o].chain \in args.chains => s \in Session
  BY <1>1 DEF TypeOK, Config, Record, Session
<1>4. sessions' \subseteq Session
  BY <1>3 DEF RestoreApply, TypeOK
<1> QED
  BY <1>2, <1>4 DEF RestoreApply, End, TypeOK, LoginPc, Maybe

LEMMA LogoutRemoveType ==
  ASSUME TypeOK, NEW o \in Ops, NEW s \in sessions, LogoutRemove(o, s)
  PROVE  TypeOK'
<1>1. s \in Session
  BY DEF TypeOK
<1>2. /\ req' \in [Ops -> Request] /\ \A p \in Ops \ {o} : req'[p] = req[p]
      /\ req'[o].wallet = s.wallet /\ req'[o].chain = s.chain
  BY <1>1 DEF LogoutRemove, TypeOK, Request, Session, Maybe
<1>3. store' \in [Keys -> Record \cup {None}]
  BY DEF LogoutRemove, TypeOK
<1>4. s.wallet # None /\ s.chain # None
  BY <1>1, KeysAssumption DEF Session
<1> QED
  BY <1>2, <1>3, <1>4 DEF LogoutRemove, Goto, End, TypeOK, LoginPc, Maybe

LEMMA LogoutWalletType ==
  ASSUME TypeOK, NEW o \in Ops, LogoutWallet(o)
  PROVE  TypeOK'
  BY DEF LogoutWallet, End, TypeOK, LoginPc, Empty, Channel, Maybe, Request

LEMMA DroppedType ==
  ASSUME TypeOK, NEW o \in Ops, Dropped(o)
  PROVE  TypeOK'
  BY DEF Dropped, End, TypeOK, LoginPc, Maybe

LEMMA RestartType ==
  ASSUME TypeOK, Restart
  PROVE  TypeOK'
  BY DEF Restart, TypeOK, LoginPc, Empty, Channel, Active, Maybe

LEMMA NextType == TypeOK /\ [Next]_vars => TypeOK'
<1> SUFFICES ASSUME TypeOK, [Next]_vars PROVE TypeOK'
  OBVIOUS
<1>1. ASSUME NEW o \in Ops, Operation(o) PROVE TypeOK'
  BY <1>1, LoginBeginType, LoginApprovedType, LoginSerializeType,
     LoginWriteType, LoginWriteDefaultType, LoginCompleteType,
     LoginFailsType, RestoreReadType, RestoreApplyType, LogoutRemoveType,
     LogoutWalletType, DroppedType DEF Operation
<1>2. CASE Restart
  BY <1>2, RestartType
<1>3. CASE UNCHANGED vars
  BY <1>3 DEF vars, TypeOK
<1> QED
  BY <1>1, <1>2, <1>3 DEF Next

LEMMA InitType == Init => TypeOK
  BY DEF Init, TypeOK, Config, Channel, Empty, Maybe, Request, NoRequest,
         LoginPc

\* The kit, its plugins and the storage keep their shape, and an operation
\* under way has what its next step reads, however operations overlap.
THEOREM TypeCorrect == Spec => []TypeOK
  BY InitType, NextType, PTL DEF Spec

-----------------------------------------------------------------------------
(* The sequential application *)

LEMMA LoginBeginStep ==
  ASSUME Sequential, IInv, NEW o \in Ops, LoginBegin(o)
  PROVE  IInv'
<1>1. TypeOK'
  BY LoginBeginType DEF IInv
<1>a. \A p \in Ops \ {o} : ~Active(p) /\ ~Active(p)'
  BY DEF IInv, TypeOK, OneActive, Active, Sequential, LoginBegin, MayBegin,
     Goto, End, LoginPc
<1>b. \A p \in Ops \ {o} : /\ pc'[p] = pc[p] /\ req'[p] = req[p]
                             /\ bytes'[p] = bytes[p] /\ result'[p] = result[p]
  BY DEF IInv, TypeOK, LoginBegin, MayBegin, Goto, End
<1>c. /\ pc[o] = "idle" /\ pc'[o] \in {"approve", "done"}
      /\ store' = store /\ sessions' = sessions /\ bytes'[o] = bytes[o]
      /\ req'[o].by = o
      /\ pc'[o] = "done" => data' = data /\ result'[o] = "err" /\ last' = o
      /\ pc'[o] = "approve" =>
           /\ result'[o] = result[o] /\ last' = last
           /\ req'[o].wallet \in Wallets /\ data'[req'[o].wallet].key = o
           /\ \A w \in Wallets \ {req'[o].wallet} : data'[w] = data[w]
  <2>1. PICK opts \in Choices, answer \in Choices, default \in BOOLEAN :
          LoginBegin(o)!2!(opts, answer, default)
    BY DEF LoginBegin
  <2> DEFINE sel == Selection(opts, answer)
  <2>2. sel.wallet \in Wallets \cup {None}
    BY SelectionType DEF IInv
  <2>3. req'[o].by = o /\ req'[o].wallet = sel.wallet
    BY <2>1 DEF IInv, TypeOK
  <2>4. CASE pc'[o] = "done"
    <3>1. data' = data /\ End(o, "err")
      BY <2>1, <2>4 DEF Goto, IInv, TypeOK
    <3> QED
      BY <2>3, <2>4, <3>1 DEF LoginBegin, MayBegin, End, IInv, TypeOK
  <2>5. CASE pc'[o] # "done"
    <3>1. /\ sel.wallet # None /\ Goto(o, "approve")
          /\ data' = [data EXCEPT ![sel.wallet] = WithKeypair(@, o)]
      BY <2>1, <2>5 DEF Settled, End, IInv, TypeOK
    <3> QED
      BY <2>2, <2>3, <3>1
      DEF LoginBegin, MayBegin, Goto, WithKeypair, IInv, TypeOK, Channel
  <2> QED
    BY <2>4, <2>5
<1>2. OneActive'
  BY <1>a, <1>b, <1>c DEF IInv, TypeOK, OneActive, Active, Sequential
<1>3. StoreInv'
  BY <1>a, <1>b, <1>c DEF IInv, TypeOK, StoreInv, LoginKey, Over, Record,
     Keys
<1>4. DataInv'
  BY <1>a, <1>b, <1>c DEF IInv, TypeOK, DataInv, Channel, Maybe
<1>5. SessionInv'
  BY <1>a, <1>b, <1>c DEF IInv, TypeOK, SessionInv, LoginKey, Session,
     KeyOf
<1>6. LoginInv'
  BY <1>a, <1>b, <1>c DEF IInv, TypeOK, LoginInv, LoginPc, LoginKey, Active
<1>7. RestoreInv'
  BY <1>a, <1>b, <1>c DEF IInv, TypeOK, RestoreInv, LoginKey, Active
<1>8. LogoutInv'
  BY <1>a, <1>b, <1>c DEF IInv, TypeOK, LogoutInv, Active
<1>9. LoggedOutInv'
  BY <1>a, <1>b, <1>c DEF IInv, TypeOK, LoggedOutInv, LoggedOut, Active
<1>10. LogoutForgets'
  BY <1>a, <1>b, <1>c DEF IInv, TypeOK, LogoutForgets, LoggedOut,
     LoggedOutInv, Active
<1>11. DurableSession'
  BY <1>a, <1>b, <1>c DEF IInv, TypeOK, DurableSession, Active
<1> QED
  BY <1>1, <1>2, <1>3, <1>4, <1>5, <1>6, <1>7, <1>8, <1>9, <1>10, <1>11 DEF
     IInv

LEMMA FullLink ==
  ASSUME NEW d, NEW o, d.key = o
  PROVE  WithLink(d, o, LinkField) = Full(o)
  BY DEF WithLink, LinkField, Full

LEMMA LoginApprovedStep ==
  ASSUME Sequential, IInv, NEW o \in Ops, NEW a \in Accounts, NEW link \in Links, LoginApproved(o, a, link)
  PROVE  IInv'
<1>1. TypeOK'
  BY LoginApprovedType DEF IInv
<1>a. \A p \in Ops \ {o} : ~Active(p) /\ ~Active(p)'
  BY DEF IInv, TypeOK, OneActive, Active, Sequential, LoginApproved, Goto,
     WithLink, LoginPc
<1>b. \A p \in Ops \ {o} : /\ pc'[p] = pc[p] /\ req'[p] = req[p]
                             /\ bytes'[p] = bytes[p] /\ result'[p] = result[p]
  BY DEF IInv, TypeOK, LoginApproved, Goto, WithLink
<1>c. /\ pc[o] = "approve" /\ pc'[o] = "after"
      /\ store' = store /\ sessions' = sessions /\ bytes'[o] = bytes[o]
      /\ req'[o].by = o /\ req'[o].wallet = req[o].wallet
      /\ result'[o] = result[o] /\ last' = last
      /\ req[o].wallet \in Wallets /\ data'[req[o].wallet] = Full(o)
      /\ \A w \in Wallets \ {req[o].wallet} : data'[w] = data[w]
  <2>1. /\ req[o].wallet \in Wallets /\ data[req[o].wallet].key = o
        /\ data[req[o].wallet] \in Channel /\ req[o].by = o
    BY DEF IInv, LoginInv, LoginApproved, TypeOK, LoginPc, Request
  <2>2. link = LinkField
    BY DEF Sequential
  <2>3. WithLink(data[req[o].wallet], o, link) = Full(o)
    BY <2>1, <2>2, FullLink
  <2>4. req'[o].by = req[o].by /\ req'[o].wallet = req[o].wallet
    BY DEF LoginApproved, IInv, TypeOK, Request
  <2> QED
    BY <2>1, <2>3, <2>4 DEF LoginApproved, Goto, IInv, TypeOK
<1>2. OneActive'
  BY <1>a, <1>b, <1>c DEF IInv, TypeOK, OneActive, Active, Sequential
<1>3. StoreInv'
  BY <1>a, <1>b, <1>c DEF IInv, TypeOK, StoreInv, LoginKey, Over, Record,
     Keys
<1>4. DataInv'
  BY <1>a, <1>b, <1>c DEF IInv, TypeOK, DataInv, Channel, Maybe, Full
<1>5. SessionInv'
  BY <1>a, <1>b, <1>c DEF IInv, TypeOK, SessionInv, LoginKey, Session,
     KeyOf
<1>6. LoginInv'
  BY <1>a, <1>b, <1>c DEF IInv, TypeOK, LoginInv, LoginPc, LoginKey, Active
<1>7. RestoreInv'
  BY <1>a, <1>b, <1>c DEF IInv, TypeOK, RestoreInv, LoginKey, Active
<1>8. LogoutInv'
  BY <1>a, <1>b, <1>c DEF IInv, TypeOK, LogoutInv, Active
<1>9. LoggedOutInv'
  BY <1>a, <1>b, <1>c DEF IInv, TypeOK, LoggedOutInv, LoggedOut, Active
<1>10. LogoutForgets'
  BY <1>a, <1>b, <1>c DEF IInv, TypeOK, LogoutForgets, LoggedOut,
     LoggedOutInv, Active, Full
<1>11. DurableSession'
  BY <1>a, <1>b, <1>c DEF IInv, TypeOK, DurableSession, Active
<1> QED
  BY <1>1, <1>2, <1>3, <1>4, <1>5, <1>6, <1>7, <1>8, <1>9, <1>10, <1>11 DEF
     IInv

LEMMA LoginSerializeStep ==
  ASSUME Sequential, IInv, NEW o \in Ops, LoginSerialize(o)
  PROVE  IInv'
<1>1. TypeOK'
  BY LoginSerializeType DEF IInv
<1>a. \A p \in Ops \ {o} : ~Active(p) /\ ~Active(p)'
  BY DEF IInv, TypeOK, OneActive, Active, Sequential, LoginSerialize, Goto,
     LoginPc
<1>b. \A p \in Ops \ {o} : /\ pc'[p] = pc[p] /\ req'[p] = req[p]
                             /\ bytes'[p] = bytes[p] /\ result'[p] = result[p]
  BY DEF IInv, TypeOK, LoginSerialize, Goto
<1>c. /\ pc[o] = "after" /\ pc'[o] = "write"
      /\ store' = store /\ sessions' = sessions /\ data' = data
      /\ req'[o] = req[o] /\ result'[o] = result[o] /\ last' = last
      /\ bytes'[o].by = o /\ bytes'[o].data = Full(o)
      /\ bytes'[o].wallet = req[o].wallet /\ KeyOf(bytes'[o]) = LoginKey(o)
  BY DEF IInv, TypeOK, LoginSerialize, Goto, LoginInv, LoginPc, KeyOf,
     LoginKey
<1>2. OneActive'
  BY <1>a, <1>b, <1>c DEF IInv, TypeOK, OneActive, Active, Sequential
<1>3. StoreInv'
  BY <1>a, <1>b, <1>c DEF IInv, TypeOK, StoreInv, LoginKey, Over, Record,
     Keys
<1>4. DataInv'
  BY <1>a, <1>b, <1>c DEF IInv, TypeOK, DataInv, Channel, Maybe
<1>5. SessionInv'
  BY <1>a, <1>b, <1>c DEF IInv, TypeOK, SessionInv, LoginKey, Session,
     KeyOf
<1>6. LoginInv'
  BY <1>a, <1>b, <1>c DEF IInv, TypeOK, LoginInv, LoginPc, LoginKey, Active
<1>7. RestoreInv'
  BY <1>a, <1>b, <1>c DEF IInv, TypeOK, RestoreInv, LoginKey, Active
<1>8. LogoutInv'
  BY <1>a, <1>b, <1>c DEF IInv, TypeOK, LogoutInv, Active
<1>9. LoggedOutInv'
  BY <1>a, <1>b, <1>c DEF IInv, TypeOK, LoggedOutInv, LoggedOut, Active
<1>10. LogoutForgets'
  BY <1>a, <1>b, <1>c DEF IInv, TypeOK, LogoutForgets, LoggedOut,
     LoggedOutInv, Active
<1>11. DurableSession'
  BY <1>a, <1>b, <1>c DEF IInv, TypeOK, DurableSession, Active
<1> QED
  BY <1>1, <1>2, <1>3, <1>4, <1>5, <1>6, <1>7, <1>8, <1>9, <1>10, <1>11 DEF
     IInv

LEMMA LoginWriteStep ==
  ASSUME Sequential, IInv, NEW o \in Ops, LoginWrite(o)
  PROVE  IInv'
<1>1. TypeOK'
  BY LoginWriteType DEF IInv
<1>a. \A p \in Ops \ {o} : ~Active(p) /\ ~Active(p)'
  BY DEF IInv, TypeOK, OneActive, Active, Sequential, LoginWrite, Goto,
     LoginPc
<1>b. \A p \in Ops \ {o} : /\ pc'[p] = pc[p] /\ req'[p] = req[p]
                             /\ bytes'[p] = bytes[p] /\ result'[p] = result[p]
  BY DEF IInv, TypeOK, LoginWrite, Goto
<1>c. /\ pc[o] = "write" /\ pc'[o] \in {"default", "complete"}
      /\ sessions' = sessions /\ data' = data /\ bytes'[o] = bytes[o]
      /\ req'[o] = req[o] /\ result'[o] = result[o] /\ last' = last
      /\ LoginKey(o) \in SessionKeys /\ store'[LoginKey(o)] = bytes[o]
      /\ \A k \in Keys \ {LoginKey(o)} : store'[k] = store[k]
      /\ bytes[o].by = o /\ bytes[o].data = Full(o)
      /\ bytes[o].wallet = req[o].wallet /\ KeyOf(bytes[o]) = LoginKey(o)
  <2>1. LoginKey(o) \in SessionKeys
    BY DEF LoginWrite, IInv, TypeOK, LoginPc, Request, LoginKey, SessionKeys
  <2>2. /\ bytes[o].by = o /\ bytes[o].data = Full(o)
        /\ bytes[o].wallet = req[o].wallet /\ KeyOf(bytes[o]) = LoginKey(o)
    BY DEF LoginWrite, IInv, LoginInv
  <2> QED
    BY <2>1, <2>2 DEF LoginWrite, Goto, IInv, TypeOK, Keys
<1>2. OneActive'
  BY <1>a, <1>b, <1>c DEF IInv, TypeOK, OneActive, Active, Sequential
<1>3. StoreInv'
  BY <1>a, <1>b, <1>c DEF IInv, TypeOK, StoreInv, LoginKey, Over, Record,
     Keys, KeyOf
<1>4. DataInv'
  BY <1>a, <1>b, <1>c DEF IInv, TypeOK, DataInv, Channel, Maybe
<1>5. SessionInv'
  BY <1>a, <1>b, <1>c DEF IInv, TypeOK, SessionInv, LoginKey, Session,
     KeyOf
<1>6. LoginInv'
  BY <1>a, <1>b, <1>c DEF IInv, TypeOK, LoginInv, LoginPc, LoginKey, Active
<1>7. RestoreInv'
  BY <1>a, <1>b, <1>c DEF IInv, TypeOK, RestoreInv, LoginKey, Active
<1>8. LogoutInv'
  BY <1>a, <1>b, <1>c DEF IInv, TypeOK, LogoutInv, Active
<1>9. LoggedOutInv'
  BY <1>a, <1>b, <1>c DEF IInv, TypeOK, LoggedOutInv, LoggedOut, Active
<1>10. LogoutForgets'
  BY <1>a, <1>b, <1>c DEF IInv, TypeOK, LogoutForgets, LoggedOut,
     LoggedOutInv, Active, Keys, Record
<1>11. DurableSession'
  BY <1>a, <1>b, <1>c DEF IInv, TypeOK, DurableSession, Active
<1> QED
  BY <1>1, <1>2, <1>3, <1>4, <1>5, <1>6, <1>7, <1>8, <1>9, <1>10, <1>11 DEF
     IInv

LEMMA LoginWriteDefaultStep ==
  ASSUME Sequential, IInv, NEW o \in Ops, LoginWriteDefault(o)
  PROVE  IInv'
<1>1. TypeOK'
  BY LoginWriteDefaultType DEF IInv
<1>a. \A p \in Ops \ {o} : ~Active(p) /\ ~Active(p)'
  BY DEF IInv, TypeOK, OneActive, Active, Sequential, LoginWriteDefault,
     Goto, LoginPc
<1>b. \A p \in Ops \ {o} : /\ pc'[p] = pc[p] /\ req'[p] = req[p]
                             /\ bytes'[p] = bytes[p] /\ result'[p] = result[p]
  BY DEF IInv, TypeOK, LoginWriteDefault, Goto
<1>c. /\ pc[o] = "default" /\ pc'[o] = "complete"
      /\ sessions' = sessions /\ data' = data /\ bytes'[o] = bytes[o]
      /\ req'[o] = req[o] /\ result'[o] = result[o] /\ last' = last
      /\ store'[Default] = bytes[o]
      /\ \A k \in SessionKeys : k \in Keys \ {Default} /\ store'[k] = store[k]
      /\ LoginKey(o) \in SessionKeys
      /\ bytes[o].by = o /\ bytes[o].data = Full(o)
      /\ bytes[o].wallet = req[o].wallet /\ KeyOf(bytes[o]) = LoginKey(o)
  <2>1. LoginKey(o) \in SessionKeys
    BY DEF LoginWriteDefault, IInv, TypeOK, LoginPc, Request, LoginKey, SessionKeys
  <2>2. /\ bytes[o].by = o /\ bytes[o].data = Full(o)
        /\ bytes[o].wallet = req[o].wallet /\ KeyOf(bytes[o]) = LoginKey(o)
    BY DEF LoginWriteDefault, IInv, LoginInv
  <2>3. /\ store'[Default] = bytes[o]
        /\ \A k \in Keys \ {Default} : store'[k] = store[k]
    BY DEF LoginWriteDefault, IInv, TypeOK, Keys
  <2>4. SessionKeys \subseteq Keys \ {Default}
    BY KeysAssumption DEF SessionKeys, Keys
  <2> QED
    BY <2>1, <2>2, <2>3, <2>4 DEF LoginWriteDefault, Goto, IInv, TypeOK
<1>2. OneActive'
  BY <1>a, <1>b, <1>c DEF IInv, TypeOK, OneActive, Active, Sequential
<1>3. StoreInv'
  BY <1>a, <1>b, <1>c DEF IInv, TypeOK, StoreInv, LoginKey, Over, Record,
     Keys, KeyOf
<1>4. DataInv'
  BY <1>a, <1>b, <1>c DEF IInv, TypeOK, DataInv, Channel, Maybe
<1>5. SessionInv'
  BY <1>a, <1>b, <1>c DEF IInv, TypeOK, SessionInv, LoginKey, Session,
     KeyOf
<1>6. LoginInv'
  BY <1>a, <1>b, <1>c DEF IInv, TypeOK, LoginInv, LoginPc, LoginKey, Active
<1>7. RestoreInv'
  BY <1>a, <1>b, <1>c DEF IInv, TypeOK, RestoreInv, LoginKey, Active
<1>8. LogoutInv'
  BY <1>a, <1>b, <1>c DEF IInv, TypeOK, LogoutInv, Active
<1>9. LoggedOutInv'
  BY <1>a, <1>b, <1>c DEF IInv, TypeOK, LoggedOutInv, LoggedOut, Active
<1>10. LogoutForgets'
  BY <1>a, <1>b, <1>c DEF IInv, TypeOK, LogoutForgets, LoggedOut,
     LoggedOutInv, Active
<1>11. DurableSession'
  BY <1>a, <1>b, <1>c DEF IInv, TypeOK, DurableSession, Active
<1> QED
  BY <1>1, <1>2, <1>3, <1>4, <1>5, <1>6, <1>7, <1>8, <1>9, <1>10, <1>11 DEF
     IInv

LEMMA LoginCompleteStep ==
  ASSUME Sequential, IInv, NEW o \in Ops, LoginComplete(o)
  PROVE  IInv'
<1>1. TypeOK'
  BY LoginCompleteType DEF IInv
<1>a. \A p \in Ops \ {o} : ~Active(p) /\ ~Active(p)'
  BY DEF IInv, TypeOK, OneActive, Active, Sequential, LoginComplete, End,
     LoginPc
<1>b. \A p \in Ops \ {o} : /\ pc'[p] = pc[p] /\ req'[p] = req[p]
                             /\ bytes'[p] = bytes[p] /\ result'[p] = result[p]
  BY DEF IInv, TypeOK, LoginComplete, End
<1>c. /\ pc[o] = "complete" /\ pc'[o] = "done"
      /\ store' = store /\ data' = data /\ bytes'[o] = bytes[o]
      /\ req'[o] = req[o] /\ last' = o /\ bytes[o] # None
      /\ \A s \in sessions' : s \in sessions \/
           (s.by = o /\ KeyOf(s) = LoginKey(o) /\ s.wallet = req[o].wallet)
      /\ KeyOf(bytes[o]) = LoginKey(o) /\ bytes[o].wallet = req[o].wallet
      /\ bytes[o].data = Full(o) /\ data[req[o].wallet] = Full(o)
      /\ store[LoginKey(o)] = bytes[o]
  <2>1. /\ bytes[o].by = o /\ bytes[o].data = Full(o) /\ bytes[o] # None
        /\ bytes[o].wallet = req[o].wallet /\ KeyOf(bytes[o]) = LoginKey(o)
        /\ store[LoginKey(o)] = bytes[o] /\ data[req[o].wallet] = Full(o)
    BY DEF LoginComplete, IInv, TypeOK, LoginInv
  <2>2. \A s \in sessions' : s \in sessions \/
          (s.by = o /\ KeyOf(s) = LoginKey(o) /\ s.wallet = req[o].wallet)
    BY <2>1 DEF LoginComplete, KeyOf
  <2> QED
    BY <2>1, <2>2 DEF LoginComplete, End, IInv, TypeOK
<1>2. OneActive'
  BY <1>a, <1>b, <1>c DEF IInv, TypeOK, OneActive, Active, Sequential
<1>3. StoreInv'
  BY <1>a, <1>b, <1>c DEF IInv, TypeOK, StoreInv, LoginKey, Over, Record,
     Keys
<1>4. DataInv'
  BY <1>a, <1>b, <1>c DEF IInv, TypeOK, DataInv, Channel, Maybe
<1>5. SessionInv'
  BY <1>a, <1>b, <1>c DEF IInv, TypeOK, SessionInv, LoginKey, Session,
     KeyOf
<1>6. LoginInv'
  BY <1>a, <1>b, <1>c DEF IInv, TypeOK, LoginInv, LoginPc, LoginKey, Active
<1>7. RestoreInv'
  BY <1>a, <1>b, <1>c DEF IInv, TypeOK, RestoreInv, LoginKey, Active
<1>8. LogoutInv'
  BY <1>a, <1>b, <1>c DEF IInv, TypeOK, LogoutInv, Active
<1>9. LoggedOutInv'
  BY <1>a, <1>b, <1>c DEF IInv, TypeOK, LoggedOutInv, LoggedOut, Active
<1>10. LogoutForgets'
  BY <1>a, <1>b, <1>c DEF IInv, TypeOK, LogoutForgets, LoggedOut,
     LoggedOutInv, Active
<1>11. DurableSession'
  BY <1>a, <1>b, <1>c DEF IInv, TypeOK, DurableSession, Active
<1> QED
  BY <1>1, <1>2, <1>3, <1>4, <1>5, <1>6, <1>7, <1>8, <1>9, <1>10, <1>11 DEF
     IInv

LEMMA LoginFailsStep ==
  ASSUME Sequential, IInv, NEW o \in Ops, LoginFails(o)
  PROVE  IInv'
<1>1. TypeOK'
  BY LoginFailsType DEF IInv
<1>a. \A p \in Ops \ {o} : ~Active(p) /\ ~Active(p)'
  BY DEF IInv, TypeOK, OneActive, Active, Sequential, LoginFails, End,
     LoginPc
<1>b. \A p \in Ops \ {o} : /\ pc'[p] = pc[p] /\ req'[p] = req[p]
                             /\ bytes'[p] = bytes[p] /\ result'[p] = result[p]
  BY DEF IInv, TypeOK, LoginFails, End
<1>c. /\ pc[o] \in LoginPc /\ pc'[o] = "done"
      /\ store' = store /\ sessions' = sessions /\ data' = data
      /\ req'[o] = req[o] /\ bytes'[o] = bytes[o]
      /\ result'[o] = "err" /\ last' = o
  BY DEF IInv, TypeOK, LoginFails, End
<1>2. OneActive'
  BY <1>a, <1>b, <1>c DEF IInv, TypeOK, OneActive, Active, Sequential
<1>3. StoreInv'
  BY <1>a, <1>b, <1>c DEF IInv, TypeOK, StoreInv, LoginKey, Over, Record,
     Keys
<1>4. DataInv'
  BY <1>a, <1>b, <1>c DEF IInv, TypeOK, DataInv, Channel, Maybe
<1>5. SessionInv'
  BY <1>a, <1>b, <1>c DEF IInv, TypeOK, SessionInv, LoginKey, Session,
     KeyOf
<1>6. LoginInv'
  BY <1>a, <1>b, <1>c DEF IInv, TypeOK, LoginInv, LoginPc, LoginKey, Active
<1>7. RestoreInv'
  BY <1>a, <1>b, <1>c DEF IInv, TypeOK, RestoreInv, LoginKey, Active
<1>8. LogoutInv'
  BY <1>a, <1>b, <1>c DEF IInv, TypeOK, LogoutInv, Active
<1>9. LoggedOutInv'
  BY <1>a, <1>b, <1>c DEF IInv, TypeOK, LoggedOutInv, LoggedOut, Active
<1>10. LogoutForgets'
  BY <1>a, <1>b, <1>c DEF IInv, TypeOK, LogoutForgets, LoggedOut,
     LoggedOutInv, Active
<1>11. DurableSession'
  BY <1>a, <1>b, <1>c DEF IInv, TypeOK, DurableSession, Active
<1> QED
  BY <1>1, <1>2, <1>3, <1>4, <1>5, <1>6, <1>7, <1>8, <1>9, <1>10, <1>11 DEF
     IInv

LEMMA RestoreReadStep ==
  ASSUME Sequential, IInv, NEW o \in Ops, NEW k \in SessionKeys, RestoreRead(o, k)
  PROVE  IInv'
<1>1. TypeOK'
  BY RestoreReadType DEF IInv
<1>a. \A p \in Ops \ {o} : ~Active(p) /\ ~Active(p)'
  BY DEF IInv, TypeOK, OneActive, Active, Sequential, RestoreRead,
     MayBegin, Goto, End, LoginPc
<1>b. \A p \in Ops \ {o} : /\ pc'[p] = pc[p] /\ req'[p] = req[p]
                             /\ bytes'[p] = bytes[p] /\ result'[p] = result[p]
  BY DEF IInv, TypeOK, RestoreRead, MayBegin, Goto, End
<1>c. /\ pc[o] = "idle" /\ pc'[o] \in {"apply", "done"}
      /\ store' = store /\ sessions' = sessions /\ data' = data
      /\ req'[o].chain = k[1] /\ req'[o].account = k[2]
      /\ k = <<k[1], k[2]>> /\ bytes'[o] = store[k]
      /\ pc'[o] = "done" => result'[o] = "err" /\ last' = o
      /\ pc'[o] = "apply" => result'[o] = result[o] /\ last' = last
  BY DEF IInv, TypeOK, RestoreRead, MayBegin, Goto, End, SessionKeys,
     Request
<1>2. OneActive'
  BY <1>a, <1>b, <1>c DEF IInv, TypeOK, OneActive, Active, Sequential
<1>3. StoreInv'
  BY <1>a, <1>b, <1>c DEF IInv, TypeOK, StoreInv, LoginKey, Over, Record,
     Keys
<1>4. DataInv'
  BY <1>a, <1>b, <1>c DEF IInv, TypeOK, DataInv, Channel, Maybe
<1>5. SessionInv'
  BY <1>a, <1>b, <1>c DEF IInv, TypeOK, SessionInv, LoginKey, Session,
     KeyOf
<1>6. LoginInv'
  BY <1>a, <1>b, <1>c DEF IInv, TypeOK, LoginInv, LoginPc, LoginKey, Active
<1>7. RestoreInv'
  BY <1>a, <1>b, <1>c DEF IInv, TypeOK, RestoreInv, LoginKey, Active
<1>8. LogoutInv'
  BY <1>a, <1>b, <1>c DEF IInv, TypeOK, LogoutInv, Active
<1>9. LoggedOutInv'
  BY <1>a, <1>b, <1>c DEF IInv, TypeOK, LoggedOutInv, LoggedOut, Active
<1>10. LogoutForgets'
  BY <1>a, <1>b, <1>c DEF IInv, TypeOK, LogoutForgets, LoggedOut,
     LoggedOutInv, Active
<1>11. DurableSession'
  BY <1>a, <1>b, <1>c DEF IInv, TypeOK, DurableSession, Active
<1> QED
  BY <1>1, <1>2, <1>3, <1>4, <1>5, <1>6, <1>7, <1>8, <1>9, <1>10, <1>11 DEF
     IInv

LEMMA RestoreApplyStep ==
  ASSUME Sequential, IInv, NEW o \in Ops, RestoreApply(o)
  PROVE  IInv'
<1>1. TypeOK'
  BY RestoreApplyType DEF IInv
<1>a. \A p \in Ops \ {o} : ~Active(p) /\ ~Active(p)'
  BY DEF IInv, TypeOK, OneActive, Active, Sequential, RestoreApply, End,
     LoginPc
<1>b. \A p \in Ops \ {o} : /\ pc'[p] = pc[p] /\ req'[p] = req[p]
                             /\ bytes'[p] = bytes[p] /\ result'[p] = result[p]
  BY DEF IInv, TypeOK, RestoreApply, End
<1>c. /\ pc[o] = "apply" /\ pc'[o] = "done" /\ last' = o
      /\ store' = store /\ req'[o] = req[o] /\ bytes'[o] = bytes[o]
      /\ bytes[o] \in Record /\ bytes[o] # None
      /\ LoginKey(o) \in SessionKeys /\ LoginKey(o) \in Keys
      /\ bytes[o] = store[LoginKey(o)]
      /\ data' = data \/ data' = [data EXCEPT ![bytes[o].wallet] = bytes[o].data]
      /\ result'[o] = "ok" =>
           data' = [data EXCEPT ![bytes[o].wallet] = bytes[o].data]
      /\ \A s \in sessions' : s \in sessions \/
           (s.by = bytes[o].by /\ KeyOf(s) = LoginKey(o) /\ s.wallet = bytes[o].wallet)
  BY DEF IInv, TypeOK, RestoreApply, End, RestoreInv, KeyOf, LoginKey,
     Keys, SessionKeys
<1>d. /\ bytes[o].by \in Ops /\ bytes[o].data = Full(bytes[o].by)
      /\ bytes[o].wallet = req[bytes[o].by].wallet
      /\ LoginKey(o) = LoginKey(bytes[o].by)
      /\ Over(bytes[o].by) /\ bytes[o].wallet \in Wallets
  <2>1. LoginKey(o) # Default /\ store[LoginKey(o)] # None
    BY <1>c, KeysAssumption DEF SessionKeys
  <2> DEFINE l == store[LoginKey(o)].by
  <2>2. /\ store[LoginKey(o)].data = Full(l)
        /\ store[LoginKey(o)].wallet = req[l].wallet
        /\ LoginKey(o) = LoginKey(l) /\ Over(l)
    BY <1>c, <2>1 DEF IInv, StoreInv
  <2> QED
    BY <1>c, <2>2 DEF Record
<1>e. pc'[bytes[o].by] = "done"
  BY <1>a, <1>b, <1>c, <1>d DEF Over, Active
<1>f. \A w \in Wallets : data'[w] = data[w] \/
        (data'[w] = Full(bytes[o].by) /\ w = req[bytes[o].by].wallet)
  BY <1>c, <1>d DEF IInv, TypeOK
<1>g. /\ \A p \in Ops : LoginKey(p)' = LoginKey(p) /\ req'[p] = req[p]
      /\ \A p \in Ops : pc[p] # "idle" => pc'[p] # "idle"
      /\ \A p \in Ops : pc[p] = "done" => pc'[p] = "done"
  BY <1>b, <1>c DEF LoginKey
<1>2. OneActive'
  BY <1>a, <1>b, <1>c DEF IInv, TypeOK, OneActive, Active, Sequential
<1>3. StoreInv'
  BY <1>a, <1>b, <1>c DEF IInv, TypeOK, StoreInv, LoginKey, Over, Record,
     Keys
<1>4. DataInv'
  <2> SUFFICES ASSUME NEW w \in Wallets, data'[w].key # None
               PROVE  /\ pc'[data'[w].key] # "idle"
                      /\ w = req'[data'[w].key].wallet
    BY DEF DataInv
  <2>1. CASE data'[w] = data[w]
    BY <1>g, <2>1 DEF IInv, TypeOK, DataInv, Channel, Maybe
  <2>2. CASE data'[w] = Full(bytes[o].by) /\ w = req[bytes[o].by].wallet
    BY <1>d, <1>e, <1>g, <2>2 DEF Full
  <2> QED
    BY <1>f, <2>1, <2>2
<1>5. SessionInv'
  <2> SUFFICES ASSUME NEW s \in sessions'
               PROVE  /\ pc'[s.by] = "done" /\ KeyOf(s) = LoginKey(s.by)'
                      /\ s.wallet = req'[s.by].wallet
    BY DEF SessionInv, KeyOf
  <2>1. CASE s \in sessions
    BY <1>g, <2>1 DEF IInv, TypeOK, SessionInv, Session
  <2>2. CASE s.by = bytes[o].by /\ KeyOf(s) = LoginKey(o) /\ s.wallet = bytes[o].wallet
    BY <1>d, <1>e, <1>g, <2>2
  <2> QED
    BY <1>c, <2>1, <2>2
<1>6. LoginInv'
  BY <1>a, <1>b, <1>c DEF IInv, TypeOK, LoginInv, LoginPc, LoginKey, Active
<1>7. RestoreInv'
  BY <1>a, <1>b, <1>c DEF IInv, TypeOK, RestoreInv, LoginKey, Active
<1>8. LogoutInv'
  BY <1>a, <1>b, <1>c DEF IInv, TypeOK, LogoutInv, Active
<1>9. LoggedOutInv'
  BY <1>a, <1>b, <1>c DEF IInv, TypeOK, LoggedOutInv, LoggedOut, Active
<1>10. LogoutForgets'
  <2> SUFFICES ASSUME NEW p \in Ops, LoggedOut(p)'
               PROVE  /\ \A w \in Wallets : data'[w].key # req'[p].by
                      /\ \A k \in SessionKeys :
                           store'[k] # None => store'[k].by # req'[p].by
    BY DEF LogoutForgets
  <2>1. LoggedOut(p)
    BY <1>b, <1>c DEF LoggedOut
  <2>2. /\ \A w \in Wallets : data[w].key # req[p].by
        /\ \A k \in SessionKeys : store[k] # None => store[k].by # req[p].by
    BY <2>1 DEF IInv, LogoutForgets
  <2>3. Full(bytes[o].by).key # req[p].by
    BY <1>c, <2>2 DEF Full
  <2> QED
    BY <1>c, <1>f, <1>g, <2>2, <2>3
<1>11. DurableSession'
  <2>1. KeyOf(bytes[o]) = LoginKey(o)
    <3>1. KeyOf(store[LoginKey(o)]) = LoginKey(store[LoginKey(o)].by)
      BY <1>c DEF IInv, StoreInv
    <3> QED
      BY <1>c, <1>d, <3>1
  <2>2. result'[o] = "ok" => data'[bytes[o].wallet] = bytes[o].data
    BY <1>c, <1>d DEF IInv, TypeOK
  <2> QED
    BY <1>c, <2>1, <2>2 DEF DurableSession, KeyOf
<1> QED
  BY <1>1, <1>2, <1>3, <1>4, <1>5, <1>6, <1>7, <1>8, <1>9, <1>10, <1>11 DEF
     IInv

LEMMA LogoutRemoveStep ==
  ASSUME Sequential, IInv, NEW o \in Ops, NEW s \in sessions, LogoutRemove(o, s)
  PROVE  IInv'
<1>1. TypeOK'
  BY LogoutRemoveType DEF IInv
<1>a. \A p \in Ops \ {o} : ~Active(p) /\ ~Active(p)'
  BY DEF IInv, TypeOK, OneActive, Active, Sequential, LogoutRemove,
     MayBegin, Goto, End, LoginPc
<1>b. \A p \in Ops \ {o} : /\ pc'[p] = pc[p] /\ req'[p] = req[p]
                             /\ bytes'[p] = bytes[p] /\ result'[p] = result[p]
  BY DEF IInv, TypeOK, LogoutRemove, MayBegin, Goto, End
<1>c. /\ pc[o] = "idle" /\ pc'[o] \in {"logout", "done"}
      /\ sessions' = sessions /\ data' = data /\ bytes'[o] = bytes[o]
      /\ s \in Session /\ KeyOf(s) \in SessionKeys
      /\ req'[o].by = s.by /\ req'[o].wallet = s.wallet
      /\ \A k \in Keys : store'[k] = store[k] \/ store'[k] = None
      /\ pc'[o] = "done" => result'[o] = "err" /\ last' = o
      /\ pc'[o] = "logout" => /\ result'[o] = result[o] /\ last' = last
                              /\ store'[KeyOf(s)] = None
  BY DEF IInv, TypeOK, LogoutRemove, MayBegin, Goto, End, KeyOf, Session,
     SessionKeys, Request, Keys
<1>2. OneActive'
  BY <1>a, <1>b, <1>c DEF IInv, TypeOK, OneActive, Active, Sequential
<1>3. StoreInv'
  BY <1>a, <1>b, <1>c DEF IInv, TypeOK, StoreInv, LoginKey, Over, Record,
     Keys
<1>4. DataInv'
  BY <1>a, <1>b, <1>c DEF IInv, TypeOK, DataInv, Channel, Maybe
<1>5. SessionInv'
  BY <1>a, <1>b, <1>c DEF IInv, TypeOK, SessionInv, LoginKey, Session,
     KeyOf
<1>6. LoginInv'
  BY <1>a, <1>b, <1>c DEF IInv, TypeOK, LoginInv, LoginPc, LoginKey, Active
<1>7. RestoreInv'
  BY <1>a, <1>b, <1>c DEF IInv, TypeOK, RestoreInv, LoginKey, Active
<1>8. LogoutInv'
  <2> SUFFICES ASSUME NEW p \in Ops, pc'[p] = "logout"
               PROVE  /\ req'[p].by \in Ops /\ pc'[req'[p].by] = "done"
                      /\ req'[p].wallet = req'[req'[p].by].wallet
                      /\ \A k \in SessionKeys :
                           store'[k] # None => store'[k].by # req'[p].by
    BY DEF LogoutInv
  <2>1. p = o
    BY <1>a DEF Active
  <2>2. s.by \in Ops /\ s.by # o /\ pc[s.by] = "done"
        /\ s.wallet = req[s.by].wallet /\ KeyOf(s) = LoginKey(s.by)
    BY <1>c DEF IInv, SessionInv, Session
  <2>3. ASSUME NEW k \in SessionKeys, store'[k] # None, store'[k].by = s.by
        PROVE  FALSE
    <3>1. k \in Keys /\ k # Default
      BY KeysAssumption DEF Keys, SessionKeys
    <3>2. store'[k] = store[k]
      BY <1>c, <2>3, <3>1
    <3>3. k = LoginKey(store[k].by)
      BY <2>3, <3>1, <3>2 DEF IInv, StoreInv
    <3>4. k = KeyOf(s)
      BY <2>2, <2>3, <3>2, <3>3
    <3> QED
      BY <1>c, <2>1, <2>3, <3>4
  <2> QED
    BY <1>b, <1>c, <2>1, <2>2, <2>3
<1>9. LoggedOutInv'
  BY <1>a, <1>b, <1>c DEF IInv, TypeOK, LoggedOutInv, LoggedOut, Active
<1>10. LogoutForgets'
  BY <1>a, <1>b, <1>c DEF IInv, TypeOK, LogoutForgets, LoggedOut,
     LoggedOutInv, Active, Keys
<1>11. DurableSession'
  BY <1>a, <1>b, <1>c DEF IInv, TypeOK, DurableSession, Active
<1> QED
  BY <1>1, <1>2, <1>3, <1>4, <1>5, <1>6, <1>7, <1>8, <1>9, <1>10, <1>11 DEF
     IInv

LEMMA LogoutWalletStep ==
  ASSUME Sequential, IInv, NEW o \in Ops, LogoutWallet(o)
  PROVE  IInv'
<1>1. TypeOK'
  BY LogoutWalletType DEF IInv
<1>a. \A p \in Ops \ {o} : ~Active(p) /\ ~Active(p)'
  BY DEF IInv, TypeOK, OneActive, Active, Sequential, LogoutWallet, End,
     LoginPc
<1>b. \A p \in Ops \ {o} : /\ pc'[p] = pc[p] /\ req'[p] = req[p]
                             /\ bytes'[p] = bytes[p] /\ result'[p] = result[p]
  BY DEF IInv, TypeOK, LogoutWallet, End
<1>c. /\ pc[o] = "logout" /\ pc'[o] = "done" /\ last' = o
      /\ store' = store /\ sessions' = sessions
      /\ req'[o] = req[o] /\ bytes'[o] = bytes[o]
      /\ req[o].wallet \in Wallets /\ data'[req[o].wallet].key = None
      /\ \A w \in Wallets \ {req[o].wallet} : data'[w] = data[w]
  BY DEF IInv, TypeOK, LogoutWallet, End, Request, LoginPc, Empty
<1>2. OneActive'
  BY <1>a, <1>b, <1>c DEF IInv, TypeOK, OneActive, Active, Sequential
<1>3. StoreInv'
  BY <1>a, <1>b, <1>c DEF IInv, TypeOK, StoreInv, LoginKey, Over, Record,
     Keys
<1>4. DataInv'
  BY <1>a, <1>b, <1>c DEF IInv, TypeOK, DataInv, Channel, Maybe
<1>5. SessionInv'
  BY <1>a, <1>b, <1>c DEF IInv, TypeOK, SessionInv, LoginKey, Session,
     KeyOf
<1>6. LoginInv'
  BY <1>a, <1>b, <1>c DEF IInv, TypeOK, LoginInv, LoginPc, LoginKey, Active
<1>7. RestoreInv'
  BY <1>a, <1>b, <1>c DEF IInv, TypeOK, RestoreInv, LoginKey, Active
<1>8. LogoutInv'
  BY <1>a, <1>b, <1>c DEF IInv, TypeOK, LogoutInv, Active
<1>9. LoggedOutInv'
  BY <1>a, <1>b, <1>c DEF IInv, TypeOK, LoggedOutInv, LoggedOut, Active,
     LogoutInv, DataInv, Channel, Maybe
<1>10. LogoutForgets'
  BY <1>a, <1>b, <1>c, NoneAssumption DEF IInv, TypeOK, LogoutForgets,
     LoggedOut, LoggedOutInv, Active, LogoutInv, DataInv, Channel, Maybe
<1>11. DurableSession'
  BY <1>a, <1>b, <1>c DEF IInv, TypeOK, DurableSession, Active, LogoutInv,
     LoggedOutInv, DataInv, Channel, Maybe
<1> QED
  BY <1>1, <1>2, <1>3, <1>4, <1>5, <1>6, <1>7, <1>8, <1>9, <1>10, <1>11 DEF
     IInv

LEMMA DroppedStep ==
  ASSUME Sequential, IInv, NEW o \in Ops, Dropped(o)
  PROVE  IInv'
<1>1. TypeOK'
  BY DroppedType DEF IInv
<1>a. \A p \in Ops \ {o} : ~Active(p) /\ ~Active(p)'
  BY DEF IInv, TypeOK, OneActive, Active, Sequential, Dropped, End, LoginPc
<1>b. \A p \in Ops \ {o} : /\ pc'[p] = pc[p] /\ req'[p] = req[p]
                             /\ bytes'[p] = bytes[p] /\ result'[p] = result[p]
  BY DEF IInv, TypeOK, Dropped, End
<1>c. /\ pc[o] \in {"apply", "logout"} /\ pc'[o] = "done"
      /\ store' = store /\ sessions' = sessions /\ data' = data
      /\ req'[o] = req[o] /\ bytes'[o] = bytes[o]
      /\ result'[o] = "err" /\ last' = o
  BY DEF IInv, TypeOK, Dropped, End
<1>2. OneActive'
  BY <1>a, <1>b, <1>c DEF IInv, TypeOK, OneActive, Active, Sequential
<1>3. StoreInv'
  BY <1>a, <1>b, <1>c DEF IInv, TypeOK, StoreInv, LoginKey, Over, Record,
     Keys
<1>4. DataInv'
  BY <1>a, <1>b, <1>c DEF IInv, TypeOK, DataInv, Channel, Maybe
<1>5. SessionInv'
  BY <1>a, <1>b, <1>c DEF IInv, TypeOK, SessionInv, LoginKey, Session,
     KeyOf
<1>6. LoginInv'
  BY <1>a, <1>b, <1>c DEF IInv, TypeOK, LoginInv, LoginPc, LoginKey, Active
<1>7. RestoreInv'
  BY <1>a, <1>b, <1>c DEF IInv, TypeOK, RestoreInv, LoginKey, Active
<1>8. LogoutInv'
  BY <1>a, <1>b, <1>c DEF IInv, TypeOK, LogoutInv, Active
<1>9. LoggedOutInv'
  BY <1>a, <1>b, <1>c DEF IInv, TypeOK, LoggedOutInv, LoggedOut, Active
<1>10. LogoutForgets'
  BY <1>a, <1>b, <1>c DEF IInv, TypeOK, LogoutForgets, LoggedOut,
     LoggedOutInv, Active
<1>11. DurableSession'
  BY <1>a, <1>b, <1>c DEF IInv, TypeOK, DurableSession, Active
<1> QED
  BY <1>1, <1>2, <1>3, <1>4, <1>5, <1>6, <1>7, <1>8, <1>9, <1>10, <1>11 DEF
     IInv

LEMMA RestartStep ==
  ASSUME Sequential, IInv, Restart
  PROVE  IInv'
<1>1. TypeOK'
  BY RestartType DEF IInv
<1>2. OneActive'
  BY DEF IInv, TypeOK, OneActive, Restart, Active, Sequential
<1>3. StoreInv'
  BY DEF IInv, TypeOK, StoreInv, Restart, LoginKey, Over, Record, Keys
<1>4. DataInv'
  BY DEF IInv, TypeOK, DataInv, Restart, Channel, Maybe, Empty
<1>5. SessionInv'
  BY DEF IInv, TypeOK, SessionInv, Restart, LoginKey, Session, KeyOf
<1>6. LoginInv'
  BY DEF IInv, TypeOK, LoginInv, Restart, LoginPc, LoginKey, Active
<1>7. RestoreInv'
  BY DEF IInv, TypeOK, RestoreInv, Restart, LoginKey, Active
<1>8. LogoutInv'
  BY DEF IInv, TypeOK, LogoutInv, Restart, Active
<1>9. LoggedOutInv'
  BY DEF IInv, TypeOK, LoggedOutInv, Restart, LoggedOut, Active
<1>10. LogoutForgets'
  BY NoneAssumption DEF IInv, TypeOK, LogoutForgets, Restart, LoggedOut,
     LoggedOutInv, Active, Empty
<1>11. DurableSession'
  BY DEF IInv, TypeOK, DurableSession, Restart, Active
<1> QED
  BY <1>1, <1>2, <1>3, <1>4, <1>5, <1>6, <1>7, <1>8, <1>9, <1>10, <1>11 DEF
     IInv

LEMMA SequentialStutter == IInv /\ UNCHANGED vars => IInv'
<1> SUFFICES ASSUME IInv, UNCHANGED vars PROVE IInv'
  OBVIOUS
<1>1. TypeOK'
  BY DEF vars, IInv, TypeOK
<1>2. OneActive' /\ DataInv' /\ SessionInv'
  BY DEF vars, IInv, OneActive, Active, DataInv, SessionInv, KeyOf, LoginKey
<1>3. StoreInv' /\ RestoreInv'
  BY DEF vars, IInv, StoreInv, RestoreInv, LoginKey, Over, KeyOf
<1>4. LoginInv'
  BY DEF vars, IInv, LoginInv, LoginKey, KeyOf
<1>5. LogoutInv' /\ LoggedOutInv' /\ LogoutForgets'
  BY DEF vars, IInv, LogoutInv, LoggedOutInv, LoggedOut, LogoutForgets
<1>6. DurableSession'
  BY DEF vars, IInv, DurableSession, Active, KeyOf
<1> QED
  BY <1>1, <1>2, <1>3, <1>4, <1>5, <1>6 DEF IInv

LEMMA SequentialNext == Sequential /\ IInv /\ [Next]_vars => IInv'
<1> SUFFICES ASSUME Sequential, IInv, [Next]_vars PROVE IInv'
  OBVIOUS
<1>1. ASSUME NEW o \in Ops, Operation(o) PROVE IInv'
  BY <1>1, LoginBeginStep, LoginApprovedStep, LoginSerializeStep,
     LoginWriteStep, LoginWriteDefaultStep, LoginCompleteStep,
     LoginFailsStep, RestoreReadStep, RestoreApplyStep, LogoutRemoveStep,
     LogoutWalletStep, DroppedStep DEF Operation
<1>2. CASE Restart
  BY <1>2, RestartStep
<1>3. CASE UNCHANGED vars
  BY <1>3, SequentialStutter
<1> QED
  BY <1>1, <1>2, <1>3 DEF Next

LEMMA SequentialInit == Init => IInv
  BY InitType DEF Init, IInv, OneActive, Active, StoreInv, DataInv, Empty,
     SessionInv, LoginInv, LoginPc, RestoreInv, LogoutInv, LoggedOutInv,
     LoggedOut, LogoutForgets, DurableSession

LEMMA SequentialInvariance == ASSUME Sequential PROVE Spec => []IInv
<1>1. IInv /\ [Next]_vars => IInv'
  BY SequentialNext
<1> QED
  BY <1>1, SequentialInit, PTL DEF Spec

-----------------------------------------------------------------------------
(* The results *)

\* With one operation at a time and a wallet that sends all its link fields,
\* persist_session only ever stores a complete channel of one login: no failed
\* login, dropped future, restore or restart mixes two of them.
THEOREM StoredChannels == ASSUME Sequential PROVE Spec => []PersistedCoherent
<1>1. IInv => PersistedCoherent
  <2> SUFFICES ASSUME IInv, NEW k \in Keys, store[k] # None
               PROVE  Coherent(store[k].data) /\ store[k].data.key = store[k].by
    BY DEF PersistedCoherent
  <2>1. store[k].data = Full(store[k].by)
    BY DEF IInv, StoreInv
  <2> QED
    BY <2>1 DEF Coherent, Full
<1> QED
  BY <1>1, SequentialInvariance, PTL

\* What login and restore leave in the plugin is what the storage holds.
THEOREM Durable == ASSUME Sequential PROVE Spec => []DurableSession
<1>1. IInv => DurableSession
  BY DEF IInv
<1> QED
  BY <1>1, SequentialInvariance, PTL

\* A completed logout cannot be undone by what happens later.
THEOREM Forgotten == ASSUME Sequential PROVE Spec => []LogoutForgets
<1>1. IInv => LogoutForgets
  BY DEF IInv
<1> QED
  BY <1>1, SequentialInvariance, PTL

\* persist_session writes the session's own key before the default key.
THEOREM DefaultIsStored == ASSUME Sequential PROVE Spec => DefaultFollowsSession
<1> DEFINE Follows == store'[Default] # store[Default]
                        => store[KeyOf(store'[Default])] = store'[Default]
<1>1. ASSUME IInv, [Next]_vars PROVE [Follows]_vars
  <2>1. CASE store'[Default] = store[Default]
    BY <2>1
  <2>2. ASSUME NEW o \in Ops, LoginWriteDefault(o) PROVE Follows
    <3>1. /\ KeyOf(bytes[o]) = LoginKey(o) /\ store[LoginKey(o)] = bytes[o]
      BY <1>1, <2>2 DEF IInv, LoginInv, LoginWriteDefault
    <3>2. store'[Default] = bytes[o]
      BY <1>1, <2>2 DEF IInv, TypeOK, Keys, LoginWriteDefault
    <3> QED
      BY <3>1, <3>2
  <2>3. ASSUME NEW o \in Ops, LoginWrite(o) PROVE store'[Default] = store[Default]
    <3>1. KeyOf(bytes[o]) \in SessionKeys
      BY <1>1, <2>3 DEF LoginWrite, IInv, TypeOK, Record, KeyOf, SessionKeys
    <3> QED
      BY <1>1, <2>3, <3>1, KeysAssumption
      DEF LoginWrite, IInv, TypeOK, Keys, SessionKeys
  <2>4. ASSUME NEW o \in Ops, NEW s \in sessions, LogoutRemove(o, s)
        PROVE  store'[Default] = store[Default]
    <3>1. KeyOf(s) \in SessionKeys
      BY <1>1, <2>4 DEF IInv, TypeOK, Session, KeyOf, SessionKeys
    <3> QED
      BY <1>1, <2>4, <3>1, KeysAssumption
      DEF LogoutRemove, IInv, TypeOK, Keys, SessionKeys
  <2>5. \/ store'[Default] = store[Default]
        \/ \E o \in Ops : LoginWriteDefault(o)
    BY <1>1, <2>3, <2>4
    DEF Next, Operation, Restart, LoginBegin, LoginApproved, RestoreRead,
        LoginSerialize, LoginComplete, LoginFails, RestoreApply,
        LogoutWallet, Dropped, vars
  <2> QED
    BY <2>1, <2>2, <2>5
<1> QED
  BY <1>1, SequentialInvariance, PTL DEF Spec, DefaultFollowsSession

=============================================================================
