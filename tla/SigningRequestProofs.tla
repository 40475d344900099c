------------------------ MODULE SigningRequestProofs ------------------------
(***************************************************************************)
(* What holds of every request and every resolution, for any chains,       *)
(* actions, URIs of other implementations and bounds.                      *)
(***************************************************************************)
EXTENDS SigningRequest, RetainProofs, SequenceTheorems, TLAPS

-----------------------------------------------------------------------------
(* The kind of a request fits its actions *)

\* The variants of RequestKind.
KindForm(k) ==
  \/ k = ActionKind
  \/ k = ActionsKind
  \/ \E h, cfa, ext : k = TransactionKind(h, cfa, ext)
  \/ \E scope, permission : k = IdentityKind(scope, permission)

\* The edits keep the other fields only if the request has them.
KindInv ==
  request # None =>
    /\ {"chain", "actions", "flags", "callback", "info", "kind"} \subseteq DOMAIN request
    /\ KindFits(request)
    /\ KindForm(request.kind)

\* An edit of one field of a record leaves the kind and the actions.
LEMMA EditKeepsKind ==
  ASSUME NEW r, {"actions", "flags", "info", "kind"} \subseteq DOMAIN r, KindFits(r), KindForm(r.kind),
         NEW e, NEW f \in {"info", "flags"}, NEW q,
         q = [r EXCEPT ![f] = e]
  PROVE  DOMAIN q = DOMAIN r /\ KindFits(q) /\ KindForm(q.kind)
<1>1. q.kind = r.kind /\ q.actions = r.actions /\ DOMAIN q = DOMAIN r
  OBVIOUS
<1>. QED
  BY <1>1 DEF KindFits

\* What the edits leave of a request.
Fields == {"chain", "actions", "flags", "callback", "info", "kind"}

Keeps(q, r) ==
  /\ DOMAIN q = Fields
  /\ q.chain = r.chain /\ q.actions = r.actions /\ q.kind = r.kind

LEMMA WithInfoKeeps ==
  ASSUME NEW r, DOMAIN r = Fields, NEW kv
  PROVE  Keeps(WithInfo(r, kv), r)
BY DEF Keeps, WithInfo, Fields

LEMMA SameDeviceKeeps ==
  ASSUME NEW r, DOMAIN r = Fields, NEW device
  PROVE  Keeps(SameDevice(r, device), r)
<1> DEFINE marked == WithInfo(r, [key |-> "same_device", value |-> 1])
<1>1. Keeps(marked, r)
  BY WithInfoKeeps
<1>2. Keeps(WithInfo(marked, [key |-> "return_path", value |-> device.path]), marked)
  BY <1>1, WithInfoKeeps DEF Keeps
<1>3. Keeps(r, r)
  BY DEF Keeps
<1> HIDE DEF marked
<1>4. \/ SameDevice(r, device) \in {r, marked}
      \/ SameDevice(r, device) =
           WithInfo(marked, [key |-> "return_path", value |-> device.path])
  BY DEF SameDevice, marked
<1>. QED
  BY <1>1, <1>2, <1>3, <1>4 DEF Keeps

\* The request of create has a kind that fits.
LEMMA CreateFits ==
  ASSUME NEW chain, NEW actions \in ActionLists, NEW cb
  PROVE  /\ DOMAIN CreateRequest(chain, actions, cb) = Fields
         /\ KindFits(CreateRequest(chain, actions, cb))
         /\ KindForm(CreateRequest(chain, actions, cb).kind)
<1> DEFINE r == CreateRequest(chain, actions, cb)
<1>1. /\ DOMAIN r = Fields
      /\ r.actions = actions
      /\ r.kind = IF Len(actions) = 1 THEN ActionKind ELSE ActionsKind
  BY DEF CreateRequest, Fields
<1>2. actions \in Seq(Set(actions))
  BY ActionListsAssumption DEF IsActions
<1>3. Len(actions) = 1 => actions = <<Head(actions)>>
  BY <1>2
<1>4. KindForm(r.kind)
  BY <1>1 DEF KindForm
<1>. QED
  BY <1>1, <1>3, <1>4 DEF KindFits, ActionKind, ActionsKind

\* The request run_sign builds.
LEMMA SignFits ==
  ASSUME NEW chain, NEW actions \in ActionLists, NEW url, NEW device, NEW link
  PROVE  LET r == BuildSignRequest(chain, actions, url, device, link)
         IN  DOMAIN r = Fields /\ KindFits(r) /\ KindForm(r.kind)
<1> DEFINE c == CreateRequest(chain, actions, [url |-> url, background |-> TRUE])
           b == WithBroadcast(c, FALSE)
           d == SameDevice(b, device)
           r == BuildSignRequest(chain, actions, url, device, link)
<1>1. DOMAIN c = Fields /\ KindFits(c) /\ KindForm(c.kind)
  BY CreateFits
<1> HIDE DEF c
<1>2. Keeps(b, c)
  BY <1>1 DEF WithBroadcast, Keeps, Fields
<1> HIDE DEF b
<1>3. Keeps(d, b)
  BY <1>2, SameDeviceKeeps DEF Keeps
<1> HIDE DEF d
<1>4. r = WithInfo(d, [key |-> "link", value |-> link])
  BY DEF BuildSignRequest, d, b, c
<1>5. Keeps(r, d)
  BY <1>3, <1>4, WithInfoKeeps DEF Keeps
<1>. QED
  BY <1>1, <1>2, <1>3, <1>5 DEF Keeps, KindFits

LEMMA KindInit == Init => KindInv
  BY DEF Init, KindInv

\* What from_uri reads has a kind that fits, whatever wrote the URI.
LEMMA DecodedFits ==
  ASSUME NEW u, Readable(u)
  PROVE  /\ {"chain", "actions", "flags", "callback", "info", "kind"}
              \subseteq DOMAIN DecodeUri(u)
         /\ KindFits(DecodeUri(u)) /\ KindForm(DecodeUri(u).kind)
<1> DEFINE r == DecodeUri(u)
<1>2. /\ DOMAIN r = {"chain", "actions", "flags", "callback", "info", "kind"}
      /\ r.actions = DecodedActions(u.req) /\ r.kind = DecodedKind(u.req)
  BY DEF DecodeUri
<1>3. CASE u.req.tag = 0
  <2>1. r.actions = <<u.req.action>> /\ r.kind = ActionKind
    BY <1>2, <1>3 DEF DecodedActions, DecodedKind
  <2>. QED
    BY <1>2, <2>1 DEF KindFits, KindForm, ActionKind
<1>4. CASE u.req.tag \in {1, 2}
  <2>1. \/ r.kind = ActionsKind
        \/ r.kind = TransactionKind(u.req.header, u.req.context_free, u.req.extensions)
    BY <1>2, <1>4 DEF DecodedKind
  <2>2. KindForm(r.kind)
    BY <2>1 DEF KindForm
  <2>3. r.kind.tag \in {"Actions", "Transaction"}
    BY <2>1 DEF ActionsKind, TransactionKind
  <2>. QED
    BY <1>2, <2>2, <2>3 DEF KindFits
<1>5. CASE u.req.tag = 3
  <2>1. /\ r.actions = <<IdentityAction(u.req.permission)>>
        /\ r.kind = IdentityKind(u.req.scope, u.req.permission)
    BY <1>2, <1>5 DEF DecodedActions, DecodedKind
  <2>2. KindForm(r.kind)
    BY <2>1 DEF KindForm
  <2>. QED
    BY <1>2, <2>1, <2>2 DEF KindFits, IdentityKind
<1>. QED
  BY <1>3, <1>4, <1>5 DEF Readable

LEMMA KindNext == KindInv /\ [Next]_vars => KindInv'
<1> SUFFICES ASSUME KindInv, [Next]_vars PROVE KindInv'
  OBVIOUS
<1>1. ASSUME NEW chain \in Chains, NEW actions \in ActionLists,
             NEW cb \in {None} \cup Callbacks, Create(chain, actions, cb)
      PROVE  KindInv'
  BY <1>1, CreateFits DEF Create, KindInv, Fields
<1>2. ASSUME NEW chain \in Chains, NEW scope \in {None} \cup Scopes,
             NEW permission \in {None} \cup Signers, NEW cb \in {None} \cup Callbacks,
             CreateIdentity(chain, scope, permission, cb)
      PROVE  KindInv'
  <2>1. request' = CreateIdentityRequest(chain, scope, permission, cb)
    BY <1>2 DEF CreateIdentity
  <2>2. /\ DOMAIN request' = {"chain", "actions", "flags", "callback", "info", "kind"}
        /\ request'.actions = <<IdentityAction(permission)>>
        /\ request'.kind = IdentityKind(scope, permission)
    BY <2>1 DEF CreateIdentityRequest
  <2>3. KindForm(request'.kind)
    BY <2>2 DEF KindForm
  <2>. QED
    BY <2>2, <2>3 DEF KindInv, KindFits, IdentityKind
<1>3. ASSUME NEW kv \in InfoPairs, SetInfo(kv)
      PROVE  KindInv'
  <2>1. request # None /\ request' = WithInfo(request, kv)
    BY <1>3 DEF SetInfo
  <2>2. PICK e : request' = [request EXCEPT !["info"] = e]
    BY <2>1 DEF WithInfo
  <2>. QED
    BY <2>1, <2>2, EditKeepsKind DEF KindInv
<1>4. ASSUME NEW b \in BOOLEAN, SetBroadcast(b)
      PROVE  KindInv'
  <2>1. request # None /\ request' = WithBroadcast(request, b)
    BY <1>4 DEF SetBroadcast
  <2>2. PICK e : request' = [request EXCEPT !["flags"] = e]
    BY <2>1 DEF WithBroadcast
  <2>. QED
    BY <2>1, <2>2, EditKeepsKind DEF KindInv
<1>8. ASSUME NEW chain \in Chains, NEW actions \in ActionLists, NEW url \in Urls,
             NEW device \in Devices, NEW link \in Links,
             CreateSign(chain, actions, url, device, link)
      PROVE  KindInv'
  BY <1>8, SignFits DEF CreateSign, KindInv, Fields
<1>5. CASE FromUri
  BY <1>5, DecodedFits DEF FromUri, KindInv
<1>6. CASE UNCHANGED request
  BY <1>6 DEF KindInv
<1>7. CASE request' = None
  BY <1>7 DEF KindInv
<1>. QED
  BY <1>1, <1>2, <1>3, <1>4, <1>5, <1>6, <1>7, <1>8
     DEF Next, vars, Encode, Receive, CreateLogin, ShowLogin, Resolve, ResolvePayload,
         Prove, Keep

\* The kind a request is written by fits its actions in every state, whatever
\* the calls and whatever other implementations write.
THEOREM KindFitsActions == Spec => []KindOK
<1>1. KindInv => KindOK
  BY DEF KindInv, KindOK
<1>. QED
  BY KindInit, KindNext, <1>1, PTL DEF Spec

-----------------------------------------------------------------------------
(* A request is read back as it is *)

LEMMA RoundTrip ==
  ASSUME NEW r, KindFits(r), KindForm(r.kind)
  PROVE  SameRequest(DecodeUri(EncodeUri(r)), r)
<1> DEFINE u == EncodeUri(r)
           q == DecodeUri(u)
<1>1. /\ u.chain = [alias |-> None, id |-> r.chain] /\ u.req = ReqVariant(r)
      /\ u.flags = r.flags /\ u.info = r.info
      /\ u.callback = IF r.callback = None THEN EmptyUrl ELSE r.callback
  BY DEF EncodeUri
<1>2. /\ q.chain = ChainOf(u.chain) /\ q.actions = DecodedActions(u.req)
      /\ q.kind = DecodedKind(u.req) /\ q.flags = u.flags /\ q.info = u.info
      /\ q.callback = IF u.callback = EmptyUrl THEN None ELSE u.callback
  BY DEF DecodeUri
<1>3. q.chain = r.chain /\ q.flags = r.flags /\ q.info = r.info
  BY <1>1, <1>2 DEF ChainOf
<1>4. SameCallback(q.callback, r.callback)
  BY <1>1, <1>2 DEF SameCallback
<1>5. q.actions = r.actions /\ q.kind = r.kind
  <2>1. CASE r.kind = ActionKind
    <3>1. r.kind.tag = "Action" /\ r.actions = <<Head(r.actions)>> /\ Len(r.actions) = 1
      BY <2>1 DEF ActionKind, KindFits
    <3>2. r.actions # <<>> /\ r.actions = <<r.actions[1]>>
      BY <3>1
    <3>3. u.req = [tag |-> 0, action |-> r.actions[1]]
      BY <1>1, <3>1, <3>2 DEF ReqVariant
    <3>. QED
      BY <1>2, <2>1, <3>2, <3>3 DEF DecodedActions, DecodedKind
  <2>2. CASE r.kind = ActionsKind
    <3>1. r.kind.tag = "Actions"
      BY <2>2 DEF ActionsKind
    <3>2. u.req = [tag |-> 1, actions |-> r.actions]
      BY <1>1, <3>1 DEF ReqVariant
    <3>. QED
      BY <1>2, <2>2, <3>2 DEF DecodedActions, DecodedKind
  <2>3. ASSUME NEW h, NEW cfa, NEW ext, r.kind = TransactionKind(h, cfa, ext)
        PROVE  q.actions = r.actions /\ q.kind = r.kind
    <3>1. /\ r.kind.tag = "Transaction" /\ r.kind.header = h
          /\ r.kind.context_free = cfa /\ r.kind.extensions = ext
      BY <2>3 DEF TransactionKind
    <3>2. u.req = [tag |-> 2, header |-> h, context_free |-> cfa, actions |-> r.actions,
                   extensions |-> ext]
      BY <1>1, <3>1 DEF ReqVariant
    <3>3. DecodedKind(u.req) = TransactionKind(h, cfa, ext)
      BY <3>2 DEF DecodedKind
    <3>. QED
      BY <1>2, <2>3, <3>2, <3>3 DEF DecodedActions
  <2>4. ASSUME NEW scope, NEW permission, r.kind = IdentityKind(scope, permission)
        PROVE  q.actions = r.actions /\ q.kind = r.kind
    <3>1. /\ r.kind.tag = "Identity" /\ r.kind.scope = scope
          /\ r.kind.permission = permission
      BY <2>4 DEF IdentityKind
    <3>2. u.req = [tag |-> 3, scope |-> scope, permission |-> permission]
      BY <1>1, <3>1 DEF ReqVariant
    <3>3. r.actions = <<IdentityAction(permission)>>
      BY <3>1 DEF KindFits
    <3>. QED
      BY <1>2, <2>4, <3>2, <3>3 DEF DecodedActions, DecodedKind
  <2>. QED
    BY <2>1, <2>2, <2>3, <2>4 DEF KindForm
<1>. QED
  BY <1>3, <1>4, <1>5 DEF SameRequest

\* What is encoded is readable: the version is the one of its layout.
LEMMA EncodedReadable ==
  ASSUME NEW r, KindForm(r.kind)
  PROVE  Readable(EncodeUri(r))
<1> DEFINE u == EncodeUri(r)
<1>1. u.version = ProtocolVersion(r) /\ u.req = ReqVariant(r)
  BY DEF EncodeUri
<1>2. CASE r.kind.tag = "Identity"
  <2>1. u.req = [tag |-> 3, scope |-> r.kind.scope, permission |-> r.kind.permission]
    BY <1>1, <1>2 DEF ReqVariant
  <2>2. u.version = IF r.kind.scope # None THEN 3 ELSE 2
    BY <1>1, <1>2 DEF ProtocolVersion, IsIdentity
  <2>. QED
    BY <2>1, <2>2 DEF Readable
<1>3. CASE r.kind.tag # "Identity"
  <2>1. u.version = 2
    BY <1>1, <1>3 DEF ProtocolVersion, IsIdentity
  <2>2. r.kind.tag \in {"Action", "Actions", "Transaction"}
    <3>1. ActionKind.tag = "Action" /\ ActionsKind.tag = "Actions"
      BY DEF ActionKind, ActionsKind
    <3>2. ASSUME NEW h, NEW cfa, NEW ext
          PROVE  TransactionKind(h, cfa, ext).tag = "Transaction"
      BY DEF TransactionKind
    <3>3. ASSUME NEW scope, NEW permission
          PROVE  IdentityKind(scope, permission).tag = "Identity"
      BY DEF IdentityKind
    <3>. QED
      BY <1>3, <3>1, <3>2, <3>3 DEF KindForm
  <2>3. u.req.tag \in {0, 1, 2}
    <3>1. r.kind.tag = "Action" => u.req.tag = 0
      BY <1>1 DEF ReqVariant
    <3>2. r.kind.tag = "Actions" => u.req = [tag |-> 1, actions |-> r.actions]
      BY <1>1 DEF ReqVariant
    <3>3. r.kind.tag = "Transaction" =>
            u.req = [tag |-> 2, header |-> r.kind.header, actions |-> r.actions,
                     context_free |-> r.kind.context_free,
                     extensions |-> r.kind.extensions]
      BY <1>1 DEF ReqVariant
    <3>. QED
      BY <2>2, <3>1, <3>2, <3>3
  <2>. QED
    BY <2>1, <2>3 DEF Readable
<1>. QED
  BY <1>2, <1>3

\* Every request the program holds, whoever wrote it, can be encoded again
\* and is read back as it is.
THEOREM ReadBack == Spec => []Stable
<1>1. KindInv => Stable
  <2> SUFFICES ASSUME KindInv, request # None PROVE Stable
    BY DEF Stable
  <2>1. KindFits(request) /\ KindForm(request.kind)
    BY DEF KindInv
  <2>2. Readable(EncodeUri(request))
    BY <2>1, EncodedReadable
  <2>. QED
    BY <2>1, <2>2, RoundTrip DEF Stable
<1>. QED
  BY KindInit, KindNext, <1>1, PTL DEF Spec

-----------------------------------------------------------------------------
(* No placeholder is left in what is rebuilt from a callback *)

\* The signer of a wallet is not a placeholder.
LEMMA SignerFilled ==
  ASSUME NEW signer \in Signers
  PROVE  Filled(signer) /\ signer # None
BY SignersAssumption DEF Names, Filled, PlaceholderActor, PlaceholderPermission

\* resolve_actions fills in every placeholder of an action with the signer.
LEMMA ResolvedAction ==
  ASSUME NEW signer, Filled(signer), signer # None, NEW a
  PROVE  SignedAs(a, ResolveAction(a, signer), signer)
<1> DEFINE q == ResolveAction(a, signer)
<1>1. CASE IsIdentityAction(a)
  <2>1. q = [account |-> 0, name |-> "identity", authorization |-> <<signer>>,
             data |-> signer]
    BY <1>1 DEF ResolveAction, IdentityAction
  <2>. QED
    BY <1>1, <2>1 DEF SignedAs, IsIdentityAction
<1>2. CASE ~IsIdentityAction(a) /\ \E pl \in Set(a.authorization) : IsPlaceholder(pl)
  <2>1. /\ q.account = a.account /\ q.name = a.name /\ q.data = a.data
        /\ q.authorization = [i \in DOMAIN a.authorization |->
                                Substitute(a.authorization[i], signer)]
    BY <1>2 DEF ResolveAction
  <2>2. ASSUME NEW i \in DOMAIN a.authorization
        PROVE  InPlace(a.authorization[i], Substitute(a.authorization[i], signer), signer)
    BY DEF Substitute, InPlace, Filled, PlaceholderActor, PlaceholderPermission
  <2>. QED
    BY <1>2, <2>1, <2>2 DEF SignedAs
<1>3. CASE ~IsIdentityAction(a) /\ ~\E pl \in Set(a.authorization) : IsPlaceholder(pl)
  <2>1. q = a
    BY <1>3 DEF ResolveAction
  <2>2. \A pl \in Set(a.authorization) : InPlace(pl, pl, signer)
    BY <1>3 DEF IsPlaceholder, InPlace, Filled, PlaceholderActor, PlaceholderPermission
  <2>3. \A i \in DOMAIN a.authorization : InPlace(a.authorization[i], a.authorization[i], signer)
    BY <2>2 DEF Set
  <2>. QED
    BY <1>3, <2>1, <2>3 DEF SignedAs
<1>. QED
  BY <1>1, <1>2, <1>3

\* What resolve_explicit_tapos makes of a request is signed as its signer signs.
Resigned(p, signer) ==
  /\ p.signer = signer
  /\ DOMAIN p.transaction.actions = DOMAIN p.request.actions
  /\ \A i \in DOMAIN p.request.actions :
       SignedAs(p.request.actions[i], p.transaction.actions[i], signer)

\* The invariant on what was resolved.
SignedInv ==
  resolved # None /\ resolved.by \in {"payload", "proof"} =>
    Resigned(resolved.result, resolved.from)

LEMMA ExplicitSigned ==
  ASSUME NEW signer \in Signers, NEW r, NEW chain, NEW tapos
  PROVE  Resigned(ResolveExplicitTapos(r, chain, signer, tapos), signer)
<1> DEFINE p == ResolveExplicitTapos(r, chain, signer, tapos)
<1>1. /\ p.signer = signer /\ p.request = r
      /\ p.transaction.actions = [i \in DOMAIN r.actions |-> ResolveAction(r.actions[i], signer)]
  BY DEF ResolveExplicitTapos, Transaction, ResolveActions
<1>2. ASSUME NEW i \in DOMAIN r.actions
      PROVE  SignedAs(r.actions[i], ResolveAction(r.actions[i], signer), signer)
  BY SignerFilled, ResolvedAction
<1> HIDE DEF p
<1>3. Resigned(p, signer)
  BY <1>1, <1>2 DEF Resigned
<1>. QED
  BY <1>3 DEF p

LEMMA SignedNext == SignedInv /\ [Next]_vars => SignedInv'
<1> SUFFICES ASSUME SignedInv, [Next]_vars PROVE SignedInv'
  OBVIOUS
<1>1. CASE UNCHANGED resolved
  BY <1>1 DEF SignedInv
<1>2. CASE resolved' = None
  BY <1>2 DEF SignedInv
<1>3. ASSUME NEW ctx \in Contexts, NEW signer \in {None} \cup Signers, Resolve(ctx, signer)
      PROVE  SignedInv'
  <2>1. resolved'.by = "resolve"
    BY <1>3 DEF Resolve, Keep
  <2>. QED
    BY <2>1 DEF SignedInv
<1>4. ASSUME NEW signer \in Signers, NEW tapos \in Tapos, NEW cid \in {None} \cup Chains,
             ResolvePayload(signer, tapos, cid), resolved' # None
      PROVE  SignedInv'
  <2> DEFINE p == FromPayload(uri, signer, tapos, cid)
  <2>1. resolved' = [by |-> "payload", ctx |-> cid, from |-> signer, result |-> p]
    BY <1>4 DEF ResolvePayload, Keep
  <2>2. PICK r, chain : p = ResolveExplicitTapos(r, chain, signer, tapos)
    BY DEF FromPayload
  <2>3. Resigned(p, signer)
    BY <2>2, ExplicitSigned
  <2>. QED
    BY <2>1, <2>3 DEF SignedInv
<1>5. ASSUME NEW u, NEW signer \in Signers, Prove(u, signer)
      PROVE  SignedInv'
  <2> DEFINE p == ResolvedForProof(login.request, login.request.chain, signer)
  <2>1. resolved' = [by |-> "proof", ctx |-> u, from |-> signer, result |-> p]
    BY <1>5 DEF Prove, Keep
  <2>2. Resigned(p, signer)
    BY ExplicitSigned DEF ResolvedForProof
  <2>. QED
    BY <2>1, <2>2 DEF SignedInv
<1>. QED
  BY <1>1, <1>2, <1>3, <1>4, <1>5
     DEF Next, vars, Create, CreateIdentity, CreateSign, CreateLogin, ShowLogin, SetInfo,
         SetBroadcast, Encode, Receive, FromUri

\* The transaction rebuilt from a callback has the request's actions with the
\* wallet's signer in place of every placeholder, and names it as the
\* identity, for every request and every signer.
THEOREM NoPlaceholder == Spec => []NoPlaceholderLeft
<1>1. Init => SignedInv
  BY DEF Init, SignedInv
<1>2. SignedInv => NoPlaceholderLeft
  BY DEF SignedInv, NoPlaceholderLeft, Resigned
<1>. QED
  BY <1>1, <1>2, SignedNext, PTL DEF Spec

-----------------------------------------------------------------------------
(* The proof of a login is verified against what the wallet signed *)

\* The two requests of a login differ in their info only.
LoginInv ==
  login # None =>
    /\ Keeps(login.request, login.request)
    /\ Keeps(login.same_device_request, login.request)
    /\ KindFits(login.request) /\ KindForm(login.request.kind)

\* Both requests of a login have a kind that fits.
LEMMA LoginFits ==
  ASSUME NEW chain, NEW url, NEW link
  PROVE  LET r == LoginRequest(chain, url, link)
         IN  DOMAIN r = Fields /\ KindFits(r) /\ KindForm(r.kind)
<1> DEFINE c == CreateIdentityRequest(chain, None, None, [url |-> url, background |-> TRUE])
           r == LoginRequest(chain, url, link)
<1>1. /\ DOMAIN c = Fields /\ c.actions = <<IdentityAction(None)>>
      /\ c.kind = IdentityKind(None, None)
  BY DEF CreateIdentityRequest, Fields
<1>2. r = WithInfo(c, [key |-> "link", value |-> link])
  BY DEF LoginRequest
<1> HIDE DEF c
<1>3. Keeps(r, c)
  BY <1>1, <1>2, WithInfoKeeps
<1>4. /\ r.kind = IdentityKind(None, None) /\ r.actions = <<IdentityAction(None)>>
      /\ DOMAIN r = Fields
  BY <1>1, <1>3 DEF Keeps
<1>5. KindForm(r.kind)
  BY <1>4 DEF KindForm
<1>. QED
  BY <1>4, <1>5 DEF KindFits, IdentityKind

\* Requests with the same chain, actions and kind are resolved alike.
LEMMA ResolvedAlike ==
  ASSUME NEW q, NEW r, q.chain = r.chain, q.actions = r.actions, q.kind = r.kind,
         NEW signer, NEW tapos
  PROVE  /\ ResolveExplicitTapos(q, q.chain, signer, tapos).transaction =
            ResolveExplicitTapos(r, r.chain, signer, tapos).transaction
         /\ ResolveExplicitTapos(q, q.chain, signer, tapos).chain =
            ResolveExplicitTapos(r, r.chain, signer, tapos).chain
<1>1. ResolveActions(q, signer) = ResolveActions(r, signer)
  BY DEF ResolveActions
<1>2. \A h, actions : Transaction(h, q, actions) = Transaction(h, r, actions)
  BY DEF Transaction
<1>. QED
  BY <1>1, <1>2 DEF ResolveExplicitTapos

ProofInv == LoginInv /\ ProofMatches

LEMMA ProofNext == ProofInv /\ [Next]_vars => ProofInv'
<1> SUFFICES ASSUME ProofInv, [Next]_vars PROVE ProofInv'
  OBVIOUS
<1>1. CASE UNCHANGED <<login, resolved>>
  BY <1>1 DEF ProofInv, LoginInv, ProofMatches
<1>2. CASE UNCHANGED login /\ resolved' = None
  BY <1>2 DEF ProofInv, LoginInv, ProofMatches
<1>3. ASSUME NEW chain \in Chains, NEW url \in Urls, NEW device \in Devices, NEW link \in Links,
             CreateLogin(chain, url, device, link)
      PROVE  ProofInv'
  <2> DEFINE r == LoginRequest(chain, url, link)
  <2>1. /\ login'.request = r /\ login'.same_device_request = SameDevice(r, device)
        /\ resolved' = None
    BY <1>3 DEF CreateLogin
  <2>2. DOMAIN r = Fields /\ KindFits(r) /\ KindForm(r.kind)
    BY LoginFits
  <2> HIDE DEF r
  <2>3. Keeps(SameDevice(r, device), r) /\ Keeps(r, r)
    BY <2>2, SameDeviceKeeps DEF Keeps
  <2>. QED
    BY <2>1, <2>2, <2>3 DEF ProofInv, LoginInv, ProofMatches
<1>4. ASSUME NEW u, NEW signer, Prove(u, signer), login # None
      PROVE  ProofInv'
  <2> DEFINE r == login.request
             p == ResolvedForProof(r, r.chain, signer)
  <2>1. login' = None /\ resolved' = [by |-> "proof", ctx |-> u, from |-> signer, result |-> p]
    BY <1>4 DEF Prove, Keep
  <2>2. PICK q \in {login.request, login.same_device_request} : u = EncodeUri(q)
    BY <1>4 DEF Prove, LoginUris
  <2>3. /\ q.chain = r.chain /\ q.actions = r.actions /\ q.kind = r.kind
        /\ KindFits(r) /\ KindForm(r.kind)
    BY <1>4, <2>2 DEF ProofInv, LoginInv, Keeps
  <2> HIDE DEF r
  <2>4. KindFits(q) /\ KindForm(q.kind)
    BY <2>3 DEF KindFits
  <2>5. Readable(u)
    BY <2>2, <2>4, EncodedReadable
  <2>6. SameRequest(DecodeUri(u), q)
    BY <2>2, <2>4, RoundTrip
  <2>7. /\ DecodeUri(u).chain = r.chain /\ DecodeUri(u).actions = r.actions
        /\ DecodeUri(u).kind = r.kind
    BY <2>3, <2>6 DEF SameRequest
  <2>8. /\ FromPayload(u, signer, NoTapos, None).transaction = p.transaction
        /\ FromPayload(u, signer, NoTapos, None).chain = p.chain
    BY <2>7, ResolvedAlike DEF FromPayload, ResolvedForProof
  <2>9. p.signer = signer
    BY DEF ResolvedForProof, ResolveExplicitTapos
  <2>. QED
    BY <2>1, <2>5, <2>8, <2>9 DEF ProofInv, LoginInv, ProofMatches
<1>5. CASE login' = None /\ (resolved' = None \/ resolved'.by # "proof")
  BY <1>5 DEF ProofInv, LoginInv, ProofMatches
<1>6. ASSUME NEW ctx, NEW signer, Resolve(ctx, signer)
      PROVE  ProofInv'
  BY <1>5, <1>6 DEF Resolve, Keep
<1>7. ASSUME NEW signer, NEW tapos, NEW cid, ResolvePayload(signer, tapos, cid)
      PROVE  ProofInv'
  BY <1>5, <1>7 DEF ResolvePayload, Keep
<1>8. \A u \in LoginUris : login # None
  BY DEF LoginUris
<1>. QED
  BY <1>1, <1>2, <1>3, <1>4, <1>6, <1>7, <1>8
     DEF Next, vars, Create, CreateIdentity, CreateSign, ShowLogin, SetInfo,
         SetBroadcast, Encode, Receive, FromUri

\* Whichever URI of a login the wallet answers, it signs the transaction that
\* the login verifies the proof against.
THEOREM ProofOfLogin == Spec => []ProofMatches
<1>1. Init => ProofInv
  BY DEF Init, ProofInv, LoginInv, ProofMatches
<1>2. ProofInv => ProofMatches
  BY DEF ProofInv
<1>. QED
  BY <1>1, <1>2, ProofNext, PTL DEF Spec

-----------------------------------------------------------------------------
(* The values of requests have their types *)

RequestTyped(r) ==
  /\ r.chain \in Chains \cup {ZeroChain} \cup Set(KnownAliases)
  /\ IsActions(r.actions)
  /\ r.kind.tag = "Transaction" => r.kind.header \in Headers

\* What has the chain, the actions and the kind of a typed request is typed.
LEMMA KeepsTyped ==
  ASSUME NEW q, NEW r, q.chain = r.chain, q.actions = r.actions, q.kind = r.kind,
         RequestTyped(r)
  PROVE  RequestTyped(q)
BY DEF RequestTyped

\* The action of an identity request is authorized by one level.
LEMMA IdentityTyped ==
  ASSUME NEW permission \in {None} \cup Levels
  PROVE  IsActions(<<IdentityAction(permission)>>)
<1> DEFINE a == IdentityAction(permission)
<1>1. Placeholder \in Levels
  BY DEF Placeholder, Levels, PlaceholderActor, PlaceholderPermission
<1>2. PICK p \in Levels : a.authorization = <<p>>
  BY <1>1 DEF IdentityAction
<1>3. a.authorization \in Seq(Levels)
  BY <1>2
<1> HIDE DEF a
<1>4. Set(<<a>>) = {a}
  BY DEF Set
<1>5. <<a>> \in Seq({a})
  OBVIOUS
<1>. QED
  BY <1>3, <1>4, <1>5 DEF IsActions, a

LEMMA SignersAreLevels == Signers \subseteq Levels
BY SignersAssumption DEF Levels, Names

LEMMA CreateTyped ==
  ASSUME NEW chain \in Chains, NEW actions \in ActionLists, NEW cb
  PROVE  RequestTyped(CreateRequest(chain, actions, cb))
<1> DEFINE r == CreateRequest(chain, actions, cb)
<1>1. /\ r.chain = chain /\ r.actions = actions
      /\ r.kind = IF Len(actions) = 1 THEN ActionKind ELSE ActionsKind
  BY DEF CreateRequest
<1>2. r.kind.tag # "Transaction"
  BY <1>1 DEF ActionKind, ActionsKind
<1>. QED
  BY <1>1, <1>2, ActionListsAssumption DEF RequestTyped

LEMMA CreateIdentityTyped ==
  ASSUME NEW chain \in Chains, NEW scope, NEW permission \in {None} \cup Levels, NEW cb
  PROVE  RequestTyped(CreateIdentityRequest(chain, scope, permission, cb))
<1> DEFINE r == CreateIdentityRequest(chain, scope, permission, cb)
<1>1. /\ r.chain = chain /\ r.actions = <<IdentityAction(permission)>>
      /\ r.kind = IdentityKind(scope, permission)
  BY DEF CreateIdentityRequest
<1>2. r.kind.tag # "Transaction"
  BY <1>1 DEF IdentityKind
<1>. QED
  BY <1>1, <1>2, IdentityTyped DEF RequestTyped

\* The request of a login and its copy for the device.
LEMMA LoginKeeps ==
  ASSUME NEW chain, NEW url, NEW link
  PROVE  Keeps(LoginRequest(chain, url, link),
               CreateIdentityRequest(chain, None, None, [url |-> url, background |-> TRUE]))
<1> DEFINE c == CreateIdentityRequest(chain, None, None, [url |-> url, background |-> TRUE])
<1>1. DOMAIN c = Fields
  BY DEF CreateIdentityRequest, Fields
<1>2. LoginRequest(chain, url, link) = WithInfo(c, [key |-> "link", value |-> link])
  BY DEF LoginRequest
<1> HIDE DEF c
<1>3. Keeps(LoginRequest(chain, url, link), c)
  BY <1>1, <1>2, WithInfoKeeps
<1>. QED
  BY <1>3 DEF c

\* The request of a signature.
LEMMA SignKeeps ==
  ASSUME NEW chain, NEW actions, NEW url, NEW device, NEW link
  PROVE  Keeps(BuildSignRequest(chain, actions, url, device, link),
               CreateRequest(chain, actions, [url |-> url, background |-> TRUE]))
<1> DEFINE c == CreateRequest(chain, actions, [url |-> url, background |-> TRUE])
           b == WithBroadcast(c, FALSE)
           d == SameDevice(b, device)
           r == BuildSignRequest(chain, actions, url, device, link)
<1>1. DOMAIN c = Fields
  BY DEF CreateRequest, Fields
<1> HIDE DEF c
<1>2. Keeps(b, c)
  BY <1>1 DEF WithBroadcast, Keeps, Fields
<1> HIDE DEF b
<1>3. Keeps(d, b)
  BY <1>2, SameDeviceKeeps DEF Keeps
<1> HIDE DEF d
<1>4. r = WithInfo(d, [key |-> "link", value |-> link])
  BY DEF BuildSignRequest, d, b, c
<1>5. Keeps(r, d)
  BY <1>3, <1>4, WithInfoKeeps DEF Keeps
<1> HIDE DEF r
<1>6. Keeps(r, c)
  BY <1>2, <1>3, <1>5 DEF Keeps
<1>. QED
  BY <1>6 DEF r, c

\* What from_uri reads of a URI of another implementation.
LEMMA ForeignTyped ==
  ASSUME NEW u \in Foreign, Readable(u)
  PROVE  RequestTyped(DecodeUri(u))
<1> DEFINE r == DecodeUri(u)
<1>1. /\ r.chain = ChainOf(u.chain) /\ r.actions = DecodedActions(u.req)
      /\ r.kind = DecodedKind(u.req)
  BY DEF DecodeUri
<1>2. r.chain \in Chains \cup {ZeroChain} \cup Set(KnownAliases)
  BY <1>1, ForeignAssumption DEF ChainOf, KnownChain, Set
<1> HIDE DEF r
<1>3. ASSUME u.req.tag = 0 PROVE RequestTyped(r)
  <2>1. r.actions = <<u.req.action>> /\ r.kind = ActionKind
    BY <1>1, <1>3 DEF DecodedActions, DecodedKind
  <2>2. IsActions(<<u.req.action>>)
    BY <1>3, ForeignAssumption
  <2>3. r.kind.tag # "Transaction"
    BY <2>1 DEF ActionKind
  <2>. QED
    BY <1>2, <2>1, <2>2, <2>3 DEF RequestTyped
<1>4. ASSUME u.req.tag = 1 PROVE RequestTyped(r)
  <2>1. r.actions = u.req.actions /\ r.kind = ActionsKind
    BY <1>1, <1>4 DEF DecodedActions, DecodedKind
  <2>2. IsActions(u.req.actions)
    BY <1>4, ForeignAssumption
  <2>3. r.kind.tag # "Transaction"
    BY <2>1 DEF ActionsKind
  <2>. QED
    BY <1>2, <2>1, <2>2, <2>3 DEF RequestTyped
<1>5. ASSUME u.req.tag = 2 PROVE RequestTyped(r)
  <2>1. /\ r.actions = u.req.actions
        /\ r.kind = TransactionKind(u.req.header, u.req.context_free, u.req.extensions)
    BY <1>1, <1>5 DEF DecodedActions, DecodedKind
  <2>2. IsActions(u.req.actions) /\ u.req.header \in Headers
    BY <1>5, ForeignAssumption
  <2>3. r.kind.header = u.req.header
    BY <2>1 DEF TransactionKind
  <2>. QED
    BY <1>2, <2>1, <2>2, <2>3 DEF RequestTyped
<1>6. ASSUME u.req.tag = 3 PROVE RequestTyped(r)
  <2>1. /\ r.actions = <<IdentityAction(u.req.permission)>>
        /\ r.kind = IdentityKind(u.req.scope, u.req.permission)
    BY <1>1, <1>6 DEF DecodedActions, DecodedKind
  <2>2. u.req.permission \in {None} \cup Levels
    BY <1>6, ForeignAssumption
  <2>3. r.kind.tag # "Transaction"
    BY <2>1 DEF IdentityKind
  <2>. QED
    BY <1>2, <2>1, <2>2, <2>3, IdentityTyped DEF RequestTyped
<1>. QED
  BY <1>3, <1>4, <1>5, <1>6 DEF Readable, r

\* What an own request is read back as.
LEMMA EncodedTyped ==
  ASSUME NEW r, KindFits(r), KindForm(r.kind), RequestTyped(r)
  PROVE  RequestTyped(DecodeUri(EncodeUri(r)))
<1> DEFINE q == DecodeUri(EncodeUri(r))
<1>1. SameRequest(q, r)
  BY RoundTrip
<1> HIDE DEF q
<1>2. q.chain = r.chain /\ q.actions = r.actions /\ q.kind = r.kind
  BY <1>1 DEF SameRequest
<1>3. RequestTyped(q)
  BY <1>2, KeepsTyped
<1>. QED
  BY <1>3 DEF q

\* The header of resolve fits its widths.
LEMMA ResolvedHeaderTyped ==
  ASSUME NEW r, RequestTyped(r), NEW ctx \in Contexts
  PROVE  ResolvedHeader(r, ctx) \in Headers
<1> DEFINE fresh == Header(Expiration(ctx), ctx.head_num % U16, ctx.head_prefix)
<1>1. /\ ctx.head_num \in Nat /\ ctx.head_prefix \in 0..(U32 - 1)
      /\ ctx.head_time \in Nat /\ ctx.expire_seconds \in Nat
  BY ContextsAssumption
<1>2. Expiration(ctx) \in 0..(U32 - 1)
  BY <1>1, WidthsAssumption DEF Expiration
<1>3. ctx.head_num % U16 \in 0..(U16 - 1)
  BY <1>1, WidthsAssumption
<1>4. fresh \in Headers
  BY <1>1, <1>2, <1>3 DEF Headers, Header
<1>5. CASE r.kind.tag # "Transaction"
  BY <1>4, <1>5 DEF ResolvedHeader
<1>6. CASE r.kind.tag = "Transaction"
  <2>1. r.kind.header \in Headers
    BY <1>6 DEF RequestTyped
  <2>2. r.kind.header.limits \in Nat
    BY <2>1 DEF Headers
  <2> HIDE DEF fresh
  <2>3. [fresh EXCEPT !.limits = r.kind.header.limits] \in Headers
    BY <1>4, <2>2 DEF Headers
  <2>4. ResolvedHeader(r, ctx) \in {r.kind.header, [fresh EXCEPT !.limits = r.kind.header.limits]}
    BY <1>6 DEF ResolvedHeader, fresh
  <2>. QED
    BY <2>1, <2>3, <2>4
<1>. QED
  BY <1>5, <1>6

\* What resolve returned is what it makes of a typed request.
ResolvedInv ==
  resolved # None =>
    /\ resolved.by \in {"resolve", "payload", "proof"}
    /\ resolved.result.signer \in Signers \cup {NoSigner}
    /\ resolved.result.transaction.header.expiration \in 0..(U32 - 1)
    /\ resolved.result.transaction.header.ref_block_num \in 0..(U16 - 1)
    /\ resolved.by = "resolve" =>
         \E r : \E ctx \in Contexts : \E signer \in {None} \cup Signers :
           /\ RequestTyped(r) /\ KindFits(r) /\ KindForm(r.kind)
           /\ resolved.ctx = ctx /\ resolved.result = ResolveRequest(r, ctx, signer)

\* Every request in hand, in a URI or in a login is typed.
TypedInv ==
  /\ request # None => RequestTyped(request)
  /\ uri # None /\ Readable(uri) => RequestTyped(DecodeUri(uri))
  /\ login # None => RequestTyped(login.request)
  /\ ResolvedInv

\* The transactions of resolve_explicit_tapos have the header they were given.
LEMMA ExplicitTyped ==
  ASSUME NEW r, NEW chain, NEW signer \in Signers, NEW tapos,
         tapos.ex \in 0..(U32 - 1), tapos.rbn \in 0..(U16 - 1)
  PROVE  LET p == ResolveExplicitTapos(r, chain, signer, tapos)
         IN  /\ p.signer \in Signers
             /\ p.transaction.header.expiration \in 0..(U32 - 1)
             /\ p.transaction.header.ref_block_num \in 0..(U16 - 1)
<1> DEFINE p == ResolveExplicitTapos(r, chain, signer, tapos)
<1>1. p.signer = signer /\ p.transaction.header = Header(tapos.ex, tapos.rbn, tapos.rid)
  BY DEF ResolveExplicitTapos, Transaction
<1>2. /\ p.transaction.header.expiration = tapos.ex
      /\ p.transaction.header.ref_block_num = tapos.rbn
  BY <1>1 DEF Header
<1>. QED
  BY <1>1, <1>2

LEMMA TypedNext ==
  KindInv /\ ProofInv /\ TypedInv /\ [Next]_vars => TypedInv'
<1> SUFFICES ASSUME KindInv, ProofInv, TypedInv, [Next]_vars PROVE TypedInv'
  OBVIOUS
<1>1. ASSUME NEW chain \in Chains, NEW actions \in ActionLists,
             NEW cb \in {None} \cup Callbacks, Create(chain, actions, cb)
      PROVE  TypedInv'
  BY <1>1, CreateTyped DEF Create, TypedInv, ResolvedInv
<1>2. ASSUME NEW chain \in Chains, NEW scope \in {None} \cup Scopes,
             NEW permission \in {None} \cup Signers, NEW cb \in {None} \cup Callbacks,
             CreateIdentity(chain, scope, permission, cb)
      PROVE  TypedInv'
  BY <1>2, CreateIdentityTyped, SignersAreLevels DEF CreateIdentity, TypedInv, ResolvedInv
<1>3. ASSUME NEW chain \in Chains, NEW actions \in ActionLists, NEW url \in Urls,
             NEW device \in Devices, NEW link \in Links,
             CreateSign(chain, actions, url, device, link)
      PROVE  TypedInv'
  <2> DEFINE c == CreateRequest(chain, actions, [url |-> url, background |-> TRUE])
             q == BuildSignRequest(chain, actions, url, device, link)
  <2>1. RequestTyped(q)
    <3>1. RequestTyped(c)
      BY CreateTyped
    <3>2. Keeps(q, c)
      BY SignKeeps
    <3> HIDE DEF c, q
    <3>3. q.chain = c.chain /\ q.actions = c.actions /\ q.kind = c.kind
      BY <3>2 DEF Keeps
    <3>. QED
      BY <3>1, <3>3, KeepsTyped
  <2>. QED
    BY <1>3, <2>1 DEF CreateSign, TypedInv, ResolvedInv
<1>4. ASSUME NEW chain \in Chains, NEW url \in Urls, NEW device \in Devices, NEW link \in Links,
             CreateLogin(chain, url, device, link)
      PROVE  TypedInv'
  <2> DEFINE c == CreateIdentityRequest(chain, None, None, [url |-> url, background |-> TRUE])
             q == LoginRequest(chain, url, link)
  <2>1. RequestTyped(q)
    <3>1. RequestTyped(c)
      BY CreateIdentityTyped
    <3>2. Keeps(q, c)
      BY LoginKeeps
    <3> HIDE DEF c, q
    <3>3. q.chain = c.chain /\ q.actions = c.actions /\ q.kind = c.kind
      BY <3>2 DEF Keeps
    <3>. QED
      BY <3>1, <3>3, KeepsTyped
  <2>2. login'.request = LoginRequest(chain, url, link)
    BY <1>4 DEF CreateLogin
  <2>. QED
    BY <1>4, <2>1, <2>2 DEF CreateLogin, TypedInv, ResolvedInv
<1>5. ASSUME NEW kv \in InfoPairs, SetInfo(kv)
      PROVE  TypedInv'
  <2>1. request # None /\ request' = WithInfo(request, kv)
    BY <1>5 DEF SetInfo
  <2>2. /\ request'.chain = request.chain /\ request'.actions = request.actions
        /\ request'.kind = request.kind
    BY <2>1 DEF WithInfo, KindInv
  <2>3. RequestTyped(request')
    BY <2>1, <2>2, KeepsTyped DEF TypedInv
  <2>. QED
    BY <1>5, <2>3 DEF SetInfo, TypedInv, ResolvedInv
<1>6. ASSUME NEW b \in BOOLEAN, SetBroadcast(b)
      PROVE  TypedInv'
  <2>1. request # None /\ request' = WithBroadcast(request, b)
    BY <1>6 DEF SetBroadcast
  <2>2. /\ request'.chain = request.chain /\ request'.actions = request.actions
        /\ request'.kind = request.kind
    BY <2>1 DEF WithBroadcast, KindInv
  <2>3. RequestTyped(request')
    BY <2>1, <2>2, KeepsTyped DEF TypedInv
  <2>. QED
    BY <1>6, <2>3 DEF SetBroadcast, TypedInv, ResolvedInv
<1>7. CASE Encode
  <2>1. RequestTyped(DecodeUri(uri'))
    BY <1>7, EncodedTyped DEF Encode, KindInv, TypedInv
  <2>. QED
    BY <1>7, <2>1 DEF Encode, TypedInv, ResolvedInv
<1>8. CASE ShowLogin
  <2>1. PICK q \in {login.request, login.same_device_request} : uri' = EncodeUri(q)
    BY <1>8 DEF ShowLogin
  <2>2. /\ q.chain = login.request.chain /\ q.actions = login.request.actions
        /\ q.kind = login.request.kind
        /\ KindFits(login.request) /\ KindForm(login.request.kind)
        /\ RequestTyped(login.request)
    BY <1>8, <2>1 DEF ShowLogin, ProofInv, LoginInv, Keeps, TypedInv
  <2>3. KindFits(q) /\ KindForm(q.kind)
    BY <2>2 DEF KindFits
  <2>4. RequestTyped(DecodeUri(uri'))
    BY <2>1, <2>2, <2>3, KeepsTyped, EncodedTyped
  <2>. QED
    BY <1>8, <2>4 DEF ShowLogin, TypedInv, ResolvedInv
<1>9. ASSUME NEW u \in Foreign, Receive(u)
      PROVE  TypedInv'
  BY <1>9, ForeignTyped DEF Receive, TypedInv, ResolvedInv
<1>10. CASE FromUri
  BY <1>10 DEF FromUri, TypedInv, ResolvedInv
<1>11. ASSUME NEW ctx \in Contexts, NEW signer \in {None} \cup Signers, Resolve(ctx, signer)
       PROVE  TypedInv'
  <2> DEFINE p == ResolveRequest(request, ctx, signer)
  <2>1. /\ resolved' = [by |-> "resolve", ctx |-> ctx, result |-> p]
        /\ request' = None /\ uri' = None /\ login' = None /\ request # None
    BY <1>11 DEF Resolve, Keep
  <2>2. p.signer \in Signers \cup {NoSigner}
    BY DEF ResolveRequest
  <2>3. p.transaction.header = ResolvedHeader(request, ctx)
    BY DEF ResolveRequest, Transaction
  <2>4. p.transaction.header \in Headers
    BY <2>1, <2>3, ResolvedHeaderTyped DEF TypedInv
  <2>5. /\ p.transaction.header.expiration \in 0..(U32 - 1)
        /\ p.transaction.header.ref_block_num \in 0..(U16 - 1)
    BY <2>4 DEF Headers
  <2>6. RequestTyped(request) /\ KindFits(request) /\ KindForm(request.kind)
    BY <2>1 DEF TypedInv, KindInv
  <2>7. \E r : \E c \in Contexts : \E s \in {None} \cup Signers :
          /\ RequestTyped(r) /\ KindFits(r) /\ KindForm(r.kind)
          /\ ctx = c /\ p = ResolveRequest(r, c, s)
    BY <2>6
  <2> HIDE DEF p
  <2>8. /\ resolved'.by = "resolve" /\ resolved'.ctx = ctx /\ resolved'.result = p
    BY <2>1
  <2>9. ResolvedInv'
    BY <2>2, <2>5, <2>7, <2>8 DEF ResolvedInv
  <2>. QED
    BY <2>1, <2>9 DEF TypedInv
<1>12. ASSUME NEW signer \in Signers, NEW tapos \in Tapos, NEW cid \in {None} \cup Chains,
              ResolvePayload(signer, tapos, cid)
       PROVE  TypedInv'
  <2> DEFINE p == FromPayload(uri, signer, tapos, cid)
  <2>1. /\ resolved' = IF Rebuildable(uri, tapos)
                         THEN [by |-> "payload", ctx |-> cid, from |-> signer, result |-> p] ELSE None
        /\ request' = None /\ uri' = None /\ login' = None
    BY <1>12 DEF ResolvePayload, Keep
  <2>2. tapos.ex \in 0..(U32 - 1) /\ tapos.rbn \in Nat
    BY TaposAssumption
  <2>3. CASE Rebuildable(uri, tapos)
    <3>1. tapos.rbn \in 0..(U16 - 1)
      BY <2>2, <2>3, WidthsAssumption DEF Rebuildable
    <3>2. PICK chain : p = ResolveExplicitTapos(DecodeUri(uri), chain, signer, tapos)
      BY DEF FromPayload
    <3>3. /\ p.signer \in Signers
          /\ p.transaction.header.expiration \in 0..(U32 - 1)
          /\ p.transaction.header.ref_block_num \in 0..(U16 - 1)
      BY <2>2, <3>1, <3>2, ExplicitTyped
    <3> HIDE DEF p
    <3>4. resolved'.by = "payload" /\ resolved'.result = p
      BY <2>1, <2>3
    <3>. QED
      BY <2>1, <3>3, <3>4 DEF TypedInv, ResolvedInv
  <2>. QED
    BY <2>1, <2>3 DEF TypedInv, ResolvedInv
<1>13. ASSUME NEW u, NEW signer \in Signers, Prove(u, signer)
       PROVE  TypedInv'
  <2> DEFINE p == ResolvedForProof(login.request, login.request.chain, signer)
  <2>1. /\ resolved' = [by |-> "proof", ctx |-> u, from |-> signer, result |-> p]
        /\ request' = None /\ uri' = None /\ login' = None
    BY <1>13 DEF Prove, Keep
  <2>2. NoTapos.ex \in 0..(U32 - 1) /\ NoTapos.rbn \in 0..(U16 - 1)
    BY WidthsAssumption DEF NoTapos
  <2>3. /\ p.signer \in Signers
        /\ p.transaction.header.expiration \in 0..(U32 - 1)
        /\ p.transaction.header.ref_block_num \in 0..(U16 - 1)
    BY <2>2, ExplicitTyped DEF ResolvedForProof
  <2> HIDE DEF p
  <2>4. resolved'.by = "proof" /\ resolved'.result = p
    BY <2>1
  <2>. QED
    BY <2>1, <2>3, <2>4 DEF TypedInv, ResolvedInv
<1>14. CASE UNCHANGED vars
  BY <1>14 DEF vars, TypedInv, ResolvedInv
<1>. QED
  BY <1>1, <1>2, <1>3, <1>4, <1>5, <1>6, <1>7, <1>8, <1>9, <1>10, <1>11, <1>12, <1>13, <1>14
     DEF Next

LEMMA TypedAlways == Spec => [](KindInv /\ TypedInv)
<1>1. Init => KindInv /\ ProofInv /\ TypedInv
  BY KindInit DEF Init, ProofInv, LoginInv, ProofMatches, TypedInv, ResolvedInv
<1>. QED
  BY <1>1, KindNext, ProofNext, TypedNext, PTL DEF Spec

\* Chains, authorizations, signers and header fields have their types, after
\* any calls and whatever other implementations wrote.
THEOREM TypeCorrect == Spec => []TypeOK
<1>1. TypedInv => TypeOK
  BY DEF TypedInv, ResolvedInv, TypeOK, RequestTyped, IsActions
<1>. QED
  BY <1>1, TypedAlways, PTL

-----------------------------------------------------------------------------
(* The header of resolve *)

LEMMA ModTwice ==
  ASSUME NEW n \in Nat, NEW w \in Nat \ {0}
  PROVE  (n % w) % w = n % w
<1>1. n % w \in 0..(w - 1)
  OBVIOUS
<1>2. \A k \in 0..(w - 1) : k % w = k
  OBVIOUS
<1>. QED
  BY <1>1, <1>2

\* The header that is made from the head of the chain.
FreshFor(h, ctx) ==
  /\ \/ h.expiration > ctx.head_time
     \/ ctx.head_time >= U32 - 1
     \/ ctx.expire_seconds = 0
  /\ h.ref_block_num % U16 = ctx.head_num % U16
  /\ h.ref_block_prefix = ctx.head_prefix

LEMMA FreshHeader ==
  ASSUME NEW ctx \in Contexts, NEW h,
         h.expiration = Expiration(ctx), h.ref_block_num = ctx.head_num % U16,
         h.ref_block_prefix = ctx.head_prefix
  PROVE  FreshFor(h, ctx)
<1>1. /\ ctx.head_num \in Nat /\ ctx.head_time \in Nat /\ ctx.expire_seconds \in Nat
      /\ U16 \in Nat \ {0} /\ U32 \in Nat \ {0}
  BY ContextsAssumption, WidthsAssumption
<1>2. \/ h.expiration > ctx.head_time
      \/ ctx.head_time >= U32 - 1
      \/ ctx.expire_seconds = 0
  <2>1. \/ h.expiration = ctx.head_time + ctx.expire_seconds
        \/ h.expiration = U32 - 1
    BY DEF Expiration
  <2>. QED
    BY <1>1, <2>1
<1>3. h.ref_block_num % U16 = ctx.head_num % U16
  BY <1>1, ModTwice
<1>. QED
  BY <1>2, <1>3 DEF FreshFor

LEMMA HeaderOfResolve ==
  ASSUME NEW r, NEW ctx \in Contexts
  PROVE  LET h == ResolvedHeader(r, ctx)
         IN  IF r.kind.tag = "Transaction" /\ ~EmptyHeader(r.kind.header)
               THEN h = r.kind.header ELSE FreshFor(h, ctx)
<1> DEFINE h == ResolvedHeader(r, ctx)
           fresh == Header(Expiration(ctx), ctx.head_num % U16, ctx.head_prefix)
<1>1. CASE r.kind.tag = "Transaction" /\ ~EmptyHeader(r.kind.header)
  BY <1>1 DEF ResolvedHeader
<1>2. ASSUME ~(r.kind.tag = "Transaction" /\ ~EmptyHeader(r.kind.header))
      PROVE  FreshFor(h, ctx)
  <2>1. h = fresh \/ h = [fresh EXCEPT !.limits = r.kind.header.limits]
    BY <1>2 DEF ResolvedHeader
  <2>2. /\ h.expiration = Expiration(ctx) /\ h.ref_block_num = ctx.head_num % U16
        /\ h.ref_block_prefix = ctx.head_prefix
    BY <2>1 DEF Header
  <2> HIDE DEF h
  <2>. QED
    BY <2>2, FreshHeader
<1>. QED
  BY <1>1, <1>2

\* A header that says anything is kept by resolve, and any other one names a
\* block that agrees with the head in 16 bits and has not expired at the head,
\* for every head of the chain and every width of the fields.
THEOREM HeadersHonoured == Spec => []HeaderHonoured
<1>1. ResolvedInv => HeaderHonoured
  <2> SUFFICES ASSUME ResolvedInv, resolved # None, resolved.by = "resolve"
               PROVE  HeaderHonoured
    BY DEF HeaderHonoured
  <2>0. PICK r : \E ctx \in Contexts : \E signer \in {None} \cup Signers :
          resolved.ctx = ctx /\ resolved.result = ResolveRequest(r, ctx, signer)
    BY DEF ResolvedInv
  <2>1. PICK ctx \in Contexts, signer \in {None} \cup Signers :
          resolved.ctx = ctx /\ resolved.result = ResolveRequest(r, ctx, signer)
    BY <2>0
  <2>2. /\ resolved.result.request = r
        /\ resolved.result.transaction.header = ResolvedHeader(r, ctx)
    BY <2>1 DEF ResolveRequest, Transaction
  <2>. QED
    BY <2>1, <2>2, HeaderOfResolve DEF HeaderHonoured, FreshFor
<1>. QED
  BY <1>1, TypedAlways, PTL DEF TypedInv

-----------------------------------------------------------------------------
(* The two resolvers make the same transaction *)

LEMMA PlainIsKept ==
  ASSUME NEW a, Plain(a), NEW signer
  PROVE  ResolveAction(a, signer) = a
BY DEF Plain, Filled, ResolveAction, IsPlaceholder, PlaceholderActor, PlaceholderPermission

LEMMA PlainActions ==
  ASSUME NEW r, IsActions(r.actions), \A a \in Set(r.actions) : Plain(a), NEW signer
  PROVE  ResolveActions(r, signer) = r.actions
<1>1. r.actions = [i \in DOMAIN r.actions |-> r.actions[i]]
  BY DEF IsActions
<1>2. \A i \in DOMAIN r.actions : ResolveAction(r.actions[i], signer) = r.actions[i]
  BY PlainIsKept DEF Set
<1>. QED
  BY <1>1, <1>2 DEF ResolveActions

\* A header without limits is what its fields make of it.
LEMMA HeaderOfFields ==
  ASSUME NEW h \in Headers, h.limits = 0
  PROVE  Header(h.expiration, h.ref_block_num, h.ref_block_prefix) = h
BY DEF Headers, Header

LEMMA RebuiltAlike ==
  ASSUME NEW r, RequestTyped(r), KindFits(r), KindForm(r.kind),
         NEW ctx \in Contexts, NEW signer \in {None} \cup Signers,
         ResolvedHeader(r, ctx).limits = 0, \A a \in Set(r.actions) : Plain(a)
  PROVE  LET k == ResolveRequest(r, ctx, signer)
             h == k.transaction.header
             tapos == [rbn |-> h.ref_block_num, rid |-> h.ref_block_prefix,
                       ex |-> h.expiration]
             rebuilt == FromPayload(EncodeUri(k.request), k.signer, tapos, k.chain)
         IN  /\ Rebuildable(EncodeUri(k.request), tapos)
             /\ rebuilt.transaction = k.transaction /\ rebuilt.chain = k.chain
<1> DEFINE k == ResolveRequest(r, ctx, signer)
           h == ResolvedHeader(r, ctx)
           tapos == [rbn |-> h.ref_block_num, rid |-> h.ref_block_prefix,
                     ex |-> h.expiration]
           u == EncodeUri(r)
           q == DecodeUri(u)
           rebuilt == FromPayload(u, k.signer, tapos, ctx.chain)
<1>1. /\ k.request = r /\ k.chain = ctx.chain
      /\ k.transaction = Transaction(h, r, r.actions)
      /\ k.transaction.header = h
  BY DEF ResolveRequest, Transaction
<1>2. h \in Headers
  BY ResolvedHeaderTyped
<1>3. Rebuildable(u, tapos)
  <2>1. Readable(u)
    BY EncodedReadable
  <2> HIDE DEF h, u
  <2>2. h.ref_block_num \in 0..(U16 - 1) /\ h.ref_block_prefix \in 0..(U32 - 1)
    BY <1>2 DEF Headers
  <2>. QED
    BY <2>1, <2>2, WidthsAssumption DEF Rebuildable
<1>4. q.actions = r.actions /\ q.kind = r.kind
  <2>1. SameRequest(q, r)
    BY RoundTrip
  <2> HIDE DEF q
  <2>. QED
    BY <2>1 DEF SameRequest
<1>5. ctx.chain # None
  BY ContextsAssumption, ValuesAssumption
<1> HIDE DEF h
<1>6. Header(tapos.ex, tapos.rbn, tapos.rid) = h
  BY <1>2, HeaderOfFields DEF h
<1>7. ResolveActions(r, k.signer) = r.actions
  BY PlainActions DEF RequestTyped
<1>8. rebuilt = ResolveExplicitTapos(q, ctx.chain, k.signer, tapos)
  BY <1>5 DEF FromPayload
<1> HIDE DEF k, q, tapos, u, rebuilt
<1>9. ResolveActions(q, k.signer) = r.actions
  BY <1>4, <1>7 DEF ResolveActions
<1>10. Transaction(h, q, r.actions) = Transaction(h, r, r.actions)
  BY <1>4 DEF Transaction
<1>11. rebuilt.transaction = k.transaction /\ rebuilt.chain = ctx.chain
  BY <1>1, <1>6, <1>8, <1>9, <1>10 DEF ResolveExplicitTapos
<1>. QED
  BY <1>1, <1>3, <1>11 DEF k, tapos, u, rebuilt

\* A callback that names the block, the expiration and the chain of any
\* transaction made by resolve is rebuilt to the same transaction, unless a
\* placeholder or a header limit is in it.
THEOREM ResolversMatch == Spec => []ResolversAgree
<1>1. ResolvedInv => ResolversAgree
  <2> SUFFICES ASSUME ResolvedInv, resolved # None, resolved.by = "resolve"
               PROVE  ResolversAgree
    BY DEF ResolversAgree
  <2>0. PICK r : \E ctx \in Contexts : \E signer \in {None} \cup Signers :
          /\ RequestTyped(r) /\ KindFits(r) /\ KindForm(r.kind)
          /\ resolved.ctx = ctx /\ resolved.result = ResolveRequest(r, ctx, signer)
    BY DEF ResolvedInv
  <2>1. PICK ctx \in Contexts, signer \in {None} \cup Signers :
          resolved.ctx = ctx /\ resolved.result = ResolveRequest(r, ctx, signer)
    BY <2>0
  <2> DEFINE k == ResolveRequest(r, ctx, signer)
  <2>2. /\ k.transaction.header = ResolvedHeader(r, ctx)
        /\ k.transaction.actions = r.actions
    BY DEF ResolveRequest, Transaction
  <2> HIDE DEF k
  <2>3. ASSUME k.transaction.header.limits = 0,
               \A a \in Set(k.transaction.actions) : Plain(a)
        PROVE  LET h == k.transaction.header
                   tapos == [rbn |-> h.ref_block_num, rid |-> h.ref_block_prefix,
                             ex |-> h.expiration]
                   rebuilt == FromPayload(EncodeUri(k.request), k.signer, tapos, k.chain)
               IN  /\ Rebuildable(EncodeUri(k.request), tapos)
                   /\ rebuilt.transaction = k.transaction /\ rebuilt.chain = k.chain
    BY <2>0, <2>2, <2>3, RebuiltAlike DEF k
  <2>4. resolved.result = k
    BY <2>1 DEF k
  <2>. QED
    BY <2>3, <2>4 DEF ResolversAgree
<1>. QED
  BY <1>1, TypedAlways, PTL DEF TypedInv

-----------------------------------------------------------------------------
(* A request asks for what the calls asked last *)

IsInfo(info) == info \in Seq(Set(info))

Places(info, key) == {i \in DOMAIN info : info[i].key = key}

\* One value of each key that was set, and none of the others.
InfoSays(info, said) ==
  \A k \in DOMAIN said :
    IF said[k] = None THEN Places(info, k) = {}
    ELSE \E i \in DOMAIN info : Places(info, k) = {i} /\ info[i].value = said[k]

\* What set_info_* makes of the info, and what it then says.
LEMMA InfoEdit ==
  ASSUME NEW info, IsInfo(info), NEW said, InfoSays(info, said), NEW kv, kv.value # None
  PROVE  LET q == Append(Retain(info, {i \in DOMAIN info : info[i].key # kv.key}), kv)
         IN  IsInfo(q) /\ InfoSays(q, [said EXCEPT ![kv.key] = kv.value])
<1> DEFINE n == Len(info)
           I == {i \in DOMAIN info : info[i].key # kv.key}
           c == Cardinality(I)
           at(j) == Position(j, I)
           R == Retain(info, I)
           q == Append(R, kv)
           says == [said EXCEPT ![kv.key] = kv.value]
<1>1. n \in Nat /\ DOMAIN info = 1..n
  BY DEF IsInfo
<1>2. I \in SUBSET (1..n)
  BY <1>1
<1>3. I \in SUBSET (DOMAIN info)
  OBVIOUS
<1>4. \A i \in DOMAIN info : i \in I <=> info[i].key # kv.key
  OBVIOUS
<1> HIDE DEF I, n
<1>5. c \in Nat /\ DOMAIN R = 1..c
  BY <1>1, <1>2, OrderKept
<1>6. /\ \A j \in 1..c : at(j) \in I /\ R[j] = info[at(j)]
      /\ \A j, k \in 1..c : j < k => at(j) < at(k)
      /\ \A i \in I : \E j \in 1..c : at(j) = i
  BY <1>1, <1>2, OrderKept
<1> HIDE DEF at
<1>7. R = [j \in 1..c |-> R[j]]
  BY <1>5 DEF Retain
<1> HIDE DEF c, R
<1>8. R \in Seq(Set(R)) /\ Len(R) = c
  <2>1. \A j \in 1..c : R[j] \in Set(R)
    BY <1>5 DEF Set
  <2>. QED
    BY <1>5, <1>7, <2>1
<1>9. /\ q \in Seq(Set(R) \cup {kv}) /\ DOMAIN q = 1..(c + 1) /\ Len(q) = c + 1
      /\ q[c + 1] = kv /\ \A j \in 1..c : q[j] = R[j]
  <2>1. kv \in Set(R) \cup {kv} /\ R \in Seq(Set(R) \cup {kv})
    BY <1>8
  <2>. QED
    BY <1>5, <1>8, <2>1, AppendProperties
<1> HIDE DEF q
<1>10. IsInfo(q)
  <2> DEFINE S == Set(R) \cup {kv}
  <2>0. q \in Seq(S)
    BY <1>9
  <2> HIDE DEF S
  <2>1. Len(q) \in Nat /\ DOMAIN q = 1..Len(q) /\ q = [j \in 1..Len(q) |-> q[j]]
    BY <2>0
  <2>2. \A j \in 1..Len(q) : q[j] \in Set(q)
    BY <2>1 DEF Set
  <2>3. q \in Seq(Set(q))
    BY <2>1, <2>2
  <2>. QED
    BY <2>3 DEF IsInfo
<1>11. \A j \in 1..c : /\ j \in DOMAIN q /\ at(j) \in DOMAIN info
                       /\ q[j] = info[at(j)] /\ q[j].key # kv.key
  <2> SUFFICES ASSUME NEW j \in 1..c
               PROVE  /\ j \in DOMAIN q /\ at(j) \in DOMAIN info
                      /\ q[j] = info[at(j)] /\ q[j].key # kv.key
    OBVIOUS
  <2>1. at(j) \in I /\ R[j] = info[at(j)]
    BY <1>6
  <2>2. at(j) \in DOMAIN info
    BY <1>3, <2>1
  <2>3. j \in 1..(c + 1)
    BY <1>5
  <2>. QED
    BY <1>4, <1>9, <2>1, <2>2, <2>3
<1>12. \A j \in DOMAIN q : j \in 1..c \/ j = c + 1
  BY <1>5, <1>9
<1>13. c + 1 \in DOMAIN q /\ c + 1 \notin 1..c
  BY <1>5, <1>9
<1>14. \A j, k \in 1..c : at(j) = at(k) => j = k
  <2> SUFFICES ASSUME NEW j \in 1..c, NEW k \in 1..c, j # k PROVE at(j) # at(k)
    OBVIOUS
  <2>1. j < k \/ k < j
    BY <1>5
  <2>2. at(j) \in I /\ at(k) \in I
    BY <1>6
  <2>3. at(j) \in Nat /\ at(k) \in Nat
    BY <1>1, <1>3, <2>2
  <2>4. at(j) < at(k) \/ at(k) < at(j)
    BY <1>6, <2>1
  <2>. QED
    BY <2>3, <2>4
<1>15. ASSUME NEW k \in DOMAIN said, k = kv.key
       PROVE  \E i \in DOMAIN q : Places(q, k) = {i} /\ q[i].value = kv.value
  <2>1. Places(q, k) = {c + 1}
    BY <1>9, <1>11, <1>12, <1>13, <1>15 DEF Places
  <2>. QED
    BY <1>9, <1>13, <2>1
<1>16. ASSUME NEW k \in DOMAIN said, k # kv.key, said[k] = None
       PROVE  Places(q, k) = {}
  <2>1. Places(info, k) = {}
    BY <1>16 DEF InfoSays
  <2>2. \A i \in DOMAIN info : info[i].key # k
    BY <2>1 DEF Places
  <2>. QED
    BY <1>9, <1>11, <1>12, <1>16, <2>2 DEF Places
<1>17. ASSUME NEW k \in DOMAIN said, k # kv.key, said[k] # None
       PROVE  \E i \in DOMAIN q : Places(q, k) = {i} /\ q[i].value = said[k]
  <2>1. PICK i \in DOMAIN info : Places(info, k) = {i} /\ info[i].value = said[k]
    BY <1>17 DEF InfoSays
  <2>2. info[i].key = k /\ \A h \in DOMAIN info : info[h].key = k => h = i
    BY <2>1 DEF Places
  <2>3. PICK j \in 1..c : at(j) = i
    BY <1>4, <1>6, <1>17, <2>2
  <2>4. j \in DOMAIN q /\ q[j] = info[i]
    BY <1>11, <2>3
  <2>5. \A h \in DOMAIN q : q[h].key = k => h = j
    BY <1>9, <1>11, <1>12, <1>14, <1>17, <2>2, <2>3
  <2>6. Places(q, k) = {j}
    BY <2>2, <2>4, <2>5 DEF Places
  <2>. QED
    BY <2>1, <2>4, <2>6
<1>18. /\ DOMAIN says = DOMAIN said
       /\ \A k \in DOMAIN said : says[k] = IF k = kv.key THEN kv.value ELSE said[k]
  OBVIOUS
<1> HIDE DEF says
<1>19. InfoSays(q, says)
  BY <1>15, <1>16, <1>17, <1>18 DEF InfoSays
<1>. QED
  BY <1>10, <1>19 DEF q, R, I, says

\* What calls ask for besides the info.
SaysRest(r, a) ==
  /\ r.chain = a.chain /\ r.actions = a.actions
  /\ SameCallback(r.callback, CallbackUrl(a.callback))
  /\ r.flags = Background(a.callback) \cup IF a.broadcast THEN {"broadcast"} ELSE {}
  /\ IsIdentity(r) <=> a.identity

LEMMA SaysParts ==
  ASSUME NEW r, NEW a
  PROVE  Says(r, a) <=> SaysRest(r, a) /\ InfoSays(r.info, a.info)
BY Zenon DEF Says, SaysRest, InfoSays, Values, Places

AskedFields == {"chain", "actions", "callback", "info", "identity", "broadcast"}

\* The record a of calls that asked for r can be amended by the next call.
Said(r, a) ==
  /\ Fields \subseteq DOMAIN r /\ IsInfo(r.info)
  /\ AskedFields \subseteq DOMAIN a /\ DOMAIN a.info = DOMAIN NoInfo
  /\ Says(r, a)

SaidInv ==
  /\ request # None /\ asked # None => Said(request, asked)
  /\ uri # None /\ written # None => Readable(uri) /\ Said(DecodeUri(uri), written)
  /\ login # None => /\ Said(login.request, login.asked)
                     /\ Said(login.same_device_request, login.same_device_asked)

\* A request that is read back says what the written one said.
LEMMA SaidReadBack ==
  ASSUME NEW r, NEW a, Said(r, a), KindFits(r), KindForm(r.kind)
  PROVE  Readable(EncodeUri(r)) /\ Said(DecodeUri(EncodeUri(r)), a)
<1> DEFINE q == DecodeUri(EncodeUri(r))
<1>1. Readable(EncodeUri(r))
  BY EncodedReadable
<1>2. SameRequest(q, r)
  BY RoundTrip
<1>3. DOMAIN q = Fields
  BY DEF DecodeUri, Fields
<1> HIDE DEF q
<1>4. /\ q.chain = r.chain /\ q.actions = r.actions /\ q.kind = r.kind
      /\ q.flags = r.flags /\ q.info = r.info
      /\ SameCallback(q.callback, r.callback)
  BY <1>2 DEF SameRequest
<1>5. SaysRest(r, a) /\ InfoSays(r.info, a.info)
  BY SaysParts DEF Said
<1>6. SameCallback(q.callback, CallbackUrl(a.callback))
  <2>1. SameCallback(r.callback, CallbackUrl(a.callback))
    BY <1>5 DEF SaysRest
  <2>2. \A x, y, z : SameCallback(x, y) /\ SameCallback(y, z) => SameCallback(x, z)
    BY DEF SameCallback
  <2>. QED
    BY <1>4, <2>1, <2>2
<1>7. SaysRest(q, a)
  BY <1>4, <1>5, <1>6, Zenon DEF SaysRest, IsIdentity
<1>8. Says(q, a)
  BY <1>4, <1>5, <1>7, SaysParts
<1>9. Said(q, a)
  BY <1>3, <1>4, <1>8 DEF Said
<1>. QED
  BY <1>1, <1>9 DEF q

LEMMA SaidInfo ==
  ASSUME NEW r, NEW a, Said(r, a), NEW kv, kv.value # None
  PROVE  Said(WithInfo(r, kv), [a EXCEPT !.info[kv.key] = kv.value])
<1> DEFINE info == Append(Retain(r.info, {i \in DOMAIN r.info : r.info[i].key # kv.key}), kv)
           said == [a.info EXCEPT ![kv.key] = kv.value]
           q == WithInfo(r, kv)
           b == [a EXCEPT !.info[kv.key] = kv.value]
<1>1. SaysRest(r, a) /\ InfoSays(r.info, a.info) /\ IsInfo(r.info)
  BY SaysParts DEF Said
<1>2. IsInfo(info) /\ InfoSays(info, said)
  BY <1>1, InfoEdit
<1>3. DOMAIN said = DOMAIN NoInfo
  BY DEF Said
<1> HIDE DEF info, said
<1>4. /\ DOMAIN q = DOMAIN r /\ q.info = info
      /\ q.chain = r.chain /\ q.actions = r.actions /\ q.kind = r.kind
      /\ q.flags = r.flags /\ q.callback = r.callback
  BY DEF WithInfo, Said, Fields, info
<1>5. /\ DOMAIN b = DOMAIN a /\ b.info = said
      /\ b.chain = a.chain /\ b.actions = a.actions /\ b.callback = a.callback
      /\ b.identity = a.identity /\ b.broadcast = a.broadcast
  BY DEF Said, AskedFields, said
<1> HIDE DEF q, b
<1>6. SaysRest(q, b)
  BY <1>1, <1>4, <1>5, Zenon DEF SaysRest, IsIdentity
<1>7. Says(q, b)
  BY <1>2, <1>4, <1>5, <1>6, SaysParts
<1>8. Said(q, b)
  BY <1>2, <1>3, <1>4, <1>5, <1>7 DEF Said
<1>. QED
  BY <1>8 DEF q, b

LEMMA SaidBroadcast ==
  ASSUME NEW r, NEW a, Said(r, a), NEW on \in BOOLEAN
  PROVE  Said(WithBroadcast(r, on), [a EXCEPT !.broadcast = on])
<1> DEFINE q == WithBroadcast(r, on)
           b == [a EXCEPT !.broadcast = on]
<1>1. SaysRest(r, a) /\ InfoSays(r.info, a.info)
  BY SaysParts DEF Said
<1>2. /\ DOMAIN q = DOMAIN r /\ q.info = r.info
      /\ q.chain = r.chain /\ q.actions = r.actions /\ q.kind = r.kind
      /\ q.callback = r.callback
      /\ q.flags = IF on THEN r.flags \cup {"broadcast"} ELSE r.flags \ {"broadcast"}
  BY DEF WithBroadcast, Said, Fields
<1>3. /\ DOMAIN b = DOMAIN a /\ b.info = a.info
      /\ b.chain = a.chain /\ b.actions = a.actions /\ b.callback = a.callback
      /\ b.identity = a.identity /\ b.broadcast = on
  BY DEF Said, AskedFields
<1> HIDE DEF q, b
<1>4. q.flags = Background(b.callback) \cup IF b.broadcast THEN {"broadcast"} ELSE {}
  <2>1. r.flags \in {Background(a.callback), Background(a.callback) \cup {"broadcast"}}
    BY <1>1 DEF SaysRest
  <2>2. "broadcast" \notin Background(a.callback)
    BY DEF Background
  <2>3. CASE on = TRUE
    BY <1>2, <1>3, <2>1, <2>3
  <2>4. CASE on = FALSE
    BY <1>2, <1>3, <2>1, <2>2, <2>4
  <2>. QED
    BY <2>3, <2>4
<1>5. SaysRest(q, b)
  BY <1>1, <1>2, <1>3, <1>4, Zenon DEF SaysRest, IsIdentity
<1>6. Says(q, b)
  BY <1>1, <1>2, <1>3, <1>5, SaysParts
<1>7. Said(q, b)
  BY <1>2, <1>3, <1>6 DEF Said
<1>. QED
  BY <1>7 DEF q, b

\* Two records of calls that asked for the same.
Alike(b, a) ==
  /\ AskedFields \subseteq DOMAIN b
  /\ b.chain = a.chain /\ b.actions = a.actions /\ b.callback = a.callback
  /\ b.identity = a.identity /\ b.broadcast = a.broadcast
  /\ DOMAIN b.info = DOMAIN a.info
  /\ \A k \in DOMAIN a.info : b.info[k] = a.info[k]

LEMMA SaidAlike ==
  ASSUME NEW r, NEW a, NEW b, Said(r, a), Alike(b, a)
  PROVE  Said(r, b)
<1>1. SaysRest(r, a) /\ InfoSays(r.info, a.info)
  BY SaysParts DEF Said
<1>2. InfoSays(r.info, b.info)
  BY <1>1 DEF InfoSays, Alike
<1>3. SaysRest(r, b)
  BY <1>1, Zenon DEF SaysRest, Alike
<1>4. Says(r, b)
  BY <1>2, <1>3, SaysParts
<1>. QED
  BY <1>4 DEF Said, Alike

\* A request no info key of which is set yet.
LEMMA SaidFresh ==
  ASSUME NEW r, DOMAIN r = Fields, r.info = <<>>,
         NEW a, DOMAIN a = AskedFields, a.info = NoInfo, SaysRest(r, a)
  PROVE  Said(r, a)
<1>1. IsInfo(r.info)
  BY DEF IsInfo
<1>2. InfoSays(r.info, a.info)
  BY DEF InfoSays, Places, NoInfo
<1>3. Says(r, a)
  BY <1>2, SaysParts
<1>. QED
  BY <1>1, <1>3 DEF Said

\* What the calls of create and create_identity ask for.
AskedCreate(chain, actions, cb) ==
  [chain |-> chain, actions |-> actions, callback |-> cb, info |-> NoInfo,
   identity |-> FALSE, broadcast |-> TRUE]

AskedIdentity(chain, permission, cb) ==
  [chain |-> chain, actions |-> <<IdentityAction(permission)>>, callback |-> cb,
   info |-> NoInfo, identity |-> TRUE, broadcast |-> FALSE]

LEMMA SaidCreate ==
  ASSUME NEW chain, NEW actions, NEW cb
  PROVE  Said(CreateRequest(chain, actions, cb), AskedCreate(chain, actions, cb))
<1> DEFINE r == CreateRequest(chain, actions, cb)
           a == AskedCreate(chain, actions, cb)
<1>1. /\ DOMAIN r = Fields /\ r.info = <<>>
      /\ r.chain = chain /\ r.actions = actions /\ r.callback = CallbackUrl(cb)
      /\ r.flags = {"broadcast"} \cup Background(cb)
      /\ r.kind.tag \in {"Action", "Actions"}
  BY DEF CreateRequest, Fields, ActionKind, ActionsKind
<1>2. /\ DOMAIN a = AskedFields /\ a.info = NoInfo
      /\ a.chain = chain /\ a.actions = actions /\ a.callback = cb
      /\ a.identity = FALSE /\ a.broadcast = TRUE
  BY DEF AskedCreate, AskedFields
<1> HIDE DEF r, a
<1>3. ~IsIdentity(r)
  BY <1>1 DEF IsIdentity
<1>4. r.flags = Background(cb) \cup IF a.broadcast THEN {"broadcast"} ELSE {}
  BY <1>1, <1>2
<1>5. SameCallback(r.callback, CallbackUrl(a.callback))
  BY <1>1, <1>2 DEF SameCallback
<1>6. SaysRest(r, a)
  BY <1>1, <1>2, <1>3, <1>4, <1>5 DEF SaysRest
<1>7. Said(r, a)
  BY <1>1, <1>2, <1>6, SaidFresh
<1>. QED
  BY <1>7 DEF r, a

LEMMA SaidCreateIdentity ==
  ASSUME NEW chain, NEW scope, NEW permission, NEW cb
  PROVE  Said(CreateIdentityRequest(chain, scope, permission, cb),
              AskedIdentity(chain, permission, cb))
<1> DEFINE r == CreateIdentityRequest(chain, scope, permission, cb)
           a == AskedIdentity(chain, permission, cb)
<1>1. /\ DOMAIN r = Fields /\ r.info = <<>>
      /\ r.chain = chain /\ r.actions = <<IdentityAction(permission)>>
      /\ r.callback = CallbackUrl(cb) /\ r.flags = Background(cb)
      /\ r.kind.tag = "Identity"
  BY DEF CreateIdentityRequest, Fields, IdentityKind
<1>2. /\ DOMAIN a = AskedFields /\ a.info = NoInfo
      /\ a.chain = chain /\ a.actions = <<IdentityAction(permission)>>
      /\ a.callback = cb /\ a.identity = TRUE /\ a.broadcast = FALSE
  BY DEF AskedIdentity, AskedFields
<1> HIDE DEF r, a
<1>3. IsIdentity(r)
  BY <1>1 DEF IsIdentity
<1>4. r.flags = Background(cb) \cup IF a.broadcast THEN {"broadcast"} ELSE {}
  BY <1>1, <1>2
<1>5. SameCallback(r.callback, CallbackUrl(a.callback))
  BY <1>1, <1>2 DEF SameCallback
<1>6. SaysRest(r, a)
  BY <1>1, <1>2, <1>3, <1>4, <1>5 DEF SaysRest
<1>7. Said(r, a)
  BY <1>1, <1>2, <1>6, SaidFresh
<1>. QED
  BY <1>7 DEF r, a

\* The keys of a handheld are added to what was asked.
LEMMA SaidDevice ==
  ASSUME NEW r, NEW a, Said(r, a), a.info["return_path"] = None, NEW device
  PROVE  Said(SameDevice(r, device), [a EXCEPT !.info = OnDevice(@, device)])
<1> DEFINE here   == [key |-> "same_device", value |-> 1]
           back   == [key |-> "return_path", value |-> device.path]
           marked == WithInfo(r, here)
           a1 == [a EXCEPT !.info["same_device"] = 1]
           a2 == [a1 EXCEPT !.info["return_path"] = device.path]
           b  == [a EXCEPT !.info = OnDevice(@, device)]
           q  == SameDevice(r, device)
<1>1. /\ "info" \in DOMAIN a /\ AskedFields \subseteq DOMAIN a /\ DOMAIN a.info = DOMAIN NoInfo
      /\ "same_device" \in DOMAIN NoInfo /\ "return_path" \in DOMAIN NoInfo
  BY DEF Said, AskedFields, NoInfo
<1>2. here.value # None /\ here.key = "same_device" /\ here.value = 1
  BY ValuesAssumption
<1>3. Said(marked, a1)
  <2> HIDE DEF here
  <2>1. Said(marked, [a EXCEPT !.info[here.key] = here.value])
    BY <1>2, SaidInfo
  <2>. QED
    BY <1>2, <2>1
<1>4. device # None /\ device.path # None => Said(WithInfo(marked, back), a2)
  <2>1. back.key = "return_path" /\ back.value = device.path
    OBVIOUS
  <2> HIDE DEF back, marked, a1
  <2>2. ASSUME device.path # None
        PROVE  Said(WithInfo(marked, back), [a1 EXCEPT !.info[back.key] = back.value])
    BY <1>3, <2>1, <2>2, SaidInfo
  <2>. QED
    BY <2>1, <2>2
<1>5. \/ device = None /\ q = r
      \/ device # None /\ device.path = None /\ q = marked
      \/ device # None /\ device.path # None /\ q = WithInfo(marked, back)
  BY DEF SameDevice
<1> HIDE DEF q, marked, here, back
<1>6. /\ AskedFields \subseteq DOMAIN b /\ b.chain = a.chain /\ b.actions = a.actions
      /\ b.callback = a.callback /\ b.identity = a.identity /\ b.broadcast = a.broadcast
      /\ b.info = OnDevice(a.info, device)
  BY <1>1 DEF AskedFields
<1>7. /\ a1.chain = a.chain /\ a1.actions = a.actions
      /\ a1.callback = a.callback /\ a1.identity = a.identity /\ a1.broadcast = a.broadcast
      /\ a1.info = [a.info EXCEPT !["same_device"] = 1] /\ "info" \in DOMAIN a1
  BY <1>1 DEF AskedFields
<1> HIDE DEF a1, b
<1>8. /\ a2.chain = a1.chain /\ a2.actions = a1.actions
      /\ a2.callback = a1.callback /\ a2.identity = a1.identity
      /\ a2.broadcast = a1.broadcast
      /\ a2.info = [a1.info EXCEPT !["return_path"] = device.path]
  BY <1>7 DEF AskedFields
<1> HIDE DEF a2
<1>9. CASE device = None
  <2>1. b.info = a.info
    BY <1>6, <1>9 DEF OnDevice
  <2>2. Alike(b, a)
    BY <1>6, <2>1 DEF Alike
  <2>. QED
    BY <1>5, <1>9, <2>2, SaidAlike DEF q, b
<1>10. ASSUME device # None
       PROVE  /\ DOMAIN b.info = DOMAIN a.info
              /\ b.info["same_device"] = 1 /\ b.info["return_path"] = device.path
              /\ \A k \in DOMAIN a.info \ {"same_device", "return_path"} :
                   b.info[k] = a.info[k]
  BY <1>1, <1>6, <1>10 DEF OnDevice
<1>11. ASSUME device # None, device.path = None PROVE Said(q, b)
  <2>1. /\ DOMAIN a1.info = DOMAIN a.info /\ a1.info["same_device"] = 1
        /\ \A k \in DOMAIN a.info \ {"same_device"} : a1.info[k] = a.info[k]
    BY <1>1, <1>7
  <2>2. DOMAIN b.info = DOMAIN a1.info /\ \A k \in DOMAIN a1.info : b.info[k] = a1.info[k]
    BY <1>10, <1>11, <2>1
  <2>3. Alike(b, a1)
    BY <1>6, <1>7, <2>2 DEF Alike
  <2>. QED
    BY <1>3, <1>5, <1>11, <2>3, SaidAlike
<1>12. ASSUME device # None, device.path # None PROVE Said(q, b)
  <2>1. /\ DOMAIN a2.info = DOMAIN a.info /\ a2.info["same_device"] = 1
        /\ a2.info["return_path"] = device.path
        /\ \A k \in DOMAIN a.info \ {"same_device", "return_path"} : a2.info[k] = a.info[k]
    BY <1>1, <1>7, <1>8
  <2>2. DOMAIN b.info = DOMAIN a2.info /\ \A k \in DOMAIN a2.info : b.info[k] = a2.info[k]
    BY <1>10, <1>12, <2>1
  <2>3. Alike(b, a2)
    BY <1>6, <1>7, <1>8, <2>2 DEF Alike
  <2>. QED
    BY <1>4, <1>5, <1>12, <2>3, SaidAlike
<1>. QED
  BY <1>9, <1>11, <1>12 DEF q, b

\* The request of a signature says what run_sign was asked.
LEMMA SaidSign ==
  ASSUME NEW chain, NEW actions, NEW url, NEW device, NEW link \in Links
  PROVE  Said(BuildSignRequest(chain, actions, url, device, link),
              [chain |-> chain, actions |-> actions,
               callback |-> [url |-> url, background |-> TRUE],
               info |-> OnDevice([NoInfo EXCEPT !["link"] = link], device),
               identity |-> FALSE, broadcast |-> FALSE])
<1> DEFINE cb == [url |-> url, background |-> TRUE]
           c  == CreateRequest(chain, actions, cb)
           a0 == AskedCreate(chain, actions, cb)
           r1 == WithBroadcast(c, FALSE)
           a1 == [a0 EXCEPT !.broadcast = FALSE]
           r2 == SameDevice(r1, device)
           a2 == [a1 EXCEPT !.info = OnDevice(@, device)]
           kv == [key |-> "link", value |-> link]
           a3 == [a2 EXCEPT !.info["link"] = link]
           q  == BuildSignRequest(chain, actions, url, device, link)
           b  == [chain |-> chain, actions |-> actions, callback |-> cb,
                  info |-> OnDevice([NoInfo EXCEPT !["link"] = link], device),
                  identity |-> FALSE, broadcast |-> FALSE]
<1>1. Said(c, a0)
  BY SaidCreate
<1>2. /\ a1.chain = chain /\ a1.actions = actions /\ a1.callback = cb
      /\ a1.identity = FALSE /\ a1.broadcast = FALSE /\ a1.info = NoInfo
      /\ DOMAIN a1 = AskedFields
  BY DEF AskedCreate, AskedFields
<1>3. NoInfo["return_path"] = None
  BY DEF NoInfo
<1>4. q = WithInfo(r2, kv)
  BY DEF BuildSignRequest
<1> HIDE DEF c, a0, q, cb
<1>5. Said(r1, a1)
  BY <1>1, SaidBroadcast
<1> HIDE DEF r1, a1
<1>6. Said(r2, a2)
  BY <1>2, <1>3, <1>5, SaidDevice
<1>7. /\ a2.chain = chain /\ a2.actions = actions /\ a2.callback = cb
      /\ a2.identity = FALSE /\ a2.broadcast = FALSE
      /\ a2.info = OnDevice(NoInfo, device) /\ DOMAIN a2 = AskedFields
  BY <1>2 DEF AskedFields
<1> HIDE DEF r2, a2
<1>8. kv.key = "link" /\ kv.value = link /\ kv.value # None
  BY ValuesAssumption
<1>9. Said(q, a3)
  <2> HIDE DEF kv, a3
  <2>1. Said(q, [a2 EXCEPT !.info[kv.key] = kv.value])
    BY <1>4, <1>6, <1>8, SaidInfo
  <2>. QED
    BY <1>8, <2>1 DEF a3
<1>10. /\ a3.chain = chain /\ a3.actions = actions /\ a3.callback = cb
       /\ a3.identity = FALSE /\ a3.broadcast = FALSE
       /\ a3.info = [a2.info EXCEPT !["link"] = link]
  BY <1>7 DEF AskedFields
<1>11. /\ b.chain = chain /\ b.actions = actions /\ b.callback = cb
       /\ b.identity = FALSE /\ b.broadcast = FALSE /\ AskedFields \subseteq DOMAIN b
       /\ b.info = OnDevice([NoInfo EXCEPT !["link"] = link], device)
  BY DEF AskedFields
<1> HIDE DEF a3, b
<1>12. DOMAIN b.info = DOMAIN a3.info /\ \A k \in DOMAIN a3.info : b.info[k] = a3.info[k]
  BY <1>7, <1>10, <1>11 DEF OnDevice
<1>13. Alike(b, a3)
  BY <1>10, <1>11, <1>12 DEF Alike
<1>14. Said(q, b)
  BY <1>9, <1>13, SaidAlike
<1>. QED
  BY <1>14 DEF q, b, cb

\* The two requests of a login say what run_login was asked.
LEMMA SaidLogin ==
  ASSUME NEW chain, NEW url, NEW device, NEW link \in Links
  PROVE  LET r == LoginRequest(chain, url, link)
             a == [chain |-> chain, actions |-> <<IdentityAction(None)>>,
                   callback |-> [url |-> url, background |-> TRUE],
                   info |-> [NoInfo EXCEPT !["link"] = link],
                   identity |-> TRUE, broadcast |-> FALSE]
         IN  /\ Said(r, a)
             /\ Said(SameDevice(r, device), [a EXCEPT !.info = OnDevice(@, device)])
<1> DEFINE cb == [url |-> url, background |-> TRUE]
           c  == CreateIdentityRequest(chain, None, None, cb)
           a0 == AskedIdentity(chain, None, cb)
           kv == [key |-> "link", value |-> link]
           a1 == [a0 EXCEPT !.info["link"] = link]
           r  == LoginRequest(chain, url, link)
           a  == [chain |-> chain, actions |-> <<IdentityAction(None)>>, callback |-> cb,
                  info |-> [NoInfo EXCEPT !["link"] = link],
                  identity |-> TRUE, broadcast |-> FALSE]
<1>1. Said(c, a0)
  BY SaidCreateIdentity
<1>2. r = WithInfo(c, kv)
  BY DEF LoginRequest
<1>3. kv.key = "link" /\ kv.value = link /\ kv.value # None
  BY ValuesAssumption
<1>4. /\ a1.chain = a.chain /\ a1.actions = a.actions /\ a1.callback = a.callback
      /\ a1.identity = a.identity /\ a1.broadcast = a.broadcast
      /\ a1.info = [NoInfo EXCEPT !["link"] = link] /\ a1.info = a.info
      /\ AskedFields \subseteq DOMAIN a
  BY DEF AskedIdentity, AskedFields
<1>5. a.info["return_path"] = None
  BY DEF NoInfo
<1> HIDE DEF c, a0, r, a, kv
<1>6. Said(r, a1)
  <2>1. Said(r, [a0 EXCEPT !.info[kv.key] = kv.value])
    BY <1>1, <1>2, <1>3, SaidInfo
  <2>. QED
    BY <1>3, <2>1
<1> HIDE DEF a1
<1>7. Alike(a, a1)
  BY <1>4 DEF Alike
<1>8. Said(r, a)
  BY <1>6, <1>7, SaidAlike
<1>9. Said(SameDevice(r, device), [a EXCEPT !.info = OnDevice(@, device)])
  BY <1>5, <1>8, SaidDevice
<1>. QED
  BY <1>8, <1>9 DEF r, a, cb

LEMMA SaidNext ==
  KindInv /\ ProofInv /\ SaidInv /\ [Next]_vars => SaidInv'
<1> SUFFICES ASSUME KindInv, ProofInv, SaidInv, [Next]_vars PROVE SaidInv'
  OBVIOUS
<1>1. ASSUME NEW chain \in Chains, NEW actions \in ActionLists,
             NEW cb \in {None} \cup Callbacks, Create(chain, actions, cb)
      PROVE  SaidInv'
  <2>1. Said(request', asked')
    BY <1>1, SaidCreate DEF Create, AskedCreate
  <2>. QED
    BY <1>1, <2>1 DEF Create, SaidInv
<1>2. ASSUME NEW chain \in Chains, NEW scope \in {None} \cup Scopes,
             NEW permission \in {None} \cup Signers, NEW cb \in {None} \cup Callbacks,
             CreateIdentity(chain, scope, permission, cb)
      PROVE  SaidInv'
  <2>1. Said(request', asked')
    BY <1>2, SaidCreateIdentity DEF CreateIdentity, AskedIdentity
  <2>. QED
    BY <1>2, <2>1 DEF CreateIdentity, SaidInv
<1>3. ASSUME NEW chain \in Chains, NEW actions \in ActionLists, NEW url \in Urls,
             NEW device \in Devices, NEW link \in Links,
             CreateSign(chain, actions, url, device, link)
      PROVE  SaidInv'
  <2>1. Said(request', asked')
    BY <1>3, SaidSign DEF CreateSign
  <2>. QED
    BY <1>3, <2>1 DEF CreateSign, SaidInv
<1>4. ASSUME NEW chain \in Chains, NEW url \in Urls, NEW device \in Devices, NEW link \in Links,
             CreateLogin(chain, url, device, link)
      PROVE  SaidInv'
  <2> DEFINE r == LoginRequest(chain, url, link)
             a == [chain |-> chain, actions |-> <<IdentityAction(None)>>,
                   callback |-> [url |-> url, background |-> TRUE],
                   info |-> [NoInfo EXCEPT !["link"] = link],
                   identity |-> TRUE, broadcast |-> FALSE]
  <2>1. Said(r, a) /\ Said(SameDevice(r, device), [a EXCEPT !.info = OnDevice(@, device)])
    BY SaidLogin
  <2>2. login' = [request |-> r, same_device_request |-> SameDevice(r, device), asked |-> a,
                  same_device_asked |-> [a EXCEPT !.info = OnDevice(@, device)]]
    BY <1>4 DEF CreateLogin
  <2> HIDE DEF r, a
  <2>3. /\ Said(login'.request, login'.asked)
        /\ Said(login'.same_device_request, login'.same_device_asked)
    BY <2>1, <2>2
  <2>. QED
    BY <1>4, <2>3 DEF CreateLogin, SaidInv
<1>5. ASSUME NEW kv \in InfoPairs, SetInfo(kv)
      PROVE  SaidInv'
  <2>1. kv.value # None
    BY ValuesAssumption
  <2>2. ASSUME asked' # None PROVE Said(request', asked')
    <3>1. /\ Said(request, asked) /\ request' = WithInfo(request, kv)
          /\ asked' = [asked EXCEPT !.info[kv.key] = kv.value]
      BY <1>5, <2>2 DEF SetInfo, SaidInv
    <3>. QED
      BY <2>1, <3>1, SaidInfo
  <2>. QED
    BY <1>5, <2>2 DEF SetInfo, SaidInv
<1>6. ASSUME NEW b \in BOOLEAN, SetBroadcast(b)
      PROVE  SaidInv'
  <2>1. ASSUME asked' # None PROVE Said(request', asked')
    <3>1. /\ Said(request, asked) /\ request' = WithBroadcast(request, b)
          /\ asked' = [asked EXCEPT !.broadcast = b]
      BY <1>6, <2>1 DEF SetBroadcast, SaidInv
    <3>. QED
      BY <3>1, SaidBroadcast
  <2>. QED
    BY <1>6, <2>1 DEF SetBroadcast, SaidInv
<1>7. CASE Encode
  <2>1. ASSUME written' # None PROVE Readable(uri') /\ Said(DecodeUri(uri'), written')
    BY <1>7, <2>1, SaidReadBack DEF Encode, SaidInv, KindInv
  <2>. QED
    BY <1>7, <2>1 DEF Encode, SaidInv
<1>8. CASE ShowLogin
  <2>1. /\ KindFits(login.request) /\ KindForm(login.request.kind)
        /\ KindFits(login.same_device_request) /\ KindForm(login.same_device_request.kind)
    BY <1>8 DEF ShowLogin, ProofInv, LoginInv, Keeps, KindFits
  <2>2. /\ Said(login.request, login.asked)
        /\ Said(login.same_device_request, login.same_device_asked)
    BY <1>8 DEF ShowLogin, SaidInv
  <2>3. Readable(uri') /\ Said(DecodeUri(uri'), written')
    BY <1>8, <2>1, <2>2, SaidReadBack DEF ShowLogin
  <2>. QED
    BY <1>8, <2>3 DEF ShowLogin, SaidInv
<1>9. ASSUME NEW u \in Foreign, Receive(u)
      PROVE  SaidInv'
  BY <1>9 DEF Receive, SaidInv
<1>10. CASE FromUri
  BY <1>10 DEF FromUri, SaidInv
<1>11. CASE request' = None /\ uri' = None /\ login' = None
  BY <1>11 DEF SaidInv
<1>12. CASE UNCHANGED vars
  BY <1>12 DEF vars, SaidInv
<1>. QED
  BY <1>1, <1>2, <1>3, <1>4, <1>5, <1>6, <1>7, <1>8, <1>9, <1>10, <1>11, <1>12
     DEF Next, Resolve, ResolvePayload, Prove, Keep

\* Through any edits, encodings and decodings, a request of this program asks
\* the wallet for what the calls asked last: the same actions and chain, the
\* flags of create and set_broadcast, the callback, and one value of every
\* info key that was set.
THEOREM AsksAsAsked == Spec => []AsAsked
<1>1. Init => KindInv /\ ProofInv /\ SaidInv
  BY KindInit DEF Init, ProofInv, LoginInv, ProofMatches, SaidInv
<1>2. SaidInv => AsAsked
  BY DEF SaidInv, AsAsked, Said
<1>. QED
  BY <1>1, <1>2, KindNext, ProofNext, SaidNext, PTL DEF Spec

=============================================================================
