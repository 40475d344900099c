--------------------------- MODULE SigningRequest ---------------------------
(***************************************************************************)
(* The signing requests of wharfkit-signing-request (request.rs,           *)
(* resolved.rs, identity.rs) and those the Anchor plugin builds            *)
(* (login_flow.rs, sign_flow.rs, same_device.rs): a request is created,    *)
(* edited, encoded into a URI, decoded from one (its own, or one another   *)
(* implementation wrote) and resolved to a transaction, in any order of    *)
(* calls.                                                                  *)
(*                                                                         *)
(* A URI is the record of the fields packed into it; compression and       *)
(* base64url are lossless and left out.  A name is its number, as in       *)
(* antelope, since two of the numbers are placeholders.                    *)
(***************************************************************************)
EXTENDS Naturals, Sequences, Retain

CONSTANTS Chains, ZeroChain,  \* chain ids; ZeroChain is Checksum256::default()
          KnownAliases,       \* KnownAliases[a]: the chain of a known alias a
          Signers,            \* permission levels of accounts of the chain
          Scopes,             \* scopes of identity requests
          ActionLists,        \* the actions applications ask for
          Callbacks,          \* the CallbackSpecs of applications
          EmptyUrl,           \* the empty string
          InfoPairs,          \* the key and value pairs set_info_* is given
          Links,              \* packed BuoySession and LinkInfo values
          ReturnPaths,        \* where a handheld's wallet returns to
          Foreign,            \* URIs written by other implementations
          Contexts,           \* the ResolveContext values callers pass
          Tapos,              \* the rbn, rid and ex fields of callbacks
          U16, U32,           \* 2^16 and 2^32, or smaller
          None                \* an absent Option

PlaceholderActor      == 1    \* PLACEHOLDER_ACTOR_N
PlaceholderPermission == 2    \* PLACEHOLDER_PERMISSION_N

Set(s) == {s[i] : i \in DOMAIN s}

\* No account or permission of a chain has a placeholder's number.
Names == Nat \ {PlaceholderActor, PlaceholderPermission}

Levels  == [actor : Nat, permission : Nat]
Headers == [expiration : 0..(U32 - 1), ref_block_num : 0..(U16 - 1),
            ref_block_prefix : 0..(U32 - 1), limits : Nat]

\* A Vec<Action>.
IsActions(s) == s \in Seq(Set(s)) /\ \A a \in Set(s) : a.authorization \in Seq(Levels)

ASSUME SignersAssumption ==
  None \notin Signers /\ Signers \subseteq [actor : Names, permission : Names]

ASSUME ActionListsAssumption == \A s \in ActionLists : IsActions(s)

ASSUME WidthsAssumption == U16 \in Nat \ {0} /\ U32 \in Nat \ {0}

\* Values are no absent Options.
ASSUME ValuesAssumption ==
  None \notin Chains \cup Links \cup {kv.value : kv \in InfoPairs} \cup {1}

ASSUME ContextsAssumption ==
  Contexts \subseteq [chain : Chains, head_num : Nat, head_prefix : 0..(U32 - 1),
                      head_time : Nat, expire_seconds : Nat]

ASSUME TaposAssumption == Tapos \subseteq [rbn : Nat, rid : Nat, ex : 0..(U32 - 1)]

\* What the types of the wire format let a URI hold.
ASSUME ForeignAssumption ==
  \A u \in Foreign :
    /\ u.chain.id \in Chains \cup {ZeroChain}
    /\ u.req.tag = 0 => IsActions(<<u.req.action>>)
    /\ u.req.tag \in {1, 2} => IsActions(u.req.actions)
    /\ u.req.tag = 2 => u.req.header \in Headers
    /\ u.req.tag = 3 => u.req.permission \in {None} \cup Levels

VARIABLES request,   \* the SigningRequest in hand, or None
          uri,       \* the URI in hand, or None
          resolved,  \* the ResolvedSigningRequest in hand, or None
          login,     \* the IdentityRequest of a login that waits, or None
          asked,     \* what the calls that built request asked for (history)
          written    \* what the request in uri was asked to be (history)

vars == <<request, uri, resolved, login, asked, written>>

NoSigner == [actor |-> 0, permission |-> 0]   \* PermissionLevel::default()

-----------------------------------------------------------------------------
(* Placeholders and the identity action *)

Placeholder == [actor |-> PlaceholderActor, permission |-> PlaceholderPermission]

IsPlaceholder(pl) ==
  pl.actor = PlaceholderActor
    \/ pl.permission \in {PlaceholderPermission, PlaceholderActor}

\* Mutant: the halves of the signer are swapped.
Substitute_Swapped(pl, signer) ==
  [actor      |-> IF pl.actor = PlaceholderActor THEN signer.permission ELSE pl.actor,
   permission |-> IF pl.permission \in {PlaceholderPermission, PlaceholderActor}
                    THEN signer.actor ELSE pl.permission]

Substitute(pl, signer) ==
  [actor      |-> IF pl.actor = PlaceholderActor THEN signer.actor ELSE pl.actor,
   permission |-> IF pl.permission \in {PlaceholderPermission, PlaceholderActor}
                    THEN signer.permission ELSE pl.permission]

IdentityAction(permission) ==
  LET p == IF permission = None THEN Placeholder ELSE permission
  IN  [account |-> 0, name |-> "identity", authorization |-> <<p>>, data |-> p]

IsIdentityAction(a) == a.account = 0 /\ a.name = "identity"

\* The map of resolve_actions: an action as signer signs it.
ResolveAction(a, signer) ==
  IF IsIdentityAction(a) THEN IdentityAction(signer)
  ELSE IF \E pl \in Set(a.authorization) : IsPlaceholder(pl)
  THEN [account |-> a.account, name |-> a.name, data |-> a.data,
        authorization |-> [i \in DOMAIN a.authorization |->
                             Substitute(a.authorization[i], signer)]]
  ELSE a

ResolveActions(r, signer) ==
  [i \in DOMAIN r.actions |-> ResolveAction(r.actions[i], signer)]

-----------------------------------------------------------------------------
(* Building a request *)

ActionKind  == [tag |-> "Action"]
ActionsKind == [tag |-> "Actions"]
TransactionKind(h, cfa, ext) ==
  [tag |-> "Transaction", header |-> h, context_free |-> cfa, extensions |-> ext]
IdentityKind(scope, permission) ==
  [tag |-> "Identity", scope |-> scope, permission |-> permission]

IsIdentity(r) == r.kind.tag = "Identity"

CallbackUrl(cb) == IF cb = None THEN None ELSE cb.url
Background(cb)  == IF cb = None THEN {} ELSE IF cb.background THEN {"background"} ELSE {}

\* SigningRequest::create.
CreateRequest(chain, actions, cb) ==
  [chain |-> chain, actions |-> actions, callback |-> CallbackUrl(cb), info |-> <<>>,
   flags |-> {"broadcast"} \cup Background(cb),
   kind  |-> IF Len(actions) = 1 THEN ActionKind ELSE ActionsKind]

\* SigningRequest::create_identity.
CreateIdentityRequest(chain, scope, permission, cb) ==
  [chain |-> chain, actions |-> <<IdentityAction(permission)>>,
   callback |-> CallbackUrl(cb), info |-> <<>>, flags |-> Background(cb),
   kind |-> IdentityKind(scope, permission)]

\* set_info_bytes and set_info_key.
WithInfo(r, kv) ==
  [r EXCEPT !.info = Append(Retain(@, {i \in DOMAIN @ : @[i].key # kv.key}), kv)]

\* Mutant: clearing the broadcast flag clears the flags.
WithBroadcast_ClearsAll(r, b) ==
  [r EXCEPT !.flags = IF b THEN @ \cup {"broadcast"} ELSE {}]

\* set_broadcast.
WithBroadcast(r, b) ==
  [r EXCEPT !.flags = IF b THEN @ \cup {"broadcast"} ELSE @ \ {"broadcast"}]

-----------------------------------------------------------------------------
(* The requests of the Anchor plugin.  A device is None, or an Apple handheld *)
(* with the path its wallet returns to, which may be None.                    *)

Devices == {None} \cup [path : {None} \cup ReturnPaths]

\* apply_ios_same_device_info, on a handheld.
SameDevice(r, device) ==
  LET marked == WithInfo(r, [key |-> "same_device", value |-> 1])
  IN  CASE device = None      -> r
        [] device # None /\ device.path = None -> marked
        [] OTHER -> WithInfo(marked, [key |-> "return_path", value |-> device.path])

\* build_sign_request: the application broadcasts, the wallet does not.
BuildSignRequest(chain, actions, url, device, link) ==
  WithInfo(SameDevice(WithBroadcast(
             CreateRequest(chain, actions, [url |-> url, background |-> TRUE]), FALSE),
           device), [key |-> "link", value |-> link])

\* IdentityRequest::create_with_keypair: the request of a login.
LoginRequest(chain, url, link) ==
  WithInfo(CreateIdentityRequest(chain, None, None, [url |-> url, background |-> TRUE]),
           [key |-> "link", value |-> link])

-----------------------------------------------------------------------------
(* URIs *)

\* Mutant: every request is written as version 2.
ProtocolVersion_Always2(r) == 2

ProtocolVersion(r) == IF IsIdentity(r) THEN IF r.kind.scope # None THEN 3 ELSE 2 ELSE 2

DefaultAction == [account |-> 0, name |-> "", authorization |-> <<>>, data |-> None]

\* encode_req_variant.
ReqVariant(r) ==
  CASE r.kind.tag = "Action" ->
         [tag |-> 0, action |-> IF r.actions # <<>> THEN r.actions[1] ELSE DefaultAction]
    [] r.kind.tag = "Actions" -> [tag |-> 1, actions |-> r.actions]
    [] r.kind.tag = "Transaction" ->
         [tag |-> 2, header |-> r.kind.header, context_free |-> r.kind.context_free,
          actions |-> r.actions, extensions |-> r.kind.extensions]
    [] OTHER -> [tag |-> 3, scope |-> r.kind.scope, permission |-> r.kind.permission]

\* encode and encode_payload.
EncodeUri(r) ==
  [version |-> ProtocolVersion(r), chain |-> [alias |-> None, id |-> r.chain],
   req |-> ReqVariant(r), flags |-> r.flags,
   callback |-> IF r.callback = None THEN EmptyUrl ELSE r.callback, info |-> r.info]

\* alias_to_chain_id: an alias that is not in the table is the zero id.
KnownChain(alias) ==
  IF alias \in DOMAIN KnownAliases THEN KnownAliases[alias] ELSE ZeroChain

\* ChainIdVariant::to_checksum.
ChainOf(v) == IF v.alias = None THEN v.id ELSE KnownChain(v.alias)

\* The actions and the kind that decode_payload reads from the variant.
DecodedActions(req) ==
  CASE req.tag = 0 -> <<req.action>>
    [] req.tag \in {1, 2} -> req.actions
    [] OTHER -> <<IdentityAction(req.permission)>>

DecodedKind(req) ==
  CASE req.tag = 0 -> ActionKind
    [] req.tag = 1 -> ActionsKind
    [] req.tag = 2 -> TransactionKind(req.header, req.context_free, req.extensions)
    [] OTHER -> IdentityKind(req.scope, req.permission)

\* from_uri reads it: a known version and tag, and the identity layout of
\* its version (another layout is out of step with the bytes and panics).
Readable(u) ==
  /\ u.version \in {2, 3}
  /\ u.req.tag \in 0..3
  /\ u.req.tag = 3 => ((u.version = 3) <=> (u.req.scope # None))

\* from_uri and decode_payload, of a readable URI.
DecodeUri(u) ==
  [chain |-> ChainOf(u.chain), actions |-> DecodedActions(u.req),
   flags |-> u.flags, callback |-> IF u.callback = EmptyUrl THEN None ELSE u.callback,
   info |-> u.info, kind |-> DecodedKind(u.req)]

-----------------------------------------------------------------------------
(* Resolving *)

Transaction(header, r, actions) ==
  [header |-> header, actions |-> actions,
   context_free |-> IF r.kind.tag = "Transaction" THEN r.kind.context_free ELSE <<>>,
   extensions   |-> IF r.kind.tag = "Transaction" THEN r.kind.extensions ELSE <<>>]

Header(expiration, num, prefix) ==
  [expiration |-> expiration, ref_block_num |-> num, ref_block_prefix |-> prefix,
   limits |-> 0]

EmptyHeader(h) == h.expiration = 0 /\ h.ref_block_num = 0 /\ h.ref_block_prefix = 0

\* Mutant: the expiration is not clamped.
Expiration_Unclamped(ctx) == ctx.head_time + ctx.expire_seconds

\* The clamp of the expiration to u32.
Expiration(ctx) ==
  IF ctx.head_time + ctx.expire_seconds < U32
  THEN ctx.head_time + ctx.expire_seconds ELSE U32 - 1

\* Mutant: a header with one empty field is filled in.
ResolvedHeader_AnyEmpty(r, ctx) ==
  LET fresh == Header(Expiration(ctx), ctx.head_num % U16, ctx.head_prefix)
  IN  IF r.kind.tag # "Transaction" THEN fresh
      ELSE IF r.kind.header.ref_block_num = 0 \/ EmptyHeader(r.kind.header)
           THEN [fresh EXCEPT !.limits = r.kind.header.limits]
           ELSE r.kind.header

\* The header of resolve: the request's own, or filled from the head block.
ResolvedHeader(r, ctx) ==
  LET fresh == Header(Expiration(ctx), ctx.head_num % U16, ctx.head_prefix)
  IN  IF r.kind.tag # "Transaction" THEN fresh
      ELSE IF EmptyHeader(r.kind.header)
           THEN [fresh EXCEPT !.limits = r.kind.header.limits]
           ELSE r.kind.header

\* resolve: the actions as they are, placeholders included.
ResolveRequest(r, ctx, signer) ==
  [request |-> r, signer |-> IF signer = None THEN NoSigner ELSE signer,
   chain |-> ctx.chain, transaction |-> Transaction(ResolvedHeader(r, ctx), r, r.actions)]

\* resolve_explicit_tapos: the actions as signer signs them.
ResolveExplicitTapos(r, chain, signer, tapos) ==
  [request |-> r, signer |-> signer, chain |-> chain,
   transaction |-> Transaction(Header(tapos.ex, tapos.rbn, tapos.rid), r,
                               ResolveActions(r, signer))]

\* Mutant: the callback's chain is ignored.
FromPayload_OwnChain(u, signer, tapos, cid) ==
  ResolveExplicitTapos(DecodeUri(u), DecodeUri(u).chain, signer, tapos)

\* ResolvedSigningRequest::from_payload on a callback whose req is u.
FromPayload(u, signer, tapos, cid) ==
  ResolveExplicitTapos(DecodeUri(u), IF cid = None THEN DecodeUri(u).chain ELSE cid,
                       signer, tapos)

NoTapos == [rbn |-> 0, rid |-> 0, ex |-> 0]

\* Mutant: the transaction of the proof expires.
ResolvedForProof_Expires(r, chain, signer) ==
  ResolveExplicitTapos(r, chain, signer, [NoTapos EXCEPT !.ex = 1])

\* build_resolved_for_identity_proof: what the wallet's proof must have signed.
ResolvedForProof(r, chain, signer) == ResolveExplicitTapos(r, chain, signer, NoTapos)

\* The callbacks that from_payload reads: a request, and u16 and u32 fields.
Rebuildable(u, tapos) == Readable(u) /\ tapos.rbn < U16 /\ tapos.rid < U32

-----------------------------------------------------------------------------
(* The calls, one sequence at a time: what was resolved is forgotten when the *)
(* next sequence starts.                                                      *)

NoInfo == [k \in {kv.key : kv \in InfoPairs} \cup {"link", "same_device", "return_path"}
             |-> None]

Urls == {cb.url : cb \in Callbacks} \ {EmptyUrl}

Init ==
  /\ request = None /\ uri = None /\ resolved = None /\ login = None
  /\ asked = None /\ written = None

Create(chain, actions, cb) ==
  /\ request = None /\ login = None
  /\ request' = CreateRequest(chain, actions, cb)
  /\ asked' = [chain |-> chain, actions |-> actions, callback |-> cb, info |-> NoInfo,
               identity |-> FALSE, broadcast |-> TRUE]
  /\ resolved' = None
  /\ UNCHANGED <<uri, login, written>>

CreateIdentity(chain, scope, permission, cb) ==
  /\ request = None /\ login = None
  /\ request' = CreateIdentityRequest(chain, scope, permission, cb)
  /\ asked' = [chain |-> chain, actions |-> <<IdentityAction(permission)>>,
               callback |-> cb, info |-> NoInfo, identity |-> TRUE, broadcast |-> FALSE]
  /\ resolved' = None
  /\ UNCHANGED <<uri, login, written>>

\* The info keys a device adds to what was asked.
OnDevice(info, device) ==
  IF device = None THEN info
  ELSE [info EXCEPT !["same_device"] = 1, !["return_path"] = device.path]

\* run_sign asks the wallet to sign.
CreateSign(chain, actions, url, device, link) ==
  /\ request = None /\ login = None
  /\ request' = BuildSignRequest(chain, actions, url, device, link)
  /\ asked' = [chain |-> chain, actions |-> actions,
               callback |-> [url |-> url, background |-> TRUE],
               info |-> OnDevice([NoInfo EXCEPT !["link"] = link], device),
               identity |-> FALSE, broadcast |-> FALSE]
  /\ resolved' = None
  /\ UNCHANGED <<uri, login, written>>

\* run_login makes the request of the QR code, and its copy for this device.
CreateLogin(chain, url, device, link) ==
  /\ request = None /\ uri = None /\ login = None
  /\ LET r == LoginRequest(chain, url, link)
         a == [chain |-> chain, actions |-> <<IdentityAction(None)>>,
               callback |-> [url |-> url, background |-> TRUE],
               info |-> [NoInfo EXCEPT !["link"] = link],
               identity |-> TRUE, broadcast |-> FALSE]
     IN  login' = [request |-> r, same_device_request |-> SameDevice(r, device), asked |-> a,
                   same_device_asked |-> [a EXCEPT !.info = OnDevice(@, device)]]
  /\ resolved' = None
  /\ UNCHANGED <<request, uri, asked, written>>

SetInfo(kv) ==
  /\ request # None
  /\ request' = WithInfo(request, kv)
  /\ asked' = IF asked = None THEN None ELSE [asked EXCEPT !.info[kv.key] = kv.value]
  /\ UNCHANGED <<uri, resolved, login, written>>

SetBroadcast(b) ==
  /\ request # None
  /\ request' = WithBroadcast(request, b)
  /\ asked' = IF asked = None THEN None ELSE [asked EXCEPT !.broadcast = b]
  /\ UNCHANGED <<uri, resolved, login, written>>

Encode ==
  /\ request # None
  /\ uri' = EncodeUri(request)
  /\ written' = asked
  /\ UNCHANGED <<request, resolved, login, asked>>

\* run_login opens one URI on this device and shows the other.
ShowLogin ==
  /\ login # None
  /\ \/ uri' = EncodeUri(login.request) /\ written' = login.asked
     \/ uri' = EncodeUri(login.same_device_request) /\ written' = login.same_device_asked
  /\ UNCHANGED <<request, resolved, login, asked>>

\* A URI of another implementation arrives (through a QR code, a link).
Receive(u) ==
  /\ uri = None /\ login = None
  /\ uri' = u
  /\ written' = None /\ resolved' = None
  /\ UNCHANGED <<request, login, asked>>

\* from_uri: an unreadable URI gives no request, and is dropped.
FromUri ==
  /\ uri # None
  /\ request' = IF Readable(uri) THEN DecodeUri(uri) ELSE None
  /\ asked' = IF Readable(uri) THEN written ELSE None
  /\ uri' = None /\ written' = None
  /\ UNCHANGED <<resolved, login>>

\* The call that resolves ends the sequence: only what it returns stays.
Keep(result) ==
  /\ resolved' = result
  /\ request' = None /\ uri' = None /\ login' = None /\ asked' = None /\ written' = None

Resolve(ctx, signer) ==
  /\ request # None
  /\ Keep([by |-> "resolve", ctx |-> ctx, result |-> ResolveRequest(request, ctx, signer)])

\* The callback of the wallet names the URI it was sent.
ResolvePayload(signer, tapos, cid) ==
  /\ uri # None
  /\ Keep(IF Rebuildable(uri, tapos)
            THEN [by |-> "payload", ctx |-> cid, from |-> signer,
                  result |-> FromPayload(uri, signer, tapos, cid)]
            ELSE None)

LoginUris ==
  IF login = None THEN {}
  ELSE {EncodeUri(login.request), EncodeUri(login.same_device_request)}

\* The callback of the wallet answers u, one of the URIs of the login: its
\* proof is verified against the request of the QR code.
Prove(u, signer) ==
  /\ u \in LoginUris
  /\ Keep([by |-> "proof", ctx |-> u, from |-> signer,
            result |-> ResolvedForProof(login.request, login.request.chain, signer)])

Next ==
  \/ \E chain \in Chains, actions \in ActionLists, cb \in {None} \cup Callbacks :
       Create(chain, actions, cb)
  \/ \E chain \in Chains, scope \in {None} \cup Scopes, permission \in {None} \cup Signers,
        cb \in {None} \cup Callbacks : CreateIdentity(chain, scope, permission, cb)
  \/ \E chain \in Chains, actions \in ActionLists, url \in Urls, device \in Devices,
        link \in Links : CreateSign(chain, actions, url, device, link)
  \/ \E chain \in Chains, url \in Urls, device \in Devices, link \in Links :
       CreateLogin(chain, url, device, link)
  \/ \E kv \in InfoPairs : SetInfo(kv)
  \/ \E b \in BOOLEAN : SetBroadcast(b)
  \/ Encode
  \/ ShowLogin
  \/ \E u \in Foreign : Receive(u)
  \/ FromUri
  \/ \E ctx \in Contexts, signer \in {None} \cup Signers : Resolve(ctx, signer)
  \/ \E signer \in Signers, tapos \in Tapos, cid \in {None} \cup Chains :
       ResolvePayload(signer, tapos, cid)
  \/ \E u \in LoginUris, signer \in Signers : Prove(u, signer)

Spec == Init /\ [][Next]_vars

-----------------------------------------------------------------------------
(* Properties *)

KindFits(r) ==
  /\ r.kind.tag = "Action" => Len(r.actions) = 1 /\ r.actions = <<Head(r.actions)>>
  /\ r.kind.tag = "Identity" => r.actions = <<IdentityAction(r.kind.permission)>>

\* The kind of a request always fits its actions: encode_req_variant writes
\* one action of an Action, and none of an Identity, so that a kind that had
\* drifted from the actions would lose some (request.rs 181-215, 258-305).
KindOK == request # None => KindFits(request)

\* The values have their types; the header fields fit their widths.
TypeOK ==
  /\ \A r \in {request} \ {None} :
       /\ r.chain \in Chains \cup {ZeroChain} \cup Set(KnownAliases)
       /\ \A a \in Set(r.actions) : a.authorization \in Seq(Levels)
  /\ \A k \in {resolved} \ {None} :
       /\ k.by \in {"resolve", "payload", "proof"}
       /\ k.result.signer \in Signers \cup {NoSigner}
       /\ k.result.transaction.header.expiration \in 0..(U32 - 1)
       /\ k.result.transaction.header.ref_block_num \in 0..(U16 - 1)

Values(r, key) == {i \in DOMAIN r.info : r.info[i].key = key}

SameCallback(url, url2) == url = url2 \/ {url, url2} = {None, EmptyUrl}

\* r is the request that the calls recorded in a asked for.
Says(r, a) ==
  /\ r.chain = a.chain /\ r.actions = a.actions
  /\ SameCallback(r.callback, CallbackUrl(a.callback))
  /\ r.flags = Background(a.callback) \cup IF a.broadcast THEN {"broadcast"} ELSE {}
  /\ IsIdentity(r) <=> a.identity
  /\ \A k \in DOMAIN a.info :
       IF a.info[k] = None THEN Values(r, k) = {}
       ELSE \E i \in DOMAIN r.info : Values(r, k) = {i} /\ r.info[i].value = a.info[k]

\* Through any number of edits, encodings and decodings, a request of this
\* program asks the wallet for what the calls asked last: the flags of create
\* and set_broadcast, the callback, one value per info key (request.rs
\* 175-217, 351-453, 529-535).
AsAsked ==
  /\ request # None /\ asked # None => Says(request, asked)
  /\ uri # None /\ written # None =>
       Readable(uri) /\ Says(DecodeUri(uri), written)

SameRequest(r, q) ==
  /\ r.chain = q.chain /\ r.actions = q.actions /\ r.kind = q.kind
  /\ r.flags = q.flags /\ r.info = q.info
  /\ SameCallback(r.callback, q.callback)

\* Every request, those that other implementations wrote included, can be
\* encoded again and read back as it is (request.rs 245-429, 603-608).
Stable ==
  request # None =>
    LET u == EncodeUri(request) IN Readable(u) /\ SameRequest(DecodeUri(u), request)

Filled(pl) == pl.actor # 1 /\ pl.permission \notin {1, 2}

\* q is level pl as signer signs it: only what is a placeholder in pl is
\* replaced, by the same half of the signer, and none is left.
InPlace(pl, q, signer) ==
  /\ Filled(q)
  /\ q.actor # pl.actor => pl.actor = 1 /\ q.actor = signer.actor
  /\ q.permission # pl.permission => pl.permission \in {1, 2} /\ q.permission = signer.permission

\* b is action a as signer signs it: the same call, the levels filled in, and
\* an identity action names the signer.
SignedAs(a, b, signer) ==
  /\ b.account = a.account /\ b.name = a.name
  /\ IF IsIdentityAction(a) THEN b.authorization = <<signer>> /\ b.data = signer
     ELSE /\ b.data = a.data
          /\ DOMAIN b.authorization = DOMAIN a.authorization
          /\ \A i \in DOMAIN a.authorization :
               InPlace(a.authorization[i], b.authorization[i], signer)

\* What is rebuilt from the wallet's callback is signed by the account that
\* the callback names, and has the actions of the request, in their order,
\* with that signer in place of every placeholder and of the identity asked
\* for, and nothing else changed (request.rs 575-657, resolved.rs 59-68).
NoPlaceholderLeft ==
  resolved # None /\ resolved.by \in {"payload", "proof"} =>
    LET asks  == resolved.result.request.actions
        signs == resolved.result.transaction.actions
    IN  /\ resolved.result.signer = resolved.from
        /\ DOMAIN signs = DOMAIN asks
        /\ \A i \in DOMAIN asks : SignedAs(asks[i], signs[i], resolved.from)

\* resolve keeps a header that says anything, and otherwise makes one that
\* the chain accepts at its head: not yet expired, unless u32 ends, and
\* naming a block that agrees with the head in 16 bits (request.rs 462-504).
HeaderHonoured ==
  resolved # None /\ resolved.by = "resolve" =>
    LET r == resolved.result.request
        h == resolved.result.transaction.header
        own == r.kind.tag = "Transaction" /\ ~EmptyHeader(r.kind.header)
    IN  IF own THEN h = r.kind.header
        ELSE /\ h.expiration > resolved.ctx.head_time
                  \/ resolved.ctx.head_time >= U32 - 1 \/ resolved.ctx.expire_seconds = 0
             /\ h.ref_block_num % U16 = resolved.ctx.head_num % U16
             /\ h.ref_block_prefix = resolved.ctx.head_prefix

Plain(a) ==
  ~IsIdentityAction(a) /\ \A pl \in Set(a.authorization) : Filled(pl)

\* The two resolvers agree: a callback that names the reference block, the
\* expiration and the chain of a transaction made by resolve is rebuilt to
\* that transaction, bytes the wallet's signature depends on (resolved.rs
\* 39-40), when no placeholder or header limit is in it: from_payload fills
\* the first in and drops the second, resolve does neither.
ResolversAgree ==
  resolved # None /\ resolved.by = "resolve" =>
    LET k == resolved.result
        h == k.transaction.header
        tapos == [rbn |-> h.ref_block_num, rid |-> h.ref_block_prefix, ex |-> h.expiration]
        rebuilt == FromPayload(EncodeUri(k.request), k.signer, tapos, k.chain)
    IN  (h.limits = 0 /\ \A a \in Set(k.transaction.actions) : Plain(a)) =>
          /\ Rebuildable(EncodeUri(k.request), tapos)
          /\ rebuilt.transaction = k.transaction /\ rebuilt.chain = k.chain

\* Whichever URI of a login the wallet answers, the one of the QR code or the
\* one for this device with its return path, it signs the transaction that
\* the login recovers the key from (login_flow.rs 69-95, 240, 275-283).
ProofMatches ==
  resolved # None /\ resolved.by = "proof" =>
    LET wallet == FromPayload(resolved.ctx, resolved.result.signer, NoTapos, None)
    IN  /\ Readable(resolved.ctx)
        /\ wallet.transaction = resolved.result.transaction
        /\ wallet.chain = resolved.result.chain

=============================================================================
