# Verification of wharfkit-rs

TLA+ models of the parts of wharfkit-rs whose correctness depends on
interleavings, failures and call sequences; TLC checks them on small instances,
TLAPS proves the main results for every value of the constants.

## The system

wharfkit-rs lets an application log users in with a wallet, keep sessions, sign
and broadcast transactions on Antelope chains, and read contract tables.  It is
a library of async Rust: everything runs inside the futures the application
polls, on one executor thread or many, and a future may be dropped at any await.

| component | state it keeps | operations | interacts with |
|---|---|---|---|
| ABI cache (`wharfkit-abicache`) | two concurrent maps: stored ABIs, one `OnceCell` per lookup under way | `get_abi`, `get_cached`, `set_abi` | shared by all sessions; fetches from a node |
| Session kit (`wharfkit-session/kit.rs`) | none of its own: the storage, the wallet plugins and the hooks it is built with | `login`, `restore`, `logout` | wallet plugins, storage, UI |
| Session (`session.rs`) | immutable; shares its wallet plugin with every other session | `transact`, `sign_transaction`, `serialize` | wallet plugin, node, UI |
| Anchor plugin (`wharfkit-wallet-plugin-anchor`) | `AnchorWalletData` behind a mutex: request keypair, the wallet's key and channel address | `login`, `sign`, `logout`, `serialize`, `restore` | the wallet app through the relay, the UI prompt, a timer |
| Buoy client (`wharfkit-buoy-client`) | none | `post`, `listen` | the relay |
| Signing requests (`wharfkit-signing-request`) | a request value | create, set flags and info, encode, decode, resolve | sessions and the Anchor plugin |
| Tables (`wharfkit-contract`) | a cursor: the next key, a done flag | `get`, `all`, `first`, `next_page` | a node |
| Code generator (`wharfkit-cli`) | the output file | ABI to Rust source | a node, `rustfmt`, the file system |
| `wharfkit-common`, `wharfkit-mock` | constant data, test doubles | | |

### What is hard, and what makes each part correct

- **ABI cache.**  Tasks may be anywhere inside `get_abi`; the two maps are
  separately atomic; an initialiser may fail or be dropped.  Lookups must be
  coalesced, errors must be retryable, a stored ABI must be served, no stale
  cell or lost permit may stay behind.
- **Session kit and plugin data.**  All sessions share one plugin, and a login
  writes its data in two steps with the user in between.  What is stored must
  be one complete channel; what a success leaves in memory must be what a
  restart brings back; a logout must be final; the two writes of a default
  session must be in the right order.
- **transact.**  A user, a relay and a node, all slow, all able to fail after
  the fact.  What runs must be what the call reports, only if it was told to
  broadcast; success and refusal must mean what they say.
- **Signing requests.**  A request is edited, written, read and resolved by two
  parties in any order.  It must say what was asked last, be read as it was
  written, and resolve to the very bytes the other party signs.
- **Cursor.**  The table changes between pages, and requests fail.
- **Code generator.**  Any ABI may come: names that collide as identifiers,
  lists in another order, types the generator has no answer for; a run fails at
  any step over the file of an earlier run.  The module must define no item
  twice, name nothing undefined, pack what the ABI means, and be left alone by a
  failure.

The full list, at the lines where each hazard bites, is `hazards` in
`PROJECT.json`.

## Modules

| module | models | code |
|---|---|---|
| `AbiCache` | the cache, one process per `get_abi` call | `abicache/src/cache.rs` |
| `SingleFlight` | what the cache promises on one thread; `AbiCache` implements it | the same |
| `AbiCacheProofs` | its proofs | |
| `AnchorChannel` | the plugin data and the ways it changes | `anchor/src/data.rs`, `plugin.rs`, `login_flow.rs` |
| `SessionKit` | login, restore, logout over the shared plugins and the storage | `session/src/kit.rs`, `storage.rs` |
| `SessionKitProofs` | its proofs | |
| `WalletLogin` | what the kit relies on of a login: two changes of the plugin data | the same |
| `AnchorLogin` | run_login in detail; implements `WalletLogin` | `anchor/src/login_flow.rs` |
| `AnchorLoginProofs` | its proofs | |
| `Transact` | transact and sign_transaction, the wallet, the relay, the node | `session/src/session.rs`, `anchor/src/sign_flow.rs` |
| `TransactProofs` | its proofs | |
| `SigningRequest` | a request from its creation to its resolution, and those the Anchor plugin builds | `signing-request/src/request.rs`, `resolved.rs`, `identity.rs`, `anchor/src/same_device.rs`, `sign_flow.rs`, `login_flow.rs` |
| `SigningRequestProofs` | its proofs | |
| `TableCursor` | the paged scan | `contract/src/cursor.rs`, `table.rs` |
| `TableCursorProofs` | its proofs | |
| `RustTypes` | the identifiers and Rust types of generated code, with the table of builtins | `cli/src/ident.rs`, `codegen.rs` |
| `Codegen` | runs of the generator over one output file | `cli/src/codegen.rs`, `lib.rs` |
| `CodegenProofs` | its proofs | |
| `Retain` | what is left of a list at some positions, in order | `Vec::retain`, `Iterator::filter` (external) |
| `RetainProofs` | its proofs | |
| `MC...` | the small instances TLC checks | |

A step of a model runs up to the next await, or the next operation on a shared
concurrent structure.

### AbiCache

`cache` and `pending` are the two `DashMap`s, `cell` the `OnceCell`s (named by
the call that created them; free, busy, or settled with Ok or Err), `online`
whether there is a fetcher; `pc`, `name`, `held` and `result` are the futures.
`Lookup`, `Enter`, `Recheck`, `GetOrInit`, `FetchDone`, `Remove` and `Publish`
are the lines of `get_abi` in order, `Drop` a dropped future, `SetAbi` the
application.  With `MultiThread = FALSE` a task runs alone from await to await
(`ThreadFree`).  An ABI is abstracted to the call whose fetch produced it.
`SingleFlight` knows neither map nor cell: a call is idle, has asked or is done,
at most one request per account is under way, its answer is the one answer, and
every call that asked returns it.  The refinement maps the calls that fetch to
`flight`, those that settled their cell with Ok to `answer`, and all that is
between two awaits to "asked".

### SessionKit and AnchorChannel

`data[w]` is the plugin's mutex-protected data, with key material and addresses
abstracted to the login they come from; `store` is the storage; `pc`, `req` and
`bytes` are the futures of the operations; `last` and `result` are histories.
Awaits of `login` that touch neither data nor storage (UI, hooks, the callback)
are merged into the step after them: an error there leaves the state before
that step, which is `LoginFails`.  `Restart` loses memory, keeps the storage,
and may come back with other chains and wallets.  `Overlap` says whether the
application starts an operation before the previous one ended; `Links` which
link fields the wallet may send.

### AnchorLogin and WalletLogin

`pc`, `chain`, `got` and `seen` are the future of each login, `data` the shared
plugin, `cancelled`, `elapsed`, `connected` and `mail` what its select waits on.
`Cancelled`, `Expired`, `TakeCallback` or `StreamFails`, and `PromptReturns` are
the branches of the biased select; `AccountRead`, then `Verified` or not, the
check against the chain.  A callback is abstracted to what the checks tell
apart; its proof to the key its signature recovers to.  The relay, the wallet,
the node, the user and the timer are external.  `valid` is a history.
`WalletLogin` has the same plugin data and one status per login; the refinement
maps everything between `Begin` and the return to "asked".  `LoginBegin`,
`LoginApproved` and `LoginFails` of `SessionKit` make the same changes.

### Transact

`wallet` is the kind of plugin: one that signs what it is given, or the Anchor
plugin, which sends the wallet a request with the actions and waits on a
callback channel.  The wallet, the relay and the node are external and modelled
from how the code calls them: `requests`, `relay` (a set of answers per channel:
late, repeated and reordered ones included), `wire` (requests the node has not
processed, which outlive a call that gave up), `ran` (what ran, history).  A
transaction is its actions and its reference block, so two transactions with
equal actions and block are the same one, as on the chain.

Any error of `send_transaction2` may send the call to `send_transaction`: the
code looks for "404" in the text of the error (session.rs:252), which a
transport or decoding error can hold as well as the node's.  `SendFails` is
every such error; it may come while the request is on its way or after it ran,
and an answer that comes later is dropped.  `lost[c]` (history) says that the
call has seen an error that was no answer of the node.  `result[c]` is how the
call ended: "ok"; "wallet" and "broadcast" for the two errors of those names;
"err" for any other.  "broadcast" does not say whether the transaction ran: after
a lost answer it may have, and the fallback is then refused as a duplicate.
`RefusedNeverRuns` is therefore about calls that saw the node refuse each of
their requests and nothing else, and only about their own requests: an equal
transaction of another call may be what ran.

### SigningRequest

`request`, `uri` and `resolved` are the values a caller holds; every public call
of the crate is an action, in any order, and `Receive` brings a URI that another
implementation wrote.  A URI is the record of its fields: the version, the tag
of the variant and the layout it decides are kept, bytes and compression are
not.  Names are numbers, as in the code, because 1 and 2 are placeholders.
`asked` and `written` are histories: what the calls asked for.
`CreateSign` is the request `run_sign` sends.  `login` is the `IdentityRequest`
of a login: `CreateLogin` makes its two requests, the one of the QR code and the
copy that an Apple handheld edits, `ShowLogin` writes either, and `Prove` takes
the wallet's answer to either and rebuilds the transaction the proof is
recovered from.  What `resolve` and `Prove` return keeps the signer it was asked
for, or that the callback names (`from`), and `NoPlaceholderLeft` compares each
action with the request's: every placeholder is replaced by that signer, the
actor by its actor and the permission by its permission, and all else is kept.
`set_info_key` uses `Retain`, which is `SelectSeq` without its
recursion, so that TLAPS can reason about it; an `ASSUME` of `MCSigningRequest`
has TLC compare the two.

### TableCursor

`rows` is the table, which changes at any time; `request` the request under
way; `next_key` and `done` the cursor; `got` and `lasting` histories.  The node
returns at least one row if there is one, never more than the limit, and the
key to go on from.

### Codegen

`abi` and `chain` are the locals of `run`, `file` what the output path holds
(nothing, a part, or the code of a run), `pc` and `result` the run, `before` and
`ended` histories: the file when the run began and the step at which it ended.
`Fetch`, `Check`, `Emit`, `Format` and `Write` are the steps of `run`; each may
fail with each of the errors the code lets it, and the process may be killed at
any of them: before the write the file is as it was, during it the old file, a
part, or the new one.
Names are sequences of words and separators, which is what `snake_ident` and
`camel_ident` look at; capitals inside words and leading digits are left out, as
are doc comments, the embedded ABI text and layout.  Of the text, an entry keeps
the identifier it defines and the types, fields and parameters it writes, and
types are looked up as Rust looks names up (the module, then its
`use super::*`).  `rustfmt` is external: it refuses what it cannot parse, and
may fail on anything.

The 31 arms of the type table (codegen.rs:225-256) are `Arms`, pairs of an ABI
type and the Rust type it becomes.  `Packs` is written from the other side: for
each type of Rust or antelope-client the ABI type its packer writes.
`PacksAsTheAbi` compares the two, through the lookup of names.  A factory has the
parameter `authorization` first (`Authorization`), and what a struct, an enum or
a factory declares twice is `UniqueMembers`: no check of the generator looks at
fields, cases or parameters (disagreement 5), and `UniqueItems` is about the items
of the modules only.  `OrderIndependent` is about the three modules: `ABI_HASH`
and `abi_blob` hold the ABI as it was fetched and do depend on its order.

`PacksAsTheAbi` is about ABIs without aliases, bases and binary extensions,
without actions that take structs, without types that hide a name the
generated code uses, whose types are all defined by the ABI or known to both the
generator and antelope-client, whose structs have fields of different identifiers,
and whose actions have no field `authorization` (`Plain`): on the others the
generator is wrong.  It never reads `base` (codegen.rs:139), writes `$` as an
`Option`, which packs a flag byte (codegen.rs:222), and the rest is the
disagreements 4 and 5 below.

## Runs

| run | instance | shows |
|---|---|---|
| `abi_one_thread` | 4 calls, 2 accounts, one thread, no failures, drops allowed | one request in flight per account; `SingleFlight` is implemented: one answer per account, which every call that asked returns |
| `abi_threads` | 3 calls, 1 account, threads, failures, drops | retryable errors, known ABIs served, no stale cell or lost permit, every call returns |
| `abi_stale_remove` | 4 calls, one thread, failures | **violation**: two requests in flight |
| `kit_sequential` | 3 operations, 2 chains, 1 account, 1 plugin | storage, memory and logout agree; the default record follows |
| `kit_mixed_channel` | 2 operations | **violation**: a failed login leaves a mixed channel that reads as established |
| `transact_calls` | 2 calls, equal actions, both wallets, both nodes, 2 blocks, answers lost or late, the fallback after any error | what runs is what the call signed and was told to broadcast; a success ran, a refusal did not; every call returns |
| `transact_own_tapos` | 2 calls | **violation**: the Anchor wallet's signatures are sent with another transaction |
| `anchor_login` | 2 logins on one plugin, 2 chains, 1 account, 2 keys that rotate, 4 callbacks | only a success leaves link fields, with a key the account had; no late answer is taken; every login returns; `WalletLogin` is implemented |
| `esr_calls` | 2 chains, 2 signers, 3 action lists, 3 info keys, 9 foreign URIs | a request says what was asked last and is read as written; resolving puts the signer in place of placeholders and keeps headers; the two resolvers agree; a login verifies what the wallet signed, whichever URI it answered |
| `cursor_scan` | 4 keys, 2 rows a page, 2 failures | a full scan, each row once per attempt, ends |
| `codegen_runs` | ABIs of up to 3 structs, a variant, 2 actions, a table, in several orders | no item is defined twice, order does not matter, plain ABIs are packed as they mean, a run that ends before its write keeps the file |
| `codegen_names` | 6 ABIs: an alias, an action that takes a struct, a builtin the generator lacks; an action with a field `authorization`, two fields and two cases that become one identifier | **violation**: the module names a type that nothing defines, or declares two members of one name |

Bounds.  The hazards of the cache need a call that fetches, one that waits and
one or two that begin later: 3 calls on threads, 4 on one thread.  In the kit a
login, a failed or second login and a logout or restore are 3 operations; two
chains give two session keys that share the plugin; operations are
interchangeable, hence the symmetry set.  Two transact calls with equal actions
collide in every way one pair can; `Ttl = 0` with two blocks makes a transaction
expire while the user decides.  Two logins overlap in every order
on the plugin they share, with an approval in full, one in part with another
key, one on the wrong chain and a rejection.  For requests
2^16 and 2^32 are 4 and 16, with a head block beyond the first and a time near
the second; foreign URIs bring what this code never writes (aliases, whole
transactions with each kind of header, unknown tags and versions, a key twice).
In the cursor 4 keys and 2 rows a page give
a first, a middle and a last page, short ones included, and two failures a scan
that starts over twice.  The ABIs of the generator have
names that become one identifier (as types, with a dot or an underscore), a
keyword, optional, list and time types, references among structs and variants, and a
struct that hides an imported name; runs follow one another on the same file.
`MaxHead` and `MaxFailures` bound the behaviours; no
other counter is unbounded.

Fairness.  `AbiCache`: the executor polls a task that can go on and a request to
the node ends.  `Transact`: the same, a lost request ends in an error, and
tokio's timer fires; nothing is assumed of the wallet.  `AnchorLogin`: the
executor polls a login that can go on, its timer fires, and a request to the
node is answered or fails; the code sets no limit on that request, and nothing
is assumed of wallet, relay and prompt.  `TableCursor`: the
application asks for the next page and the node answers; failures are finitely
many.  The safety runs of the kit use no fairness.

### Disagreements with the code's own documentation

1. `cache.rs:114` removes the registered cell by name, not the one the call
   waited on; a waiter of a failed fetch unregisters a newer lookup
   (`abi_stale_remove`).  On several threads the gap between lines 114 and 118
   alone is enough for a second fetch of an account already fetched.
2. `login_flow.rs:72-80` stores the new keypair beside the old wallet key and
   address; if the login fails, `try_channel_state` reports an established
   channel made of two logins (`kit_mixed_channel`).
3. `session.rs:163` broadcasts its own transaction with the wallet's signatures
   and ignores `WalletPluginSignResponse::resolved`, which its documentation
   requires for wallets like Anchor (`transact_own_tapos`).
4. `codegen.rs:262` writes every name it has no mapping for as a struct of the
   module: an alias, a struct in the parameters of an action, and a builtin that
   the hand-made mirror at `codegen.rs:176` lacks give a module that names a type
   nothing defines (`codegen_names`; each of the first three ABIs alone does).
5. `codegen.rs:291` puts `authorization` before a parameter for each field, and
   `check_ident_collisions` compares no fields: an action with a field of that
   name gives a factory with two parameters of one name, which `rustfmt` formats
   and `rustc` refuses; fields and cases that become one identifier give a
   struct or an enum of that kind (`codegen_names`; each of the last three
   ABIs alone does).

Behaviours of the code that the models contain and no property excludes, since
nothing in the repository promises otherwise: a fetch that began before
`set_abi` overwrites the ABI of the application (cache.rs:118); a restore
replaces the plugin's data before it can fail (kit.rs:254); logout leaves the
default record (kit.rs:263); a UI error after the broadcast is reported as the
result of the call (session.rs:168).  A cursor with `rows_per_request = 0`
never ends (cursor.rs:26): its safety is proved for that case too, its liveness
is checked for 2.  A field named `self` becomes `r#self` (ident.rs:3), which
`rustfmt` refuses: no file is written.

## Proofs

`AbiCacheProofs` proves for any number of calls, accounts and threads that the
types are kept and that errors are retryable, stored ABIs served, stale cells
unregistered and permits live.  The inductive invariant ties each call to the
cell it holds and each settled cell to the call that will unregister it; without
it the properties speak of the past of a cell no variable records.
`RightAnswers` adds what no run states: whatever the runtime, an ABI stored for
an account or returned to a call is the application's or that of a request for
the same account.

On one thread, and as long as no request fails (`~MultiThread`, `~MayFail`), it
also proves `Coalesced`, `OneRequest` (an account is fetched once in the life of
the cache) and that the cache implements `SingleFlight`.  The invariant `OneInv`
says why: at most one call is inside a poll (`PollInv`), no cell holds an
error (`NoErrInv`), who looks for an account has not seen its ABI
(`UnknownInv`), all calls for one account share one cell (`SharedInv`), and that
cell stays registered until the ABI is stored (`KeptInv`).  Both hypotheses are
needed: with failures `abi_stale_remove` shows two requests, and on threads the
gap of disagreement 1 is enough.

`SessionKitProofs` proves the types for any application, and the four properties
of `kit_sequential` for an application that lets one operation end before the
next begins and a wallet that sends all its link fields (`Sequential`).  The
invariant `IInv` says of every stored record, plugin datum and session which
login it goes back to (`StoreInv`, `DataInv`, `SessionInv`), and of every
operation what it has done by each await (`LoginInv`, `RestoreInv`,
`LogoutInv`); at most one operation is active (`OneActive`).

`SigningRequestProofs` proves all invariants of `esr_calls` for any inputs: the
types; that a request says what was asked last, is read back as it is and has a
kind that fits its actions; that resolving keeps or fills headers as it should;
that the two resolvers agree; that a resolved request and a rebuilt callback have
the signer in place of every placeholder of the request, and else its actions;
that a login verifies what the wallet signed.  `KindInv` adds the shape of the
kind, without which the written variant is unknown; `TypedInv` the types of the
values a caller holds, and `ResolvedInv` that what `resolve` returned is what it
makes of a typed request, so that both resolvers are compared on operators alone;
`SaidInv` that the record of what the calls asked for is one that the next call
can amend; `LoginInv` that the two requests of a login differ in their info only.

`RetainProofs` holds the lemmas these use about `Retain`: what it leaves of any
list is the elements at the kept positions, each once and in their order.

`TransactProofs` proves the five invariants of `transact_calls` for any calls,
transactions and blocks.  Its invariant ties what is on the wire and what ran to
the call that sent it and to the step that call is at, and each answer on the
relay to the request it answers.  `SoleInv` is what the refusals need: as long as
no answer was lost, the only request of a call on the wire is the one it awaits,
and it has run only if the node said so.

`TableCursorProofs` proves that a finished scan is full and that no row comes
more often than once per attempt, for any keys, page size and failures.  A row
is `Ahead` of the scan or has been passed; the strengthening `ScanInv` says that
what is ahead has not been returned in this pass, and what has been passed and
was always there has.  The lemmas are about the node's answers: the first rows
of a range come before the others, and a set of keys has a least one.

`CodegenProofs` proves for any ABIs that nothing is defined twice, that order
does not matter, that a run that ends before its write keeps the file, and that
plain ABIs are packed as they mean.  `RunInv` and `FileInv` say that what is about to be
written, and what a finished run left, is the code of an ABI that passed the
check and that `rustfmt` could parse; then `PacksAsTheAbi` is a fact about the
emitters: every arm of the table packs as the builtin it is for, and every builtin
has an arm (`ArmsPack`, `BuiltinsMapped`); the lookup of a written type in its
module finds one definition, and it is the one the ABI names (`FieldsMeant`,
`CasesMeant`, `EmittedPacks`).

`AnchorLoginProofs` proves the types, `LinkFromSuccess`, `OkIsCurrent` and
`AnswerInTime` for any logins, wallets, accounts and keys, and that every step
of `AnchorLogin` is a step of `WalletLogin` or leaves what it sees alone.  Its
invariant `LoginInv` says that a callback under check is for the chain asked
for, that what the node said was so while the login ran, and that only a waiting
login can be cancelled or expire.

The assumptions are those the modules declare: `None` and the default key are
distinct from what they stand beside, callbacks and key sets have their shape,
the inputs of signing requests have the types and widths of the wire format
(request URIs of other implementations included, which may still say anything of
those types), and the suffixes of ABI types are `?`, `[]` and `$`.  The
theorems about one thread carry their hypotheses in their statement.

Only model-checked: the liveness properties `EveryCallReturns`, of the cache and
of `transact`, `EveryLoginReturns` and `ScanEnds`, and the fairness they need,
which are out of the prover's reach.  The four violations are counterexamples,
with nothing to prove.  Not proved nor checked: that `Retain` is `SelectSeq` for
lists of every length (TLC compares them on short ones; the other direction is
induction over data).

## Plan

Done: the cache, the kit, the Anchor login, transact, signing requests, the
cursor, the code generator; every safety property of their runs is a theorem,
and so are both refinements.  Next, in this order:

1. Sessions under overlap: what does hold of the kit and the plugin data when
   operations interleave, as invariants and theorems beside the sequential ones.
2. That a resolved request is signed for the chain it names, for the aliases of
   the table (request.rs:50).
3. A call of `transact` at most once on the wire, as an action property.

## Not modelled

The relay client beyond one post per signing and one listener per login.  Sealed
envelopes (`sealed.rs`): key derivation, AES and a checksum over bytes, without
state; the post of an envelope and its errors are in `Transact`.  The reads of
one request (`Table::get`, `all`, `first`), which keep no state.
`parse_sign_callback_with_options`, the signing callback that rebuilds the
transaction: no caller in the plugin; `from_payload`, which it calls, is in
`SigningRequest`.  `sanitize_app_name`, layout and UI.  `wharfkit-common` and
`wharfkit-mock`, which have no behaviour of their own.

With `Overlap = TRUE` the model of the kit contains overlapping operations and
TLC finds `PersistedCoherent`, `DurableSession` and `LogoutForgets` violated;
the code promises nothing for that case, so no run states it.
