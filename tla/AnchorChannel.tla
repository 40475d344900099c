--------------------------- MODULE AnchorChannel ---------------------------
(***************************************************************************)
(* The data an AnchorWalletPlugin keeps behind its mutex (data.rs) and the *)
(* ways the plugin changes it.  Key material and addresses are abstracted  *)
(* to the login that produced them: `key` to the login that generated the  *)
(* request keypair, `signer` and `url` to the login whose callback named   *)
(* the wallet's key and channel address.                                   *)
(***************************************************************************)
CONSTANTS Ops,   \* operations of the application; logins are among them
          None   \* an absent Option

ASSUME NoneAssumption == None \notin Ops

Maybe   == Ops \cup {None}
Channel == [key : Maybe, signer : Maybe, url : Maybe]

\* AnchorWalletData::default()
Empty == [key |-> None, signer |-> None, url |-> None]

\* run_login stores its fresh keypair as soon as it has built its request.
WithKeypair(d, o) == [d EXCEPT !.key = o]

\* The link fields a login callback may carry.
LinkField == {"signer", "url"}

\* Mutant: a callback's address is stored, its key forgotten.
WithLink_NoSigner(d, o, link) ==
  [d EXCEPT !.url = IF "url" \in link THEN o ELSE @]

\* update_data_from_link_fields: only the fields the callback carries.
WithLink(d, o, link) ==
  [key    |-> d.key,
   signer |-> IF "signer" \in link THEN o ELSE d.signer,
   url    |-> IF "url" \in link THEN o ELSE d.url]

\* try_channel_state() is Ok(Some(..)): all three parts are there.
HasChannel(d) == d.key # None /\ d.signer # None /\ d.url # None

\* The parts come from one login, which the wallet approved.
Coherent(d) == d.key = d.signer /\ d.signer = d.url
=============================================================================
