-------------------------- MODULE MCSigningRequest --------------------------
(* Small inputs for SigningRequest: two chains and signers, actions with and *)
(* without placeholders, and the URIs of other implementations that this    *)
(* one never writes itself (aliases, whole transactions, unknown tags).     *)
EXTENDS SigningRequest, TLC

CONSTANTS chain1, chain2, zero, url, empty

MCAliases == (1 :> chain2)

\* Retain is SelectSeq.
ASSUME RetainIsSelectSeq ==
  \A n \in 0..4 : \A s \in [1..n -> 0..2] :
    Retain(s, {i \in DOMAIN s : s[i] # 1}) = SelectSeq(s, LAMBDA e : e # 1)

Level(a, p)   == [actor |-> a, permission |-> p]
Call(n, auth) == [account |-> 5, name |-> n, authorization |-> auth, data |-> n]

MCActionLists ==
  {<<>>,
   <<Call("pay", <<Level(3, 4)>>)>>,
   <<Call("pay", <<Level(1, 2), Level(3, 3)>>), Call("log", <<Level(3, 1)>>)>>}

MCCallbacks == [url : {url, empty}, background : BOOLEAN]
MCSigners   == {Level(3, 4), Level(4, 3)}

MCInfoPairs ==
  {[key |-> "link", value |-> 1], [key |-> "link", value |-> 2],
   [key |-> "same_device", value |-> 1]}

\* Headers that are empty, whole, without a reference block, and with limits.
HeaderOf(ex, num, lim) ==
  [expiration |-> ex, ref_block_num |-> num, ref_block_prefix |-> num, limits |-> lim]

Received(v, ch, req, fl, info) ==
  [version |-> v, chain |-> ch, req |-> req, flags |-> fl, callback |-> url, info |-> info]

Alias(a) == [alias |-> a, id |-> zero]
Twice    == <<[key |-> "link", value |-> 1], [key |-> "link", value |-> 2]>>
Whole(h) == [tag |-> 2, header |-> h, context_free |-> <<Call("free", <<>>)>>,
             actions |-> <<Call("pay", <<Level(3, 4)>>)>>, extensions |-> <<"ext">>]

MCForeign ==
  {Received(2, Alias(1), Whole(h), {"broadcast"}, <<>>)
     : h \in {HeaderOf(0, 0, 0), HeaderOf(0, 0, 1), HeaderOf(5, 1, 0), HeaderOf(5, 0, 0), HeaderOf(5, 0, 1)}}
  \cup {Received(3, Alias(9), [tag |-> 3, scope |-> 3, permission |-> Level(1, 1)],
                 {"background"}, Twice),
        Received(2, Alias(1), [tag |-> 1, actions |-> <<>>], {"background", "other"}, Twice),
        Received(1, Alias(1), [tag |-> 1, actions |-> <<>>], {}, <<>>),
        Received(2, Alias(1), [tag |-> 4], {}, <<>>)}

\* Heads below and beyond 2^16 blocks, and one second before time ends.
MCContexts ==
  {[chain |-> chain1, head_num |-> 1, head_prefix |-> 2, head_time |-> 3, expire_seconds |-> 2],
   [chain |-> chain2, head_num |-> 6, head_prefix |-> 3, head_time |-> 14, expire_seconds |-> 4]}

MCTapos == {[rbn |-> 0, rid |-> 0, ex |-> 0], [rbn |-> 3, rid |-> 9, ex |-> 15],
            [rbn |-> 4, rid |-> 9, ex |-> 15]}

=============================================================================
