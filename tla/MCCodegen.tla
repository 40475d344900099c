----------------------------- MODULE MCCodegen -----------------------------
(* Small instances of Codegen for TLC. *)
EXTENDS Codegen

T(name) == [of |-> name, suffixes |-> <<>>]
With(name, suffix) == [of |-> name, suffixes |-> <<suffix>>]

Field(name, type) == [name |-> name, type |-> type]
Struct(name, fields) == [name |-> name, base |-> <<>>, fields |-> fields]

Row      == Struct(<<"row">>, <<Field(<<"from">>, T(<<"name">>)),
                                Field(<<"type">>, With(<<"uint64">>, "?")),
                                Field(<<"at">>, T(<<"time","_","point">>))>>)
Dotted   == Struct(<<"foo",".","bar">>, <<Field(<<"row">>, With(<<"row">>, "[]"))>>)
Scored   == Struct(<<"foo","_","bar">>, <<Field(<<"memo">>, T(<<"string">>))>>)
Shadow   == Struct(<<"name">>, <<Field(<<"memo">>, T(<<"string">>))>>)
Choice   == [name |-> <<"foo","bar">>, types |-> <<T(<<"row">>), T(<<"int64">>)>>]
Lists    == [name |-> <<"choice">>, types |-> <<With(<<"int32">>, "[]")>>]
Aliased  == Struct(<<"row">>, <<Field(<<"from">>, T(<<"account","_","name">>))>>)
Named(name, type) == [name |-> name, type |-> type]

Abi(types, structs, variants, actions, tables) ==
  [types |-> types, structs |-> structs, variants |-> variants,
   actions |-> actions, tables |-> tables]

StructLists == {<<>>, <<Row>>, <<Row, Scored>>, <<Scored, Row>>, <<Row, Dotted>>,
                <<Scored, Row, Dotted>>, <<Row, Shadow>>}
VariantLists == {<<>>, <<Choice>>, <<Lists>>}
ActionLists  == {<<>>, <<Named(<<"move">>, <<"row">>)>>,
                 <<Named(<<"move">>, <<"row">>), Named(<<"a",".","b">>, <<"foo","_","bar">>)>>,
                 <<Named(<<"a",".","b">>, <<"foo","_","bar">>), Named(<<"move">>, <<"row">>)>>}

TableLists == {<<>>, <<Named(<<"rows">>, <<"row">>)>>}

Valid(a) ==
  LET defined == {a.structs[i].name : i \in DOMAIN a.structs}
  IN  /\ \A i \in DOMAIN a.actions : a.actions[i].type \in defined
      /\ \A i \in DOMAIN a.tables : a.tables[i].type \in defined
      /\ \A i \in DOMAIN a.variants : a.variants[i] = Choice => <<"row">> \in defined
      /\ a.tables = <<>> => a.structs = <<>> \/ a.variants = <<Lists>>

SomeAbis == {a \in {Abi(<<>>, s, v, x, t) : s \in StructLists, v \in VariantLists,
                                            x \in ActionLists, t \in TableLists} : Valid(a)}

SomeBuiltins == {<<"name">>, <<"uint64">>, <<"int32">>, <<"int64">>, <<"string">>,
                 <<"time","_","point">>}

Chains == {"jungle4", "https://node"}

\* ABIs whose code names a type that nothing defines: one with an alias, one
\* with an action that takes a struct, one with a builtin the generator lacks.
Holder   == Struct(<<"holder">>, <<Field(<<"row">>, T(<<"row">>))>>)
Wide     == Struct(<<"row">>, <<Field(<<"sum">>, T(<<"int256">>))>>)

UndefinedAbis ==
  {Abi(<<[new |-> <<"account","_","name">>, type |-> T(<<"name">>)]>>, <<Aliased>>, <<>>, <<>>, <<>>),
   Abi(<<>>, <<Row, Holder>>, <<>>, <<Named(<<"hold">>, <<"holder">>)>>, <<>>),
   Abi(<<>>, <<Wide>>, <<>>, <<>>, <<>>)}

\* ABIs whose code has two members of one name: a parameter with the name of the
\* first one, two fields, and two cases.
Approval == Struct(<<"approval">>, <<Field(<<"authorization">>, T(<<"name">>))>>)
Twice    == Struct(<<"row">>, <<Field(<<"a",".","b">>, T(<<"name">>)),
                                Field(<<"a","_","b">>, T(<<"name">>))>>)
Cases    == [name |-> <<"choice">>, types |-> <<T(<<"ro","w">>), T(<<"ro","_","w">>)>>]

MemberAbis ==
  {Abi(<<>>, <<Approval>>, <<>>, <<Named(<<"approve">>, <<"approval">>)>>, <<>>),
   Abi(<<>>, <<Twice>>, <<>>, <<>>, <<>>),
   Abi(<<>>, <<>>, <<Cases>>, <<>>, <<>>)}

MisnamedAbis == UndefinedAbis \cup MemberAbis

MoreBuiltins == SomeBuiltins \cup {<<"int256">>}
=============================================================================
