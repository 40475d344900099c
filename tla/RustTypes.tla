------------------------------ MODULE RustTypes ------------------------------
(***************************************************************************)
(* The names and types of generated code: how ident.rs turns a name of an  *)
(* ABI into an identifier, and how abi_type_to_rust_type of codegen.rs     *)
(* turns a type of an ABI into a Rust type.                                *)
(*                                                                         *)
(* A name is the sequence of its words and separators: foo_bar is          *)
(* <<"foo","_","bar">>, and fooBar is <<"foo","bar">>.  A type of an ABI   *)
(* is a name and its suffixes; a Rust type is the name of a type, TRUE in  *)
(* `path` if it is a primitive or a full path, and the generics around it. *)
(***************************************************************************)
EXTENDS Naturals, Sequences, Retain

-----------------------------------------------------------------------------
(* ident.rs *)

Keywords ==
  {"as", "break", "const", "continue", "crate", "else", "enum", "extern", "false", "fn",
   "for", "if", "impl", "in", "let", "loop", "match", "mod", "move", "mut", "pub", "ref",
   "return", "self", "Self", "static", "struct", "super", "trait", "true", "type",
   "unsafe", "use", "where", "while", "async", "await", "dyn", "abstract", "become",
   "box", "do", "final", "macro", "override", "priv", "typeof", "unsized", "virtual",
   "yield", "try", "gen"}

is_rust_keyword(s) == Len(s) = 1 /\ s[1] \in Keywords

snake_ident(name) ==
  LET s == [i \in DOMAIN name |-> IF name[i] = "." THEN "_" ELSE name[i]]
  IN  IF is_rust_keyword(s) THEN <<"r#">> \o s ELSE s

camel_ident(name) == Retain(name, {i \in DOMAIN name : name[i] \notin {"_", "."}})

CamelIdents(names) == [i \in DOMAIN names |-> camel_ident(names[i])]

SnakeIdents(names) == [i \in DOMAIN names |-> snake_ident(names[i])]

\* TRUE if no two of the names have become the same identifier.
check_no_collisions(idents) == \A i, j \in DOMAIN idents : idents[i] = idents[j] => i = j

-----------------------------------------------------------------------------
(* codegen.rs *)

is_abi_builtin(name) ==
  name \in {<<"bool">>, <<"int8">>, <<"uint8">>, <<"int16">>, <<"uint16">>, <<"int32">>,
    <<"uint32">>, <<"int64">>, <<"uint64">>, <<"int128">>, <<"uint128">>, <<"varint32">>,
    <<"varuint32">>, <<"float32">>, <<"float64">>, <<"float128">>, <<"bytes">>,
    <<"string">>, <<"time","_","point">>, <<"time","_","point","_","sec">>,
    <<"block","_","timestamp","_","type">>, <<"name">>, <<"asset">>, <<"symbol">>,
    <<"symbol","_","code">>, <<"checksum160">>, <<"checksum256">>, <<"checksum512">>,
    <<"public","_","key">>, <<"signature">>, <<"extended","_","asset">>}

(* The arms of the match of abi_type_to_rust_type: a type of the ABI and the *)
(* Rust type it becomes.                                                     *)

FixedInts == {
  <<<<"int8">>, <<"i8">>>>, <<<<"uint8">>, <<"u8">>>>,
  <<<<"int16">>, <<"i16">>>>, <<<<"uint16">>, <<"u16">>>>,
  <<<<"int32">>, <<"i32">>>>, <<<<"uint32">>, <<"u32">>>>,
  <<<<"int64">>, <<"i64">>>>, <<<<"uint64">>, <<"u64">>>>,
  <<<<"int128">>, <<"i128">>>>, <<<<"uint128">>, <<"u128">>>>}

Scalars == {
  <<<<"bool">>, <<"bool">>>>, <<<<"float32">>, <<"f32">>>>, <<<<"float64">>, <<"f64">>>>,
  <<<<"bytes">>, <<"vec","u8">>>>}

\* Those whose Rust type is an identifier that the header or the prelude has.
Bare == {
  <<<<"string">>, <<"string">>>>, <<<<"name">>, <<"name">>>>,
  <<<<"asset">>, <<"asset">>>>, <<<<"symbol">>, <<"symbol">>>>}

Paths == {
  <<<<"float128">>, <<"float128">>>>,
  <<<<"symbol","_","code">>, <<"symbol","code">>>>,
  <<<<"extended","_","asset">>, <<"extended","asset">>>>,
  <<<<"checksum160">>, <<"checksum160">>>>, <<<<"checksum256">>, <<"checksum256">>>>,
  <<<<"checksum512">>, <<"checksum512">>>>,
  <<<<"public","_","key">>, <<"public","key">>>>, <<<<"signature">>, <<"signature">>>>,
  <<<<"varuint32">>, <<"var","uint32">>>>, <<<<"varint32">>, <<"var","int32">>>>}

\* Mutant: a time_point becomes a TimePointSec.
Times_Sec == {
  <<<<"time","_","point">>, <<"time","point","sec">>>>,
  <<<<"time","_","point","_","sec">>, <<"time","point","sec">>>>,
  <<<<"block","_","timestamp","_","type">>, <<"block","timestamp">>>>}

Times == {
  <<<<"time","_","point">>, <<"time","point">>>>,
  <<<<"time","_","point","_","sec">>, <<"time","point","sec">>>>,
  <<<<"block","_","timestamp","_","type">>, <<"block","timestamp">>>>}

Arms == FixedInts \cup Scalars \cup Bare \cup Paths \cup Times

HasMapping(name) == \E arm \in Arms : arm[1] = name

RustType(name) == (CHOOSE arm \in Arms : arm[1] = name)[2]

BareTypes == {<<"string">>, <<"name">>, <<"asset">>, <<"symbol">>}

\* The generic a suffix becomes.
Wrap == [suffix \in {"?", "[]", "$"} |-> IF suffix = "[]" THEN "vec" ELSE "option"]

Wrapped(type) == [i \in DOMAIN type.suffixes |-> Wrap[type.suffixes[i]]]

\* For a type that has a mapping or is no builtin.
abi_type_to_rust_type(type) ==
  IF HasMapping(type.of)
  THEN [path |-> RustType(type.of) \notin BareTypes, id |-> RustType(type.of),
        wraps |-> Wrapped(type)]
  ELSE [path |-> FALSE, id |-> camel_ident(type.of), wraps |-> Wrapped(type)]

IsString(rust) == ~rust.path /\ rust.id = <<"string">> /\ rust.wraps = <<>>

-----------------------------------------------------------------------------
(* The types of Rust and antelope-client, each with the type of the ABI      *)
(* language whose bytes its Packer reads and writes.                         *)

Packs == {
  <<<<"bool">>, <<"bool">>>>,
  <<<<"i8">>, <<"int8">>>>, <<<<"i16">>, <<"int16">>>>, <<<<"i32">>, <<"int32">>>>,
  <<<<"i64">>, <<"int64">>>>, <<<<"i128">>, <<"int128">>>>,
  <<<<"u8">>, <<"uint8">>>>, <<<<"u16">>, <<"uint16">>>>, <<<<"u32">>, <<"uint32">>>>,
  <<<<"u64">>, <<"uint64">>>>, <<<<"u128">>, <<"uint128">>>>,
  <<<<"f32">>, <<"float32">>>>, <<<<"f64">>, <<"float64">>>>, <<<<"float128">>, <<"float128">>>>,
  <<<<"var","int32">>, <<"varint32">>>>, <<<<"var","uint32">>, <<"varuint32">>>>,
  <<<<"string">>, <<"string">>>>, <<<<"vec","u8">>, <<"bytes">>>>,
  <<<<"name">>, <<"name">>>>, <<<<"asset">>, <<"asset">>>>, <<<<"symbol">>, <<"symbol">>>>,
  <<<<"symbol","code">>, <<"symbol","_","code">>>>,
  <<<<"extended","asset">>, <<"extended","_","asset">>>>,
  <<<<"checksum160">>, <<"checksum160">>>>, <<<<"checksum256">>, <<"checksum256">>>>,
  <<<<"checksum512">>, <<"checksum512">>>>,
  <<<<"public","key">>, <<"public","_","key">>>>, <<<<"signature">>, <<"signature">>>>,
  <<<<"time","point">>, <<"time","_","point">>>>,
  <<<<"time","point","sec">>, <<"time","_","point","_","sec">>>>,
  <<<<"block","timestamp">>, <<"block","_","timestamp","_","type">>>>}
=============================================================================
