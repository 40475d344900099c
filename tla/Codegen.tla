------------------------------ MODULE Codegen ------------------------------
(***************************************************************************)
(* The code generator of wharfkit-cli (codegen.rs, lib.rs): each run     *)
(* fetches the ABI of a contract, checks its names for collisions, emits a *)
(* Rust module of types, action factories and table accessors, formats it  *)
(* with rustfmt and writes it over the file of the run before.             *)
(*                                                                         *)
(* What is kept of the text is its items, the identifiers and types in     *)
(* them, and their order.                                                  *)
(***************************************************************************)
EXTENDS FiniteSets, RustTypes

CONSTANTS ChainArgs,        \* what --chain may say
          Abis,             \* the ABIs a contract may have
          AntelopeBuiltins, \* is_builtin_type of antelope-client
          None              \* nothing

IsList(l) == Len(l) \in Nat /\ DOMAIN l = 1..Len(l)

ASSUME AbisAssumption ==
  \A a \in Abis : /\ IsList(a.structs) /\ IsList(a.variants)
                   /\ IsList(a.actions) /\ IsList(a.tables)

Failures ==
  {"NetworkFetch", "Serialization", "IdentCollision", "MissingBuiltin", "Rustfmt", "Io"}

ASSUME NoneAssumption == None \notin Failures \cup {"Ok", "Killed", "write"}

VARIABLES pc,      \* where the run is; "idle" between runs
          chain,   \* the ResolvedChain of the run
          abi,     \* its ABI
          source,  \* what it has emitted
          result,  \* how the last run ended
          file,    \* the file at --out: None, Partial or a generated module
          before,  \* the file when the run began (history)
          ended    \* the step at which the last run ended (history)

vars == <<pc, chain, abi, source, result, file, before, ended>>

Partial == [partial |-> TRUE]

-----------------------------------------------------------------------------
(* The emitters.  Each list of the ABI is mapped to entries, one to one. *)

FieldEntries(fields) ==
  [i \in DOMAIN fields |-> [ident |-> snake_ident(fields[i].name),
                            type  |-> abi_type_to_rust_type(fields[i].type)]]

\* The base of the struct is not looked at.
StructEntry(s) ==
  [ident |-> camel_ident(s.name), of |-> s.name, fields |-> FieldEntries(s.fields)]

\* The identifier of a case is made of the whole type, suffixes included.
VariantEntry(v) ==
  [ident |-> camel_ident(v.name), of |-> v.name,
   cases |-> [i \in DOMAIN v.types |->
                [ident |-> camel_ident(v.types[i].of) \o v.types[i].suffixes,
                 type  |-> abi_type_to_rust_type(v.types[i])]]]

\* The structs of the ABI that `find` stops at: the first of that name.
FirstStruct(a, name) ==
  {i \in DOMAIN a.structs : /\ a.structs[i].name = name
                            /\ \A j \in 1..(i - 1) : a.structs[j].name # name}

\* The parameter every factory begins with.
Authorization ==
  [ident |-> <<"authorization">>,
   type  |-> [path |-> FALSE, id |-> <<"permission","level">>, wraps |-> <<>>]]

\* Without such a struct the factory takes the data as it is.
ActionEntry(a, action) ==
  [ident |-> snake_ident(action.name), of |-> action.name, builds |-> camel_ident(action.type),
   first |-> Authorization,
   params |-> {[args |-> FieldEntries(a.structs[i].fields),
                into |-> {k \in DOMAIN a.structs[i].fields :
                          IsString(abi_type_to_rust_type(a.structs[i].fields[k].type))}] :
               i \in FirstStruct(a, action.type)}]

TableEntry(table) ==
  [ident |-> snake_ident(table.name), of |-> table.name, row |-> camel_ident(table.type)]

\* Mutant: the entries stay in the order of the ABI.
wrap_module_Unsorted(entries) ==
  {[entry |-> entries[i], nth |-> i - 1] : i \in DOMAIN entries}

\* wrap_module sorts the entries by identifier, and the sort is stable: what
\* is left of their order is the order of those of one identifier.
wrap_module(entries) ==
  {[entry |-> entries[i],
    nth   |-> Cardinality({j \in 1..(i - 1) : entries[j].ident = entries[i].ident})] :
   i \in DOMAIN entries}

emit_types_module(a) ==
  wrap_module([i \in DOMAIN a.structs  |-> StructEntry(a.structs[i])] \o
              [i \in DOMAIN a.variants |-> VariantEntry(a.variants[i])])

emit_actions_module(a) ==
  wrap_module([i \in DOMAIN a.actions |-> ActionEntry(a, a.actions[i])])

emit_tables_module(a) == wrap_module([i \in DOMAIN a.tables |-> TableEntry(a.tables[i])])

\* The types of the fields and the cases.
NamedTypes(a) == UNION (
  {{a.structs[i].fields[k].type : k \in DOMAIN a.structs[i].fields} : i \in DOMAIN a.structs} \cup
  {{a.variants[i].types[k] : k \in DOMAIN a.variants[i].types} : i \in DOMAIN a.variants})

\* The suffixes of a type are those of the ABI language.
ASSUME SuffixesAssumption ==
  \A a \in Abis : \A type \in NamedTypes(a) : \A n \in DOMAIN type.suffixes :
    type.suffixes[n] \in {"?", "[]", "$"}

\* Types that name a builtin without a mapping.
MissingBuiltins(a) ==
  {type \in NamedTypes(a) : is_abi_builtin(type.of) /\ ~HasMapping(type.of)}

\* The types the header imports.
Imports(a) ==
  {<<"a","b","i">>, <<"action">>, <<"permission","level">>, <<"asset">>, <<"symbol">>,
   <<"name">>, <<"decoder">>, <<"encoder">>, <<"packer">>, <<"table">>}
  \cup (IF a.variants # <<>> THEN {<<"enum","packer">>} ELSE {})
  \cup (IF a.structs # <<>> THEN {<<"struct","packer">>} ELSE {})

emit_header(c, a) == [regenerate |-> c.short_name, id |-> c.id, imports |-> Imports(a)]

\* emit_abi_helpers and ABI_HASH keep the ABI as it was fetched.
Emitted(c, a) ==
  [header |-> emit_header(c, a), types |-> emit_types_module(a),
   actions |-> emit_actions_module(a), tables |-> emit_tables_module(a), abi |-> a]

-----------------------------------------------------------------------------
(* run *)

KnownChains == {"jungle4", "eos", "wax", "telos"}

\* The id and the endpoint of a known chain are named after the chain; the id
\* of another is empty.
resolve_chain(arg) ==
  IF arg \in KnownChains
  THEN [endpoint |-> <<"url", arg>>, id |-> <<"id", arg>>, short_name |-> arg]
  ELSE [endpoint |-> <<arg>>, id |-> <<>>, short_name |-> arg]

\* Mutant: the variants are left out.
type_names_Structs(a) == [i \in DOMAIN a.structs |-> a.structs[i].name]

type_names(a) == [i \in DOMAIN a.structs |-> a.structs[i].name] \o
                 [i \in DOMAIN a.variants |-> a.variants[i].name]

action_names(a) == [i \in DOMAIN a.actions |-> a.actions[i].name]

table_names(a) == [i \in DOMAIN a.tables |-> a.tables[i].name]

\* TRUE if check_ident_collisions finds none.
check_ident_collisions(a) ==
  /\ check_no_collisions(CamelIdents(type_names(a)))
  /\ check_no_collisions(SnakeIdents(action_names(a)))
  /\ check_no_collisions(SnakeIdents(table_names(a)))

Init ==
  /\ pc = "idle" /\ chain = None /\ abi = None /\ source = None /\ result = None
  /\ file = None /\ before = None /\ ended = None

Run(arg) ==
  /\ pc = "idle"
  /\ pc' = "fetch" /\ chain' = resolve_chain(arg)
  /\ abi' = None /\ source' = None /\ result' = None
  /\ before' = file /\ ended' = None
  /\ UNCHANGED file

\* The run goes on at another step.
Goto(step) == pc' = step /\ UNCHANGED <<chain, result, file, before, ended>>

\* The run ends.
End(how) == pc' = "idle" /\ result' = how /\ ended' = pc /\ UNCHANGED <<chain, abi, source, before>>

Fail(error) == End(error) /\ UNCHANGED file

\* fetch_abi: the node answers with the ABI the contract has by now, or fails;
\* the ABI is encoded again for its hash.
Fetch ==
  /\ pc = "fetch"
  /\ \/ Goto("check") /\ abi' \in Abis /\ UNCHANGED source
     \/ \E error \in {"NetworkFetch", "Serialization"} : Fail(error)

Check ==
  /\ pc = "check"
  /\ IF check_ident_collisions(abi)
     THEN Goto("emit") /\ UNCHANGED <<abi, source>>
     ELSE Fail("IdentCollision")

\* The types come first, and the helpers, which encode the ABI, come last.
Emit ==
  /\ pc = "emit"
  /\ IF MissingBuiltins(abi) = {}
     THEN \/ Goto("format") /\ source' = Emitted(chain, abi) /\ UNCHANGED abi
          \/ Fail("Serialization")
     ELSE Fail("MissingBuiltin")

\* Identifiers that end in a suffix are no Rust.
Parses(src) ==
  \A i \in DOMAIN src.abi.variants : \A k \in DOMAIN src.abi.variants[i].types :
    src.abi.variants[i].types[k].suffixes = <<>>

\* Mutant: the file is created before rustfmt runs.
Format_FileFirst ==
  /\ pc = "format"
  /\ \/ Parses(source) /\ Goto("write") /\ UNCHANGED <<abi, source>>
     \/ \E error \in {"Rustfmt", "Io"} : End(error) /\ file' = Partial

\* rustfmt_string: rustfmt may be missing, refuse the source or fail, and the
\* pipes to it and from it may break.
Format ==
  /\ pc = "format"
  /\ \/ Parses(source) /\ Goto("write") /\ UNCHANGED <<abi, source>>
     \/ \E error \in {"Rustfmt", "Io"} : Fail(error)

\* create_dir_all, which may fail, and fs::write, which truncates the file
\* before it writes.
Write ==
  /\ pc = "write"
  /\ \/ End("Ok") /\ file' = source
     \/ End("Io") /\ file' \in {file, Partial}

\* The process ends before the run does: during the write, at any point of it.
Killed ==
  /\ pc # "idle"
  /\ End("Killed")
  /\ IF pc = "write" THEN file' \in {file, Partial, source} ELSE UNCHANGED file

Next ==
  \/ \E arg \in ChainArgs : Run(arg)
  \/ Fetch \/ Check \/ Emit \/ Format \/ Write \/ Killed

Spec == Init /\ [][Next]_vars

-----------------------------------------------------------------------------
(* What the names of a generated module mean *)

Modules(src) == {src.types, src.actions, src.tables}

Idents(module) == {item.entry.ident : item \in module}

Prelude == {<<"string">>, <<"option">>, <<"vec">>}

Locals(src, scope) == IF scope = "types" THEN Idents(src.types) ELSE {}

\* What rustc takes a type for, in the module types or in the module actions:
\* an item of the module comes before an import, and that before the prelude.
Resolved(src, scope, rust) ==
  [head  |-> IF rust.path THEN <<"builtin", rust.id>>
             ELSE IF rust.id \in Locals(src, scope) THEN <<"item", rust.id>>
             ELSE IF rust.id \in src.header.imports \cup Prelude THEN <<"builtin", rust.id>>
             ELSE <<"undefined", rust.id>>,
   wraps |-> [i \in DOMAIN rust.wraps |->
                <<IF <<rust.wraps[i]>> \in Locals(src, scope) THEN "item" ELSE "builtin",
                  rust.wraps[i]>>]]

TypeNames(a) == {type_names(a)[i] : i \in DOMAIN type_names(a)}

Generics(type) ==
  [i \in DOMAIN type.suffixes |->
     <<"builtin", IF type.suffixes[i] = "$" THEN "extension"
                  ELSE IF type.suffixes[i] = "?" THEN "option" ELSE "vec">>]

\* TRUE if what rustc takes is what the ABI means by a type that is no alias.
Means(resolved, type) ==
  /\ resolved.wraps = Generics(type)
  /\ IF type.of \in AntelopeBuiltins
     THEN \E pair \in Packs : pair[2] = type.of /\ resolved.head = <<"builtin", pair[1]>>
     ELSE resolved.head = <<"item", camel_ident(type.of)>>

SameTypes(src, scope, entries, types) ==
  /\ DOMAIN entries = DOMAIN types
  /\ \A k \in DOMAIN types : Means(Resolved(src, scope, entries[k].type), types[k])

\* No two of the members have the same identifier.
UniqueNames(entries) == \A i, k \in DOMAIN entries : entries[i].ident = entries[k].ident => i = k

\* Nor does one have that of the parameter before them.
UniqueParams(first, entries) ==
  UniqueNames(entries) /\ \A k \in DOMAIN entries : entries[k].ident # first.ident

FieldTypes(s) == [k \in DOMAIN s.fields |-> s.fields[k].type]

FieldIdents(s) == [k \in DOMAIN s.fields |-> snake_ident(s.fields[k].name)]

\* The ABIs the generator is right about: no alias, no struct with a base, no
\* binary extension, no action that takes a struct, no type that hides one of
\* the names the generated code uses, only types that the ABI defines or
\* that both the generator and antelope-client know, no struct with two fields
\* of one identifier, and no action with a field authorization.
Plain(a) ==
  /\ a.types = <<>>
  /\ \A type \in NamedTypes(a) :
       \/ type.of \in AntelopeBuiltins /\ is_abi_builtin(type.of)
       \/ type.of \in TypeNames(a) \ AntelopeBuiltins /\ ~is_abi_builtin(type.of)
  /\ \A i \in DOMAIN a.tables : a.tables[i].type \in TypeNames(a)
  /\ \A i \in DOMAIN a.structs : a.structs[i].base = <<>>
  /\ \A i \in DOMAIN a.structs : \A k \in DOMAIN a.structs[i].fields :
       /\ \A n \in DOMAIN a.structs[i].fields[k].type.suffixes :
            a.structs[i].fields[k].type.suffixes[n] # "$"
       /\ (\E j \in DOMAIN a.actions : a.actions[j].type = a.structs[i].name)
            => /\ a.structs[i].fields[k].type.of \in AntelopeBuiltins
               /\ FieldIdents(a.structs[i])[k] # Authorization.ident
  /\ \A i \in DOMAIN a.structs : check_no_collisions(FieldIdents(a.structs[i]))
  /\ \A name \in TypeNames(a) : camel_ident(name) \notin Imports(a) \cup Prelude

-----------------------------------------------------------------------------
(* Properties *)

Generated == file \notin {None, Partial}

\* No module of the file defines an identifier twice: what
\* check_ident_collisions compares are the identifiers the emitters define.
UniqueItems ==
  Generated => \A module \in Modules(file) : \A x, y \in module :
                 x.entry.ident = y.entry.ident => x = y

SameLists(s, t) == {s[i] : i \in DOMAIN s} = {t[i] : i \in DOMAIN t}

SameUpToOrder(a, b) ==
  /\ SameLists(a.structs, b.structs) /\ SameLists(a.variants, b.variants)
  /\ SameLists(a.actions, b.actions) /\ SameLists(a.tables, b.tables)

\* The modules do not depend on the order in which the ABI lists its types,
\* actions and tables: a contract deployed again in another order gives the
\* same code.
OrderIndependent ==
  Generated => \A a \in Abis :
    SameUpToOrder(a, file.abi) /\ check_ident_collisions(a)
      => /\ emit_types_module(a) = file.types
         /\ emit_actions_module(a) = file.actions
         /\ emit_tables_module(a) = file.tables

\* In the code generated from a plain ABI every struct has the fields of its
\* ABI struct, in order and of types that pack as the ABI's do, and every enum
\* its cases; every action builds the struct of its type from parameters of those
\* types, all of different names and after the authorization; and every table's
\* rows are read as the struct of the table.
PacksAsTheAbi ==
  Generated /\ Plain(file.abi) =>
    /\ \A i \in DOMAIN file.abi.structs : \E x \in file.types :
         /\ x.entry.ident = camel_ident(file.abi.structs[i].name)
         /\ x.entry.of = file.abi.structs[i].name
         /\ SameTypes(file, "types", x.entry.fields, FieldTypes(file.abi.structs[i]))
    /\ \A i \in DOMAIN file.abi.variants : \E x \in file.types :
         /\ x.entry.ident = camel_ident(file.abi.variants[i].name)
         /\ x.entry.of = file.abi.variants[i].name
         /\ SameTypes(file, "types", x.entry.cases, file.abi.variants[i].types)
    /\ \A i \in DOMAIN file.abi.actions : \A x \in file.actions : \A s \in DOMAIN file.abi.structs :
         x.entry.of = file.abi.actions[i].name /\ file.abi.structs[s].name = file.abi.actions[i].type
           => /\ x.entry.builds = camel_ident(file.abi.structs[s].name)
              /\ Resolved(file, "actions", x.entry.first.type).head =
                   <<"builtin", <<"permission","level">>>>
              /\ \A p \in x.entry.params : UniqueParams(x.entry.first, p.args)
              /\ \A p \in x.entry.params :
                   SameTypes(file, "actions", p.args, FieldTypes(file.abi.structs[s]))
    /\ \A i \in DOMAIN file.abi.tables : \E x \in file.tables :
         /\ x.entry.of = file.abi.tables[i].name
         /\ \E t \in file.types : t.entry.ident = x.entry.row /\ t.entry.of = file.abi.tables[i].type

\* A run that ends before its write, with an error or killed, leaves the file of
\* the run before; one that ends during it leaves that file, a part of the new one
\* or the new one; and one that succeeds leaves the code of the ABI it fetched.
KeptOnError ==
  /\ ended # "write" => file = before
  /\ ended = "write" => file \in {before, Partial, Emitted(chain, abi)}
  /\ result = "Ok" => file = Emitted(chain, abi) /\ check_ident_collisions(abi)

\* Every type the module names is one it defines or imports.
TypesDefined ==
  Generated =>
    /\ \A x \in file.types :
         LET parts == IF "fields" \in DOMAIN x.entry THEN x.entry.fields ELSE x.entry.cases
         IN  \A k \in DOMAIN parts :
               Resolved(file, "types", parts[k].type).head[1] # "undefined"
    /\ \A x \in file.actions : \A p \in x.entry.params : \A k \in DOMAIN p.args :
         Resolved(file, "actions", p.args[k].type).head[1] # "undefined"
    /\ \A x \in file.tables : x.entry.row \in Idents(file.types)

\* No struct of the module has two fields, no enum two cases and no factory two
\* parameters of one identifier, which Rust refuses.
UniqueMembers ==
  Generated =>
    /\ \A x \in file.types :
         UniqueNames(IF "fields" \in DOMAIN x.entry THEN x.entry.fields ELSE x.entry.cases)
    /\ \A x \in file.actions : \A p \in x.entry.params : UniqueParams(x.entry.first, p.args)

\* "Generate a typed Rust module from a contract's ABI." (main.rs): the module
\* names only types there are, and gives no name to two members of one item.
WellNamed == TypesDefined /\ UniqueMembers
=============================================================================
