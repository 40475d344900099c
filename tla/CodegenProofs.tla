---------------------------- MODULE CodegenProofs ----------------------------
(* Proofs about Codegen, for every set of ABIs: the generated modules define *)
(* no identifier twice and do not depend on the order of the ABI, and a run  *)
(* that ends before its write leaves the file.                               *)
EXTENDS Codegen, RetainProofs, FiniteSetTheorems, TLAPS

\* The entries of a list have distinct identifiers.
Distinct(entries) ==
  \A i, j \in DOMAIN entries : entries[i].ident = entries[j].ident => i = j

Unique(module) == \A x, y \in module : x.entry.ident = y.entry.ident => x = y

Elements(list) == {list[i] : i \in DOMAIN list}

LEMMA WrapUnique ==
  ASSUME NEW entries, Distinct(entries)
  PROVE  Unique(wrap_module(entries))
<1> SUFFICES ASSUME NEW x \in wrap_module(entries), NEW y \in wrap_module(entries),
                    x.entry.ident = y.entry.ident
             PROVE  x = y
  BY DEF Unique
<1>1. PICK i \in DOMAIN entries :
        x = [entry |-> entries[i],
             nth   |-> Cardinality({j \in 1..(i - 1) : entries[j].ident = entries[i].ident})]
  BY DEF wrap_module
<1>2. PICK k \in DOMAIN entries :
        y = [entry |-> entries[k],
             nth   |-> Cardinality({j \in 1..(k - 1) : entries[j].ident = entries[k].ident})]
  BY DEF wrap_module
<1>3. x.entry = entries[i] /\ y.entry = entries[k]
  BY <1>1, <1>2
<1>4. i = k
  BY <1>3 DEF Distinct
<1> QED
  BY <1>1, <1>2, <1>4

\* Sorting distinct entries leaves nothing of their order.
LEMMA WrapDistinct ==
  ASSUME NEW entries, IsList(entries), Distinct(entries)
  PROVE  wrap_module(entries) = {[entry |-> e, nth |-> 0] : e \in Elements(entries)}
<1>1. \A i \in DOMAIN entries :
        Cardinality({j \in 1..(i - 1) : entries[j].ident = entries[i].ident}) = 0
  <2> SUFFICES ASSUME NEW i \in DOMAIN entries
               PROVE  {j \in 1..(i - 1) : entries[j].ident = entries[i].ident} = {}
    BY FS_EmptySet
  <2>1. i \in 1..Len(entries) /\ Len(entries) \in Nat
    BY DEF IsList
  <2>2. \A j \in 1..(i - 1) : j \in DOMAIN entries /\ j # i
    BY <2>1 DEF IsList
  <2> QED
    BY <2>2 DEF Distinct
<1> QED
  BY <1>1 DEF wrap_module, Elements

\* Concatenation, element by element.
LEMMA Appended ==
  ASSUME NEW m \in Nat, NEW n \in Nat, NEW s, NEW t,
         s = [i \in 1..m |-> s[i]], t = [i \in 1..n |-> t[i]]
  PROVE  /\ DOMAIN (s \o t) = 1..(m + n) /\ Len(s \o t) = m + n
         /\ \A i \in 1..m : (s \o t)[i] = s[i]
         /\ \A i \in (m + 1)..(m + n) : (s \o t)[i] = t[i - m]
<1> DEFINE S == {s[i] : i \in 1..m} \cup {t[i] : i \in 1..n}
<1>1. s \in [1..m -> S] /\ t \in [1..n -> S]
  OBVIOUS
<1> HIDE DEF S
<1>2. s \in Seq(S) /\ t \in Seq(S) /\ Len(s) = m /\ Len(t) = n
  BY <1>1
<1> QED
  BY <1>2

-----------------------------------------------------------------------------
(* Each list of entries of an ABI that passes the check is distinct *)

TypeEntries(a) ==
  [i \in DOMAIN a.structs  |-> StructEntry(a.structs[i])] \o
  [i \in DOMAIN a.variants |-> VariantEntry(a.variants[i])]

ActionEntries(a) == [i \in DOMAIN a.actions |-> ActionEntry(a, a.actions[i])]

TableEntries(a) == [i \in DOMAIN a.tables |-> TableEntry(a.tables[i])]

LEMMA TypeEntriesAre ==
  ASSUME NEW a \in Abis
  PROVE  /\ IsList(TypeEntries(a))
         /\ DOMAIN TypeEntries(a) = DOMAIN type_names(a)
         /\ \A i \in DOMAIN type_names(a) :
              /\ TypeEntries(a)[i].ident = camel_ident(type_names(a)[i])
              /\ TypeEntries(a)[i].of = type_names(a)[i]
         /\ Elements(TypeEntries(a)) =
              {StructEntry(s) : s \in Elements(a.structs)} \cup
              {VariantEntry(v) : v \in Elements(a.variants)}
         /\ \A i \in DOMAIN a.structs :
              i \in DOMAIN type_names(a) /\ type_names(a)[i] = a.structs[i].name
<1> DEFINE m == Len(a.structs)
           n == Len(a.variants)
           S == [i \in 1..m |-> StructEntry(a.structs[i])]
           V == [i \in 1..n |-> VariantEntry(a.variants[i])]
           SN == [i \in 1..m |-> a.structs[i].name]
           VN == [i \in 1..n |-> a.variants[i].name]
<1>1. /\ m \in Nat /\ n \in Nat
      /\ DOMAIN a.structs = 1..m /\ DOMAIN a.variants = 1..n
  BY AbisAssumption DEF IsList
<1>2. TypeEntries(a) = S \o V /\ type_names(a) = SN \o VN
  BY <1>1 DEF TypeEntries, type_names
<1>3. /\ S = [i \in 1..m |-> S[i]] /\ V = [i \in 1..n |-> V[i]]
      /\ SN = [i \in 1..m |-> SN[i]] /\ VN = [i \in 1..n |-> VN[i]]
  OBVIOUS
<1> HIDE DEF m, n, S, V, SN, VN
<1>4. /\ DOMAIN (S \o V) = 1..(m + n) /\ Len(S \o V) = m + n
      /\ \A i \in 1..m : (S \o V)[i] = S[i]
      /\ \A i \in (m + 1)..(m + n) : (S \o V)[i] = V[i - m]
  BY <1>1, <1>3, Appended
<1>5. /\ DOMAIN (SN \o VN) = 1..(m + n)
      /\ \A i \in 1..m : (SN \o VN)[i] = SN[i]
      /\ \A i \in (m + 1)..(m + n) : (SN \o VN)[i] = VN[i - m]
  BY <1>1, <1>3, Appended
<1>6. \A i \in 1..m : S[i].ident = camel_ident(SN[i]) /\ S[i] = StructEntry(a.structs[i])
                      /\ SN[i] = a.structs[i].name /\ S[i].of = SN[i]
  BY DEF S, SN, StructEntry
<1>7. \A i \in 1..n : V[i].ident = camel_ident(VN[i]) /\ V[i] = VariantEntry(a.variants[i])
                      /\ V[i].of = VN[i]
  BY DEF V, VN, VariantEntry
<1>8. \A i \in 1..(m + n) : i \in 1..m \/ (i \in (m + 1)..(m + n) /\ i - m \in 1..n)
  BY <1>1
<1>9. \A i \in 1..n : i + m \in (m + 1)..(m + n) /\ (i + m) - m = i
  BY <1>1
<1>10. 1..m \subseteq 1..(m + n) /\ (m + 1)..(m + n) \subseteq 1..(m + n) /\ m + n \in Nat
  BY <1>1
<1>11. IsList(S \o V)
  BY <1>4, <1>10 DEF IsList
<1>12. \A i \in 1..(m + n) : /\ (S \o V)[i].ident = camel_ident((SN \o VN)[i])
                             /\ (S \o V)[i].of = (SN \o VN)[i]
  <2>1. ASSUME NEW i \in 1..m
        PROVE  (S \o V)[i].ident = camel_ident((SN \o VN)[i]) /\ (S \o V)[i].of = (SN \o VN)[i]
    <3>1. (S \o V)[i] = S[i] /\ (SN \o VN)[i] = SN[i]
      BY <1>4, <1>5
    <3>. QED
      BY <1>6, <3>1
  <2>2. ASSUME NEW i \in (m + 1)..(m + n), i - m \in 1..n
        PROVE  (S \o V)[i].ident = camel_ident((SN \o VN)[i]) /\ (S \o V)[i].of = (SN \o VN)[i]
    <3>1. (S \o V)[i] = V[i - m] /\ (SN \o VN)[i] = VN[i - m]
      BY <1>4, <1>5
    <3> DEFINE k == i - m
    <3>2. k \in 1..n /\ (S \o V)[i] = V[k] /\ (SN \o VN)[i] = VN[k]
      BY <2>2, <3>1
    <3> HIDE DEF k
    <3>. QED
      BY <1>7, <3>2
  <2>. QED
    BY <1>8, <2>1, <2>2
<1>13. Elements(S \o V) = {S[i] : i \in 1..m} \cup {V[i] : i \in 1..n}
  <2>1. Elements(S \o V) = {(S \o V)[i] : i \in 1..(m + n)}
    BY <1>4 DEF Elements
  <2>2. {(S \o V)[i] : i \in 1..(m + n)} \subseteq {S[i] : i \in 1..m} \cup {V[i] : i \in 1..n}
    BY <1>4, <1>8
  <2>3. \A i \in 1..m : S[i] \in {(S \o V)[k] : k \in 1..(m + n)}
    BY <1>4, <1>10
  <2>4. \A i \in 1..n : V[i] = (S \o V)[i + m] /\ i + m \in 1..(m + n)
    BY <1>4, <1>9, <1>10
  <2> QED
    BY <2>1, <2>2, <2>3, <2>4
<1>14. {S[i] : i \in 1..m} = {StructEntry(s) : s \in Elements(a.structs)}
  BY <1>1, <1>6 DEF Elements
<1>15. {V[i] : i \in 1..n} = {VariantEntry(v) : v \in Elements(a.variants)}
  BY <1>1, <1>7 DEF Elements
<1> QED
  BY <1>1, <1>2, <1>4, <1>5, <1>6, <1>10, <1>11, <1>12, <1>13, <1>14, <1>15

LEMMA CheckedDistinct ==
  ASSUME NEW a \in Abis, check_ident_collisions(a)
  PROVE  Distinct(TypeEntries(a)) /\ Distinct(ActionEntries(a)) /\ Distinct(TableEntries(a))
<1>1. Distinct(TypeEntries(a))
  BY TypeEntriesAre DEF Distinct, check_ident_collisions, check_no_collisions,
         CamelIdents, SnakeIdents
<1>2. Distinct(ActionEntries(a))
  BY DEF Distinct, ActionEntries, ActionEntry, check_ident_collisions, check_no_collisions,
         CamelIdents, SnakeIdents, action_names
<1>3. Distinct(TableEntries(a))
  BY DEF Distinct, TableEntries, TableEntry, check_ident_collisions, check_no_collisions,
         CamelIdents, SnakeIdents, table_names
<1> QED
  BY <1>1, <1>2, <1>3
-----------------------------------------------------------------------------
(* The modules of two ABIs that differ in the order of their lists *)

\* In an ABI that passes the check, find stops at the one struct of the name.
LEMMA OneStruct ==
  ASSUME NEW a \in Abis, check_ident_collisions(a), NEW name
  PROVE  FirstStruct(a, name) = {i \in DOMAIN a.structs : a.structs[i].name = name}
<1>1. \A i, j \in DOMAIN a.structs : a.structs[i].name = a.structs[j].name => i = j
  BY TypeEntriesAre DEF check_ident_collisions, check_no_collisions,
         CamelIdents, SnakeIdents
<1>2. Len(a.structs) \in Nat /\ DOMAIN a.structs = 1..Len(a.structs)
  BY AbisAssumption DEF IsList
<1>3. \A i \in DOMAIN a.structs : \A j \in 1..(i - 1) : j \in DOMAIN a.structs /\ j # i
  BY <1>2
<1> QED
  BY <1>1, <1>3 DEF FirstStruct

\* The parameters of a factory, from the struct of its type.
Params(s) ==
  [args |-> FieldEntries(s.fields),
   into |-> {k \in DOMAIN s.fields : IsString(abi_type_to_rust_type(s.fields[k].type))}]

LEMMA SameFactory ==
  ASSUME NEW a \in Abis, NEW b \in Abis, check_ident_collisions(a), check_ident_collisions(b),
         SameLists(a.structs, b.structs), NEW action
  PROVE  ActionEntry(a, action) = ActionEntry(b, action)
<1> DEFINE P(x) == {Params(x.structs[i]) : i \in FirstStruct(x, action.type)}
<1>1. \A x \in {a, b} : P(x) = {Params(s) : s \in {t \in Elements(x.structs) : t.name = action.type}}
  BY OneStruct DEF Elements
<1>2. P(a) = P(b)
  BY <1>1 DEF SameLists, Elements
<1>3. \A x \in {a, b} : ActionEntry(x, action) =
        [ident |-> snake_ident(action.name), of |-> action.name,
         builds |-> camel_ident(action.type), first |-> Authorization, params |-> P(x)]
  BY DEF ActionEntry, Params
<1> HIDE DEF P
<1> QED
  BY <1>2, <1>3

LEMMA SameModules ==
  ASSUME NEW a \in Abis, NEW b \in Abis, check_ident_collisions(a), check_ident_collisions(b),
         SameUpToOrder(a, b)
  PROVE  /\ emit_types_module(a) = emit_types_module(b)
         /\ emit_actions_module(a) = emit_actions_module(b)
         /\ emit_tables_module(a) = emit_tables_module(b)
<1>1. \A x \in {a, b} : /\ Distinct(TypeEntries(x)) /\ Distinct(ActionEntries(x))
                        /\ Distinct(TableEntries(x))
  BY CheckedDistinct
<1>2. \A x \in {a, b} : IsList(x.actions) /\ IsList(x.tables)
  BY AbisAssumption
<1>3. \A x \in {a, b} : IsList(TypeEntries(x))
  BY TypeEntriesAre
<1>4. \A n \in Nat : \A f : IsList([i \in 1..n |-> f[i]])
  BY DEF IsList
<1>5. \A x \in {a, b} : IsList(ActionEntries(x)) /\ IsList(TableEntries(x))
  <2> SUFFICES ASSUME NEW x \in {a, b}
               PROVE  IsList(ActionEntries(x)) /\ IsList(TableEntries(x))
    OBVIOUS
  <2>1. /\ Len(x.actions) \in Nat /\ DOMAIN x.actions = 1..Len(x.actions)
        /\ Len(x.tables) \in Nat /\ DOMAIN x.tables = 1..Len(x.tables)
    BY <1>2 DEF IsList
  <2>2. ActionEntries(x) = [i \in 1..Len(x.actions) |-> ActionEntries(x)[i]]
    BY <2>1 DEF ActionEntries
  <2>3. TableEntries(x) = [i \in 1..Len(x.tables) |-> TableEntries(x)[i]]
    BY <2>1 DEF TableEntries
  <2> QED
    BY <1>4, <2>1, <2>2, <2>3
<1>6. Elements(TypeEntries(a)) = Elements(TypeEntries(b))
  <2>1. Elements(a.structs) = Elements(b.structs) /\ Elements(a.variants) = Elements(b.variants)
    BY DEF SameUpToOrder, SameLists, Elements
  <2> QED
    BY <2>1, TypeEntriesAre
<1>7. Elements(ActionEntries(a)) = Elements(ActionEntries(b))
  <2>1. \A x : Elements(ActionEntries(x)) = {ActionEntry(x, y) : y \in Elements(x.actions)}
    BY DEF Elements, ActionEntries
  <2>2. Elements(a.actions) = Elements(b.actions)
    BY DEF SameUpToOrder, SameLists, Elements
  <2>3. \A y : ActionEntry(a, y) = ActionEntry(b, y)
    BY SameFactory DEF SameUpToOrder
  <2> QED
    BY <2>1, <2>2, <2>3
<1>8. Elements(TableEntries(a)) = Elements(TableEntries(b))
  <2>1. \A x : Elements(TableEntries(x)) = {TableEntry(y) : y \in Elements(x.tables)}
    BY DEF Elements, TableEntries
  <2>2. Elements(a.tables) = Elements(b.tables)
    BY DEF SameUpToOrder, SameLists, Elements
  <2> QED
    BY <2>1, <2>2
<1>9. \A x : /\ emit_types_module(x) = wrap_module(TypeEntries(x))
            /\ emit_actions_module(x) = wrap_module(ActionEntries(x))
            /\ emit_tables_module(x) = wrap_module(TableEntries(x))
  BY DEF emit_types_module, emit_actions_module, emit_tables_module, TypeEntries,
         ActionEntries, TableEntries
<1>10. wrap_module(TypeEntries(a)) = wrap_module(TypeEntries(b))
  BY <1>1, <1>3, <1>6, WrapDistinct
<1>11. wrap_module(ActionEntries(a)) = wrap_module(ActionEntries(b))
  BY <1>1, <1>5, <1>7, WrapDistinct
<1>12. wrap_module(TableEntries(a)) = wrap_module(TableEntries(b))
  BY <1>1, <1>5, <1>8, WrapDistinct
<1> QED
  BY <1>9, <1>10, <1>11, <1>12

-----------------------------------------------------------------------------
(* The invariant of a run *)

\* What a run knows at each of its steps, and what is in the file.
RunInv ==
  /\ pc \in {"idle", "fetch", "check", "emit", "format", "write"}
  /\ pc # "idle" => file = before /\ result = None /\ ended = None
  /\ pc \in {"check", "emit", "format", "write"} => abi \in Abis
  /\ pc \in {"emit", "format", "write"} => check_ident_collisions(abi)
  /\ pc \in {"format", "write"} => source = Emitted(chain, abi)
  /\ pc = "write" => Parses(source)

FileInv ==
  Generated =>
    /\ Parses(file)
    /\ \E c : \E a \in Abis : file = Emitted(c, a) /\ check_ident_collisions(a)

IInv == RunInv /\ FileInv /\ KeptOnError

LEMMA InvInit == Init => IInv
  BY NoneAssumption DEF Init, IInv, RunInv, FileInv, KeptOnError, Generated

\* A run that ends with an error or killed, its file as it was or in the write.
LEMMA EndStep ==
  ASSUME IInv, NEW how \in Failures \cup {"Killed"}, pc # "idle", End(how),
         file' = file \/ (pc = "write" /\ file' \in {file, Partial, source})
  PROVE  IInv'
<1>1. pc' = "idle" /\ result' = how /\ ended' = pc /\ how # "Ok"
      /\ UNCHANGED <<chain, abi, source, before>>
  BY DEF End, Failures
<1>2. file = before
  BY DEF IInv, RunInv
<1>3. RunInv'
  BY <1>1 DEF RunInv
<1>4. CASE file' = file
  <2>1. FileInv'
    BY <1>4 DEF IInv, FileInv, Generated
  <2>2. KeptOnError'
    BY <1>1, <1>2, <1>4, NoneAssumption DEF KeptOnError, Failures
  <2>. QED
    BY <1>3, <2>1, <2>2 DEF IInv
<1>5. CASE pc = "write" /\ file' \in {file, Partial, source}
  <2>1. abi \in Abis /\ check_ident_collisions(abi) /\ source = Emitted(chain, abi) /\ Parses(source)
    BY <1>5 DEF IInv, RunInv
  <2>2. FileInv'
    BY <1>5, <2>1 DEF IInv, FileInv, Generated
  <2>3. KeptOnError'
    BY <1>1, <1>2, <1>5, <2>1 DEF KeptOnError
  <2>. QED
    BY <1>3, <2>2, <2>3 DEF IInv
<1>. QED
  BY <1>4, <1>5

\* A step that leaves the file and goes on.
LEMMA GotoStep ==
  ASSUME IInv, NEW step \in {"check", "emit", "format", "write"}, pc # "idle", Goto(step), RunInv'
  PROVE  IInv'
  BY NoneAssumption DEF Goto, IInv, FileInv, KeptOnError, Generated, RunInv, Failures

LEMMA InvStep == IInv /\ [Next]_vars => IInv'
<1> SUFFICES ASSUME IInv, [Next]_vars PROVE IInv'
  OBVIOUS
<1> USE NoneAssumption
<1>1. ASSUME NEW arg \in ChainArgs, Run(arg) PROVE IInv'
  BY <1>1 DEF Run, IInv, RunInv, FileInv, KeptOnError, Generated
<1>2. CASE Fetch
  <2>1. CASE Goto("check") /\ abi' \in Abis
    BY <1>2, <2>1, GotoStep DEF Fetch, Goto, IInv, RunInv
  <2>2. ASSUME NEW error \in {"NetworkFetch", "Serialization"}, Fail(error) PROVE IInv'
    BY <1>2, <2>2, EndStep DEF Fetch, Fail, Failures
  <2>. QED
    BY <1>2, <2>1, <2>2 DEF Fetch
<1>3. CASE Check
  <2>1. CASE check_ident_collisions(abi)
    BY <1>3, <2>1, GotoStep DEF Check, Goto, IInv, RunInv
  <2>2. CASE ~check_ident_collisions(abi)
    BY <1>3, <2>2, EndStep DEF Check, Fail, Failures
  <2>. QED
    BY <2>1, <2>2
<1>4. CASE Emit
  <2>1. CASE Goto("format") /\ source' = Emitted(chain, abi) /\ UNCHANGED abi
    <3>1. RunInv'
      BY <1>4, <2>1 DEF Emit, Goto, IInv, RunInv
    <3>. QED
      BY <1>4, <2>1, <3>1, GotoStep DEF Emit
  <2>2. ASSUME NEW error \in {"MissingBuiltin", "Serialization"}, Fail(error) PROVE IInv'
    BY <1>4, <2>2, EndStep DEF Emit, Fail, Failures
  <2>. QED
    BY <1>4, <2>1, <2>2 DEF Emit
<1>5. CASE Format
  <2>1. CASE Parses(source) /\ Goto("write") /\ UNCHANGED <<abi, source>>
    <3>1. RunInv'
      BY <1>5, <2>1 DEF Format, Goto, IInv, RunInv
    <3>. QED
      BY <1>5, <2>1, <3>1, GotoStep DEF Format
  <2>2. ASSUME NEW error \in {"Rustfmt", "Io"}, Fail(error) PROVE IInv'
    BY <1>5, <2>2, EndStep DEF Format, Fail, Failures
  <2>. QED
    BY <1>5, <2>1, <2>2 DEF Format
<1>6. CASE Write
  <2>1. CASE End("Ok") /\ file' = source
    <3>1. abi \in Abis /\ check_ident_collisions(abi) /\ source = Emitted(chain, abi) /\ Parses(source)
      BY <1>6 DEF Write, IInv, RunInv
    <3>2. pc' = "idle" /\ ended' = "write" /\ UNCHANGED <<chain, abi, source>>
      BY <1>6, <2>1 DEF Write, End
    <3>. QED
      BY <2>1, <3>1, <3>2 DEF IInv, RunInv, FileInv, KeptOnError, Generated
  <2>2. CASE End("Io") /\ file' \in {file, Partial}
    BY <1>6, <2>2, EndStep DEF Write, Failures
  <2>. QED
    BY <1>6, <2>1, <2>2 DEF Write
<1>7. CASE Killed
  BY <1>7, EndStep DEF Killed
<1>8. CASE UNCHANGED vars
  BY <1>8 DEF vars, IInv, RunInv, FileInv, KeptOnError, Generated
<1> QED
  BY <1>1, <1>2, <1>3, <1>4, <1>5, <1>6, <1>7, <1>8 DEF Next

THEOREM Inductive == Spec => []IInv
  BY InvInit, InvStep, PTL DEF Spec

\* A run that ends before its write leaves the file of the run before; one that
\* ends during it, that file, the new one or a part of it; and a run that succeeds
\* leaves the code of its ABI.
THEOREM FileKept == Spec => []KeptOnError
<1>1. IInv => KeptOnError
  BY DEF IInv
<1> QED
  BY <1>1, Inductive, PTL

LEMMA EmittedUnique ==
  ASSUME FileInv PROVE UniqueItems
<1> SUFFICES ASSUME Generated, NEW module \in Modules(file) PROVE Unique(module)
  BY DEF UniqueItems, Unique
<1>0. PICK c : \E a \in Abis : file = Emitted(c, a) /\ check_ident_collisions(a)
  BY DEF FileInv
<1>1. PICK a \in Abis : file = Emitted(c, a) /\ check_ident_collisions(a)
  BY <1>0
<1>2. /\ file.types = wrap_module(TypeEntries(a))
      /\ file.actions = wrap_module(ActionEntries(a))
      /\ file.tables = wrap_module(TableEntries(a))
  BY <1>1 DEF Emitted, emit_types_module, emit_actions_module, emit_tables_module,
     TypeEntries, ActionEntries, TableEntries
<1> QED
  BY <1>1, <1>2, CheckedDistinct, WrapUnique DEF Modules

\* No generated module defines an identifier twice.
THEOREM NoItemTwice == Spec => []UniqueItems
<1>1. IInv => UniqueItems
  BY EmittedUnique DEF IInv
<1> QED
  BY <1>1, Inductive, PTL

LEMMA EmittedInAnyOrder ==
  ASSUME FileInv PROVE OrderIndependent
<1> SUFFICES ASSUME Generated, NEW b \in Abis, SameUpToOrder(b, file.abi),
                    check_ident_collisions(b)
             PROVE  /\ emit_types_module(b) = file.types
                    /\ emit_actions_module(b) = file.actions
                    /\ emit_tables_module(b) = file.tables
  BY DEF OrderIndependent
<1>0. PICK c : \E a \in Abis : file = Emitted(c, a) /\ check_ident_collisions(a)
  BY DEF FileInv
<1>1. PICK a \in Abis : file = Emitted(c, a) /\ check_ident_collisions(a)
  BY <1>0
<1>2. /\ file.abi = a /\ file.types = emit_types_module(a)
      /\ file.actions = emit_actions_module(a) /\ file.tables = emit_tables_module(a)
  BY <1>1 DEF Emitted
<1> QED
  BY <1>1, <1>2, SameModules

\* The generated modules do not depend on the order of the ABI's lists.
THEOREM AnyOrder == Spec => []OrderIndependent
<1>1. IInv => OrderIndependent
  BY EmittedInAnyOrder DEF IInv
<1> QED
  BY <1>1, Inductive, PTL

-----------------------------------------------------------------------------
(* The generated types pack as the ABI says *)

\* Every arm of the type table is for a builtin and packs as it.
LEMMA ArmsPack ==
  ASSUME NEW arm \in Arms
  PROVE  <<arm[2], arm[1]>> \in Packs /\ is_abi_builtin(arm[1])
<1>0. CASE arm \in FixedInts
  <2>1. \E x, y : arm = <<x, y>> /\ <<y, x>> \in Packs /\ is_abi_builtin(x)
    BY <1>0, ZenonT(60) DEF FixedInts, Packs, is_abi_builtin
  <2>. QED
    BY <2>1
<1>1. CASE arm \in Scalars
  <2>1. \E x, y : arm = <<x, y>> /\ <<y, x>> \in Packs /\ is_abi_builtin(x)
    BY <1>1, ZenonT(60) DEF Scalars, Packs, is_abi_builtin
  <2>. QED
    BY <2>1
<1>2. CASE arm \in Bare
  <2>1. \E x, y : arm = <<x, y>> /\ <<y, x>> \in Packs /\ is_abi_builtin(x)
    BY <1>2, ZenonT(60) DEF Bare, Packs, is_abi_builtin
  <2>. QED
    BY <2>1
<1>3. CASE arm \in Paths
  <2>1. \E x, y : arm = <<x, y>> /\ <<y, x>> \in Packs /\ is_abi_builtin(x)
    BY <1>3, ZenonT(60) DEF Paths, Packs, is_abi_builtin
  <2>. QED
    BY <2>1
<1>4. CASE arm \in Times
  <2>1. \E x, y : arm = <<x, y>> /\ <<y, x>> \in Packs /\ is_abi_builtin(x)
    BY <1>4, ZenonT(60) DEF Times, Packs, is_abi_builtin
  <2>. QED
    BY <2>1
<1>. QED
  BY <1>0, <1>1, <1>2, <1>3, <1>4 DEF Arms

\* The builtins are the types that have an arm.
LEMMA BuiltinsMapped ==
  ASSUME NEW name
  PROVE  is_abi_builtin(name) <=> HasMapping(name)
<1>1. ASSUME is_abi_builtin(name) PROVE HasMapping(name)
  <2> DEFINE ints == {<<"int8">>, <<"uint8">>, <<"int16">>, <<"uint16">>, <<"int32">>,
                      <<"uint32">>, <<"int64">>, <<"uint64">>, <<"int128">>, <<"uint128">>}
             scalars == {<<"bool">>, <<"float32">>, <<"float64">>, <<"bytes">>}
             bare == {<<"string">>, <<"name">>, <<"asset">>, <<"symbol">>}
             times == {<<"time","_","point">>, <<"time","_","point","_","sec">>,
                       <<"block","_","timestamp","_","type">>}
             paths == {<<"float128">>, <<"symbol","_","code">>, <<"extended","_","asset">>,
                       <<"checksum160">>, <<"checksum256">>, <<"checksum512">>,
                       <<"public","_","key">>, <<"signature">>, <<"varuint32">>, <<"varint32">>}
  <2>1. name \in ints \/ name \in scalars \/ name \in bare \/ name \in times \/ name \in paths
    BY <1>1, ZenonT(60) DEF is_abi_builtin
  <2>2. name \in ints => \E x : <<name, x>> \in FixedInts
    BY ZenonT(60) DEF FixedInts
  <2>3. name \in scalars => \E x : <<name, x>> \in Scalars
    BY ZenonT(60) DEF Scalars
  <2>4. name \in bare => \E x : <<name, x>> \in Bare
    BY ZenonT(60) DEF Bare
  <2>5. name \in times => \E x : <<name, x>> \in Times
    BY ZenonT(60) DEF Times
  <2>6. name \in paths => \E x : <<name, x>> \in Paths
    BY ZenonT(60) DEF Paths
  <2> HIDE DEF ints, scalars, bare, times, paths
  <2>7. \E x : <<name, x>> \in Arms
    BY <2>1, <2>2, <2>3, <2>4, <2>5, <2>6 DEF Arms
  <2>. QED
    BY <2>7 DEF HasMapping
<1>2. ASSUME HasMapping(name) PROVE is_abi_builtin(name)
  BY <1>2, ArmsPack DEF HasMapping
<1>. QED
  BY <1>1, <1>2

\* The Rust type of a builtin packs as the builtin, and if it is written as an
\* identifier the header or the prelude has it.
LEMMA Mapped ==
  ASSUME NEW a, NEW name, is_abi_builtin(name)
  PROVE  /\ <<RustType(name), name>> \in Packs
         /\ RustType(name) \in BareTypes => RustType(name) \in Imports(a) \cup Prelude
<1> DEFINE arm == CHOOSE x \in Arms : x[1] = name
<1>1. arm \in Arms /\ arm[1] = name
  <2>1. \E x \in Arms : x[1] = name
    BY BuiltinsMapped DEF HasMapping
  <2>. QED
    BY <2>1
<1>2. RustType(name) = arm[2]
  BY DEF RustType
<1> HIDE DEF arm
<1>3. BareTypes \subseteq Imports(a) \cup Prelude
  BY DEF BareTypes, Imports, Prelude
<1>. QED
  BY <1>1, <1>2, <1>3, ArmsPack

\* What rustc takes the emitted type for is what the ABI means, when no item
\* hides a name the module uses and the ABI defines what is not built in.
LEMMA Meant ==
  ASSUME NEW src, NEW a, src.abi = a, src.header.imports = Imports(a), NEW scope,
         \A id \in Locals(src, scope) : id \notin Imports(a) \cup Prelude,
         NEW type, \A n \in DOMAIN type.suffixes : type.suffixes[n] \in {"?", "[]"},
         \/ type.of \in AntelopeBuiltins /\ is_abi_builtin(type.of)
         \/ /\ type.of \notin AntelopeBuiltins /\ ~is_abi_builtin(type.of)
            /\ camel_ident(type.of) \in Locals(src, scope)
  PROVE  Means(Resolved(src, scope, abi_type_to_rust_type(type)), type)
<1> DEFINE rust == abi_type_to_rust_type(type)
           L == Locals(src, scope)
           head == IF rust.path THEN <<"builtin", rust.id>>
                   ELSE IF rust.id \in L THEN <<"item", rust.id>>
                   ELSE IF rust.id \in src.header.imports \cup Prelude
                        THEN <<"builtin", rust.id>>
                   ELSE <<"undefined", rust.id>>
           wraps == [i \in DOMAIN rust.wraps |->
                       <<IF <<rust.wraps[i]>> \in L THEN "item" ELSE "builtin",
                         rust.wraps[i]>>]
<1>1. Resolved(src, scope, rust) = [head |-> head, wraps |-> wraps]
  BY DEF Resolved
<1>2. rust.wraps = [i \in DOMAIN type.suffixes |-> Wrap[type.suffixes[i]]]
  BY DEF abi_type_to_rust_type, Wrapped
<1>3. wraps = Generics(type)
  <2>1. <<"vec">> \notin L /\ <<"option">> \notin L
    BY DEF Prelude
  <2>2. ASSUME NEW i \in DOMAIN type.suffixes
        PROVE  /\ rust.wraps[i] \in {"vec", "option"}
               /\ rust.wraps[i] = IF type.suffixes[i] = "$" THEN "extension"
                                  ELSE IF type.suffixes[i] = "?" THEN "option" ELSE "vec"
    BY <1>2 DEF Wrap
  <2>3. DOMAIN rust.wraps = DOMAIN type.suffixes
    BY <1>2
  <2> HIDE DEF rust, L
  <2>. QED
    BY <2>1, <2>2, <2>3 DEF Generics
<1>4. CASE type.of \in AntelopeBuiltins /\ is_abi_builtin(type.of)
  <2> DEFINE id == RustType(type.of)
  <2>1. rust.id = id /\ (~rust.path => id \in BareTypes)
    BY <1>4, BuiltinsMapped DEF abi_type_to_rust_type
  <2>2. <<id, type.of>> \in Packs /\ (id \in BareTypes => id \in Imports(a) \cup Prelude)
    BY <1>4, Mapped
  <2> HIDE DEF id, rust, L
  <2>3. head = <<"builtin", id>>
    BY <2>1, <2>2 DEF L
  <2> HIDE DEF head, wraps
  <2>4. \E pair \in Packs : pair[2] = type.of /\ head = <<"builtin", pair[1]>>
    <3>1. <<id, type.of>>[2] = type.of /\ <<id, type.of>>[1] = id
      OBVIOUS
    <3>. QED
      BY <2>2, <2>3, <3>1
  <2>. QED
    BY <1>1, <1>3, <1>4, <2>4 DEF Means, rust
<1>5. CASE /\ type.of \notin AntelopeBuiltins /\ ~is_abi_builtin(type.of)
           /\ camel_ident(type.of) \in L
  <2>1. ~rust.path /\ rust.id = camel_ident(type.of)
    BY <1>5, BuiltinsMapped DEF abi_type_to_rust_type
  <2> HIDE DEF rust, L
  <2>2. head = <<"item", camel_ident(type.of)>>
    BY <1>5, <2>1
  <2> HIDE DEF head, wraps
  <2>. QED
    BY <1>1, <1>3, <1>5, <2>2 DEF Means, rust
<1>. QED
  BY <1>4, <1>5

\* Every element of a list of entries is in the sorted module, and no other.
LEMMA Wraps ==
  ASSUME NEW entries
  PROVE  /\ \A i \in DOMAIN entries : \E x \in wrap_module(entries) : x.entry = entries[i]
         /\ \A x \in wrap_module(entries) : \E i \in DOMAIN entries : x.entry = entries[i]
<1> DEFINE nth(i) ==
             Cardinality({j \in 1..(i - 1) : entries[j].ident = entries[i].ident})
<1>1. wrap_module(entries) = {[entry |-> entries[i], nth |-> nth(i)] : i \in DOMAIN entries}
  BY DEF wrap_module
<1> HIDE DEF nth
<1>2. ASSUME NEW i \in DOMAIN entries
      PROVE  \E x \in wrap_module(entries) : x.entry = entries[i]
  <2>1. [entry |-> entries[i], nth |-> nth(i)] \in wrap_module(entries)
    BY <1>1
  <2>2. [entry |-> entries[i], nth |-> nth(i)].entry = entries[i]
    OBVIOUS
  <2>. QED
    BY <2>1, <2>2
<1>3. ASSUME NEW x \in wrap_module(entries)
      PROVE  \E i \in DOMAIN entries : x.entry = entries[i]
  <2>1. PICK i \in DOMAIN entries : x = [entry |-> entries[i], nth |-> nth(i)]
    BY <1>1
  <2>. QED
    BY <2>1
<1>. QED
  BY <1>2, <1>3

\* The items of the module types are those of the names of the ABI.
LEMMA TypeItems ==
  ASSUME NEW a \in Abis
  PROVE  Idents(wrap_module(TypeEntries(a))) =
           {camel_ident(type_names(a)[i]) : i \in DOMAIN type_names(a)}
<1> DEFINE module == wrap_module(TypeEntries(a))
<1>1. /\ \A i \in DOMAIN TypeEntries(a) : \E x \in module : x.entry = TypeEntries(a)[i]
      /\ \A x \in module : \E i \in DOMAIN TypeEntries(a) : x.entry = TypeEntries(a)[i]
  BY Wraps
<1>2. /\ DOMAIN TypeEntries(a) = DOMAIN type_names(a)
      /\ \A i \in DOMAIN type_names(a) :
           TypeEntries(a)[i].ident = camel_ident(type_names(a)[i])
  BY TypeEntriesAre
<1> HIDE DEF module
<1>3. Idents(module) \subseteq {camel_ident(type_names(a)[i]) : i \in DOMAIN type_names(a)}
  BY <1>1, <1>2 DEF Idents
<1>4. ASSUME NEW i \in DOMAIN type_names(a)
      PROVE  camel_ident(type_names(a)[i]) \in Idents(module)
  <2>1. PICK x \in module : x.entry = TypeEntries(a)[i]
    BY <1>1, <1>2
  <2>2. x.entry.ident = camel_ident(type_names(a)[i])
    BY <1>2, <2>1
  <2>. QED
    BY <2>2 DEF Idents
<1>. QED
  BY <1>3, <1>4 DEF module

\* An entry of the ABI's types is an item of the module.
LEMMA ItemOf ==
  ASSUME NEW a \in Abis, NEW e \in Elements(TypeEntries(a))
  PROVE  \E x \in wrap_module(TypeEntries(a)) : x.entry = e
<1>1. PICK i \in DOMAIN TypeEntries(a) : e = TypeEntries(a)[i]
  BY DEF Elements
<1>. QED
  BY <1>1, Wraps

\* The types of the fields and the cases are named types.
LEMMA AreNamed ==
  ASSUME NEW a
  PROVE  /\ \A i \in DOMAIN a.structs : \A k \in DOMAIN a.structs[i].fields :
              a.structs[i].fields[k].type \in NamedTypes(a)
         /\ \A i \in DOMAIN a.variants : \A k \in DOMAIN a.variants[i].types :
              a.variants[i].types[k] \in NamedTypes(a)
<1> DEFINE ofStruct(i) == {a.structs[i].fields[k].type : k \in DOMAIN a.structs[i].fields}
           ofVariant(i) == {a.variants[i].types[k] : k \in DOMAIN a.variants[i].types}
           all == {ofStruct(i) : i \in DOMAIN a.structs} \cup
                  {ofVariant(i) : i \in DOMAIN a.variants}
<1>1. NamedTypes(a) = UNION all
  BY DEF NamedTypes
<1>2. \A i \in DOMAIN a.structs : \A k \in DOMAIN a.structs[i].fields :
        a.structs[i].fields[k].type \in ofStruct(i)
  OBVIOUS
<1>3. \A i \in DOMAIN a.variants : \A k \in DOMAIN a.variants[i].types :
        a.variants[i].types[k] \in ofVariant(i)
  OBVIOUS
<1> HIDE DEF ofStruct, ofVariant
<1>4. /\ \A i \in DOMAIN a.structs : ofStruct(i) \in all
      /\ \A i \in DOMAIN a.variants : ofVariant(i) \in all
  OBVIOUS
<1> HIDE DEF all
<1>. QED
  BY <1>1, <1>2, <1>3, <1>4

\* In the code of a plain ABI, the types of a struct's fields mean what the
\* ABI means, in the module types and, if an action takes them, in actions.
LEMMA FieldsMeant ==
  ASSUME NEW c, NEW a \in Abis, Plain(a), NEW s \in DOMAIN a.structs,
         NEW scope \in {"types", "actions"},
         scope = "actions" => \E j \in DOMAIN a.actions : a.actions[j].type = a.structs[s].name
  PROVE  SameTypes(Emitted(c, a), scope, FieldEntries(a.structs[s].fields),
                   FieldTypes(a.structs[s]))
<1> DEFINE src == Emitted(c, a)
           fields == a.structs[s].fields
<1>1. src.abi = a /\ src.header.imports = Imports(a) /\ src.types = wrap_module(TypeEntries(a))
  BY DEF Emitted, emit_header, emit_types_module, TypeEntries
<1> HIDE DEF src
<1>2. Idents(src.types) = {camel_ident(name) : name \in TypeNames(a)}
  BY <1>1, TypeItems DEF TypeNames
<1>3. \A id \in Locals(src, scope) : id \notin Imports(a) \cup Prelude
  BY <1>2 DEF Locals, Plain
<1>4. ASSUME NEW k \in DOMAIN fields
      PROVE  Means(Resolved(src, scope, abi_type_to_rust_type(fields[k].type)), fields[k].type)
  <2> DEFINE type == fields[k].type
  <2>1. type \in NamedTypes(a)
    BY AreNamed
  <2>2. \A n \in DOMAIN type.suffixes : type.suffixes[n] \in {"?", "[]"}
    <3>1. \A n \in DOMAIN type.suffixes : type.suffixes[n] \in {"?", "[]", "$"}
      BY <2>1, SuffixesAssumption
    <3>2. \A n \in DOMAIN type.suffixes : type.suffixes[n] # "$"
      BY DEF Plain
    <3> HIDE DEF type
    <3>. QED
      BY <3>1, <3>2
  <2>3. \/ type.of \in AntelopeBuiltins /\ is_abi_builtin(type.of)
        \/ type.of \in TypeNames(a) \ AntelopeBuiltins /\ ~is_abi_builtin(type.of)
    BY <2>1 DEF Plain
  <2>4. scope = "actions" => type.of \in AntelopeBuiltins
    BY DEF Plain
  <2> HIDE DEF type
  <2>5. type.of \notin AntelopeBuiltins => camel_ident(type.of) \in Locals(src, scope)
    BY <1>2, <2>3, <2>4 DEF Locals
  <2>6. Means(Resolved(src, scope, abi_type_to_rust_type(type)), type)
    BY <1>1, <1>3, <2>2, <2>3, <2>5, Meant
  <2>. QED
    BY <2>6 DEF type
<1>5. DOMAIN FieldEntries(fields) = DOMAIN fields
      /\ \A k \in DOMAIN fields : FieldEntries(fields)[k].type = abi_type_to_rust_type(fields[k].type)
  BY DEF FieldEntries
<1>6. DOMAIN FieldTypes(a.structs[s]) = DOMAIN fields
      /\ \A k \in DOMAIN fields : FieldTypes(a.structs[s])[k] = fields[k].type
  BY DEF FieldTypes
<1>7. SameTypes(src, scope, FieldEntries(fields), FieldTypes(a.structs[s]))
  BY <1>4, <1>5, <1>6 DEF SameTypes
<1>. QED
  BY <1>7 DEF src

\* The parameters of a factory of a plain ABI have names of their own.
LEMMA FieldsUnique ==
  ASSUME NEW a, Plain(a), NEW s \in DOMAIN a.structs,
         \E j \in DOMAIN a.actions : a.actions[j].type = a.structs[s].name
  PROVE  UniqueParams(Authorization, FieldEntries(a.structs[s].fields))
<1> DEFINE fields == a.structs[s].fields
           idents == FieldIdents(a.structs[s])
<1>1. /\ DOMAIN FieldEntries(fields) = DOMAIN fields /\ DOMAIN idents = DOMAIN fields
      /\ \A k \in DOMAIN fields : FieldEntries(fields)[k].ident = idents[k]
  BY DEF FieldEntries, FieldIdents
<1>2. check_no_collisions(idents) /\ \A k \in DOMAIN fields : idents[k] # Authorization.ident
  BY DEF Plain
<1> HIDE DEF idents
<1>. QED
  BY <1>1, <1>2 DEF UniqueParams, UniqueNames, check_no_collisions

LEMMA CasesMeant ==
  ASSUME NEW c, NEW a \in Abis, Plain(a), Parses(Emitted(c, a)), NEW v \in DOMAIN a.variants
  PROVE  SameTypes(Emitted(c, a), "types", VariantEntry(a.variants[v]).cases,
                   a.variants[v].types)
<1> DEFINE src == Emitted(c, a)
           types == a.variants[v].types
           cases == VariantEntry(a.variants[v]).cases
<1>1. src.abi = a /\ src.header.imports = Imports(a) /\ src.types = wrap_module(TypeEntries(a))
  BY DEF Emitted, emit_header, emit_types_module, TypeEntries
<1>0. Parses(src)
  OBVIOUS
<1> HIDE DEF src
<1>2. Idents(src.types) = {camel_ident(name) : name \in TypeNames(a)}
  BY <1>1, TypeItems DEF TypeNames
<1>3. \A id \in Locals(src, "types") : id \notin Imports(a) \cup Prelude
  BY <1>2 DEF Locals, Plain
<1>4. ASSUME NEW k \in DOMAIN types
      PROVE  Means(Resolved(src, "types", abi_type_to_rust_type(types[k])), types[k])
  <2> DEFINE type == types[k]
  <2>1. type \in NamedTypes(a)
    BY AreNamed
  <2>2. type.suffixes = <<>>
    BY <1>0, <1>1 DEF Parses
  <2>3. \/ type.of \in AntelopeBuiltins /\ is_abi_builtin(type.of)
        \/ type.of \in TypeNames(a) \ AntelopeBuiltins /\ ~is_abi_builtin(type.of)
    BY <2>1 DEF Plain
  <2> HIDE DEF type
  <2>4. \A n \in DOMAIN type.suffixes : type.suffixes[n] \in {"?", "[]"}
    BY <2>2
  <2>5. type.of \notin AntelopeBuiltins => camel_ident(type.of) \in Locals(src, "types")
    BY <1>2, <2>3 DEF Locals
  <2>6. Means(Resolved(src, "types", abi_type_to_rust_type(type)), type)
    BY <1>1, <1>3, <2>3, <2>4, <2>5, Meant
  <2>. QED
    BY <2>6 DEF type
<1>5. DOMAIN cases = DOMAIN types
      /\ \A k \in DOMAIN types : cases[k].type = abi_type_to_rust_type(types[k])
  BY DEF VariantEntry
<1> HIDE DEF cases
<1>6. SameTypes(src, "types", cases, types)
  BY <1>4, <1>5 DEF SameTypes
<1>. QED
  BY <1>6 DEF src, cases

LEMMA EmittedPacks ==
  ASSUME FileInv PROVE PacksAsTheAbi
<1> SUFFICES ASSUME Generated, Plain(file.abi) PROVE PacksAsTheAbi
  BY DEF PacksAsTheAbi
<1>0. PICK c : \E a \in Abis : file = Emitted(c, a) /\ check_ident_collisions(a)
  BY DEF FileInv
<1>1. PICK a \in Abis : file = Emitted(c, a) /\ check_ident_collisions(a)
  BY <1>0
<1>2. /\ file.abi = a /\ file.types = wrap_module(TypeEntries(a))
      /\ file.actions = wrap_module(ActionEntries(a))
      /\ file.tables = wrap_module(TableEntries(a))
  BY <1>1 DEF Emitted, emit_types_module, emit_actions_module, emit_tables_module,
     TypeEntries, ActionEntries, TableEntries
<1>3. Plain(a) /\ Parses(Emitted(c, a))
  BY <1>1, <1>2 DEF FileInv
<1>4. ASSUME NEW i \in DOMAIN a.structs
      PROVE  \E x \in file.types :
               /\ x.entry.ident = camel_ident(a.structs[i].name)
               /\ x.entry.of = a.structs[i].name
               /\ SameTypes(file, "types", x.entry.fields, FieldTypes(a.structs[i]))
  <2> DEFINE s == a.structs[i]
             e == StructEntry(s)
  <2>1. e \in Elements(TypeEntries(a))
    BY TypeEntriesAre DEF Elements
  <2>2. PICK x \in file.types : x.entry = e
    BY <1>2, <2>1, ItemOf
  <2>3. e.ident = camel_ident(s.name) /\ e.of = s.name /\ e.fields = FieldEntries(s.fields)
    BY DEF StructEntry
  <2>4. SameTypes(file, "types", FieldEntries(s.fields), FieldTypes(s))
    BY <1>1, <1>3, FieldsMeant
  <2>. QED
    BY <2>2, <2>3, <2>4
<1>5. ASSUME NEW i \in DOMAIN a.variants
      PROVE  \E x \in file.types :
               /\ x.entry.ident = camel_ident(a.variants[i].name)
               /\ x.entry.of = a.variants[i].name
               /\ SameTypes(file, "types", x.entry.cases, a.variants[i].types)
  <2> DEFINE v == a.variants[i]
             e == VariantEntry(v)
  <2>1. e \in Elements(TypeEntries(a))
    BY TypeEntriesAre DEF Elements
  <2>2. PICK x \in file.types : x.entry = e
    BY <1>2, <2>1, ItemOf
  <2>3. e.ident = camel_ident(v.name) /\ e.of = v.name
    BY DEF VariantEntry
  <2>4. SameTypes(file, "types", e.cases, v.types)
    BY <1>1, <1>3, CasesMeant
  <2>. QED
    BY <2>2, <2>3, <2>4
<1>6. ASSUME NEW i \in DOMAIN a.actions, NEW x \in file.actions, NEW s \in DOMAIN a.structs,
             x.entry.of = a.actions[i].name, a.structs[s].name = a.actions[i].type
      PROVE  /\ x.entry.builds = camel_ident(a.structs[s].name)
             /\ Resolved(file, "actions", x.entry.first.type).head =
                  <<"builtin", <<"permission","level">>>>
             /\ \A p \in x.entry.params : UniqueParams(x.entry.first, p.args)
             /\ \A p \in x.entry.params :
                  SameTypes(file, "actions", p.args, FieldTypes(a.structs[s]))
  <2>1. PICK j \in DOMAIN a.actions : x.entry = ActionEntry(a, a.actions[j])
    <3>1. PICK k \in DOMAIN ActionEntries(a) : x.entry = ActionEntries(a)[k]
      BY <1>2, Wraps
    <3>2. k \in DOMAIN a.actions /\ ActionEntries(a)[k] = ActionEntry(a, a.actions[k])
      BY DEF ActionEntries
    <3>. QED
      BY <3>1, <3>2
  <2>2. a.actions[j].name = a.actions[i].name
    BY <1>6, <2>1 DEF ActionEntry
  <2>3. j = i
    BY <1>1, <2>2 DEF check_ident_collisions, check_no_collisions, SnakeIdents, action_names
  <2>4. x.entry.builds = camel_ident(a.structs[s].name)
    BY <1>6, <2>1, <2>3 DEF ActionEntry
  <2>5. ASSUME NEW p \in x.entry.params
        PROVE  /\ SameTypes(file, "actions", p.args, FieldTypes(a.structs[s]))
               /\ UniqueParams(x.entry.first, p.args)
    <3>1. PICK t \in FirstStruct(a, a.actions[i].type) :
            p.args = FieldEntries(a.structs[t].fields)
      BY <2>1, <2>3 DEF ActionEntry
    <3>2. t \in DOMAIN a.structs /\ a.structs[t].name = a.structs[s].name
      BY <1>6, <3>1 DEF FirstStruct
    <3>3. t = s
      BY <1>1, <3>2, TypeEntriesAre DEF check_ident_collisions, check_no_collisions,
         CamelIdents, SnakeIdents
    <3>4. SameTypes(file, "actions", FieldEntries(a.structs[s].fields), FieldTypes(a.structs[s]))
      BY <1>1, <1>3, <1>6, FieldsMeant
    <3>5. UniqueParams(Authorization, FieldEntries(a.structs[s].fields))
      BY <1>3, <1>6, FieldsUnique
    <3>6. x.entry.first = Authorization
      BY <2>1 DEF ActionEntry
    <3>. QED
      BY <3>1, <3>3, <3>4, <3>5, <3>6
  <2>6. Resolved(file, "actions", x.entry.first.type).head =
          <<"builtin", <<"permission","level">>>>
    <3>0. x.entry.first = Authorization
      BY <2>1 DEF ActionEntry
    <3>1. ~Authorization.type.path /\ Authorization.type.id = <<"permission","level">>
      BY DEF Authorization
    <3>2. Locals(file, "actions") = {}
      BY DEF Locals
    <3>3. <<"permission","level">> \in file.header.imports
      BY <1>1 DEF Emitted, emit_header, Imports
    <3> DEFINE rust == x.entry.first.type
    <3>4. ~rust.path /\ rust.id = <<"permission","level">>
      BY <3>0, <3>1
    <3> HIDE DEF rust
    <3>5. Resolved(file, "actions", rust).head = <<"builtin", rust.id>>
      BY <3>2, <3>3, <3>4 DEF Resolved
    <3>. QED
      BY <3>4, <3>5 DEF rust
  <2>. QED
    BY <2>4, <2>5, <2>6
<1>7. ASSUME NEW i \in DOMAIN a.tables
      PROVE  \E x \in file.tables :
               /\ x.entry.of = a.tables[i].name
               /\ \E t \in file.types : /\ t.entry.ident = x.entry.row
                                        /\ t.entry.of = a.tables[i].type
  <2>1. PICK x \in file.tables : x.entry = TableEntry(a.tables[i])
    <3>1. i \in DOMAIN TableEntries(a) /\ TableEntries(a)[i] = TableEntry(a.tables[i])
      BY DEF TableEntries
    <3>. QED
      BY <1>2, <3>1, Wraps
  <2>2. x.entry.of = a.tables[i].name /\ x.entry.row = camel_ident(a.tables[i].type)
    BY <2>1 DEF TableEntry
  <2>3. PICK n \in DOMAIN type_names(a) : a.tables[i].type = type_names(a)[n]
    BY <1>3 DEF Plain, TypeNames
  <2>4. PICK t \in file.types : t.entry = TypeEntries(a)[n]
    <3>1. n \in DOMAIN TypeEntries(a)
      BY TypeEntriesAre
    <3>. QED
      BY <1>2, <3>1, Wraps
  <2>5. t.entry.ident = x.entry.row /\ t.entry.of = a.tables[i].type
    BY <2>2, <2>3, <2>4, TypeEntriesAre
  <2>. QED
    BY <2>2, <2>5
<1>. QED
  BY <1>2, <1>4, <1>5, <1>6, <1>7 DEF PacksAsTheAbi

\* The types of the code generated from any plain ABI pack as the ABI says.
THEOREM TypesPack == Spec => []PacksAsTheAbi
<1>1. IInv => PacksAsTheAbi
  BY EmittedPacks DEF IInv
<1> QED
  BY <1>1, Inductive, PTL
=============================================================================
