------------------------------ MODULE CodeParser ------------------------------
(*****************************************************************************)
(* What the code index derives from one source file                          *)
(* (drudge/src/code_index/parser.rs): its symbols and its relations, each    *)
(* with the identifier that becomes the primary key of its row.              *)
(*                                                                           *)
(* A file is its syntax tree, listed in the order of the walk: a sequence of *)
(* named nodes that come after their parent, each a record                   *)
(*   kind  the Tree-sitter kind        up    the parent's index, 0 for none  *)
(*   role  the field of the parent it fills ("name", "function", ...)        *)
(*   name  what the walk calls it: the text of its name, of a call's         *)
(*         function, of a use's argument, of an identifier, or `impl_name`   *)
(*   text  its source without white space, up to the body of a definition    *)
(*   missing  whether Tree-sitter put it in where the source has none        *)
(* The code counts occurrences while it recurses; here the occurrence of a   *)
(* node is the number of equal ones before it. An identifier, in the code    *)
(* the SHA-256 of a tuple, is the tuple.                                     *)
(*                                                                           *)
(* OrdinalNone and OrdinalByPosition are wrong on purpose.                   *)
(*****************************************************************************)
EXTENDS Naturals, Sequences, FiniteSets

CONSTANT None  \* no symbol, no name

\* The kinds of node that define a symbol, per language.
SymbolKind ==
  [rust |-> [function_item |-> "function", function_signature_item |-> "function",
             struct_item |-> "struct", enum_item |-> "enum", union_item |-> "union",
             trait_item |-> "trait", type_item |-> "type-alias",
             const_item |-> "constant", static_item |-> "static",
             mod_item |-> "module", macro_definition |-> "macro"],
   python |-> [function_definition |-> "function", class_definition |-> "struct"],
   shell |-> [function_definition |-> "function"]]

\* A definition is a node of such a kind that has a name.
Definitions(lang, src) ==
  {i \in DOMAIN src : src[i].kind \in DOMAIN SymbolKind[lang] /\ src[i].name # None}

\* The scope a node opens for its children, or passes on to them: the symbol
\* that contains them and the names that qualify theirs.
Scope(lang, src) ==
  LET scope[i \in 0..Len(src)] ==
        IF i = 0 THEN [symbol |-> 0, path |-> <<>>]
        ELSE LET outer == scope[src[i].up]
                 path == Append(outer.path, src[i].name) IN
             IF i \in Definitions(lang, src) THEN [symbol |-> i, path |-> path]
             ELSE IF src[i].kind = "impl_item" /\ src[i].name # None
                  THEN [outer EXCEPT !.path = path]
             ELSE outer
  IN scope

OrdinalNone(f, i) == 0

OrdinalByPosition(f, i) == Cardinality({j \in DOMAIN f : j < i})

\* How many nodes before i have the same identity under f.
Ordinal(f, i) == Cardinality({j \in DOMAIN f : j < i /\ f[j] = f[i]})

\* The symbol of each definition: kind, qualified name, signature, ordinal.
SymbolIds(lang, src) ==
  LET scope == Scope(lang, src)
      identity == [i \in Definitions(lang, src) |->
                    <<SymbolKind[lang][src[i].kind], scope[i].path, src[i].text>>]
  IN [i \in Definitions(lang, src) |-> Append(identity[i], Ordinal(identity, i))]

\* An identifier refers to something unless it names its parent, is what its
\* parent calls or selects, or is part of a path.
IsReference(src, i) ==
  /\ src[i].up # 0
  /\ src[i].role \notin {"name", "function", "field"}
  /\ src[src[i].up].kind \notin {"use_declaration", "scoped_identifier",
                                 "scoped_type_identifier", "use_as_clause"}

\* The relation a node that is not a definition stands for, if any.
Mention(src, i) ==
  CASE src[i].name = None -> None
    [] src[i].kind = "use_declaration" -> "imports"
    [] src[i].kind = "call_expression" -> "calls"
    [] src[i].kind \in {"identifier", "type_identifier"} /\ IsReference(src, i) -> "references"
    [] OTHER -> None

\* The relation of each node that has one: source, kind, target symbol, target
\* name, syntax and ordinal. A definition is contained in the symbol around it.
RelationIds(lang, src) ==
  LET scope == Scope(lang, src)
      symbol == SymbolIds(lang, src)
      Within(i) == IF scope[i].symbol = 0 THEN None ELSE symbol[scope[i].symbol]
      defs == Definitions(lang, src)
      identity == [i \in defs \cup {j \in DOMAIN src : Mention(src, j) # None} |->
                    IF i \in defs
                      THEN <<Within(src[i].up), "contains", symbol[i], None, None>>
                      ELSE <<Within(i), Mention(src, i), None, src[i].name, src[i].text>>]
  IN [i \in DOMAIN identity |-> Append(identity[i], Ordinal(identity, i))]

\* The rows of a file, and its number of syntax errors.
Parse(lang, src) ==
  [symbols   |-> {SymbolIds(lang, src)[i] : i \in Definitions(lang, src)},
   relations |-> {RelationIds(lang, src)[i] : i \in DOMAIN RelationIds(lang, src)},
   errors    |-> Cardinality({i \in DOMAIN src : src[i].kind = "ERROR" \/ src[i].missing})]

\* No two rows of the file have the same primary key.
DistinctKeys(lang, src) ==
  LET symbol == SymbolIds(lang, src)
      relation == RelationIds(lang, src)
  IN /\ \A i, j \in DOMAIN symbol : symbol[i] = symbol[j] => i = j
     /\ \A i, j \in DOMAIN relation : relation[i] = relation[j] => i = j
===============================================================================
