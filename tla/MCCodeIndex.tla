----------------------------- MODULE MCCodeIndex -----------------------------
(*****************************************************************************)
(* Instances of CodeIndex for TLC.                                           *)
(*****************************************************************************)
EXTENDS CodeIndex, TLC

CONSTANTS p1, p2, c1, c2

Node(kind, up, role, name, text) ==
  [kind |-> kind, up |-> up, role |-> role, name |-> name, text |-> text, missing |-> FALSE]
Missing(node) == [node EXCEPT !.missing = TRUE]

\* fn f() {} fn f() {}, cfg'd twice, and g calling f twice
Twice == <<Node("source_file", 0, "", None, ""),
           Node("function_item", 1, "", "f", "fnf()"),
           Node("function_item", 1, "", "f", "fnf()"),
           Node("function_item", 1, "", "g", "fng()"),
           Node("call_expression", 4, "", "f", "f()"),
           Node("identifier", 5, "function", "f", "f"),
           Node("call_expression", 4, "", "f", "f()"),
           Node("identifier", 7, "function", "f", "f"),
           Node("ERROR", 4, "", None, "??"),
           Missing(Node("identifier", 9, "", "", ""))>>
\* use x::T; fn f(); impl T { fn f() {} } and a reference to T
Impl == <<Node("source_file", 0, "", None, ""),
          Node("use_declaration", 1, "", "T", "useT"),
          Node("identifier", 2, "argument", "T", "T"),
          Node("function_item", 1, "", "f", "fnf(_:u8)"),
          Node("function_item", 1, "", "f", "fnf(_:u16)"),
          Node("function_item", 1, "", "f", "fnf()"),
          Node("impl_item", 1, "", "impl T", "implT"),
          Node("type_identifier", 7, "type", "T", "T"),
          Node("function_item", 7, "", "f", "fnf()"),
          Node("identifier", 9, "name", "f", "f")>>
MCTree == [c \in Contents |-> IF c = c1 THEN Twice ELSE Impl]
MCInitial == {[r \in Repos |-> [p \in Paths |-> IF p = p1 THEN c1 ELSE Absent]]}
MCSelected == [s \in Syncs |-> IF s \in Scheduled THEN Repos ELSE {Last}]
LastOnly(n) == [r \in Repos |-> IF r = Last THEN n ELSE 0]
MCBudgets == {[edits |-> LastOnly(2), faults |-> 0], [edits |-> LastOnly(1), faults |-> 2]}
==============================================================================
