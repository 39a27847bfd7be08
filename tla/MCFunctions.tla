---------------------------- MODULE MCFunctions ----------------------------
(***************************************************************************)
(* PureFunctions for TLC: bounded sets of arguments.                       *)
(***************************************************************************)
EXTENDS PureFunctions

-----------------------------------------------------------------------------
\* Layouts of up to three levels; "script" is not on the allow-list, "br" is
\* self-closing, attributes stand for safe and unsafe ones in sorted order,
\* one name is two words.
Attributes ==
  { [n \in {} |-> ""], [n \in {"href"} |-> "/home"], [n \in {"href"} |-> "javascript:"],
    [n \in {"href", "onclick"} |-> "javascript:"], [n \in {"data x", "type"} |-> ""] }

MCNames == <<"data x", "href", "onclick", "type">>
MCParts ==
  [n \in {"data x", "href", "onclick", "type"} |-> IF n = "data x" THEN {"data", "x"} ELSE {n}]
Leaves ==
  {Node(t, a, x, <<>>) : t \in {"div", "br", "script"}, a \in Attributes, x \in BOOLEAN}
    \cup {Node("br", [n \in {"onclick"} |-> ""], FALSE, <<>>)}
Twigs ==
  {Node(t, [n \in {} |-> ""], TRUE, c) :
     t \in {"p", "br"}, c \in {<<Node("br", [n \in {"onclick"} |-> ""], FALSE, <<>>)>>,
                               <<Node("div", [n \in {} |-> ""], TRUE, <<>>)>>}}
Boughs ==
  {Node(t, a, TRUE, <<c, d>>) :
     t \in {"div", "br"}, a \in Attributes, c \in Leaves, d \in Leaves \cup Twigs}
MCLayouts == Leaves \cup Twigs \cup Boughs
MCDepth ==
  [node \in MCLayouts |-> IF node \in Leaves THEN 0 ELSE IF node \in Twigs THEN 1 ELSE 2]

MCRoles == {"Clerk", "Auditor", "Security Manager", "System Manager"}
DocPerms == [role : {"Clerk", "Auditor"}, allowed : {{}, {"Read"}, {"Read", "Submit"}}]
MCPermissions ==
  {[f \in {} |-> {}], [f \in {"company"} |-> {"Acme"}],
   [f \in {"company", "region"} |-> {"Acme", "North"}]}
MCDocs == [{"company", "salary"} -> {"Acme", "Other", "5"}]
MCSchemas ==
  [permissions : {NoPerms} \cup [1..2 -> DocPerms], fields : {{"salary", "company"}}]

Rows == {[f \in {"name", "status"} |-> IF f = "name" THEN n ELSE v] : n \in 1..2, v \in 1..2}
        \cup {[f \in {"name"} |-> 1]}
MCTables == BoundedSeq(Rows, 3)
MCLimits == 1..2
MCFilters ==
  {[f \in {} |-> 0], [f \in {"status"} |-> 1], [f \in {"name", "status"} |-> 1],
   [f \in {"limit"} |-> 1], [f \in {"a b"} |-> 1]}

Scalars ==
  {<<"null", 0>>, <<"bool", TRUE>>, <<"string", "x">>, <<"float", 1>>}
    \cup {<<"int", n>> : n \in {-1, 0, I64Max, I64Max + 1, 2 * I64Max + 1}}
\* From I64Max + 1 on every fourth integer is a double; the nearest, or the even.
MCAsF64 ==
  [n \in -1..(2 * I64Max + 1) |->
     IF n <= I64Max THEN n
     ELSE LET d == 4 * (n \div 4) IN
          IF n % 4 = 3 \/ (n % 4 = 2 /\ d % 8 = 4) THEN d + 4 ELSE d]
Arrays == {<<"array", s>> : s \in BoundedSeq(Scalars, 2)}
Objects ==
  {<<"object", [k \in {"a", "b"} |-> IF k = "a" THEN u ELSE v]>> : u \in Arrays, v \in Scalars}
MCJsons == Scalars \cup Arrays \cup Objects
MCNesting ==
  [j \in MCJsons |-> IF j[1] = "array" THEN 1 ELSE IF j[1] = "object" THEN 2 ELSE 0]

MCLocalNames == {<<<<"l">>>>, <<<<"1">>, <<"0">>>>}
MCHostNames ==
  LET labels == {<<"a">>, <<"b">>, <<"a", "b">>, <<"a", "-", "b">>, <<"d", "-", "s">>}
  IN  {<<l>> : l \in labels} \cup {<<l, <<"x">>>> : l \in labels}
        \cup {<<l, <<"y">>, <<"x">>>> : l \in labels} \cup LocalNames
=============================================================================
