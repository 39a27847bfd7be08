---------------------------- MODULE PageBuilder ----------------------------
(***************************************************************************)
(* compile_ast of crates/frappe-builder/src/compiler.rs: a layout tree is  *)
(* compiled to HTML, or to the error of the first unsafe tag or attribute. *)
(* Tags are in lower case and values and texts are escaped, so that a page *)
(* is a sequence of tokens.  escape_html leaves blanks and "=" in a name   *)
(* of an attribute, so that a reader may find several names there.  id and *)
(* classes are written without a check and left out.                       *)
(***************************************************************************)
EXTENDS Naturals, Sequences, SequencesExt

CONSTANTS
  SafeTags,       \* the allow-list of is_safe_tag
  VoidTags,       \* "img", "br", "hr", "input"
  Names,          \* attribute names, in the order of sort_by
  Parts,          \* Parts[n]: the names a reader of HTML finds where n is written
  OnNames,        \* the names that start with "on", whatever their parts are
  UrlNames,       \* "href" and "src"
  ScriptUrls,     \* values that start with javascript: or data:
  Layouts,        \* layouts, with every node of each of them
  MaxDepth,       \* how deep they are at most; serde_json reads 128 levels
  Depth           \* [Layouts -> 0..MaxDepth]: how deep a layout is

\* A LayoutNode; attributes maps the names it has to values.
Node(tag, attributes, text, children) ==
  [tag |-> tag, attributes |-> attributes, text |-> text, children |-> children]

ASSUME LayoutsAssumption ==
  /\ MaxDepth \in Nat
  /\ Depth \in [Layouts -> 0..MaxDepth]
  /\ \A node \in Layouts :
       /\ node.text \in BOOLEAN
       /\ DOMAIN node.attributes \subseteq DOMAIN Parts
       /\ node.children \in Seq(Layouts)
       /\ \A k \in DOMAIN node.children : Depth[node.children[k]] < Depth[node]

NoError == <<>>
Ok(html) == [error |-> NoError, html |-> html]
Err(error) == [error |-> error, html |-> <<>>]

\* attrs.sort_by(|a, b| a.0.cmp(b.0))
Sorted(node) == SelectSeq(Names, LAMBDA n : n \in DOMAIN node.attributes)

\* The name is looked at as a whole.
is_safe_attribute(name, value) ==
  name \notin OnNames /\ (name \in UrlNames => value \notin ScriptUrls)

Unsafe(node) ==
  SelectSeq(Sorted(node), LAMBDA n : ~is_safe_attribute(n, node.attributes[n]))

\* What is wrong with a node itself.
Fault(node) ==
  IF node.tag \notin SafeTags THEN <<"UnsafeTag", node.tag>>
  ELSE IF Unsafe(node) # <<>> THEN <<"UnsafeAttribute", Head(Unsafe(node))>>
  ELSE NoError

\* The names in the tag, of which HTML counts each once, in any order.
Written(node) == UNION {Parts[n] : n \in DOMAIN node.attributes}

Open(kind, node) == <<kind, node.tag, Written(node)>>
Text == <<"text", "", {}>>
Close(node) == <<"close", node.tag, {}>>

\* What the body of a node that is not self-closing is made of.
Body(node, children) ==
  <<Open("open", node)>> \o (IF node.text THEN <<Text>> ELSE <<>>)
    \o children \o <<Close(node)>>

OfChildren(f, node) == [k \in DOMAIN node.children |-> f[node.children[k]]]

Html(results) == FlattenSeq([k \in DOMAIN results |-> results[k].html])

\* Mutant of Children: a child that does not compile is left out of the page.
ChildrenOk(results) == Ok(Html(results))

\* html.push_str(&compile_ast(child)?), for one child after the other
Children(results) ==
  LET failed == {k \in DOMAIN results : results[k].error # NoError}
  IN  IF failed = {} THEN Ok(Html(results))
                     ELSE results[CHOOSE k \in failed : \A i \in failed : k <= i]

compile_ast[node \in Layouts] ==
  IF Fault(node) # NoError THEN Err(Fault(node))
  ELSE IF node.tag \in VoidTags THEN Ok(<<Open("void", node)>>)
  ELSE LET children == Children(OfChildren(compile_ast, node))
       IN  IF children.error # NoError THEN children ELSE Ok(Body(node, children.html))

-----------------------------------------------------------------------------
(***************************************************************************)
(* The reference: what a reader of the page, or of the tree, sees.         *)
(***************************************************************************)
\* The nodes that have a place in the page, in document order.
Rendered[node \in Layouts] ==
  <<node>> \o IF node.tag \in VoidTags THEN <<>> ELSE FlattenSeq(OfChildren(Rendered, node))

\* The attributes of a node: its own names, and those that a name which is
\* not one by itself falls into.
Plain(n) == Parts[n] = {n}

OwnNames(node) ==
  {n \in DOMAIN node.attributes : Plain(n)}
    \cup UNION {Parts[n] : n \in {m \in DOMAIN node.attributes : ~Plain(m)}}

\* The tree as the page should show it: nothing below a self-closing tag.
Shown[node \in Layouts] ==
  LET void == node.tag \in VoidTags
  IN  [tag |-> node.tag, names |-> OwnNames(node), text |-> node.text /\ ~void,
       children |-> IF void THEN <<>> ELSE OfChildren(Shown, node)]

\* The tree of a page is read with a stack of unfinished nodes, the root of
\* which collects what is complete.
Leaf(token) == [tag |-> token[2], names |-> token[3], text |-> FALSE, children |-> <<>>]
Root(tag) == [top |-> Leaf(<<"open", tag, {}>>), below |-> <<>>]
Adopt(stack, leaf) ==
  [top |-> [stack.top EXCEPT !.children = Append(@, leaf)], below |-> stack.below]

Read(stack, token) ==
  CASE token[1] = "open"  -> [top |-> Leaf(token), below |-> <<stack>>]
    [] token[1] = "void"  -> Adopt(stack, Leaf(token))
    [] token[1] = "text"  -> [top |-> [stack.top EXCEPT !.text = TRUE], below |-> stack.below]
    [] token[1] = "close" -> IF stack.below # <<>> /\ stack.top.tag = token[2]
                               THEN Adopt(Head(stack.below), stack.top)
                               ELSE Root("unreadable")

Parse(stack, html) ==
  LET read[n \in 0..Len(html)] == IF n = 0 THEN stack ELSE Read(read[n - 1], html[n])
  IN  read[Len(html)]

ParsesBack(node) ==
  LET result == compile_ast[node]
  IN  result.error = NoError =>
        Parse(Root("root"), result.html) = Adopt(Root("root"), Shown[node])

\* An error is that of the first of the nodes that have one.
FirstFault(error, nodes) ==
  \/ error = NoError /\ \A n \in DOMAIN nodes : Fault(nodes[n]) = NoError
  \/ \E n \in DOMAIN nodes :
       /\ error = Fault(nodes[n]) /\ error # NoError
       /\ \A m \in 1..(n - 1) : Fault(nodes[m]) = NoError

BlocksFirst(node) == FirstFault(compile_ast[node].error, Rendered[node])
=============================================================================
