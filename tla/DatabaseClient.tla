--------------------------- MODULE DatabaseClient ---------------------------
(***************************************************************************)
(* get_list of crates/frappe-meta/src/db.rs.  A table is the sequence of   *)
(* its documents in the order of their record ids, a document a function   *)
(* from fields to values.  SurrealDB's SELECT is external.                 *)
(***************************************************************************)
EXTENDS Naturals, Sequences, SequencesExt

CONSTANTS
  Tables, Doctypes, Limits, Filters,
  Identifiers   \* non-empty names of alphanumeric characters and "_"

ASSUME DatabaseAssumption ==
  /\ \A t \in Tables : t \in Seq({t[k] : k \in DOMAIN t})
  /\ \A t \in Tables : \A k \in DOMAIN t : t[k] = [f \in DOMAIN t[k] |-> t[k][f]]
  /\ Limits \subseteq Nat \ {0}

ListError == "InvalidIdentifier"

\* SELECT .. FROM table WHERE k = $k AND ..
Found(table, where, binding) ==
  FlattenSeq([n \in DOMAIN table |->
    IF \A k \in where : k \in DOMAIN table[n] /\ table[n][k] = binding[k]
      THEN <<table[n]>> ELSE << >>])

\* .. LIMIT $limit START $offset
Select(table, where, binding) ==
  LET found == Found(table, where, binding)
      last == binding["offset"] + binding["limit"]
  IN  SubSeq(found, binding["offset"] + 1, IF last < Len(found) THEN last ELSE Len(found))

\* SELECT * when no field is asked for; a field that a document lacks is NONE.
Project(doc, fields) ==
  [f \in IF fields = {} THEN DOMAIN doc ELSE fields \cap DOMAIN doc |-> doc[f]]

\* Mutant of Binding: the offset counts pages.
BindingPages(filters, limit, offset) ==
  [k \in DOMAIN filters \cup {"limit", "offset"} |->
     CASE k = "limit"  -> limit
       [] k = "offset" -> offset * limit
       [] OTHER        -> filters[k]]

\* The filters are bound first: paging replaces one of the same name.
Binding(filters, limit, offset) ==
  [k \in DOMAIN filters \cup {"limit", "offset"} |->
     CASE k = "limit"  -> limit
       [] k = "offset" -> offset
       [] OTHER        -> filters[k]]

get_list(table, doctype, filters, fields, limit, offset) ==
  IF {doctype} \cup fields \cup DOMAIN filters \subseteq Identifiers
    THEN LET docs == Select(table, DOMAIN filters, Binding(filters, limit, offset))
         IN  [k \in DOMAIN docs |-> Project(docs[k], fields)]
    ELSE ListError

-----------------------------------------------------------------------------
Queries == [table : Tables, doctype : Doctypes, filters : Filters, limit : Limits]

\* The pages of q.limit documents, read one after the other.
Page(q, n) == get_list(q.table, q.doctype, q.filters, {}, q.limit, (n - 1) * q.limit)
Pages(q) == FlattenSeq([n \in 1..(Len(q.table) + 1) |-> Page(q, n)])

PagesAreAll(q) ==
  /\ q.doctype \in Identifiers
  /\ DOMAIN q.filters \subseteq Identifiers \ {"limit", "offset"}
  => Pages(q) = Found(q.table, DOMAIN q.filters, q.filters)
=============================================================================
