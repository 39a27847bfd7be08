----------------------------- MODULE SchemaSync -----------------------------
(***************************************************************************)
(* Bringing a table to a DocType's schema: SchemaManager::sync_schema      *)
(* (crates/frappe-meta/src/migration.rs), which reads the table's          *)
(* definition and then executes one transaction, and                       *)
(* SchemaCompiler::synchronize_schema (schema_compiler.rs), which executes *)
(* the same statements one by one.  Several run at the same time.          *)
(*                                                                         *)
(* SurrealDB is external.  DEFINE updates what exists, as migration.rs:105 *)
(* says, or fails on it, as SurrealDB does since version 2: any statement  *)
(* and any transaction may fail.  REMOVE FIELD fails on a missing field.   *)
(* A transaction with a failed statement has no effect, but what the       *)
(* database has executed also counts when its answer does not arrive.      *)
(***************************************************************************)
EXTENDS Naturals, Sequences, SequencesExt

CONSTANTS
  Managers,    \* calls of sync_schema
  Compilers,   \* calls of synchronize_schema
  Schemas,     \* the versions of the DocType: sequences of DocFields
  None

Syncs == Managers \cup Compilers

SurrealTypes == {"int", "float", "decimal", "bool", "record", "array", "datetime", "string"}

map_field_type_to_surreal(field) ==
  CASE field.type = "Int" -> "int"
    [] field.type \in {"Float", "Currency", "Percent"} -> "float"
    [] field.type = "Decimal" -> "decimal"
    [] field.type = "Check" -> "bool"
    [] field.type = "Link" -> "record"
    [] field.type = "Table" -> "array"
    [] field.type \in {"Date", "Datetime", "Time"} -> "datetime"
    [] OTHER -> "string"

SystemTypes ==
  [creation |-> "datetime", modified |-> "datetime", modified_by |-> "string",
   owner |-> "string", docstatus |-> "int"]

System == DOMAIN SystemTypes

\* What schema.rs:7 reads of a DocField.  Nothing keeps a schema from naming a
\* field twice, or like a system field.
DocFields == [name : STRING, type : STRING, reqd : BOOLEAN, unique : BOOLEAN]

FieldNames(s) == {s[i].name : i \in 1..Len(s)}

Names == System \cup UNION {FieldNames(s) : s \in Schemas}

FieldDefs == [type : SurrealTypes, assert : BOOLEAN]

\* A table: its fields (None: not defined) and the fields with a unique index.
Tables == [full : BOOLEAN, fields : [Names -> FieldDefs \cup {None}], indexes : SUBSET Names]

FieldsOf(t) == {f \in Names : t.fields[f] # None}

ASSUME SchemaAssumption ==
  /\ Managers \cap Compilers = {}
  /\ Schemas \subseteq Seq(DocFields)
  /\ None \notin Tables \cup FieldDefs

VARIABLES
  table,   \* the table's definition, or None
  pc,      \* pc[p]: where call p is, or its result
  schema,  \* schema[p]: the schema it was called with
  todo,    \* todo[p]: the statements it has still to execute
  fresh    \* fresh[p]: what p read is still so, but for calls with its schema

vars == <<table, pc, schema, todo, fresh>>

-----------------------------------------------------------------------------
(* Statements *)

DefineTable == [op |-> "table"]
DefineField(f, type, assert) == [op |-> "field", name |-> f, def |-> [type |-> type, assert |-> assert]]
DefineIndex(f) == [op |-> "index", name |-> f]
RemoveField(f) == [op |-> "remove", name |-> f]

SystemFields ==
  LET system(f) == DefineField(f, SystemTypes[f], FALSE) IN
  << system("creation"), system("modified"), system("modified_by"),
     system("owner"), system("docstatus") >>

CompiledField(field) ==
  IF field.type = "Table" THEN << DefineField(field.name, "array", FALSE) >>
  ELSE << DefineField(field.name, map_field_type_to_surreal(field), field.reqd) >>
       \o IF field.unique THEN << DefineIndex(field.name) >> ELSE << >>

compile_schema_to_surrealql(s) ==
  << DefineTable >> \o SystemFields
    \o FlattenSeq([i \in 1..Len(s) |-> CompiledField(s[i])])

\* What alter_table does for a field, and for the fields to be dropped.
AlteredField(field, info) ==
  << DefineField(field.name, map_field_type_to_surreal(field), field.reqd) >>
    \o IF field.unique /\ field.name \notin info.indexes
       THEN << DefineIndex(field.name) >> ELSE << >>

\* Mutant of Dropped: system fields count as dropped.
DroppedSystem(s, info) == FieldsOf(info) \ FieldNames(s)

\* Mutant of Dropped: nothing is.
DroppedNone(s, info) == {}

Dropped(s, info) == FieldsOf(info) \ (FieldNames(s) \cup System)

alter_table(s, info) ==
  FlattenSeq([i \in 1..Len(s) |-> AlteredField(s[i], info)])
    \o SetToSeq({RemoveField(f) : f \in Dropped(s, info)})

NewTable == [full |-> FALSE, fields |-> [f \in Names |-> None], indexes |-> {}]

\* The effect of a statement on a table; None: it fails.
Execute(t, q) ==
  CASE q.op = "table" -> [(IF t = None THEN NewTable ELSE t) EXCEPT !.full = TRUE]
    [] q.op # "table" /\ t = None -> None
    [] q.op = "field" /\ t # None -> [t EXCEPT !.fields[q.name] = q.def]
    [] q.op = "index" /\ t # None -> [t EXCEPT !.indexes = @ \cup {q.name}]
    [] q.op = "remove" /\ t # None ->
         IF q.name \in FieldsOf(t) THEN [t EXCEPT !.fields[q.name] = None] ELSE None

\* The effect of the statements q, one after the other.
Run(t, q) ==
  LET run[n \in 0..Len(q)] == IF n = 0 THEN t ELSE Execute(run[n - 1], q[n])
  IN run[Len(q)]

-----------------------------------------------------------------------------
Init ==
  /\ table = None
  /\ pc = [p \in Syncs |-> "start"]
  /\ schema \in [Syncs -> Schemas]
  /\ todo = [p \in Syncs |-> << >>]
  /\ fresh = [p \in Syncs |-> FALSE]

\* sync_schema, INFO FOR TABLE: an info makes it alter the table, no info, or
\* none that it understands, makes it create the table.
ReadInfo(p) ==
  /\ pc[p] = "start"
  /\ \E info \in {table, None} :
       /\ todo' = [todo EXCEPT ![p] =
            IF info = None THEN compile_schema_to_surrealql(schema[p])
            ELSE alter_table(schema[p], info)]
       /\ fresh' = [fresh EXCEPT ![p] = info = table]
  /\ pc' = [pc EXCEPT ![p] = "execute"]
  /\ UNCHANGED <<table, schema>>

\* The table has changed: what the others read is not so any more.
Outdate(p) ==
  fresh' = [q \in Syncs |-> fresh[q] /\ (table' = table \/ schema[q] = schema[p])]

\* Where a table can be when t was to become u and an error came back.
Perhaps(t, u) == {t} \cup ({u} \ {None})

\* The transaction of create_table or alter_table; without statements there
\* is none.
Transaction(p) ==
  /\ pc[p] = "execute"
  /\ LET result == Run(table, todo[p]) IN
     \/ /\ todo[p] = << >> \/ result # None
        /\ table' = result
        /\ pc' = [pc EXCEPT ![p] = "ok"]
     \/ /\ todo[p] # << >>
        /\ pc' = [pc EXCEPT ![p] = "err"]
        /\ table' \in Perhaps(table, result)
  /\ Outdate(p)
  /\ UNCHANGED <<schema, todo>>

\* synchronize_schema
Compile(p) ==
  /\ pc[p] = "start"
  /\ todo' = [todo EXCEPT ![p] = compile_schema_to_surrealql(schema[p])]
  /\ pc' = [pc EXCEPT ![p] = "execute"]
  /\ UNCHANGED <<table, schema, fresh>>

Statement(p) ==
  /\ pc[p] = "execute"
  /\ todo[p] # << >>
  /\ table' = Execute(table, Head(todo[p]))
  /\ todo' = [todo EXCEPT ![p] = Tail(@)]
  /\ pc' = [pc EXCEPT ![p] = IF Tail(todo[p]) = << >> THEN "ok" ELSE "execute"]
  /\ Outdate(p)
  /\ UNCHANGED schema

StatementFails(p) ==
  /\ pc[p] = "execute"
  /\ todo[p] # << >>
  /\ table' \in Perhaps(table, Execute(table, Head(todo[p])))
  /\ pc' = [pc EXCEPT ![p] = "err"]
  /\ Outdate(p)
  /\ UNCHANGED <<schema, todo>>

Next ==
  \/ \E p \in Managers : ReadInfo(p) \/ Transaction(p)
  \/ \E p \in Compilers : Compile(p) \/ Statement(p) \/ StatementFails(p)

Spec == Init /\ [][Next]_vars

-----------------------------------------------------------------------------
TypeOK ==
  /\ table \in Tables \cup {None}
  /\ pc \in [Syncs -> {"start", "execute", "ok", "err"}]
  /\ schema \in [Syncs -> Schemas]
  /\ fresh \in [Syncs -> BOOLEAN]

(***************************************************************************)
(* Until a synchronize_schema starts, the table is never seen half defined *)
(* or stripped: it is SCHEMAFULL and has its system fields from the moment *)
(* it exists, as compile_schema_to_surrealql defines them unless a schema  *)
(* itself brings a field of that name, whichever transactions fail and     *)
(* whatever schema versions concurrent calls of sync_schema bring.         *)
(***************************************************************************)
SystemFieldsKept ==
  table # None /\ (\A p \in Compilers : pc[p] = "start") =>
    /\ table.full
    /\ System \subseteq FieldsOf(table)
    /\ \A f \in System :
         (\A p \in Syncs : f \notin FieldNames(schema[p])) =>
           table.fields[f] = [type |-> SystemTypes[f], assert |-> FALSE]

\* Of two fields with one name it is the last that counts.
LastOfName(s, i) == \A j \in 1..Len(s) : j > i => s[j].name # s[i].name

Has(t, field) ==
  /\ field.name \in FieldsOf(t)
  /\ t.fields[field.name].type = map_field_type_to_surreal(field)
  /\ field.type # "Table" => t.fields[field.name].assert = field.reqd
  /\ field.unique /\ field.type # "Table" => field.name \in t.indexes

Fits(t, s) ==
  /\ \A i \in 1..Len(s) : LastOfName(s, i) => Has(t, s[i])
  /\ FieldsOf(t) \subseteq FieldNames(s) \cup System

(***************************************************************************)
(* A sync_schema that succeeds leaves the table with the fields of its     *)
(* schema and no others, each with the type and the ASSERT that the schema *)
(* says and with a unique index where it says so, unless the table was     *)
(* changed for another version of the schema after it had been read.  The  *)
(* index of a field that is not unique any more stays: alter_table removes *)
(* none.                                                                   *)
(***************************************************************************)
SyncedFits ==
  [][\A p \in Managers :
       pc[p] = "execute" /\ pc'[p] = "ok" /\ fresh[p] => Fits(table', schema[p])]_vars
=============================================================================
