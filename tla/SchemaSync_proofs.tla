------------------------- MODULE SchemaSync_proofs -------------------------
(***************************************************************************)
(* Proofs about schema migration (SchemaSync), for any number of calls of  *)
(* sync_schema and synchronize_schema and any versions of a DocType.       *)
(***************************************************************************)
EXTENDS SchemaSync, ListLemmas, FiniteSetTheorems, SequenceTheorems, TLAPS

-----------------------------------------------------------------------------
(* Recursion over the statements of a program *)

\* The function that Run is defined by exists.
LEMMA RunIsDefined ==
  ASSUME NEW t, NEW q, Len(q) \in Nat
  PROVE  \E run : /\ run = [n \in 0..Len(q) |-> IF n = 0 THEN t ELSE Execute(run[n - 1], q[n])]
                  /\ Run(t, q) = run[Len(q)]
<1> DEFINE IsRun(run, N) == run = [n \in 0..N |-> IF n = 0 THEN t ELSE Execute(run[n - 1], q[n])]
           G == {N \in 0..Len(q) : \E run : IsRun(run, N)}
<1>1. 0 \in G
  <2>1. IsRun([n \in 0..0 |-> t], 0)
    OBVIOUS
  <2> HIDE DEF IsRun
  <2>2. \E run : IsRun(run, 0)
    BY <2>1
  <2> QED
    BY <2>2
<1>2. ASSUME NEW N \in 1..Len(q), N - 1 \in G
      PROVE  N \in G
  <2>1. PICK run : IsRun(run, N - 1)
    BY <1>2
  <2> DEFINE next == [n \in 0..N |-> IF n = N THEN Execute(run[N - 1], q[N]) ELSE run[n]]
  <2>2. \A n \in 0..(N - 1) : next[n] = run[n]
    OBVIOUS
  <2>3. \A n \in 0..N : next[n] = IF n = 0 THEN t ELSE Execute(next[n - 1], q[n])
    <3>1. ASSUME NEW n \in 0..N, n = N
          PROVE  next[n] = IF n = 0 THEN t ELSE Execute(next[n - 1], q[n])
      BY <2>2, <3>1
    <3>2. ASSUME NEW n \in 0..N, n # N
          PROVE  next[n] = IF n = 0 THEN t ELSE Execute(next[n - 1], q[n])
      <4>1. next[n] = run[n] /\ (n # 0 => next[n - 1] = run[n - 1])
        BY <2>2, <3>2
      <4>2. run[n] = IF n = 0 THEN t ELSE Execute(run[n - 1], q[n])
        BY <2>1, <3>2
      <4> QED
        BY <4>1, <4>2
    <3> QED
      BY <3>1, <3>2
  <2>4. IsRun(next, N)
    BY <2>3
  <2> HIDE DEF IsRun, next
  <2>5. \E any : IsRun(any, N)
    BY <2>4
  <2> QED
    BY <2>5
<1>3. \E run : IsRun(run, Len(q))
  BY <1>1, <1>2, UpTo
<1> DEFINE chosen == CHOOSE run : IsRun(run, Len(q))
<1>4. IsRun(chosen, Len(q))
  BY <1>3
<1>5. Run(t, q) = chosen[Len(q)]
  BY DEF Run
<1> QED
  BY <1>4, <1>5

\* What holds of a table before a program, and is passed on by each of its
\* statements, holds after it: P[n] are the tables allowed after n statements.
LEMMA RunInvariant ==
  ASSUME NEW t, NEW q, Len(q) \in Nat, NEW P, t \in P[0],
         \A n \in 1..Len(q) : \A u \in P[n - 1] : Execute(u, q[n]) \in P[n]
  PROVE  Run(t, q) \in P[Len(q)]
<1>1. PICK run : /\ run = [n \in 0..Len(q) |-> IF n = 0 THEN t ELSE Execute(run[n - 1], q[n])]
                 /\ Run(t, q) = run[Len(q)]
  BY RunIsDefined
<1> DEFINE G == {n \in 0..Len(q) : run[n] \in P[n]}
<1>2. run[0] = t /\ \A n \in 1..Len(q) : run[n] = Execute(run[n - 1], q[n])
  BY <1>1
<1>3. 0 \in G
  BY <1>2
<1>4. \A n \in 1..Len(q) : n - 1 \in G => n \in G
  BY <1>2
<1> HIDE DEF G
<1>5. \A n \in 0..Len(q) : n \in G
  BY <1>3, <1>4, UpTo
<1> QED
  BY <1>1, <1>5 DEF G

-----------------------------------------------------------------------------
(* The inductive invariant *)

\* What create_table, alter_table and synchronize_schema define for s.
Definitions(s) ==
  {DefineTable}
    \cup {DefineField(f, SystemTypes[f], FALSE) : f \in System}
    \cup [op : {"field"}, name : FieldNames(s), def : FieldDefs]
    \cup [op : {"index"}, name : FieldNames(s)]

Removals(s) == [op : {"remove"}, name : Names \ (FieldNames(s) \cup System)]

\* q defines field as its schema says, and defines it no more afterwards.
DefinesLast(q, field) ==
  \E k \in 1..Len(q) :
    /\ q[k].op = "field"
    /\ q[k].name = field.name
    /\ q[k].def.type = map_field_type_to_surreal(field)
    /\ field.type # "Table" => q[k].def.assert = field.reqd
    /\ \A m \in 1..Len(q) : m > k /\ q[m].op = "field" => q[m].name # field.name

\* q begins a table with its system fields, and begins no other.
Creates(q) ==
  /\ Len(q) \geq 6
  /\ q[1] = DefineTable
  /\ \A i \in 1..5 : q[i + 1] = SystemFields[i]
  /\ \A k \in 2..Len(q) : q[k] # DefineTable

\* q begins no table.
Alters(q) == \A k \in 1..Len(q) : q[k] # DefineTable

DefinesAll(q, s) == \A i \in 1..Len(s) : LastOfName(s, i) => DefinesLast(q, s[i])

\* What a call has still to execute is from its own schema; a sync_schema has
\* all of it or has ended.
Programs ==
  /\ todo = [p \in Syncs |-> todo[p]]
  /\ \A p \in Syncs : todo[p] \in Seq(Definitions(schema[p]) \cup Removals(schema[p]))
  /\ \A p \in Compilers : todo[p] \in Seq(Definitions(schema[p]))
  /\ \A p \in Managers : pc[p] = "execute" =>
       (Creates(todo[p]) \/ Alters(todo[p])) /\ DefinesAll(todo[p], schema[p])

Foreign(t, s) == FieldsOf(t) \ (FieldNames(s) \cup System)

NeedsIndex(field) == field.unique /\ field.type # "Table"

\* q brings t to s: it creates a missing table, removes every foreign field,
\* and defines the indexes that the table has not got.
Ready(t, q, s) ==
  /\ t = None => Creates(q)
  /\ t # None => \A f \in Foreign(t, s) : Contains(q, RemoveField(f))
  /\ \A i \in 1..Len(s) : NeedsIndex(s[i]) =>
       \/ Contains(q, DefineIndex(s[i].name))
       \/ t # None /\ s[i].name \in t.indexes

\* While what sync_schema has read is fresh, its statements are ready.
FreshPrograms ==
  \A p \in Managers : pc[p] = "execute" /\ fresh[p] => Ready(table, todo[p], schema[p])

FiniteTable == table # None => IsFiniteSet(FieldsOf(table))

SchemaInv == TypeOK /\ FiniteTable /\ Programs /\ FreshPrograms

-----------------------------------------------------------------------------
(* Statements *)

\* The system fields, by name.
LEMMA SystemIs ==
  /\ System = {"creation", "modified", "modified_by", "owner", "docstatus"}
  /\ \A f \in System : [type |-> SystemTypes[f], assert |-> FALSE] \in FieldDefs
<1>1. System = {"creation", "modified", "modified_by", "owner", "docstatus"}
  BY DEF System, SystemTypes
<1>2. \A f \in System : SystemTypes[f] \in SurrealTypes
  BY <1>1 DEF SystemTypes, SurrealTypes
<1> QED
  BY <1>1, <1>2 DEF FieldDefs

\* What a schema is.
LEMMA SchemaType ==
  ASSUME NEW s \in Schemas
  PROVE  /\ s \in Seq(DocFields)
         /\ Len(s) \in Nat
         /\ \A i \in 1..Len(s) : s[i] \in DocFields /\ s[i].name \in FieldNames(s)
         /\ FieldNames(s) \cup System \subseteq Names
<1>1. s \in Seq(DocFields)
  BY SchemaAssumption
<1>2. FieldNames(s) \cup System \subseteq Names
  BY DEF Names
<1> QED
  BY <1>1, <1>2 DEF FieldNames

\* A field is mapped to one of SurrealDB's types.
LEMMA MappedType ==
  ASSUME NEW field
  PROVE  map_field_type_to_surreal(field) \in SurrealTypes
  BY DEF map_field_type_to_surreal, SurrealTypes

\* The four sorts of statements, and what each names.
LEMMA StatementSorts ==
  ASSUME NEW s \in Schemas, NEW q \in Definitions(s) \cup Removals(s)
  PROVE  \/ q.op = "table" /\ q = DefineTable
         \/ /\ q.op = "field" /\ q # DefineTable
            /\ q.name \in FieldNames(s) \cup System
            /\ q.def \in FieldDefs
            /\ q.name \notin FieldNames(s) =>
                 q.def = [type |-> SystemTypes[q.name], assert |-> FALSE]
         \/ q.op = "index" /\ q # DefineTable /\ q = DefineIndex(q.name) /\ q.name \in FieldNames(s)
         \/ /\ q.op = "remove" /\ q # DefineTable /\ q = RemoveField(q.name)
            /\ q.name \in Names \ (FieldNames(s) \cup System) /\ q \notin Definitions(s)
<1>1. CASE q = DefineTable
  BY <1>1 DEF DefineTable
<1>2. ASSUME NEW f \in System, q = DefineField(f, SystemTypes[f], FALSE)
      PROVE  /\ q.op = "field" /\ q # DefineTable
             /\ q.name \in FieldNames(s) \cup System
             /\ q.def \in FieldDefs
             /\ q.name \notin FieldNames(s) =>
                  q.def = [type |-> SystemTypes[q.name], assert |-> FALSE]
  BY <1>2, SystemIs DEF DefineField, DefineTable
<1>3. ASSUME q \in [op : {"field"}, name : FieldNames(s), def : FieldDefs]
      PROVE  /\ q.op = "field" /\ q # DefineTable
             /\ q.name \in FieldNames(s)
             /\ q.def \in FieldDefs
  BY <1>3 DEF DefineTable
<1>4. ASSUME q \in [op : {"index"}, name : FieldNames(s)]
      PROVE  q.op = "index" /\ q # DefineTable /\ q = DefineIndex(q.name) /\ q.name \in FieldNames(s)
  BY <1>4 DEF DefineIndex, DefineTable
<1>5. ASSUME q \in Removals(s)
      PROVE  /\ q.op = "remove" /\ q # DefineTable /\ q = RemoveField(q.name)
             /\ q.name \in Names \ (FieldNames(s) \cup System) /\ q \notin Definitions(s)
  <2>1. \A d \in Definitions(s) : d.op # "remove"
    BY DEF Definitions, DefineTable, DefineField
  <2>2. /\ q.op = "remove" /\ q # DefineTable /\ q = RemoveField(q.name)
        /\ q.name \in Names \ (FieldNames(s) \cup System)
    BY <1>5 DEF Removals, RemoveField, DefineTable
  <2> QED
    BY <2>1, <2>2
<1>6. \/ q = DefineTable
      \/ \E f \in System : q = DefineField(f, SystemTypes[f], FALSE)
      \/ q \in [op : {"field"}, name : FieldNames(s), def : FieldDefs]
      \/ q \in [op : {"index"}, name : FieldNames(s)]
      \/ q \in Removals(s)
  BY DEF Definitions
<1> QED
  BY <1>1, <1>2, <1>3, <1>4, <1>5, <1>6

\* Without a table there is nothing to change but by DEFINE TABLE.
LEMMA ExecuteOnNone ==
  ASSUME NEW s \in Schemas, NEW q \in Definitions(s) \cup Removals(s)
  PROVE  /\ q # DefineTable => Execute(None, q) = None
         /\ q = DefineTable =>
              Execute(None, q) = [full |-> TRUE, fields |-> [f \in Names |-> None], indexes |-> {}]
<1>1. CASE q = DefineTable
  BY <1>1 DEF Execute, DefineTable, NewTable
<1>2. CASE q # DefineTable
  <2>1. q.op # "table"
    BY <1>2, StatementSorts
  <2> QED
    BY <2>1, <1>2 DEF Execute
<1> QED
  BY <1>1, <1>2

\* What a statement makes of a table.
LEMMA ExecuteOnTable ==
  ASSUME NEW s \in Schemas, NEW q \in Definitions(s) \cup Removals(s), NEW t \in Tables
  PROVE  /\ t # None
         /\ q.op = "table" => Execute(t, q) = [t EXCEPT !.full = TRUE]
         /\ q.op = "field" => Execute(t, q) = [t EXCEPT !.fields[q.name] = q.def]
         /\ q.op = "index" => Execute(t, q) = [t EXCEPT !.indexes = @ \cup {q.name}]
         /\ q.op = "remove" =>
              Execute(t, q) = IF q.name \in FieldsOf(t) THEN [t EXCEPT !.fields[q.name] = None]
                              ELSE None
<1>1. t # None
  BY SchemaAssumption
<1> QED
  BY <1>1 DEF Execute

\* A table after a statement: it keeps being one, or the statement fails; its
\* fields are those it had and those it was given; its indexes stay.
LEMMA Executed ==
  ASSUME NEW s \in Schemas, NEW q \in Definitions(s) \cup Removals(s), NEW t \in Tables
  PROVE  \/ /\ Execute(t, q) \in Tables
            /\ t.full => Execute(t, q).full
            /\ t.indexes \subseteq Execute(t, q).indexes
            /\ q.op = "index" => q.name \in Execute(t, q).indexes
            /\ \A f \in Names :
                 Execute(t, q).fields[f] =
                   IF q.op = "field" /\ f = q.name THEN q.def
                   ELSE IF q.op = "remove" /\ f = q.name THEN None
                   ELSE t.fields[f]
         \/ Execute(t, q) = None /\ q.op = "remove"
<1>0. t \in [full : BOOLEAN, fields : [Names -> FieldDefs \cup {None}], indexes : SUBSET Names]
  BY DEF Tables
<1>1. CASE q.op = "table"
  <2>1. Execute(t, q) = [t EXCEPT !.full = TRUE]
    BY <1>1, ExecuteOnTable
  <2> QED
    BY <1>0, <1>1, <2>1 DEF Tables
<1>2. CASE q.op = "field"
  <2>1. Execute(t, q) = [t EXCEPT !.fields[q.name] = q.def]
    BY <1>2, ExecuteOnTable
  <2>2. q.name \in Names /\ q.def \in FieldDefs
    BY <1>2, StatementSorts, SchemaType
  <2> QED
    BY <1>0, <1>2, <2>1, <2>2 DEF Tables
<1>3. CASE q.op = "index"
  <2>1. Execute(t, q) = [t EXCEPT !.indexes = @ \cup {q.name}]
    BY <1>3, ExecuteOnTable
  <2>2. q.name \in Names
    BY <1>3, StatementSorts, SchemaType
  <2> QED
    BY <1>0, <1>3, <2>1, <2>2 DEF Tables
<1>4. CASE q.op = "remove" /\ q.name \in FieldsOf(t)
  <2>1. Execute(t, q) = [t EXCEPT !.fields[q.name] = None]
    BY <1>4, ExecuteOnTable
  <2>2. q.name \in Names
    BY <1>4 DEF FieldsOf
  <2> QED
    BY <1>0, <1>4, <2>1, <2>2 DEF Tables
<1>5. CASE q.op = "remove" /\ q.name \notin FieldsOf(t)
  BY <1>5, ExecuteOnTable
<1> QED
  BY <1>1, <1>2, <1>3, <1>4, <1>5, StatementSorts

-----------------------------------------------------------------------------
(* The programs *)

\* A longer program contains no less.
LEMMA ContainedInBoth ==
  ASSUME NEW S, NEW q \in Seq(S), NEW r \in Seq(S), NEW x, Contains(q, x) \/ Contains(r, x)
  PROVE  Contains(q \o r, x)
<1>1. CASE Contains(q, x)
  <2>1. PICK k \in 1..Len(q) : q[k] = x
    BY <1>1 DEF Contains
  <2>2. k \in 1..Len(q \o r) /\ (q \o r)[k] = x
    BY <2>1, Concatenated
  <2> QED
    BY <2>2 DEF Contains
<1>2. CASE Contains(r, x)
  <2>1. PICK k \in 1..Len(r) : r[k] = x
    BY <1>2 DEF Contains
  <2>2. Len(q) + k \in 1..Len(q \o r) /\ (q \o r)[Len(q) + k] = x
    BY <2>1, Concatenated
  <2> QED
    BY <2>2 DEF Contains
<1> QED
  BY <1>1, <1>2

\* Statements about other fields may follow the last definition of a field.
LEMMA DefinedBefore ==
  ASSUME NEW S, NEW q \in Seq(S), NEW r \in Seq(S), NEW field, DefinesLast(q, field),
         \A m \in 1..Len(r) : r[m].op = "field" => r[m].name # field.name
  PROVE  DefinesLast(q \o r, field)
<1>1. PICK k \in 1..Len(q) :
         /\ q[k].op = "field"
         /\ q[k].name = field.name
         /\ q[k].def.type = map_field_type_to_surreal(field)
         /\ field.type # "Table" => q[k].def.assert = field.reqd
         /\ \A m \in 1..Len(q) : m > k /\ q[m].op = "field" => q[m].name # field.name
  BY DEF DefinesLast
<1>2. k \in 1..Len(q \o r) /\ (q \o r)[k] = q[k]
  BY Concatenated
<1>3. ASSUME NEW m \in 1..Len(q \o r), m > k, (q \o r)[m].op = "field"
      PROVE  (q \o r)[m].name # field.name
  <2>1. CASE m \in 1..Len(q)
    BY <1>1, <1>3, <2>1, Concatenated
  <2>2. CASE m > Len(q)
    BY <1>3, <2>2, Concatenated
  <2> QED
    BY <2>1, <2>2, Concatenated
<1> QED
  BY <1>1, <1>2, <1>3 DEF DefinesLast

\* What comes before a definition does not disturb it.
LEMMA DefinedAfter ==
  ASSUME NEW S, NEW q \in Seq(S), NEW r \in Seq(S), NEW field, DefinesLast(r, field)
  PROVE  DefinesLast(q \o r, field)
<1>1. PICK k \in 1..Len(r) :
         /\ r[k].op = "field"
         /\ r[k].name = field.name
         /\ r[k].def.type = map_field_type_to_surreal(field)
         /\ field.type # "Table" => r[k].def.assert = field.reqd
         /\ \A m \in 1..Len(r) : m > k /\ r[m].op = "field" => r[m].name # field.name
  BY DEF DefinesLast
<1>2. Len(q) + k \in 1..Len(q \o r) /\ (q \o r)[Len(q) + k] = r[k]
  BY Concatenated
<1>3. ASSUME NEW m \in 1..Len(q \o r), m > Len(q) + k, (q \o r)[m].op = "field"
      PROVE  (q \o r)[m].name # field.name
  <2>1. /\ m - Len(q) \in 1..Len(r) /\ m - Len(q) > k
        /\ (q \o r)[m] = r[m - Len(q)]
    BY <1>3, Concatenated
  <2> QED
    BY <1>1, <1>3, <2>1
<1> QED
  BY <1>1, <1>2, <1>3 DEF DefinesLast

\* Two programs that begin no table do not begin one together.
LEMMA AltersBoth ==
  ASSUME NEW S, NEW q \in Seq(S), NEW r \in Seq(S), Alters(q), Alters(r)
  PROVE  Alters(q \o r)
<1>1. ASSUME NEW k \in 1..Len(q \o r)
      PROVE  (q \o r)[k] # DefineTable
  <2>1. CASE k \in 1..Len(q)
    BY <2>1, Concatenated DEF Alters
  <2>2. CASE k > Len(q)
    BY <2>2, Concatenated DEF Alters
  <2> QED
    BY <2>1, <2>2, Concatenated
<1> QED
  BY <1>1 DEF Alters

\* What create_table and alter_table have for one field of the schema.
FieldChunk(c, field) ==
  /\ Len(c) \in {1, 2}
  /\ c[1].op = "field"
  /\ c[1].name = field.name
  /\ c[1].def.type = map_field_type_to_surreal(field)
  /\ field.type # "Table" => c[1].def.assert = field.reqd
  /\ Len(c) = 2 => c[2] = DefineIndex(field.name)

\* The statements of one field define that field, and no other.
LEMMA ChunkDefines ==
  ASSUME NEW c, NEW field, FieldChunk(c, field)
  PROVE  /\ DefinesLast(c, field)
         /\ Alters(c)
         /\ \A m \in 1..Len(c) : c[m].op = "field" => c[m].name = field.name
         /\ Len(c) = 2 => Contains(c, DefineIndex(field.name))
<1>1. /\ 1 \in 1..Len(c)
      /\ \A m \in 1..Len(c) : m = 1 \/ (m = 2 /\ c[2] = DefineIndex(field.name))
  <2>1. Len(c) \in {1, 2} /\ (Len(c) = 2 => c[2] = DefineIndex(field.name))
    BY DEF FieldChunk
  <2>2. CASE Len(c) = 1
    BY <2>2
  <2>3. CASE Len(c) = 2
    BY <2>1, <2>3
  <2> QED
    BY <2>1, <2>2, <2>3
<1>2. DefineIndex(field.name).op = "index"
  BY DEF DefineIndex
<1>3. \A m \in 1..Len(c) : c[m].op = "field" => m = 1
  BY <1>1, <1>2
<1>4. DefinesLast(c, field)
  BY <1>1, <1>3 DEF DefinesLast, FieldChunk
<1>5. Alters(c)
  BY <1>1, <1>2 DEF Alters, FieldChunk, DefineTable
<1>6. Len(c) = 2 => Contains(c, DefineIndex(field.name))
  BY DEF Contains, FieldChunk
<1> QED
  BY <1>1, <1>3, <1>4, <1>5, <1>6 DEF FieldChunk

\* The definitions of all fields, one after the other: of two fields with one
\* name the last is defined last.
LEMMA Chunks ==
  ASSUME NEW s \in Schemas, NEW chunks \in [1..Len(s) -> Seq(Definitions(s))],
         \A i \in 1..Len(s) : FieldChunk(chunks[i], s[i])
  PROVE  /\ FlattenSeq(chunks) \in Seq(Definitions(s))
         /\ Alters(FlattenSeq(chunks))
         /\ \A i \in 1..Len(s) : LastOfName(s, i) => DefinesLast(FlattenSeq(chunks), s[i])
         /\ \A i \in 1..Len(s) : Len(chunks[i]) = 2 =>
              Contains(FlattenSeq(chunks), DefineIndex(s[i].name))
<1> DEFINE S == Definitions(s)
           N == Len(s)
<1>1. N \in Nat
  BY SchemaType
<1>2. PICK flat : IsFlattening(flat, chunks, N, S)
  <2>1. chunks \in [1..N -> Seq(S)]
    OBVIOUS
  <2> HIDE DEF S, N
  <2> QED
    BY <1>1, <2>1, FlattenSteps
<1>3. /\ flat \in [0..N -> Seq(S)]
      /\ flat[0] = << >>
      /\ \A n \in 1..N : flat[n] = flat[n - 1] \o chunks[n]
      /\ FlattenSeq(chunks) = flat[N]
  BY <1>2 DEF IsFlattening
<1> DEFINE Good(n) ==
             /\ Alters(flat[n])
             /\ \A i \in 1..n :
                  (\A j \in 1..n : j > i => s[j].name # s[i].name) => DefinesLast(flat[n], s[i])
             /\ \A i \in 1..n : Len(chunks[i]) = 2 => Contains(flat[n], DefineIndex(s[i].name))
           G == {n \in 0..N : Good(n)}
<1>4. 0 \in G
  BY <1>1, <1>3 DEF Alters
<1>5. ASSUME NEW n \in 1..N, n - 1 \in G
      PROVE  n \in G
  <2> DEFINE q == flat[n - 1]
             c == chunks[n]
  <2>1. q \in Seq(S) /\ c \in Seq(S) /\ flat[n] = q \o c
    <3>1. c \in Seq(S)
      OBVIOUS
    <3>2. n - 1 \in 0..N
      BY <1>1
    <3> HIDE DEF S, N
    <3> QED
      BY <1>3, <3>1, <3>2
  <2>2. /\ Alters(q)
        /\ \A i \in 1..(n - 1) :
             (\A j \in 1..(n - 1) : j > i => s[j].name # s[i].name) => DefinesLast(q, s[i])
        /\ \A i \in 1..(n - 1) :
             Len(chunks[i]) = 2 => Contains(q, DefineIndex(s[i].name))
    BY <1>5
  <2>3. /\ DefinesLast(c, s[n]) /\ Alters(c)
        /\ \A m \in 1..Len(c) : c[m].op = "field" => c[m].name = s[n].name
        /\ Len(c) = 2 => Contains(c, DefineIndex(s[n].name))
    BY ChunkDefines
  <2>4. Alters(flat[n])
    <3> HIDE DEF q, c, S
    <3> QED
      BY <2>1, <2>2, <2>3, AltersBoth
  <2>5. ASSUME NEW i \in 1..n, \A j \in 1..n : j > i => s[j].name # s[i].name
        PROVE  DefinesLast(flat[n], s[i])
    <3>1. CASE i = n
      <4> HIDE DEF q, c, S
      <4> QED
        BY <2>1, <2>3, <3>1, DefinedAfter
    <3>2. CASE i # n
      <4>1. i \in 1..(n - 1) /\ \A j \in 1..(n - 1) : j > i => s[j].name # s[i].name
        BY <2>5, <3>2
      <4>2. DefinesLast(q, s[i])
        BY <2>2, <4>1
      <4>3. s[n].name # s[i].name
        BY <2>5, <3>2
      <4> HIDE DEF q, c, S
      <4> QED
        BY <2>1, <2>3, <4>2, <4>3, DefinedBefore
    <3> QED
      BY <3>1, <3>2
  <2>6. ASSUME NEW i \in 1..n, Len(chunks[i]) = 2
        PROVE  Contains(flat[n], DefineIndex(s[i].name))
    <3>1. CASE i = n
      <4>1. Contains(c, DefineIndex(s[i].name))
        BY <2>3, <2>6, <3>1
      <4> HIDE DEF q, c, S
      <4> QED
        BY <2>1, <4>1, ContainedInBoth
    <3>2. CASE i # n
      <4>1. Contains(q, DefineIndex(s[i].name))
        BY <2>2, <2>6, <3>2
      <4> HIDE DEF q, c, S
      <4> QED
        BY <2>1, <4>1, ContainedInBoth
    <3> QED
      BY <3>1, <3>2
  <2>7. Good(n)
    BY <2>4, <2>5, <2>6
  <2> QED
    BY <2>7
<1>6. Good(N)
  <2>1. \A n \in 0..N : n \in G
    <3> HIDE DEF G, N
    <3> QED
      BY <1>1, <1>4, <1>5, UpTo
  <2>2. N \in G
    <3> HIDE DEF G, N
    <3> QED
      BY <1>1, <2>1
  <2> QED
    BY <2>2
<1>7. FlattenSeq(chunks) \in Seq(S)
  BY <1>1, <1>3
<1> QED
  BY <1>3, <1>6, <1>7 DEF LastOfName

\* A field has one statement or two.
LEMMA Pairs ==
  ASSUME NEW S, NEW a \in S, NEW b \in S
  PROVE  << a >> \o << b >> = << a, b >> /\ << a >> \o << >> = << a >>
<1>1. << a >> \in Seq(S) /\ << b >> \in Seq(S) /\ << a, b >> \in Seq(S)
  OBVIOUS
<1>2. Len(<< a >>) = 1 /\ Len(<< b >>) = 1 /\ Len(<< a, b >>) = 2
  OBVIOUS
<1>3. << a >> \o << b >> = << a, b >>
  <2> DEFINE q == << a >> \o << b >>
             r == << a, b >>
  <2>1. q \in Seq(S) /\ Len(q) = 2 /\ q[1] = << a >>[1] /\ q[1 + 1] = << b >>[1]
    BY <1>1, <1>2, Concatenated
  <2>2. r \in Seq(S) /\ Len(r) = 2 /\ r[1] = a /\ r[2] = b
    OBVIOUS
  <2>3. q[1] = a /\ q[2] = b
    BY <2>1
  <2> HIDE DEF q, r
  <2>4. \A i \in 1..Len(q) : q[i] = r[i]
    BY <2>1, <2>2, <2>3
  <2> QED
    BY <2>1, <2>2, <2>4, SeqEqual DEF q, r
<1> QED
  BY <1>1, <1>3, ConcatEmptySeq

\* The definition of a field of the schema is one of Definitions.
LEMMA FieldDefinition ==
  ASSUME NEW s \in Schemas, NEW i \in 1..Len(s), NEW type \in SurrealTypes, NEW assert \in BOOLEAN
  PROVE  /\ DefineField(s[i].name, type, assert) \in Definitions(s)
         /\ DefineIndex(s[i].name) \in Definitions(s)
<1>1. s[i].name \in FieldNames(s)
  BY SchemaType
<1> QED
  BY <1>1 DEF DefineField, DefineIndex, Definitions, FieldDefs

\* create_table defines each field of the schema, with its index.
LEMMA CompiledChunk ==
  ASSUME NEW s \in Schemas, NEW i \in 1..Len(s)
  PROVE  /\ CompiledField(s[i]) \in Seq(Definitions(s))
         /\ FieldChunk(CompiledField(s[i]), s[i])
         /\ NeedsIndex(s[i]) => Len(CompiledField(s[i])) = 2
<1> DEFINE field == s[i]
           index == DefineIndex(field.name)
<1>1. field.reqd \in BOOLEAN /\ field.unique \in BOOLEAN
  BY SchemaType DEF DocFields
<1>2. CASE field.type = "Table"
  <2> DEFINE define == DefineField(field.name, "array", FALSE)
  <2>1. CompiledField(field) = << define >>
    BY <1>2 DEF CompiledField
  <2>2. define \in Definitions(s)
    BY FieldDefinition DEF SurrealTypes
  <2>3. /\ define.op = "field" /\ define.name = field.name
        /\ define.def.type = map_field_type_to_surreal(field)
    BY <1>2 DEF DefineField, map_field_type_to_surreal
  <2> HIDE DEF define
  <2> QED
    BY <1>2, <2>1, <2>2, <2>3 DEF FieldChunk, NeedsIndex
<1>3. CASE field.type # "Table"
  <2> DEFINE define == DefineField(field.name, map_field_type_to_surreal(field), field.reqd)
  <2>1. CompiledField(field) = << define >> \o IF field.unique THEN << index >> ELSE << >>
    BY <1>3 DEF CompiledField
  <2>2. define \in Definitions(s) /\ index \in Definitions(s)
    BY <1>1, FieldDefinition, MappedType
  <2>3. /\ define.op = "field" /\ define.name = field.name
        /\ define.def.type = map_field_type_to_surreal(field)
        /\ define.def.assert = field.reqd
    BY DEF DefineField
  <2>4. CompiledField(field) = IF field.unique THEN << define, index >> ELSE << define >>
    <3> HIDE DEF define, index
    <3> QED
      BY <2>1, <2>2, Pairs
  <2> HIDE DEF define
  <2> QED
    BY <1>3, <2>2, <2>3, <2>4 DEF FieldChunk, NeedsIndex
<1> QED
  BY <1>2, <1>3

\* So does alter_table, but for an index that it was told of.
LEMMA AlteredChunk ==
  ASSUME NEW s \in Schemas, NEW i \in 1..Len(s), NEW info
  PROVE  /\ AlteredField(s[i], info) \in Seq(Definitions(s))
         /\ FieldChunk(AlteredField(s[i], info), s[i])
         /\ NeedsIndex(s[i]) => Len(AlteredField(s[i], info)) = 2 \/ s[i].name \in info.indexes
<1> DEFINE field == s[i]
           index == DefineIndex(field.name)
           new == field.unique /\ field.name \notin info.indexes
           define == DefineField(field.name, map_field_type_to_surreal(field), field.reqd)
<1>1. field.reqd \in BOOLEAN /\ field.unique \in BOOLEAN
  BY SchemaType DEF DocFields
<1>2. AlteredField(field, info) = << define >> \o IF new THEN << index >> ELSE << >>
  BY DEF AlteredField
<1>3. define \in Definitions(s) /\ index \in Definitions(s)
  BY <1>1, FieldDefinition, MappedType
<1>4. /\ define.op = "field" /\ define.name = field.name
      /\ define.def.type = map_field_type_to_surreal(field)
      /\ define.def.assert = field.reqd
  BY DEF DefineField
<1>5. AlteredField(field, info) = IF new THEN << define, index >> ELSE << define >>
  <2> HIDE DEF define, index, new
  <2> QED
    BY <1>2, <1>3, Pairs
<1>6. NeedsIndex(field) => new \/ field.name \in info.indexes
  BY DEF NeedsIndex
<1>7. index = DefineIndex(field.name)
  OBVIOUS
<1> HIDE DEF define, index, new, field
<1> DEFINE one == << define >>
           two == << define, index >>
<1>8. /\ one \in Seq(Definitions(s)) /\ Len(one) = 1 /\ one[1] = define
      /\ two \in Seq(Definitions(s)) /\ Len(two) = 2 /\ two[1] = define /\ two[2] = index
  BY <1>3
<1>9. AlteredField(field, info) = IF new THEN two ELSE one
  BY <1>5
<1> HIDE DEF one, two
<1>10. FieldChunk(one, field) /\ FieldChunk(two, field)
  BY <1>4, <1>7, <1>8 DEF FieldChunk
<1>11. CASE new
  <2>1. AlteredField(field, info) = two
    BY <1>9, <1>11
  <2> QED
    BY <1>8, <1>10, <2>1 DEF field
<1>12. CASE ~new
  <2>1. AlteredField(field, info) = one
    BY <1>9, <1>12
  <2> QED
    BY <1>6, <1>8, <1>10, <1>12, <2>1 DEF field
<1> QED
  BY <1>11, <1>12

\* A program after a single statement.
LEMMA ShortBefore ==
  ASSUME NEW S, NEW q \in Seq(S), NEW r \in Seq(S)
  PROVE  Len(q) = 1 =>
           /\ q \o r \in Seq(S)
           /\ Len(q \o r) = Len(r) + 1
           /\ (q \o r)[1] = q[1]
           /\ \A k \in 1..Len(r) : (q \o r)[k + 1] = r[k]
<1>1. /\ q \o r \in Seq(S)
      /\ Len(r) \in Nat /\ Len(q \o r) = Len(q) + Len(r)
      /\ \A k \in 1..Len(q) : (q \o r)[k] = q[k]
      /\ \A k \in 1..Len(r) : (q \o r)[Len(q) + k] = r[k]
  BY Concatenated
<1> DEFINE both == q \o r
           n == Len(q)
<1>2. n = 1 => 1 \in 1..n /\ \A k \in 1..Len(r) : n + k = k + 1
  BY <1>1
<1>3. /\ both \in Seq(S)
      /\ Len(r) \in Nat /\ Len(both) = n + Len(r)
      /\ \A k \in 1..n : both[k] = q[k]
      /\ \A k \in 1..Len(r) : both[n + k] = r[k]
  BY <1>1
<1> HIDE DEF both, n
<1>4. n = 1 =>
        /\ both \in Seq(S)
        /\ Len(both) = Len(r) + 1
        /\ both[1] = q[1]
        /\ \A k \in 1..Len(r) : both[k + 1] = r[k]
  BY <1>2, <1>3
<1> QED
  BY <1>4 DEF both, n

\* The same, with the statement itself.
LEMMA OneBefore ==
  ASSUME NEW S, NEW a \in S, NEW r \in Seq(S)
  PROVE  /\ << a >> \o r \in Seq(S)
         /\ Len(<< a >> \o r) = Len(r) + 1
         /\ (<< a >> \o r)[1] = a
         /\ \A k \in 1..Len(r) : (<< a >> \o r)[k + 1] = r[k]
<1>1. << a >> \in Seq(S) /\ Len(<< a >>) = 1 /\ << a >>[1] = a
  OBVIOUS
<1> QED
  BY <1>1, ShortBefore

\* DEFINE TABLE and the system fields, as tuple.
LEMMA TablePrefix ==
  ASSUME NEW s \in Schemas
  PROVE  LET prefix == << DefineTable >> \o SystemFields IN
         /\ prefix \in Seq(Definitions(s))
         /\ Len(prefix) = 6
         /\ prefix[1] = DefineTable
         /\ \A k \in 1..5 : prefix[k + 1] = SystemFields[k]
         /\ \A k \in 2..6 : prefix[k] # DefineTable
<1> DEFINE D == Definitions(s)
           sys(f) == DefineField(f, SystemTypes[f], FALSE)
<1>1. \A f \in System : sys(f) \in D /\ sys(f) # DefineTable
  BY DEF Definitions, DefineField, DefineTable
<1>2. DefineTable \in D
  BY DEF Definitions
<1>3. SystemFields = << sys("creation"), sys("modified"), sys("modified_by"),
                        sys("owner"), sys("docstatus") >>
  BY DEF SystemFields
<1> HIDE DEF D, sys
<1>4. /\ SystemFields \in Seq(D) /\ Len(SystemFields) = 5
      /\ \A k \in 1..5 : SystemFields[k] # DefineTable
  BY <1>1, <1>3, SystemIs
<1>6. \A fields \in Seq(D) :
        /\ << DefineTable >> \o fields \in Seq(D)
        /\ Len(<< DefineTable >> \o fields) = Len(fields) + 1
        /\ (<< DefineTable >> \o fields)[1] = DefineTable
        /\ \A k \in 1..Len(fields) : (<< DefineTable >> \o fields)[k + 1] = fields[k]
  BY <1>2, OneBefore
<1>7. /\ << DefineTable >> \o SystemFields \in Seq(D)
      /\ Len(<< DefineTable >> \o SystemFields) = 6
      /\ (<< DefineTable >> \o SystemFields)[1] = DefineTable
      /\ \A k \in 1..5 : (<< DefineTable >> \o SystemFields)[k + 1] = SystemFields[k]
  <2>1. SystemFields \in Seq(D)
    BY <1>4
  <2>2. /\ << DefineTable >> \o SystemFields \in Seq(D)
        /\ Len(<< DefineTable >> \o SystemFields) = Len(SystemFields) + 1
        /\ (<< DefineTable >> \o SystemFields)[1] = DefineTable
        /\ \A k \in 1..Len(SystemFields) :
             (<< DefineTable >> \o SystemFields)[k + 1] = SystemFields[k]
    BY <1>6, <2>1
  <2>3. Len(SystemFields) = 5
    BY <1>4
  <2> QED
    BY <2>2, <2>3
<1>8. \A k \in 2..6 : k - 1 \in 1..5 /\ k = (k - 1) + 1
  OBVIOUS
<1> QED
  BY <1>4, <1>7, <1>8 DEF D

\* SetToSeq lists a finite set.
LEMMA Listed ==
  ASSUME NEW S, IsFiniteSet(S)
  PROVE  SetToSeq(S) \in Seq(S) /\ \A x \in S : Contains(SetToSeq(S), x)
<1> DEFINE n == Cardinality(S)
<1>1. n \in Nat /\ ExistsBijection(1..n, S)
  BY FS_CardinalityType
<1>2. \E f \in [1..n -> S] : IsInjective(f)
  <2>1. PICK f : f \in Bijection(1..n, S)
    BY <1>1 DEF ExistsBijection
  <2>2. f \in [1..n -> S] /\ IsInjective(f)
    BY <2>1 DEF Bijection, Injection
  <2> QED
    BY <2>2
<1>3. SetToSeq(S) \in [1..n -> S] /\ IsInjective(SetToSeq(S))
  BY <1>2 DEF SetToSeq
<1> DEFINE q == SetToSeq(S)
<1> HIDE DEF q, n
<1>4. q \in [1..n -> S] /\ IsInjective(q)
  BY <1>3 DEF q, n
<1>5. q \in Injection(1..n, S)
  BY <1>4 DEF Injection
<1>6. IsFiniteSet(1..n) /\ Cardinality(1..n) = n
  BY <1>1, FS_Interval DEF n
<1>7. q \in Surjection(1..n, S)
  BY <1>5, <1>6, FS_Injection DEF n
<1>8. \A x \in S : \E k \in 1..n : q[k] = x
  BY <1>7 DEF Surjection
<1>9. q \in Seq(S) /\ Len(q) = n
  BY <1>1, <1>4
<1> QED
  BY <1>8, <1>9 DEF Contains, q

\* What create_table and synchronize_schema execute.
LEMMA CompiledProgram ==
  ASSUME NEW s \in Schemas
  PROVE  LET q == compile_schema_to_surrealql(s) IN
         /\ q \in Seq(Definitions(s))
         /\ Creates(q)
         /\ DefinesAll(q, s)
         /\ \A i \in 1..Len(s) : NeedsIndex(s[i]) => Contains(q, DefineIndex(s[i].name))
<1> DEFINE D == Definitions(s)
           prefix == << DefineTable >> \o SystemFields
           chunks == [i \in 1..Len(s) |-> CompiledField(s[i])]
           fields == FlattenSeq(chunks)
<1>1. compile_schema_to_surrealql(s) = prefix \o fields
  BY DEF compile_schema_to_surrealql
<1>2. /\ chunks \in [1..Len(s) -> Seq(Definitions(s))]
      /\ \A i \in 1..Len(s) : FieldChunk(chunks[i], s[i])
      /\ \A i \in 1..Len(s) : NeedsIndex(s[i]) => Len(chunks[i]) = 2
  BY CompiledChunk
<1>3. /\ fields \in Seq(D) /\ Alters(fields) /\ DefinesAll(fields, s)
      /\ \A i \in 1..Len(s) : NeedsIndex(s[i]) => Contains(fields, DefineIndex(s[i].name))
  <2> HIDE DEF chunks
  <2> QED
    BY <1>2, Chunks DEF DefinesAll
<1>4. /\ prefix \in Seq(D)
      /\ Len(prefix) = 6
      /\ prefix[1] = DefineTable
      /\ \A k \in 1..5 : prefix[k + 1] = SystemFields[k]
      /\ \A k \in 2..6 : prefix[k] # DefineTable
  BY TablePrefix
<1> HIDE DEF D, prefix, fields
<1>a. prefix \in Seq(D) /\ fields \in Seq(D)
  BY <1>3, <1>4
<1> DEFINE q == prefix \o fields
<1>5. /\ q \in Seq(D)
      /\ Len(prefix) \in Nat /\ Len(fields) \in Nat /\ Len(q) = Len(prefix) + Len(fields)
      /\ \A k \in 1..Len(prefix) : q[k] = prefix[k]
      /\ \A k \in 1..Len(q) : k > Len(prefix) =>
           k - Len(prefix) \in 1..Len(fields) /\ q[k] = fields[k - Len(prefix)]
  BY <1>a, Concatenated
<1>6. DefinesAll(q, s)
  <2>1. \A i \in 1..Len(s) : DefinesLast(fields, s[i]) => DefinesLast(q, s[i])
    BY <1>a, DefinedAfter
  <2> QED
    BY <1>3, <2>1 DEF DefinesAll
<1>7. \A i \in 1..Len(s) : NeedsIndex(s[i]) => Contains(q, DefineIndex(s[i].name))
  <2>1. \A x : Contains(fields, x) => Contains(q, x)
    BY <1>a, ContainedInBoth
  <2> QED
    BY <1>3, <2>1
<1> HIDE DEF q
<1>8. Creates(q)
  <2>1. Len(q) \geq 6
    BY <1>4, <1>5
  <2>2. \A k \in 1..6 : q[k] = prefix[k]
    BY <1>4, <1>5
  <2>3. q[1] = DefineTable /\ \A i \in 1..5 : q[i + 1] = SystemFields[i]
    BY <1>4, <2>2
  <2>4. ASSUME NEW k \in 2..Len(q)
        PROVE  q[k] # DefineTable
    <3>1. CASE k \leq 6
      BY <1>4, <2>2, <3>1
    <3>2. CASE k > 6
      <4>1. k - Len(prefix) \in 1..Len(fields) /\ q[k] = fields[k - Len(prefix)]
        BY <1>4, <1>5, <3>2
      <4> QED
        BY <1>3, <4>1 DEF Alters
    <3> QED
      BY <1>4, <1>5, <3>1, <3>2
  <2> QED
    BY <2>1, <2>3, <2>4 DEF Creates
<1> QED
  BY <1>1, <1>5, <1>6, <1>7, <1>8 DEF q, D

\* What alter_table executes.
LEMMA AlteredProgram ==
  ASSUME NEW s \in Schemas, NEW info, IsFiniteSet(FieldsOf(info))
  PROVE  LET q == alter_table(s, info) IN
         /\ q \in Seq(Definitions(s) \cup Removals(s))
         /\ Alters(q)
         /\ DefinesAll(q, s)
         /\ \A i \in 1..Len(s) : NeedsIndex(s[i]) =>
              Contains(q, DefineIndex(s[i].name)) \/ s[i].name \in info.indexes
         /\ \A f \in Foreign(info, s) : Contains(q, RemoveField(f))
<1> DEFINE D == Definitions(s) \cup Removals(s)
           chunks == [i \in 1..Len(s) |-> AlteredField(s[i], info)]
           fields == FlattenSeq(chunks)
           removals == {RemoveField(f) : f \in Dropped(s, info)}
           drops == SetToSeq(removals)
<1>1. alter_table(s, info) = fields \o drops
  BY DEF alter_table
<1>2. /\ chunks \in [1..Len(s) -> Seq(Definitions(s))]
      /\ \A i \in 1..Len(s) : FieldChunk(chunks[i], s[i])
      /\ \A i \in 1..Len(s) : NeedsIndex(s[i]) => Len(chunks[i]) = 2 \/ s[i].name \in info.indexes
  BY AlteredChunk
<1>3. /\ fields \in Seq(Definitions(s)) /\ Alters(fields) /\ DefinesAll(fields, s)
      /\ \A i \in 1..Len(s) : NeedsIndex(s[i]) =>
           Contains(fields, DefineIndex(s[i].name)) \/ s[i].name \in info.indexes
  <2> HIDE DEF chunks
  <2> QED
    BY <1>2, Chunks DEF DefinesAll
<1>4. removals \subseteq Removals(s)
  BY DEF Dropped, Removals, RemoveField, FieldsOf
<1>5. IsFiniteSet(removals)
  <2> DEFINE g == [f \in Dropped(s, info) |-> RemoveField(f)]
  <2>1. IsFiniteSet(Dropped(s, info))
    BY FS_Subset DEF Dropped
  <2>2. g \in Surjection(Dropped(s, info), removals)
    BY DEF Surjection
  <2> HIDE DEF g, removals
  <2> QED
    BY <2>1, <2>2, FS_Surjection
<1>6. /\ drops \in Seq(removals)
      /\ \A f \in Foreign(info, s) : Contains(drops, RemoveField(f))
  <2>1. drops \in Seq(removals) /\ \A x \in removals : Contains(drops, x)
    <3> HIDE DEF removals
    <3> QED
      BY <1>5, Listed
  <2> HIDE DEF drops
  <2> QED
    BY <2>1 DEF Foreign, Dropped
<1>7. /\ \A k \in 1..Len(drops) : drops[k] \in Removals(s)
      /\ drops \in Seq(D)
  <2> HIDE DEF drops, removals
  <2> QED
    BY <1>4, <1>6
<1>8. fields \in Seq(D)
  <2> HIDE DEF fields
  <2> QED
    BY <1>3
<1> HIDE DEF D, fields, drops, removals
<1> DEFINE q == fields \o drops
<1>9. \A k \in 1..Len(drops) : drops[k].op = "remove"
  BY <1>7 DEF Removals
<1>10. Alters(drops)
  <2>1. DefineTable.op # "remove"
    BY DEF DefineTable
  <2> QED
    BY <1>9, <2>1 DEF Alters
<1>11. q \in Seq(D) /\ Alters(q)
  BY <1>3, <1>7, <1>8, <1>10, AltersBoth, Concatenated
<1>12. DefinesAll(q, s)
  <2>1. \A i \in 1..Len(s) : DefinesLast(fields, s[i]) => DefinesLast(q, s[i])
    BY <1>7, <1>8, <1>9, DefinedBefore
  <2> QED
    BY <1>3, <2>1 DEF DefinesAll
<1>13. \A x : Contains(fields, x) \/ Contains(drops, x) => Contains(q, x)
  BY <1>7, <1>8, ContainedInBoth
<1> HIDE DEF q
<1>14. /\ \A i \in 1..Len(s) : NeedsIndex(s[i]) =>
            Contains(q, DefineIndex(s[i].name)) \/ s[i].name \in info.indexes
       /\ \A f \in Foreign(info, s) : Contains(q, RemoveField(f))
  BY <1>3, <1>6, <1>13
<1> QED
  BY <1>1, <1>11, <1>12, <1>14 DEF q, D

-----------------------------------------------------------------------------
(* Executing a program *)

Keep(s) == FieldNames(s) \cup System

\* A statement leaves a table with the fields it had and fields of s or the
\* system's, and takes no index away.
LEMMA StepGrows ==
  ASSUME NEW s \in Schemas, NEW q \in Definitions(s) \cup Removals(s), NEW u \in Tables,
         Execute(u, q) # None
  PROVE  /\ Execute(u, q) \in Tables
         /\ FieldsOf(Execute(u, q)) \subseteq FieldsOf(u) \cup Keep(s)
         /\ u.indexes \subseteq Execute(u, q).indexes
         /\ u.full => Execute(u, q).full
         /\ IsFiniteSet(FieldsOf(u)) => IsFiniteSet(FieldsOf(Execute(u, q)))
<1> DEFINE v == Execute(u, q)
<1>1. /\ v \in Tables
      /\ u.full => v.full
      /\ u.indexes \subseteq v.indexes
      /\ \A f \in Names :
           v.fields[f] = IF q.op = "field" /\ f = q.name THEN q.def
                         ELSE IF q.op = "remove" /\ f = q.name THEN None
                         ELSE u.fields[f]
  BY Executed
<1>2. q.op = "field" => q.name \in Keep(s)
  BY StatementSorts DEF Keep
<1> HIDE DEF v
<1>3. FieldsOf(v) \subseteq FieldsOf(u) \cup Keep(s)
  BY <1>1, <1>2 DEF FieldsOf
<1>4. ASSUME IsFiniteSet(FieldsOf(u))
      PROVE  IsFiniteSet(FieldsOf(v))
  <2>1. FieldsOf(v) \subseteq FieldsOf(u) \cup {q.name}
    BY <1>1 DEF FieldsOf
  <2>2. IsFiniteSet(FieldsOf(u) \cup {q.name})
    BY <1>4, FS_AddElement
  <2> QED
    BY <2>1, <2>2, FS_Subset
<1> QED
  BY <1>1, <1>3, <1>4 DEF v

\* A new table is empty.
LEMMA StepCreates ==
  ASSUME NEW s \in Schemas, NEW q \in Definitions(s) \cup Removals(s), Execute(None, q) # None
  PROVE  /\ q = DefineTable
         /\ Execute(None, q) \in Tables
         /\ FieldsOf(Execute(None, q)) = {}
         /\ Execute(None, q).full
<1>1. q = DefineTable /\ Execute(None, q) = [full |-> TRUE, fields |-> [f \in Names |-> None], indexes |-> {}]
  BY ExecuteOnNone
<1> QED
  BY <1>1 DEF Tables, FieldsOf

\* DEFINE TABLE comes first, if at all.
OnlyFirst(q) == \A k \in 2..Len(q) : q[k] # DefineTable

\* Only the first statement of a program may begin a table.
LEMMA FirstOnly ==
  ASSUME NEW q, Creates(q) \/ Alters(q)
  PROVE  OnlyFirst(q)
<1>1. CASE Creates(q)
  BY <1>1 DEF Creates, OnlyFirst
<1>2. CASE Alters(q)
  <2>1. \A k \in 2..Len(q) : k \in 1..Len(q)
    OBVIOUS
  <2> QED
    BY <1>2, <2>1 DEF Alters, OnlyFirst
<1> QED
  BY <1>1, <1>2

\* No statements, no effect.
LEMMA RunNothing ==
  ASSUME NEW t, NEW q, Len(q) = 0
  PROVE  Run(t, q) = t
<1> DEFINE P == [n \in 0..0 |-> {t}]
<1>1. P[0] = {t}
  OBVIOUS
<1> HIDE DEF P
<1>2. Run(t, q) \in P[Len(q)]
  BY <1>1, RunInvariant
<1> QED
  BY <1>1, <1>2

\* A program that does not fail passes on what its statements pass on: after
\* the first statement there is a table, or the program has failed.
LEMMA RunFrom ==
  ASSUME NEW s \in Schemas, NEW q \in Seq(Definitions(s) \cup Removals(s)), OnlyFirst(q),
         q # << >>, NEW t, NEW P,
         \A k \in 1..Len(q) : P[k] \subseteq Tables,
         Execute(t, q[1]) \in P[1] \cup {None},
         \A k \in 2..Len(q) : \A u \in P[k - 1] : Execute(u, q[k]) \in P[k] \cup {None}
  PROVE  Run(t, q) \in P[Len(q)] \cup {None}
<1> DEFINE PP == [k \in 0..Len(q) |-> IF k = 0 THEN {t} ELSE P[k] \cup {None}]
<1>1. Len(q) \in Nat /\ Len(q) \geq 1 /\ \A k \in 1..Len(q) : q[k] \in Definitions(s) \cup Removals(s)
  OBVIOUS
<1>2. t \in PP[0] /\ PP[Len(q)] = P[Len(q)] \cup {None}
  BY <1>1
<1>3. ASSUME NEW k \in 1..Len(q), NEW u \in PP[k - 1]
      PROVE  Execute(u, q[k]) \in PP[k]
  <2>1. CASE k = 1
    <3>1. u = t /\ PP[1] = P[1] \cup {None}
      BY <1>1, <2>1
    <3> QED
      BY <2>1, <3>1
  <2>2. CASE k # 1
    <3>1. k \in 2..Len(q) /\ u \in P[k - 1] \cup {None} /\ PP[k] = P[k] \cup {None}
      BY <1>1, <2>2
    <3>2. CASE u \in P[k - 1]
      BY <3>1, <3>2
    <3>3. CASE u = None
      <4>1. q[k] # DefineTable
        BY <3>1 DEF OnlyFirst
      <4>2. Execute(None, q[k]) = None
        BY <1>1, <4>1, ExecuteOnNone
      <4> QED
        BY <3>1, <3>3, <4>2
    <3> QED
      BY <3>1, <3>2, <3>3
  <2> QED
    BY <2>1, <2>2
<1> HIDE DEF PP
<1>4. Run(t, q) \in PP[Len(q)]
  BY <1>1, <1>2, <1>3, RunInvariant
<1> QED
  BY <1>2, <1>4

\* The statements of a program, one by one.
LEMMA Statements ==
  ASSUME NEW S, NEW q \in Seq(S)
  PROVE  Len(q) \in Nat /\ (q = << >> <=> Len(q) = 0) /\ \A k \in 1..Len(q) : q[k] \in S
  OBVIOUS

BaseOf(t) == IF t = None THEN {} ELSE FieldsOf(t)

\* What any program leaves of a table.
LEMMA RunGrows ==
  ASSUME NEW s \in Schemas, NEW q \in Seq(Definitions(s) \cup Removals(s)), OnlyFirst(q),
         NEW t \in Tables \cup {None}, Run(t, q) # None
  PROVE  /\ Run(t, q) \in Tables
         /\ FieldsOf(Run(t, q)) \subseteq BaseOf(t) \cup Keep(s)
         /\ t # None => t.indexes \subseteq Run(t, q).indexes
         /\ (t # None => IsFiniteSet(FieldsOf(t))) => IsFiniteSet(FieldsOf(Run(t, q)))
<1> DEFINE Grown(u) ==
             /\ FieldsOf(u) \subseteq BaseOf(t) \cup Keep(s)
             /\ t # None => t.indexes \subseteq u.indexes
             /\ (t # None => IsFiniteSet(FieldsOf(t))) => IsFiniteSet(FieldsOf(u))
<1>1. CASE q = << >>
  <2>1. Run(t, q) = t
    BY <1>1, RunNothing, Statements
  <2> QED
    BY <2>1 DEF BaseOf
<1>2. CASE q # << >>
  <2> DEFINE P == [k \in 1..Len(q) |-> {u \in Tables : Grown(u)}]
  <2>1. Len(q) \in Nat /\ 1 \in 1..Len(q) /\ \A k \in 1..Len(q) : q[k] \in Definitions(s) \cup Removals(s)
    BY <1>2, Statements
  <2>2. Execute(t, q[1]) \in {u \in Tables : Grown(u)} \cup {None}
    <3> SUFFICES ASSUME Execute(t, q[1]) # None
                 PROVE  Execute(t, q[1]) \in Tables /\ Grown(Execute(t, q[1]))
      OBVIOUS
    <3>1. CASE t = None
      <4>1. Execute(t, q[1]) \in Tables /\ FieldsOf(Execute(t, q[1])) = {}
        BY <2>1, <3>1, StepCreates
      <4> QED
        BY <3>1, <4>1, FS_EmptySet
    <3>2. CASE t \in Tables
      <4>1. t # None
        BY <3>2, SchemaAssumption
      <4> QED
        BY <2>1, <3>2, <4>1, StepGrows DEF BaseOf
    <3> QED
      BY <3>1, <3>2
  <2>3. ASSUME NEW k \in 2..Len(q), NEW u \in Tables, Grown(u)
        PROVE  Execute(u, q[k]) \in {w \in Tables : Grown(w)} \cup {None}
    <3>1. q[k] \in Definitions(s) \cup Removals(s)
      BY <2>1
    <3>2. Execute(u, q[k]) # None =>
            /\ Execute(u, q[k]) \in Tables
            /\ FieldsOf(Execute(u, q[k])) \subseteq FieldsOf(u) \cup Keep(s)
            /\ u.indexes \subseteq Execute(u, q[k]).indexes
            /\ IsFiniteSet(FieldsOf(u)) => IsFiniteSet(FieldsOf(Execute(u, q[k])))
      BY <3>1, StepGrows
    <3> QED
      BY <2>3, <3>2
  <2>4. /\ \A k \in 1..Len(q) : P[k] = {u \in Tables : Grown(u)}
        /\ \A k \in 2..Len(q) : k - 1 \in 1..Len(q)
        /\ Len(q) \in 1..Len(q)
    BY <2>1
  <2> HIDE DEF P, Grown
  <2>5. Run(t, q) \in P[Len(q)] \cup {None}
    <3>1. \A k \in 1..Len(q) : P[k] \subseteq Tables
      BY <2>4
    <3>2. Execute(t, q[1]) \in P[1] \cup {None}
      BY <2>1, <2>2, <2>4
    <3>3. \A k \in 2..Len(q) : \A u \in P[k - 1] : Execute(u, q[k]) \in P[k] \cup {None}
      BY <2>1, <2>3, <2>4
    <3> QED
      BY <1>2, <3>1, <3>2, <3>3, RunFrom
  <2>6. Run(t, q) \in Tables /\ Grown(Run(t, q))
    BY <2>4, <2>5
  <2> QED
    BY <2>6 DEF Grown
<1> QED
  BY <1>1, <1>2

\* The last definition of a field is the one that stays.
LEMMA RunDefines ==
  ASSUME NEW s \in Schemas, NEW q \in Seq(Definitions(s) \cup Removals(s)), OnlyFirst(q),
         NEW t \in Tables \cup {None}, Run(t, q) # None,
         NEW i \in 1..Len(s), DefinesLast(q, s[i])
  PROVE  LET v == Run(t, q) IN
         /\ s[i].name \in FieldsOf(v)
         /\ v.fields[s[i].name].type = map_field_type_to_surreal(s[i])
         /\ s[i].type # "Table" => v.fields[s[i].name].assert = s[i].reqd
<1> DEFINE name == s[i].name
<1>1. Len(q) \in Nat /\ \A k \in 1..Len(q) : q[k] \in Definitions(s) \cup Removals(s)
  BY Statements
<1>2. PICK d \in 1..Len(q) :
        /\ q[d].op = "field"
        /\ q[d].name = name
        /\ q[d].def.type = map_field_type_to_surreal(s[i])
        /\ s[i].type # "Table" => q[d].def.assert = s[i].reqd
        /\ \A m \in 1..Len(q) : m > d /\ q[m].op = "field" => q[m].name # name
  BY DEF DefinesLast
<1>3. name \in FieldNames(s) /\ name \in Names
  BY SchemaType
<1>4. q[d].def \in FieldDefs /\ q[d].def # None
  BY <1>1, <1>2, StatementSorts, SchemaAssumption
<1> DEFINE Done(u, k) == k \geq d => u.fields[name] = q[d].def
           P == [k \in 1..Len(q) |-> {u \in Tables : Done(u, k)}]
<1> HIDE DEF name
<1>5. ASSUME NEW k \in 1..Len(q), NEW u \in Tables, k > 1 => Done(u, k - 1),
             Execute(u, q[k]) # None
      PROVE  Execute(u, q[k]) \in Tables /\ Done(Execute(u, q[k]), k)
  <2>1. /\ Execute(u, q[k]) \in Tables
        /\ Execute(u, q[k]).fields[name] =
             IF q[k].op = "field" /\ name = q[k].name THEN q[k].def
             ELSE IF q[k].op = "remove" /\ name = q[k].name THEN None
             ELSE u.fields[name]
    BY <1>1, <1>3, <1>5, Executed
  <2>2. q[k].op = "remove" => q[k].name # name
    BY <1>1, <1>3, StatementSorts
  <2>3. CASE k < d
    BY <1>1, <2>1, <2>3
  <2>4. CASE k = d
    BY <1>2, <2>1, <2>4
  <2>5. CASE k > d
    <3>1. k > 1 /\ k - 1 \geq d
      BY <1>1, <2>5
    <3>2. ~ (q[k].op = "field" /\ name = q[k].name)
      BY <1>2, <2>5
    <3>3. u.fields[name] = q[d].def
      BY <1>5, <3>1
    <3> QED
      BY <2>1, <2>2, <3>2, <3>3
  <2> QED
    BY <1>1, <2>3, <2>4, <2>5
<1>6. Execute(t, q[1]) \in {u \in Tables : Done(u, 1)} \cup {None}
  <2>0. 1 \in 1..Len(q)
    BY <1>1
  <2>1. CASE t \in Tables
    BY <1>5, <2>0, <2>1
  <2>2. CASE t = None
    <3> SUFFICES ASSUME Execute(None, q[1]) # None
                 PROVE  Execute(None, q[1]) \in Tables /\ Done(Execute(None, q[1]), 1)
      BY <2>2
    <3>1. q[1] = DefineTable /\ Execute(None, q[1]) \in Tables
      BY <1>1, <2>0, StepCreates
    <3>2. d # 1
      BY <1>2, <3>1 DEF DefineTable
    <3> QED
      BY <1>1, <3>1, <3>2
  <2> QED
    BY <2>1, <2>2
<1>7. /\ \A k \in 1..Len(q) : P[k] = {u \in Tables : Done(u, k)}
      /\ \A k \in 2..Len(q) : k \in 1..Len(q) /\ k - 1 \in 1..Len(q) /\ k > 1
      /\ Len(q) \in 1..Len(q) /\ 1 \in 1..Len(q) /\ q # << >>
  BY <1>1, Statements
<1> HIDE DEF P, Done
<1>8. Run(t, q) \in P[Len(q)] \cup {None}
  <2>1. \A k \in 1..Len(q) : P[k] \subseteq Tables
    BY <1>7
  <2>2. Execute(t, q[1]) \in P[1] \cup {None}
    BY <1>6, <1>7
  <2>3. \A k \in 2..Len(q) : \A u \in P[k - 1] : Execute(u, q[k]) \in P[k] \cup {None}
    BY <1>5, <1>7
  <2> QED
    BY <1>7, <2>1, <2>2, <2>3, RunFrom
<1>9. Run(t, q) \in Tables /\ Run(t, q).fields[name] = q[d].def
  BY <1>1, <1>7, <1>8 DEF Done
<1> QED
  BY <1>2, <1>3, <1>4, <1>9 DEF FieldsOf, name

\* An index that is defined stays.
LEMMA RunIndexes ==
  ASSUME NEW s \in Schemas, NEW q \in Seq(Definitions(s) \cup Removals(s)), OnlyFirst(q),
         NEW t \in Tables \cup {None}, Run(t, q) # None,
         NEW f, Contains(q, DefineIndex(f))
  PROVE  f \in Run(t, q).indexes
<1>1. Len(q) \in Nat /\ \A k \in 1..Len(q) : q[k] \in Definitions(s) \cup Removals(s)
  BY Statements
<1>2. PICK d \in 1..Len(q) : q[d] = DefineIndex(f)
  BY DEF Contains
<1>3. q[d].op = "index" /\ q[d].name = f
  BY <1>2 DEF DefineIndex
<1> DEFINE Done(u, k) == k \geq d => f \in u.indexes
           P == [k \in 1..Len(q) |-> {u \in Tables : Done(u, k)}]
<1>4. ASSUME NEW k \in 1..Len(q), NEW u \in Tables, k > 1 => Done(u, k - 1),
             Execute(u, q[k]) # None
      PROVE  Execute(u, q[k]) \in Tables /\ Done(Execute(u, q[k]), k)
  <2>1. /\ Execute(u, q[k]) \in Tables
        /\ u.indexes \subseteq Execute(u, q[k]).indexes
        /\ q[k].op = "index" => q[k].name \in Execute(u, q[k]).indexes
    BY <1>1, <1>4, Executed
  <2>2. CASE k < d
    BY <1>1, <2>1, <2>2
  <2>3. CASE k = d
    BY <1>3, <2>1, <2>3
  <2>4. CASE k > d
    BY <1>1, <1>4, <2>1, <2>4
  <2> QED
    BY <1>1, <2>2, <2>3, <2>4
<1>5. Execute(t, q[1]) \in {u \in Tables : Done(u, 1)} \cup {None}
  <2>0. 1 \in 1..Len(q)
    BY <1>1
  <2>1. CASE t \in Tables
    BY <1>4, <2>0, <2>1
  <2>2. CASE t = None
    <3> SUFFICES ASSUME Execute(None, q[1]) # None
                 PROVE  Execute(None, q[1]) \in Tables /\ Done(Execute(None, q[1]), 1)
      BY <2>2
    <3>1. q[1] = DefineTable /\ Execute(None, q[1]) \in Tables
      BY <1>1, <2>0, StepCreates
    <3>2. d # 1
      BY <1>3, <3>1 DEF DefineTable
    <3> QED
      BY <1>1, <3>1, <3>2
  <2> QED
    BY <2>1, <2>2
<1>6. /\ \A k \in 1..Len(q) : P[k] = {u \in Tables : Done(u, k)}
      /\ \A k \in 2..Len(q) : k \in 1..Len(q) /\ k - 1 \in 1..Len(q) /\ k > 1
      /\ Len(q) \in 1..Len(q) /\ 1 \in 1..Len(q) /\ q # << >>
  BY <1>1, Statements
<1> HIDE DEF P, Done
<1>7. Run(t, q) \in P[Len(q)] \cup {None}
  <2>1. \A k \in 1..Len(q) : P[k] \subseteq Tables
    BY <1>6
  <2>2. Execute(t, q[1]) \in P[1] \cup {None}
    BY <1>5, <1>6
  <2>3. \A k \in 2..Len(q) : \A u \in P[k - 1] : Execute(u, q[k]) \in P[k] \cup {None}
    BY <1>4, <1>6
  <2> QED
    BY <1>6, <2>1, <2>2, <2>3, RunFrom
<1> QED
  BY <1>1, <1>6, <1>7 DEF Done

\* A program that removes the foreign fields leaves none.
LEMMA RunRemoves ==
  ASSUME NEW s \in Schemas, NEW q \in Seq(Definitions(s) \cup Removals(s)), OnlyFirst(q),
         NEW t \in Tables \cup {None}, Run(t, q) # None,
         t # None => \A f \in Foreign(t, s) : Contains(q, RemoveField(f))
  PROVE  FieldsOf(Run(t, q)) \subseteq Keep(s)
<1>1. Len(q) \in Nat /\ \A k \in 1..Len(q) : q[k] \in Definitions(s) \cup Removals(s)
  BY Statements
<1> DEFINE Left(u, k) == \A f \in Foreign(u, s) : \E m \in 1..Len(q) : m > k /\ q[m] = RemoveField(f)
           P == [k \in 1..Len(q) |-> {u \in Tables : Left(u, k)}]
<1>2. ASSUME NEW k \in 1..Len(q), NEW u \in Tables, Left(u, k - 1), Execute(u, q[k]) # None
      PROVE  Execute(u, q[k]) \in Tables /\ Left(Execute(u, q[k]), k)
  <2> DEFINE v == Execute(u, q[k])
  <2>1. /\ v \in Tables
        /\ \A f \in Names :
             v.fields[f] = IF q[k].op = "field" /\ f = q[k].name THEN q[k].def
                           ELSE IF q[k].op = "remove" /\ f = q[k].name THEN None
                           ELSE u.fields[f]
    BY <1>1, <1>2, Executed
  <2>2. q[k].op = "field" => q[k].name \in Keep(s)
    BY <1>1, StatementSorts DEF Keep
  <2> HIDE DEF v
  <2>3. ASSUME NEW f \in Foreign(v, s)
        PROVE  \E m \in 1..Len(q) : m > k /\ q[m] = RemoveField(f)
    <3>1. f \in Names /\ f \notin Keep(s) /\ v.fields[f] # None
      BY DEF Foreign, FieldsOf, Keep
    <3>2. f \in Foreign(u, s) /\ ~ (q[k].op = "remove" /\ f = q[k].name)
      BY <2>1, <2>2, <3>1 DEF Foreign, FieldsOf, Keep
    <3>3. PICK m \in 1..Len(q) : m > k - 1 /\ q[m] = RemoveField(f)
      BY <1>2, <3>2
    <3>4. m # k
      BY <3>2, <3>3 DEF RemoveField
    <3> QED
      BY <1>1, <3>3, <3>4
  <2> QED
    BY <2>1, <2>3 DEF v
<1>3. CASE q = << >>
  <2>1. Run(t, q) = t /\ Len(q) = 0
    BY <1>3, RunNothing, Statements
  <2>2. Foreign(t, s) = {}
    BY <2>1 DEF Contains
  <2> QED
    BY <2>1, <2>2 DEF Foreign, Keep
<1>4. CASE q # << >>
  <2>0. 1 \in 1..Len(q)
    BY <1>1, <1>4, Statements
  <2>1. Execute(t, q[1]) \in {u \in Tables : Left(u, 1)} \cup {None}
    <3>1. CASE t \in Tables
      <4>1. Left(t, 1 - 1)
        <5>1. t # None
          BY <3>1, SchemaAssumption
        <5>2. \A m \in 1..Len(q) : m > 1 - 1
          BY <1>1
        <5> QED
          BY <5>1, <5>2 DEF Contains
      <4> HIDE DEF Left
      <4> QED
        BY <1>2, <2>0, <3>1, <4>1
    <3>2. CASE t = None
      <4> SUFFICES ASSUME Execute(None, q[1]) # None
                   PROVE  Execute(None, q[1]) \in Tables /\ Left(Execute(None, q[1]), 1)
        BY <3>2
      <4>1. Execute(None, q[1]) \in Tables /\ FieldsOf(Execute(None, q[1])) = {}
        BY <1>1, <2>0, StepCreates
      <4> QED
        BY <4>1 DEF Foreign
    <3> QED
      BY <3>1, <3>2
  <2>2. /\ \A k \in 1..Len(q) : P[k] = {u \in Tables : Left(u, k)}
        /\ \A k \in 2..Len(q) : k \in 1..Len(q) /\ k - 1 \in 1..Len(q)
        /\ Len(q) \in 1..Len(q)
    BY <1>1, <2>0
  <2> HIDE DEF P, Left
  <2>3. Run(t, q) \in P[Len(q)] \cup {None}
    <3>1. \A k \in 1..Len(q) : P[k] \subseteq Tables
      BY <2>2
    <3>2. Execute(t, q[1]) \in P[1] \cup {None}
      BY <2>0, <2>1, <2>2
    <3>3. \A k \in 2..Len(q) : \A u \in P[k - 1] : Execute(u, q[k]) \in P[k] \cup {None}
      BY <1>2, <2>2
    <3> QED
      BY <1>4, <3>1, <3>2, <3>3, RunFrom
  <2>4. Left(Run(t, q), Len(q))
    BY <2>2, <2>3
  <2>5. Foreign(Run(t, q), s) = {}
    BY <1>1, <2>4 DEF Left
  <2> QED
    BY <2>5 DEF Foreign, Keep
<1> QED
  BY <1>3, <1>4

\* A program from s that removes what is foreign and defines what is missing
\* brings the table to s.
LEMMA RunFits ==
  ASSUME NEW s \in Schemas, NEW q \in Seq(Definitions(s) \cup Removals(s)),
         Creates(q) \/ Alters(q), DefinesAll(q, s),
         NEW t \in Tables \cup {None}, Run(t, q) # None,
         t # None => \A f \in Foreign(t, s) : Contains(q, RemoveField(f)),
         \A i \in 1..Len(s) : NeedsIndex(s[i]) =>
           Contains(q, DefineIndex(s[i].name)) \/ (t # None /\ s[i].name \in t.indexes)
  PROVE  Fits(Run(t, q), s)
<1>1. OnlyFirst(q)
  BY FirstOnly
<1>2. FieldsOf(Run(t, q)) \subseteq FieldNames(s) \cup System
  BY <1>1, RunRemoves DEF Keep
<1>3. ASSUME NEW i \in 1..Len(s), LastOfName(s, i)
      PROVE  Has(Run(t, q), s[i])
  <2>1. DefinesLast(q, s[i])
    BY <1>3 DEF DefinesAll
  <2>2. /\ s[i].name \in FieldsOf(Run(t, q))
        /\ Run(t, q).fields[s[i].name].type = map_field_type_to_surreal(s[i])
        /\ s[i].type # "Table" => Run(t, q).fields[s[i].name].assert = s[i].reqd
    BY <1>1, <2>1, RunDefines
  <2>3. ASSUME NeedsIndex(s[i])
        PROVE  s[i].name \in Run(t, q).indexes
    <3>1. CASE Contains(q, DefineIndex(s[i].name))
      BY <1>1, <3>1, RunIndexes
    <3>2. CASE t # None /\ s[i].name \in t.indexes
      BY <1>1, <3>2, RunGrows
    <3> QED
      BY <2>3, <3>1, <3>2
  <2> QED
    BY <2>2, <2>3 DEF Has, NeedsIndex
<1> QED
  BY <1>2, <1>3 DEF Fits

\* t is SCHEMAFULL and has its system fields, those in X as the compiler
\* defines them.
Whole(t, X) ==
  /\ t.full
  /\ System \subseteq FieldsOf(t)
  /\ \A f \in X : t.fields[f] = [type |-> SystemTypes[f], assert |-> FALSE]

SystemDef(f) == [type |-> SystemTypes[f], assert |-> FALSE]

\* A statement of a schema that names no field of X.
LEMMA StepWhole ==
  ASSUME NEW s \in Schemas, NEW q \in Definitions(s) \cup Removals(s), NEW u \in Tables,
         Execute(u, q) # None, NEW f \in System, NEW X \in SUBSET System, X \cap FieldNames(s) = {}
  PROVE  LET v == Execute(u, q) IN
         /\ v \in Tables
         /\ f \in FieldsOf(u) => f \in FieldsOf(v)
         /\ f \in X /\ u.fields[f] = SystemDef(f) => v.fields[f] = SystemDef(f)
         /\ q.op = "field" /\ q.name = f => f \in FieldsOf(v) /\ (f \in X => v.fields[f] = SystemDef(f))
<1> DEFINE v == Execute(u, q)
<1>1. f \in Names
  BY SchemaType
<1>2. /\ v \in Tables
      /\ v.fields[f] = IF q.op = "field" /\ f = q.name THEN q.def
                       ELSE IF q.op = "remove" /\ f = q.name THEN None
                       ELSE u.fields[f]
  BY <1>1, Executed
<1>3. q.op = "remove" => q.name # f
  BY StatementSorts
<1>4. q.op = "field" => q.def # None
  BY StatementSorts, SchemaAssumption
<1>5. f \in X /\ q.op = "field" /\ q.name = f => q.def = SystemDef(f)
  BY StatementSorts DEF SystemDef
<1> HIDE DEF v
<1>6. /\ f \in FieldsOf(u) => f \in FieldsOf(v)
      /\ f \in X /\ u.fields[f] = SystemDef(f) => v.fields[f] = SystemDef(f)
      /\ q.op = "field" /\ q.name = f => f \in FieldsOf(v) /\ (f \in X => v.fields[f] = SystemDef(f))
  BY <1>1, <1>2, <1>3, <1>4, <1>5 DEF FieldsOf
<1> QED
  BY <1>2, <1>6 DEF v

\* The system fields are defined one after the other.
LEMMA SystemStatements ==
  /\ \A j \in 1..5 : SystemFields[j].op = "field" /\ SystemFields[j].name \in System
  /\ \A f \in System : \E j \in 1..5 : SystemFields[j].name = f
<1> DEFINE sys(f) == DefineField(f, SystemTypes[f], FALSE)
<1>1. SystemFields = << sys("creation"), sys("modified"), sys("modified_by"),
                        sys("owner"), sys("docstatus") >>
  BY DEF SystemFields
<1>2. \A f \in System : sys(f).op = "field" /\ sys(f).name = f
  BY DEF DefineField
<1> HIDE DEF sys
<1>3. /\ SystemFields[1] = sys("creation") /\ SystemFields[2] = sys("modified")
      /\ SystemFields[3] = sys("modified_by") /\ SystemFields[4] = sys("owner")
      /\ SystemFields[5] = sys("docstatus")
  BY <1>1
<1>4. /\ SystemFields[1].op = "field" /\ SystemFields[1].name = "creation"
      /\ SystemFields[2].op = "field" /\ SystemFields[2].name = "modified"
      /\ SystemFields[3].op = "field" /\ SystemFields[3].name = "modified_by"
      /\ SystemFields[4].op = "field" /\ SystemFields[4].name = "owner"
      /\ SystemFields[5].op = "field" /\ SystemFields[5].name = "docstatus"
  BY <1>2, <1>3, SystemIs
<1>5. \A j \in 1..5 : j = 1 \/ j = 2 \/ j = 3 \/ j = 4 \/ j = 5
  OBVIOUS
<1>6. \A j \in 1..5 : SystemFields[j].op = "field" /\ SystemFields[j].name \in System
  BY <1>4, <1>5, SystemIs
<1>7. 1 \in 1..5 /\ 2 \in 1..5 /\ 3 \in 1..5 /\ 4 \in 1..5 /\ 5 \in 1..5
  OBVIOUS
<1>8. \A f \in System : \E j \in 1..5 : SystemFields[j].name = f
  BY <1>4, <1>7, SystemIs
<1> QED
  BY <1>6, <1>8

\* The transaction of a sync_schema keeps a table whole, or makes a whole one.
LEMMA RunWhole ==
  ASSUME NEW s \in Schemas, NEW q \in Seq(Definitions(s) \cup Removals(s)),
         Creates(q) \/ Alters(q),
         NEW X \in SUBSET System, X \cap FieldNames(s) = {},
         NEW t \in Tables \cup {None}, t # None => Whole(t, X), Run(t, q) # None
  PROVE  Whole(Run(t, q), X)
<1>1. Len(q) \in Nat /\ \A k \in 1..Len(q) : q[k] \in Definitions(s) \cup Removals(s)
  BY Statements
<1>2. OnlyFirst(q)
  BY FirstOnly
<1>3. CASE q = << >>
  <2>1. Run(t, q) = t
    BY <1>3, RunNothing, Statements
  <2> QED
    BY <2>1
\* Statements that alter a table fail without one.
<1>4. ASSUME q # << >>, t = None
      PROVE  Creates(q)
  <2> SUFFICES ASSUME Alters(q) PROVE FALSE
    OBVIOUS
  <2>1. 1 \in 1..Len(q)
    BY <1>1, <1>4, Statements
  <2>2. Execute(t, q[1]) = None
    BY <1>1, <1>4, <2>1, ExecuteOnNone DEF Alters
  <2> DEFINE P == [k \in 1..Len(q) |-> {}]
  <2>3. \A k \in 1..Len(q) : P[k] = {}
    OBVIOUS
  <2>4. \A k \in 2..Len(q) : k - 1 \in 1..Len(q)
    BY <1>1
  <2> HIDE DEF P
  <2>5. Run(t, q) \in P[Len(q)] \cup {None}
    <3>1. \A k \in 1..Len(q) : P[k] \subseteq Tables
      BY <2>3
    <3>2. Execute(t, q[1]) \in P[1] \cup {None}
      BY <2>2
    <3>3. \A k \in 2..Len(q) : \A u \in P[k - 1] : Execute(u, q[k]) \in P[k] \cup {None}
      BY <2>3, <2>4
    <3> QED
      BY <1>2, <1>4, <3>1, <3>2, <3>3, RunFrom
  <2> QED
    BY <1>1, <2>1, <2>3, <2>5
<1>5. CASE q # << >>
  <2>0. 1 \in 1..Len(q)
    BY <1>1, <1>5, Statements
  <2> DEFINE Part(u, k) ==
               /\ u.full
               /\ \A j \in 1..5 : t # None \/ j + 1 \leq k =>
                    LET f == SystemFields[j].name IN
                    f \in FieldsOf(u) /\ (f \in X => u.fields[f] = SystemDef(f))
             P == [k \in 1..Len(q) |-> {u \in Tables : Part(u, k)}]
  <2>1. ASSUME NEW k \in 1..Len(q), NEW u \in Tables, Part(u, k - 1), Execute(u, q[k]) # None
        PROVE  Execute(u, q[k]) \in Tables /\ Part(Execute(u, q[k]), k)
    <3> DEFINE v == Execute(u, q[k])
    <3>1. v \in Tables /\ v.full
      BY <1>1, <2>1, StepGrows
    <3>2. ASSUME NEW j \in 1..5, t # None \/ j + 1 \leq k
          PROVE  /\ SystemFields[j].name \in FieldsOf(v)
                 /\ SystemFields[j].name \in X =>
                      v.fields[SystemFields[j].name] = SystemDef(SystemFields[j].name)
      <4> DEFINE f == SystemFields[j].name
      <4>1. f \in System /\ SystemFields[j].op = "field"
        BY SystemStatements
      <4>2. /\ f \in FieldsOf(u) => f \in FieldsOf(v)
            /\ f \in X /\ u.fields[f] = SystemDef(f) => v.fields[f] = SystemDef(f)
            /\ q[k].op = "field" /\ q[k].name = f =>
                 f \in FieldsOf(v) /\ (f \in X => v.fields[f] = SystemDef(f))
        BY <1>1, <2>1, <4>1, StepWhole
      <4>3. CASE t # None \/ j + 1 \leq k - 1
        BY <2>1, <4>2, <4>3
      <4>4. CASE t = None /\ j + 1 = k
        <5>1. Creates(q)
          BY <1>4, <4>4
        <5>2. q[k] = SystemFields[j]
          BY <4>4, <5>1 DEF Creates
        <5> QED
          BY <4>1, <4>2, <5>2
      <4> QED
        BY <3>2, <4>3, <4>4
    <3> QED
      BY <3>1, <3>2
  <2>2. Execute(t, q[1]) \in {u \in Tables : Part(u, 1)} \cup {None}
    <3>1. CASE t \in Tables
      <4>1. t # None
        BY <3>1, SchemaAssumption
      <4>2. Part(t, 1 - 1)
        BY <4>1, SystemStatements DEF Whole, SystemDef
      <4> HIDE DEF Part
      <4> QED
        BY <2>0, <2>1, <3>1, <4>2
    <3>2. CASE t = None
      <4> SUFFICES ASSUME Execute(None, q[1]) # None
                   PROVE  Execute(None, q[1]) \in Tables /\ Part(Execute(None, q[1]), 1)
        BY <3>2
      <4>1. Execute(None, q[1]) \in Tables /\ Execute(None, q[1]).full
        BY <1>1, <2>0, StepCreates
      <4>2. \A j \in 1..5 : ~ (t # None \/ j + 1 \leq 1)
        BY <3>2
      <4> QED
        BY <4>1, <4>2
    <3> QED
      BY <3>1, <3>2
  <2>3. /\ \A k \in 1..Len(q) : P[k] = {u \in Tables : Part(u, k)}
        /\ \A k \in 2..Len(q) : k \in 1..Len(q) /\ k - 1 \in 1..Len(q)
        /\ Len(q) \in 1..Len(q)
    BY <1>1, <2>0
  <2> HIDE DEF P, Part
  <2>4. Run(t, q) \in P[Len(q)] \cup {None}
    <3>1. \A k \in 1..Len(q) : P[k] \subseteq Tables
      BY <2>3
    <3>2. Execute(t, q[1]) \in P[1] \cup {None}
      BY <2>0, <2>2, <2>3
    <3>3. \A k \in 2..Len(q) : \A u \in P[k - 1] : Execute(u, q[k]) \in P[k] \cup {None}
      BY <2>1, <2>3
    <3> QED
      BY <1>2, <1>5, <3>1, <3>2, <3>3, RunFrom
  <2> DEFINE v == Run(t, q)
  <2>5. v \in Tables /\ Part(v, Len(q))
    BY <2>3, <2>4
  <2>6. t # None \/ Len(q) \geq 6
    BY <1>5, <1>4 DEF Creates
  <2> HIDE DEF v
  <2>7. v.full
    BY <2>5 DEF Part
  <2>8. \A j \in 1..5 : LET f == SystemFields[j].name IN
          f \in FieldsOf(v) /\ (f \in X => v.fields[f] = SystemDef(f))
    BY <1>1, <2>5, <2>6 DEF Part
  <2>9. \A f \in System : f \in FieldsOf(v) /\ (f \in X => v.fields[f] = SystemDef(f))
    BY <2>8, SystemStatements
  <2> QED
    BY <2>7, <2>9 DEF Whole, SystemDef, v
<1> QED
  BY <1>3, <1>5

-----------------------------------------------------------------------------
(* Invariance *)

\* What a call with schema s may make of t.
Grown(t, u, s) ==
  /\ u \in Tables \cup {None}
  /\ t # None => u # None
  /\ u # None =>
       /\ FieldsOf(u) \subseteq BaseOf(t) \cup Keep(s)
       /\ t # None => t.indexes \subseteq u.indexes
       /\ (t # None => IsFiniteSet(FieldsOf(t))) => IsFiniteSet(FieldsOf(u))

\* Another call with the same schema leaves a program ready.
LEMMA ReadyStays ==
  ASSUME NEW s \in Schemas, NEW q, NEW t, NEW u, Ready(t, q, s), Grown(t, u, s)
  PROVE  Ready(u, q, s)
<1>1. u = None => Creates(q)
  BY DEF Ready, Grown
<1>2. ASSUME u # None, NEW f \in Foreign(u, s)
      PROVE  Contains(q, RemoveField(f))
  <2>1. f \in BaseOf(t) /\ f \notin FieldNames(s) \cup System
    BY <1>2 DEF Grown, Foreign, Keep
  <2>2. t # None /\ f \in Foreign(t, s)
    BY <2>1 DEF BaseOf, Foreign
  <2> QED
    BY <2>2 DEF Ready
<1>3. \A i \in 1..Len(s) : NeedsIndex(s[i]) =>
        \/ Contains(q, DefineIndex(s[i].name))
        \/ u # None /\ s[i].name \in u.indexes
  BY DEF Ready, Grown
<1> QED
  BY <1>1, <1>2, <1>3 DEF Ready

\* A transaction changes the table within its schema.
LEMMA TransactionGrows ==
  ASSUME SchemaInv, NEW p \in Managers, Transaction(p)
  PROVE  Grown(table, table', schema[p])
<1> DEFINE q == todo[p]
           s == schema[p]
<1>1. /\ p \in Syncs /\ s \in Schemas /\ table \in Tables \cup {None}
      /\ q \in Seq(Definitions(s) \cup Removals(s))
      /\ Creates(q) \/ Alters(q)
  BY DEF SchemaInv, TypeOK, Programs, Transaction, Syncs
<1>2. OnlyFirst(q)
  BY <1>1, FirstOnly
<1>3. CASE table' = table
  BY <1>1, <1>3 DEF Grown, BaseOf
<1>4. CASE table' # table
  <2>1. table' = Run(table, q)
    BY <1>4 DEF Transaction, Perhaps
  <2>2. table' # None
    <3>1. q = << >> => Run(table, q) = table
      BY <1>1, RunNothing, Statements
    <3> QED
      BY <1>4, <2>1, <3>1 DEF Transaction, Perhaps
  <2> HIDE DEF q, s
  <2>3. /\ Run(table, q) \in Tables
        /\ FieldsOf(Run(table, q)) \subseteq BaseOf(table) \cup Keep(s)
        /\ table # None => table.indexes \subseteq Run(table, q).indexes
        /\ (table # None => IsFiniteSet(FieldsOf(table))) => IsFiniteSet(FieldsOf(Run(table, q)))
    BY <1>1, <1>2, <2>1, <2>2, RunGrows
  <2> QED
    BY <2>1, <2>2, <2>3 DEF Grown, s
<1> QED
  BY <1>3, <1>4

\* A single statement of synchronize_schema does, too, answered or not.
LEMMA StatementGrows ==
  ASSUME SchemaInv, NEW p \in Compilers, Statement(p) \/ StatementFails(p)
  PROVE  Grown(table, table', schema[p])
<1> DEFINE s == schema[p]
           q == Head(todo[p])
<1>1. /\ p \in Syncs /\ s \in Schemas /\ table \in Tables \cup {None}
      /\ todo[p] \in Seq(Definitions(s)) /\ todo[p] # << >>
  BY DEF SchemaInv, TypeOK, Programs, Statement, StatementFails, Syncs
<1>2. q \in Definitions(s)
  BY <1>1
<1>3. table' = Execute(table, q) \/ table' = table
  BY DEF Statement, StatementFails, Perhaps
<1> HIDE DEF q, s
<1>4. CASE table \in Tables /\ table' = Execute(table, q)
  <2>1. table # None
    BY <1>4, SchemaAssumption
  <2>2. Execute(table, q) # None
    <3>1. q.op # "remove"
      BY <1>1, <1>2, StatementSorts
    <3> QED
      BY <1>1, <1>2, <1>4, <3>1, Executed, SchemaAssumption
  <2>3. /\ Execute(table, q) \in Tables
        /\ FieldsOf(Execute(table, q)) \subseteq FieldsOf(table) \cup Keep(s)
        /\ table.indexes \subseteq Execute(table, q).indexes
        /\ IsFiniteSet(FieldsOf(table)) => IsFiniteSet(FieldsOf(Execute(table, q)))
    BY <1>1, <1>2, <1>4, <2>2, StepGrows
  <2> QED
    BY <1>4, <2>1, <2>2, <2>3 DEF Grown, BaseOf, s
<1>5. CASE table = None /\ table' = Execute(table, q)
  <2>1. Execute(None, q) # None =>
          Execute(None, q) \in Tables /\ FieldsOf(Execute(None, q)) = {}
    BY <1>1, <1>2, StepCreates
  <2> QED
    BY <1>5, <2>1, FS_EmptySet DEF Grown, s
<1>6. CASE table' = table
  BY <1>1, <1>6 DEF Grown, BaseOf
<1> QED
  BY <1>1, <1>3, <1>4, <1>5, <1>6

\* No call has started: nothing is read, nothing is to be executed.
LEMMA InitSchemaInv == Init => SchemaInv
  BY DEF Init, SchemaInv, TypeOK, FiniteTable, Programs, FreshPrograms, Syncs

\* A step that changes the table as call p may, and is outdated by Outdate,
\* keeps what is fresh of the other calls ready.
LEMMA OthersStayReady ==
  ASSUME SchemaInv, NEW p \in Syncs, Grown(table, table', schema[p]), Outdate(p),
         schema' = schema,
         NEW r \in Managers, pc[r] = "execute", todo'[r] = todo[r], fresh'[r]
  PROVE  Ready(table', todo'[r], schema'[r])
<1>1. r \in Syncs /\ schema[r] \in Schemas
  BY DEF SchemaInv, TypeOK, Syncs
<1>2. fresh[r] /\ (table' = table \/ schema[r] = schema[p])
  BY <1>1 DEF Outdate
<1>3. Ready(table, todo[r], schema[r])
  BY <1>2 DEF SchemaInv, FreshPrograms
<1>4. CASE table' = table
  BY <1>3, <1>4
<1>5. CASE schema[r] = schema[p]
  <2>1. Grown(table, table', schema[r])
    BY <1>5
  <2>2. Ready(table', todo[r], schema[r])
    BY <1>1, <1>3, <2>1, ReadyStays
  <2> QED
    BY <2>2
<1> QED
  BY <1>2, <1>4, <1>5

\* A table keeps a finite number of fields.
LEMMA FiniteStays ==
  ASSUME SchemaInv, NEW s, Grown(table, table', s)
  PROVE  FiniteTable'
  BY DEF SchemaInv, FiniteTable, Grown

\* Every step of every call preserves the invariant.
LEMMA NextSchemaInv == SchemaInv /\ [Next]_vars => SchemaInv'
<1> SUFFICES ASSUME SchemaInv, [Next]_vars
             PROVE  SchemaInv'
  OBVIOUS
<1>1. /\ table \in Tables \cup {None}
      /\ pc \in [Syncs -> {"start", "execute", "ok", "err"}]
      /\ schema \in [Syncs -> Schemas]
      /\ fresh \in [Syncs -> BOOLEAN]
      /\ todo = [p \in Syncs |-> todo[p]]
  BY DEF SchemaInv, TypeOK, Programs
<1>2. Managers \subseteq Syncs /\ Compilers \subseteq Syncs /\ Managers \cap Compilers = {}
  BY SchemaAssumption DEF Syncs
<1>3. ASSUME NEW p \in Managers, ReadInfo(p)
      PROVE  SchemaInv'
  <2> DEFINE s == schema[p]
  <2>0. p \in Syncs /\ s \in Schemas
    BY <1>1, <1>2
  <2>1. PICK info \in {table, None} :
          /\ todo' = [todo EXCEPT ![p] =
               IF info = None THEN compile_schema_to_surrealql(s) ELSE alter_table(s, info)]
          /\ fresh' = [fresh EXCEPT ![p] = info = table]
    BY <1>3 DEF ReadInfo
  <2>2. pc' = [pc EXCEPT ![p] = "execute"] /\ table' = table /\ schema' = schema
    BY <1>3 DEF ReadInfo
  <2> DEFINE q == IF info = None THEN compile_schema_to_surrealql(s) ELSE alter_table(s, info)
  <2>3. /\ q \in Seq(Definitions(s) \cup Removals(s))
        /\ Creates(q) \/ Alters(q)
        /\ DefinesAll(q, s)
        /\ info = table => Ready(table, q, s)
    <3>1. CASE info = None
      <4>1. /\ q \in Seq(Definitions(s)) /\ Creates(q) /\ DefinesAll(q, s)
            /\ \A i \in 1..Len(s) : NeedsIndex(s[i]) => Contains(q, DefineIndex(s[i].name))
        BY <2>0, <3>1, CompiledProgram
      <4> HIDE DEF q
      <4>2. q \in Seq(Definitions(s) \cup Removals(s))
        BY <4>1
      <4> QED
        BY <3>1, <4>1, <4>2 DEF Ready
    <3>2. CASE info # None
      <4>1. info = table /\ IsFiniteSet(FieldsOf(info))
        BY <2>1, <3>2 DEF SchemaInv, FiniteTable
      <4>2. /\ q \in Seq(Definitions(s) \cup Removals(s)) /\ Alters(q) /\ DefinesAll(q, s)
            /\ \A i \in 1..Len(s) : NeedsIndex(s[i]) =>
                 Contains(q, DefineIndex(s[i].name)) \/ s[i].name \in info.indexes
            /\ \A f \in Foreign(info, s) : Contains(q, RemoveField(f))
        BY <2>0, <3>2, <4>1, AlteredProgram
      <4> HIDE DEF q
      <4> QED
        BY <3>2, <4>1, <4>2 DEF Ready
    <3> QED
      BY <3>1, <3>2
  <2> HIDE DEF q
  <2>4. /\ \A r \in Syncs : todo'[r] = IF r = p THEN q ELSE todo[r]
        /\ todo' = [r \in Syncs |-> todo'[r]]
        /\ \A r \in Syncs : fresh'[r] = IF r = p THEN info = table ELSE fresh[r]
        /\ \A r \in Syncs : pc'[r] = IF r = p THEN "execute" ELSE pc[r]
    BY <1>1, <2>0, <2>1, <2>2 DEF q
  <2>5. TypeOK'
    BY <1>1, <2>0, <2>1, <2>2 DEF TypeOK
  <2>6. FiniteTable'
    BY <2>2 DEF SchemaInv, FiniteTable
  <2>7. Programs'
    <3>1. Programs
      BY DEF SchemaInv
    <3>2. todo' = [r \in Syncs |-> todo'[r]]
      BY <2>4
    <3>3. ASSUME NEW r \in Syncs
          PROVE  /\ todo'[r] \in Seq(Definitions(schema'[r]) \cup Removals(schema'[r]))
                 /\ r \in Compilers => todo'[r] \in Seq(Definitions(schema'[r]))
                 /\ r \in Managers /\ pc'[r] = "execute" =>
                      /\ Creates(todo'[r]) \/ Alters(todo'[r])
                      /\ DefinesAll(todo'[r], schema'[r])
      <4>1. CASE r = p
        BY <1>2, <2>0, <2>2, <2>3, <2>4, <4>1
      <4>2. CASE r # p
        BY <2>2, <2>4, <3>1, <4>2 DEF Programs
      <4> QED
        BY <4>1, <4>2
    <3> QED
      BY <3>2, <3>3 DEF Programs, Syncs
  <2>8. FreshPrograms'
    <3>1. FreshPrograms
      BY DEF SchemaInv
    <3>2. ASSUME NEW r \in Managers, pc'[r] = "execute", fresh'[r]
          PROVE  Ready(table', todo'[r], schema'[r])
      <4>1. CASE r = p
        BY <1>2, <2>0, <2>2, <2>3, <2>4, <3>2, <4>1
      <4>2. CASE r # p
        BY <2>2, <2>4, <3>1, <3>2, <4>2 DEF FreshPrograms, Syncs
      <4> QED
        BY <4>1, <4>2
    <3> QED
      BY <3>2 DEF FreshPrograms
  <2> QED
    BY <2>5, <2>6, <2>7, <2>8 DEF SchemaInv
<1>4. ASSUME NEW p \in Managers, Transaction(p)
      PROVE  SchemaInv'
  <2>1. Grown(table, table', schema[p])
    BY <1>4, TransactionGrows
  <2>2. /\ pc' = [pc EXCEPT ![p] = "ok"] \/ pc' = [pc EXCEPT ![p] = "err"]
        /\ Outdate(p) /\ schema' = schema /\ todo' = todo
    BY <1>4 DEF Transaction
  <2>3. \A r \in Syncs : pc'[r] = "execute" => pc[r] = "execute" /\ r # p
    BY <1>1, <1>2, <2>2
  <2>4. TypeOK'
    <3>1. fresh' \in [Syncs -> BOOLEAN]
      BY <1>1, <2>2 DEF Outdate
    <3>2. table' \in Tables \cup {None}
      BY <2>1 DEF Grown
    <3> QED
      BY <1>1, <1>2, <2>2, <3>1, <3>2 DEF TypeOK
  <2>5. FiniteTable'
    BY <2>1, FiniteStays
  <2>6. Programs'
    BY <1>2, <2>2, <2>3 DEF SchemaInv, Programs
  <2>7. FreshPrograms'
    BY <1>2, <2>1, <2>2, <2>3, OthersStayReady DEF FreshPrograms
  <2> QED
    BY <2>4, <2>5, <2>6, <2>7 DEF SchemaInv
<1>5. ASSUME NEW p \in Compilers, Compile(p)
      PROVE  SchemaInv'
  <2> DEFINE q == compile_schema_to_surrealql(schema[p])
  <2>1. /\ todo' = [todo EXCEPT ![p] = q]
        /\ pc' = [pc EXCEPT ![p] = "execute"]
        /\ table' = table /\ schema' = schema /\ fresh' = fresh
    BY <1>5 DEF Compile
  <2>2. q \in Seq(Definitions(schema[p]))
    BY <1>1, <1>2, CompiledProgram
  <2> HIDE DEF q
  <2>3. q \in Seq(Definitions(schema[p]) \cup Removals(schema[p]))
    BY <2>2
  <2>4. /\ \A r \in Syncs : todo'[r] = IF r = p THEN q ELSE todo[r]
        /\ todo' = [r \in Syncs |-> todo'[r]]
        /\ \A r \in Managers : r \in Syncs /\ r # p
        /\ \A r \in Syncs : r # p => pc'[r] = pc[r]
    BY <1>1, <1>2, <2>1
  <2>5. TypeOK' /\ FiniteTable'
    BY <1>1, <1>2, <2>1 DEF SchemaInv, TypeOK, FiniteTable
  <2>6. Programs'
    BY <1>2, <2>1, <2>2, <2>3, <2>4 DEF SchemaInv, Programs
  <2>7. FreshPrograms'
    BY <2>1, <2>4 DEF SchemaInv, FreshPrograms
  <2> QED
    BY <2>5, <2>6, <2>7 DEF SchemaInv
<1>6. ASSUME NEW p \in Compilers, Statement(p)
      PROVE  SchemaInv'
  <2>1. Grown(table, table', schema[p])
    BY <1>6, StatementGrows
  <2>2. /\ todo[p] # << >>
        /\ todo' = [todo EXCEPT ![p] = Tail(todo[p])]
        /\ pc' = [pc EXCEPT ![p] = IF Tail(todo[p]) = << >> THEN "ok" ELSE "execute"]
        /\ Outdate(p) /\ schema' = schema
    BY <1>6 DEF Statement
  <2>3. /\ Tail(todo[p]) \in Seq(Definitions(schema[p]))
        /\ Tail(todo[p]) \in Seq(Definitions(schema[p]) \cup Removals(schema[p]))
    <3>1. todo[p] \in Seq(Definitions(schema[p]))
      BY DEF SchemaInv, Programs
    <3>2. todo[p] \in Seq(Definitions(schema[p]) \cup Removals(schema[p]))
      BY <1>2 DEF SchemaInv, Programs
    <3>3. \A S : \A q \in Seq(S) : q # << >> => Tail(q) \in Seq(S)
      OBVIOUS
    <3> QED
      BY <2>2, <3>1, <3>2, <3>3
  <2>4. /\ \A r \in Syncs : todo'[r] = IF r = p THEN Tail(todo[p]) ELSE todo[r]
        /\ todo' = [r \in Syncs |-> todo'[r]]
        /\ \A r \in Managers : r \in Syncs /\ r # p
        /\ \A r \in Syncs : r # p => pc'[r] = pc[r]
    BY <1>1, <1>2, <2>2
  <2>5. TypeOK'
    <3>1. fresh' \in [Syncs -> BOOLEAN]
      BY <1>1, <2>2 DEF Outdate
    <3>2. table' \in Tables \cup {None}
      BY <2>1 DEF Grown
    <3> QED
      BY <1>1, <1>2, <2>2, <3>1, <3>2 DEF TypeOK
  <2>6. FiniteTable'
    BY <2>1, FiniteStays
  <2>7. Programs'
    BY <1>2, <2>2, <2>3, <2>4 DEF SchemaInv, Programs
  <2>8. FreshPrograms'
    BY <1>2, <2>1, <2>2, <2>4, OthersStayReady DEF FreshPrograms
  <2> QED
    BY <2>5, <2>6, <2>7, <2>8 DEF SchemaInv
<1>7. ASSUME NEW p \in Compilers, StatementFails(p)
      PROVE  SchemaInv'
  <2>1. Grown(table, table', schema[p])
    BY <1>7, StatementGrows
  <2>2. /\ pc' = [pc EXCEPT ![p] = "err"]
        /\ Outdate(p) /\ schema' = schema /\ todo' = todo
    BY <1>7 DEF StatementFails
  <2>3. \A r \in Syncs : pc'[r] = "execute" => pc[r] = "execute" /\ r # p
    BY <1>1, <1>2, <2>2
  <2>4. TypeOK'
    <3>1. fresh' \in [Syncs -> BOOLEAN]
      BY <1>1, <2>2 DEF Outdate
    <3>2. table' \in Tables \cup {None}
      BY <2>1 DEF Grown
    <3> QED
      BY <1>1, <1>2, <2>2, <3>1, <3>2 DEF TypeOK
  <2>5. FiniteTable'
    BY <2>1, FiniteStays
  <2>6. Programs'
    BY <1>2, <2>2, <2>3 DEF SchemaInv, Programs
  <2>7. FreshPrograms'
    BY <1>2, <2>1, <2>2, <2>3, OthersStayReady DEF FreshPrograms
  <2> QED
    BY <2>4, <2>5, <2>6, <2>7 DEF SchemaInv
<1>8. CASE UNCHANGED vars
  BY <1>8 DEF vars, SchemaInv, TypeOK, FiniteTable, Programs, FreshPrograms
<1> QED
  BY <1>3, <1>4, <1>5, <1>6, <1>7, <1>8 DEF Next

\* The invariant holds.
LEMMA SchemaInvariance == Spec => []SchemaInv
  BY InitSchemaInv, NextSchemaInv, PTL DEF Spec

(***************************************************************************)
(* TypeOK holds of every reachable state: no statement that create_table,  *)
(* alter_table or synchronize_schema executes defines a field with a type  *)
(* SurrealDB does not know, or a field or index no schema has.             *)
(***************************************************************************)
THEOREM TypeCorrect == Spec => []TypeOK
  BY SchemaInvariance, PTL DEF SchemaInv

(***************************************************************************)
(* A sync_schema that succeeds, and whose INFO FOR TABLE was outdated by   *)
(* no call with another schema, leaves the table as its schema says, also  *)
(* next to calls with the same schema, whole or half done (alter_table,    *)
(* create_table).                                                          *)
(***************************************************************************)
THEOREM SyncFits == Spec => SyncedFits
<1>1. SchemaInv /\ [Next]_vars =>
        [\A p \in Managers :
           pc[p] = "execute" /\ pc'[p] = "ok" /\ fresh[p] => Fits(table', schema[p])]_vars
  <2> SUFFICES ASSUME SchemaInv, Next, NEW p \in Managers,
                      pc[p] = "execute", pc'[p] = "ok", fresh[p]
               PROVE  Fits(table', schema[p])
    OBVIOUS
  <2>1. /\ p \in Syncs /\ p \notin Compilers /\ schema[p] \in Schemas
        /\ table \in Tables \cup {None} /\ DOMAIN pc = Syncs
    BY SchemaAssumption DEF SchemaInv, TypeOK, Syncs
  <2>2. Transaction(p)
    <3>1. \A r \in Managers : ReadInfo(r) => pc'[p] # "ok"
      BY <2>1 DEF ReadInfo
    <3>2. \A r \in Managers : Transaction(r) => r = p
      BY <2>1 DEF Transaction
    <3>3. \A r \in Compilers : Compile(r) \/ Statement(r) \/ StatementFails(r) => pc'[p] = pc[p]
      BY <2>1 DEF Compile, Statement, StatementFails
    <3> QED
      BY <3>1, <3>2, <3>3 DEF Next
  <2> DEFINE q == todo[p]
             s == schema[p]
  <2>3. /\ q \in Seq(Definitions(s) \cup Removals(s))
        /\ Creates(q) \/ Alters(q)
        /\ DefinesAll(q, s)
        /\ Ready(table, q, s)
    BY <2>1 DEF SchemaInv, Programs, FreshPrograms
  <2>4. table' = Run(table, q) /\ (q = << >> \/ Run(table, q) # None)
    BY <2>1, <2>2 DEF Transaction
  <2>5. Run(table, q) # None
    <3>1. q = << >> => Run(table, q) = table /\ table # None
      BY <2>3, RunNothing, Statements DEF Ready, Creates
    <3> QED
      BY <2>4, <3>1
  <2> HIDE DEF q, s
  <2>6. Fits(Run(table, q), s)
    <3>1. s \in Schemas
      BY <2>1 DEF s
    <3>2. /\ table # None => \A f \in Foreign(table, s) : Contains(q, RemoveField(f))
          /\ \A i \in 1..Len(s) : NeedsIndex(s[i]) =>
               Contains(q, DefineIndex(s[i].name)) \/ (table # None /\ s[i].name \in table.indexes)
      BY <2>3 DEF Ready
    <3> QED
      BY <2>1, <2>3, <2>5, <3>1, <3>2, RunFits
  <2> QED
    BY <2>4, <2>6 DEF s
<1> QED
  BY <1>1, SchemaInvariance, PTL DEF Spec, SyncedFits

-----------------------------------------------------------------------------
(* System fields *)

\* The system fields that no call's schema has a field of its own for.
OwnSystem == {f \in System : \A p \in Syncs : f \notin FieldNames(schema[p])}

WholeInv ==
  table # None /\ (\A p \in Compilers : pc[p] = "start") => Whole(table, OwnSystem)

\* No transaction leaves out or removes a system field.
LEMMA NextWholeInv == SchemaInv /\ WholeInv /\ [Next]_vars => WholeInv'
<1> SUFFICES ASSUME SchemaInv, WholeInv, [Next]_vars,
                    table' # None, \A p \in Compilers : pc'[p] = "start"
             PROVE  Whole(table', OwnSystem')
  BY DEF WholeInv
<1>1. /\ table \in Tables \cup {None} /\ pc \in [Syncs -> {"start", "execute", "ok", "err"}]
      /\ schema \in [Syncs -> Schemas]
  BY DEF SchemaInv, TypeOK
<1>2. Managers \subseteq Syncs /\ Compilers \subseteq Syncs /\ Managers \cap Compilers = {}
  BY SchemaAssumption DEF Syncs
<1>3. ASSUME NEW p \in Managers, Transaction(p)
      PROVE  Whole(table', OwnSystem')
  <2> DEFINE q == todo[p]
             s == schema[p]
  <2>1. /\ s \in Schemas /\ q \in Seq(Definitions(s) \cup Removals(s))
        /\ Creates(q) \/ Alters(q)
    BY <1>1, <1>2, <1>3 DEF SchemaInv, Programs, Transaction
  <2>2. \A r \in Compilers : pc[r] = "start"
    BY <1>1, <1>2, <1>3 DEF Transaction
  <2>3. table # None => Whole(table, OwnSystem)
    BY <2>2 DEF WholeInv
  <2>4. OwnSystem' = OwnSystem
    BY <1>3 DEF Transaction, OwnSystem
  <2>5. OwnSystem \in SUBSET System /\ OwnSystem \cap FieldNames(s) = {}
    BY <1>2 DEF OwnSystem
  <2>6. CASE table' = table
    BY <2>3, <2>4, <2>6
  <2>7. CASE table' = Run(table, q)
    <3> HIDE DEF q, s
    <3>1. Whole(Run(table, q), OwnSystem)
      BY <1>1, <2>1, <2>3, <2>5, <2>7, RunWhole
    <3> QED
      BY <2>4, <2>7, <3>1
  <2> QED
    BY <1>3, <2>6, <2>7 DEF Transaction, Perhaps
<1>4. ASSUME NEW p \in Managers, ReadInfo(p)
      PROVE  Whole(table', OwnSystem')
  <2>1. table' = table /\ schema' = schema /\ \A r \in Compilers : pc'[r] = pc[r]
    BY <1>1, <1>2, <1>4 DEF ReadInfo
  <2> QED
    BY <2>1 DEF WholeInv, OwnSystem
<1>5. ASSUME NEW p \in Compilers, Compile(p) \/ Statement(p) \/ StatementFails(p)
      PROVE  FALSE
  <2>1. pc'[p] # "start"
    BY <1>1, <1>2, <1>5 DEF Compile, Statement, StatementFails
  <2> QED
    BY <2>1
<1>6. CASE UNCHANGED vars
  BY <1>6 DEF vars, WholeInv, OwnSystem
<1> QED
  BY <1>3, <1>4, <1>5, <1>6 DEF Next

(***************************************************************************)
(* Concurrent calls of sync_schema never show a table half defined or      *)
(* without its system fields, whichever of their transactions fail, until  *)
(* a synchronize_schema starts to execute its statements one by one.       *)
(***************************************************************************)
THEOREM SystemFieldsAreKept == Spec => []SystemFieldsKept
<1>1. Init => WholeInv
  BY DEF Init, WholeInv
<1>2. WholeInv => SystemFieldsKept
  BY DEF WholeInv, SystemFieldsKept, Whole, OwnSystem
<1> QED
  BY <1>1, <1>2, NextWholeInv, SchemaInvariance, PTL DEF Spec

=============================================================================
