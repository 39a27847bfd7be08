---------------------------- MODULE ScriptValues ----------------------------
(***************************************************************************)
(* json_to_dynamic and dynamic_to_json of src/document/scripting.rs.  A    *)
(* value is <<type, v>>; the integers of JSON are those of i64 and u64,    *)
(* those of Rhai those of i64 only.  An array is <<"array", s>> with a     *)
(* sequence s of values, an object <<"object", f>> with a function f from  *)
(* keys to values.                                                         *)
(***************************************************************************)
EXTENDS Integers, Sequences

CONSTANTS
  I64Max,       \* a bound of the models for 2^63 - 1
  AsF64,        \* AsF64[n]: the double next to n
  Jsons,        \* JSON values, with every value that is inside one of them
  MaxNesting,   \* how deep they are nested at most; serde_json reads 128 levels
  Nesting       \* [Jsons -> 0..MaxNesting]: how deep a value is nested

Null == <<"null", 0>>
Unit == <<"unit", 0>>
Composite == {"array", "object"}

ASSUME ValuesAssumption ==
  /\ I64Max \in Int
  /\ MaxNesting \in Nat
  /\ Nesting \in [Jsons -> 0..MaxNesting]
  /\ \A j \in Jsons :
       /\ j = <<j[1], j[2]>>
       /\ j[1] \in {"bool", "int", "float", "string"} \cup Composite \/ j = Null
       /\ j[1] = "int" => j[2] \in Int
       /\ j[1] \in Composite =>
            /\ j[2] = [k \in DOMAIN j[2] |-> j[2][k]]
            /\ \A k \in DOMAIN j[2] : j[2][k] \in Jsons /\ Nesting[j[2][k]] < Nesting[j]

\* Mutant of Number: as_f64 is asked first.
NumberAsFloat(v) == <<"float", AsF64[v]>>

Number(v) == IF v <= I64Max THEN <<"int", v>> ELSE <<"float", AsF64[v]>>

json_to_dynamic[j \in Jsons] ==
  CASE j[1] = "array"  -> <<"array", [k \in DOMAIN j[2] |-> json_to_dynamic[j[2][k]]]>>
    [] j[1] = "object" -> <<"map", [k \in DOMAIN j[2] |-> json_to_dynamic[j[2][k]]]>>
    [] j[1] = "null"   -> Unit
    [] j[1] = "int"    -> Number(j[2])
    [] OTHER           -> j

\* The values a script is given.
Dynamics == {json_to_dynamic[j] : j \in Jsons}

\* Whatever has no counterpart in JSON becomes null.
dynamic_to_json[d \in Dynamics] ==
  CASE d[1] = "array" -> <<"array", [k \in DOMAIN d[2] |-> dynamic_to_json[d[2][k]]]>>
    [] d[1] = "map"   -> <<"object", [k \in DOMAIN d[2] |-> dynamic_to_json[d[2][k]]]>>
    [] d[1] \in {"bool", "int", "float", "string"} -> d
    [] OTHER          -> Null

-----------------------------------------------------------------------------
\* j with the integers that only u64 holds as floats, which may be others.
Widened[j \in Jsons] ==
  IF j[1] \in Composite THEN <<j[1], [k \in DOMAIN j[2] |-> Widened[j[2][k]]]>>
  ELSE IF j[1] = "int" /\ j[2] > I64Max THEN <<"float", AsF64[j[2]]>>
  ELSE j

ComesBack(j) == dynamic_to_json[json_to_dynamic[j]] = Widened[j]
=============================================================================
