------------------------------- MODULE Decode -------------------------------
(***************************************************************************)
(* bindings/python/irgx/runtime/decode.py and cold.py: an analytic row,    *)
(* whichever transport it came by (the native cursor's values under a      *)
(* presence mask, or a JSON object of the CLI), becomes one typed record,  *)
(* of a class generated from the schema, grafted by mixin or adopted by    *)
(* bind.                                                                   *)
(*                                                                         *)
(* What the engine measured is, per field, "absent" or a value; a value of *)
(* an enum is a label, "new" for one this table does not name; "wrong" is  *)
(* a value of another type than the field's, "lone" a nested row that is   *)
(* in no list.  A measured number or bool is a zero, the one hardest to    *)
(* tell from an absent one.                                                *)
(***************************************************************************)
EXTENDS Naturals, Sequences, FiniteSets

CONSTANTS Schema,      \* row schemas
          SchemaFields,    \* SchemaFields[s]: its fields in order, each a name, a tag and whether optional
          HandMade     \* what a bind may declare: sets of names, with those defaulted

DecodeAssumption ==
  \A s \in Schema : \A i \in 1 .. Len(SchemaFields[s]) :
     /\ SchemaFields[s][i].tag \in {"text", "number", "bool", "enum", "texts", "rows"}
     /\ SchemaFields[s][i].optional \in BOOLEAN
ASSUME DecodeAssumption

VARIABLES mixins,     \* _MIXINS
          bound,      \* _BOUND: the class each schema decodes into, {} before its first use
          fieldNames,      \* _BOUND_NAMES
          standIns,   \* _ABSENT_AS: schemas with stand-ins for an absent field
          decoded,    \* classes rows of each schema were made of
          last        \* the last measurement, and what each transport's row became

decodeVars == <<mixins, bound, fieldNames, standIns, decoded, last>>

DecodeInit ==
  /\ mixins = {} /\ fieldNames = {} /\ standIns = {}
  /\ bound = [s \in Schema |-> {}]
  /\ decoded = [s \in Schema |-> {}]
  /\ last = [schema |-> "none", measured |-> <<>>, native |-> {}, cold |-> {}]

FieldNos(s) == 1 .. Len(SchemaFields[s])
SchemaNames(s) == {SchemaFields[s][i].name : i \in FieldNos(s)}
Optional(s) == {SchemaFields[s][i].name : i \in {i \in FieldNos(s) : SchemaFields[s][i].optional}}

---------------------------------------------------------------------------
(* mixin: behavior for a generated class, once per schema.                 *)
mixin(s) ==
  /\ s \notin fieldNames \cup mixins
  /\ mixins' = mixins \cup {s}
  /\ UNCHANGED <<bound, fieldNames, standIns, decoded, last>>

(* bind: the adopted class declares the schema's fields, and the extras    *)
(* and the optional ones have a default or a stand-in; or it is an error   *)
(* at import.                                                              *)
Fits(s, hand) ==
  /\ hand.names = SchemaNames(s) \cup hand.extra
  /\ Optional(s) \subseteq hand.defaulted \cup hand.absent
  /\ hand.extra \subseteq hand.defaulted

bind(s, hand) ==
  /\ Fits(s, hand)
  /\ bound' = [bound EXCEPT ![s] = {hand}]
  /\ fieldNames' = fieldNames \cup {s}
  /\ standIns' = IF hand.absent # {} THEN standIns \cup {s} ELSE standIns
  /\ UNCHANGED <<mixins, decoded, last>>

(* row_type: bound, or generated on first use, over the mixin if any.      *)
Generated(s) == [names |-> SchemaNames(s), extra |-> {}, absent |-> {}, grafted |-> s \in mixins,
                 defaulted |-> Optional(s)]
row_type(s) == IF bound[s] # {} THEN CHOOSE c \in bound[s] : TRUE ELSE Generated(s)

---------------------------------------------------------------------------
(* The native row: a value at every position, a zero where the engine      *)
(* skipped one, and the set of the mask's bits, which count from 0.        *)
Packed(s, measured) ==
  [values  |-> [i \in FieldNos(s) |-> IF measured[i] = "absent" THEN "zero" ELSE measured[i]],
   present |-> {i - 1 : i \in {i \in FieldNos(s) : measured[i] # "absent"}}]

(* A fault: bit i is taken for field i, counted from 1.                    *)
MaskedLate(row) ==
  [i \in DOMAIN row.values |-> IF i \in row.present THEN row.values[i] ELSE "absent"]

(* Row.masked: a value stands where its bit does.                          *)
masked(row) ==
  [i \in DOMAIN row.values |-> IF i - 1 \in row.present THEN row.values[i] ELSE "absent"]

(* The cold row: a key the object omits, or has as null, is the absent     *)
(* bit, but an empty collection; what is no label of the enum becomes an   *)
(* ordinal out of its range, as a newer library's does; what is no list is *)
(* a list of one, if that one is a row where rows are due.                 *)
ColdRow(s, measured) ==
  [i \in FieldNos(s) |->
     LET tag == SchemaFields[s][i].tag
     IN  CASE tag \in {"texts", "rows"} /\ measured[i] = "absent" -> "empty"
           [] tag = "texts" /\ measured[i] = "wrong" -> "some"
           [] tag = "rows" /\ measured[i] = "lone"   -> "some"
           [] tag = "enum" /\ measured[i] = "wrong"  -> "new"
           [] OTHER -> measured[i]]

(* _coerce and variant: the value in the schema's type, or a refusal; a    *)
(* text is str(value) and a bool bool(value), whatever the value is.       *)
Coerced(tag, value) ==
  CASE value = "wrong" /\ tag = "text" -> "str"
    [] value = "wrong" /\ tag = "bool" -> "truth"
    [] value = "wrong" /\ tag \notin {"text", "bool"} -> "refused"
    [] value = "lone"  -> "refused"
    [] tag = "enum" /\ value = "new"   -> "Unknown"
    [] OTHER -> value

(* What an absent field reads as: the stand-in, or the class's default.    *)
Absent(s, f) ==
  IF s \in standIns /\ f.name \in row_type(s).absent THEN "stand-in"
  ELSE IF f.tag \in {"texts", "rows"} THEN "empty" ELSE "default"

(* A record, or none: RowDecodeError.                                      *)
record(s, row) ==
  IF \E i \in FieldNos(s) : row[i] = "absent" /\ ~SchemaFields[s][i].optional THEN {}
  ELSE IF \E i \in FieldNos(s) : row[i] # "absent" /\ Coerced(SchemaFields[s][i].tag, row[i]) = "refused"
  THEN {}
  ELSE {[i \in FieldNos(s) |-> IF row[i] = "absent" THEN Absent(s, SchemaFields[s][i])
                               ELSE Coerced(SchemaFields[s][i].tag, row[i])]}

Values(tag) == {"absent"} \cup (CASE tag = "enum"  -> {"known", "new", "wrong"}
                                  [] tag = "texts" -> {"empty", "some", "wrong"}
                                  [] tag = "rows"  -> {"empty", "some", "lone", "wrong"}
                                  [] tag = "text"  -> {"value", "wrong"}
                                  [] OTHER         -> {"zero", "wrong"})

Measurements == [s \in Schema |->
  {measured \in [FieldNos(s) -> UNION {Values(SchemaFields[s][i].tag) : i \in FieldNos(s)}] :
     \A i \in FieldNos(s) : measured[i] \in Values(SchemaFields[s][i].tag)}]

(* The program asks for rows of a schema; both ways of taking the same     *)
(* measurement are followed, in one process.                               *)
AskRow(s) ==
     \E measured \in Measurements[s] :
       /\ bound' = [bound EXCEPT ![s] = {row_type(s)}]
       /\ decoded' = [decoded EXCEPT ![s] = @ \cup {row_type(s)}]
       /\ last' = [schema |-> s, measured |-> measured,
                   native |-> record(s, masked(Packed(s, measured))),
                   cold |-> record(s, ColdRow(s, measured))]
       /\ UNCHANGED <<mixins, fieldNames, standIns>>

(* The rule of the two decorators: before the schema's first row, and a    *)
(* schema has one of them.                                                 *)
Unused(s) == decoded[s] = {} /\ s \notin fieldNames \cup mixins

DecodeNext == \E s \in Schema : \/ Unused(s) /\ mixin(s)
                                \/ Unused(s) /\ \E hand \in HandMade : bind(s, hand)
                                \/ AskRow(s)

---------------------------------------------------------------------------
(* The same measurement is the same record by either transport, or refused *)
(* by both, but for what JSON cannot tell apart (a collection left out     *)
(* reads as empty where the mask says it was not measured) and for what    *)
(* the cold way makes fit (a label it does not know, a list of one).  An   *)
(* absent field never becomes a value somebody measured, not the zero      *)
(* that lies at its position either, and of values of a wrong type a       *)
(* native row keeps only what str and bool take (decode.py 100-103,        *)
(* 248-323, cold.py 54-87).                                                *)
TransportsAgree ==
  last.schema # "none" =>
    LET Tag(i) == SchemaFields[last.schema][i].tag
        plain  == \A i \in FieldNos(last.schema) :
                     /\ Tag(i) \in {"texts", "rows"} => last.measured[i] \in {"empty", "some"}
                     /\ Tag(i) = "enum" => last.measured[i] # "wrong"
    IN  /\ plain => last.native = last.cold
        /\ \A r \in last.native \cup last.cold, i \in FieldNos(last.schema) :
             last.measured[i] = "absent" => r[i] \in {"default", "stand-in", "empty"}
        /\ \A r \in last.native, i \in FieldNos(last.schema) :
             last.measured[i] \in {"wrong", "lone"} => Tag(i) \in {"text", "bool"}

(* Every row of a schema is of one class, which has all the schema's       *)
(* fields and can be made from any row the schema allows; a mixin is part  *)
(* of it (decode.py 135-236).                                              *)
OneClass ==
  \A s \in Schema :
     /\ Cardinality(decoded[s]) <= 1
     /\ \A c \in decoded[s] :
          /\ SchemaNames(s) \subseteq c.names
          /\ Optional(s) \subseteq c.defaulted \cup c.absent
          /\ s \in mixins => c.grafted
=============================================================================
