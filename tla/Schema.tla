------------------------------- MODULE Schema --------------------------------
(***************************************************************************)
(* The schema subset of agent() (schema.py): which schemas are supported,  *)
(* validate_schema, and which answers of codex fit one, validate_instance. *)
(* Both work on parsed JSON, so a schema is a JSON value itself: it may    *)
(* have any shape until it has been checked.  Error texts and the paths    *)
(* in them are left out.                                                   *)
(***************************************************************************)
EXTENDS Integers, Sequences, FiniteSets

CONSTANT MaxSchemaDepth    \* _MAX_SCHEMA_DEPTH, 64 in the code

ASSUME SchemaDepth == MaxSchemaDepth \in Nat

-----------------------------------------------------------------------------
(* JSON values as Python has them.  "int" and "float" are different types; *)
(* a number is counted in halves, so that there are some between integers; *)
(* a float that is not finite (json.loads takes NaN) has the text "nan".   *)

Json(t, n, text, items, props) ==
    [t |-> t, n |-> n, text |-> text, items |-> items, props |-> props]

JNull        == Json("null", 0, "", <<>>, {})
JBool(b)     == Json("bool", IF b THEN 2 ELSE 0, "", <<>>, {})
JInt(n)      == Json("int", 2 * n, "", <<>>, {})
JFloat(half) == Json("float", half, "", <<>>, {})
JNaN         == Json("float", 0, "nan", <<>>, {})
JString(s)   == Json("string", 0, s, <<>>, {})
JArray(s)    == Json("array", 0, "", s, {})
JObject(f)   == Json("object", 0, "", <<>>, {<<key, f[key]>> : key \in DOMAIN f})

Keys(object) == {pair[1] : pair \in object.props}
Has(object, key) == key \in Keys(object)
Get(object, key) == (CHOOSE pair \in object.props : pair[1] = key)[2]
Elements(array) == {array.items[i] : i \in DOMAIN array.items}

\* Python's ==: True is 1 and 1.0, inside lists and dicts too, and no NaN that
\* was parsed is equal to anything in a schema, which has none.
RECURSIVE Numeric(_)
Numeric(v) ==
    [v EXCEPT !.t = IF @ \in {"bool", "int", "float"} THEN "number" ELSE @,
              !.items = [i \in DOMAIN @ |-> Numeric(@[i])],
              !.props = {<<pair[1], Numeric(pair[2])>> : pair \in @}]

PyEqual(v, w) == Numeric(v) = Numeric(w)

-----------------------------------------------------------------------------
(* Keywords and types.                                                     *)

ObjectKeys  == {"properties", "required", "additionalProperties"}
ArrayKeys   == {"items", "minItems", "maxItems"}
StringKeys  == {"minLength", "maxLength"}
NumericKeys == {"minimum", "maximum"}
AllowedKeys == {"type", "enum", "description", "title"}
                   \cup ObjectKeys \cup ArrayKeys \cup StringKeys \cup NumericKeys
AllowedTypes == {"object", "string", "number", "integer", "boolean", "array", "null"}

\* _is_finite_number
FiniteNumber(v) == v.t = "int" \/ (v.t = "float" /\ v.text # "nan")

\* Mutation: a bool is an int to isinstance.
MatchesTypeBoolInt(v, type) ==
    CASE type = "integer" -> v.t \in {"int", "bool"}
      [] type = "number"  -> FiniteNumber(v)
      [] type = "boolean" -> v.t = "bool"
      [] OTHER -> v.t = type

\* _matches_type
MatchesType(v, type) ==
    CASE type = "integer" -> v.t = "int"
      [] type = "number"  -> FiniteNumber(v)
      [] type = "boolean" -> v.t = "bool"
      [] OTHER -> v.t = type

\* _reject_inapplicable_keywords: what a schema of a type may say.
Applicable(type) ==
    {"type", "enum", "description", "title"} \cup
    CASE type = "object" -> ObjectKeys
      [] type = "array"  -> ArrayKeys
      [] type = "string" -> StringKeys
      [] type \in {"number", "integer"} -> NumericKeys
      [] OTHER -> {}

\* A pair of bounds, each well formed and the lower not above the upper:
\* numbers, or the counts of _validate_non_negative_bounds.
BoundsAllowed(schema, lower, upper) ==
    /\ \A key \in {lower, upper} \cap Keys(schema) :
          LET v == Get(schema, key)
          IN IF key \in NumericKeys THEN FiniteNumber(v) ELSE v.t = "int" /\ v.n >= 0
    /\ {lower, upper} \subseteq Keys(schema) => Get(schema, lower).n <= Get(schema, upper).n

-----------------------------------------------------------------------------
(* validate_schema                                                         *)

NonEmptyStrings(v) == v.t = "array" /\ \A item \in Elements(v) : item.t = "string" /\ item.text # ""

\* _validate_schema at a depth.  A text of JSON is a tree: the test for cycles
\* never fires on a schema that came from JavaScript.
RECURSIVE SchemaAllowedAt(_, _)
SchemaAllowedAt(schema, depth) ==
    /\ depth <= MaxSchemaDepth
    /\ schema.t = "object"
    /\ Keys(schema) \subseteq AllowedKeys
    /\ Has(schema, "type")
    /\ Get(schema, "type").t = "string"
    /\ Get(schema, "type").text \in AllowedTypes
    /\ \A key \in {"title", "description"} \cap Keys(schema) : Get(schema, key).t = "string"
    /\ Keys(schema) \subseteq Applicable(Get(schema, "type").text)
    /\ Has(schema, "properties") =>
          /\ Get(schema, "properties").t = "object"
          /\ \A pair \in Get(schema, "properties").props :
                pair[1] # "" /\ SchemaAllowedAt(pair[2], depth + 1)
    /\ Has(schema, "required") =>
          /\ NonEmptyStrings(Get(schema, "required"))
          /\ Cardinality(Elements(Get(schema, "required"))) = Len(Get(schema, "required").items)
    /\ Has(schema, "additionalProperties") => Get(schema, "additionalProperties").t = "bool"
    /\ Has(schema, "items") => SchemaAllowedAt(Get(schema, "items"), depth + 1)
    /\ BoundsAllowed(schema, "minItems", "maxItems")
    /\ BoundsAllowed(schema, "minLength", "maxLength")
    /\ BoundsAllowed(schema, "minimum", "maximum")
    /\ Has(schema, "enum") =>
          /\ Get(schema, "enum").t = "array" /\ Get(schema, "enum").items # <<>>
          /\ \A value \in Elements(Get(schema, "enum")) :
                MatchesType(value, Get(schema, "type").text)

ValidateSchema(schema) == SchemaAllowedAt(schema, 0)

-----------------------------------------------------------------------------
(* validate_instance                                                       *)

\* _check_length_bounds, _check_item_bounds and _check_numeric_bounds; n is
\* counted like a number.
Within(schema, n, lower, upper) ==
    /\ Has(schema, lower) => n >= Get(schema, lower).n
    /\ Has(schema, upper) => n <= Get(schema, upper).n

\* _check_enum
CheckEnum(schema, v) ==
    Has(schema, "enum") => \E value \in Elements(Get(schema, "enum")) : PyEqual(v, value)

\* _validate_instance, for a schema that is allowed
RECURSIVE Fits(_, _)
Fits(v, schema) ==
    LET type == Get(schema, "type").text
    IN /\ MatchesType(v, type)
       /\ type = "object" =>
            /\ Has(schema, "required") =>
                  \A key \in Elements(Get(schema, "required")) : Has(v, key.text)
            /\ \A pair \in v.props :
                  IF Has(schema, "properties") /\ Has(Get(schema, "properties"), pair[1])
                  THEN Fits(pair[2], Get(Get(schema, "properties"), pair[1]))
                  ELSE Has(schema, "additionalProperties") =>
                           Get(schema, "additionalProperties") = JBool(TRUE)
       /\ type = "string" => Within(schema, 2 * Len(v.text), "minLength", "maxLength")
       /\ type \in {"integer", "number"} => Within(schema, v.n, "minimum", "maximum")
       /\ type = "array" =>
            /\ Within(schema, 2 * Len(v.items), "minItems", "maxItems")
            /\ Has(schema, "items") =>
                  \A item \in Elements(v) : Fits(item, Get(schema, "items"))
       /\ CheckEnum(schema, v)

ValidateInstance(v, schema) == ValidateSchema(schema) /\ Fits(v, schema)

-----------------------------------------------------------------------------
(* What a schema stands for, said the other way round: the values that can *)
(* be made for it.  Atoms is the stock of values to make them from, and no *)
(* array made is longer than MaxLength nor has an object other keys than   *)
(* Names.                                                                  *)

Default(schema, key, value) == IF Has(schema, key) THEN Get(schema, key) ELSE value

RECURSIVE Made(_, _, _, _)
Made(schema, Atoms, MaxLength, Names) ==
    LET type == Get(schema, "type").text
        Between(lower, upper, n) ==
            /\ Default(schema, lower, JInt(n)).n <= 2 * n
            /\ 2 * n <= Default(schema, upper, JInt(n)).n
        Items == IF Has(schema, "items")
                 THEN Made(Get(schema, "items"), Atoms, MaxLength, Names) ELSE Atoms
        Sub == Default(schema, "properties", JObject([key \in {} |-> JNull]))
        Needed == {key.text : key \in Elements(Default(schema, "required", JArray(<<>>)))}
        Open == Default(schema, "additionalProperties", JBool(TRUE)) = JBool(TRUE)
        Possible(key) == IF Has(Sub, key) THEN Made(Get(Sub, key), Atoms, MaxLength, Names)
                         ELSE IF Open THEN Atoms ELSE {}
        Objects(keys) ==
            {JObject(f) : f \in {g \in [keys -> UNION {Possible(key) : key \in keys}] :
                                    \A key \in keys : g[key] \in Possible(key)}}
        Plain ==
            CASE type = "null"    -> {JNull}
              [] type = "boolean" -> {JBool(TRUE), JBool(FALSE)}
              [] type = "string"  -> {v \in Atoms : v.t = "string"
                                                   /\ Between("minLength", "maxLength", Len(v.text))}
              [] type \in {"integer", "number"} ->
                    {v \in Atoms : /\ v.t = "int" \/ (type = "number" /\ v.t = "float" /\ v # JNaN)
                                   /\ Default(schema, "minimum", v).n <= v.n
                                   /\ v.n <= Default(schema, "maximum", v).n}
              [] type = "array"   ->
                    UNION {{JArray(s) : s \in [1 .. n -> Items]} :
                              n \in {k \in 0 .. MaxLength : Between("minItems", "maxItems", k)}}
              [] type = "object"  ->
                    UNION {Objects(keys) : keys \in {k \in SUBSET Names : Needed \subseteq k}}
    IN IF Has(schema, "enum")
       THEN {v \in Plain : \E value \in Elements(Get(schema, "enum")) : PyEqual(value, v)}
       ELSE Plain
=============================================================================
