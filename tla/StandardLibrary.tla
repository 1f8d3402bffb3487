-------------------------- MODULE StandardLibrary --------------------------
(***************************************************************************)
(* The pure functions every program may call (standard_library): their     *)
(* signatures, the checks an invocation makes on the values it receives    *)
(* and returns, and what the functions of eight of its groups compute.     *)
(* Three are left out: float_to_string and string_to_float, which are      *)
(* about the digits of floats, and result_error_message, about a wording.  *)
(*                                                                         *)
(* A value is a record of its runtime type, a rational number (truth is    *)
(* one or zero; floats are exact here), a text, and the values it holds: a *)
(* collection has the type of its elements as text; a result has its error *)
(* code as text, empty on success, and holds the one value it is for.  A   *)
(* failure has the type "error" and its reason as text.                    *)
(***************************************************************************)
EXTENDS TypeInference, Integers
LOCAL INSTANCE FiniteSetsExt
LOCAL INSTANCE SequencesExt

CONSTANTS MaxText,       \* MAX_STRING_RESULT_CODE_POINTS
          MaxParsed,     \* MAX_PARSE_INPUT_CODE_POINTS
          MaxCollection  \* MAX_COLLECTION_LENGTH

ASSUME LibraryLimits == MaxText \in Nat /\ MaxParsed \in Nat /\ MaxCollection \in Nat \ {0, 1}
ASSUME LibraryVariables ==
  {"identity.T", "choose.T", "first.T", "first.U", "second.T", "second.U"}
    \cup {"collection_" \o name \o ".T" : name \in {"single", "pair", "repeat", "append", "prepend",
                                                   "contains", "count", "get_or", "first_or", "last_or"}}
    \subseteq TypeVariable \ NumericVariable

Holding(type, text, items) ==
  [type |-> type, num |-> 0, den |-> 1, text |-> text, items |-> items]
Datum(type, num, den, text) ==
  [type |-> type, num |-> num, den |-> den, text |-> text, items |-> <<>>]
IntValue(n)      == Datum("int", n, 1, "")
FloatValue(n, d) == Datum("float", n, d, "")
BoolValue(b)     == Datum("bool", IF b THEN 1 ELSE 0, 1, "")
TextValue(t)     == Datum("string", 0, 1, t)
Failure(why)     == Datum("error", 0, 1, why)
Failed(v)        == v.type = "error"
IsTrue(v)        == v.num # 0
Less(a, b)       == a.num * b.den < b.num * a.den
SameNumber(a, b) == a.num * b.den = b.num * a.den

\* Equality compares a number with a truth value, and values of other types with their like.
RECURSIVE Same(_, _)
Same(a, b) ==
  IF {a.type, b.type} \cap {"string", "result", "collection"} = {} THEN SameNumber(a, b)
  ELSE /\ a.type = b.type /\ a.text = b.text /\ Len(a.items) = Len(b.items)
       /\ \A i \in Positions(a.items) :
            a.items[i].type = b.items[i].type /\ Same(a.items[i], b.items[i])

-----------------------------------------------------------------------------
Signature(parameters, returns) ==
  [parameters |-> parameters, returns |-> returns, generics |-> <<>>]
Generic(parameters, returns, generics) ==
  [parameters |-> parameters, returns |-> returns, generics |-> generics]

CoreSignatures ==
  "int_abs" :> Signature(<<"int">>, "int") @@ "float_abs" :> Signature(<<"float">>, "float") @@
  "string_length" :> Signature(<<"string">>, "int") @@
  "string_contains" :> Signature(<<"string", "string">>, "bool") @@ "bool_not" :> Signature(<<"bool">>, "bool")
\* Where a fragment occurs in a text.
Places(text, fragment) ==
  {i \in 1..Len(text) + 1 - Len(fragment) : SubSeq(text, i, i + Len(fragment) - 1) = fragment}
CoreResult(name, a) ==
  CASE name \in {"int_abs", "float_abs"} -> [a[1] EXCEPT !.num = IF @ < 0 THEN -@ ELSE @]
    [] name = "string_length"            -> IntValue(Len(a[1].text))
    [] name = "string_contains"          -> BoolValue(Places(a[1].text, a[2].text) # {})
    [] name = "bool_not"                 -> BoolValue(~IsTrue(a[1]))

NumericSignatures ==
  [name \in {"int_min", "int_max"} |-> Signature(<<"int", "int">>, "int")] @@
  [name \in {"float_min", "float_max"} |-> Signature(<<"float", "float">>, "float")] @@
  [name \in {"int_is_even", "int_is_odd"} |-> Signature(<<"int">>, "bool")] @@
  "int_clamp" :> Signature(<<"int", "int", "int">>, "int") @@
  "float_clamp" :> Signature(<<"float", "float", "float">>, "float") @@
  "int_sign" :> Signature(<<"int">>, "int") @@ "float_sign" :> Signature(<<"float">>, "int") @@
  "float_is_finite" :> Signature(<<"float">>, "bool")
NumericResultOf(name, a) ==
  CASE name \in {"int_min", "float_min"} -> IF Less(a[2], a[1]) THEN a[2] ELSE a[1]
    [] name \in {"int_max", "float_max"} -> IF Less(a[1], a[2]) THEN a[2] ELSE a[1]
    [] name = "int_is_even"     -> BoolValue(a[1].num % 2 = 0)
    [] name = "int_is_odd"      -> BoolValue(a[1].num % 2 # 0)
    [] name = "float_is_finite" -> BoolValue(TRUE)
    [] name \in {"int_sign", "float_sign"} ->
         IntValue(IF a[1].num < 0 THEN -1 ELSE IF a[1].num > 0 THEN 1 ELSE 0)
    [] name \in {"int_clamp", "float_clamp"} ->
         IF Less(a[3], a[2]) THEN Failure("domain")
         ELSE IF Less(a[1], a[2]) THEN a[2] ELSE IF Less(a[3], a[1]) THEN a[3] ELSE a[1]

ConversionSignatures ==
  "int_to_float" :> Signature(<<"int">>, "float") @@
  "int_to_string" :> Signature(<<"int">>, "string") @@
  "bool_to_string" :> Signature(<<"bool">>, "string")
ConversionResult(name, a) ==
  CASE name = "int_to_float"   -> FloatValue(a[1].num, 1)
    [] name = "int_to_string"  -> TextValue(ToString(a[1].num))
    [] name = "bool_to_string" -> TextValue(IF IsTrue(a[1]) THEN "true" ELSE "false")

BooleanSignatures ==
  [name \in {"bool_and", "bool_or", "bool_xor", "bool_implies"} |->
     Signature(<<"bool", "bool">>, "bool")]
BooleanResult(name, a) ==
  LET p == IsTrue(a[1]) q == IsTrue(a[2]) IN
  BoolValue(CASE name = "bool_and" -> p /\ q [] name = "bool_or" -> p \/ q
         [] name = "bool_xor" -> p # q  [] name = "bool_implies" -> p => q)

GenericSignatures ==
  "identity" :> Generic(<<"identity.T">>, "identity.T", <<"identity.T">>) @@
  "choose" :> Generic(<<"bool", "choose.T", "choose.T">>, "choose.T", <<"choose.T">>) @@
  "first"  :> Generic(<<"first.T", "first.U">>, "first.T", <<"first.T", "first.U">>) @@
  "second" :> Generic(<<"second.T", "second.U">>, "second.U", <<"second.T", "second.U">>)
GenericResult(name, a) ==
  CASE name \in {"identity", "first"} -> a[1]
    [] name = "second"                -> a[2]
    [] name = "choose"                -> IF IsTrue(a[1]) THEN a[2] ELSE a[3]

StringSignatures ==
  [name \in {"string_starts_with", "string_ends_with"} |-> Signature(<<"string", "string">>, "bool")] @@
  [name \in {"string_index_of", "string_last_index_of"} |-> Signature(<<"string", "string">>, "int")] @@
  [name \in {"string_char_at", "string_repeat"} |-> Signature(<<"string", "int">>, "string")] @@
  "string_is_empty" :> Signature(<<"string">>, "bool") @@
  "string_slice" :> Signature(<<"string", "int", "int">>, "string") @@
  "string_concat" :> Signature(<<"string", "string">>, "string") @@
  "string_replace" :> Signature(<<"string", "string", "string">>, "string")

RECURSIVE Repeated(_, _), Replaced(_, _, _)
Repeated(text, count) == IF count = 0 THEN "" ELSE text \o Repeated(text, count - 1)
\* Every occurrence replaced, from the left and without overlap.
Replaced(text, target, replacement) ==
  LET first == Min(Places(text, target)) IN
  IF Places(text, target) = {} THEN text
  ELSE SubSeq(text, 1, first - 1) \o replacement
         \o Replaced(SubSeq(text, first + Len(target), Len(text)), target, replacement)
Limited(text) == IF Len(text) > MaxText THEN Failure("limit") ELSE TextValue(text)

StringResult(name, a) ==
  LET text   == a[1].text
      places == Places(text, a[2].text)
      at     == a[2].num
  IN CASE name = "string_is_empty"    -> BoolValue(text = "")
       [] name = "string_starts_with" -> BoolValue(1 \in places)
       [] name = "string_ends_with"   -> BoolValue(Len(text) + 1 - Len(a[2].text) \in places)
       [] name = "string_index_of"    -> IntValue(IF places = {} THEN -1 ELSE Min(places) - 1)
       [] name = "string_last_index_of" -> IntValue(IF places = {} THEN -1 ELSE Max(places) - 1)
       [] name = "string_char_at"     ->
            IF at \in 0..Len(text) - 1 THEN TextValue(SubSeq(text, at + 1, at + 1)) ELSE Failure("domain")
       [] name = "string_slice"       ->
            IF 0 <= at /\ at <= a[3].num /\ a[3].num <= Len(text)
            THEN TextValue(SubSeq(text, at + 1, a[3].num)) ELSE Failure("domain")
       [] name = "string_concat"      -> Limited(text \o a[2].text)
       [] name = "string_repeat"      -> IF at < 0 THEN Failure("domain") ELSE Limited(Repeated(text, at))
       [] name = "string_replace"     ->
            IF a[2].text = "" THEN Failure("domain") ELSE Limited(Replaced(text, a[2].text, a[3].text))

ResultSignatures ==
  [name \in {"result_is_ok", "result_is_error"} |-> Signature(<<"result">>, "bool")] @@
  [name \in {"result_error_code", "result_payload_type"} |-> Signature(<<"result">>, "string")] @@
  "string_to_int" :> Signature(<<"string">>, "result") @@
  "result_int_or" :> Signature(<<"result", "int">>, "int") @@
  "result_float_or" :> Signature(<<"result", "float">>, "float")

Success(value)      == Holding("result", "", <<value>>)
NoResult(type, why) == Holding("result", why, <<Datum(type, 0, 1, "")>>)
IsOk(result)        == result.text = ""

\* Digits with an optional sign; of any other text the result says what is wrong.
ParsedInt(text) ==
  LET sign   == SubSeq(text, 1, 1)
      digits == SubSeq(text, IF sign \in {"+", "-"} THEN 2 ELSE 1, Len(text))
      digit(i) == {n \in 0..9 : ToString(n) = SubSeq(digits, i, i)}
      value[i \in 0..Len(digits)] == IF i = 0 THEN 0 ELSE 10 * value[i - 1] + Min(digit(i))
  IN IF text = "" THEN NoResult("int", "EMPTY_INPUT")
     ELSE IF Len(text) > MaxParsed THEN NoResult("int", "INPUT_TOO_LONG")
     ELSE IF digits = "" \/ \E i \in 1..Len(digits) : digit(i) = {} THEN NoResult("int", "INVALID_INT")
     ELSE Success(IntValue(IF sign = "-" THEN -value[Len(digits)] ELSE value[Len(digits)]))

ResultResult(name, a) ==
  CASE name = "string_to_int"       -> ParsedInt(a[1].text)
    [] name = "result_is_ok"        -> BoolValue(IsOk(a[1]))
    [] name = "result_is_error"     -> BoolValue(~IsOk(a[1]))
    [] name = "result_error_code"   -> TextValue(a[1].text)
    [] name = "result_payload_type" -> TextValue(a[1].items[1].type)
    [] name \in {"result_int_or", "result_float_or"} ->
         IF IsOk(a[1]) /\ a[1].items[1].type = a[2].type THEN a[1].items[1] ELSE a[2]

\* Here "T" is the one type variable of a function.  The static type of a collection says
\* nothing of its elements: their type is kept in the value and checked by the operations.
CollectionSignatures ==
  LET over(name, parameters, returns) ==
        LET type(t) == IF t = "T" THEN name \o ".T" ELSE t IN
        name :> Generic([i \in Positions(parameters) |-> type(parameters[i])], type(returns), <<type("T")>>)
  IN over("collection_single", <<"T">>, "collection") @@
     over("collection_pair", <<"T", "T">>, "collection") @@
     over("collection_repeat", <<"T", "int">>, "collection") @@
     over("collection_append", <<"collection", "T">>, "collection") @@
     over("collection_prepend", <<"T", "collection">>, "collection") @@
     over("collection_contains", <<"collection", "T">>, "bool") @@
     over("collection_count", <<"collection", "T">>, "int") @@
     over("collection_get_or", <<"collection", "int", "T">>, "T") @@
     over("collection_first_or", <<"collection", "T">>, "T") @@
     over("collection_last_or", <<"collection", "T">>, "T") @@
     "collection_length" :> Signature(<<"collection">>, "int") @@
     "collection_is_empty" :> Signature(<<"collection">>, "bool") @@
     "collection_element_type" :> Signature(<<"collection">>, "string") @@
     "collection_concat" :> Signature(<<"collection", "collection">>, "collection") @@
     "collection_slice" :> Signature(<<"collection", "int", "int">>, "collection") @@
     "collection_reverse" :> Signature(<<"collection">>, "collection")

\* A value of another type than the elements of the collection it is given with.
Misfit(name, a) ==
  CASE name \in {"collection_append", "collection_contains", "collection_count",
                 "collection_first_or", "collection_last_or"} -> a[2].type # a[1].text
    [] name = "collection_get_or"  -> a[3].type # a[1].text
    [] name = "collection_prepend" -> a[1].type # a[2].text
    [] name = "collection_concat"  -> a[1].text # a[2].text
    [] OTHER -> FALSE

CollectionResult(name, a) ==
  LET type   == a[1].text
      items  == a[1].items
      at     == a[2].num
      equals == {i \in Positions(items) : Same(items[i], a[2])}
      made(t, values) == IF Len(values) > MaxCollection THEN Failure("limit")
                         ELSE Holding("collection", t, values)
  IN IF Misfit(name, a) THEN Failure("element")
     ELSE CASE name \in {"collection_single", "collection_pair"} -> made(a[1].type, a)
            [] name = "collection_repeat"   ->
                 IF at < 0 THEN Failure("domain") ELSE made(a[1].type, [i \in 1..at |-> a[1]])
            [] name = "collection_length"   -> IntValue(Len(items))
            [] name = "collection_is_empty" -> BoolValue(items = <<>>)
            [] name = "collection_element_type" -> TextValue(type)
            [] name = "collection_append"   -> made(type, Append(items, a[2]))
            [] name = "collection_prepend"  -> made(a[2].text, <<a[1]>> \o a[2].items)
            [] name = "collection_concat"   -> made(type, items \o a[2].items)
            [] name = "collection_contains" -> BoolValue(equals # {})
            [] name = "collection_count"    -> IntValue(Cardinality(equals))
            [] name = "collection_get_or"   -> IF at \in 0..Len(items) - 1 THEN items[at + 1] ELSE a[3]
            [] name = "collection_first_or" -> IF items = <<>> THEN a[2] ELSE Head(items)
            [] name = "collection_last_or"  -> IF items = <<>> THEN a[2] ELSE Last(items)
            [] name = "collection_slice"    ->
                 IF 0 <= at /\ at <= a[3].num /\ a[3].num <= Len(items)
                 THEN made(type, SubSeq(items, at + 1, a[3].num)) ELSE Failure("domain")
            [] name = "collection_reverse"  -> made(type, Reverse(items))

Standard == CoreSignatures @@ NumericSignatures @@ ConversionSignatures
              @@ BooleanSignatures @@ GenericSignatures
              @@ StringSignatures @@ ResultSignatures @@ CollectionSignatures

Implementation(name, a) ==
  CASE name \in DOMAIN CoreSignatures       -> CoreResult(name, a)
    [] name \in DOMAIN NumericSignatures    -> NumericResultOf(name, a)
    [] name \in DOMAIN ConversionSignatures -> ConversionResult(name, a)
    [] name \in DOMAIN BooleanSignatures    -> BooleanResult(name, a)
    [] name \in DOMAIN GenericSignatures    -> GenericResult(name, a)
    [] name \in DOMAIN StringSignatures     -> StringResult(name, a)
    [] name \in DOMAIN ResultSignatures     -> ResultResult(name, a)
    [] name \in DOMAIN CollectionSignatures -> CollectionResult(name, a)

-----------------------------------------------------------------------------
\* The substitution an invocation makes from the explicit types, variables of an erased
\* caller left out, and then from the values.
Erased(signature, types) ==
  LET at(v) == CHOOSE i \in Positions(types) : signature.generics[i] = v IN
  [v \in {v \in VariablesOf(signature) : types # <<>> /\ ~IsVariable(types[at(v)])} |->
     types[at(v)]]

RuntimeSubstitution(signature, values, types) ==
  Erased(signature, types) @@ InferredSubstitution(signature, [i \in Positions(values) |-> values[i].type])

InvocationFits(signature, values, types) ==
  LET s == RuntimeSubstitution(signature, values, types)
      bound(i) == Resolve(s, signature.parameters[i])
  IN /\ types # <<>> => /\ Len(types) = Len(signature.generics)
                        /\ \A i \in Positions(types) : types[i] # "void"
                        /\ \A v \in DOMAIN Erased(signature, types) : Admits(v, s[v])
     /\ \A i \in Positions(values) :
          /\ values[i].type = bound(i)
          /\ IsVariable(signature.parameters[i]) =>
               Admits(signature.parameters[i], values[i].type)

Invoke(name, values, types) ==
  LET signature == Standard[name]
      result    == Implementation(name, values)
  IN IF Len(values) # Len(signature.parameters) THEN Failure("arity")
     ELSE IF ~InvocationFits(signature, values, types) THEN Failure("type")
     ELSE IF ~Failed(result) /\
             result.type # Resolve(RuntimeSubstitution(signature, values, types), signature.returns)
     THEN Failure("type") ELSE result
=============================================================================
