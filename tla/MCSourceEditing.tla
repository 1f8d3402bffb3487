--------------------------- MODULE MCSourceEditing ---------------------------
(***************************************************************************)
(* Model checking SourceEditing: pairs of operators with and without       *)
(* brackets in a small function, comparisons that may come to read as type *)
(* arguments, and documents of each kind with the declarations, scopes and *)
(* references a rename has to tell apart.                                  *)
(***************************************************************************)
EXTENDS SourceEditing

Numerals == {"1", "2"}
Token(w) == [kind |-> IF w \in Numerals THEN "NUMBER"
                      ELSE IF w \in {"1.5"} THEN "FLOAT"
                      ELSE IF w \in {"'a'"} THEN "STRING"
                      ELSE IF w \in Keywords \cup {"(", ")", "{", "}", "<", ">", ",", ":", "@"}
                                     \cup {"="} \cup UNION {Levels[l] : l \in 1..Len(Levels)}
                      THEN w ELSE "IDENT",
             value |-> w, spaced |-> TRUE]
Source(words) == Tight([i \in 1..Len(words) |-> Token(words[i])])

Operator == {"or", "==", "<", "-", "*"}
Order == {"<", ">"}
Shapes(o, p) ==
  {<<"a", o, "b", p, "c">>, <<"(", "a", o, "b", ")", p, "c">>, <<"a", o, "(", "b", p, "c", ")">>,
   <<"-", "a", o, "not", "(", "b", p, "-", "c", ")">>,
   <<"g", "(", "a", o, "b", ",", "(", "b", ")", p, "h", "(", ")", ")">>}
\* Brackets further right, below a tighter operator, and an argument between two others.
Comparisons(o, p) ==
  {<<"(", "a", o, "b", ")", p, "(", "b", "-", "c", ")", "*", "a">>,
   <<"g", "(", "a", o, "b", ",", "(", "c", ")", p, "(", "a", "-", "b", ")", "*", "c", ")">>,
   <<"g", "(", "-", "a", o, "b", ",", "c", ",", "(", "c", ")", p, "(", "a", "or", "b", ")", ")">>}
Expressions ==
  {Source(<<"function", "f", "(", "a", ",", "b", ":", "int", ")", "{", "return">> \o e \o <<"}">>)
     : e \in UNION {Shapes(o, p) : o, p \in Operator}
               \cup UNION {Shapes(o, p) \cup Comparisons(o, p) : o, p \in Order}}

Functions ==
  {Source(<<"function", "f", "(", "x", ")", "{", "when", "x", "{", "let", "y", "=", "x",
            "return", "y", "}", "otherwise", "{", "let", "y", "=", "y", "return", "(", "y", ")",
            "}", "return", "x", "}">>),
   Source(<<"function", "f", "(", "x", ":", "int", ")", ":", "int", "{", "let", "y", "=", "f",
            "(", "x", ",", "f", ")", "let", "x", "=", "y", "return", "not", "(", "x", ")", "}">>),
   Source(<<"function", "f", "<", "T", ":", "numeric", ",", "U", ">", "(", "T", ":", "T", ")",
            ":", "U", "{", "return", "g", "<", "T", ",", "U", ">", "(", "T", ",", "1.5", ")", "}">>)}
Directives ==
  {Source(<<"directive", "n", "{", "event", "e", "state", "n", ":", "int", "=", "1", "requires",
            "n", "state", "m", "=", "2", "cause", "n", "{", "path", "e", "@", "1", "{", "add",
            "n", "(", "m", ")", "message", "n", "emit", "e", "}", "}", "}">>),
   Source(<<"directive", "w", "{", "cause", "k", "{", "path", "z", "@", "1", "{", "when", "y",
            "{", "emit", "z", "}", "otherwise", "{", "add", "y", "-", "y", "}", "}", "}", "state",
            "y", "=", "1", "event", "z", "}">>),
   Source(<<"directive", "d", "{", "authority", "n", "event", "n", "state", "n", "=", "'a'",
            "cause", "c", "{", "path", "p", "@", "2", "{", "when", "n", "{", "set", "n", "=",
            "n", "emit", "n", "}", "otherwise", "{", "invoke", "n", "}", "}", "}", "}">>)}
Others ==
  {Source(<<"directive", "d", "{", "state", "n", "=", "m", "state", "m", "=", "1", "}">>),
   Source(<<"authority", "n", "extends", "m", "{", "capability", "n", "capability", "m", "}">>),
   Source(<<"principal", "p", "{", "role", "r", "authority", "n", "role", "n", "}">>),
   Source(<<"workflow", "w", "{", "invoke", "d", "invoke", "d", "}">>),
   Source(<<"role", "r", "{", "authority", "n", "}">>)}

Texts == Expressions \cup Functions \cup Directives \cup Others
=============================================================================
