--------------------------- MODULE MCTypedProgram ---------------------------
(***************************************************************************)
(* Model checking TypedProgram: functions f and g in many variants, each   *)
(* with a third function k and a directive that uses f, and one program    *)
(* for many calls of every function of the standard library.               *)
(***************************************************************************)
EXTENDS TypedProgram

I(n)  == [kind |-> "literal", value |-> IntValue(n)]
T(b)  == [kind |-> "literal", value |-> BoolValue(b)]
S(t)  == [kind |-> "literal", value |-> TextValue(t)]
D(n)  == [kind |-> "literal", value |-> FloatValue(n, 2)]
V(v)  == [kind |-> "name", name |-> v]
U(o, e)    == [kind |-> "unary", operator |-> o, operand |-> e]
B(l, o, r) == [kind |-> "binary", left |-> l, operator |-> o, right |-> r]
CT(t, a, types) == [kind |-> "call", target |-> t, arguments |-> a, types |-> types]
C(t, a)    == CT(t, a, <<>>)
Let(v, e)  == [kind |-> "let", name |-> v, expression |-> e]
Ret(e)     == [kind |-> "return", expression |-> e]
When(e, a, o) == [kind |-> "when", expression |-> e, actions |-> a, otherwise |-> o]

Fun(name, parameters, returns, generics, body) ==
  [name |-> name, parameters |-> parameters, returns |-> returns, generics |-> generics,
   body |-> body]
Par(name, t) == [name |-> name, type |-> t]

x == V("x")
fBodies == {
  <<Ret(x)>>, <<Ret(U("-", x))>>, <<Ret(U("not", x))>>, <<Ret(B(x, "+", I(1)))>>,
  <<Ret(B(x, "+", S("a")))>>, <<Ret(B(x, "<", I(2)))>>, <<Ret(B(x, "==", x))>>,
  <<Ret(B(x, "and", B(I(1), "==", I(1))))>>, <<Ret(B(x, "/", I(2)))>>, <<Ret(B(D(1), "/", D(0)))>>,
  <<Ret(B(x, "%", I(0)))>>, <<Ret(C("h", <<x>>))>>, <<Ret(C("identity", <<x>>))>>,
  <<Ret(CT("first", <<x, S("a")>>, <<"int", "string">>))>>, <<Ret(C("f", <<x>>))>>,
  <<Let("y", x), Ret(V("y"))>>, <<Let("y", x), Let("y", I(1)), Ret(V("y"))>>,
  <<Ret(x), Ret(x)>>, <<Let("x", I(1)), Ret(x)>>,
  <<When(B(x, ">", I(0)), <<Ret(I(1))>>, <<Ret(x)>>)>>,
  <<When(x, <<Ret(x)>>, <<Ret(U("not", x))>>)>>,
  <<When(B(x, ">", I(0)), <<Ret(I(1))>>, <<>>)>>,
  <<When(B(x, ">", I(0)), <<Let("y", x), Ret(V("y"))>>, <<Ret(I(0))>>)>>,
  <<When(B(x, "==", x), <<When(B(x, "==", x), <<Ret(x)>>, <<>>), Ret(x)>>, <<>>), Ret(x)>> }
gBodies == {
  <<Ret(C("g", <<x>>))>>, <<Ret(B(C("g", <<x>>), "+", I(1)))>>,
  <<Ret(CT("g", <<x>>, <<"int">>))>>,
  <<Let("y", C("g", <<x>>)), Ret(V("y"))>>,
  <<Let("y", C("g", <<x>>)), Let("z", B(V("y"), "+", I(1))), Ret(V("z"))>>,
  <<When(C("g", <<x>>), <<Ret(I(1))>>, <<Ret(I(2))>>)>>,
  <<Let("y", C("g", <<x>>)), When(B(V("y"), "==", x), <<Ret(x)>>, <<Ret(C("g", <<V("y")>>))>>)>> }

fSignatures ==
  ({Unknown, "int", "bool"} \X {Unknown, "int", "bool", "string"} \X {<<>>})
    \cup {<<"f.T", "f.T", <<"f.T">> >>, <<"f.T", "bool", <<"f.T">> >>, <<"f.N", "f.N", <<"f.N">> >>}
Own(e)  == Fun("f", <<Par("x", "f.T")>>, "f.T", <<"f.T">>, <<Ret(e)>>)
OwnType == Own(CT("g", <<x>>, <<"f.T">>))
OwnHost == Own(CT("first", <<x, S("a")>>, <<"f.T", "string">>))
Fs(bodies) == {Fun("f", <<Par("x", s[1])>>, s[2], s[3], b) : s \in fSignatures, b \in bodies}

G(t, returns, generics, body) == Fun("g", <<Par("a", t)>>, returns, generics, body)
a == V("a")
Gs == {
  G("int", "int", <<>>, <<Ret(a)>>), G("int", "bool", <<>>, <<Ret(B(a, ">", I(0)))>>),
  G(Unknown, Unknown, <<>>, <<Ret(a)>>), G("int", Unknown, <<>>, <<Ret(C("k", <<a>>))>>),
  G("int", "int", <<>>, <<Ret(C("k", <<a>>))>>), G("int", "int", <<>>, <<Ret(C("f", <<a>>))>>),
  G("g.T", "g.T", <<"g.T">>, <<Ret(a)>>), G("g.N", "g.N", <<"g.N">>, <<Ret(B(a, "+", a))>>),
  G("g.T", "g.T", <<"g.T">>, <<Ret(C("identity", <<a>>))>>),
  G("g.T", "int", <<"g.T">>, <<Ret(CT("second", <<a, I(3)>>, <<"g.T", "int">>))>>),
  Fun("g", <<Par("a", "int"), Par("b", "int")>>, "int", <<>>, <<Ret(a)>>) }
K == Fun("k", <<Par("b", "int")>>, "int", <<>>, <<Ret(B(V("b"), "*", I(2)))>>)

Set(s, e) == [kind |-> "set", state |-> s, expression |-> e]
Add(s, e) == [kind |-> "add", state |-> s, expression |-> e]
Message(e) == [kind |-> "message", expression |-> e]
Emit(e)   == [kind |-> "emit", event |-> e]
State(name, t, e) == [name |-> name, type |-> t, initial |-> e]
Directive(actions, initial) ==
  [states |-> <<State("n", Unknown, initial), State("b", "bool", T(TRUE)),
                State("s", "string", S("a"))>>,
   events |-> {"e"}, actions |-> actions]
n == V("n")
Directives ==
  {Directive(actions, I(1)) : actions \in {
     <<Set("n", C("f", <<n>>)), Add("n", C("f", <<n>>))>>,
     <<Add("n", CT("f", <<I(2)>>, <<"int">>))>>,
     <<Set("n", C("f", <<V("b")>>))>>,
     <<Set("b", C("f", <<V("b")>>))>>,
     <<Set("n", C("f", <<n>>)), Set("b", C("f", <<V("b")>>))>>,
     <<Set("s", C("f", <<n>>)), Set("n", B(n, "%", I(0)))>>,
     <<Message(C("f", <<V("s")>>)), Emit("e"), Emit("e")>>,
     <<When(C("f", <<n>>), <<Set("n", I(2))>>, <<Add("n", n)>>), Set("b", C("f", <<n>>))>> }}
Others ==
  {Directive(<<Set("n", C("f", <<n>>))>>, e) : e \in {U("-", I(1)), C("f", <<I(1)>>), V("b"), S("a")}}
    \cup {Directive(actions, I(1)) : actions \in
            {<<Set("n", B(n, "/", I(2)))>>, <<Set("z", n)>>, <<Emit("u")>>, <<Add("b", V("b"))>>,
             <<When(n, <<>>, <<>>)>>, <<Set("s", B(V("s"), "+", n))>>, <<Message(n)>>,
             <<Message(n), Set("n", n), Emit("e")>>}}

With(functions, directives) ==
  {[functions |-> <<f, K>>, directive |-> d] : f \in functions, d \in directives}
Interacting ==
  {[functions |-> <<f, g, K>>, directive |-> d] : f \in Fs(gBodies) \cup {OwnType}, g \in Gs, d \in Directives}

\* Every library function, on every tuple of a few values.
Values   == {I(-3), I(0), I(2), T(FALSE), S("ab"), D(3)}
Texts    == {S("aba"), S("a"), S(""), S("-12"), S("+"), S("1200")}
Numbers  == {C("string_to_int", <<t>>) : t \in Texts}
Listed   == {C("collection_pair", <<I(0), I(2)>>), C("collection_repeat", <<I(2), I(0)>>),
             C("collection_single", <<T(FALSE)>>),
             C("collection_single", <<C("collection_pair", <<S("a"), S("ab")>>)>>)}
Calls ==
  {C(name, args) : name \in DOMAIN Standard, args \in UNION {[1..i -> Values] : i \in 1..2}}
    \cup {C(name, args) : name \in {"int_clamp", "float_clamp", "choose"}, args \in [1..3 -> Values]}
    \cup {C(name, <<t>>) : name \in DOMAIN Standard, t \in Texts \cup Numbers \cup Listed}
    \cup {C(name, <<t, u>>) : name \in DOMAIN Standard, t \in Texts \cup Numbers \cup Listed,
                             u \in Texts \cup Listed \cup Values}
    \cup {C("string_replace", <<t, u, v>>) : t, u, v \in Texts \cup {S("ab")}}
    \cup {C(name, <<t, u, v>>) : name \in {"string_slice", "collection_slice", "collection_get_or"},
                                t \in Texts \cup Listed, u, v \in Values \cup {I(1)}}
    \cup {C("collection_prepend", <<u, t>>) : t \in Listed, u \in Values \cup Listed}
Compared == {B(t, "==", u) : t, u \in Numbers \cup Listed}
Library ==
  {[functions |-> <<>>, directive |-> Directive(<<Message(c), Emit("e")>>, I(1))]
     : c \in {c \in Calls : Len(c.arguments) = Len(Standard[c.target].parameters)} \cup Compared}
    \cup {[functions |-> <<>>, directive |-> Directive(<<Add("n", c)>>, I(1))]
            : c \in {c \in Calls : Len(c.arguments) = 1 /\ Len(Standard[c.target].parameters) = 1}}

Suites == <<With(Fs(fBodies) \cup {OwnHost}, Directives), With(Fs({<<Ret(x)>>}), Others),
            Interacting, Library>>
=============================================================================
