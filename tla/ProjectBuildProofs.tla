------------------------- MODULE ProjectBuildProofs -------------------------
(***************************************************************************)
(* Proofs about ProjectBuild, for every project of sources and every       *)
(* entry: the stages of the build refuse nothing that is valid and pass    *)
(* nothing that is not, and what is built refers to what it imports.       *)
(***************************************************************************)
EXTENDS ValidProject, InductionLemmas, TLAPS

-----------------------------------------------------------------------------
(* Joining the definitions of the units.                                   *)

Distinct(s) == \A j, k \in DOMAIN s : s[j] = s[k] => j = k

\* A sequence that repeats nothing has no value twice.
LEMMA RepeatsNone ==
  ASSUME NEW s
  PROVE  Repeated(s) = {} <=> Distinct(s)
BY DEF Repeated, Names, Distinct

Concatenates(c, a, b) == c = a \o b

\* The names of a concatenation, and when it repeats none.
LEMMA ConcatenatedNames ==
  ASSUME NEW X, NEW a \in Seq(X), NEW b \in Seq(X), NEW c, Concatenates(c, a, b)
  PROVE  /\ c \in Seq(X) /\ Names(c) = Names(a) \cup Names(b)
         /\ Repeated(c) = {} <=> /\ Repeated(a) = {} /\ Repeated(b) = {}
                                 /\ Names(a) \cap Names(b) = {}
<1>. DEFINE m == Len(a)
            n == Len(b)
<1>1. /\ c \in Seq(X) /\ m \in Nat /\ n \in Nat
      /\ DOMAIN a = 1..m /\ DOMAIN b = 1..n /\ DOMAIN c = 1..m + n
      /\ \A k \in 1..m : c[k] = a[k]
      /\ \A k \in 1..n : c[m + k] = b[k]
  BY DEF Concatenates
<1>. HIDE DEF m, n
<1>2. \A k \in 1..m + n : k \in 1..m \/ (k - m \in 1..n /\ m + (k - m) = k)
  BY <1>1
<1>3. /\ \A k \in 1..m : k \in 1..m + n
      /\ \A k \in 1..n : m + k \in 1..m + n
      /\ \A j \in 1..m, k \in 1..n : j # m + k
      /\ \A j, k \in 1..n : m + j = m + k => j = k
  BY <1>1
<1>4. \A k \in 1..m + n : k \in 1..m \/ c[k] = b[k - m]
  <2>. SUFFICES ASSUME NEW k \in 1..m + n, k \notin 1..m PROVE c[k] = b[k - m]
    OBVIOUS
  <2>1. k - m \in 1..n /\ m + (k - m) = k
    BY <1>2
  <2>. QED
    BY <1>1, <2>1
<1>5. Names(c) = Names(a) \cup Names(b)
  <2>1. Names(c) \subseteq Names(a) \cup Names(b)
    <3>. SUFFICES ASSUME NEW k \in 1..m + n PROVE c[k] \in Names(a) \cup Names(b)
      BY <1>1 DEF Names
    <3>1. CASE k \in 1..m
      BY <1>1, <3>1 DEF Names
    <3>2. CASE k \notin 1..m
      <4>1. k - m \in 1..n /\ c[k] = b[k - m]
        BY <1>2, <1>4, <3>2
      <4>. QED
        BY <1>1, <4>1 DEF Names
    <3>. QED
      BY <3>1, <3>2
  <2>2. Names(a) \subseteq Names(c)
    BY <1>1, <1>3 DEF Names
  <2>3. Names(b) \subseteq Names(c)
    BY <1>1, <1>3 DEF Names
  <2>. QED
    BY <2>1, <2>2, <2>3
<1>6. ASSUME Repeated(c) = {}
      PROVE  Repeated(a) = {} /\ Repeated(b) = {} /\ Names(a) \cap Names(b) = {}
  <2>0. \A j, k \in 1..m + n : c[j] = c[k] => j = k
    BY <1>1, <1>6, RepeatsNone DEF Distinct
  <2>1. \A j, k \in 1..m : a[j] = a[k] => j = k
    BY <1>1, <1>3, <2>0
  <2>2. \A j, k \in 1..n : b[j] = b[k] => j = k
    BY <1>1, <1>3, <2>0
  <2>3. \A j \in 1..m, k \in 1..n : a[j] # b[k]
    BY <1>1, <1>3, <2>0
  <2>4. Distinct(a) /\ Distinct(b)
    BY <1>1, <2>1, <2>2 DEF Distinct
  <2>5. Names(a) \cap Names(b) = {}
    BY <1>1, <2>3 DEF Names
  <2>. QED
    BY <2>4, <2>5, RepeatsNone
<1>7. ASSUME Repeated(a) = {}, Repeated(b) = {}, Names(a) \cap Names(b) = {}
      PROVE  Repeated(c) = {}
  <2>1. /\ \A j, k \in 1..m : a[j] = a[k] => j = k
        /\ \A j, k \in 1..n : b[j] = b[k] => j = k
    BY <1>1, <1>7, RepeatsNone DEF Distinct
  <2>3. \A j \in 1..m, k \in 1..n : a[j] # b[k]
    BY <1>1, <1>7 DEF Names
  <2>2. ASSUME NEW j \in 1..m + n, NEW k \in 1..m + n, c[j] = c[k] PROVE j = k
    <3>1. CASE j \in 1..m /\ k \in 1..m
      BY <1>1, <2>1, <2>2, <3>1
    <3>2. CASE j \in 1..m /\ k \notin 1..m
      BY <1>1, <1>2, <1>4, <2>2, <2>3, <3>2
    <3>3. CASE j \notin 1..m /\ k \in 1..m
      BY <1>1, <1>2, <1>4, <2>2, <2>3, <3>3
    <3>4. CASE j \notin 1..m /\ k \notin 1..m
      <4>1. b[j - m] = b[k - m] /\ j - m \in 1..n /\ k - m \in 1..n
        BY <1>2, <1>4, <2>2, <3>4
      <4>2. j - m = k - m
        BY <2>1, <4>1
      <4>. QED
        BY <1>1, <4>2
    <3>. QED
      BY <3>1, <3>2, <3>3, <3>4
  <2>. QED
    BY <1>1, <2>2, RepeatsNone DEF Distinct
<1>. QED
  BY <1>1, <1>5, <1>6, <1>7

Extended(s, category, k) == s \o DefinitionsOf(category, k)

\* f lists what is joined of the first n units, in one category.
Joins(f, category, n) ==
  f = [k \in 0..n |-> IF k = 0 THEN <<>> ELSE Extended(f[k - 1], category, k)]

\* The list of what is joined exists: by induction over the number of units.
LEMMA JoinsExist ==
  ASSUME NEW category, NEW n \in Nat
  PROVE  \E f : Joins(f, category, n)
<1>. DEFINE T == {m \in Nat : \E f : Joins(f, category, m)}
<1>1. 0 \in T
  <2>. DEFINE f == [k \in 0..0 |-> <<>>]
  <2>1. f = [k \in 0..0 |-> IF k = 0 THEN <<>> ELSE Extended(f[k - 1], category, k)]
    OBVIOUS
  <2>2. Joins(f, category, 0)
    BY <2>1 DEF Joins
  <2>. HIDE DEF f
  <2>. QED
    BY <2>2
<1>2. ASSUME NEW m \in Nat, m \in T PROVE m + 1 \in T
  <2>1. PICK f : Joins(f, category, m)
    BY <1>2
  <2>. DEFINE g == [k \in 0..m + 1 |-> IF k = m + 1 THEN Extended(f[m], category, k)
                                       ELSE f[k]]
              h == [k \in 0..m + 1 |-> IF k = 0 THEN <<>>
                                       ELSE Extended(g[k - 1], category, k)]
  <2>2. ASSUME NEW k \in 0..m + 1 PROVE g[k] = h[k]
    <3>1. CASE k = 0
      BY <2>1, <3>1 DEF Joins
    <3>2. CASE k \in 1..m
      <4>1. g[k] = f[k] /\ g[k - 1] = f[k - 1] /\ k \in 0..m
        BY <3>2
      <4>2. f[k] = Extended(f[k - 1], category, k)
        BY <2>1, <3>2, <4>1 DEF Joins
      <4>. QED
        BY <3>2, <4>1, <4>2
    <3>3. CASE k = m + 1
      <4>1. g[k - 1] = f[m]
        BY <3>3
      <4>. QED
        BY <3>3, <4>1
    <3>4. k = 0 \/ k \in 1..m \/ k = m + 1
      OBVIOUS
    <3>. QED
      BY <3>1, <3>2, <3>3, <3>4
  <2>3. g = h
    BY <2>2
  <2>4. Joins(g, category, m + 1)
    BY <2>3 DEF Joins
  <2>. HIDE DEF g
  <2>. QED
    BY <2>4
<1>. HIDE DEF T
<1>3. Nat \subseteq T
  BY <1>1, <1>2, EveryNat
<1>. QED
  BY <1>3 DEF T

\* The units up to n repeat no definition of the category.
Apart(category, n) ==
  /\ \A k \in 1..n : Repeated(DefinitionsOf(category, k)) = {}
  /\ \A j, k \in 1..n :
       j # k => Names(DefinitionsOf(category, j)) \cap Names(DefinitionsOf(category, k)) = {}
AllNames(category, n) == UNION {Names(DefinitionsOf(category, k)) : k \in 1..n}

\* What one more unit adds, and when it repeats nothing.
LEMMA ApartNext ==
  ASSUME NEW category, NEW n \in Nat
  PROVE  /\ AllNames(category, n + 1) = AllNames(category, n) \cup Names(DefinitionsOf(category, n + 1))
         /\ Apart(category, n + 1) <=>
              /\ Apart(category, n) /\ Repeated(DefinitionsOf(category, n + 1)) = {}
              /\ AllNames(category, n) \cap Names(DefinitionsOf(category, n + 1)) = {}
<1>1. \A k \in 1..n + 1 : k \in 1..n \/ k = n + 1
  OBVIOUS
<1>2. 1..n \subseteq 1..n + 1 /\ n + 1 \in 1..n + 1 /\ n + 1 \notin 1..n
  OBVIOUS
<1>3. AllNames(category, n + 1) = AllNames(category, n) \cup Names(DefinitionsOf(category, n + 1))
  BY <1>1, <1>2 DEF AllNames
<1>4. ASSUME Apart(category, n + 1)
      PROVE  /\ Apart(category, n) /\ Repeated(DefinitionsOf(category, n + 1)) = {}
             /\ AllNames(category, n) \cap Names(DefinitionsOf(category, n + 1)) = {}
  BY <1>2, <1>4 DEF Apart, AllNames
<1>5. ASSUME Apart(category, n), Repeated(DefinitionsOf(category, n + 1)) = {},
             AllNames(category, n) \cap Names(DefinitionsOf(category, n + 1)) = {}
      PROVE  Apart(category, n + 1)
  <2>1. \A k \in 1..n : Names(DefinitionsOf(category, k)) \cap Names(DefinitionsOf(category, n + 1)) = {}
    BY <1>5 DEF AllNames
  <2>. QED
    BY <1>1, <1>5, <2>1 DEF Apart
<1>. QED
  BY <1>3, <1>4, <1>5

\* What the linker joins: everything the units define, and repeated exactly
\* if a unit repeats something or two units share something.
LEMMA JoinedDefinitions ==
  ASSUME NEW X, NEW category, Len(order) \in Nat,
         \A k \in 1..Len(order) : DefinitionsOf(category, k) \in Seq(X)
  PROVE  /\ Names(Joined(category)) = AllNames(category, Len(order))
         /\ Repeated(Joined(category)) = {} <=> Apart(category, Len(order))
<1>. DEFINE n == Len(order)
            f == CHOOSE upto : Joins(upto, category, n)
<1>1. Joined(category) = f[n]
  BY DEF Joined, Joins, Extended
<1>2. Joins(f, category, n)
  BY JoinsExist
<1>. HIDE DEF f
<1>. DEFINE Good(k) == /\ f[k] \in Seq(X) /\ Names(f[k]) = AllNames(category, k)
                       /\ Repeated(f[k]) = {} <=> Apart(category, k)
            T == {k \in Nat : k <= n => Good(k)}
<1>3. 0 \in T
  <2>1. f[0] = <<>>
    BY <1>2 DEF Joins
  <2>2. AllNames(category, 0) = {} /\ Apart(category, 0)
    BY DEF AllNames, Apart
  <2>3. f[0] \in Seq(X) /\ Names(f[0]) = {} /\ Repeated(f[0]) = {}
    BY <2>1 DEF Names, Repeated
  <2>. QED
    BY <2>2, <2>3
<1>4. ASSUME NEW k \in Nat, k \in T PROVE k + 1 \in T
  <2>. SUFFICES ASSUME k + 1 <= n PROVE Good(k + 1)
    OBVIOUS
  <2>. DEFINE d == DefinitionsOf(category, k + 1)
  <2>1. Good(k) /\ d \in Seq(X)
    BY <1>4
  <2>2. f[k + 1] = f[k] \o d
    <3>1. k + 1 \in 0..n /\ k + 1 # 0 /\ (k + 1) - 1 = k
      OBVIOUS
    <3>. QED
      BY <1>2, <3>1 DEF Joins, Extended
  <2>3. /\ AllNames(category, k + 1) = AllNames(category, k) \cup Names(d)
        /\ Apart(category, k + 1) <=> /\ Apart(category, k) /\ Repeated(d) = {}
                                      /\ AllNames(category, k) \cap Names(d) = {}
    BY ApartNext
  <2>. HIDE DEF d
  <2>4. Concatenates(f[k + 1], f[k], d)
    BY <2>2 DEF Concatenates
  <2>5. /\ f[k + 1] \in Seq(X) /\ Names(f[k + 1]) = Names(f[k]) \cup Names(d)
        /\ Repeated(f[k + 1]) = {} <=> /\ Repeated(f[k]) = {} /\ Repeated(d) = {}
                                       /\ Names(f[k]) \cap Names(d) = {}
    BY <2>1, <2>4, ConcatenatedNames
  <2>. QED
    BY <2>1, <2>3, <2>5
<1>. HIDE DEF T
<1>5. Nat \subseteq T
  BY <1>3, <1>4, EveryNat
<1>6. n \in T
  BY <1>5
<1>. QED
  BY <1>1, <1>6 DEF T

-----------------------------------------------------------------------------
(* Reading a header, line by line.                                         *)

\* The lines before l of one of the kinds.
Before(u, l, kinds) == {i \in 1..l - 1 : u.lines[i].kind \in kinds}

\* What is known of a source when its lines before l have been read.
HeaderUpto(u, l, hasBody, mod, imps) ==
  /\ Before(u, l, {"ill-formed"}) = {}
  /\ hasBody <=> Before(u, l, {"text"}) # {}
  /\ mod = None <=> Before(u, l, {"module"}) = {}
  /\ \A i \in Before(u, l, {"module"}) : mod = u.lines[i].name
  /\ \A i, j \in Before(u, l, {"module"}) : i = j
  /\ \A i, j \in Before(u, l, {"import"}) : u.lines[i].name = u.lines[j].name => i = j
  /\ \A i \in Before(u, l, {"import"}) : \E m \in Before(u, l, {"module"}) : m < i
  /\ \A i \in Before(u, l, {"module", "import"}), t \in Before(u, l, {"text"}) : i < t
  /\ Names(imps) = {u.lines[i].name : i \in Before(u, l, {"import"})}
  /\ Len(imps) = Cardinality(Before(u, l, {"import"}))

\* The lines of a source and their kinds.
LEMMA LineType ==
  ASSUME NEW u \in SourceUnit, NEW l \in 1..Len(u.lines)
  PROVE  /\ u.lines \in Seq(HeaderLine) /\ Len(u.lines) \in Nat /\ DOMAIN u.lines = 1..Len(u.lines)
         /\ u.lines[l].kind \in {"module", "import", "blank", "ill-formed", "text"}
         /\ u.lines[l].kind \in {"module", "import"} => u.lines[l].name \in Nat
<1>1. u.lines \in Seq(HeaderLine)
  BY DEF SourceUnit
<1>2. u.lines[l] \in HeaderLine
  BY <1>1
<1>. QED
  BY <1>1, <1>2 DEF HeaderLine

\* A line of another kind is not among those before the next.
LEMMA BeforeSkips ==
  ASSUME NEW u, NEW l \in Nat \ {0}, NEW kinds, u.lines[l].kind \notin kinds
  PROVE  Before(u, l + 1, kinds) = Before(u, l, kinds)
<1>1. \A i \in 1..(l + 1) - 1 : i \in 1..l - 1 \/ i = l
  OBVIOUS
<1>2. \A i \in 1..l - 1 : i \in 1..(l + 1) - 1
  OBVIOUS
<1>. QED
  BY <1>1, <1>2 DEF Before

\* A line of the kind is.
LEMMA BeforeTakes ==
  ASSUME NEW u, NEW l \in Nat \ {0}, NEW kinds, u.lines[l].kind \in kinds
  PROVE  Before(u, l + 1, kinds) = Before(u, l, kinds) \cup {l}
<1>1. \A i \in 1..(l + 1) - 1 : i \in 1..l - 1 \/ i = l
  OBVIOUS
<1>2. \A i \in 1..l - 1 : i \in 1..(l + 1) - 1
  OBVIOUS
<1>3. l \in 1..(l + 1) - 1
  OBVIOUS
<1>. QED
  BY <1>1, <1>2, <1>3 DEF Before

\* The lines before a line are finitely many and before it.
LEMMA BeforeIsBefore ==
  ASSUME NEW u, NEW l \in Nat \ {0}, NEW kinds
  PROVE  /\ IsFiniteSet(Before(u, l, kinds)) /\ l \notin Before(u, l, kinds)
         /\ \A i \in Before(u, l, kinds) : i \in Nat /\ i < l
<1>1. IsFiniteSet(1..l - 1)
  BY FS_Interval
<1>. QED
  BY <1>1, FS_Subset DEF Before

\* The names and the length of a sequence with one value more.
LEMMA AppendedName ==
  ASSUME NEW X, NEW s \in Seq(X), NEW e
  PROVE  Names(Append(s, e)) = Names(s) \cup {e} /\ Len(Append(s, e)) = Len(s) + 1
<1>1. /\ DOMAIN Append(s, e) = 1..Len(s) + 1 /\ DOMAIN s = 1..Len(s) /\ Len(s) \in Nat
      /\ \A k \in 1..Len(s) : Append(s, e)[k] = s[k]
      /\ Append(s, e)[Len(s) + 1] = e /\ Len(Append(s, e)) = Len(s) + 1
  OBVIOUS
<1>2. \A k \in 1..Len(s) + 1 : k \in 1..Len(s) \/ k = Len(s) + 1
  BY <1>1
<1>3. \A k \in 1..Len(s) : k \in 1..Len(s) + 1
  BY <1>1
<1>4. Len(s) + 1 \in 1..Len(s) + 1
  BY <1>1
<1>. QED
  BY <1>1, <1>2, <1>3, <1>4 DEF Names

\* The four lines that are read on from.
LEMMA HeaderBegins ==
  ASSUME NEW u \in SourceUnit
  PROVE  HeaderUpto(u, 1, FALSE, None, <<>>)
<1>1. \A kinds : Before(u, 1, kinds) = {}
  BY DEF Before
<1>. QED
  BY <1>1, FS_EmptySet DEF HeaderUpto, Names

\* A blank line says nothing.
LEMMA HeaderBlank ==
  ASSUME NEW u \in SourceUnit, NEW l \in 1..Len(u.lines), u.lines[l].kind = "blank",
         NEW b, NEW mod, NEW imps, HeaderUpto(u, l, b, mod, imps)
  PROVE  HeaderUpto(u, l + 1, b, mod, imps)
<1>1. l \in Nat \ {0}
  BY LineType
<1>2. /\ Before(u, l + 1, {"ill-formed"}) = Before(u, l, {"ill-formed"})
      /\ Before(u, l + 1, {"text"}) = Before(u, l, {"text"})
      /\ Before(u, l + 1, {"module"}) = Before(u, l, {"module"})
      /\ Before(u, l + 1, {"import"}) = Before(u, l, {"import"})
      /\ Before(u, l + 1, {"module", "import"}) = Before(u, l, {"module", "import"})
  BY <1>1, BeforeSkips, BeforeTakes, BeforeIsBefore
<1>. QED
  BY <1>2 DEF HeaderUpto

\* After a line of text the body has begun.
LEMMA HeaderText ==
  ASSUME NEW u \in SourceUnit, NEW l \in 1..Len(u.lines), u.lines[l].kind = "text",
         NEW b, NEW mod, NEW imps, HeaderUpto(u, l, b, mod, imps)
  PROVE  HeaderUpto(u, l + 1, TRUE, mod, imps)
<1>1. l \in Nat \ {0}
  BY LineType
<1>2. /\ Before(u, l + 1, {"ill-formed"}) = Before(u, l, {"ill-formed"})
      /\ Before(u, l + 1, {"module"}) = Before(u, l, {"module"})
      /\ Before(u, l + 1, {"import"}) = Before(u, l, {"import"})
      /\ Before(u, l + 1, {"module", "import"}) = Before(u, l, {"module", "import"})
  BY <1>1, BeforeSkips, BeforeTakes, BeforeIsBefore
<1>3. Before(u, l + 1, {"text"}) = Before(u, l, {"text"}) \cup {l}
  BY <1>1, BeforeTakes
<1>4. \A i \in Before(u, l, {"module", "import"}) : i < l
  BY <1>1, BeforeIsBefore
<1>. QED
  BY <1>2, <1>3, <1>4 DEF HeaderUpto

\* The first module line, before the body, names the module.
LEMMA HeaderModule ==
  ASSUME NEW u \in SourceUnit, NEW l \in 1..Len(u.lines), u.lines[l].kind = "module",
         NEW imps, HeaderUpto(u, l, FALSE, None, imps)
  PROVE  HeaderUpto(u, l + 1, FALSE, u.lines[l].name, imps)
<1>1. l \in Nat \ {0} /\ u.lines[l].name # None
  BY LineType, ProjectConstants
<1>2. /\ Before(u, l + 1, {"ill-formed"}) = Before(u, l, {"ill-formed"})
      /\ Before(u, l + 1, {"text"}) = Before(u, l, {"text"})
      /\ Before(u, l + 1, {"import"}) = Before(u, l, {"import"})
  BY <1>1, BeforeSkips, BeforeTakes, BeforeIsBefore
<1>3. Before(u, l + 1, {"module"}) = Before(u, l, {"module"}) \cup {l}
  BY <1>1, BeforeTakes
<1>5. Before(u, l + 1, {"module", "import"}) = Before(u, l, {"module", "import"}) \cup {l}
  BY <1>1, BeforeTakes
<1>4. Before(u, l, {"module"}) = {} /\ Before(u, l, {"text"}) = {}
  BY DEF HeaderUpto
<1>. QED
  BY <1>1, <1>2, <1>3, <1>4, <1>5 DEF HeaderUpto

\* A new import, after the module line and before the body, is added.
LEMMA HeaderImport ==
  ASSUME NEW u \in SourceUnit, NEW l \in 1..Len(u.lines), u.lines[l].kind = "import",
         NEW mod, mod # None, NEW imps \in Seq(Nat), HeaderUpto(u, l, FALSE, mod, imps),
         u.lines[l].name \notin Names(imps)
  PROVE  HeaderUpto(u, l + 1, FALSE, mod, Append(imps, u.lines[l].name))
<1>. DEFINE B == Before(u, l, {"import"})
            news == Append(imps, u.lines[l].name)
<1>1. l \in Nat \ {0}
  BY LineType
<1>2. /\ Before(u, l + 1, {"ill-formed"}) = Before(u, l, {"ill-formed"})
      /\ Before(u, l + 1, {"text"}) = Before(u, l, {"text"})
      /\ Before(u, l + 1, {"module"}) = Before(u, l, {"module"})
  BY <1>1, BeforeSkips, BeforeTakes, BeforeIsBefore
<1>13. Before(u, l + 1, {"import"}) = B \cup {l}
  BY <1>1, BeforeTakes
<1>14. Before(u, l + 1, {"module", "import"}) = Before(u, l, {"module", "import"}) \cup {l}
  BY <1>1, BeforeTakes
<1>3. /\ l \notin B /\ IsFiniteSet(B)
      /\ \A i \in Before(u, l, {"module"}) : i < l
  BY <1>1, BeforeIsBefore
<1>4. Before(u, l, {"text"}) = {} /\ Before(u, l, {"module"}) # {}
      /\ Names(imps) = {u.lines[i].name : i \in B} /\ Len(imps) = Cardinality(B)
  BY DEF HeaderUpto
<1>5. \A i \in B : u.lines[i].name # u.lines[l].name
  BY <1>4
<1>6. Names(news) = Names(imps) \cup {u.lines[l].name} /\ Len(news) = Len(imps) + 1
  BY AppendedName
<1>7. Cardinality(B \cup {l}) = Cardinality(B) + 1
  BY <1>3, FS_AddElement
<1>. HIDE DEF news
<1>8. Names(news) = {u.lines[i].name : i \in B \cup {l}}
  BY <1>4, <1>6
<1>9. \A i, j \in B \cup {l} : u.lines[i].name = u.lines[j].name => i = j
  BY <1>5 DEF HeaderUpto
<1>10. \A i \in B \cup {l} : \E m \in Before(u, l, {"module"}) : m < i
  BY <1>3, <1>4 DEF HeaderUpto
<1>11. Len(news) = Cardinality(B \cup {l})
  BY <1>4, <1>6, <1>7
<1>12. HeaderUpto(u, l + 1, FALSE, mod, news)
  <2>. HIDE DEF B
  <2>. QED
    BY <1>2, <1>13, <1>14, <1>4, <1>8, <1>9, <1>10, <1>11 DEF HeaderUpto
<1>. QED
  BY <1>12 DEF news

\* The three that are refused.
LEMMA LineBefore ==
  ASSUME NEW u \in SourceUnit, NEW l \in 1..Len(u.lines), NEW kinds
  PROVE  /\ Before(u, l, kinds) \subseteq LinesOf(u, kinds)
         /\ u.lines[l].kind \in kinds => l \in LinesOf(u, kinds)
         /\ \A i \in LinesOf(u, kinds) : i < l => i \in Before(u, l, kinds)
         /\ \A i \in Before(u, l, kinds) : i < l
<1>1. DOMAIN u.lines = 1..Len(u.lines) /\ Len(u.lines) \in Nat
  BY LineType
<1>. QED
  BY <1>1 DEF Before, LinesOf

\* Every line that parse_module_source refuses makes its header ill-formed.
LEMMA BadLine ==
  ASSUME NEW u \in SourceUnit, NEW l \in 1..Len(u.lines), NEW b, NEW mod, NEW imps,
         HeaderUpto(u, l, b, mod, imps),
         \/ u.lines[l].kind = "ill-formed"
         \/ u.lines[l].kind \in {"module", "import"} /\ b
         \/ u.lines[l].kind = "module" /\ mod # None
         \/ u.lines[l].kind = "import" /\ mod = None
         \/ u.lines[l].kind = "import" /\ u.lines[l].name \in Names(imps)
  PROVE  ~GoodHeader(u)
<1>0. l \in Nat
  OBVIOUS
<1>1. CASE u.lines[l].kind = "ill-formed"
  BY <1>1, LineBefore DEF GoodHeader
<1>2. CASE u.lines[l].kind \in {"module", "import"} /\ b
  <2>1. PICK t \in Before(u, l, {"text"}) : TRUE
    BY <1>2 DEF HeaderUpto
  <2>2. t < l /\ t \in LinesOf(u, {"text"}) /\ l \in LinesOf(u, {"module", "import"}) /\ t \in Nat
    BY <1>2, LineBefore DEF Before
  <2>. QED
    BY <1>0, <2>2 DEF GoodHeader
<1>3. CASE u.lines[l].kind = "module" /\ mod # None
  <2>1. PICK m \in Before(u, l, {"module"}) : TRUE
    BY <1>3 DEF HeaderUpto
  <2>2. m < l /\ m \in LinesOf(u, {"module"}) /\ l \in LinesOf(u, {"module"}) /\ m \in Nat
    BY <1>3, LineBefore DEF Before
  <2>. QED
    BY <1>0, <2>2 DEF GoodHeader
<1>4. CASE u.lines[l].kind = "import" /\ mod = None
  <2>1. Before(u, l, {"module"}) = {}
    BY <1>4 DEF HeaderUpto
  <2>2. l \in LinesOf(u, {"import"})
    BY <1>4, LineBefore
  <2>3. \A m \in LinesOf(u, {"module"}) : ~(m < l)
    BY <2>1, LineBefore
  <2>. QED
    BY <2>2, <2>3 DEF GoodHeader
<1>5. CASE u.lines[l].kind = "import" /\ u.lines[l].name \in Names(imps)
  <2>1. PICK i \in Before(u, l, {"import"}) : u.lines[i].name = u.lines[l].name
    BY <1>5 DEF HeaderUpto
  <2>2. i < l /\ i \in LinesOf(u, {"import"}) /\ l \in LinesOf(u, {"import"}) /\ i \in Nat
    BY <1>5, LineBefore DEF Before
  <2>. QED
    BY <1>0, <2>1, <2>2 DEF GoodHeader
<1>. QED
  BY <1>1, <1>2, <1>3, <1>4, <1>5

\* A header that is read to its end is good, and its module and imports known.
LEMMA HeaderComplete ==
  ASSUME NEW u \in SourceUnit, NEW b, NEW mod, NEW imps,
         HeaderUpto(u, Len(u.lines) + 1, b, mod, imps)
  PROVE  /\ GoodHeader(u)
         /\ ModuleOf(u) = IF mod = None THEN {} ELSE {mod}
         /\ ImportsOf(u) = Names(imps)
<1>1. u.lines \in Seq(HeaderLine) /\ Len(u.lines) \in Nat /\ DOMAIN u.lines = 1..Len(u.lines)
  BY DEF SourceUnit
<1>2. \A kinds : Before(u, Len(u.lines) + 1, kinds) = LinesOf(u, kinds)
  BY <1>1 DEF Before, LinesOf
<1>3. GoodHeader(u)
  BY <1>2 DEF HeaderUpto, GoodHeader
<1>4. ModuleOf(u) = IF mod = None THEN {} ELSE {mod}
  BY <1>2 DEF HeaderUpto, ModuleOf
<1>5. ImportsOf(u) = Names(imps)
  BY <1>2 DEF HeaderUpto, ImportsOf
<1>. QED
  BY <1>3, <1>4, <1>5

-----------------------------------------------------------------------------
(* Permutations of the units.                                              *)

\* A function from 1..n to 1..n that takes no value twice takes every value.
LEMMA Permutation ==
  ASSUME NEW n \in Nat, NEW f \in [1..n -> 1..n],
         \A j, k \in 1..n : f[j] = f[k] => j = k
  PROVE  \A k \in 1..n : \E j \in 1..n : f[j] = k
<1>1. IsFiniteSet(1..n)
  BY FS_Interval
<1>2. f \in Injection(1..n, 1..n)
  BY DEF Injection, IsInjective
<1>3. f \in Surjection(1..n, 1..n)
  BY <1>1, <1>2, FS_Injection
<1>. QED
  BY <1>3 DEF Surjection

\* A relation of strict order on the values makes a function injective.
LEMMA Ascending ==
  ASSUME NEW n \in Nat, NEW f, \A j, k \in 1..n : j < k => f[j] # f[k]
  PROVE  \A j, k \in 1..n : f[j] = f[k] => j = k
<1>1. \A j, k \in 1..n : j < k \/ k < j \/ j = k
  OBVIOUS
<1>. QED
  BY <1>1

\* The least of some naturals is one of them.
LEMMA LeastIn ==
  ASSUME NEW set, set \subseteq Nat, set # {}
  PROVE  Least(set) \in set
<1>1. \E k \in set : \A j \in set : k <= j
  BY LeastNat
<1>. QED
  BY <1>1 DEF Least

-----------------------------------------------------------------------------
(* What each stage has established: the inductive invariant.               *)

\* The units are the sources, each once.
Arranged ==
  /\ given # <<>> /\ Repeating(SourceNames, DOMAIN given) = {}
  /\ units \in Seq(SourceUnit) /\ DOMAIN units = DOMAIN given
  /\ Names(units) = Sources
  /\ Distinct(units)
  /\ module \in [DOMAIN units -> Nat \cup {None}]
  /\ imports \in [DOMAIN units -> Seq(Nat)]

HeaderRead(k) ==
  \E b \in BOOLEAN : HeaderUpto(units[k], Len(units[k].lines) + 1, b, module[k], imports[k])
AllRead == \A k \in DOMAIN units : HeaderRead(k)

\* The units before the one at hand are read, those after it are not begun.
Reading ==
  /\ at \in Nat \ {0} /\ body \in BOOLEAN /\ order = <<>>
  /\ \A k \in DOMAIN units : /\ k < at => HeaderRead(k)
                             /\ k > at => module[k] = None /\ imports[k] = <<>>
  /\ at \in DOMAIN units => /\ line \in 1..Len(units[at].lines) + 1
                            /\ HeaderUpto(units[at], line, body, module[at], imports[at])

\* The order has every unit once and, where there are modules, those that a
\* unit imports before it.
ModulesResolve == /\ Repeating(module, Explicit) = {} /\ Unresolved = {}
                  /\ \A i \in DOMAIN order : Names(imports[order[i]]) \subseteq Placed(order, i - 1)
Ordered ==
  /\ order \in [DOMAIN units -> DOMAIN units]
  /\ Distinct(order) /\ \A k \in DOMAIN units : \E j \in DOMAIN order : order[j] = k
  /\ Explicit = {} \/ Explicit = DOMAIN units
  /\ Explicit # {} => ModulesResolve

CompiledAt(i) == units[order[i]].declares.kind \in {"directive", "function"}
VisibleAt(i) == \A id \in Names(units[order[i]].refers) :
                  OwnersOf(id) # {} => module[order[Owner(id)]] \in Visible(order[i])
Merged(c) == /\ program[Categories[c]] = Joined(Categories[c])
             /\ Repeated(Joined(Categories[c])) = {}
Checked == Dangling = {} /\ ~\E functions \in SUBSET Names(program.function) : Recursive(functions)

Sorted(stage)  == stage \in {"headers", "compile", "visibility", "link", "validate", "entry",
                             "built", "executed"}
Placing(stage) == Sorted(stage) /\ stage # "headers"
Seeing(stage)  == Placing(stage) /\ stage # "compile"
Linking(stage) == Seeing(stage) /\ stage # "visibility"
Checking(stage) == Linking(stage) /\ stage # "link"
Ending(stage)  == Checking(stage) /\ stage # "validate"
Done(stage)    == Ending(stage) /\ stage # "entry"

Established(stage, place) ==
  /\ Sorted(stage) => Arranged
  /\ stage = "headers" => Reading
  /\ Placing(stage) => AllRead /\ Ordered
  /\ stage = "compile" => \A i \in DOMAIN order : i < place => CompiledAt(i)
  /\ Seeing(stage) => \A i \in DOMAIN order : CompiledAt(i)
  /\ stage = "visibility" => /\ Explicit # {}
                             /\ \A i \in DOMAIN order : i < place => VisibleAt(i)
  /\ Linking(stage) => Explicit = {} \/ \A i \in DOMAIN order : VisibleAt(i)
  /\ stage = "link" => \A c \in 1..3 : c < place => Merged(c)
  /\ Checking(stage) => \A c \in 1..3 : Merged(c)
  /\ Ending(stage) => Checked
  /\ Done(stage) => Valid

Begun == /\ units = <<>> /\ module = <<>> /\ imports = <<>> /\ order = <<>>
         /\ at = 1 /\ line = 1 /\ body = FALSE

BuildInv ==
  /\ given \in Seq(SourceUnit) /\ at \in Nat \ {0}
  /\ DOMAIN program = {"state", "directive", "function"}
  /\ phase = "sources" => Begun
  /\ Established(phase, at)
  /\ phase = "refused" /\ failure.code # "ProjectEntryPointError" => ~Valid

-----------------------------------------------------------------------------
(* The sources and the units.                                              *)

\* The units are the sources, and one source is one unit.
LEMMA UnitsOfProject ==
  ASSUME Arranged
  PROVE  /\ Len(units) \in Nat \ {0} /\ DOMAIN units = 1..Len(units)
         /\ DOMAIN given = DOMAIN units
         /\ DOMAIN module = DOMAIN units /\ DOMAIN imports = DOMAIN units
         /\ \A k \in DOMAIN units : /\ units[k] \in SourceUnit /\ units[k] \in Sources
                                    /\ module[k] \in Nat \cup {None}
                                    /\ imports[k] \in Seq(Nat)
         /\ \A u \in Sources : \E k \in DOMAIN units : u = units[k]
         /\ \A j, k \in DOMAIN units : units[j] = units[k] => j = k
<1>1. /\ units \in Seq(SourceUnit) /\ DOMAIN units = DOMAIN given /\ given # <<>>
      /\ Names(units) = Sources /\ Distinct(units)
      /\ module \in [DOMAIN units -> Nat \cup {None}]
      /\ imports \in [DOMAIN units -> Seq(Nat)]
  BY DEF Arranged
<1>2. Len(units) \in Nat /\ DOMAIN units = 1..Len(units)
  BY <1>1
<1>3. \E u : u \in Sources
  <2>1. \E k : k \in DOMAIN units
    <3>1. CASE Len(units) = 0
      <4>1. units = <<>>
        BY <1>1, <3>1
      <4>2. DOMAIN given = {}
        BY <1>1, <4>1
      <4>. QED
        BY <1>1, <4>1, <4>2 DEF Arranged
    <3>2. CASE Len(units) # 0
      BY <1>2, <3>2
    <3>. QED
      BY <3>1, <3>2
  <2>. QED
    BY <1>1, <2>1 DEF Names
<1>. QED
  BY <1>1, <1>2, <1>3 DEF Names, Distinct

\* What the source of a unit that is read declares and imports.
LEMMA ReadUnit ==
  ASSUME Arranged, NEW k \in DOMAIN units, HeaderRead(k)
  PROVE  /\ GoodHeader(units[k])
         /\ ModuleOf(units[k]) = IF module[k] = None THEN {} ELSE {module[k]}
         /\ ImportsOf(units[k]) = Names(imports[k])
<1>1. units[k] \in SourceUnit
  BY UnitsOfProject
<1>2. PICK b : HeaderUpto(units[k], Len(units[k].lines) + 1, b, module[k], imports[k])
  BY DEF HeaderRead
<1>. QED
  BY <1>1, <1>2, HeaderComplete

\* The same of all units, and of those that declare a module.
LEMMA ReadUnits ==
  ASSUME Arranged, AllRead
  PROVE  /\ \A k \in DOMAIN units : /\ GoodHeader(units[k])
                                    /\ ModuleOf(units[k]) = IF module[k] = None THEN {} ELSE {module[k]}
                                    /\ ImportsOf(units[k]) = Names(imports[k])
         /\ \A k \in Explicit : k \in DOMAIN units /\ ModuleOf(units[k]) = {module[k]}
<1>1. \A k \in DOMAIN units : /\ GoodHeader(units[k])
                              /\ ModuleOf(units[k]) = IF module[k] = None THEN {} ELSE {module[k]}
                              /\ ImportsOf(units[k]) = Names(imports[k])
  BY ReadUnit DEF AllRead
<1>. QED
  BY <1>1, UnitsOfProject DEF Explicit

\* With modules, each unit has one, no two of the same name.
LEMMA ModulesApart ==
  ASSUME Arranged, Ordered, Explicit # {}
  PROVE  /\ Explicit = DOMAIN units
         /\ \A k \in DOMAIN units : module[k] \in Nat
         /\ \A j, k \in DOMAIN units : Fold(module[j]) = Fold(module[k]) => j = k
         /\ \A j, k \in DOMAIN units : module[j] = module[k] => j = k
<1>1. Explicit = DOMAIN units /\ Repeating(module, Explicit) = {}
  BY DEF Ordered, ModulesResolve
<1>2. \A k \in DOMAIN units : module[k] \in Nat
  BY <1>1, UnitsOfProject DEF Explicit
<1>3. \A j, k \in DOMAIN units : j < k => Fold(module[j]) # Fold(module[k])
  BY <1>1 DEF Repeating
<1>4. \A j, k \in DOMAIN units : j < k \/ k < j \/ j = k
  BY UnitsOfProject
<1>5. \A j, k \in DOMAIN units : Fold(module[j]) = Fold(module[k]) => j = k
  BY <1>3, <1>4
<1>. QED
  BY <1>1, <1>2, <1>5 DEF Fold

\* The places of the order and the units they hold, one for one.
LEMMA Places ==
  ASSUME Arranged, Ordered
  PROVE  /\ DOMAIN order = DOMAIN units /\ Len(order) = Len(units)
         /\ \A j \in DOMAIN order : order[j] \in DOMAIN units
         /\ \A j, k \in DOMAIN order : order[j] = order[k] => j = k
         /\ \A k \in DOMAIN units : \E j \in DOMAIN order : order[j] = k
<1>1. DOMAIN order = DOMAIN units /\ DOMAIN order = 1..Len(units) /\ Len(units) \in Nat
  BY UnitsOfProject DEF Ordered
<1>2. order \in Seq(DOMAIN units)
  BY <1>1 DEF Ordered
<1>3. Len(order) = Len(units)
  BY <1>1, <1>2
<1>. QED
  BY <1>1, <1>3 DEF Ordered, Distinct

\* What a unit at a place imports stands before it.
LEMMA ImportedBefore ==
  ASSUME Arranged, Ordered, Explicit # {}, NEW i \in DOMAIN order, NEW j \in DOMAIN order,
         module[order[j]] \in Names(imports[order[i]])
  PROVE  j < i
<1>1. module[order[j]] \in Placed(order, i - 1)
  BY DEF Ordered, ModulesResolve
<1>2. PICK k \in 1..i - 1 : module[order[j]] = module[order[k]]
  BY <1>1 DEF Placed
<1>3. i \in 1..Len(units) /\ Len(units) \in Nat /\ DOMAIN order = 1..Len(units)
  BY Places, UnitsOfProject
<1>4. k \in DOMAIN order /\ k < i
  BY <1>2, <1>3
<1>7. order[j] \in DOMAIN units /\ order[k] \in DOMAIN units
  BY <1>4, Places
<1>8. \A a, b \in DOMAIN units : module[a] = module[b] => a = b
  BY ModulesApart
<1>5. order[j] = order[k]
  BY <1>2, <1>7, <1>8
<1>6. j = k
  BY <1>4, <1>5, Places
<1>. QED
  BY <1>4, <1>6

-----------------------------------------------------------------------------
(* Linking: what is defined twice, and what is defined.                    *)

Category == {"state", "directive", "function"}

\* The categories by their numbers.
LEMMA CategoryNumbers ==
  /\ Categories[1] = "state" /\ Categories[2] = "directive" /\ Categories[3] = "function"
  /\ \A c \in 1..3 : Categories[c] \in Category
  /\ Len(Categories) = 3
BY DEF Categories, Category

\* What a unit defines in a category is a sequence.
LEMMA DefinitionsTyped ==
  ASSUME Arranged, Ordered, NEW c \in Category
  PROVE  /\ Len(order) \in Nat /\ DOMAIN order = 1..Len(order)
         /\ \A k \in 1..Len(order) : DefinitionsOf(c, k) \in Seq(STRING \cup Definition)
<1>1. Len(order) \in Nat /\ DOMAIN order = 1..Len(order)
  BY Places, UnitsOfProject
<1>2. ASSUME NEW k \in 1..Len(order)
      PROVE  DefinitionsOf(c, k) \in Seq(STRING \cup Definition)
  <2>1. units[order[k]] \in SourceUnit
    BY <1>1, Places, UnitsOfProject
  <2>2. units[order[k]].states \in Seq(STRING) /\ units[order[k]].declares \in Definition
    BY <2>1 DEF SourceUnit
  <2>3. units[order[k]].states \in Seq(STRING \cup Definition)
    BY <2>2
  <2>4. <<units[order[k]].declares>> \in Seq(STRING \cup Definition)
    BY <2>2
  <2>5. <<>> \in Seq(STRING \cup Definition)
    OBVIOUS
  <2>. QED
    BY <2>3, <2>4, <2>5 DEF DefinitionsOf
<1>. QED
  BY <1>1, <1>2

\* The names that are linked, and when the linker finds none twice.
LEMMA LinkedNames ==
  ASSUME Arranged, Ordered, NEW c \in Category
  PROVE  /\ Names(Joined(c)) = AllNames(c, Len(order))
         /\ Repeated(Joined(c)) = {} <=> Apart(c, Len(order))
BY DefinitionsTyped, JoinedDefinitions

\* The names of one declaration, or of none.
LEMMA DeclaredNames ==
  ASSUME NEW c \in {"directive", "function"}, NEW k
  PROVE  /\ Names(DefinitionsOf(c, k)) = {d \in {units[order[k]].declares} : d.kind = c}
         /\ Repeated(DefinitionsOf(c, k)) = {}
         /\ Names(DefinitionsOf("state", k)) = Names(units[order[k]].states)
         /\ Repeated(DefinitionsOf("state", k)) = Repeated(units[order[k]].states)
<1>1. DefinitionsOf("state", k) = units[order[k]].states
  BY DEF DefinitionsOf
<1>. DEFINE d == units[order[k]].declares
<1>2. DefinitionsOf(c, k) = IF d.kind = c THEN <<d>> ELSE <<>>
  BY DEF DefinitionsOf
<1>. HIDE DEF d
<1>3. /\ Names(<<d>>) = {d} /\ Names(<<>>) = {}
      /\ Repeated(<<d>>) = {} /\ Repeated(<<>>) = {}
  BY DEF Names, Repeated
<1>4. Names(DefinitionsOf(c, k)) = {e \in {d} : e.kind = c} /\ Repeated(DefinitionsOf(c, k)) = {}
  BY <1>2, <1>3
<1>. QED
  BY <1>1, <1>4 DEF d

\* What is linked as a directive or function is what the units declare as one.
LEMMA LinkedDeclarations ==
  ASSUME Arranged, Ordered, NEW c \in {"directive", "function"}, NEW id
  PROVE  id \in Names(Joined(c)) <=> \E k \in DOMAIN units : id = units[k].declares /\ id.kind = c
<1>1. c \in Category
  BY DEF Category
<1>2. Names(Joined(c)) = AllNames(c, Len(order)) /\ DOMAIN order = 1..Len(order)
  BY <1>1, LinkedNames, DefinitionsTyped
<1>3. id \in AllNames(c, Len(order))
        <=> \E j \in DOMAIN order : id \in {d \in {units[order[j]].declares} : d.kind = c}
  BY <1>2, DeclaredNames DEF AllNames
<1>. QED
  BY <1>2, <1>3, Places

\* A repeated definition is one that two sources share or one repeats.
LEMMA RepeatedIsBad ==
  ASSUME Arranged, Ordered, NEW c \in Category, Repeated(Joined(c)) # {}
  PROVE  ~GoodDefinitions
<1>. SUFFICES ASSUME GoodDefinitions PROVE Apart(c, Len(order))
  BY LinkedNames
<1>0. DOMAIN order = 1..Len(order)
  BY DefinitionsTyped
<1>1. \A k \in DOMAIN units : Repeated(units[k].states) = {}
  BY UnitsOfProject DEF GoodDefinitions
<1>2. \A j, k \in DOMAIN units :
        j # k => /\ units[j].declares # units[k].declares
                 /\ Names(units[j].states) \cap Names(units[k].states) = {}
  BY UnitsOfProject DEF GoodDefinitions
<1>3. \A k \in DOMAIN order : Repeated(DefinitionsOf(c, k)) = {}
  BY <1>1, DeclaredNames, Places DEF Category
<1>4. ASSUME NEW j \in DOMAIN order, NEW k \in DOMAIN order, j # k
      PROVE  Names(DefinitionsOf(c, j)) \cap Names(DefinitionsOf(c, k)) = {}
  <2>1. /\ units[order[j]].declares # units[order[k]].declares
        /\ Names(units[order[j]].states) \cap Names(units[order[k]].states) = {}
    BY <1>2, <1>4, Places
  <2>2. CASE c = "state"
    BY <2>1, <2>2, DeclaredNames
  <2>3. CASE c \in {"directive", "function"}
    BY <2>1, <2>3, DeclaredNames
  <2>. QED
    BY <2>2, <2>3 DEF Category
<1>. QED
  BY <1>0, <1>3, <1>4 DEF Apart

\* What is linked is defined once.
LEMMA MergedIsGood ==
  ASSUME Arranged, Ordered, \A i \in DOMAIN order : CompiledAt(i),
         \A c \in 1..3 : Merged(c)
  PROVE  GoodDefinitions
<1>0. DOMAIN order = 1..Len(order)
  BY DefinitionsTyped, CategoryNumbers
<1>1. \A c \in Category : Apart(c, Len(order))
  <2>1. Repeated(Joined("state")) = {} /\ Repeated(Joined("directive")) = {}
        /\ Repeated(Joined("function")) = {}
    BY CategoryNumbers DEF Merged
  <2>. QED
    BY <2>1, LinkedNames DEF Category
<1>2. \A k \in DOMAIN order : Repeated(units[order[k]].states) = {}
  <2>1. Apart("state", Len(order))
    BY <1>1 DEF Category
  <2>. QED
    BY <1>0, <2>1, DeclaredNames DEF Apart
<1>3. \A k \in DOMAIN units : Repeated(units[k].states) = {}
  BY <1>2, Places
<1>4. \A k \in DOMAIN units : units[k].declares.kind \in {"directive", "function"}
  BY Places DEF CompiledAt
<1>5. ASSUME NEW j \in DOMAIN order, NEW k \in DOMAIN order, j # k
      PROVE  /\ units[order[j]].declares # units[order[k]].declares
             /\ Names(units[order[j]].states) \cap Names(units[order[k]].states) = {}
  <2>1. Apart("state", Len(order)) /\ Apart(units[order[j]].declares.kind, Len(order))
    BY <1>1, <1>4, Places DEF Category
  <2>2. Names(units[order[j]].states) \cap Names(units[order[k]].states) = {}
    BY <1>0, <1>5, <2>1, DeclaredNames DEF Apart
  <2>3. ASSUME units[order[j]].declares = units[order[k]].declares PROVE FALSE
    <3>. DEFINE d == units[order[j]].declares
    <3>1. d.kind \in {"directive", "function"}
      BY <1>4, Places
    <3>2. d \in Names(DefinitionsOf(d.kind, j)) /\ d \in Names(DefinitionsOf(d.kind, k))
      BY <2>3, <3>1, DeclaredNames
    <3>3. Names(DefinitionsOf(d.kind, j)) \cap Names(DefinitionsOf(d.kind, k)) = {}
      BY <1>0, <1>5, <2>1 DEF Apart
    <3>. QED
      BY <3>2, <3>3
  <2>. QED
    BY <2>2, <2>3
<1>6. ASSUME NEW u \in Sources, NEW v \in Sources, u # v
      PROVE  u.declares # v.declares /\ Names(u.states) \cap Names(v.states) = {}
  <2>1. PICK a \in DOMAIN units, b \in DOMAIN units : u = units[a] /\ v = units[b]
    BY UnitsOfProject
  <2>2. PICK j \in DOMAIN order, k \in DOMAIN order : order[j] = a /\ order[k] = b
    BY Places
  <2>3. j # k
    BY <1>6, <2>1, <2>2
  <2>. QED
    BY <1>5, <2>1, <2>2, <2>3
<1>8. \A u \in Sources : /\ u.declares.kind \in {"directive", "function"}
                         /\ Repeated(u.states) = {}
  BY <1>3, <1>4, UnitsOfProject
<1>. QED
  BY <1>6, <1>8 DEF GoodDefinitions

-----------------------------------------------------------------------------
(* What is refused is not valid.                                           *)

\* Sources of one name, but for case.
LEMMA DuplicateSourceIsBad ==
  ASSUME given \in Seq(SourceUnit), Repeating(SourceNames, DOMAIN given) # {}
  PROVE  ~Valid
<1>1. PICK j \in DOMAIN given, k \in DOMAIN given :
        j < k /\ Fold(given[j].source) = Fold(given[k].source)
  BY DEF Repeating, SourceNames
<1>2. j \in Nat /\ k \in Nat
  BY DOMAIN given = 1..Len(given)
<1>. QED
  BY <1>1, <1>2 DEF Valid

\* The header line at hand is read or refused.
LEMMA LineAtHand ==
  ASSUME Arranged, Reading, NEW kinds, AtLine(kinds)
  PROVE  /\ at \in DOMAIN units /\ units[at] \in SourceUnit /\ units[at] \in Sources
         /\ line \in 1..Len(units[at].lines) /\ Line = units[at].lines[line]
         /\ Line.kind \in kinds
         /\ HeaderUpto(units[at], line, body, module[at], imports[at])
<1>1. at \in DOMAIN units /\ line <= Len(units[at].lines) /\ Line.kind \in kinds
  BY UnitsOfProject DEF AtLine, Reading
<1>. QED
  BY <1>1, UnitsOfProject DEF Reading, Line

\* The line at hand that is refused.
LEMMA BadHeader ==
  ASSUME Arranged, Reading,
         \/ Declares /\ module[at] # None
         \/ Imports /\ module[at] = None
         \/ Imports /\ Line.name \in Names(imports[at])
         \/ AtLine({"ill-formed", "module", "import"}) /\ (Line.kind # "ill-formed" => body)
  PROVE  ~Valid
<1>1. PICK kinds : /\ AtLine(kinds)
                   /\ \/ kinds = {"module"} /\ module[at] # None
                      \/ kinds = {"import"} /\ module[at] = None
                      \/ kinds = {"import"} /\ Line.name \in Names(imports[at])
                      \/ /\ kinds = {"ill-formed", "module", "import"}
                         /\ Line.kind # "ill-formed" => body
  BY DEF Declares, Imports
<1>2. ~GoodHeader(units[at])
  BY <1>1, LineAtHand, BadLine
<1>. QED
  BY <1>1, <1>2, LineAtHand DEF Valid

\* Modules in some sources only.
LEMMA MissingIsBad ==
  ASSUME Arranged, AllRead, Explicit # {}, Explicit # DOMAIN units
  PROVE  ~Valid
<1>1. PICK j \in Explicit : TRUE
  OBVIOUS
<1>2. PICK k \in DOMAIN units : k \notin Explicit
  BY UnitsOfProject DEF Explicit
<1>3. module[k] = None
  BY <1>2, UnitsOfProject DEF Explicit
<1>4. ModuleOf(units[k]) = {}
  BY <1>3, ReadUnits
<1>5. ModuleOf(units[j]) # {} /\ j \in DOMAIN units
  BY ReadUnits
<1>. QED
  BY <1>4, <1>5, UnitsOfProject DEF Valid, GoodModules

\* Modules of one name, but for case.
LEMMA DuplicateModuleIsBad ==
  ASSUME Arranged, AllRead, Repeating(module, Explicit) # {}
  PROVE  ~Valid
<1>1. PICK j \in Explicit, k \in Explicit : j < k /\ Fold(module[j]) = Fold(module[k])
  BY DEF Repeating
<1>2. j \in DOMAIN units /\ k \in DOMAIN units /\ j # k
  BY <1>1, UnitsOfProject DEF Explicit
<1>3. ModuleOf(units[j]) = {module[j]} /\ ModuleOf(units[k]) = {module[k]}
  BY ReadUnits
<1>4. units[j] \in Sources /\ units[k] \in Sources /\ units[j] # units[k]
  BY <1>2, UnitsOfProject
<1>. QED
  BY <1>1, <1>3, <1>4 DEF Valid, GoodModules

\* An import that no source declares.
LEMMA UndefinedImportIsBad ==
  ASSUME Arranged, AllRead, Explicit = DOMAIN units, Unresolved # {}
  PROVE  ~Valid
<1>0. PICK k \in Explicit : ~(Names(imports[k]) \subseteq Declared)
  BY DEF Unresolved
<1>1. PICK m \in Names(imports[k]) : m \notin Declared
  BY <1>0
<1>2. k \in DOMAIN units /\ ImportsOf(units[k]) = Names(imports[k]) /\ ModuleOf(units[k]) # {}
  BY ReadUnits
<1>3. \A v \in Sources : m \notin ModuleOf(v)
  <2>. SUFFICES ASSUME NEW v \in Sources PROVE m \notin ModuleOf(v)
    OBVIOUS
  <2>1. PICK j \in DOMAIN units : v = units[j]
    BY UnitsOfProject
  <2>. QED
    BY <1>1, <2>1, ReadUnits DEF Declared
<1>4. units[k] \in Sources
  BY <1>2, UnitsOfProject
<1>. QED
  BY <1>1, <1>2, <1>3, <1>4 DEF Valid, GoodModules

\* A cycle of imports: in the set of its modules each imports one of the set.
LEMMA ImportCycleIsBad ==
  ASSUME Arranged, AllRead, NEW path \in Paths, IsCycle(path)
  PROVE  ~Valid
<1>1. PICK n \in 1..Cardinality(Explicit) : path \in [1..n -> Explicit]
  BY DEF Paths
<1>2. n \in Nat \ {0} /\ DOMAIN path = 1..n /\ path \in Seq(Explicit) /\ Len(path) = n
  <2>1. n \in Nat \ {0}
    BY <1>1, UnitsOfProject, FS_Interval, FS_Subset, FS_CardinalityType DEF Explicit
  <2>2. DOMAIN path = 1..n /\ path \in Seq(Explicit)
    BY <1>1, <2>1
  <2>. QED
    BY <2>1, <2>2
<1>. DEFINE following(k) == IF k = n THEN 1 ELSE k + 1
            set == {units[path[k]] : k \in 1..n}
<1>3. \A k \in 1..n : following(k) \in 1..n
  BY <1>2
<1>4. \A k \in 1..n : module[path[following(k)]] \in Names(imports[path[k]])
  BY <1>2 DEF IsCycle
<1>5. \A k \in 1..n : /\ path[k] \in DOMAIN units /\ units[path[k]] \in Sources
                      /\ ModuleOf(units[path[k]]) = {module[path[k]]}
                      /\ ImportsOf(units[path[k]]) = Names(imports[path[k]])
  BY <1>1, ReadUnits, UnitsOfProject
<1>6. set \subseteq Sources
  BY <1>5
<1>7. set # {} /\ units[path[1]] \in set
  <2>1. 1 \in 1..n
    BY <1>2
  <2>. QED
    BY <2>1
<1>8. \A u \in set : \E v \in set : ModuleOf(v) \cap ImportsOf(u) # {}
  <2>. SUFFICES ASSUME NEW k \in 1..n
                PROVE  \E v \in set : ModuleOf(v) \cap ImportsOf(units[path[k]]) # {}
    OBVIOUS
  <2>. DEFINE j == following(k)
  <2>1. j \in 1..n /\ module[path[j]] \in Names(imports[path[k]])
    BY <1>3, <1>4
  <2>. HIDE DEF j
  <2>2. module[path[j]] \in ModuleOf(units[path[j]]) \cap ImportsOf(units[path[k]])
    BY <1>5, <2>1
  <2>. QED
    BY <2>1, <2>2
<1>. HIDE DEF set
<1>9. ~Acyclic
  BY <1>6, <1>7, <1>8 DEF Acyclic
<1>10. \E u \in Sources : ModuleOf(u) # {}
  <2>1. 1 \in 1..n
    BY <1>2
  <2>. QED
    BY <1>5, <2>1
<1>. QED
  BY <1>9, <1>10 DEF Valid, GoodModules

\* A source that is no program.
LEMMA NotCompiledIsBad ==
  ASSUME Arranged, Ordered, NEW i \in DOMAIN order, ~CompiledAt(i)
  PROVE  ~Valid
<1>1. units[order[i]] \in Sources
  BY Places, UnitsOfProject
<1>. QED
  BY <1>1 DEF CompiledAt, Valid, GoodDefinitions

\* With one owner, the owner is it.
LEMMA OnlyOwner ==
  ASSUME Arranged, Ordered, NEW id, NEW j \in DOMAIN order,
         Declaring(id) = {units[order[j]]}
  PROVE  OwnersOf(id) = {j} /\ Owner(id) = j
<1>1. units[order[j]].declares = id
  BY DEF Declaring
<1>2. \A i \in DOMAIN order : units[order[i]].declares = id => i = j
  <2>. SUFFICES ASSUME NEW i \in DOMAIN order, units[order[i]].declares = id PROVE i = j
    OBVIOUS
  <2>1. units[order[i]] \in Declaring(id)
    BY Places, UnitsOfProject DEF Declaring
  <2>2. units[order[i]] = units[order[j]]
    BY <2>1
  <2>. QED
    BY <2>2, Places, UnitsOfProject
<1>3. OwnersOf(id) = {j}
  BY <1>1, <1>2 DEF OwnersOf
<1>4. j <= j
  BY Places, UnitsOfProject
<1>. QED
  BY <1>3, <1>4 DEF Owner

\* A reference whose owner is not visible.
LEMMA HiddenIsBad ==
  ASSUME Arranged, AllRead, Ordered, Explicit # {}, NEW i \in DOMAIN order, ~VisibleAt(i)
  PROVE  ~Valid
<1>. SUFFICES ASSUME GoodReferences PROVE FALSE
  BY DEF Valid
<1>. DEFINE u == units[order[i]]
<1>1. PICK id \in Names(u.refers) : /\ OwnersOf(id) # {}
                                    /\ module[order[Owner(id)]] \notin Visible(order[i])
  BY DEF VisibleAt
<1>8. order[i] \in DOMAIN units /\ u \in Sources
  BY Places, UnitsOfProject
<1>9. order[i] \in Explicit
  BY <1>8, ModulesApart
<1>2. order[i] \in DOMAIN units /\ u \in Sources /\ ModuleOf(u) # {}
      /\ ImportsOf(u) = Names(imports[order[i]])
  BY <1>8, <1>9, ReadUnits
<1>3. PICK v \in Sources : Declaring(id) = {v} /\ (u = v \/ ModuleOf(v) \cap ImportsOf(u) # {})
  BY <1>1, <1>2 DEF GoodReferences, Refers
<1>4. PICK j \in DOMAIN order : v = units[order[j]] /\ order[j] \in DOMAIN units
  BY <1>3, Places, UnitsOfProject
<1>5. Owner(id) = j
  BY <1>3, <1>4, OnlyOwner
<1>6. ModuleOf(v) = {module[order[j]]}
  BY <1>4, ModulesApart, ReadUnits
<1>7. module[order[j]] \in Visible(order[i])
  <2>1. CASE u = v
    <3>1. order[i] = order[j]
      BY <1>2, <1>4, <2>1, UnitsOfProject
    <3>. QED
      BY <3>1 DEF Visible
  <2>2. CASE ModuleOf(v) \cap ImportsOf(u) # {}
    BY <1>2, <1>6, <2>2 DEF Visible
  <2>. QED
    BY <1>3, <2>1, <2>2
<1>. QED
  BY <1>1, <1>5, <1>7

\* A reference to what no unit declares.
LEMMA DanglingIsBad ==
  ASSUME Arranged, Ordered, \A c \in 1..3 : Merged(c), Dangling # {}
  PROVE  ~Valid
<1>. SUFFICES ASSUME GoodReferences, GoodDefinitions PROVE FALSE
  BY DEF Valid
<1>0. PICK k \in DOMAIN units : ~(Names(units[k].refers) \subseteq Definitions)
  BY DEF Dangling
<1>1. PICK id \in Names(units[k].refers) : id \notin Definitions
  BY <1>0
<1>2. PICK v \in Sources : Declaring(id) = {v}
  BY <1>1, UnitsOfProject DEF GoodReferences, Refers
<1>3. v.declares = id /\ id.kind \in {"directive", "function"}
  BY <1>2 DEF Declaring, GoodDefinitions
<1>4. PICK j \in DOMAIN units : v = units[j]
  BY <1>2, UnitsOfProject
<1>5. id \in Names(Joined(id.kind))
  BY <1>3, <1>4, LinkedDeclarations
<1>6. program.directive = Joined("directive") /\ program.function = Joined("function")
  BY CategoryNumbers DEF Merged
<1>. QED
  BY <1>1, <1>3, <1>5, <1>6 DEF Definitions

\* Of the sets of functions that call themselves one is least.
LEMMA LeastCallers ==
  ASSUME NEW S, IsFiniteSet(S), NEW X \in SUBSET S, CallsItself(X)
  PROVE  \E functions \in SUBSET S : Recursive(functions)
<1>. DEFINE callers == {Y \in SUBSET S : CallsItself(Y)}
<1>1. callers \subseteq FiniteSubsetsOf(S) /\ callers # {}
  BY FS_Subset DEF FiniteSubsetsOf
<1>2. PICK Y \in callers : \A Z \in callers : <<Z, Y>> \notin StrictSubsetOrdering(S)
  <2>. HIDE DEF callers
  <2>. QED
    BY <1>1, FS_StrictSubsetOrderingWellFounded, WFMin
<1>3. \A Z \in SUBSET Y : CallsItself(Z) => Z = Y
  BY <1>2 DEF StrictSubsetOrdering
<1>. QED
  BY <1>2, <1>3 DEF Recursive

\* The linked functions are finitely many.
LEMMA LinkedFunctions ==
  ASSUME Arranged, Ordered, \A c \in 1..3 : Merged(c)
  PROVE  /\ program.directive = Joined("directive") /\ program.function = Joined("function")
         /\ IsFiniteSet(Names(program.function))
<1>1. program.directive = Joined("directive") /\ program.function = Joined("function")
  BY CategoryNumbers DEF Merged
<1>. DEFINE declared == {units[k].declares : k \in DOMAIN units}
<1>2. Names(program.function) \subseteq declared
  BY <1>1, LinkedDeclarations
<1>3. IsFiniteSet(DOMAIN units)
  BY UnitsOfProject, FS_Interval
<1>. DEFINE declaring == [k \in DOMAIN units |-> units[k].declares]
<1>5. declaring \in Surjection(DOMAIN units, declared)
  BY DEF Surjection
<1>4. IsFiniteSet(declared)
  <2>. HIDE DEF declared, declaring
  <2>. QED
    BY <1>3, <1>5, FS_Surjection
<1>. HIDE DEF declared
<1>. QED
  BY <1>1, <1>2, <1>4, FS_Subset

\* What a declaration that is good refers to.
LEMMA ReferencesOf ==
  ASSUME Arranged, GoodDefinitions, NEW u \in Sources
  PROVE  References(u.declares) = Refers(u)
<1>1. PICK k \in DOMAIN units : u = units[k]
  BY UnitsOfProject
<1>2. \A j \in DOMAIN units : units[j].declares = u.declares => units[j] = u
  BY UnitsOfProject DEF GoodDefinitions
<1>3. \A j \in DOMAIN units : units[j].declares = u.declares => j = k
  BY <1>1, <1>2, UnitsOfProject
<1>4. {j \in DOMAIN units : units[j].declares = u.declares} = {k}
  BY <1>1, <1>3
<1>. QED
  BY <1>1, <1>4 DEF References, Refers

\* Functions that call each other.
LEMMA RecursionIsBad ==
  ASSUME Arranged, Ordered, \A c \in 1..3 : Merged(c),
         NEW functions \in SUBSET Names(program.function), CallsItself(functions)
  PROVE  ~Valid
<1>. SUFFICES ASSUME NoRecursion, GoodDefinitions PROVE FALSE
  BY DEF Valid
<1>. DEFINE set == {u \in Sources : u.declares \in functions}
<1>1. \A f \in functions : \E u \in set : u.declares = f /\ u.declares.kind = "function"
  <2>. SUFFICES ASSUME NEW f \in functions
                PROVE  \E u \in set : u.declares = f /\ u.declares.kind = "function"
    OBVIOUS
  <2>1. f \in Names(Joined("function"))
    BY LinkedFunctions
  <2>2. PICK k \in DOMAIN units : f = units[k].declares /\ f.kind = "function"
    BY <2>1, LinkedDeclarations
  <2>. QED
    BY <2>2, UnitsOfProject
<1>2. \A u \in set : u.declares.kind = "function"
  BY <1>1
<1>3. set # {}
  BY <1>1 DEF CallsItself
<1>4. set \in SUBSET {u \in Sources : u.declares.kind = "function"}
  BY <1>2
<1>5. PICK u \in set : \A id \in Refers(u) : Declaring(id) \cap set = {}
  <2>. HIDE DEF set
  <2>. QED
    BY <1>3, <1>4 DEF NoRecursion
<1>6. PICK callee \in functions : callee \in Calls(u.declares)
  BY DEF CallsItself
<1>7. callee \in Refers(u)
  BY <1>6, ReferencesOf DEF Calls
<1>8. PICK v \in set : v.declares = callee
  BY <1>1
<1>9. v \in Declaring(callee) \cap set
  BY <1>8 DEF Declaring
<1>. QED
  BY <1>5, <1>7, <1>9

-----------------------------------------------------------------------------
(* What is accepted is valid.                                              *)

\* Modules that are resolved and ordered are good: of any set of them the first
\* in the order imports none of the set.
LEMMA ModulesAreGood ==
  ASSUME Arranged, AllRead, Ordered
  PROVE  GoodModules
<1>1. CASE Explicit = {}
  <2>1. \A k \in DOMAIN units : module[k] = None
    BY <1>1, UnitsOfProject DEF Explicit
  <2>2. \A k \in DOMAIN units : ModuleOf(units[k]) = {}
    BY <2>1, ReadUnits
  <2>. QED
    BY <2>2, UnitsOfProject DEF GoodModules
<1>2. CASE Explicit # {}
  <2>1. /\ Explicit = DOMAIN units /\ Unresolved = {}
        /\ \A j, k \in DOMAIN units : Fold(module[j]) = Fold(module[k]) => j = k
        /\ \A j, k \in DOMAIN units : module[j] = module[k] => j = k
    BY <1>2, ModulesApart DEF Ordered, ModulesResolve
  <2>2. \A k \in DOMAIN units : /\ ModuleOf(units[k]) = {module[k]}
                                /\ ImportsOf(units[k]) = Names(imports[k])
    BY <2>1, ReadUnits
  <2>3. ASSUME NEW u \in Sources PROVE ModuleOf(u) # {}
    <3>1. PICK k \in DOMAIN units : u = units[k]
      BY UnitsOfProject
    <3>. QED
      BY <2>2, <3>1
  <2>4. ASSUME NEW u \in Sources, NEW v \in Sources, u # v,
               NEW m \in ModuleOf(u), NEW n \in ModuleOf(v)
        PROVE  Fold(m) # Fold(n)
    <3>1. PICK j \in DOMAIN units, k \in DOMAIN units : u = units[j] /\ v = units[k]
      BY UnitsOfProject
    <3>2. m = module[j] /\ n = module[k] /\ j # k
      BY <2>2, <2>4, <3>1
    <3>. QED
      BY <2>1, <3>2
  <2>5. ASSUME NEW u \in Sources, NEW m \in ImportsOf(u)
        PROVE  \E v \in Sources : m \in ModuleOf(v)
    <3>1. PICK k \in DOMAIN units : u = units[k]
      BY UnitsOfProject
    <3>2. m \in Declared
      BY <2>1, <2>2, <3>1 DEF Unresolved
    <3>3. PICK j \in DOMAIN units : m = module[j]
      BY <2>1, <3>2 DEF Declared
    <3>. QED
      BY <2>2, <3>3, UnitsOfProject
  <2>6. Acyclic
    <3>. SUFFICES ASSUME NEW set \in SUBSET Sources, set # {}
                  PROVE  \E u \in set : \A v \in set : ModuleOf(v) \cap ImportsOf(u) = {}
      BY DEF Acyclic
    <3>. DEFINE T == {i \in DOMAIN order : units[order[i]] \in set}
    <3>1. \A v \in set : \E i \in T : v = units[order[i]]
      <4>. SUFFICES ASSUME NEW v \in set PROVE \E i \in T : v = units[order[i]]
        OBVIOUS
      <4>1. PICK k \in DOMAIN units : v = units[k]
        BY UnitsOfProject
      <4>2. PICK i \in DOMAIN order : order[i] = k
        BY Places
      <4>. QED
        BY <4>1, <4>2
    <3>2. T \subseteq Nat /\ T # {}
      <4>1. DOMAIN order \subseteq Nat
        BY Places, UnitsOfProject
      <4>2. T # {}
        <5>. HIDE DEF T
        <5>. QED
          BY <3>1
      <4>. QED
        BY <4>1, <4>2
    <3>3. PICK i \in T : \A j \in T : i <= j
      <4>. HIDE DEF T
      <4>. QED
        BY <3>2, LeastNat
    <3>4. ASSUME NEW v \in set, NEW m \in ModuleOf(v) \cap ImportsOf(units[order[i]])
          PROVE  FALSE
      <4>1. PICK j \in T : v = units[order[j]]
        BY <3>1
      <4>2. order[i] \in DOMAIN units /\ order[j] \in DOMAIN units
        BY Places
      <4>3. m = module[order[j]] /\ m \in Names(imports[order[i]])
        BY <2>2, <3>4, <4>1, <4>2
      <4>4. j < i
        BY <1>2, <4>3, ImportedBefore
      <4>. QED
        BY <3>2, <3>3, <4>4
    <3>. QED
      BY <3>4
  <2>. QED
    BY <2>3, <2>4, <2>5, <2>6 DEF GoodModules
<1>. QED
  BY <1>1, <1>2

\* References that are visible and do not dangle are good.
LEMMA ReferencesAreGood ==
  ASSUME Arranged, AllRead, Ordered, GoodDefinitions, \A c \in 1..3 : Merged(c),
         Dangling = {}, Explicit = {} \/ \A i \in DOMAIN order : VisibleAt(i)
  PROVE  GoodReferences
<1>. SUFFICES ASSUME NEW u \in Sources, NEW id \in Refers(u)
              PROVE  \E v \in Sources :
                       /\ Declaring(id) = {v}
                       /\ ModuleOf(u) # {} => u = v \/ ModuleOf(v) \cap ImportsOf(u) # {}
  BY DEF GoodReferences
<1>1. PICK k \in DOMAIN units : u = units[k]
  BY UnitsOfProject
<1>2. PICK i \in DOMAIN order : order[i] = k
  BY Places
<1>3. id \in Definitions
  BY <1>1 DEF Refers, Dangling
<1>4. PICK l \in DOMAIN units : id = units[l].declares
  BY <1>3, LinkedFunctions, LinkedDeclarations DEF Definitions
<1>5. PICK j \in DOMAIN order : order[j] = l
  BY Places
<1>6. units[l] \in Sources /\ Declaring(id) = {units[l]}
  BY <1>4, UnitsOfProject DEF Declaring, GoodDefinitions
<1>7. ASSUME ModuleOf(u) # {}
      PROVE  u = units[l] \/ ModuleOf(units[l]) \cap ImportsOf(u) # {}
  <2>1. module[k] # None /\ Explicit # {}
    BY <1>1, <1>7, ReadUnits, UnitsOfProject DEF Explicit
  <2>2. OwnersOf(id) = {j} /\ Owner(id) = j
    BY <1>5, <1>6, OnlyOwner
  <2>3. module[l] \in Visible(k)
    BY <1>1, <1>2, <1>5, <2>1, <2>2 DEF VisibleAt, Refers
  <2>4. k \in Explicit /\ l \in Explicit
    BY <2>1, ModulesApart
  <2>5. CASE module[l] = module[k]
    BY <1>1, <2>1, <2>5, ModulesApart
  <2>6. CASE module[l] \in Names(imports[k])
    <3>1. ModuleOf(units[l]) = {module[l]} /\ ImportsOf(u) = Names(imports[k])
      BY <1>1, <2>4, ReadUnits
    <3>. QED
      BY <2>6, <3>1
  <2>. QED
    BY <2>3, <2>5, <2>6 DEF Visible
<1>. QED
  BY <1>6, <1>7

\* Without a least set of functions that call themselves there is no such set.
LEMMA NoRecursionIsLeft ==
  ASSUME Arranged, Ordered, GoodDefinitions, \A c \in 1..3 : Merged(c), Checked
  PROVE  NoRecursion
<1>. SUFFICES ASSUME NEW set \in SUBSET {u \in Sources : u.declares.kind = "function"},
                     set # {}, \A u \in set : \E id \in Refers(u) : Declaring(id) \cap set # {}
              PROVE  FALSE
  BY DEF NoRecursion
<1>. DEFINE functions == {u.declares : u \in set}
<1>1. functions \in SUBSET Names(program.function)
  <2>. SUFFICES ASSUME NEW u \in set PROVE u.declares \in Names(program.function)
    OBVIOUS
  <2>1. PICK k \in DOMAIN units : u = units[k]
    BY UnitsOfProject
  <2>2. u.declares \in Names(Joined("function"))
    BY <2>1, LinkedDeclarations
  <2>. QED
    BY <2>2, LinkedFunctions
<1>2. \A u \in set : Calls(u.declares) \cap functions # {}
  <2>. SUFFICES ASSUME NEW u \in set PROVE Calls(u.declares) \cap functions # {}
    OBVIOUS
  <2>1. PICK id \in Refers(u) : Declaring(id) \cap set # {}
    OBVIOUS
  <2>2. PICK v \in set : v.declares = id
    BY <2>1 DEF Declaring
  <2>3. id \in functions /\ id.kind = "function"
    BY <2>2
  <2>4. id \in References(u.declares)
    BY <2>1, ReferencesOf
  <2>. QED
    BY <2>3, <2>4 DEF Calls
<1>3. CallsItself(functions)
  BY <1>2 DEF CallsItself
<1>. HIDE DEF functions
<1>4. \E fewer \in SUBSET Names(program.function) : Recursive(fewer)
  BY <1>1, <1>3, LinkedFunctions, LeastCallers
<1>. QED
  BY <1>4 DEF Checked

\* A build whose stages are all passed, its entry among the directives.
LEMMA AcceptedIsValid ==
  ASSUME Established("entry", at), given \in Seq(SourceUnit),
         asked # None => Matching(asked) # {}
  PROVE  Valid
<1>1. /\ Arranged /\ AllRead /\ Ordered /\ \A i \in DOMAIN order : CompiledAt(i)
      /\ Explicit = {} \/ \A i \in DOMAIN order : VisibleAt(i)
      /\ \A c \in 1..3 : Merged(c)
      /\ Checked
  BY DEF Established, Sorted, Placing, Seeing, Linking, Checking, Ending
<1>2. GoodModules
  BY <1>1, ModulesAreGood
<1>3. GoodDefinitions
  BY <1>1, MergedIsGood
<1>4. GoodReferences
  BY <1>1, <1>3, ReferencesAreGood DEF Checked
<1>5. NoRecursion
  BY <1>1, <1>3, NoRecursionIsLeft
<1>6. \A u \in Sources : GoodHeader(u)
  BY <1>1, ReadUnits, UnitsOfProject
<1>7. given # <<>>
  BY <1>1 DEF Arranged
<1>8. ASSUME NEW j \in DOMAIN given, NEW k \in DOMAIN given, j # k
      PROVE  Fold(given[j].source) # Fold(given[k].source)
  <2>1. j < k \/ k < j
    BY <1>8
  <2>2. \A a, b \in DOMAIN given : a < b => Fold(given[a].source) # Fold(given[b].source)
    BY <1>1 DEF Arranged, Repeating, SourceNames
  <2>. QED
    BY <2>1, <2>2
<1>9. ASSUME asked # None
      PROVE  \E u \in Sources : IsEntry(u.declares, asked)
  <2>1. PICK id \in Names(program.directive) : IsEntry(id, asked)
    BY <1>9 DEF Matching
  <2>2. PICK k \in DOMAIN units : id = units[k].declares
    BY <1>1, <2>1, LinkedFunctions, LinkedDeclarations
  <2>. QED
    BY <1>1, <2>1, <2>2, UnitsOfProject
<1>. QED
  BY <1>2, <1>3, <1>4, <1>5, <1>6, <1>7, <1>8, <1>9 DEF Valid

-----------------------------------------------------------------------------
(* The steps of the build.                                                 *)

\* Validity is a matter of what is given and asked for only.
LEMMA SameValid ==
  ASSUME UNCHANGED <<given, asked>>
  PROVE  Valid' <=> Valid
<1>1. Sources' = Sources
  BY DEF Sources, Names
<1>2. \A id : Declaring(id)' = Declaring(id)
  BY <1>1 DEF Declaring
<1>3. Acyclic' <=> Acyclic
  BY <1>1 DEF Acyclic
<1>4. GoodModules' <=> GoodModules
  BY <1>1, <1>3 DEF GoodModules
<1>5. GoodDefinitions' <=> GoodDefinitions
  BY <1>1 DEF GoodDefinitions
<1>6. GoodReferences' <=> GoodReferences
  BY <1>1, <1>2 DEF GoodReferences
<1>7. NoRecursion' <=> NoRecursion
  BY <1>1, <1>2 DEF NoRecursion
<1>. QED
  BY <1>1, <1>4, <1>5, <1>6, <1>7 DEF Valid

Project == <<given, asked, units, module, imports>>

\* What is said of the sources and the headers stays true of them.
LEMMA SameProject ==
  ASSUME UNCHANGED Project
  PROVE  /\ Arranged' <=> Arranged
         /\ AllRead' <=> AllRead
         /\ Explicit' = Explicit
         /\ Valid' <=> Valid
         /\ \A k : HeaderRead(k)' <=> HeaderRead(k)
<1>1. /\ given' = given /\ asked' = asked /\ units' = units
      /\ module' = module /\ imports' = imports
  BY DEF Project
<1>2. Arranged' <=> Arranged
  BY <1>1 DEF Arranged, Sources, Repeating, SourceNames, Names
<1>3. \A k : HeaderRead(k)' <=> HeaderRead(k)
  BY <1>1 DEF HeaderRead
<1>4. AllRead' <=> AllRead
  BY <1>1, <1>3 DEF AllRead
<1>5. Explicit' = Explicit
  BY <1>1 DEF Explicit
<1>6. Valid' <=> Valid
  BY <1>1, SameValid
<1>. QED
  BY <1>2, <1>3, <1>4, <1>5, <1>6

\* Nor is what is said of the order changed where the order is not.
LEMMA SameOrder ==
  ASSUME UNCHANGED Project, order' = order
  PROVE  /\ Ordered' <=> Ordered
         /\ \A i : CompiledAt(i)' <=> CompiledAt(i)
         /\ \A i : VisibleAt(i)' <=> VisibleAt(i)
         /\ \A category : Joined(category)' = Joined(category)
<1>1. /\ given' = given /\ units' = units /\ order' = order
      /\ module' = module /\ imports' = imports /\ Explicit' = Explicit
  BY SameProject DEF Project
<1>2. \A i : Placed(order, i)' = Placed(order, i)
  BY <1>1 DEF Placed
<1>3. Unresolved' = Unresolved
  BY <1>1 DEF Unresolved, Declared, Names
<1>4. ModulesResolve' <=> ModulesResolve
  BY <1>1, <1>2, <1>3 DEF ModulesResolve, Repeating, Names, Placed
<1>5. Ordered' <=> Ordered
  BY <1>1, <1>4 DEF Ordered, Distinct
<1>6. \A i : CompiledAt(i)' <=> CompiledAt(i)
  BY <1>1 DEF CompiledAt
<1>7. \A id : OwnersOf(id)' = OwnersOf(id)
  BY <1>1 DEF OwnersOf
<1>8. \A id : Owner(id)' = Owner(id)
  BY <1>7 DEF Owner
<1>9. \A i : VisibleAt(i)' <=> VisibleAt(i)
  BY <1>1, <1>7, <1>8 DEF VisibleAt, Visible, Names
<1>10. \A category : Joined(category)' = Joined(category)
  BY <1>1 DEF Joined, DefinitionsOf
<1>. QED
  BY <1>5, <1>6, <1>9, <1>10

\* Nor is what is said of the program.
LEMMA SameProgram ==
  ASSUME UNCHANGED Project, order' = order, program' = program
  PROVE  /\ \A c \in 1..3 : Merged(c)' <=> Merged(c)
         /\ Checked' <=> Checked
<1>1. \A c \in 1..3 : Merged(c)' <=> Merged(c)
  BY SameOrder DEF Merged, Categories, Repeated, Names
<1>2. units' = units
  BY DEF Project
<1>3. Definitions' = Definitions /\ Names(program.function)' = Names(program.function)
  BY DEF Definitions, Names
<1>4. Dangling' = Dangling
  BY <1>2, <1>3 DEF Dangling, Names
<1>5. \A id : Calls(id)' = Calls(id)
  BY <1>2 DEF Calls, References, Names
<1>6. \A functions : CallsItself(functions)' <=> CallsItself(functions)
  BY <1>5 DEF CallsItself
<1>7. \A functions : Recursive(functions)' <=> Recursive(functions)
  BY <1>6 DEF Recursive
<1>. QED
  BY <1>1, <1>3, <1>4, <1>7 DEF Checked

\* A stage that goes on, or ends, keeps what was established before it.
LEMMA Going ==
  ASSUME BuildInv, UNCHANGED Project, order' = order, program' = program,
         phase' = phase, at' = at + 1, phase \in {"compile", "visibility"},
         \/ phase = "compile" /\ (at \in DOMAIN order => CompiledAt(at))
         \/ phase = "visibility" /\ (at \in DOMAIN order => VisibleAt(at))
  PROVE  BuildInv'
<1>1. Established(phase, at) /\ at \in Nat \ {0} /\ given \in Seq(SourceUnit)
  BY DEF BuildInv
<1>2. /\ Arranged /\ AllRead /\ Ordered
      /\ phase = "compile" => \A i \in DOMAIN order : i < at => CompiledAt(i)
      /\ phase = "visibility" => /\ \A i \in DOMAIN order : CompiledAt(i)
                                 /\ Explicit # {}
                                 /\ \A i \in DOMAIN order : i < at => VisibleAt(i)
  BY <1>1 DEF Established, Sorted, Placing, Seeing, Linking, Checking, Ending, Done
<1>3. \A i \in DOMAIN order : i < at + 1 => i < at \/ i = at
  BY <1>1, <1>2, Places, UnitsOfProject
<1>4. /\ Arranged' /\ AllRead' /\ Ordered' /\ Explicit' = Explicit /\ given' = given
      /\ \A i : CompiledAt(i)' <=> CompiledAt(i)
      /\ \A i : VisibleAt(i)' <=> VisibleAt(i)
  BY <1>2, SameProject, SameOrder DEF Project
<1>5. phase = "compile" => \A i \in DOMAIN order' : i < at' => CompiledAt(i)'
  BY <1>2, <1>3, <1>4
<1>6. phase = "visibility" => /\ \A i \in DOMAIN order' : CompiledAt(i)'
                              /\ Explicit' # {}
                              /\ \A i \in DOMAIN order' : i < at' => VisibleAt(i)'
  BY <1>2, <1>3, <1>4
<1>7. Established(phase, at)'
  BY <1>4, <1>5, <1>6 DEF Established, Sorted, Placing, Seeing, Linking, Checking, Ending, Done
<1>8. at' \in Nat \ {0} /\ given' \in Seq(SourceUnit)
  BY <1>1, <1>4
<1>. QED
  BY <1>7, <1>8 DEF BuildInv

\* A refusal of what is not valid, or of an entry.
LEMMA Refusing ==
  ASSUME BuildInv, NEW code, NEW about, Refuse(code, about),
         code = "ProjectEntryPointError" \/ ~Valid
  PROVE  BuildInv'
<1>1. /\ phase' = "refused" /\ failure'.code = code
      /\ given' = given /\ asked' = asked /\ at' = at /\ program' = program
  BY DEF Refuse
<1>2. Valid' <=> Valid
  BY <1>1, SameValid
<1>3. Established(phase, at)'
  BY <1>1 DEF Established, Sorted, Placing, Seeing, Linking, Checking, Ending, Done
<1>. QED
  BY <1>1, <1>2, <1>3 DEF BuildInv

\* Every refusal is of a project that is not valid, the entry's excepted.
LEMMA Refused ==
  ASSUME BuildInv,
         \/ NoSources \/ DuplicateSource
         \/ SecondModule \/ ImportBeforeModule \/ DuplicateImport \/ Misplaced
         \/ MissingDeclaration \/ DuplicateModule \/ UndefinedImport \/ ImportCycle
         \/ NotCompiled \/ NotVisible \/ DuplicateDefinition
         \/ UndefinedReference \/ RecursiveFunctions \/ UndefinedEntry
  PROVE  BuildInv'
<1>. USE DEF Established, Sorted, Placing, Seeing, Linking, Checking, Ending, Done
<1>0. Established(phase, at) /\ at \in Nat \ {0} /\ given \in Seq(SourceUnit)
  BY DEF BuildInv
<1>1. CASE NoSources
  <2>1. ~Valid /\ Refuse("EmptyProject", {})
    BY <1>1 DEF NoSources, Valid
  <2>. QED
    BY <2>1, Refusing
<1>2. CASE DuplicateSource
  <2>1. ~Valid /\ Refuse("DuplicateSourceUnit", {Least(Repeating(SourceNames, DOMAIN given))})
    BY <1>0, <1>2, DuplicateSourceIsBad DEF DuplicateSource
  <2>. QED
    BY <2>1, Refusing
<1>3. CASE SecondModule \/ ImportBeforeModule \/ DuplicateImport \/ Misplaced
  <2>1. phase = "headers"
    BY <1>3 DEF SecondModule, ImportBeforeModule, DuplicateImport, Misplaced, Declares, Imports,
                AtLine
  <2>2. Arranged /\ Reading
    BY <1>0, <2>1
  <2>3. ~Valid
    BY <1>3, <2>2, BadHeader DEF SecondModule, ImportBeforeModule, DuplicateImport, Misplaced
  <2>4. PICK code : Refuse(code, {at})
    BY <1>3 DEF SecondModule, ImportBeforeModule, DuplicateImport, Misplaced
  <2>. QED
    BY <2>3, <2>4, Refusing
<1>4. CASE MissingDeclaration \/ DuplicateModule \/ UndefinedImport \/ ImportCycle
  <2>1. HeadersRead
    BY <1>4 DEF MissingDeclaration, DuplicateModule, UndefinedImport, ImportCycle, AllExplicit,
                Resolved
  <2>2. Arranged /\ Reading /\ at > Len(units)
    BY <1>0, <2>1 DEF HeadersRead
  <2>3. AllRead
    <3>1. \A k \in DOMAIN units : k < at
      BY <1>0, <2>2, UnitsOfProject
    <3>. QED
      BY <2>2, <3>1 DEF Reading, AllRead
  <2>4. CASE MissingDeclaration
    <3>1. ~Valid /\ Refuse("APX-MODULE-005", DOMAIN units \ Explicit)
      BY <2>2, <2>3, <2>4, MissingIsBad DEF MissingDeclaration
    <3>. QED
      BY <3>1, Refusing
  <2>5. CASE DuplicateModule
    <3>1. ~Valid /\ Refuse("APX-MODULE-009", {Least(Repeating(module, Explicit))})
      BY <2>2, <2>3, <2>5, DuplicateModuleIsBad DEF DuplicateModule
    <3>. QED
      BY <3>1, Refusing
  <2>6. CASE UndefinedImport
    <3>1. ~Valid /\ Refuse("APX-MODULE-006", {Least(Unresolved)})
      BY <2>2, <2>3, <2>6, UndefinedImportIsBad DEF UndefinedImport, AllExplicit
    <3>. QED
      BY <3>1, Refusing
  <2>7. CASE ImportCycle
    <3>1. PICK path \in Paths : IsCycle(path) /\ Refuse("APX-MODULE-007", Names(path))
      BY <2>7 DEF ImportCycle
    <3>2. ~Valid
      BY <2>2, <2>3, <3>1, ImportCycleIsBad
    <3>. QED
      BY <3>1, <3>2, Refusing
  <2>. QED
    BY <1>4, <2>4, <2>5, <2>6, <2>7
<1>5. CASE NotCompiled
  <2>1. phase = "compile" /\ at <= Len(order) /\ ~CompiledAt(at)
        /\ Refuse("ProjectCompilationError", {order[at]})
    BY <1>5 DEF NotCompiled, AtUnit, CompiledAt, Unit
  <2>2. Arranged /\ Ordered
    BY <1>0, <2>1
  <2>3. at \in DOMAIN order
    BY <1>0, <2>1, <2>2, Places, UnitsOfProject
  <2>. QED
    BY <2>1, <2>2, <2>3, NotCompiledIsBad, Refusing
<1>6. CASE NotVisible
  <2>1. phase = "visibility" /\ at <= Len(order) /\ ~VisibleAt(at)
        /\ Refuse("APX-MODULE-008", {order[at]})
    BY <1>6 DEF NotVisible, AtUnit, VisibleAt, Hidden, Unit
  <2>2. Arranged /\ AllRead /\ Ordered /\ Explicit # {}
    BY <1>0, <2>1
  <2>3. at \in DOMAIN order
    BY <1>0, <2>1, <2>2, Places, UnitsOfProject
  <2>. QED
    BY <2>1, <2>2, <2>3, HiddenIsBad, Refusing
<1>7. CASE DuplicateDefinition
  <2>1. phase = "link" /\ at <= 3 /\ Repeated(Joined(Categories[at])) # {}
    BY <1>7, CategoryNumbers DEF DuplicateDefinition, AtUnit
  <2>2. Arranged /\ Ordered
    BY <1>0, <2>1
  <2>3. at \in 1..3
    BY <1>0, <2>1
  <2>4. Categories[at] \in Category
    BY <2>3, CategoryNumbers
  <2>5. ~Valid
    BY <2>1, <2>2, <2>4, RepeatedIsBad DEF Valid
  <2>6. PICK about : Refuse("DuplicateLinkDefinition", about)
    BY <1>7 DEF DuplicateDefinition
  <2>. QED
    BY <2>5, <2>6, Refusing
<1>8. CASE UndefinedReference
  <2>1. phase = "validate" /\ Dangling # {}
    BY <1>8 DEF UndefinedReference
  <2>2. Arranged /\ Ordered /\ \A c \in 1..3 : Merged(c)
    BY <1>0, <2>1
  <2>3. PICK about : Refuse("ProjectValidationError", about)
    BY <1>8 DEF UndefinedReference
  <2>. QED
    BY <2>1, <2>2, <2>3, DanglingIsBad, Refusing
<1>9. CASE RecursiveFunctions
  <2>1. PICK functions \in SUBSET Names(program.function) :
          /\ phase = "validate" /\ Recursive(functions)
          /\ \E about : Refuse("ProjectValidationError", about)
    BY <1>9 DEF RecursiveFunctions
  <2>2. Arranged /\ Ordered /\ \A c \in 1..3 : Merged(c)
    BY <1>0, <2>1
  <2>3. ~Valid
    BY <2>1, <2>2, RecursionIsBad DEF Recursive
  <2>. QED
    BY <2>1, <2>3, Refusing
<1>10. CASE UndefinedEntry
  <2>1. Refuse("ProjectEntryPointError", {})
    BY <1>10 DEF UndefinedEntry
  <2>. QED
    BY <2>1, Refusing
<1>. QED
  BY <1>1, <1>2, <1>3, <1>4, <1>5, <1>6, <1>7, <1>8, <1>9, <1>10

\* The first line of a source is that of an empty header.
LEMMA FirstLine ==
  ASSUME NEW u \in SourceUnit, NEW mod, mod = None, NEW imps, imps = <<>>
  PROVE  1 \in 1..Len(u.lines) + 1 /\ HeaderUpto(u, 1, FALSE, mod, imps)
<1>1. u.lines \in Seq(HeaderLine)
  BY DEF SourceUnit
<1>2. Len(u.lines) \in Nat
  BY <1>1
<1>3. 1 \in 1..Len(u.lines) + 1
  BY <1>2
<1>. QED
  BY <1>3, HeaderBegins

\* The sources in order are the sources, each once.
LEMMA Normalizing ==
  ASSUME BuildInv, Normalize
  PROVE  BuildInv'
<1>0. /\ given \in Seq(SourceUnit) /\ at \in Nat \ {0} /\ Begun
      /\ given # <<>> /\ Repeating(SourceNames, DOMAIN given) = {}
      /\ phase' = "headers" /\ given' = given /\ asked' = asked /\ at' = at /\ line' = line
      /\ body' = body /\ order' = order /\ program' = program
      /\ module' = [k \in DOMAIN given |-> None] /\ imports' = [k \in DOMAIN given |-> <<>>]
  BY DEF Normalize, BuildInv
<1>. DEFINE n == Len(given)
<1>1. n \in Nat /\ DOMAIN given = 1..n /\ \A k \in 1..n : given[k] \in SourceUnit
  BY <1>0
<1>2. PICK place \in [1..n -> 1..n] :
        /\ \A j, k \in 1..n : j < k => given[place[j]].source < given[place[k]].source
        /\ units' = [k \in 1..n |-> given[place[k]]]
  BY <1>1 DEF Normalize
<1>3. \A j, k \in 1..n : j < k => given[place[j]] # given[place[k]]
  <2>. SUFFICES ASSUME NEW j \in 1..n, NEW k \in 1..n, j < k, given[place[j]] = given[place[k]]
                PROVE  FALSE
    OBVIOUS
  <2>1. given[place[j]].source < given[place[k]].source
    BY <1>2
  <2>2. given[place[j]] \in SourceUnit
    BY <1>1, <1>2
  <2>3. given[place[j]].source \in Nat
    BY <2>2 DEF SourceUnit
  <2>. QED
    BY <2>1, <2>3
<1>4. \A j, k \in 1..n : given[place[j]] = given[place[k]] => j = k
  <2>. DEFINE f == [k \in 1..n |-> given[place[k]]]
  <2>1. \A j, k \in 1..n : j < k => f[j] # f[k]
    BY <1>3
  <2>. HIDE DEF f
  <2>2. \A j, k \in 1..n : f[j] = f[k] => j = k
    BY <1>1, <2>1, Ascending
  <2>. QED
    BY <2>2 DEF f
<1>5. \A k \in 1..n : \E j \in 1..n : place[j] = k
  <2>1. \A j, k \in 1..n : place[j] = place[k] => j = k
    BY <1>4
  <2>. QED
    BY <1>1, <1>2, <2>1, Permutation
<1>6. units' \in Seq(SourceUnit) /\ DOMAIN units' = 1..n /\ Len(units') = n
      /\ \A k \in 1..n : units'[k] = given[place[k]]
  <2>1. \A k \in 1..n : given[place[k]] \in SourceUnit
    BY <1>1, <1>2
  <2>. QED
    BY <1>1, <1>2, <2>1
<1>7. Arranged'
  <2>1. Names(units)' = Sources'
    <3>1. \A k \in 1..n : units'[k] \in {given[j] : j \in 1..n}
      BY <1>2, <1>6
    <3>2. \A k \in 1..n : given[k] \in {units'[j] : j \in 1..n}
      BY <1>5, <1>6
    <3>3. Names(units)' = {units'[j] : j \in 1..n}
      BY <1>6 DEF Names
    <3>4. Sources' = {given[j] : j \in 1..n}
      BY <1>0, <1>1 DEF Names, Sources
    <3>. QED
      BY <3>1, <3>2, <3>3, <3>4
  <2>2. Distinct(units)'
    BY <1>4, <1>6 DEF Distinct
  <2>3. Repeating(SourceNames, DOMAIN given)' = {}
    BY <1>0 DEF Repeating, SourceNames
  <2>4. module' \in [DOMAIN units' -> Nat \cup {None}]
    BY <1>0, <1>1, <1>6
  <2>5. imports' \in [DOMAIN units' -> Seq(Nat)]
    BY <1>0, <1>1, <1>6
  <2>. QED
    BY <1>0, <1>1, <1>6, <2>1, <2>2, <2>3, <2>4, <2>5 DEF Arranged
<1>8. at' = 1 /\ line' = 1 /\ body' = FALSE /\ order' = <<>>
  BY <1>0 DEF Begun
<1>9. Reading'
  <2>1. \A k \in 1..n : k > 1 => module'[k] = None /\ imports'[k] = <<>>
    BY <1>0, <1>1
  <2>2. \A k \in 1..n : ~(k < 1)
    BY <1>1
  <2>3. ASSUME at' \in DOMAIN units'
        PROVE  /\ line' \in 1..Len(units'[at'].lines) + 1
               /\ HeaderUpto(units'[at'], line', body', module'[at'], imports'[at'])
    <3>1. at' \in 1..n
      BY <1>6, <2>3
    <3>2. units'[at'] \in SourceUnit
      BY <1>6, <3>1
    <3>3. module'[at'] = None /\ imports'[at'] = <<>>
      BY <1>0, <1>1, <3>1
    <3>4. 1 \in 1..Len(units'[at'].lines) + 1
          /\ HeaderUpto(units'[at'], 1, FALSE, module'[at'], imports'[at'])
      BY <3>2, <3>3, FirstLine
    <3>. QED
      BY <1>8, <3>4
  <2>4. ASSUME NEW k \in DOMAIN units'
        PROVE  /\ k < at' => HeaderRead(k)'
               /\ k > at' => module'[k] = None /\ imports'[k] = <<>>
    <3>1. k \in 1..n
      BY <1>6
    <3>2. ~(k < 1) /\ (k > 1 => module'[k] = None /\ imports'[k] = <<>>)
      BY <2>1, <2>2, <3>1
    <3>. QED
      BY <1>8, <3>2
  <2>5. at' \in Nat \ {0} /\ order' = <<>>
    BY <1>8
  <2>6. body' \in BOOLEAN
    BY <1>8
  <2>. QED
    BY <2>3, <2>4, <2>5, <2>6 DEF Reading
<1>10. Established(phase, at)'
  BY <1>0, <1>7, <1>9 DEF Established, Sorted, Placing, Seeing, Linking, Checking, Ending, Done
<1>. QED
  BY <1>0, <1>10 DEF BuildInv

-----------------------------------------------------------------------------
(* The steps along the headers.                                            *)

\* Reading on keeps Arranged and Reading, and only these matter.
LEMMA ReadingOn ==
  ASSUME BuildInv, phase' = "headers", given' = given, program' = program, Arranged', Reading'
  PROVE  BuildInv'
BY DEF BuildInv, Reading, Established, Sorted, Placing, Seeing, Linking, Checking, Ending, Done

\* A line read changes nothing but what is known of the unit at hand.
LEMMA LineRead ==
  ASSUME BuildInv, phase = "headers", at \in DOMAIN units, line \in 1..Len(units[at].lines),
         NextLine, body' \in BOOLEAN,
         module' = [module EXCEPT ![at] = module'[at]], module'[at] \in Nat \cup {None},
         imports' = [imports EXCEPT ![at] = imports'[at]], imports'[at] \in Seq(Nat),
         HeaderUpto(units[at], line + 1, body', module'[at], imports'[at])
  PROVE  BuildInv'
<1>0. Arranged /\ Reading
  BY DEF BuildInv, Established, Sorted
<1>1. /\ line' = line + 1 /\ phase' = phase /\ given' = given /\ units' = units /\ at' = at
      /\ order' = order /\ program' = program
  BY DEF NextLine
<1>2. Arranged'
  <2>1. Names(units)' = Names(units) /\ Sources' = Sources
    BY <1>1 DEF Names, Sources
  <2>5. Distinct(units)' <=> Distinct(units)
    BY <1>1 DEF Distinct
  <2>2. Repeating(SourceNames, DOMAIN given)' = {}
    BY <1>0, <1>1 DEF Arranged, Repeating, SourceNames
  <2>3. module \in [DOMAIN units -> Nat \cup {None}] /\ imports \in [DOMAIN units -> Seq(Nat)]
    BY <1>0 DEF Arranged
  <2>4. module' \in [DOMAIN units -> Nat \cup {None}] /\ imports' \in [DOMAIN units -> Seq(Nat)]
    BY <2>3
  <2>. QED
    BY <1>0, <1>1, <2>1, <2>2, <2>4, <2>5 DEF Arranged
<1>3. Reading'
  <2>0. DOMAIN units = 1..Len(units) /\ Len(units) \in Nat /\ at \in Nat \ {0}
        /\ DOMAIN module = DOMAIN units /\ DOMAIN imports = DOMAIN units
    BY <1>0, UnitsOfProject DEF Reading
  <2>1. \A k \in DOMAIN units : k # at => module'[k] = module[k] /\ imports'[k] = imports[k]
    BY <2>0
  <2>2. \A k \in DOMAIN units : k # at => (HeaderRead(k)' <=> HeaderRead(k))
    BY <1>1, <2>1 DEF HeaderRead
  <2>3. ASSUME NEW k \in DOMAIN units PROVE k < at => HeaderRead(k)'
    BY <1>0, <2>0, <2>2 DEF Reading
  <2>4. ASSUME NEW k \in DOMAIN units PROVE k > at => module'[k] = None /\ imports'[k] = <<>>
    BY <1>0, <2>0, <2>1 DEF Reading
  <2>5. line + 1 \in 1..Len(units[at].lines) + 1
    <3>1. units[at].lines \in Seq(HeaderLine)
      BY <1>0, UnitsOfProject DEF SourceUnit
    <3>. QED
      BY <3>1
  <2>. QED
    BY <1>0, <1>1, <2>0, <2>3, <2>4, <2>5 DEF Reading
<1>. QED
  BY <1>1, <1>2, <1>3, ReadingOn

\* A line that is read on from.
LEMMA HeaderLines ==
  ASSUME BuildInv, Declare \/ Import \/ Blank \/ Text
  PROVE  BuildInv'
<1>0. phase = "headers" /\ NextLine
  BY DEF Declare, Import, Blank, Text, Declares, Imports, AtLine
<1>1. Arranged /\ Reading
  BY <1>0 DEF BuildInv, Established, Sorted
<1>2. PICK kinds : AtLine(kinds)
  BY DEF Declare, Import, Blank, Text, Declares, Imports
<1>3. /\ at \in DOMAIN units /\ units[at] \in SourceUnit
      /\ line \in 1..Len(units[at].lines) /\ Line = units[at].lines[line]
      /\ HeaderUpto(units[at], line, body, module[at], imports[at])
  BY <1>1, <1>2, LineAtHand
<1>4. /\ module[at] \in Nat \cup {None} /\ imports[at] \in Seq(Nat) /\ body \in BOOLEAN
      /\ DOMAIN module = DOMAIN units /\ DOMAIN imports = DOMAIN units
      /\ module \in [DOMAIN units -> Nat \cup {None}]
      /\ imports \in [DOMAIN units -> Seq(Nat)]
  BY <1>1, <1>3, UnitsOfProject DEF Reading, Arranged
<1>5. CASE Declare
  <2>1. /\ Line.kind = "module" /\ ~body /\ module[at] = None
        /\ module' = [module EXCEPT ![at] = Line.name]
        /\ body' = body /\ imports' = imports
    BY <1>5 DEF Declare, Declares, AtLine
  <2>2. Line.name \in Nat
    BY <1>3, <2>1, LineType
  <2>3. module'[at] = Line.name
    BY <1>3, <1>4, <2>1
  <2>4. HeaderUpto(units[at], line + 1, FALSE, Line.name, imports[at])
    BY <1>3, <1>4, <2>1, HeaderModule
  <2>5. imports' = [imports EXCEPT ![at] = imports'[at]] /\ imports'[at] = imports[at]
    BY <1>3, <1>4, <2>1
  <2>6. body' = FALSE
    BY <1>4, <2>1
  <2>7. module' = [module EXCEPT ![at] = module'[at]]
    BY <2>1, <2>3
  <2>8. HeaderUpto(units[at], line + 1, body', module'[at], imports'[at])
    BY <2>3, <2>4, <2>5, <2>6
  <2>. QED
    BY <1>0, <1>3, <1>4, <2>2, <2>3, <2>5, <2>6, <2>7, <2>8, LineRead
<1>6. CASE Import
  <2>1. /\ Line.kind = "import" /\ ~body /\ module[at] # None /\ Line.name \notin Names(imports[at])
        /\ imports' = [imports EXCEPT ![at] = Append(@, Line.name)]
        /\ body' = body /\ module' = module
    BY <1>6 DEF Import, Imports, AtLine
  <2>2. Line.name \in Nat
    BY <1>3, <2>1, LineType
  <2>3. imports'[at] = Append(imports[at], Line.name)
    BY <1>3, <1>4, <2>1
  <2>6. body' = FALSE /\ body = FALSE
    BY <1>4, <2>1
  <2>4. HeaderUpto(units[at], line + 1, FALSE, module[at], Append(imports[at], Line.name))
    BY <1>3, <1>4, <2>1, <2>6, HeaderImport
  <2>5. module' = [module EXCEPT ![at] = module'[at]] /\ module'[at] = module[at]
    BY <1>3, <1>4, <2>1
  <2>7. imports' = [imports EXCEPT ![at] = imports'[at]]
    BY <2>1, <2>3
  <2>8. HeaderUpto(units[at], line + 1, body', module'[at], imports'[at])
    BY <2>3, <2>4, <2>5, <2>6
  <2>9. imports'[at] \in Seq(Nat)
    BY <1>4, <2>2, <2>3
  <2>. QED
    BY <1>0, <1>3, <1>4, <2>5, <2>6, <2>7, <2>8, <2>9, LineRead
<1>7. CASE Blank \/ Text
  <2>1. /\ \/ Line.kind = "blank" /\ body' = body
           \/ Line.kind = "text" /\ body' = TRUE
        /\ module' = module /\ imports' = imports
    BY <1>7 DEF Blank, Text, AtLine
  <2>2. HeaderUpto(units[at], line + 1, body', module[at], imports[at])
    BY <1>3, <2>1, HeaderBlank, HeaderText
  <2>3. /\ module' = [module EXCEPT ![at] = module'[at]] /\ module'[at] = module[at]
        /\ imports' = [imports EXCEPT ![at] = imports'[at]] /\ imports'[at] = imports[at]
    BY <1>3, <1>4, <2>1
  <2>4. body' \in BOOLEAN
    BY <1>4, <2>1
  <2>5. HeaderUpto(units[at], line + 1, body', module'[at], imports'[at])
    BY <2>2, <2>3
  <2>. QED
    BY <1>0, <1>3, <1>4, <2>3, <2>4, <2>5, LineRead
<1>. QED
  BY <1>5, <1>6, <1>7

\* A unit read to its end, and the next begun.
LEMMA UnitReading ==
  ASSUME BuildInv, UnitRead
  PROVE  BuildInv'
<1>0. /\ phase = "headers" /\ at <= Len(units) /\ line > Len(units[at].lines)
      /\ at' = at + 1 /\ line' = 1 /\ body' = FALSE /\ phase' = phase
      /\ given' = given /\ asked' = asked /\ units' = units /\ module' = module
      /\ imports' = imports /\ order' = order /\ program' = program
  BY DEF UnitRead
<1>1. Arranged /\ Reading
  BY <1>0 DEF BuildInv, Established, Sorted
<1>2. /\ at \in DOMAIN units /\ DOMAIN units = 1..Len(units) /\ Len(units) \in Nat
      /\ at \in Nat \ {0} /\ units[at] \in SourceUnit
  BY <1>0, <1>1, UnitsOfProject DEF Reading
<1>3. /\ line \in 1..Len(units[at].lines) + 1 /\ body \in BOOLEAN /\ order = <<>>
      /\ HeaderUpto(units[at], line, body, module[at], imports[at])
  BY <1>1, <1>2 DEF Reading
<1>4. Len(units[at].lines) \in Nat
  <2>1. units[at].lines \in Seq(HeaderLine)
    BY <1>2 DEF SourceUnit
  <2>. QED
    BY <2>1
<1>5. line = Len(units[at].lines) + 1
  BY <1>0, <1>3, <1>4
<1>6. HeaderRead(at)
  BY <1>3, <1>5 DEF HeaderRead
<1>7. Arranged' /\ \A k : HeaderRead(k)' <=> HeaderRead(k)
  BY <1>0, <1>1, SameProject DEF Project
<1>8. \A k \in DOMAIN units : k < at + 1 => k < at \/ k = at
  BY <1>2
<1>9. \A k \in DOMAIN units : k < at + 1 => HeaderRead(k)
  BY <1>1, <1>6, <1>8 DEF Reading
<1>10. ASSUME NEW k \in DOMAIN units, k >= at + 1
       PROVE  module[k] = None /\ imports[k] = <<>>
  <2>1. k > at
    BY <1>2, <1>10
  <2>. QED
    BY <1>1, <2>1 DEF Reading
<1>11. ASSUME at + 1 \in DOMAIN units
       PROVE  /\ 1 \in 1..Len(units[at + 1].lines) + 1
              /\ HeaderUpto(units[at + 1], 1, FALSE, module[at + 1], imports[at + 1])
  <2>1. units[at + 1] \in SourceUnit
    BY <1>1, <1>11, UnitsOfProject
  <2>2. module[at + 1] = None /\ imports[at + 1] = <<>>
    BY <1>2, <1>10, <1>11
  <2>. QED
    BY <2>1, <2>2, FirstLine
<1>12. Reading'
  <2>1. ASSUME NEW k \in DOMAIN units'
        PROVE  /\ k < at' => HeaderRead(k)'
               /\ k > at' => module'[k] = None /\ imports'[k] = <<>>
    <3>1. k < at' => HeaderRead(k)
      BY <1>0, <1>9
    <3>2. k >= at + 1 => module[k] = None /\ imports[k] = <<>>
      BY <1>0, <1>10
    <3>3. k > at' => k >= at + 1
      BY <1>0, <1>2
    <3>. QED
      BY <1>0, <1>7, <3>1, <3>2, <3>3
  <2>2. ASSUME at' \in DOMAIN units'
        PROVE  /\ line' \in 1..Len(units'[at'].lines) + 1
               /\ HeaderUpto(units'[at'], line', body', module'[at'], imports'[at'])
    <3>1. at + 1 \in DOMAIN units
      BY <1>0, <2>2
    <3>2. units[at + 1] = units'[at'] /\ module[at + 1] = module'[at'] /\ imports[at + 1] = imports'[at']
      BY <1>0
    <3>3. /\ 1 \in 1..Len(units[at + 1].lines) + 1
          /\ HeaderUpto(units[at + 1], 1, FALSE, module[at + 1], imports[at + 1])
      BY <1>11, <3>1
    <3>. QED
      BY <1>0, <3>2, <3>3
  <2>3. at' \in Nat \ {0} /\ order' = <<>>
    BY <1>0, <1>2, <1>3
  <2>4. body' \in BOOLEAN
    BY <1>0
  <2>. QED
    BY <2>1, <2>2, <2>3, <2>4 DEF Reading
<1>. QED
  BY <1>0, <1>7, <1>12, ReadingOn

-----------------------------------------------------------------------------
(* The steps after the headers.                                            *)

\* When the headers are read every unit is.
LEMMA AllHeadersRead ==
  ASSUME BuildInv, HeadersRead
  PROVE  Arranged /\ AllRead /\ phase = "headers"
<1>1. phase = "headers" /\ Arranged /\ Reading /\ at > Len(units) /\ at \in Nat
  BY DEF HeadersRead, BuildInv, Established, Sorted
<1>2. \A k \in DOMAIN units : k < at
  BY <1>1, UnitsOfProject
<1>. QED
  BY <1>1, <1>2 DEF Reading, AllRead

\* An order of the modules has each unit once, after those it imports.
LEMMA OrderedModules ==
  ASSUME Arranged, NEW places \in [DOMAIN units -> DOMAIN units], IsOrder(places)
  PROVE  /\ \A j, k \in DOMAIN units : places[j] = places[k] => j = k
         /\ \A k \in DOMAIN units : \E j \in DOMAIN units : places[j] = k
         /\ \A k \in DOMAIN units : Names(imports[places[k]]) \subseteq Placed(places, k - 1)
<1>0. DOMAIN units = 1..Len(units) /\ Len(units) \in Nat /\ DOMAIN places = DOMAIN units
  BY UnitsOfProject
<1>1. \A k \in DOMAIN units : /\ module[places[k]] \notin Placed(places, k - 1)
                              /\ Names(imports[places[k]]) \subseteq Placed(places, k - 1)
  BY <1>0 DEF IsOrder
<1>2. ASSUME NEW j \in 1..Len(units), NEW k \in 1..Len(units), j < k
      PROVE  places[j] # places[k]
  <2>1. j \in 1..k - 1
    BY <1>0, <1>2
  <2>2. module[places[j]] \in Placed(places, k - 1)
    BY <2>1 DEF Placed
  <2>. QED
    BY <1>0, <1>1, <2>2
<1>3. \A j, k \in 1..Len(units) : places[j] = places[k] => j = k
  BY <1>0, <1>2, Ascending
<1>4. \A k \in 1..Len(units) : \E j \in 1..Len(units) : places[j] = k
  <2>1. places \in [1..Len(units) -> 1..Len(units)]
    BY <1>0
  <2>. QED
    BY <1>0, <1>3, <2>1, Permutation
<1>. QED
  BY <1>0, <1>1, <1>3, <1>4

\* The legacy order and that of the modules have every unit once.
LEMMA Compiling ==
  ASSUME BuildInv, Legacy \/ Order
  PROVE  BuildInv'
<1>0. /\ Arranged /\ AllRead /\ phase' = "compile" /\ at' = 1
      /\ UNCHANGED Project /\ given \in Seq(SourceUnit) /\ program' = program
      /\ DOMAIN program = {"state", "directive", "function"}
  BY AllHeadersRead DEF Legacy, Order, Resolved, AllExplicit, Compile, Project, BuildInv, header
<1>1. /\ DOMAIN units = 1..Len(units) /\ Len(units) \in Nat
      /\ DOMAIN order' = DOMAIN units => \A i \in DOMAIN order' : ~(i < 1)
  BY <1>0, UnitsOfProject
<1>2. /\ given' = given /\ units' = units /\ module' = module /\ imports' = imports
      /\ Arranged' /\ AllRead' /\ Explicit' = Explicit
  BY <1>0, SameProject DEF Project
<1>3. Ordered' /\ DOMAIN order' = DOMAIN units
  <2>1. CASE Legacy
    <3>1. order' = [k \in DOMAIN units |-> k] /\ Explicit = {}
      BY <2>1 DEF Legacy, Compile
    <3>. QED
      BY <1>2, <3>1 DEF Ordered, Distinct
  <2>2. CASE Order
    <3>1. PICK places \in [DOMAIN units -> DOMAIN units] : IsOrder(places) /\ order' = places
      BY <2>2 DEF Order, Compile
    <3>2. /\ \A j, k \in DOMAIN units : places[j] = places[k] => j = k
          /\ \A k \in DOMAIN units : \E j \in DOMAIN units : places[j] = k
          /\ \A k \in DOMAIN units : Names(imports[places[k]]) \subseteq Placed(places, k - 1)
      BY <1>0, <3>1, OrderedModules
    <3>3. Explicit = DOMAIN units /\ Repeating(module, Explicit) = {} /\ Unresolved = {}
      BY <2>2 DEF Order, Resolved, AllExplicit
    <3>4. Unresolved' = {} /\ Repeating(module, Explicit)' = {}
      BY <1>2, <3>3 DEF Unresolved, Declared, Repeating, Names
    <3>5. ASSUME NEW i \in DOMAIN order'
          PROVE  Names(imports[order[i]])' \subseteq Placed(order, i - 1)'
      <4>1. Names(imports[order[i]])' = Names(imports[places[i]])
        BY <1>2, <3>1 DEF Names
      <4>2. Placed(order, i - 1)' = Placed(places, i - 1)
        BY <1>2, <3>1 DEF Placed
      <4>. QED
        BY <3>1, <3>2, <4>1, <4>2
    <3>6. ModulesResolve'
      BY <3>4, <3>5 DEF ModulesResolve
    <3>7. Distinct(order)'
      BY <3>1, <3>2 DEF Distinct
    <3>. QED
      BY <1>2, <3>1, <3>2, <3>3, <3>6, <3>7 DEF Ordered
  <2>. QED
    BY <2>1, <2>2
<1>4. Established(phase, at)'
  BY <1>0, <1>1, <1>2, <1>3 DEF Established, Sorted, Placing, Seeing, Linking, Checking, Ending, Done
<1>. QED
  BY <1>0, <1>2, <1>4 DEF BuildInv

\* A stage that begins when the one before it is over.
LEMMA StageBegins ==
  ASSUME BuildInv, AllCompiled \/ VisibilityChecked \/ Linked \/ Validated
  PROVE  BuildInv'
<1>. USE DEF Established, Sorted, Placing, Seeing, Linking, Checking, Ending, Done
<1>0. /\ Established(phase, at) /\ at \in Nat \ {0} /\ given \in Seq(SourceUnit)
      /\ phase \in {"compile", "visibility", "link", "validate"}
      /\ DOMAIN program = {"state", "directive", "function"}
  BY DEF BuildInv, AllCompiled, VisibilityChecked, Linked, Validated, PastUnits
<1>1. Arranged /\ AllRead /\ Ordered
  BY <1>0
<1>2. UNCHANGED Project /\ order' = order /\ program' = program /\ at' = 1
  BY DEF AllCompiled, VisibilityChecked, Linked, Validated, NextStage, Project, header
<1>3. /\ given' = given /\ Arranged' /\ AllRead' /\ Ordered' /\ Explicit' = Explicit
      /\ \A i : CompiledAt(i)' <=> CompiledAt(i)
      /\ \A i : VisibleAt(i)' <=> VisibleAt(i)
      /\ \A c \in 1..3 : Merged(c)' <=> Merged(c)
      /\ Checked' <=> Checked
  BY <1>1, <1>2, SameProject, SameOrder, SameProgram DEF Project
<1>4. DOMAIN order = 1..Len(order) /\ Len(order) \in Nat
  BY <1>1, Places, UnitsOfProject
<1>5. \A i \in DOMAIN order : ~(i < 1)
  BY <1>4
<1>6. \A c \in 1..3 : ~(c < 1)
  OBVIOUS
<1>7. CASE AllCompiled
  <2>1. phase = "compile" /\ at > Len(order)
        /\ phase' = IF Explicit = {} THEN "link" ELSE "visibility"
    BY <1>7 DEF AllCompiled, PastUnits, NextStage
  <2>2. \A i \in DOMAIN order : i < at
    BY <1>0, <1>4, <2>1
  <2>3. \A i \in DOMAIN order' : CompiledAt(i)'
    BY <1>0, <1>2, <1>3, <2>1, <2>2
  <2>. QED
    BY <1>0, <1>2, <1>3, <1>5, <1>6, <2>1, <2>3 DEF BuildInv
<1>8. CASE VisibilityChecked
  <2>1. phase = "visibility" /\ at > Len(order) /\ phase' = "link"
    BY <1>8 DEF VisibilityChecked, PastUnits, NextStage
  <2>2. \A i \in DOMAIN order : i < at
    BY <1>0, <1>4, <2>1
  <2>3. \A i \in DOMAIN order' : VisibleAt(i)' /\ CompiledAt(i)'
    BY <1>0, <1>2, <1>3, <2>1, <2>2
  <2>. QED
    BY <1>0, <1>2, <1>3, <1>6, <2>1, <2>3 DEF BuildInv
<1>9. CASE Linked
  <2>1. phase = "link" /\ at > 3 /\ phase' = "validate"
    BY <1>9, CategoryNumbers DEF Linked, NextStage
  <2>2. \A c \in 1..3 : c < at
    BY <1>0, <2>1
  <2>3. \A c \in 1..3 : Merged(c)'
    BY <1>0, <1>3, <2>1, <2>2
  <2>4. /\ \A i \in DOMAIN order' : CompiledAt(i)'
        /\ Explicit' = {} \/ \A i \in DOMAIN order' : VisibleAt(i)'
    BY <1>0, <1>2, <1>3, <2>1
  <2>. QED
    BY <1>0, <1>2, <1>3, <2>1, <2>3, <2>4 DEF BuildInv
<1>10. CASE Validated
  <2>1. phase = "validate" /\ phase' = "entry" /\ Checked
    BY <1>10 DEF Validated, NextStage, Checked
  <2>2. /\ \A i \in DOMAIN order' : CompiledAt(i)'
        /\ Explicit' = {} \/ \A i \in DOMAIN order' : VisibleAt(i)'
        /\ \A c \in 1..3 : Merged(c)'
    BY <1>0, <1>2, <1>3, <2>1
  <2>. QED
    BY <1>0, <1>2, <1>3, <2>1, <2>2 DEF BuildInv
<1>. QED
  BY <1>7, <1>8, <1>9, <1>10

\* A category that is merged repeats nothing.
LEMMA Merging ==
  ASSUME BuildInv, Merge
  PROVE  BuildInv'
<1>. USE DEF Established, Sorted, Placing, Seeing, Linking, Checking, Ending, Done
<1>0. /\ phase = "link" /\ phase' = "link" /\ at \in 1..3 /\ at' = at + 1
      /\ Repeated(Joined(Categories[at])) = {}
      /\ program' = [program EXCEPT ![Categories[at]] = Joined(Categories[at])]
      /\ UNCHANGED Project /\ order' = order /\ given \in Seq(SourceUnit)
      /\ given' = given /\ DOMAIN program = {"state", "directive", "function"}
  BY CategoryNumbers DEF Merge, BuildInv, Project, header
<1>1. Established(phase, at) /\ Arranged /\ AllRead /\ Ordered
  BY <1>0 DEF BuildInv
<1>3. /\ Arranged' /\ AllRead' /\ Ordered' /\ Explicit' = Explicit
      /\ \A i : CompiledAt(i)' <=> CompiledAt(i)
      /\ \A i : VisibleAt(i)' <=> VisibleAt(i)
      /\ \A category : Joined(category)' = Joined(category)
  BY <1>0, <1>1, SameProject, SameOrder
<1>4. ASSUME NEW c \in 1..3, c < at'
      PROVE  Merged(c)'
  <2>1. Merged(c)' <=> /\ program'[Categories[c]] = Joined(Categories[c])
                       /\ Repeated(Joined(Categories[c])) = {}
    BY <1>3 DEF Merged, Categories, Repeated, Names
  <2>2. CASE c = at
    <3>1. Categories[c] \in DOMAIN program
      BY <1>0, CategoryNumbers DEF Category
    <3>. QED
      BY <1>0, <2>1, <2>2, <3>1
  <2>3. CASE c < at
    <3>1. Categories[c] # Categories[at]
      BY <1>0, <2>3, CategoryNumbers
    <3>2. Merged(c)
      BY <1>0, <1>1, <2>3
    <3>. QED
      BY <1>0, <2>1, <3>1, <3>2 DEF Merged
  <2>. QED
    BY <1>0, <1>4, <2>2, <2>3
<1>5. /\ \A i \in DOMAIN order' : CompiledAt(i)'
      /\ Explicit' = {} \/ \A i \in DOMAIN order' : VisibleAt(i)'
  BY <1>0, <1>1, <1>3
<1>. QED
  BY <1>0, <1>3, <1>4, <1>5 DEF BuildInv

\* A build that ends has passed every stage; one that is executed was built.
LEMMA BuildEnds ==
  ASSUME BuildInv, Ending(phase), phase' \in {"built", "executed"}, Valid,
         UNCHANGED Project, order' = order, program' = program, at' = at
  PROVE  BuildInv'
<1>. USE DEF Established, Sorted, Placing, Seeing, Linking, Checking, Ending, Done
<1>0. /\ Arranged /\ AllRead /\ Ordered /\ \A i \in DOMAIN order : CompiledAt(i)
      /\ Explicit = {} \/ \A i \in DOMAIN order : VisibleAt(i)
      /\ \A c \in 1..3 : Merged(c)
      /\ Checked
      /\ at \in Nat \ {0} /\ given \in Seq(SourceUnit)
      /\ DOMAIN program = {"state", "directive", "function"}
  BY DEF BuildInv
<1>1. /\ given' = given /\ Arranged' /\ AllRead' /\ Ordered' /\ Explicit' = Explicit
      /\ \A i : CompiledAt(i)' <=> CompiledAt(i)
      /\ \A i : VisibleAt(i)' <=> VisibleAt(i)
      /\ \A c \in 1..3 : Merged(c)' <=> Merged(c)
      /\ Checked' /\ Valid'
  BY <1>0, SameProject, SameOrder, SameProgram DEF Project
<1>2. /\ \A i \in DOMAIN order' : CompiledAt(i)'
      /\ Explicit' = {} \/ \A i \in DOMAIN order' : VisibleAt(i)'
      /\ \A c \in 1..3 : Merged(c)'
  BY <1>0, <1>1
<1>. QED
  BY <1>0, <1>1, <1>2 DEF BuildInv

\* A build whose entry is resolved, or left open, is of a valid project.
LEMMA EntryResolves ==
  ASSUME BuildInv, EntryGiven \/ EntryLeftOpen
  PROVE  BuildInv'
<1>1. /\ phase = "entry" /\ phase' = "built" /\ UNCHANGED Project /\ order' = order
      /\ program' = program /\ at' = at
  BY DEF EntryGiven, EntryLeftOpen, Project, header
<1>2. asked # None => Matching(asked) # {}
  BY DEF EntryGiven, EntryLeftOpen
<1>3. Established("entry", at) /\ given \in Seq(SourceUnit)
  BY <1>1 DEF BuildInv
<1>4. Valid
  BY <1>2, <1>3, AcceptedIsValid
<1>5. Ending(phase)
  BY <1>1 DEF Sorted, Placing, Seeing, Linking, Checking, Ending
<1>. QED
  BY <1>1, <1>4, <1>5, BuildEnds

\* An execution refuses its entry or ends what is built.
LEMMA Executing ==
  ASSUME BuildInv, NEW reference, Execute(reference)
  PROVE  BuildInv'
<1>1. CASE Refuse("ProjectEntryPointError", {})
  BY <1>1, Refusing
<1>2. CASE ~Refuse("ProjectEntryPointError", {})
  <2>1. /\ phase = "built" /\ phase' = "executed" /\ UNCHANGED Project /\ order' = order
        /\ program' = program /\ at' = at
    BY <1>2 DEF Execute, Project, header
  <2>2. Ending(phase) /\ Valid
    BY <2>1 DEF BuildInv, Established, Sorted, Placing, Seeing, Linking, Checking, Ending, Done
  <2>. QED
    BY <2>1, <2>2, BuildEnds
<1>. QED
  BY <1>1, <1>2

\* A unit that is compiled or whose references are visible.
LEMMA UnitPasses ==
  ASSUME BuildInv, Compiled \/ AllVisible
  PROVE  BuildInv'
<1>1. /\ UNCHANGED Project /\ order' = order /\ program' = program /\ phase' = phase
      /\ at' = at + 1
  BY DEF Compiled, AllVisible, NextUnit, Project, header
<1>2. CASE Compiled
  <2>1. phase = "compile" /\ CompiledAt(at)
    BY <1>2 DEF Compiled, AtUnit, Unit, CompiledAt
  <2>. QED
    BY <1>1, <2>1, Going
<1>3. CASE AllVisible
  <2>1. phase = "visibility" /\ VisibleAt(at)
    BY <1>3 DEF AllVisible, AtUnit, Unit, VisibleAt, Hidden
  <2>. QED
    BY <1>1, <2>1, Going
<1>. QED
  BY <1>2, <1>3

\* The steps in which nothing that is said of the build changes.
LEMMA StandsStill ==
  ASSUME BuildInv, UNCHANGED vars
  PROVE  BuildInv'
<1>1. /\ UNCHANGED Project /\ order' = order /\ program' = program /\ at' = at
      /\ phase' = phase /\ line' = line /\ body' = body /\ failure' = failure
      /\ given' = given /\ asked' = asked /\ units' = units /\ module' = module
      /\ imports' = imports
  BY DEF vars, header, Project
<1>2. /\ Arranged' <=> Arranged
      /\ AllRead' <=> AllRead
      /\ Explicit' = Explicit
      /\ Valid' <=> Valid
      /\ \A k : HeaderRead(k)' <=> HeaderRead(k)
      /\ Ordered' <=> Ordered
      /\ \A i : CompiledAt(i)' <=> CompiledAt(i)
      /\ \A i : VisibleAt(i)' <=> VisibleAt(i)
      /\ \A c \in 1..3 : Merged(c)' <=> Merged(c)
      /\ Checked' <=> Checked
  BY <1>1, SameProject, SameOrder, SameProgram
<1>3. Reading' <=> Reading
  BY <1>1, <1>2 DEF Reading
<1>4. Begun' <=> Begun
  BY <1>1 DEF Begun
<1>5. Established(phase, at)' <=> Established(phase, at)
  BY <1>1, <1>2, <1>3 DEF Established
<1>. QED
  BY <1>1, <1>2, <1>4, <1>5 DEF BuildInv

\* Nothing is established at first.
LEMMA BuildInvInit ==
  ASSUME Init
  PROVE  BuildInv
<1>1. given \in Seq(SourceUnit)
  BY ProjectConstants DEF Init
<1>2. Established("sources", 1)
  BY DEF Established, Sorted, Placing, Seeing, Linking, Checking, Ending, Done
<1>3. Begun
  BY DEF Init, Begun
<1>4. DOMAIN program = {"state", "directive", "function"}
  BY DEF Init
<1>. QED
  BY <1>1, <1>2, <1>3, <1>4 DEF Init, BuildInv

\* Every step keeps what is established.
LEMMA BuildInvNext ==
  ASSUME BuildInv, [Next]_vars
  PROVE  BuildInv'
<1>1. CASE \/ NoSources \/ DuplicateSource
           \/ SecondModule \/ ImportBeforeModule \/ DuplicateImport \/ Misplaced
           \/ MissingDeclaration \/ DuplicateModule \/ UndefinedImport \/ ImportCycle
           \/ NotCompiled \/ NotVisible \/ DuplicateDefinition
           \/ UndefinedReference \/ RecursiveFunctions \/ UndefinedEntry
  BY <1>1, Refused
<1>2. CASE Normalize
  BY <1>2, Normalizing
<1>3. CASE Declare \/ Import \/ Blank \/ Text
  BY <1>3, HeaderLines
<1>4. CASE UnitRead
  BY <1>4, UnitReading
<1>5. CASE Legacy \/ Order
  BY <1>5, Compiling
<1>6. CASE Compiled \/ AllVisible
  BY <1>6, UnitPasses
<1>7. CASE AllCompiled \/ VisibilityChecked \/ Linked \/ Validated
  BY <1>7, StageBegins
<1>8. CASE Merge
  BY <1>8, Merging
<1>9. CASE EntryGiven \/ EntryLeftOpen
  BY <1>9, EntryResolves
<1>10. CASE \E reference \in Entries : Execute(reference)
  BY <1>10, Executing
<1>11. CASE Over \/ UNCHANGED vars
  BY <1>11, StandsStill DEF Over
<1>. QED
  BY <1>1, <1>2, <1>3, <1>4, <1>5, <1>6, <1>7, <1>8, <1>9, <1>10, <1>11
  DEF Next, ReadHeader, ResolveModules

\* The inductive invariant.
THEOREM BuildInvariant == Spec => []BuildInv
<1>1. Init => BuildInv
  BY BuildInvInit
<1>2. BuildInv /\ [Next]_vars => BuildInv'
  BY BuildInvNext
<1>. QED
  BY <1>1, <1>2, PTL DEF Spec

-----------------------------------------------------------------------------
(* The theorems.                                                           *)

\* What the stages together decide: all that is built is a valid project, and
\* all that is refused, but for an entry, is not.
THEOREM BuildsTheValid == Spec => []BuiltIffValid
<1>1. BuildInv => BuiltIffValid
  BY DEF BuildInv, BuiltIffValid, IsBuilt, Established, Sorted, Placing, Seeing, Linking,
         Checking, Ending, Done
<1>. QED
  BY <1>1, BuildInvariant, PTL

\* What is known of a project that is built.
LEMMA BuiltProject ==
  ASSUME BuildInv, IsBuilt
  PROVE  Arranged /\ AllRead /\ Ordered /\ GoodReferences
BY DEF BuildInv, IsBuilt, Valid, Established, Sorted, Placing, Seeing, Linking, Checking,
       Ending, Done

\* Every reference of a project that is built has one definition, in its own
\* unit or in one that its unit imports (validate_module_visibility).
THEOREM BuiltReferencesResolve == Spec => []ReferencesResolve
<1>1. ASSUME BuildInv, IsBuilt, NEW k \in DOMAIN units, NEW id \in Names(units[k].refers)
      PROVE  \E target \in DOMAIN units :
               /\ \A j \in DOMAIN units : units[j].declares = id <=> j = target
               /\ Explicit # {} => target = k \/ module[target] \in Names(imports[k])
  <2>0. Arranged /\ AllRead /\ Ordered /\ GoodReferences
    BY <1>1, BuiltProject
  <2>1. PICK v \in Sources :
          /\ Declaring(id) = {v}
          /\ ModuleOf(units[k]) # {} => units[k] = v \/ ModuleOf(v) \cap ImportsOf(units[k]) # {}
    BY <2>0, UnitsOfProject DEF GoodReferences, Refers
  <2>2. PICK target \in DOMAIN units : v = units[target]
    BY <2>0, UnitsOfProject
  <2>3. ASSUME NEW j \in DOMAIN units
        PROVE  units[j].declares = id <=> j = target
    <3>1. units[j].declares = id <=> units[j] = units[target]
      BY <2>0, <2>1, <2>2, UnitsOfProject DEF Declaring
    <3>. QED
      BY <2>0, <2>2, <3>1, UnitsOfProject
  <2>4. ASSUME Explicit # {}
        PROVE  target = k \/ module[target] \in Names(imports[k])
    <3>1. k \in Explicit /\ target \in Explicit
      BY <2>0, <2>4, ModulesApart
    <3>2. /\ ModuleOf(units[k]) = {module[k]} /\ ModuleOf(v) = {module[target]}
          /\ ImportsOf(units[k]) = Names(imports[k])
      BY <2>0, <2>2, <3>1, ReadUnits
    <3>3. CASE units[k] = v
      BY <2>0, <2>2, <3>3, UnitsOfProject
    <3>4. CASE ModuleOf(v) \cap ImportsOf(units[k]) # {}
      BY <3>2, <3>4
    <3>. QED
      BY <2>1, <3>2, <3>3, <3>4
  <2>. QED
    BY <2>3, <2>4
<1>2. BuildInv => ReferencesResolve
  BY <1>1 DEF ReferencesResolve
<1>. QED
  BY <1>2, BuildInvariant, PTL

\* With modules, what a unit refers to is linked before it or is itself.
THEOREM BuiltReferencesGoBack == Spec => []ReferencesGoBack
<1>1. ASSUME BuildInv, IsBuilt, Explicit # {}, NEW i \in DOMAIN order, NEW j \in DOMAIN order,
             units[order[j]].declares \in Names(units[order[i]].refers)
      PROVE  j <= i
  <2>0. Arranged /\ AllRead /\ Ordered /\ GoodReferences
    BY <1>1, BuiltProject
  <2>. DEFINE u == units[order[i]]
              w == units[order[j]]
  <2>1. /\ order[i] \in DOMAIN units /\ order[j] \in DOMAIN units
        /\ u \in Sources /\ w \in Sources
    BY <2>0, Places, UnitsOfProject
  <2>2. /\ ModuleOf(u) = {module[order[i]]} /\ ModuleOf(w) = {module[order[j]]}
        /\ ImportsOf(u) = Names(imports[order[i]])
    <3>1. order[i] \in Explicit /\ order[j] \in Explicit
      BY <1>1, <2>0, <2>1, ModulesApart
    <3>. QED
      BY <2>0, <2>1, <3>1, ReadUnits
  <2>3. PICK v \in Sources : /\ Declaring(w.declares) = {v}
                             /\ u = v \/ ModuleOf(v) \cap ImportsOf(u) # {}
    BY <1>1, <2>0, <2>1, <2>2 DEF GoodReferences, Refers
  <2>4. v = w
    BY <2>1, <2>3 DEF Declaring
  <2>5. i \in Nat /\ j \in Nat
    <3>1. DOMAIN order = 1..Len(units)
      BY <2>0, Places, UnitsOfProject
    <3>. QED
      BY <3>1
  <2>6. CASE u = v
    <3>1. order[i] = order[j]
      BY <2>0, <2>1, <2>4, <2>6, UnitsOfProject
    <3>2. i = j
      BY <2>0, <3>1, Places
    <3>. QED
      BY <2>5, <3>2
  <2>7. CASE ModuleOf(v) \cap ImportsOf(u) # {}
    <3>1. module[order[j]] \in Names(imports[order[i]])
      BY <2>2, <2>4, <2>7
    <3>2. j < i
      BY <1>1, <2>0, <3>1, ImportedBefore
    <3>. QED
      BY <2>5, <3>2
  <2>. QED
    BY <2>3, <2>6, <2>7
<1>2. BuildInv => ReferencesGoBack
  BY <1>1 DEF ReferencesGoBack
<1>. QED
  BY <1>2, BuildInvariant, PTL

-----------------------------------------------------------------------------
(* Types: what a refusal is about are units, and only a refusal has a code. *)

Phases == {"sources", "headers", "compile", "visibility", "link", "validate", "entry",
           "built", "executed", "refused"}

\* A refusal with a code of the build, about sources that are given.
LEMMA TypedRefusal ==
  ASSUME TypeOK, NEW code \in Codes, NEW about, about \subseteq DOMAIN given,
         Refuse(code, about)
  PROVE  TypeOK'
<1>1. /\ failure' = [code |-> code, about |-> about] /\ phase' = "refused"
      /\ given' = given /\ units' = units /\ at' = at /\ order' = order
      /\ line' = line /\ body' = body /\ module' = module /\ imports' = imports
  BY DEF Refuse, header
<1>2. code # None
  BY ProjectConstants
<1>3. Names(order)' = Names(order)
  BY <1>1 DEF Names
<1>4. body' \in BOOLEAN
  BY <1>1 DEF TypeOK
<1>. QED
  BY <1>1, <1>2, <1>3, <1>4 DEF TypeOK

\* Any other step.
LEMMA TypedStep ==
  ASSUME TypeOK, phase # "refused", phase' \in Phases \ {"refused"}, failure' = failure,
         given' = given, at' \in Nat \ {0}, line' \in Nat \ {0}, body' \in BOOLEAN,
         DOMAIN module' = DOMAIN units', DOMAIN imports' = DOMAIN units',
         Names(order)' \subseteq DOMAIN units'
  PROVE  TypeOK'
BY DEF TypeOK, Phases

\* A step that leaves the project and the order as they are.
LEMMA TypedProgress ==
  ASSUME TypeOK, phase # "refused", phase' \in Phases \ {"refused"}, failure' = failure,
         UNCHANGED <<given, units, header, order>>, at' \in Nat \ {0}
  PROVE  TypeOK'
<1>1. /\ given' = given /\ units' = units /\ order' = order
      /\ line' = line /\ body' = body /\ module' = module /\ imports' = imports
  BY DEF header
<1>2. body' \in BOOLEAN
  BY <1>1 DEF TypeOK
<1>3. Names(order)' = Names(order)
  BY <1>1 DEF Names
<1>. QED
  BY <1>1, <1>2, <1>3, TypedStep DEF TypeOK

\* What each refusal is about.
LEMMA TypedRefusals ==
  ASSUME BuildInv, TypeOK,
         \/ NoSources \/ DuplicateSource
         \/ SecondModule \/ ImportBeforeModule \/ DuplicateImport \/ Misplaced
         \/ MissingDeclaration \/ DuplicateModule \/ UndefinedImport \/ ImportCycle
         \/ NotCompiled \/ NotVisible \/ DuplicateDefinition
         \/ UndefinedReference \/ RecursiveFunctions \/ UndefinedEntry
  PROVE  TypeOK'
<1>. USE DEF Established, Sorted, Placing, Seeing, Linking, Checking, Ending, Done, Codes
<1>0. Established(phase, at) /\ at \in Nat \ {0} /\ given \in Seq(SourceUnit)
  BY DEF BuildInv
<1>. SUFFICES ASSUME TRUE
              PROVE  \E code \in Codes, about \in SUBSET DOMAIN given : Refuse(code, about)
  BY TypedRefusal
<1>1. CASE NoSources
  BY <1>1 DEF NoSources
<1>2. CASE DuplicateSource
  <2>. DEFINE repeating == Repeating(SourceNames, DOMAIN given)
  <2>1. repeating \subseteq DOMAIN given /\ repeating # {} /\ DOMAIN given \subseteq Nat
    BY <1>0, <1>2 DEF DuplicateSource, Repeating
  <2>. HIDE DEF repeating
  <2>2. {Least(repeating)} \in SUBSET DOMAIN given
    BY <2>1, LeastIn
  <2>. QED
    BY <1>2, <2>2 DEF DuplicateSource, repeating
<1>3. CASE SecondModule \/ ImportBeforeModule \/ DuplicateImport \/ Misplaced
  <2>1. PICK kinds : AtLine(kinds)
    BY <1>3 DEF SecondModule, ImportBeforeModule, DuplicateImport, Misplaced, Declares, Imports
  <2>2. Arranged /\ Reading
    BY <1>0, <2>1 DEF AtLine
  <2>3. at \in DOMAIN given
    BY <2>1, <2>2, LineAtHand, UnitsOfProject
  <2>4. {at} \in SUBSET DOMAIN given
    BY <2>3
  <2>. QED
    BY <1>3, <2>4 DEF SecondModule, ImportBeforeModule, DuplicateImport, Misplaced
<1>4. CASE MissingDeclaration \/ DuplicateModule \/ UndefinedImport \/ ImportCycle
  <2>1. HeadersRead
    BY <1>4 DEF MissingDeclaration, DuplicateModule, UndefinedImport, ImportCycle, AllExplicit,
                Resolved
  <2>2. Arranged
    BY <2>1, AllHeadersRead
  <2>3. DOMAIN units = DOMAIN given /\ DOMAIN units \subseteq Nat /\ Explicit \subseteq DOMAIN units
    BY <2>2, UnitsOfProject DEF Explicit
  <2>4. CASE MissingDeclaration
    BY <2>3, <2>4 DEF MissingDeclaration
  <2>5. CASE DuplicateModule
    <3>. DEFINE repeating == Repeating(module, Explicit)
    <3>1. repeating \subseteq Explicit /\ repeating # {}
      BY <2>5 DEF DuplicateModule, Repeating
    <3>. HIDE DEF repeating
    <3>2. {Least(repeating)} \in SUBSET DOMAIN given
      BY <2>3, <3>1, LeastIn
    <3>. QED
      BY <2>5, <3>2 DEF DuplicateModule, repeating
  <2>6. CASE UndefinedImport
    <3>1. Unresolved \subseteq Explicit /\ Unresolved # {}
      BY <2>6 DEF UndefinedImport, Unresolved
    <3>2. {Least(Unresolved)} \in SUBSET DOMAIN given
      BY <2>3, <3>1, LeastIn
    <3>. QED
      BY <2>6, <3>2 DEF UndefinedImport
  <2>7. CASE ImportCycle
    <3>1. PICK path \in Paths : Refuse("APX-MODULE-007", Names(path))
      BY <2>7 DEF ImportCycle
    <3>2. PICK n : path \in [1..n -> Explicit]
      BY <3>1 DEF Paths
    <3>3. Names(path) \in SUBSET DOMAIN given
      BY <2>3, <3>2 DEF Names
    <3>. QED
      BY <3>1, <3>3
  <2>. QED
    BY <1>4, <2>4, <2>5, <2>6, <2>7
<1>5. CASE NotCompiled \/ NotVisible
  <2>1. Arranged /\ Ordered /\ at <= Len(order)
    BY <1>0, <1>5 DEF NotCompiled, NotVisible, AtUnit
  <2>2. at \in DOMAIN order
    BY <1>0, <2>1, Places, UnitsOfProject
  <2>3. order[at] \in DOMAIN units /\ DOMAIN units = DOMAIN given
    BY <2>1, <2>2, Places, UnitsOfProject
  <2>. HIDE DEF Established, Codes
  <2>4. {order[at]} \in SUBSET DOMAIN given
    BY <2>3
  <2>5. {"ProjectCompilationError", "APX-MODULE-008"} \subseteq Codes
    BY DEF Codes
  <2>. QED
    BY <1>5, <2>4, <2>5 DEF NotCompiled, NotVisible
<1>6. CASE DuplicateDefinition
  <2>1. Arranged /\ Ordered
    BY <1>0, <1>6 DEF DuplicateDefinition, AtUnit
  <2>2. \A category, ids : DefinedBy(category, ids) \in SUBSET DOMAIN given
    BY <2>1, Places, UnitsOfProject DEF DefinedBy
  <2>. QED
    BY <1>6, <2>2 DEF DuplicateDefinition
<1>7. CASE UndefinedReference \/ RecursiveFunctions
  <2>1. Arranged
    BY <1>0, <1>7 DEF UndefinedReference, RecursiveFunctions
  <2>2. DOMAIN units = DOMAIN given
    BY <2>1, UnitsOfProject
  <2>3. CASE UndefinedReference
    BY <2>2, <2>3 DEF UndefinedReference, Dangling
  <2>4. CASE RecursiveFunctions
    <3>1. PICK functions : Refuse("ProjectValidationError",
                                  {k \in DOMAIN units : units[k].declares \in functions})
      BY <2>4 DEF RecursiveFunctions
    <3>2. {k \in DOMAIN units : units[k].declares \in functions} \in SUBSET DOMAIN given
      BY <2>2
    <3>. QED
      BY <3>1, <3>2
  <2>. QED
    BY <1>7, <2>3, <2>4
<1>8. CASE UndefinedEntry
  BY <1>8 DEF UndefinedEntry
<1>. QED
  BY <1>1, <1>2, <1>3, <1>4, <1>5, <1>6, <1>7, <1>8

\* The steps along the headers.
LEMMA TypedHeaders ==
  ASSUME BuildInv, BuildInv', TypeOK, Normalize \/ Declare \/ Import \/ Blank \/ Text \/ UnitRead
  PROVE  TypeOK'
<1>1. /\ phase \in {"sources", "headers"} /\ phase' = "headers" /\ failure' = failure
      /\ given' = given /\ order' = order
  BY DEF Normalize, Declare, Import, Blank, Text, UnitRead, NextLine, Declares, Imports, AtLine
<1>2. order = <<>> /\ at' \in Nat \ {0}
  BY <1>1 DEF BuildInv, Begun, Established, Reading
<1>3. DOMAIN module' = DOMAIN units' /\ DOMAIN imports' = DOMAIN units'
  BY <1>1 DEF BuildInv, Established, Sorted, Arranged
<1>4. Names(order)' \subseteq DOMAIN units'
  BY <1>1, <1>2 DEF Names
<1>5. line' \in Nat \ {0}
  BY DEF TypeOK, Normalize, Declare, Import, Blank, Text, UnitRead, NextLine
<1>6. body' \in BOOLEAN
  <2>1. body' = body \/ body' = TRUE \/ body' = FALSE
    BY DEF Normalize, Declare, Import, Blank, Text, UnitRead
  <2>2. body \in BOOLEAN
    BY DEF TypeOK
  <2>. QED
    BY <2>1, <2>2
<1>7. phase' \in Phases \ {"refused"} /\ phase # "refused"
  BY <1>1 DEF Phases
<1>. QED
  BY <1>1, <1>2, <1>3, <1>4, <1>5, <1>6, <1>7, TypedStep

\* The order names units only.
LEMMA TypedCompiling ==
  ASSUME BuildInv, BuildInv', TypeOK, Legacy \/ Order
  PROVE  TypeOK'
<1>1. /\ phase = "headers" /\ phase' = "compile" /\ failure' = failure /\ given' = given
      /\ at' = 1 /\ line' = line /\ body' = body
  BY DEF Legacy, Order, Resolved, AllExplicit, HeadersRead, Compile, header
<1>2. Arranged' /\ Ordered'
  BY <1>1 DEF BuildInv, Established, Sorted, Placing
<1>3. DOMAIN module' = DOMAIN units' /\ DOMAIN imports' = DOMAIN units'
  BY <1>2 DEF Arranged
<1>4. Names(order)' \subseteq DOMAIN units'
  BY <1>2 DEF Ordered, Names
<1>5. body' \in BOOLEAN
  BY <1>1 DEF TypeOK
<1>6. line' \in Nat \ {0}
  BY <1>1 DEF TypeOK
<1>7. phase' \in Phases \ {"refused"} /\ phase # "refused" /\ at' \in Nat \ {0}
  BY <1>1 DEF Phases
<1>. QED
  BY <1>1, <1>3, <1>4, <1>5, <1>6, <1>7, TypedStep

\* The steps of the later stages.
LEMMA TypedStages ==
  ASSUME BuildInv, TypeOK,
         \/ Compiled \/ AllCompiled \/ AllVisible \/ VisibilityChecked \/ Merge \/ Linked
         \/ Validated \/ EntryGiven \/ EntryLeftOpen
         \/ \E reference \in Entries : Execute(reference)
  PROVE  TypeOK'
<1>0. at \in Nat \ {0}
  BY DEF TypeOK
<1>1. CASE Compiled \/ AllVisible \/ Merge
  <2>1. /\ phase \in {"compile", "visibility", "link"} /\ phase' = phase /\ failure' = failure
        /\ UNCHANGED <<given, units, header, order>> /\ at' = at + 1
    BY <1>1 DEF Compiled, AllVisible, Merge, AtUnit, NextUnit
  <2>2. phase' \in Phases \ {"refused"} /\ phase # "refused" /\ at' \in Nat \ {0}
    BY <1>0, <2>1 DEF Phases
  <2>. QED
    BY <2>1, <2>2, TypedProgress
<1>2. CASE AllCompiled \/ VisibilityChecked \/ Linked \/ Validated
  <2>1. /\ phase \in {"compile", "visibility", "link", "validate"}
        /\ phase' \in {"visibility", "link", "validate", "entry"} /\ failure' = failure
        /\ UNCHANGED <<given, units, header, order>> /\ at' = 1
    BY <1>2 DEF AllCompiled, VisibilityChecked, Linked, Validated, PastUnits, NextStage
  <2>2. phase' \in Phases \ {"refused"} /\ phase # "refused" /\ at' \in Nat \ {0}
    BY <2>1 DEF Phases
  <2>. QED
    BY <2>1, <2>2, TypedProgress
<1>3. CASE EntryGiven \/ EntryLeftOpen
  <2>1. /\ phase = "entry" /\ phase' = "built" /\ failure' = failure
        /\ UNCHANGED <<given, units, header, order>> /\ at' = at
    BY <1>3 DEF EntryGiven, EntryLeftOpen
  <2>2. phase' \in Phases \ {"refused"} /\ phase # "refused" /\ at' \in Nat \ {0}
    BY <1>0, <2>1 DEF Phases
  <2>. QED
    BY <2>1, <2>2, TypedProgress
<1>4. CASE \E reference \in Entries : Execute(reference)
  <2>1. PICK reference : Execute(reference)
    BY <1>4
  <2>2. CASE Refuse("ProjectEntryPointError", {})
    <3>1. {} \subseteq DOMAIN given /\ "ProjectEntryPointError" \in Codes
      BY DEF Codes
    <3>. QED
      BY <2>2, <3>1, TypedRefusal
  <2>3. CASE ~Refuse("ProjectEntryPointError", {})
    <3>1. /\ phase = "built" /\ phase' = "executed" /\ failure' = failure
          /\ UNCHANGED <<given, units, header, order>> /\ at' = at
      BY <2>1, <2>3 DEF Execute
    <3>2. phase' \in Phases \ {"refused"} /\ phase # "refused" /\ at' \in Nat \ {0}
      BY <1>0, <3>1 DEF Phases
    <3>. QED
      BY <3>1, <3>2, TypedProgress
  <2>. QED
    BY <2>2, <2>3
<1>. QED
  BY <1>1, <1>2, <1>3, <1>4

\* All steps.
LEMMA TypeOKNext ==
  ASSUME BuildInv, BuildInv', TypeOK, [Next]_vars
  PROVE  TypeOK'
<1>1. CASE \/ NoSources \/ DuplicateSource
           \/ SecondModule \/ ImportBeforeModule \/ DuplicateImport \/ Misplaced
           \/ MissingDeclaration \/ DuplicateModule \/ UndefinedImport \/ ImportCycle
           \/ NotCompiled \/ NotVisible \/ DuplicateDefinition
           \/ UndefinedReference \/ RecursiveFunctions \/ UndefinedEntry
  BY <1>1, TypedRefusals
<1>2. CASE Normalize \/ Declare \/ Import \/ Blank \/ Text \/ UnitRead
  BY <1>2, TypedHeaders
<1>3. CASE Legacy \/ Order
  BY <1>3, TypedCompiling
<1>4. CASE \/ Compiled \/ AllCompiled \/ AllVisible \/ VisibilityChecked \/ Merge \/ Linked
           \/ Validated \/ EntryGiven \/ EntryLeftOpen
           \/ \E reference \in Entries : Execute(reference)
  BY <1>4, TypedStages
<1>5. CASE Over \/ UNCHANGED vars
  <2>1. UNCHANGED vars
    BY <1>5 DEF Over
  <2>2. /\ phase' = phase /\ given' = given /\ units' = units /\ at' = at /\ order' = order
        /\ line' = line /\ body' = body /\ module' = module /\ imports' = imports
        /\ failure' = failure
    BY <2>1 DEF vars, header
  <2>3. Names(order)' = Names(order)
    BY <2>2 DEF Names
  <2>4. body' \in BOOLEAN
    BY <2>2 DEF TypeOK
  <2>. QED
    BY <2>2, <2>3, <2>4 DEF TypeOK
<1>. QED
  BY <1>1, <1>2, <1>3, <1>4, <1>5 DEF Next, ReadHeader, ResolveModules

\* Types: a refusal has a code and names places of sources, and nothing else
\* of the build has either; an order names units only.
THEOREM BuildTypes == Spec => []TypeOK
<1>1. Init => TypeOK
  <2>. SUFFICES ASSUME Init PROVE TypeOK
    OBVIOUS
  <2>1. body \in BOOLEAN
    BY DEF Init
  <2>2. failure.code = None /\ failure.about = {} /\ Names(order) = {}
    BY DEF Init, NoFailure, Names
  <2>. QED
    BY <2>1, <2>2 DEF Init, TypeOK
<1>2. BuildInv /\ BuildInv' /\ TypeOK /\ [Next]_vars => TypeOK'
  BY TypeOKNext
<1>. QED
  BY <1>1, <1>2, BuildInvariant, PTL DEF Spec

\* The header of a unit that was read says what the unit declares and imports.
LEMMA HeaderSays ==
  ASSUME Arranged, NEW k \in DOMAIN units, HeaderRead(k)
  PROVE  LET lines == units[k].lines
             where(kinds) == {l \in DOMAIN lines : lines[l].kind \in kinds}
         IN  /\ \A l \in where({"module", "import"}) : \A t \in where({"text"}) : l < t
             /\ \A l \in where({"module"}) : module[k] = lines[l].name
             /\ \A m \in where({"module"}), l \in where({"import"}) : m < l
             /\ Names(imports[k]) = {lines[l].name : l \in where({"import"})}
             /\ Len(imports[k]) = Cardinality(where({"import"}))
<1>. DEFINE u == units[k]
            where(kinds) == {l \in DOMAIN u.lines : u.lines[l].kind \in kinds}
<1>1. PICK b : HeaderUpto(u, Len(u.lines) + 1, b, module[k], imports[k])
  BY DEF HeaderRead
<1>2. u \in SourceUnit
  BY UnitsOfProject
<1>3. u.lines \in Seq(HeaderLine)
  BY <1>2 DEF SourceUnit
<1>4. Len(u.lines) \in Nat /\ DOMAIN u.lines = 1..Len(u.lines)
  BY <1>3
<1>. HIDE DEF u
<1>5. \A kinds : Before(u, Len(u.lines) + 1, kinds) = where(kinds)
  BY <1>4 DEF Before
<1>. HIDE DEF where
<1>6. \A l \in where({"module", "import"}) : \A t \in where({"text"}) : l < t
  BY <1>1, <1>5 DEF HeaderUpto
<1>7. \A l \in where({"module"}) : module[k] = u.lines[l].name
  BY <1>1, <1>5 DEF HeaderUpto
<1>8. \A l \in where({"import"}) : \E m \in where({"module"}) : m < l
  BY <1>1, <1>5 DEF HeaderUpto
<1>9. \A l, m \in where({"module"}) : l = m
  BY <1>1, <1>5 DEF HeaderUpto
<1>10. \A m \in where({"module"}), l \in where({"import"}) : m < l
  BY <1>8, <1>9
<1>11. Names(imports[k]) = {u.lines[l].name : l \in where({"import"})}
  BY <1>1, <1>5 DEF HeaderUpto
<1>12. Len(imports[k]) = Cardinality(where({"import"}))
  BY <1>1, <1>5 DEF HeaderUpto
<1>. QED
  BY <1>6, <1>7, <1>10, <1>11, <1>12 DEF u, where

\* What a unit declares and imports is what its header says (parse_module_source):
\* no line of a header is passed over, and none of the body taken for one.
THEOREM HeadersAreObeyed == Spec => []HeadersObeyed
<1>1. ASSUME BuildInv, TypeOK, NEW k \in {j \in DOMAIN units : phase = "headers" => j < at},
             phase # "refused"
      PROVE  Arranged /\ k \in DOMAIN units /\ HeaderRead(k)
  <2>1. phase # "sources"
    BY <1>1 DEF BuildInv, Begun
  <2>. QED
    BY <1>1, <2>1 DEF TypeOK, BuildInv, Established, Reading, AllRead, Sorted, Placing
<1>2. BuildInv /\ TypeOK => HeadersObeyed
  BY <1>1, HeaderSays DEF HeadersObeyed
<1>. QED
  BY <1>2, BuildInvariant, BuildTypes, PTL

=============================================================================
