------------------------- MODULE ModuleGraphProofs -------------------------
(***************************************************************************)
(* Proofs about ModuleGraph, for every finite set of modules and every     *)
(* graph over them: what is reported as a cycle is one, a module is placed *)
(* after its imports, and no cycle escapes the search.                     *)
(***************************************************************************)
EXTENDS ModuleGraph, FiniteSetTheorems, InductionLemmas, TLAPS

-----------------------------------------------------------------------------
(* The inductive invariant.                                                *)

Members(s) == {s[k] : k \in DOMAIN s}
Distinct(s) == \A i, j \in DOMAIN s : s[i] = s[j] => i = j

\* The state of a module tells where it is, and each module on the stack
\* imports the next.
WhereIs ==
  /\ \A m \in Module : state[m] = 1 <=> m \in Members(stack)
  /\ \A m \in Module : state[m] = 2 <=> m \in Members(left)
  /\ \A m \in Module : remaining[m] \subseteq imports[m]
  /\ \A m \in Module : state[m] = 0 => remaining[m] = imports[m]
  /\ \A k \in 1..Len(stack) - 1 : stack[k + 1] \in imports[stack[k]]

\* An import that was looked at has been left, or is next on the stack.
LookedAt ==
  phase = "search" =>
    \A m \in Module : state[m] # 0 =>
      \A n \in imports[m] \ remaining[m] :
        \/ state[n] = 2
        \/ \E k \in 1..Len(stack) - 1 : stack[k] = m /\ stack[k + 1] = n

\* A module is left after all that it imports.
LeftLast ==
  \A k \in DOMAIN left : \A m \in imports[left[k]] :
    \E j \in 1..k - 1 : left[j] = m

\* The order begins when all modules are left.
AllLeft ==
  /\ phase \in {"search", "cyclic"} => result = <<>>
  /\ phase \in {"order", "done", "escaped"} => \A m \in Module : state[m] = 2

\* The indegree of a module counts its imports still to be placed, and the
\* heap holds those to be placed that have none.
Counted ==
  phase = "order" =>
    /\ \A m \in Module : indegree[m] = Cardinality(imports[m] \ Placed)
    /\ heap = {m \in Module \ Placed : imports[m] \subseteq Placed}

ResultCounted == Len(result) = Cardinality(Placed)

GraphInv == /\ TypeOK /\ WhereIs /\ LookedAt /\ LeftLast /\ AllLeft
            /\ Counted /\ ResultCounted /\ ImportsFirst /\ CycleIsReal
            /\ NoCycleEscapes

-----------------------------------------------------------------------------
(* Lemmas about the data.                                                  *)

\* Appending an element that is not there keeps a sequence distinct.
LEMMA AppendDistinct ==
  ASSUME NEW S, NEW s \in Seq(S), NEW e \in S, Distinct(s), e \notin Members(s)
  PROVE  /\ Append(s, e) \in Seq(S) /\ Distinct(Append(s, e))
         /\ Members(Append(s, e)) = Members(s) \cup {e}
         /\ Len(Append(s, e)) = Len(s) + 1
         /\ Append(s, e)[Len(s) + 1] = e
         /\ \A k \in 1..Len(s) : Append(s, e)[k] = s[k]
<1>. DEFINE t == Append(s, e)
<1>1. /\ t \in Seq(S) /\ Len(t) = Len(s) + 1 /\ t[Len(s) + 1] = e
      /\ \A k \in 1..Len(s) : t[k] = s[k]
  OBVIOUS
<1>2. DOMAIN s = 1..Len(s) /\ DOMAIN t = 1..(Len(s) + 1) /\ Len(s) \in Nat
  BY <1>1
<1>. HIDE DEF t
<1>3. \A k \in 1..Len(s) : t[k] # e
  BY <1>1, <1>2 DEF Members
<1>4. Distinct(t)
  BY <1>1, <1>2, <1>3 DEF Distinct
<1>5. Members(t) = Members(s) \cup {e}
  BY <1>1, <1>2 DEF Members
<1>. QED
  BY <1>1, <1>4, <1>5 DEF t

\* Taking the last element off a distinct sequence takes just that one.
LEMMA FrontDistinct ==
  ASSUME NEW S, NEW s \in Seq(S), s # <<>>, Distinct(s)
  PROVE  LET t == SubSeq(s, 1, Len(s) - 1)
         IN  /\ t \in Seq(S) /\ Distinct(t) /\ Len(t) = Len(s) - 1
             /\ \A k \in 1..Len(s) - 1 : t[k] = s[k]
             /\ s[Len(s)] \in S
             /\ Members(t) = Members(s) \ {s[Len(s)]}
<1>. DEFINE t == SubSeq(s, 1, Len(s) - 1)
<1>1. Len(s) \in Nat /\ Len(s) > 0 /\ DOMAIN s = 1..Len(s)
  OBVIOUS
<1>2. /\ t \in Seq(S) /\ Len(t) = Len(s) - 1 /\ DOMAIN t = 1..Len(s) - 1
      /\ \A k \in 1..Len(s) - 1 : t[k] = s[k]
  BY <1>1
<1>3. s[Len(s)] \in S
  BY <1>1
<1>. HIDE DEF t
<1>4. Distinct(t)
  BY <1>1, <1>2 DEF Distinct
<1>5. Members(t) = Members(s) \ {s[Len(s)]}
  BY <1>1, <1>2 DEF Distinct, Members
<1>. QED
  BY <1>2, <1>3, <1>4, <1>5 DEF t

\* The three sequences of modules are distinct.
LEMMA TypesUnfold ==
  ASSUME TypeOK
  PROVE  Distinct(stack) /\ Distinct(left) /\ Distinct(result)
BY DEF TypeOK, Distinct

\* The module on top of the stack.
LEMMA TopIsStacked ==
  ASSUME TypeOK, WhereIs, stack # <<>>
  PROVE  /\ Top \in Module /\ Top \in Members(stack) /\ state[Top] = 1
         /\ Len(stack) \in 1..Len(stack) /\ Len(stack) \in Nat
<1>1. stack \in Seq(Module)
  BY DEF TypeOK
<1>2. Len(stack) \in Nat /\ Len(stack) > 0 /\ DOMAIN stack = 1..Len(stack)
  BY <1>1
<1>. QED
  BY <1>1, <1>2 DEF Top, Members, WhereIs

-----------------------------------------------------------------------------
(* The search keeps the invariant.                                         *)

\* The search does not touch what is placed.
LEMMA SearchKeepsOrder ==
  ASSUME GraphInv, UNCHANGED <<imports, order>>, phase' \in {"search", "cyclic"},
         phase = "search"
  PROVE  AllLeft' /\ Counted' /\ ResultCounted' /\ ImportsFirst' /\ NoCycleEscapes'
<1>1. result = <<>> /\ result' = <<>>
  BY DEF GraphInv, AllLeft, order
<1>2. Placed' = Placed
  BY <1>1 DEF Placed
<1>. QED
  BY <1>1, <1>2 DEF GraphInv, AllLeft, Counted, ResultCounted, ImportsFirst,
                    NoCycleEscapes, order

\* Entering a module puts it on top of the stack.
LEMMA EnteredStack ==
  ASSUME TypeOK, WhereIs, NEW m \in Module, state[m] = 0, Entered(m)
  PROVE  /\ stack' \in Seq(Module) /\ Distinct(stack') /\ Len(stack') = Len(stack) + 1
         /\ Members(stack') = Members(stack) \cup {m}
         /\ stack'[Len(stack) + 1] = m
         /\ \A k \in 1..Len(stack) : stack'[k] = stack[k]
         /\ state' \in [Module -> 0..2] /\ state'[m] = 1
         /\ \A n \in Module : n # m => state'[n] = state[n]
<1>1. stack \in Seq(Module) /\ Distinct(stack) /\ m \notin Members(stack)
  BY TypesUnfold DEF TypeOK, WhereIs
<1>2. stack' = Append(stack, m) /\ state' = [state EXCEPT ![m] = 1]
  BY DEF Entered
<1>3. state' \in [Module -> 0..2] /\ state'[m] = 1
      /\ \A n \in Module : n # m => state'[n] = state[n]
  BY <1>2 DEF TypeOK
<1>. QED
  BY <1>1, <1>2, <1>3, AppendDistinct

LEMMA VisitKeeps ==
  ASSUME GraphInv, Visit
  PROVE  GraphInv'
<1>1. TypeOK /\ WhereIs /\ LookedAt /\ LeftLast /\ phase = "search" /\ stack = <<>>
  BY DEF GraphInv, Visit
<1>2. PICK m \in Module : state[m] = 0 /\ Entered(m)
  BY DEF Visit, IsFirst
<1>3. UNCHANGED <<imports, phase, remaining, left, cycle, indegree, heap, result>>
  BY DEF Visit, order
<1>4. /\ stack' \in Seq(Module) /\ Distinct(stack') /\ Len(stack') = 1
      /\ Members(stack') = {m}
      /\ state' \in [Module -> 0..2] /\ state'[m] = 1
      /\ \A n \in Module : n # m => state'[n] = state[n]
  BY <1>1, <1>2, EnteredStack DEF Members
<1>5. TypeOK'
  BY <1>1, <1>3, <1>4, TypesUnfold DEF TypeOK, Distinct
<1>6. WhereIs'
  <2>1. Members(stack) = {}
    BY <1>1 DEF Members
  <2>. QED
    BY <1>1, <1>2, <1>3, <1>4, <2>1 DEF WhereIs, Members
<1>7. LookedAt'
  <2>1. Len(stack) = 0
    BY <1>1
  <2>2. ASSUME NEW o \in Module, state'[o] # 0, NEW n \in imports[o] \ remaining[o]
        PROVE  state'[n] = 2
    <3>1. o # m /\ n \in Module
      BY <1>1, <1>2, <2>2 DEF WhereIs, TypeOK
    <3>2. state[o] # 0
      BY <1>4, <2>2, <3>1
    <3>3. state[n] = 2
      BY <1>1, <2>1, <2>2, <3>2 DEF LookedAt
    <3>. QED
      BY <1>2, <1>4, <3>1, <3>3
  <2>. QED
    BY <1>3, <2>2 DEF LookedAt
<1>8. LeftLast' /\ CycleIsReal'
  BY <1>1, <1>3 DEF LeftLast, CycleIsReal
<1>. QED
  BY <1>1, <1>3, <1>5, <1>6, <1>7, <1>8, SearchKeepsOrder DEF GraphInv, order

LEMMA LookAtKeeps ==
  ASSUME GraphInv, LookAt
  PROVE  GraphInv'
<1>1. TypeOK /\ WhereIs /\ LookedAt /\ LeftLast /\ phase = "search" /\ stack # <<>>
  BY DEF GraphInv, LookAt
<1>2. PICK target \in Module :
        /\ target \in remaining[Top]
        /\ remaining' = [remaining EXCEPT ![Top] = @ \ {target}]
        /\ \/ /\ state[target] = 0 /\ Entered(target)
              /\ UNCHANGED <<phase, cycle>>
           \/ /\ state[target] = 1
              /\ \E start \in 1..Len(stack) :
                   /\ stack[start] = target
                   /\ cycle' = Append(SubSeq(stack, start, Len(stack)), target)
              /\ phase' = "cyclic"
              /\ UNCHANGED <<state, stack>>
           \/ /\ state[target] = 2
              /\ UNCHANGED <<state, stack, phase, cycle>>
  BY DEF LookAt, IsFirst
<1>3. UNCHANGED <<imports, left, indegree, heap, result>>
  BY DEF LookAt, order
<1>4. Top \in Module /\ Top \in Members(stack) /\ state[Top] = 1
      /\ Len(stack) \in Nat /\ Len(stack) > 0
  BY <1>1, TopIsStacked
<1>5. /\ remaining' \in [Module -> SUBSET Module]
      /\ remaining'[Top] = remaining[Top] \ {target}
      /\ \A n \in Module : n # Top => remaining'[n] = remaining[n]
      /\ target \in imports[Top]
  BY <1>1, <1>2, <1>4 DEF TypeOK, WhereIs
<1>6. LeftLast'
  BY <1>1, <1>3 DEF LeftLast
<1>7. phase' \in {"search", "cyclic"}
  BY <1>1, <1>2
<1>8. AllLeft' /\ Counted' /\ ResultCounted' /\ ImportsFirst' /\ NoCycleEscapes'
  BY <1>1, <1>3, <1>7, SearchKeepsOrder DEF order
<1>9. CASE state[target] = 0
  <2>1. Entered(target) /\ UNCHANGED <<phase, cycle>>
    BY <1>2, <1>9
  <2>2. /\ stack' \in Seq(Module) /\ Distinct(stack') /\ Len(stack') = Len(stack) + 1
        /\ Members(stack') = Members(stack) \cup {target}
        /\ stack'[Len(stack) + 1] = target
        /\ \A k \in 1..Len(stack) : stack'[k] = stack[k]
        /\ state' \in [Module -> 0..2] /\ state'[target] = 1
        /\ \A n \in Module : n # target => state'[n] = state[n]
    BY <1>1, <1>9, <2>1, EnteredStack
  <2>3. TypeOK'
    BY <1>1, <1>3, <1>5, <2>1, <2>2, TypesUnfold DEF TypeOK, Distinct
  <2>4. WhereIs'
    <3>1. \A k \in 1..Len(stack') - 1 : stack'[k + 1] \in imports'[stack'[k]]
      <4>1. stack[Len(stack)] = Top
        BY DEF Top
      <4>. SUFFICES ASSUME NEW k \in 1..Len(stack') - 1
                    PROVE  stack'[k + 1] \in imports'[stack'[k]]
        OBVIOUS
      <4>2. CASE k = Len(stack)
        BY <1>1, <1>3, <1>4, <1>5, <2>2, <4>1, <4>2
      <4>3. CASE k # Len(stack)
        <5>1. k \in 1..Len(stack) - 1 /\ k \in 1..Len(stack) /\ k + 1 \in 1..Len(stack)
          BY <1>1, <2>2, <4>3
        <5>2. stack[k + 1] \in imports[stack[k]]
          BY <1>1, <5>1 DEF WhereIs
        <5>. QED
          BY <1>3, <2>2, <5>1, <5>2
      <4>. QED
        BY <4>2, <4>3
    <3>. QED
      BY <1>1, <1>3, <1>4, <1>5, <1>9, <2>2, <3>1 DEF WhereIs
  <2>5. LookedAt'
    <3>. SUFFICES ASSUME NEW m \in Module, state'[m] # 0,
                         NEW n \in imports[m] \ remaining'[m], state'[n] # 2
                  PROVE  \E k \in 1..Len(stack') - 1 : stack'[k] = m /\ stack'[k + 1] = n
      BY <1>3 DEF LookedAt
    <3>0. n \in Module
      BY <1>1 DEF TypeOK
    <3>1. CASE n \in remaining[m]
      <4>1. m = Top /\ n = target
        BY <1>5, <3>1
      <4>. QED
        BY <1>4, <2>2, <4>1 DEF Top
    <3>2. CASE n \notin remaining[m]
      <4>1. m # target
        BY <1>1, <1>9, <3>2 DEF WhereIs
      <4>2. state[m] # 0 /\ state[n] # 2
        BY <1>9, <2>2, <3>0, <4>1
      <4>3. PICK k \in 1..Len(stack) - 1 : stack[k] = m /\ stack[k + 1] = n
        BY <1>1, <3>2, <4>2 DEF LookedAt
      <4>. QED
        BY <1>4, <2>2, <4>3
    <3>. QED
      BY <3>1, <3>2
  <2>. QED
    BY <1>1, <1>6, <1>8, <2>1, <2>3, <2>4, <2>5 DEF GraphInv, CycleIsReal
<1>10. CASE state[target] = 1
  <2>1. PICK start \in 1..Len(stack) :
          stack[start] = target /\ cycle' = Append(SubSeq(stack, start, Len(stack)), target)
    BY <1>2, <1>10
  <2>2. phase' = "cyclic" /\ UNCHANGED <<state, stack>>
    BY <1>2, <1>10
  <2>. DEFINE size == Len(stack) - start + 1
  <2>3. /\ size \in Nat \ {0} /\ cycle' \in Seq(Module) /\ Len(cycle') = size + 1
        /\ \A k \in 1..size : cycle'[k] = stack[start + k - 1]
        /\ cycle'[size + 1] = target
    <3>1. stack \in Seq(Module)
      BY <1>1 DEF TypeOK
    <3>2. /\ SubSeq(stack, start, Len(stack)) \in Seq(Module)
          /\ Len(SubSeq(stack, start, Len(stack))) = size
          /\ \A k \in 1..size : SubSeq(stack, start, Len(stack))[k] = stack[start + k - 1]
      BY <1>4, <3>1
    <3>. QED
      BY <1>4, <2>1, <3>2
  <2>4. TypeOK'
    BY <1>1, <1>3, <1>5, <2>2, <2>3 DEF TypeOK
  <2>5. WhereIs'
    BY <1>1, <1>3, <1>4, <1>5, <2>2 DEF WhereIs
  <2>6. CycleIsReal'
    <3>1. \A k \in 1..size : cycle'[k + 1] \in imports[cycle'[k]]
      <4>. SUFFICES ASSUME NEW k \in 1..size
                    PROVE  cycle'[k + 1] \in imports[cycle'[k]]
        OBVIOUS
      <4>1. CASE k = size
        BY <1>4, <1>5, <2>3, <4>1 DEF Top
      <4>2. CASE k < size
        <5>1. start + k - 1 \in 1..Len(stack) - 1 /\ k + 1 \in 1..size
          BY <1>4, <2>3, <4>2
        <5>2. stack[start + k] \in imports[stack[start + k - 1]]
          <6>1. (start + k - 1) + 1 = start + k
            BY <1>4
          <6>. QED
            BY <1>1, <5>1, <6>1 DEF WhereIs
        <5>. QED
          BY <1>4, <2>3, <5>1, <5>2
      <4>3. k = size \/ k < size
        BY <1>4
      <4>. QED
        BY <4>1, <4>2, <4>3
    <3>2. cycle'[1] = target
      BY <1>4, <2>1, <2>3
    <3>. QED
      BY <1>3, <2>3, <3>1, <3>2 DEF CycleIsReal
  <2>7. LookedAt'
    BY <2>2 DEF LookedAt
  <2>. QED
    BY <1>6, <1>8, <2>4, <2>5, <2>6, <2>7 DEF GraphInv
<1>11. CASE state[target] = 2
  <2>1. UNCHANGED <<state, stack, phase, cycle>>
    BY <1>2, <1>11
  <2>2. TypeOK'
    BY <1>1, <1>3, <1>5, <2>1 DEF TypeOK
  <2>3. WhereIs'
    BY <1>1, <1>3, <1>4, <1>5, <2>1 DEF WhereIs
  <2>4. LookedAt'
    BY <1>1, <1>3, <1>5, <1>11, <2>1 DEF LookedAt
  <2>. QED
    BY <1>1, <1>6, <1>8, <2>1, <2>2, <2>3, <2>4 DEF GraphInv, CycleIsReal
<1>. QED
  BY <1>2, <1>9, <1>10, <1>11

LEMMA LeaveKeeps ==
  ASSUME GraphInv, Leave
  PROVE  GraphInv'
<1>1. TypeOK /\ WhereIs /\ LookedAt /\ LeftLast /\ phase = "search" /\ stack # <<>>
      /\ remaining[Top] = {}
  BY DEF GraphInv, Leave
<1>2. /\ state' = [state EXCEPT ![Top] = 2] /\ stack' = SubSeq(stack, 1, Len(stack) - 1)
      /\ left' = Append(left, Top)
      /\ UNCHANGED <<imports, phase, remaining, cycle, indegree, heap, result>>
  BY DEF Leave, order
<1>3. Top \in Module /\ Top \in Members(stack) /\ state[Top] = 1
      /\ Len(stack) \in Nat /\ Len(stack) > 0 /\ Top = stack[Len(stack)]
  BY <1>1, TopIsStacked DEF Top
<1>4. stack \in Seq(Module) /\ Distinct(stack) /\ left \in Seq(Module) /\ Distinct(left)
      /\ Top \notin Members(left)
  BY <1>1, <1>3, TypesUnfold DEF TypeOK, WhereIs
<1>5. /\ stack' \in Seq(Module) /\ Distinct(stack') /\ Len(stack') = Len(stack) - 1
      /\ \A k \in 1..Len(stack) - 1 : stack'[k] = stack[k]
      /\ Members(stack') = Members(stack) \ {Top}
  BY <1>1, <1>2, <1>3, <1>4, FrontDistinct
<1>6. /\ left' \in Seq(Module) /\ Distinct(left') /\ Len(left') = Len(left) + 1
      /\ Members(left') = Members(left) \cup {Top}
      /\ left'[Len(left) + 1] = Top /\ \A k \in 1..Len(left) : left'[k] = left[k]
  BY <1>2, <1>3, <1>4, AppendDistinct
<1>7. /\ state' \in [Module -> 0..2] /\ state'[Top] = 2
      /\ \A n \in Module : n # Top => state'[n] = state[n]
  BY <1>1, <1>2, <1>3 DEF TypeOK
<1>8. TypeOK'
  <2>1. Distinct(result')
    BY <1>1, <1>2, TypesUnfold
  <2>2. \A s \in {stack', left', result'} : \A i, j \in DOMAIN s : s[i] = s[j] => i = j
    BY <1>5, <1>6, <2>1 DEF Distinct
  <2>. QED
    BY <1>1, <1>2, <1>5, <1>6, <1>7, <2>2 DEF TypeOK
<1>9. WhereIs'
  BY <1>1, <1>2, <1>3, <1>5, <1>6, <1>7 DEF WhereIs
<1>10. \A n \in imports[Top] : state[n] = 2
  <2>. SUFFICES ASSUME NEW n \in imports[Top], state[n] # 2
                PROVE  FALSE
    OBVIOUS
  <2>1. PICK k \in 1..Len(stack) - 1 : stack[k] = Top
    BY <1>1, <1>3 DEF LookedAt
  <2>. QED
    BY <1>3, <1>4, <2>1 DEF Distinct
<1>11. LookedAt'
  <2>. SUFFICES ASSUME NEW m \in Module, state'[m] # 0,
                       NEW n \in imports[m] \ remaining[m], state'[n] # 2
                PROVE  \E k \in 1..Len(stack') - 1 : stack'[k] = m /\ stack'[k + 1] = n
    BY <1>2 DEF LookedAt
  <2>1. n \in Module /\ n # Top /\ state[n] # 2
    BY <1>1, <1>7 DEF TypeOK
  <2>2. m # Top
    BY <1>10, <2>1
  <2>3. PICK k \in 1..Len(stack) - 1 : stack[k] = m /\ stack[k + 1] = n
    BY <1>1, <1>7, <2>1, <2>2 DEF LookedAt
  <2>4. k + 1 # Len(stack)
    BY <1>3, <2>1, <2>3
  <2>5. k \in 1..Len(stack') - 1
    BY <1>3, <1>5, <2>3, <2>4
  <2>6. stack'[k] = m /\ stack'[k + 1] = n
    BY <1>3, <1>5, <2>3, <2>5
  <2>. QED
    BY <2>5, <2>6
<1>12. LeftLast'
  <2>. SUFFICES ASSUME NEW k \in DOMAIN left', NEW m \in imports[left'[k]]
                PROVE  \E j \in 1..k - 1 : left'[j] = m
    BY <1>2 DEF LeftLast
  <2>0. Len(left) \in Nat /\ DOMAIN left = 1..Len(left) /\ DOMAIN left' = 1..Len(left) + 1
    BY <1>4, <1>6
  <2>1. CASE k = Len(left) + 1
    <3>1. m \in Module /\ state[m] = 2
      BY <1>1, <1>3, <1>6, <1>10, <2>1 DEF TypeOK
    <3>2. m \in Members(left)
      BY <1>1, <3>1 DEF WhereIs
    <3>. QED
      BY <1>6, <2>0, <2>1, <3>2 DEF Members
  <2>2. CASE k \in 1..Len(left)
    <3>1. m \in imports[left[k]]
      BY <1>6, <2>2
    <3>2. PICK j \in 1..k - 1 : left[j] = m
      BY <1>1, <2>0, <2>2, <3>1 DEF LeftLast
    <3>. QED
      BY <1>6, <2>0, <2>2, <3>2
  <2>. QED
    BY <2>0, <2>1, <2>2
<1>13. CycleIsReal'
  BY <1>1, <1>2 DEF CycleIsReal
<1>. QED
  BY <1>1, <1>2, <1>8, <1>9, <1>11, <1>12, <1>13, SearchKeepsOrder DEF GraphInv, order

-----------------------------------------------------------------------------
(* The order keeps the invariant.                                          *)

\* What the order leaves alone.
LEMMA OrderKeepsSearch ==
  ASSUME GraphInv, UNCHANGED <<imports, search>>, phase \in {"search", "order"},
         phase' \in {"order", "done", "escaped"},
         \A m \in Module : state[m] = 2
  PROVE  WhereIs' /\ LookedAt' /\ LeftLast' /\ AllLeft' /\ CycleIsReal'
BY DEF GraphInv, WhereIs, LookedAt, LeftLast, AllLeft, CycleIsReal, search

LEMMA ImportsFinite ==
  ASSUME TypeOK, NEW m \in Module, NEW set
  PROVE  /\ IsFiniteSet(imports[m] \ set) /\ Cardinality(imports[m] \ set) \in Nat
         /\ Cardinality(imports[m] \ set) = 0 <=> imports[m] \subseteq set
<1>1. IsFiniteSet(imports[m])
  BY FS_Subset, ModulesNamed DEF TypeOK
<1>2. IsFiniteSet(imports[m] \ set)
  BY <1>1, FS_Subset
<1>. QED
  BY <1>2, FS_CardinalityType, FS_EmptySet

LEMMA SearchEndsKeeps ==
  ASSUME GraphInv, SearchEnds
  PROVE  GraphInv'
<1>1. TypeOK /\ WhereIs /\ AllLeft /\ ResultCounted /\ ImportsFirst
  BY DEF GraphInv
<1>2. /\ phase = "search" /\ stack = <<>> /\ \A m \in Module : state[m] # 0
      /\ phase' = "order" /\ indegree' = [m \in Module |-> Cardinality(imports[m])]
      /\ heap' = {m \in Module : indegree'[m] = 0}
      /\ UNCHANGED <<imports, state, stack, remaining, left, cycle, result>>
  BY DEF SearchEnds, search
<1>3. \A m \in Module : state[m] = 2
  <2>1. Members(stack) = {}
    BY <1>2 DEF Members
  <2>. QED
    BY <1>1, <1>2, <2>1 DEF WhereIs, TypeOK
<1>4. result = <<>> /\ Placed = {} /\ Placed' = {}
  BY <1>1, <1>2 DEF AllLeft, Placed
<1>5. \A m \in Module : imports[m] \ {} = imports[m]
  OBVIOUS
<1>6. \A m \in Module : /\ Cardinality(imports[m]) \in Nat
                        /\ Cardinality(imports[m]) = 0 <=> imports[m] \subseteq {}
  BY <1>1, <1>5, ImportsFinite
<1>7. TypeOK'
  <2>1. indegree' \in [Module -> Nat] /\ heap' \subseteq Module
    BY <1>2, <1>6
  <2>. QED
    BY <1>1, <1>2, <2>1 DEF TypeOK
<1>8. Counted'
  <2>1. \A m \in Module : indegree'[m] = Cardinality(imports[m] \ {})
    BY <1>2, <1>5
  <2>2. heap' = {m \in Module \ {} : imports[m] \subseteq {}}
    BY <1>2, <1>6
  <2>. QED
    BY <1>2, <1>4, <2>1, <2>2 DEF Counted
<1>9. ResultCounted' /\ ImportsFirst' /\ NoCycleEscapes'
  BY <1>1, <1>2, <1>4 DEF ResultCounted, ImportsFirst, NoCycleEscapes
<1>. QED
  BY <1>2, <1>3, <1>7, <1>8, <1>9, OrderKeepsSearch DEF GraphInv, search

LEMMA TakeKeeps ==
  ASSUME GraphInv, Take
  PROVE  GraphInv'
<1>1. TypeOK /\ AllLeft /\ Counted /\ ResultCounted /\ ImportsFirst /\ phase = "order"
  BY DEF GraphInv, Take
<1>2. PICK m \in Module :
        /\ m \in heap
        /\ result' = Append(result, m)
        /\ indegree' = [n \in Module |-> IF n \in Dependents(m) THEN indegree[n] - 1
                                                               ELSE indegree[n]]
        /\ heap' = (heap \ {m}) \cup {n \in Dependents(m) : indegree'[n] = 0}
  BY DEF Take, IsFirst
<1>3. UNCHANGED <<imports, phase, search>>
  BY DEF Take
<1>4. m \notin Placed /\ imports[m] \subseteq Placed
  BY <1>1, <1>2 DEF Counted
<1>5. /\ result' \in Seq(Module) /\ Distinct(result')
      /\ Placed' = Placed \cup {m} /\ Len(result') = Len(result) + 1
      /\ result'[Len(result) + 1] = m /\ \A k \in 1..Len(result) : result'[k] = result[k]
      /\ Len(result) \in Nat /\ Placed \subseteq Module
  <2>1. result \in Seq(Module) /\ Distinct(result)
    BY <1>1, TypesUnfold DEF TypeOK
  <2>2. Placed = Members(result) /\ Placed' = Members(result')
    BY DEF Placed, Members
  <2>3. Len(result) \in Nat /\ Placed \subseteq Module
    BY <2>1, <2>2 DEF Members
  <2>. QED
    BY <1>2, <1>4, <2>1, <2>2, <2>3, AppendDistinct
<1>6. \A n \in Module : indegree'[n] = Cardinality(imports[n] \ Placed') /\ indegree'[n] \in Nat
  <2>. SUFFICES ASSUME NEW n \in Module
                PROVE  /\ indegree'[n] = Cardinality(imports[n] \ Placed')
                       /\ indegree'[n] \in Nat
    OBVIOUS
  <2>1. IsFiniteSet(imports[n] \ Placed) /\ indegree[n] = Cardinality(imports[n] \ Placed)
        /\ Cardinality(imports[n] \ Placed') \in Nat
    BY <1>1, ImportsFinite DEF Counted
  <2>2. imports[n] \ Placed' = (imports[n] \ Placed) \ {m}
    BY <1>5
  <2>3. m \in imports[n] \ Placed <=> n \in Dependents(m)
    BY <1>4 DEF Dependents
  <2>4. Cardinality((imports[n] \ Placed) \ {m}) =
          IF m \in imports[n] \ Placed THEN Cardinality(imports[n] \ Placed) - 1
          ELSE Cardinality(imports[n] \ Placed)
    BY <2>1, FS_RemoveElement
  <2>. QED
    BY <1>2, <2>1, <2>2, <2>3, <2>4
<1>7. heap' = {n \in Module \ Placed' : imports[n] \subseteq Placed'}
  <2>1. \A n \in Module : indegree'[n] = 0 <=> imports[n] \subseteq Placed'
    BY <1>1, <1>6, ImportsFinite
  <2>2. \A n \in Module : n \in heap <=> n \notin Placed /\ imports[n] \subseteq Placed
    BY <1>1 DEF Counted
  <2>3. DOMAIN result = 1..Len(result)
    BY <1>1 DEF TypeOK
  <2>4. ASSUME NEW n \in Placed, NEW o \in imports[n]
        PROVE  o \in Placed
    <3>1. PICK k \in DOMAIN result : result[k] = n
      BY DEF Placed
    <3>2. PICK j \in 1..k - 1 : result[j] = o
      BY <1>1, <2>4, <3>1 DEF ImportsFirst
    <3>. QED
      BY <1>5, <2>3, <3>1, <3>2 DEF Placed
  <2>5. \A n \in Dependents(m) : n \in Module /\ n \notin Placed /\ n # m
    BY <1>4, <2>4 DEF Dependents
  <2>6. \A n \in Module : n \notin Dependents(m) =>
                           (imports[n] \subseteq Placed' <=> imports[n] \subseteq Placed)
    BY <1>5 DEF Dependents
  <2>7. \A n \in Dependents(m) : n \notin heap
    BY <1>4, <2>2, <2>5 DEF Dependents
  <2>8. heap \subseteq Module
    BY <1>1 DEF TypeOK
  <2>. QED
    BY <1>2, <1>4, <1>5, <2>1, <2>2, <2>5, <2>6, <2>7, <2>8
<1>8. TypeOK'
  <2>1. Distinct(stack') /\ Distinct(left')
    BY <1>1, <1>3, TypesUnfold DEF search
  <2>2. \A s \in {stack', left', result'} : \A i, j \in DOMAIN s : s[i] = s[j] => i = j
    BY <1>5, <2>1 DEF Distinct
  <2>3. indegree' \in [Module -> Nat] /\ heap' \subseteq Module
    BY <1>2, <1>6, <1>7
  <2>. QED
    BY <1>1, <1>3, <1>5, <2>2, <2>3 DEF TypeOK, search
<1>9. ResultCounted'
  <2>1. IsFiniteSet(Placed)
    BY <1>5, ModulesNamed, FS_Subset
  <2>2. Cardinality(Placed \cup {m}) = Cardinality(Placed) + 1
    BY <1>4, <2>1, FS_AddElement
  <2>. QED
    BY <1>1, <1>5, <2>2 DEF ResultCounted
<1>10. ImportsFirst'
  <2>. SUFFICES ASSUME NEW k \in DOMAIN result', NEW n \in imports[result'[k]]
                PROVE  \E j \in 1..k - 1 : result'[j] = n
    BY <1>3 DEF ImportsFirst
  <2>0. DOMAIN result = 1..Len(result) /\ DOMAIN result' = 1..Len(result) + 1
    BY <1>1, <1>5 DEF TypeOK
  <2>1. CASE k = Len(result) + 1
    <3>1. n \in Placed
      BY <1>4, <1>5, <2>1
    <3>. QED
      BY <1>5, <2>0, <2>1, <3>1 DEF Placed
  <2>2. CASE k \in 1..Len(result)
    <3>1. n \in imports[result[k]]
      BY <1>5, <2>2
    <3>2. PICK j \in 1..k - 1 : result[j] = n
      BY <1>1, <2>0, <2>2, <3>1 DEF ImportsFirst
    <3>. QED
      BY <1>5, <2>0, <2>2, <3>2
  <2>. QED
    BY <1>5, <2>0, <2>1, <2>2
<1>11. Counted'
  BY <1>3, <1>6, <1>7 DEF Counted
<1>12. WhereIs' /\ LookedAt' /\ LeftLast' /\ AllLeft' /\ CycleIsReal' /\ NoCycleEscapes'
  <2>1. \A n \in Module : state[n] = 2
    BY <1>1 DEF AllLeft
  <2>. QED
    BY <1>1, <1>3, <2>1, OrderKeepsSearch DEF NoCycleEscapes
<1>. QED
  BY <1>8, <1>9, <1>10, <1>11, <1>12 DEF GraphInv

\* When nothing is ready, everything is placed: of the modules not placed, the
\* first that the search left would have all its imports placed.
LEMMA EmptyHeap ==
  ASSUME GraphInv, phase = "order", heap = {}
  PROVE  Placed = Module
<1>1. TypeOK /\ WhereIs /\ LeftLast /\ AllLeft /\ Counted
  BY DEF GraphInv
<1>2. left \in Seq(Module) /\ Members(left) = Module /\ Placed \subseteq Module
  BY <1>1 DEF TypeOK, WhereIs, AllLeft, Members, Placed
<1>. DEFINE unplaced == {k \in DOMAIN left : left[k] \notin Placed}
<1>3. SUFFICES ASSUME unplaced # {}
               PROVE  FALSE
  BY <1>2 DEF Members
<1>4. unplaced \subseteq Nat /\ DOMAIN left = 1..Len(left) /\ Len(left) \in Nat
  BY <1>2
<1>5. PICK k \in unplaced : \A j \in unplaced : k <= j
  BY <1>3, <1>4, LeastNat
<1>6. imports[left[k]] \subseteq Placed
  <2>. SUFFICES ASSUME NEW n \in imports[left[k]]
                PROVE  n \in Placed
    OBVIOUS
  <2>1. PICK j \in 1..k - 1 : left[j] = n
    BY <1>1, <1>5 DEF LeftLast
  <2>. QED
    BY <1>4, <1>5, <2>1
<1>7. left[k] \in heap
  BY <1>1, <1>2, <1>5, <1>6 DEF Counted
<1>. QED
  BY <1>7

LEMMA OrderEndsKeeps ==
  ASSUME GraphInv, OrderEnds
  PROVE  GraphInv'
<1>1. /\ phase = "order" /\ heap = {}
      /\ phase' = IF Len(result) # Cardinality(Module) THEN "escaped" ELSE "done"
      /\ UNCHANGED <<imports, search, indegree, heap, result>>
  BY DEF OrderEnds, order
<1>2. Len(result) = Cardinality(Module)
  BY <1>1, EmptyHeap DEF GraphInv, ResultCounted
<1>3. phase' = "done"
  BY <1>1, <1>2
<1>4. \A m \in Module : state[m] = 2
  BY <1>1 DEF GraphInv, AllLeft
<1>5. TypeOK'
  BY <1>1, <1>3 DEF GraphInv, TypeOK, search
<1>6. Counted' /\ ResultCounted' /\ ImportsFirst' /\ NoCycleEscapes'
  BY <1>1, <1>3 DEF GraphInv, Counted, ResultCounted, ImportsFirst, NoCycleEscapes, Placed
<1>. QED
  BY <1>1, <1>3, <1>4, <1>5, <1>6, OrderKeepsSearch DEF GraphInv

-----------------------------------------------------------------------------
(* The theorems.                                                           *)

LEMMA GraphInvInitially ==
  ASSUME Init
  PROVE  GraphInv
<1>1. TypeOK
  BY DEF Init, TypeOK
<1>2. Placed = {} /\ Members(stack) = {} /\ Members(left) = {}
  BY DEF Init, Placed, Members
<1>. QED
  BY <1>1, <1>2, FS_EmptySet DEF Init, GraphInv, WhereIs, LookedAt, LeftLast, AllLeft,
       Counted, ResultCounted, ImportsFirst, CycleIsReal, NoCycleEscapes

LEMMA GraphInvStays ==
  ASSUME GraphInv, [Next]_vars
  PROVE  GraphInv'
<1>1. CASE UNCHANGED vars
  <2>1. TypeOK' /\ NoCycleEscapes' /\ CycleIsReal' /\ ImportsFirst'
    BY <1>1 DEF vars, search, order, GraphInv, TypeOK, ImportsFirst, CycleIsReal,
         NoCycleEscapes
  <2>2. WhereIs' /\ LookedAt' /\ LeftLast' /\ AllLeft'
    BY <1>1 DEF vars, search, order, GraphInv, WhereIs, LookedAt, LeftLast, AllLeft
  <2>3. Counted' /\ ResultCounted'
    BY <1>1 DEF vars, search, order, GraphInv, Counted, ResultCounted, Placed
  <2>. QED
    BY <2>1, <2>2, <2>3 DEF GraphInv
<1>. QED
  BY <1>1, VisitKeeps, LookAtKeeps, LeaveKeeps, SearchEndsKeeps, TakeKeeps, OrderEndsKeeps
     DEF Next

THEOREM GraphInvariant == Spec => []GraphInv
BY GraphInvInitially, GraphInvStays, PTL DEF Spec

\* Every state is well typed and no module is left or placed twice, for every
\* finite set of modules (_find_cycle and _topological_order).
THEOREM GraphTypes == Spec => []TypeOK
BY GraphInvariant, PTL DEF GraphInv

\* What _find_cycle reports is a cycle of imports, on every graph.
THEOREM CyclesReported == Spec => []CycleIsReal
BY GraphInvariant, PTL DEF GraphInv

\* _topological_order places every module after all that it imports.
THEOREM DependenciesFirst == Spec => []ImportsFirst
BY GraphInvariant, PTL DEF GraphInv

\* "Module graph cycle escaped cycle detection" is never raised.
THEOREM CyclesDetected == Spec => []NoCycleEscapes
BY GraphInvariant, PTL DEF GraphInv

=============================================================================
