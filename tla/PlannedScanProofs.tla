-------------------------- MODULE PlannedScanProofs --------------------------
(***************************************************************************)
(* Theorems about PlannedScan, for any predicates and data, and whatever   *)
(* is stored: the filter that is sent is implied by the query's, the       *)
(* reader of deletion vectors stays in its buffers and decodes what was    *)
(* written or throws, and so a query returns its rows.                     *)
(*                                                                         *)
(* Predicates are finite (IsDepth): what recursion makes of them follows   *)
(* from what it makes of their parts.                                      *)
(***************************************************************************)
EXTENDS PlannedScan, WellFoundedInduction, TLAPS

-----------------------------------------------------------------------------
(* Recursion on what is finite.                                            *)

\* Among natural numbers there is a least one.
LEMMA LeastNat ==
  ASSUME NEW T, T \subseteq Nat, T # {}
  PROVE  \E n \in T : \A m \in T : n <= m
<1> DEFINE R == {p \in Nat \X Nat : p[1] < p[2]}
<1>1. IsWellFoundedOn(R, Nat)
  BY NatLessThanWellFounded DEF OpToRel
<1> HIDE DEF R
<1>2. PICK n \in T : \A m \in T : <<m, n>> \notin R
  BY <1>1, WFMin
<1>3. ASSUME NEW m \in T, m < n PROVE FALSE
  <2>1. <<m, n>> \in R
    BY <1>3 DEF R
  <2> QED BY <1>2, <2>1
<1> QED
  BY <1>2, <1>3

\* step gives a function's value at x from the function, and needs it only at
\* smaller depths.
IsRecursion(S, V, depth, step) ==
  /\ V # {}
  /\ \A x \in S : depth[x] \in Nat
  /\ \A g \in [S -> V], x \in S : step[<<g, x>>] \in V
  /\ \A g, h \in [S -> V], x \in S :
       (\A y \in S : depth[y] < depth[x] => g[y] = h[y])
         => step[<<g, x>>] = step[<<h, x>>]

LEMMA RecursionHasSolution ==
  ASSUME NEW S, NEW V, NEW depth, NEW step, IsRecursion(S, V, depth, step)
  PROVE  \E f \in [S -> V] : \A x \in S : f[x] = step[<<f, x>>]
<1> USE DEF IsRecursion
<1> DEFINE Solves(g, n) ==
             /\ g \in [S -> V]
             /\ \A x \in S : depth[x] < n => g[x] = step[<<g, x>>]
<1>1. \A n \in Nat : \E g : Solves(g, n)
  <2> DEFINE T == {n \in Nat : ~ \E g : Solves(g, n)}
  <2>1. SUFFICES ASSUME T # {} PROVE FALSE
    OBVIOUS
  <2>2. PICK n \in T : \A m \in T : n <= m
    BY <2>1, LeastNat
  <2>3. n # 0
    <3>1. PICK v \in V : TRUE
      OBVIOUS
    <3>2. Solves([x \in S |-> v], 0)
      OBVIOUS
    <3> QED BY <3>2
  <2>4. n - 1 \in Nat /\ n - 1 \notin T /\ n \in Nat
    BY <2>2, <2>3
  <2>5. PICK g : Solves(g, n - 1)
    BY <2>4
  <2> DEFINE h == [x \in S |-> step[<<g, x>>]]
  <2>6. h \in [S -> V]
    BY <2>5
  <2>7. ASSUME NEW x \in S, depth[x] < n
        PROVE  h[x] = step[<<h, x>>]
    <3>1. \A y \in S : depth[y] < depth[x] => depth[y] < n - 1
      BY <2>4, <2>7
    <3>2. \A y \in S : depth[y] < depth[x] => h[y] = g[y]
      BY <2>5, <3>1
    <3>3. step[<<h, x>>] = step[<<g, x>>]
      <4> HIDE DEF h
      <4> QED BY <2>5, <2>6, <3>2
    <3> QED BY <3>3
  <2>8. Solves(h, n)
    <3> HIDE DEF h
    <3> QED BY <2>6, <2>7
  <2> QED
    BY <2>8
<1>2. ASSUME NEW g, NEW h, NEW m \in Nat, NEW n \in Nat, Solves(g, m), Solves(h, n),
             NEW x \in S, depth[x] < m, depth[x] < n
      PROVE  g[x] = h[x]
  <2> DEFINE T == {d \in Nat : d < m /\ d < n /\
                     \E y \in S : depth[y] = d /\ g[y] # h[y]}
  <2>1. SUFFICES ASSUME T # {} PROVE FALSE
    BY <1>2
  <2>2. PICK d \in T : \A k \in T : d <= k
    BY <2>1, LeastNat
  <2>3. PICK y \in S : depth[y] = d /\ g[y] # h[y]
    OBVIOUS
  <2>4. \A z \in S : depth[z] < depth[y] => g[z] = h[z]
    <3>1. ASSUME NEW z \in S, depth[z] < depth[y], g[z] # h[z] PROVE FALSE
      <4>1. depth[z] \in T
        BY <2>3, <3>1
      <4> QED BY <2>2, <2>3, <3>1, <4>1
    <3> QED BY <3>1
  <2>5. step[<<g, y>>] = step[<<h, y>>]
    BY <1>2, <2>4
  <2> QED
    BY <1>2, <2>3, <2>5
<1> DEFINE Sol(n) == CHOOSE g : Solves(g, n)
           f == [x \in S |-> Sol(depth[x] + 1)[x]]
<1>3. \A n \in Nat : Solves(Sol(n), n)
  <2> HIDE DEF Solves
  <2> QED BY <1>1
<1> HIDE DEF Sol
<1>4. f \in [S -> V]
  BY <1>3
<1>5. ASSUME NEW x \in S PROVE f[x] = step[<<f, x>>]
  <2> DEFINE n == depth[x] + 1
  <2>1. Solves(Sol(n), n) /\ n \in Nat /\ depth[x] < n
    BY <1>3
  <2>2. ASSUME NEW y \in S, depth[y] < depth[x] PROVE f[y] = Sol(n)[y]
    <3>1. depth[y] + 1 \in Nat /\ depth[y] < depth[y] + 1 /\ depth[y] < n
      BY <2>2
    <3>2. Solves(Sol(depth[y] + 1), depth[y] + 1)
      BY <1>3, <3>1
    <3> HIDE DEF n, Solves
    <3>3. Sol(depth[y] + 1)[y] = Sol(n)[y]
      BY <1>2, <2>1, <3>1, <3>2
    <3> QED BY <3>3
  <2>3. step[<<f, x>>] = step[<<Sol(n), x>>]
    <3> HIDE DEF f, n
    <3> QED BY <1>4, <2>1, <2>2
  <2>4. Sol(n)[x] = step[<<Sol(n), x>>]
    BY <2>1
  <2> QED BY <2>3, <2>4
<1> QED
  BY <1>4, <1>5

-----------------------------------------------------------------------------
(* Predicates, and what becomes of them.                                   *)

\* What Evaluate makes of a predicate, given the truth values g of its parts.
EvaluateFrom(g, e) ==
  [r \in RowValues |->
    CASE e.class = "comparison" -> ComparisonTruth(e, r[e.column])
      [] e.class = "null_test" ->
           Truth((r[e.column] = Null) = (e.type = "is-null"))
      [] e.class = "conjunction" ->
           LET truths == {g[c][r] : c \in Parts(e)}
           IN  IF e.type = "and" THEN Joined(truths, "false", "true")
                                 ELSE Joined(truths, "true", "false")
      [] OTHER ->
           LET t == g[e.of][r]
           IN  CASE t = "true" -> "false" [] t = "false" -> "true"
                 [] OTHER -> t]

LEMMA EvaluateTyped ==
  ASSUME NEW g \in [Expressions -> [RowValues -> TruthValues]],
         NEW e \in Expressions
  PROVE  EvaluateFrom(g, e) \in [RowValues -> TruthValues]
<1> SUFFICES ASSUME NEW r \in RowValues
             PROVE  EvaluateFrom(g, e)[r] \in TruthValues
  BY DEF EvaluateFrom
<1>1. IsExpression(e) /\ \A c \in Parts(e) : c \in Expressions
  BY ExpressionAssumption DEF ExpressionAssumption
<1>2. \A c \in Parts(e) : g[c][r] \in TruthValues
  BY <1>1
<1>3. CASE e.class = "comparison"
  BY <1>3 DEF EvaluateFrom, ComparisonTruth, Truth, TruthValues
<1>4. CASE e.class = "null_test"
  BY <1>4 DEF EvaluateFrom, Truth, TruthValues
<1>5. CASE e.class = "conjunction"
  BY <1>2, <1>5 DEF EvaluateFrom, Joined, TruthValues
<1>6. CASE e.class = "other"
  <2>1. g[e.of][r] \in TruthValues
    BY <1>2, <1>6 DEF Parts
  <2> QED BY <2>1, <1>6 DEF EvaluateFrom, TruthValues
<1> QED
  BY <1>1, <1>3, <1>4, <1>5, <1>6 DEF IsExpression

LEMMA EvaluateOfParts ==
  ASSUME NEW g, NEW h, NEW e \in Expressions, \A c \in Parts(e) : g[c] = h[c]
  PROVE  EvaluateFrom(g, e) = EvaluateFrom(h, e)
<1>1. IsExpression(e)
  BY ExpressionAssumption DEF ExpressionAssumption
<1>2. \A r \in RowValues : {g[c][r] : c \in Parts(e)} = {h[c][r] : c \in Parts(e)}
  OBVIOUS
<1>3. e.class = "other" => g[e.of] = h[e.of]
  BY DEF Parts
<1> QED
  BY <1>1, <1>2, <1>3 DEF IsExpression, EvaluateFrom

\* Predicates are finite, so the truth value of each is that of its parts.
LEMMA EvaluateDefined ==
  ASSUME NEW depth, IsDepth(depth)
  PROVE  /\ Evaluate \in [Expressions -> [RowValues -> TruthValues]]
         /\ \A e \in Expressions : Evaluate[e] = EvaluateFrom(Evaluate, e)
<1> DEFINE V == [RowValues -> TruthValues]
           step == [p \in [Expressions -> V] \X Expressions |->
                      EvaluateFrom(p[1], p[2])]
<1>1. V # {}
  <2>1. [r \in RowValues |-> "true"] \in V
    BY DEF TruthValues
  <2> QED BY <2>1
<1>2. \A g \in [Expressions -> V], e \in Expressions :
        step[<<g, e>>] = EvaluateFrom(g, e)
  OBVIOUS
<1>3. \A g \in [Expressions -> V], e \in Expressions : step[<<g, e>>] \in V
  BY <1>2, EvaluateTyped
<1>4. ASSUME NEW g \in [Expressions -> V], NEW h \in [Expressions -> V],
             NEW e \in Expressions,
             \A c \in Expressions : depth[c] < depth[e] => g[c] = h[c]
      PROVE  step[<<g, e>>] = step[<<h, e>>]
  <2>1. \A c \in Parts(e) : g[c] = h[c]
    BY <1>4, ExpressionAssumption DEF ExpressionAssumption, IsDepth
  <2> QED BY <2>1, <1>2, EvaluateOfParts
<1>5. \A e \in Expressions : depth[e] \in Nat
  BY DEF IsDepth
<1> HIDE DEF step, V
<1>6. PICK f \in [Expressions -> V] : \A e \in Expressions : f[e] = step[<<f, e>>]
  <2>1. \A g, h \in [Expressions -> V], e \in Expressions :
          (\A c \in Expressions : depth[c] < depth[e] => g[c] = h[c])
            => step[<<g, e>>] = step[<<h, e>>]
    BY <1>4
  <2>2. IsRecursion(Expressions, V, depth, step)
    BY <1>1, <1>3, <1>5, <2>1 DEF IsRecursion
  <2> QED BY <2>2, RecursionHasSolution
<1>7. f = [e \in Expressions |-> EvaluateFrom(f, e)]
  BY <1>2, <1>6
<1>8. Evaluate = CHOOSE g : g = [e \in Expressions |-> EvaluateFrom(g, e)]
  BY DEF Evaluate, EvaluateFrom
<1>9. Evaluate = [e \in Expressions |-> EvaluateFrom(Evaluate, e)]
  BY <1>7, <1>8
<1>10. \A e \in Expressions : Evaluate[e] = EvaluateFrom(Evaluate, e)
  BY <1>9
<1>11. Evaluate \in [Expressions -> V]
  <2> DEFINE T == {n \in Nat : \E e \in Expressions : depth[e] = n /\ Evaluate[e] \notin V}
  <2>1. SUFFICES ASSUME T # {} PROVE FALSE
    BY <1>5, <1>9
  <2>2. PICK n \in T : \A m \in T : n <= m
    BY <2>1, LeastNat
  <2>3. PICK e \in Expressions : depth[e] = n /\ Evaluate[e] \notin V
    OBVIOUS
  <2> DEFINE g == [c \in Expressions |-> IF depth[c] < n THEN Evaluate[c] ELSE f[c]]
  <2>4. ASSUME NEW c \in Expressions, depth[c] < n, Evaluate[c] \notin V PROVE FALSE
    <3>1. depth[c] \in T
      BY <1>5, <2>4
    <3> QED BY <1>5, <2>2, <2>3, <2>4, <3>1
  <2>5. g \in [Expressions -> V]
    BY <1>6, <2>4
  <2>6. \A c \in Parts(e) : g[c] = Evaluate[c]
    BY <2>3, ExpressionAssumption DEF ExpressionAssumption, IsDepth
  <2>7. EvaluateFrom(g, e) \in V
    BY <2>5, EvaluateTyped DEF V
  <2>8. EvaluateFrom(g, e) = EvaluateFrom(Evaluate, e)
    <3> HIDE DEF g
    <3> QED BY <2>6, EvaluateOfParts
  <2> QED BY <1>10, <2>3, <2>7, <2>8
<1> QED
  BY <1>10, <1>11 DEF V

\* What ExprToIRCJson makes of a predicate, given the translations g of its parts.
TranslateFrom(g, e) ==
  CASE e.class = "comparison" -> ComparisonToIRCJson(e)
    [] e.class = "null_test" ->
         IF e.column \in Anonymous THEN Omitted
                                   ELSE [type |-> e.type, term |-> e.column]
    [] e.class = "other" -> Omitted
    [] OTHER ->
         Conjunction(e.type, [i \in DOMAIN e.children |-> g[e.children[i]]])

LEMMA TranslateOfParts ==
  ASSUME NEW g, NEW h, NEW e, \A c \in Parts(e) : g[c] = h[c], IsExpression(e)
  PROVE  TranslateFrom(g, e) = TranslateFrom(h, e)
<1>1. CASE e.class = "conjunction"
  <2>1. \A i \in DOMAIN e.children : g[e.children[i]] = h[e.children[i]]
    BY <1>1 DEF Parts
  <2>2. [i \in DOMAIN e.children |-> g[e.children[i]]]
          = [i \in DOMAIN e.children |-> h[e.children[i]]]
    BY <2>1
  <2> QED BY <2>2, <1>1 DEF TranslateFrom
<1> QED
  BY <1>1 DEF IsExpression, TranslateFrom

\* Predicates are finite, so the translation of each is that of its parts.
\* A translation belongs to no set given beforehand, so functions that are right
\* up to a depth are taken one after the other.
LEMMA TranslationDefined ==
  ASSUME NEW depth, IsDepth(depth)
  PROVE  \A e \in Expressions :
           ExprToIRCJson[e] = TranslateFrom(ExprToIRCJson, e)
<1> DEFINE Solves(g, n) ==
             g = [e \in Expressions |->
                   IF depth[e] < n THEN TranslateFrom(g, e) ELSE Omitted]
<1>1. \A e \in Expressions :
        /\ IsExpression(e) /\ depth[e] \in Nat
        /\ \A c \in Parts(e) : c \in Expressions /\ depth[c] < depth[e]
  BY ExpressionAssumption DEF ExpressionAssumption, IsDepth
<1>2. ASSUME NEW g, NEW n, Solves(g, n), NEW e \in Expressions, depth[e] < n
      PROVE  g[e] = TranslateFrom(g, e)
  <2> HIDE DEF Solves
  <2>1. g = [x \in Expressions |->
              IF depth[x] < n THEN TranslateFrom(g, x) ELSE Omitted]
    BY <1>2 DEF Solves
  <2> DEFINE val(x) == IF depth[x] < n THEN TranslateFrom(g, x) ELSE Omitted
  <2>2. g[e] = val(e)
    <3>1. g = [x \in Expressions |-> val(x)]
      BY <2>1
    <3> HIDE DEF val
    <3> QED BY <3>1
  <2> QED BY <1>2, <2>2
<1>3. \A n \in Nat : \E g : Solves(g, n)
  <2> DEFINE T == {n \in Nat : ~ \E g : Solves(g, n)}
  <2> HIDE DEF Solves
  <2>1. SUFFICES ASSUME T # {} PROVE FALSE
    OBVIOUS
  <2>2. PICK n \in T : \A m \in T : n <= m
    BY <2>1, LeastNat
  <2>3. n \in Nat /\ n # 0
    <3> DEFINE g == [e \in Expressions |-> Omitted]
    <3>1. \A e \in Expressions : ~(depth[e] < 0)
      BY <1>1
    <3>2. g = [e \in Expressions |->
                IF depth[e] < 0 THEN TranslateFrom(g, e) ELSE Omitted]
      <4> DEFINE val(x) == IF depth[x] < 0 THEN TranslateFrom(g, x) ELSE Omitted
      <4>1. \A e \in Expressions : val(e) = Omitted
        BY <3>1
      <4> HIDE DEF val
      <4>2. g = [e \in Expressions |-> val(e)]
        BY <4>1
      <4> QED BY <4>2 DEF val
    <3>3. Solves(g, 0)
      BY <3>2 DEF Solves
    <3> QED BY <2>2, <3>3
  <2>4. n - 1 \in Nat /\ n - 1 \notin T
    BY <2>2, <2>3
  <2>5. PICK g : Solves(g, n - 1)
    BY <2>4
  <2> DEFINE valG(x) == IF depth[x] < n THEN TranslateFrom(g, x) ELSE Omitted
             h == [e \in Expressions |-> valG(e)]
             valH(x) == IF depth[x] < n THEN TranslateFrom(h, x) ELSE Omitted
  <2>6. ASSUME NEW e \in Expressions, depth[e] < n
        PROVE  TranslateFrom(h, e) = TranslateFrom(g, e)
    <3>1. ASSUME NEW c \in Parts(e) PROVE h[c] = g[c]
      <4>1. c \in Expressions /\ depth[c] < n - 1 /\ depth[c] < n
        BY <1>1, <2>3, <2>6
      <4>2. g[c] = TranslateFrom(g, c)
        BY <1>2, <2>5, <4>1
      <4>3. h[c] = valG(c)
        <5> HIDE DEF valG
        <5> QED BY <4>1
      <4> QED BY <4>1, <4>2, <4>3
    <3>2. IsExpression(e)
      BY <1>1
    <3> HIDE DEF h
    <3> QED BY <3>1, <3>2, TranslateOfParts
  <2>7. \A e \in Expressions : valG(e) = valH(e)
    <3> HIDE DEF h
    <3> QED BY <2>6
  <2>8. h = [e \in Expressions |-> valH(e)]
    <3> HIDE DEF valG, valH
    <3> QED BY <2>7
  <2>9. Solves(h, n)
    <3> HIDE DEF h
    <3> QED BY <2>8 DEF Solves
  <2> QED BY <2>2, <2>9
<1> HIDE DEF Solves
<1>4. ASSUME NEW g, NEW h, NEW m \in Nat, NEW n \in Nat, Solves(g, m), Solves(h, n),
             NEW e \in Expressions, depth[e] < m, depth[e] < n
      PROVE  g[e] = h[e]
  <2> DEFINE T == {d \in Nat : d < m /\ d < n /\
                     \E x \in Expressions : depth[x] = d /\ g[x] # h[x]}
  <2>1. SUFFICES ASSUME T # {} PROVE FALSE
    BY <1>1, <1>4
  <2>2. PICK d \in T : \A k \in T : d <= k
    BY <2>1, LeastNat
  <2>3. PICK x \in Expressions : depth[x] = d /\ g[x] # h[x]
    OBVIOUS
  <2>4. ASSUME NEW c \in Parts(x), g[c] # h[c] PROVE FALSE
    <3>1. depth[c] \in T
      BY <1>1, <2>3, <2>4
    <3> QED BY <1>1, <2>2, <2>3, <3>1
  <2>5. TranslateFrom(g, x) = TranslateFrom(h, x)
    BY <1>1, <2>4, TranslateOfParts
  <2>6. g[x] = TranslateFrom(g, x) /\ h[x] = TranslateFrom(h, x)
    BY <1>2, <1>4, <2>3
  <2> QED BY <2>3, <2>5, <2>6
<1> DEFINE Sol(n) == CHOOSE g : Solves(g, n)
           f == [e \in Expressions |-> Sol(depth[e] + 1)[e]]
<1>5. \A n \in Nat : Solves(Sol(n), n)
  BY <1>3
<1> HIDE DEF Sol
<1>6. ASSUME NEW e \in Expressions PROVE f[e] = TranslateFrom(f, e)
  <2>1. depth[e] \in Nat /\ depth[e] + 1 \in Nat /\ depth[e] < depth[e] + 1
    BY <1>1
  <2>2. Solves(Sol(depth[e] + 1), depth[e] + 1)
    BY <1>5, <2>1
  <2>3. ASSUME NEW c \in Parts(e) PROVE f[c] = Sol(depth[e] + 1)[c]
    <3>1. /\ c \in Expressions /\ depth[c] + 1 \in Nat
          /\ depth[c] < depth[c] + 1 /\ depth[c] < depth[e] + 1
      BY <1>1
    <3>2. Solves(Sol(depth[c] + 1), depth[c] + 1)
      BY <1>5, <3>1
    <3>3. Sol(depth[c] + 1)[c] = Sol(depth[e] + 1)[c]
      BY <1>4, <2>1, <2>2, <3>1, <3>2
    <3> QED BY <3>1, <3>3
  <2>4. TranslateFrom(f, e) = TranslateFrom(Sol(depth[e] + 1), e)
    <3> HIDE DEF f
    <3> QED BY <1>1, <2>3, TranslateOfParts
  <2>5. Sol(depth[e] + 1)[e] = TranslateFrom(Sol(depth[e] + 1), e)
    BY <1>2, <2>1, <2>2
  <2> QED BY <2>4, <2>5
<1>7. f = [e \in Expressions |-> TranslateFrom(f, e)]
  <2>1. f = [e \in Expressions |-> f[e]]
    OBVIOUS
  <2> HIDE DEF f
  <2> QED BY <1>6, <2>1
<1>8. ExprToIRCJson = CHOOSE g : g = [e \in Expressions |-> TranslateFrom(g, e)]
  BY DEF ExprToIRCJson, TranslateFrom
<1>9. ExprToIRCJson = [e \in Expressions |-> TranslateFrom(ExprToIRCJson, e)]
  <2> HIDE DEF f
  <2> QED BY <1>7, <1>8
<1> QED
  BY <1>9

\* A conjunction that has a translation: that of its only part which has one, or
\* those of all its parts which have one, joined; under OR, every part has one.
LEMMA ConjunctionTranslated ==
  ASSUME NEW type, NEW parts, NEW n \in Nat, DOMAIN parts = 1 .. n,
         Conjunction(type, parts) \notin {Omitted, Throws}
  PROVE  /\ \A i \in 1 .. n : parts[i] # Throws /\ (type = "or" => parts[i] # Omitted)
         /\ \/ \E i \in 1 .. n :
                 /\ Conjunction(type, parts) = parts[i]
                 /\ \A j \in 1 .. n : parts[j] # Omitted => j = i
            \/ \E kept \in SUBSET (1 .. n) :
                 /\ Conjunction(type, parts)
                      = [type |-> type, parts |-> [i \in kept |-> parts[i]]]
                 /\ kept = {i \in 1 .. n : parts[i] # Omitted}
<1> DEFINE ends == {i \in DOMAIN parts :
                      parts[i] = Throws \/ (type = "or" /\ parts[i] = Omitted)}
           kept == {i \in DOMAIN parts : parts[i] # Omitted}
           first == CHOOSE i \in ends : \A j \in ends : i <= j
<1>1. ends = {}
  <2>1. SUFFICES ASSUME ends # {} PROVE FALSE
    OBVIOUS
  <2>2. \E i \in ends : \A j \in ends : i <= j
    <3>1. ends \subseteq Nat
      OBVIOUS
    <3> HIDE DEF ends
    <3> QED BY <2>1, <3>1, LeastNat
  <2>3. first \in ends
    <3> HIDE DEF ends
    <3> QED BY <2>2
  <2>4. Conjunction(type, parts) = parts[first]
    BY <2>1 DEF Conjunction
  <2> HIDE DEF first
  <2> QED BY <2>3, <2>4
<1>2. \A i \in 1 .. n : parts[i] # Throws /\ (type = "or" => parts[i] # Omitted)
  BY <1>1
<1>3. Conjunction(type, parts) = JoinParts(type, parts, kept)
  BY <1>1 DEF Conjunction
<1>4. CASE kept = {}
  BY <1>3, <1>4 DEF JoinParts
<1>5. CASE kept # {} /\ \E i \in kept : kept = {i}
  <2>1. PICK i \in kept : kept = {i}
    BY <1>5
  <2>2. (CHOOSE k \in kept : TRUE) = i
    <3> HIDE DEF kept
    <3> QED BY <2>1
  <2>3. Conjunction(type, parts) = parts[i]
    BY <1>3, <1>5, <2>2 DEF JoinParts
  <2>4. i \in 1 .. n /\ \A j \in 1 .. n : parts[j] # Omitted => j = i
    BY <2>1
  <2> HIDE DEF kept
  <2> QED BY <1>2, <2>3, <2>4
<1>6. CASE kept # {} /\ ~ \E i \in kept : kept = {i}
  <2>1. Conjunction(type, parts) = [type |-> type, parts |-> [i \in kept |-> parts[i]]]
    BY <1>3, <1>6 DEF JoinParts
  <2>2. kept \in SUBSET (1 .. n) /\ kept = {i \in 1 .. n : parts[i] # Omitted}
    OBVIOUS
  <2> HIDE DEF kept
  <2> QED BY <1>2, <2>1, <2>2
<1> QED
  BY <1>4, <1>5, <1>6

\* The parts of a translation.
TranslatedParts(f) ==
  IF f.type \in {"and", "or"} THEN {f.parts[i] : i \in DOMAIN f.parts} ELSE {}

\* What e's translation is, where it has one.
LEMMA TranslationCases ==
  ASSUME NEW depth, IsDepth(depth), NEW e \in Expressions,
         ExprToIRCJson[e] \notin {Omitted, Throws}
  PROVE  \/ /\ e.class = "comparison"
            /\ ExprToIRCJson[e] = ComparisonToIRCJson(e)
            /\ ExprToIRCJson[e].type \in Comparisons
         \/ /\ e.class = "null_test"
            /\ ExprToIRCJson[e] = [type |-> e.type, term |-> e.column]
            /\ e.type \in {"is-null", "not-null"}
         \/ /\ e.class = "conjunction" /\ e.type \in {"and", "or"}
            /\ e.type = "or" =>
                 \A c \in Parts(e) : ExprToIRCJson[c] \notin {Omitted, Throws}
            /\ \/ \E c \in Parts(e) :
                    /\ ExprToIRCJson[e] = ExprToIRCJson[c]
                    /\ e.type = "or" => Parts(e) = {c}
               \/ /\ ExprToIRCJson[e].type = e.type
                  /\ TranslatedParts(ExprToIRCJson[e])
                       = {ExprToIRCJson[c] : c \in Parts(e)} \ {Omitted}
                  /\ \A c \in Parts(e) : ExprToIRCJson[c] # Throws
<1>1. IsExpression(e) /\ ExprToIRCJson[e] = TranslateFrom(ExprToIRCJson, e)
  BY TranslationDefined, ExpressionAssumption DEF ExpressionAssumption
<1>2. CASE e.class = "comparison"
  <2>1. ExprToIRCJson[e] = ComparisonToIRCJson(e)
    BY <1>1, <1>2 DEF TranslateFrom
  <2>2. ComparisonToIRCJson(e).type \in Comparisons
    BY <2>1 DEF ComparisonToIRCJson
  <2> QED BY <1>2, <2>1, <2>2
<1>3. CASE e.class = "null_test"
  BY <1>1, <1>3 DEF TranslateFrom, IsExpression
<1>4. CASE e.class = "conjunction"
  <2> DEFINE n == Len(e.children)
             parts == [i \in DOMAIN e.children |-> ExprToIRCJson[e.children[i]]]
             X == ExprToIRCJson[e]
  <2>1. /\ n \in Nat /\ DOMAIN e.children = 1 .. n
        /\ e.type \in {"and", "or"}
    BY <1>1, <1>4 DEF IsExpression
  <2>2. X = Conjunction(e.type, parts)
    BY <1>1, <1>4 DEF TranslateFrom
  <2>3. Parts(e) = {e.children[i] : i \in 1 .. n}
    BY <1>4, <2>1 DEF Parts
  <2>4. DOMAIN parts = 1 .. n /\ \A i \in 1 .. n : parts[i] = ExprToIRCJson[e.children[i]]
    BY <2>1
  <2> HIDE DEF parts, n
  <2>5. /\ \A i \in 1 .. n : parts[i] # Throws /\ (e.type = "or" => parts[i] # Omitted)
        /\ \/ \E i \in 1 .. n :
                 /\ X = parts[i]
                 /\ \A j \in 1 .. n : parts[j] # Omitted => j = i
           \/ \E kept \in SUBSET (1 .. n) :
                 /\ X = [type |-> e.type, parts |-> [i \in kept |-> parts[i]]]
                 /\ kept = {i \in 1 .. n : parts[i] # Omitted}
    <3>1. Conjunction(e.type, parts) \notin {Omitted, Throws}
      BY <2>2
    <3> HIDE DEF X
    <3>2. n \in Nat /\ DOMAIN parts = 1 .. n
      BY <2>1, <2>4
    <3>3. PICK type : type = e.type
      OBVIOUS
    <3>4. X = Conjunction(type, parts)
      BY <2>2, <3>3
    <3>5. /\ \A i \in 1 .. n : parts[i] # Throws /\ (type = "or" => parts[i] # Omitted)
          /\ \/ \E i \in 1 .. n :
                   /\ Conjunction(type, parts) = parts[i]
                   /\ \A j \in 1 .. n : parts[j] # Omitted => j = i
             \/ \E kept \in SUBSET (1 .. n) :
                   /\ Conjunction(type, parts)
                        = [type |-> type, parts |-> [i \in kept |-> parts[i]]]
                   /\ kept = {i \in 1 .. n : parts[i] # Omitted}
      <4>1. Conjunction(type, parts) \notin {Omitted, Throws}
        BY <3>1, <3>3
      <4> QED BY ONLY <3>2, <4>1, ConjunctionTranslated
    <3> QED BY <3>3, <3>4, <3>5
  <2>6. \A c \in Parts(e) : /\ ExprToIRCJson[c] # Throws
                            /\ e.type = "or" => ExprToIRCJson[c] # Omitted
    BY <2>3, <2>4, <2>5
  <2>7. ASSUME NEW i \in 1 .. n, X = parts[i],
               \A j \in 1 .. n : parts[j] # Omitted => j = i
        PROVE  \E c \in Parts(e) :
                 /\ X = ExprToIRCJson[c]
                 /\ e.type = "or" => Parts(e) = {c}
    <3>1. e.children[i] \in Parts(e) /\ X = ExprToIRCJson[e.children[i]]
      BY <2>3, <2>4, <2>7
    <3>2. e.type = "or" => 1 .. n = {i}
      BY <2>5, <2>7
    <3>3. e.type = "or" => Parts(e) = {e.children[i]}
      BY <2>3, <3>2
    <3> QED BY <3>1, <3>3
  <2>8. ASSUME NEW kept \in SUBSET (1 .. n),
               X = [type |-> e.type, parts |-> [i \in kept |-> parts[i]]],
               kept = {i \in 1 .. n : parts[i] # Omitted}
        PROVE  /\ X.type = e.type
               /\ TranslatedParts(X) = {ExprToIRCJson[c] : c \in Parts(e)} \ {Omitted}
    <3>1. X.type = e.type /\ X.parts = [i \in kept |-> parts[i]]
      BY <2>8
    <3> HIDE DEF X
    <3>2. TranslatedParts(X) = {parts[i] : i \in kept}
      BY <2>1, <3>1 DEF TranslatedParts
    <3>3. {parts[i] : i \in kept} = {parts[i] : i \in 1 .. n} \ {Omitted}
      BY <2>8
    <3>4. {parts[i] : i \in 1 .. n} = {ExprToIRCJson[c] : c \in Parts(e)}
      BY <2>3, <2>4
    <3> QED BY <3>1, <3>2, <3>3, <3>4
  <2> QED BY <1>4, <2>1, <2>5, <2>6, <2>7, <2>8
<1>5. CASE e.class = "other"
  BY <1>1, <1>5 DEF TranslateFrom
<1> QED
  BY <1>1, <1>2, <1>3, <1>4, <1>5 DEF IsExpression

\* What Matches makes of a translation, given what it makes of its parts.
MatchesFrom(g, f) ==
  [r \in RowValues |->
    CASE f.type = "and" -> \A i \in DOMAIN f.parts : g[f.parts[i]][r]
      [] f.type = "or"  -> \E i \in DOMAIN f.parts : g[f.parts[i]][r]
      [] f.type = "is-null"  -> r[f.term] = Null
      [] f.type = "not-null" -> r[f.term] # Null
      [] OTHER -> r[f.term] # Null /\ Compare(f.type, r[f.term], f.value)]

LEMMA MatchesOfParts ==
  ASSUME NEW g, NEW h, NEW f, \A p \in TranslatedParts(f) : g[p] = h[p]
  PROVE  MatchesFrom(g, f) = MatchesFrom(h, f)
<1>1. f.type \in {"and", "or"} =>
        \A i \in DOMAIN f.parts : g[f.parts[i]] = h[f.parts[i]]
  BY DEF TranslatedParts
<1>2. f.type = "and" => \A r \in RowValues :
        (\A i \in DOMAIN f.parts : g[f.parts[i]][r]) <=>
        (\A i \in DOMAIN f.parts : h[f.parts[i]][r])
  BY <1>1
<1>3. f.type = "or" => \A r \in RowValues :
        (\E i \in DOMAIN f.parts : g[f.parts[i]][r]) <=>
        (\E i \in DOMAIN f.parts : h[f.parts[i]][r])
  BY <1>1
<1> QED
  BY <1>2, <1>3 DEF MatchesFrom

\* Translations are no deeper than the predicates they come from.
LEMMA TranslationsAreFinite ==
  ASSUME NEW depth, IsDepth(depth)
  PROVE  \E d : \A f \in Translations :
           /\ d[f] \in Nat
           /\ \A p \in TranslatedParts(f) : p \in Translations /\ d[p] < d[f]
<1> DEFINE From(f) == {n \in Nat : \E e \in Expressions :
                                     depth[e] = n /\ ExprToIRCJson[e] = f}
           least(f) == CHOOSE n \in From(f) : \A m \in From(f) : n <= m
           d == [f \in Translations |-> least(f)]
<1>1. \A e \in Expressions :
        /\ depth[e] \in Nat
        /\ \A c \in Parts(e) : c \in Expressions /\ depth[c] < depth[e]
  BY ExpressionAssumption DEF ExpressionAssumption, IsDepth
<1>2. ASSUME NEW f \in Translations
      PROVE  least(f) \in From(f) /\ \A m \in From(f) : least(f) <= m
  <2>1. From(f) \subseteq Nat /\ From(f) # {}
    BY <1>1 DEF Translations
  <2> HIDE DEF From
  <2>2. \E n \in From(f) : \A m \in From(f) : n <= m
    BY <2>1, LeastNat
  <2> QED BY <2>2
<1> HIDE DEF least
<1>3. ASSUME NEW f \in Translations
      PROVE  /\ d[f] \in Nat
             /\ \A p \in TranslatedParts(f) : p \in Translations /\ d[p] < d[f]
  <2>1. PICK e \in Expressions : depth[e] = least(f) /\ ExprToIRCJson[e] = f
    BY <1>2
  <2>2. d[f] = least(f) /\ least(f) \in Nat
    BY <1>2
  <2>3. f \notin {Omitted, Throws}
    BY DEF Translations
  <2>4. ASSUME NEW c \in Parts(e), ExprToIRCJson[c] \in Translations
        PROVE  least(ExprToIRCJson[c]) < least(f)
    <3>1. depth[c] \in From(ExprToIRCJson[c]) /\ depth[c] < least(f)
      BY <1>1, <2>1
    <3>2. least(ExprToIRCJson[c]) <= depth[c] /\ least(ExprToIRCJson[c]) \in Nat
      BY <1>2, <2>4, <3>1
    <3> QED BY <1>1, <2>2, <3>1, <3>2
  <2>5. ASSUME NEW c \in Parts(e), ExprToIRCJson[c] = f PROVE FALSE
    BY <2>2, <2>4, <2>5
  <2>6. ASSUME NEW p \in TranslatedParts(f) PROVE p \in Translations /\ d[p] < d[f]
    <3>1. f.type \in {"and", "or"}
      BY <2>6 DEF TranslatedParts
    <3>2. TranslatedParts(f) = {ExprToIRCJson[c] : c \in Parts(e)} \ {Omitted}
          /\ \A c \in Parts(e) : ExprToIRCJson[c] # Throws
      <4>1. e \in Expressions /\ f = ExprToIRCJson[e]
        BY <2>1
      <4>2. \/ f.type \in Comparisons
            \/ \E t \in {"is-null", "not-null"} : \E c : f = [type |-> t, term |-> c]
            \/ \E c \in Parts(e) : f = ExprToIRCJson[c]
            \/ /\ TranslatedParts(f) = {ExprToIRCJson[c] : c \in Parts(e)} \ {Omitted}
               /\ \A c \in Parts(e) : ExprToIRCJson[c] # Throws
        <5> HIDE DEF d
        <5> QED BY <2>3, <4>1, TranslationCases
      <4>3. f.type \notin Comparisons
        BY <3>1 DEF Comparisons
      <4>4. ~\E t \in {"is-null", "not-null"} : \E c : f = [type |-> t, term |-> c]
        BY <3>1
      <4>5. ~\E c \in Parts(e) : f = ExprToIRCJson[c]
        BY <2>5
      <4> QED BY <4>2, <4>3, <4>4, <4>5
    <3>3. PICK c \in Parts(e) : p = ExprToIRCJson[c]
      BY <2>6, <3>2
    <3>4. p \in Translations
      BY <1>1, <2>6, <3>2, <3>3 DEF Translations
    <3> QED BY <2>2, <2>4, <3>3, <3>4
  <2> QED BY <2>2, <2>6
<1> QED
  BY <1>3

LEMMA MatchesDefined ==
  ASSUME NEW depth, IsDepth(depth)
  PROVE  \A f \in Translations : Matches[f] = MatchesFrom(Matches, f)
<1> DEFINE V == [RowValues -> BOOLEAN]
           step == [p \in [Translations -> V] \X Translations |->
                      MatchesFrom(p[1], p[2])]
<1>1. PICK d : \A f \in Translations :
           /\ d[f] \in Nat
           /\ \A p \in TranslatedParts(f) : p \in Translations /\ d[p] < d[f]
  BY TranslationsAreFinite
<1>2. V # {}
  <2>1. [r \in RowValues |-> TRUE] \in V
    OBVIOUS
  <2> QED BY <2>1
<1>3. \A g \in [Translations -> V], f \in Translations :
        step[<<g, f>>] = MatchesFrom(g, f)
  OBVIOUS
<1>4. \A g \in [Translations -> V], f \in Translations : MatchesFrom(g, f) \in V
  BY DEF MatchesFrom
<1>5. ASSUME NEW g \in [Translations -> V], NEW h \in [Translations -> V],
             NEW f \in Translations,
             \A p \in Translations : d[p] < d[f] => g[p] = h[p]
      PROVE  step[<<g, f>>] = step[<<h, f>>]
  <2>1. \A p \in TranslatedParts(f) : g[p] = h[p]
    BY <1>1, <1>5
  <2> QED BY <2>1, <1>3, MatchesOfParts
<1> HIDE DEF step, V
<1>6. IsRecursion(Translations, V, d, step)
  BY <1>1, <1>2, <1>3, <1>4, <1>5 DEF IsRecursion
<1>7. PICK g \in [Translations -> V] : \A f \in Translations : g[f] = step[<<g, f>>]
  BY <1>6, RecursionHasSolution
<1>8. g = [f \in Translations |-> MatchesFrom(g, f)]
  BY <1>3, <1>7
<1>9. Matches = CHOOSE h : h = [f \in Translations |-> MatchesFrom(h, f)]
  BY DEF Matches, MatchesFrom
<1>10. Matches = [f \in Translations |-> MatchesFrom(Matches, f)]
  BY <1>8, <1>9
<1> QED
  BY <1>10

\* A comparison that DuckDB finds true, the server finds to match, whichever side
\* the constant is on.
LEMMA ComparisonImplied ==
  ASSUME NEW e \in Expressions, e.class = "comparison", NEW v \in Values \cup {Null},
         ComparisonToIRCJson(e) \notin {Omitted, Throws},
         ComparisonTruth(e, v) = "true"
  PROVE  /\ v # Null
         /\ ComparisonToIRCJson(e).term = e.column
         /\ Compare(ComparisonToIRCJson(e).type, v, ComparisonToIRCJson(e).value)
<1> DEFINE type == IF e.flipped THEN FlipComparison(e.type) ELSE e.type
           literal == ValueToIRCJson(e.constant)
<1>1. /\ e.type \in Comparisons \cup {"distinct"} /\ e.flipped \in BOOLEAN
      /\ e.constant.kind \in ConstantKinds /\ e.constant.value \in Int
  BY ExpressionAssumption DEF ExpressionAssumption, IsExpression
<1>2. /\ type \in Comparisons
      /\ literal \notin {Omitted, Throws}
      /\ ComparisonToIRCJson(e)
           = [type |-> type, term |-> e.column, value |-> literal.value]
  BY DEF ComparisonToIRCJson
<1>3. e.type \in Comparisons
  BY <1>1, <1>2 DEF FlipComparison, Comparisons, type
<1> HIDE DEF type, literal
<1>4. v # Null /\ ~IsNull(e.constant)
  <2>1. e.type # "distinct"
    BY <1>3 DEF Comparisons
  <2>2. CASE v = Null \/ IsNull(e.constant)
    <3>1. CASE v = Null
      BY <2>1, <3>1 DEF ComparisonTruth
    <3>2. CASE IsNull(e.constant)
      BY <2>1, <3>2 DEF ComparisonTruth
    <3> QED BY <2>2, <3>1, <3>2
  <2> QED BY <2>2
<1>5. v \in Int
  BY <1>4, ExpressionAssumption DEF ExpressionAssumption
<1>6. literal.value = e.constant.value
  BY <1>1, <1>2, <1>4 DEF ValueToIRCJson, ConstantKinds, literal, IsNull
<1>7. Compare(type, v, e.constant.value)
  <2>1. CASE e.flipped
    <3>1. Compare(e.type, e.constant.value, v)
      BY <1>3, <1>4, <2>1 DEF ComparisonTruth, Comparisons, Truth
    <3> QED BY <1>1, <1>3, <1>5, <2>1, <3>1 DEF Compare, FlipComparison, Comparisons, type
  <2>2. CASE ~e.flipped
    BY <1>3, <1>4, <2>2 DEF ComparisonTruth, Comparisons, Truth, type
  <2> QED BY <2>1, <2>2
<1> QED
  BY <1>2, <1>4, <1>6, <1>7

\* A row on which DuckDB finds a predicate true matches its translation.
LEMMA TranslationImplied ==
  ASSUME NEW depth, IsDepth(depth), NEW r \in RowValues
  PROVE  \A e \in Expressions :
           ExprToIRCJson[e] \in Translations /\ Evaluate[e][r] = "true"
             => Matches[ExprToIRCJson[e]][r]
<1> DEFINE Implied(e) ==
             ExprToIRCJson[e] \in Translations /\ Evaluate[e][r] = "true"
               => Matches[ExprToIRCJson[e]][r]
           T == {n \in Nat : \E e \in Expressions : depth[e] = n /\ ~Implied(e)}
<1>1. \A e \in Expressions :
        /\ depth[e] \in Nat
        /\ \A c \in Parts(e) : c \in Expressions /\ depth[c] < depth[e]
  BY ExpressionAssumption DEF ExpressionAssumption, IsDepth
<1>2. SUFFICES ASSUME T # {} PROVE FALSE
  BY <1>1
<1>3. PICK n \in T : \A m \in T : n <= m
  BY <1>2, LeastNat
<1>4. PICK e \in Expressions : depth[e] = n /\ ~Implied(e)
  OBVIOUS
<1>5. ASSUME NEW c \in Parts(e), ~Implied(c) PROVE FALSE
  <2>1. depth[c] \in T
    BY <1>1, <1>4, <1>5
  <2> QED BY <1>1, <1>3, <1>4, <2>1
<1> DEFINE X == ExprToIRCJson[e]
<1>6. X \in Translations /\ X \notin {Omitted, Throws} /\ Evaluate[e][r] = "true"
  BY <1>4 DEF Translations
<1>7. /\ Evaluate[e][r] = EvaluateFrom(Evaluate, e)[r]
      /\ \A c \in Parts(e) : Evaluate[c][r] \in TruthValues
  BY <1>1, EvaluateDefined
<1>8. Matches[X] = MatchesFrom(Matches, X)
  BY <1>6, MatchesDefined
<1>9. CASE e.class = "comparison" /\ X = ComparisonToIRCJson(e) /\ X.type \in Comparisons
  <2>1. Matches[X][r] = (r[X.term] # Null /\ Compare(X.type, r[X.term], X.value))
    BY <1>8, <1>9 DEF MatchesFrom, Comparisons
  <2>2. ComparisonTruth(e, r[e.column]) = "true"
    BY <1>6, <1>7, <1>9 DEF EvaluateFrom
  <2>3. r[e.column] \in Values \cup {Null}
    BY <1>9, ExpressionAssumption DEF ExpressionAssumption, IsExpression, RowValues
  <2>4. /\ r[e.column] # Null /\ X.term = e.column
        /\ Compare(X.type, r[e.column], X.value)
    BY <1>6, <1>9, <2>2, <2>3, ComparisonImplied
  <2> QED BY <1>4, <2>1, <2>4
<1>10. CASE /\ e.class = "null_test"
            /\ X = [type |-> e.type, term |-> e.column]
            /\ e.type \in {"is-null", "not-null"}
  <2>1. X.type = e.type /\ X.term = e.column
    BY <1>10
  <2>2. Truth((r[e.column] = Null) = (e.type = "is-null")) = "true"
    BY <1>6, <1>7, <1>10 DEF EvaluateFrom
  <2> HIDE DEF X
  <2>3. Matches[X][r] = (IF e.type = "is-null" THEN r[e.column] = Null
                                               ELSE r[e.column] # Null)
    BY <1>8, <1>10, <2>1 DEF MatchesFrom
  <2>4. Matches[X][r]
    BY <1>10, <2>2, <2>3 DEF Truth
  <2> QED BY <1>4, <2>4 DEF X
<1>11. ASSUME e.class = "conjunction", e.type = "and"
       PROVE  \A c \in Parts(e) : Evaluate[c][r] = "true"
  BY <1>6, <1>7, <1>11 DEF EvaluateFrom, Joined, TruthValues
<1>12. ASSUME e.class = "conjunction", e.type = "or"
       PROVE  \E c \in Parts(e) : Evaluate[c][r] = "true"
  BY <1>6, <1>7, <1>12 DEF EvaluateFrom, Joined, TruthValues
<1>13. ASSUME e.class = "conjunction", e.type \in {"and", "or"},
              NEW c \in Parts(e), X = ExprToIRCJson[c],
              e.type = "or" => Parts(e) = {c}
       PROVE  FALSE
  <2>1. Evaluate[c][r] = "true"
    BY <1>11, <1>12, <1>13
  <2>2. Implied(c)
    BY <1>5
  <2> QED BY <1>4, <1>6, <1>13, <2>1, <2>2
<1>14. ASSUME e.class = "conjunction", e.type \in {"and", "or"}, X.type = e.type,
              TranslatedParts(X) = {ExprToIRCJson[c] : c \in Parts(e)} \ {Omitted},
              \A c \in Parts(e) : ExprToIRCJson[c] # Throws,
              e.type = "or" => \A c \in Parts(e) : ExprToIRCJson[c] \notin {Omitted, Throws}
       PROVE  FALSE
  <2>1. \A c \in Parts(e) : ExprToIRCJson[c] # Omitted => ExprToIRCJson[c] \in Translations
    BY <1>1, <1>14 DEF Translations
  <2>2. TranslatedParts(X) = {X.parts[i] : i \in DOMAIN X.parts}
    BY <1>14 DEF TranslatedParts
  <2>3. ASSUME NEW c \in Parts(e), ExprToIRCJson[c] # Omitted, Evaluate[c][r] = "true"
        PROVE  Matches[ExprToIRCJson[c]][r]
    BY <1>5, <2>1, <2>3
  <2>4. CASE e.type = "and"
    <3>1. \A i \in DOMAIN X.parts : Matches[X.parts[i]][r]
      <4>1. SUFFICES ASSUME NEW i \in DOMAIN X.parts PROVE Matches[X.parts[i]][r]
        OBVIOUS
      <4>2. PICK c \in Parts(e) : X.parts[i] = ExprToIRCJson[c] /\ ExprToIRCJson[c] # Omitted
        BY <1>14, <2>2
      <4> QED BY <1>11, <1>14, <2>3, <2>4, <4>2
    <3>2. Matches[X][r]
      BY <1>8, <1>14, <2>4, <3>1 DEF MatchesFrom
    <3> QED BY <1>4, <3>2
  <2>5. CASE e.type = "or"
    <3>1. PICK c \in Parts(e) : Evaluate[c][r] = "true"
      BY <1>12, <1>14, <2>5
    <3>2. ExprToIRCJson[c] # Omitted /\ Matches[ExprToIRCJson[c]][r]
      BY <1>14, <2>3, <2>5, <3>1
    <3>3. \E i \in DOMAIN X.parts : X.parts[i] = ExprToIRCJson[c]
      BY <1>14, <2>2, <3>2
    <3>4. Matches[X][r]
      BY <1>8, <1>14, <2>5, <3>2, <3>3 DEF MatchesFrom
    <3> QED BY <1>4, <3>4
  <2> QED BY <1>14, <2>4, <2>5
<1> HIDE DEF X, Implied
<1> QED
  <2>1. \/ /\ e.class = "comparison"
            /\ X = ComparisonToIRCJson(e)
            /\ X.type \in Comparisons
         \/ /\ e.class = "null_test"
            /\ X = [type |-> e.type, term |-> e.column]
            /\ e.type \in {"is-null", "not-null"}
         \/ /\ e.class = "conjunction" /\ e.type \in {"and", "or"}
            /\ e.type = "or" =>
                 \A c \in Parts(e) : ExprToIRCJson[c] \notin {Omitted, Throws}
            /\ \/ \E c \in Parts(e) :
                    /\ X = ExprToIRCJson[c]
                    /\ e.type = "or" => Parts(e) = {c}
               \/ /\ X.type = e.type
                  /\ TranslatedParts(X)
                       = {ExprToIRCJson[c] : c \in Parts(e)} \ {Omitted}
                  /\ \A c \in Parts(e) : ExprToIRCJson[c] # Throws
    BY <1>6, TranslationCases DEF X
  <2> QED BY <2>1, <1>9, <1>10, <1>13, <1>14

-----------------------------------------------------------------------------
(* The reader.                                                             *)

InFile(m) ==
  /\ m.offset \in Nat /\ m.length \in Nat
  /\ m.offset + m.length <= Len(file)

\* The reader's part of TypeOK.
ReaderTypeOK ==
  /\ dv \in {"idle", "next", "header", "bitmaps", "done", "error"}
  /\ pos \in Nat /\ left \in Nat /\ reached \in Nat
  /\ vector_size \in 0 .. Word - 1

\* Blobs still to be read are in the file as well.
PendingInFile ==
  /\ Len(pending) \in Nat
  /\ DOMAIN pending = 1 .. Len(pending)
  /\ \A i \in DOMAIN pending : IsDeletionVector(pending[i]) => InFile(pending[i])

WindowInFile ==
  dv \in {"header", "bitmaps"} => InFile(window) /\ reached <= window.length

ReaderInv ==
  /\ IsBuffer(file)
  /\ ReaderTypeOK
  /\ PendingInFile
  /\ WindowInFile

LEMMA IdleReader == Idle => ReaderInv
  BY DeletionVectorAssumption
  DEF DeletionVectorAssumption, Idle, ReaderInv, ReaderTypeOK, PendingInFile,
      WindowInFile, IsBuffer

LEMMA ResetReader == Reset => ReaderInv'
  BY DeletionVectorAssumption
  DEF DeletionVectorAssumption, Reset, ReaderInv, ReaderTypeOK, PendingInFile,
      WindowInFile, IsBuffer

LEMMA ThrowReader == ReaderInv /\ Throw => ReaderInv'
  BY DEF Throw, ReaderInv, ReaderTypeOK, PendingInFile, WindowInFile, IsBuffer,
         InFile

\* A buffer is taken, and blobs that are in it.
LEMMA StartReader ==
  ASSUME ReaderInv, NEW buf, IsBuffer(buf), NEW blobs,
         Len(blobs) \in Nat, DOMAIN blobs = 1 .. Len(blobs),
         \A i \in DOMAIN blobs : IsDeletionVector(blobs[i]) =>
           /\ blobs[i].offset \in Nat /\ blobs[i].length \in Nat
           /\ blobs[i].offset + blobs[i].length <= Len(buf),
         StartWith(buf, blobs)
  PROVE  ReaderInv'
<1>1. /\ file' = buf /\ pending' = blobs /\ dv' = "next"
      /\ UNCHANGED <<pos, left, reached, vector_size>>
  BY DEF StartWith
<1>2. IsBuffer(file)'
  BY <1>1 DEF IsBuffer
<1>3. ReaderTypeOK' /\ WindowInFile'
  BY <1>1 DEF ReaderInv, ReaderTypeOK, WindowInFile
<1>4. PendingInFile'
  BY <1>1 DEF PendingInFile, InFile, IsDeletionVector
<1>5. QED BY <1>2, <1>3, <1>4 DEF ReaderInv

LEMMA SectionReader ==
  ASSUME ReaderInv, NEW buf, IsBuffer(buf), ReadSection(buf)
  PROVE  ReaderInv'
<1> DEFINE blobs == <<[type |-> "deletion-vector-v1", offset |-> 0,
                       length |-> Len(buf)]>>
<1>1. Len(blobs) = 1 /\ DOMAIN blobs = {1} /\ 1 .. 1 = {1}
  OBVIOUS
<1>2. blobs[1].offset = 0 /\ blobs[1].length = Len(buf)
  OBVIOUS
<1>3. StartWith(buf, blobs)
  BY DEF ReadSection
<1>4. Len(buf) \in Nat
  BY DEF IsBuffer
<1> HIDE DEF blobs
<1>5. QED
  BY <1>1, <1>2, <1>3, <1>4, StartReader

\* Blobs of a footer that is valid are in the file: it has been compared with
\* the file's length before it is subtracted from it.
LEMMA FooterReader ==
  ASSUME ReaderInv, NEW buf, IsBuffer(buf), ParseFooter(buf)
  PROVE  ReaderInv'
<1> DEFINE end == PayloadStart(buf) - 1
<1>1. CASE ReadSection(buf)
  BY <1>1, SectionReader
<1>2. CASE Throw
  BY <1>2, ThrowReader
<1>3. ASSUME IsPuffin(buf), FooterIsValid(buf),
             NEW metadata \in ParseFileMetadata(buf),
             \A i \in DOMAIN metadata : BlobMetadataIsValid(metadata[i], end),
             StartWith(buf, metadata)
      PROVE  ReaderInv'
  <2>1. /\ Len(buf) \in Nat /\ Len(buf) >= 5
        /\ DOMAIN buf = 1 .. Len(buf)
    BY <1>3 DEF IsBuffer, IsPuffin, MinFileSize
  <2>2. PayloadSize(buf) \in Nat /\ PayloadSize(buf) <= Len(buf) - 5
    <3>1. Len(buf) - 2 \in DOMAIN buf
      BY <2>1
    <3>2. QED
      BY <1>3, <3>1, DeletionVectorAssumption
      DEF DeletionVectorAssumption, IsBuffer, PayloadSize, FooterIsValid,
          MinFileSize
  <2>3. PayloadStart(buf) \in DOMAIN buf /\ PayloadStart(buf) + 1 \in DOMAIN buf
        /\ end \in Int /\ end <= Len(buf)
    BY <2>1, <2>2 DEF PayloadStart, TailSize
  <2>4. metadata \in buf[PayloadStart(buf) + 1].footer
    BY <1>3 DEF ParseFileMetadata
  <2>5. /\ Len(metadata) \in Nat
        /\ DOMAIN metadata = 1 .. Len(metadata)
        /\ \A j \in DOMAIN metadata :
             metadata[j].offset \in Int /\ metadata[j].length \in Int
    BY <2>3, <2>4 DEF IsBuffer
  <2>6. ASSUME NEW i \in DOMAIN metadata, IsDeletionVector(metadata[i])
        PROVE  /\ metadata[i].offset \in Nat /\ metadata[i].length \in Nat
               /\ metadata[i].offset + metadata[i].length <= Len(buf)
    BY <1>3, <2>1, <2>3, <2>5, <2>6 DEF BlobMetadataIsValid, InBlobSection
  <2>7. QED
    BY <1>3, <2>5, <2>6, StartReader
<1>4. CASE IsPuffin(buf)
  <2>1. \/ Throw
        \/ FooterIsValid(buf) /\ \E metadata \in ParseFileMetadata(buf) :
             /\ \A i \in DOMAIN metadata : BlobMetadataIsValid(metadata[i], end)
             /\ StartWith(buf, metadata)
    BY <1>4 DEF ParseFooter
  <2>2. QED
    BY <1>2, <1>3, <1>4, <2>1, Zenon
<1>5. CASE ~IsPuffin(buf)
  BY <1>1, <1>2, <1>5 DEF ParseFooter
<1>6. QED BY <1>4, <1>5

\* The first vector that is left, with those after it
LEMMA NextBlobReader == ReaderInv /\ NextBlob => ReaderInv'
<1> SUFFICES ASSUME ReaderInv, NextBlob PROVE ReaderInv'
  OBVIOUS
<1>1. PICK i \in DOMAIN pending :
        /\ IsDeletionVector(pending[i])
        /\ window' = [offset |-> pending[i].offset, length |-> pending[i].length]
        /\ pending' = SubSeq(pending, i + 1, Len(pending))
  BY DEF NextBlob
<1>2. /\ reached' = 0 /\ dv' = "header"
      /\ UNCHANGED <<file, pos, vector_size, left>>
  BY DEF NextBlob
<1>3. Len(pending) \in Nat /\ DOMAIN pending = 1 .. Len(pending)
  BY DEF ReaderInv, PendingInFile
<1>4. /\ Len(pending') = Len(pending) - i
      /\ DOMAIN pending' = 1 .. Len(pending')
      /\ \A j \in DOMAIN pending' : pending'[j] = pending[i + j]
  BY <1>1, <1>3
<1>5. PendingInFile'
  <2>1. ASSUME NEW j \in DOMAIN pending', IsDeletionVector(pending'[j])
        PROVE  /\ pending'[j].offset \in Nat /\ pending'[j].length \in Nat
               /\ pending'[j].offset + pending'[j].length <= Len(file')
    <3>1. i + j \in DOMAIN pending /\ pending'[j] = pending[i + j]
      BY <1>3, <1>4, <2>1
    <3>2. InFile(pending[i + j])
      BY <2>1, <3>1 DEF ReaderInv, PendingInFile, IsDeletionVector
    <3>3. QED BY <1>2, <3>1, <3>2 DEF InFile
  <2>2. QED BY <1>3, <1>4, <2>1 DEF PendingInFile, IsDeletionVector, InFile
<1>6. WindowInFile'
  <2>1. InFile(pending[i])
    BY <1>1 DEF ReaderInv, PendingInFile
  <2>2. QED BY <1>1, <1>2, <2>1 DEF WindowInFile, InFile
<1>7. QED
  BY <1>2, <1>5, <1>6 DEF ReaderInv, ReaderTypeOK, IsBuffer

\* A cell of the blob is a cell of the file.
LEMMA AtBlob ==
  ASSUME ReaderInv, dv \in {"header", "bitmaps"}, NEW i \in Nat \ {0},
         i <= window.length
  PROVE  At(i).word \in 0 .. Word - 1 /\ At(i).size \in Nat
<1>1. window.offset + i \in DOMAIN file
  BY DEF ReaderInv, WindowInFile, InFile, IsBuffer
<1>2. QED BY <1>1 DEF ReaderInv, IsBuffer, At

LEMMA HeaderReader == ReaderInv /\ ReadHeader => ReaderInv'
<1> SUFFICES ASSUME ReaderInv, ReadHeader PROVE ReaderInv'
  OBVIOUS
<1>1. CASE Throw
  BY <1>1, ThrowReader
<1>2. CASE ~(window.length < MinBlobSize \/ At(2).word # DvMagic \/ BitmapCount < 0)
  <2>1. window.length \in Nat /\ window.length >= 5 /\ dv = "header"
    BY <1>2 DEF ReadHeader, ReaderInv, WindowInFile, InFile, MinBlobSize
  <2>2. /\ At(1).word \in 0 .. Word - 1 /\ At(3).word \in 0 .. Word - 1
        /\ At(4).word \in 0 .. Word - 1
    BY <2>1, AtBlob
  <2>3. Word \in Nat /\ Word > 0
    BY DeletionVectorAssumption DEF DeletionVectorAssumption
  <2>4. BitmapCount \in Nat
    <3>1. Signed(At(4).word, Word) \in Int
      BY <2>2, <2>3 DEF Signed
    <3>2. Word * Signed(At(4).word, Word) \in Int
      BY <2>3, <3>1
    <3>3. BitmapCount \in Int
      BY <2>2, <3>2 DEF BitmapCount
    <3>4. QED BY <1>2, <3>3
  <2>5. /\ pos' = 4 /\ reached' = 4 /\ left' = BitmapCount /\ dv' = "bitmaps"
        /\ vector_size' = (At(1).word - 3) % Word
        /\ UNCHANGED <<file, pending, window>>
    BY <1>2 DEF ReadHeader, HeaderSize
  <2>6. vector_size' \in 0 .. Word - 1
    BY <2>2, <2>3, <2>5
  <2>7. QED
    BY <2>1, <2>4, <2>5, <2>6
    DEF ReaderInv, ReaderTypeOK, PendingInFile, WindowInFile, InFile, IsBuffer
<1>3. QED
  BY <1>1, <1>2 DEF ReadHeader

\* However vector_size has wrapped, the bitmap's parser gets no more than what
\* is left of the blob.
LEMMA BitmapReader == ReaderInv /\ ReadBitmap => ReaderInv'
<1> SUFFICES ASSUME ReaderInv, ReadBitmap PROVE ReaderInv'
  OBVIOUS
<1>1. CASE Throw
  BY <1>1, ThrowReader
<1>2. CASE pos < window.length
  <2> DEFINE remaining == window.length - (pos + 1)
             max_bytes == Min2((vector_size - 1) % Word, remaining)
             size      == DeserializeSize(pos + 1, max_bytes)
  <2>1. /\ dv = "bitmaps" /\ left > 0
        /\ window.length \in Nat /\ pos \in Nat /\ left \in Nat
        /\ vector_size \in 0 .. Word - 1
        /\ Word \in Nat /\ Word > 0
    BY DeletionVectorAssumption
    DEF DeletionVectorAssumption, ReadBitmap, ReaderInv, ReaderTypeOK,
        WindowInFile, InFile
  <2>2. remaining \in Nat /\ (vector_size - 1) % Word \in Nat
    BY <1>2, <2>1
  <2>3. max_bytes \in Nat /\ max_bytes <= remaining
    BY <2>2 DEF Min2
  <2>4. size \in Nat
    <3>1. CASE pos + 1 < window.length
      <4>1. At(pos + 1 + 1).size \in Nat
        BY <2>1, <3>1, AtBlob
      <4>2. QED BY <4>1 DEF DeserializeSize
    <3>2. CASE ~(pos + 1 < window.length)
      BY <3>2 DEF DeserializeSize
    <3>3. QED BY <3>1, <3>2
  <2> HIDE DEF size, max_bytes, remaining
  <2>5. /\ reached' = pos + 1 + max_bytes
        /\ UNCHANGED <<file, pending, window>>
        /\ \/ dv' = "error" /\ UNCHANGED <<pos, vector_size, left>>
           \/ /\ pos' = pos + 1 + size
              /\ vector_size' = (vector_size - 1 - size) % Word
              /\ left' = left - 1
              /\ UNCHANGED dv
    BY <1>2, <2>1 DEF ReadBitmap, size, max_bytes, remaining
  <2>6. reached' <= window.length /\ reached' \in Nat
    BY <2>1, <2>3, <2>5 DEF remaining
  <2>7. ReaderTypeOK'
    BY <2>1, <2>4, <2>5, <2>6 DEF ReaderTypeOK
  <2>8. WindowInFile'
    BY <2>1, <2>5, <2>6 DEF ReaderInv, WindowInFile, InFile
  <2>9. QED
    BY <2>5, <2>7, <2>8 DEF ReaderInv, PendingInFile, InFile, IsBuffer
<1>3. pos \in Int /\ window.length \in Int
  BY DEF ReadBitmap, ReaderInv, ReaderTypeOK, WindowInFile, InFile
<1>4. CASE pos >= window.length
  BY <1>1, <1>4 DEF ReadBitmap
<1>5. QED
  BY <1>2, <1>3, <1>4

LEMMA DecodeReader == ReaderInv /\ Decode => ReaderInv'
<1> SUFFICES ASSUME ReaderInv, Decode PROVE ReaderInv'
  OBVIOUS
<1>1. CASE ReadChecksum
  <2>1. CASE Throw
    BY <2>1, ThrowReader
  <2>2. CASE ~Throw
    BY <1>1, <2>2
    DEF ReadChecksum, ReaderInv, ReaderTypeOK, PendingInFile, WindowInFile,
        InFile, IsBuffer
  <2>3. QED BY <2>1, <2>2
<1>2. CASE NoMoreBlobs
  BY <1>2
  DEF NoMoreBlobs, ReaderInv, ReaderTypeOK, PendingInFile, WindowInFile,
      InFile, IsBuffer
<1>3. QED
  BY <1>1, <1>2, NextBlobReader, HeaderReader, BitmapReader
  DEF Decode, FromBlob

-----------------------------------------------------------------------------
(* The scan.                                                               *)

\* What is stored is a buffer, damaged or not.
LEMMA StoredBuffers ==
  ASSUME table \in DOMAIN Tables, version \in DOMAIN Tables[table]
  PROVE  IsBuffer(stored.blob) /\ IsBuffer(stored.puffin)
  BY PlannedScanAssumption DEF PlannedScanAssumption, stored

ScanTypeOK ==
  /\ filters \in Seq(Expressions)
  /\ table \in DOMAIN Tables
  /\ version \in DOMAIN Tables[table]
  /\ pc \in {"optimize", "bound", "filter", "scan", "answered", "failed",
             "function", "returned"}
  /\ calls \in 0 .. 2
  /\ planned \subseteq Files
  /\ output \subseteq Rows /\ live \subseteq Rows
  /\ dv \in {"header", "bitmaps", "next"} => pc \in {"filter", "function"}

ScanInv == ScanTypeOK /\ ReaderInv

LEMMA ScanInit == Init => ScanInv
<1> SUFFICES ASSUME Init PROVE ScanInv
  OBVIOUS
<1>1. PICK c \in Cases : filters = c[1] /\ table = c[2]
  BY DEF Init
<1>2. filters \in Seq(Expressions) /\ table \in DOMAIN Tables
  BY <1>1, PlannedScanAssumption DEF PlannedScanAssumption
<1>3. version \in DOMAIN Tables[table]
  BY <1>2, PlannedScanAssumption DEF PlannedScanAssumption, Init
<1>4. Idle /\ dv = "idle"
  BY DEF Init, Idle
<1>5. QED
  BY <1>2, <1>3, <1>4, IdleReader DEF Init, ScanInv, ScanTypeOK

\* A reader is started for a scan, or for the function.
LEMMA StartedScan ==
  ASSUME ScanInv, NEW buf,
         Reset \/ Throw \/ ReadSection(buf) \/ ParseFooter(buf)
  PROVE  dv' \in {"idle", "error", "next"}
  BY DEF Reset, Throw, ReadSection, ParseFooter, StartWith

LEMMA ScanStep == ScanInv /\ [Next]_vars => ScanInv'
<1> SUFFICES ASSUME ScanInv, [Next]_vars PROVE ScanInv'
  OBVIOUS
<1>a. /\ filters \in Seq(Expressions) /\ table \in DOMAIN Tables
      /\ version \in DOMAIN Tables[table] /\ ReaderInv /\ ScanTypeOK
      /\ IsBuffer(stored.blob) /\ IsBuffer(stored.puffin)
  BY StoredBuffers DEF ScanInv, ScanTypeOK
<1>b. ASSUME UNCHANGED dvVars PROVE ReaderInv'
  BY <1>a, <1>b
  DEF dvVars, ReaderInv, ReaderTypeOK, PendingInFile, WindowInFile, InFile,
      IsBuffer
<1>1. CASE Optimize \/ Bound \/ Scan \/ ExecuteAgain \/ FilterFails \/ FilterBuilt
           \/ ReadDVEnds \/ UNCHANGED vars
  <2>1. UNCHANGED dvVars /\ ReaderInv'
    BY <1>1, <1>b
    DEF Optimize, PushdownFilter, Bound, Scan, ExecuteAgain, FilterFails,
        FilterBuilt, ReadDVEnds, vars
  <2>2. UNCHANGED dv
    BY <2>1 DEF dvVars
  <2>3. ScanTypeOK'
    BY <1>1, <1>a, <2>2
    DEF Optimize, PushdownFilter, Bound, Scan, ExecuteAgain, FilterFails,
        FilterBuilt, ReadDVEnds, vars, scanVars, ScanTypeOK, Rows
  <2>4. QED BY <2>1, <2>3 DEF ScanInv
<1>2. CASE InitGlobal
  <2>1. \/ pc' = "filter" /\ ReadSection(stored.blob)
        \/ pc' = "scan" /\ Reset
    BY <1>2 DEF InitGlobal
  <2>2. ReaderInv'
    BY <1>a, <2>1, SectionReader, ResetReader
  <2>3. dv' \in {"header", "bitmaps", "next"} => pc' \in {"filter", "function"}
    BY <2>1 DEF Reset
  <2>4. ScanTypeOK'
    BY <1>2, <1>a, <2>1, <2>3 DEF InitGlobal, ScanTypeOK, LiveRows
  <2>5. QED BY <2>2, <2>4 DEF ScanInv
<1>3. CASE Read
  <2>1. ReaderInv' /\ pc \in {"filter", "function"} /\ UNCHANGED scanVars
    BY <1>3, <1>a, DecodeReader DEF Read
  <2>2. QED
    BY <1>a, <2>1 DEF ScanInv, ScanTypeOK, scanVars
<1>4. CASE TableChanges
  <2>1. UNCHANGED dvVars /\ ReaderInv'
    BY <1>4, <1>b DEF TableChanges
  <2>2. version' \in DOMAIN Tables[table]
    BY <1>4, <1>a, PlannedScanAssumption DEF PlannedScanAssumption, TableChanges
  <2>3. QED
    BY <1>4, <1>a, <2>1, <2>2 DEF TableChanges, ScanInv, ScanTypeOK, dvVars
<1>5. CASE ReadDVInit
  <2>1. /\ pc' = "function"
        /\ ParseFooter(stored.puffin) \/ ReadSection(stored.blob)
    BY <1>5 DEF ReadDVInit
  <2>2. ReaderInv'
    BY <1>a, <2>1, SectionReader, FooterReader
  <2>3. QED
    BY <1>5, <1>a, <2>1, <2>2 DEF ReadDVInit, ScanInv, ScanTypeOK
<1>6. CASE ReadDVBindFails
  <2>1. ReaderInv' /\ dv' = "error"
    BY <1>6, <1>a, ThrowReader DEF ReadDVBindFails, Throw
  <2>2. QED
    BY <1>6, <1>a, <2>1 DEF ReadDVBindFails, ScanInv, ScanTypeOK
<1>7. QED
  BY <1>1, <1>2, <1>3, <1>4, <1>5, <1>6 DEF Next

\* The reader's counters stay in the ranges of their types, and it works only
\* where a scan, or the function, has called it.
THEOREM TypeCorrect == Spec => []TypeOK
<1>1. ScanInv => TypeOK
  BY DEF ScanInv, ScanTypeOK, ReaderInv, ReaderTypeOK, TypeOK
<1>2. QED
  BY <1>1, ScanInit, ScanStep, PTL DEF Spec

\* Whatever is stored, with any sizes and offsets in it, no read of the vector's
\* reader goes past its blob, and no blob past the buffer.
THEOREM ReaderStaysInBounds == Spec => []ReadsInBounds
<1>1. ScanInv => ReadsInBounds
  BY DEF ScanInv, ReaderInv, WindowInFile, InFile, ReadsInBounds
<1>2. QED
  BY <1>1, ScanInit, ScanStep, PTL DEF Spec

-----------------------------------------------------------------------------
(* What is decoded.                                                        *)

Vectors == {i \in DOMAIN pending : IsDeletionVector(pending[i])}

\* The bitmaps read so far are the first of the body, however it is laid out.
ReadSoFar(body, start) ==
  LET k == Count(body) - left
  IN  /\ Count(body) \in Nat /\ k \in 0 .. Count(body)
      /\ pos = start[k + 1] + 1
      /\ DOMAIN bitmaps = {Key(body, start[j]) : j \in 1 .. k}
      /\ \A j \in 1 .. k :
           bitmaps[Key(body, start[j])] = body[start[j] + 2].values

LayoutInv ==
  dv = "bitmaps" =>
    /\ window.length >= MinBlobSize
    /\ \A start : IsLayout(Body(file, window), start)
                    => ReadSoFar(Body(file, window), start)

\* What is marked has been decoded, or is in the blob being read, or in one that
\* is still to be read.
Divided(current, part) ==
  /\ \A i \in Vectors : VectorOf(file, pending[i], part[i])
  /\ IF dv = "next" THEN current = {} ELSE VectorOf(file, window, current)
  /\ \A p : p \in marked <=> \/ p \in positions
                             \/ p \in current
                             \/ \E i \in Vectors : p \in part[i]

DividedInv ==
  dv \in {"next", "header", "bitmaps"} => \E current, part : Divided(current, part)

VectorInv == LayoutInv /\ DividedInv /\ VectorExact

\* A buffer is taken, and blobs of what is marked.
LEMMA StartVector ==
  ASSUME NEW buf, NEW blobs, NEW D, BlobsOf(buf, blobs, D),
         StartWith(buf, blobs), marked' = D
  PROVE  VectorInv'
<1> DEFINE vectors == {i \in DOMAIN blobs : IsDeletionVector(blobs[i])}
<1>1. /\ file' = buf /\ pending' = blobs /\ dv' = "next" /\ positions' = {}
      /\ Vectors' = vectors
  BY DEF StartWith, Vectors, IsDeletionVector
<1>2. PICK part \in [vectors -> SUBSET D] :
        /\ UNION {part[i] : i \in vectors} = D
        /\ \A i \in vectors : VectorOf(buf, blobs[i], part[i])
  BY DEF BlobsOf
<1>3. \A p : p \in D <=> \E i \in vectors : p \in part[i]
  BY <1>2
<1>5. \A i \in Vectors' : VectorOf(file', pending'[i], part[i])
  BY <1>1, <1>2
<1>6. \A p : p \in marked' <=> \/ p \in positions' \/ p \in {}
                               \/ \E i \in Vectors' : p \in part[i]
  BY <1>1, <1>3
<1> HIDE DEF vectors
<1>7. DividedInv'
  <2>1. Divided({}, part)'
    BY <1>1, <1>5, <1>6 DEF Divided
  <2> QED BY <2>1 DEF DividedInv
<1> QED
  BY <1>1, <1>7 DEF VectorInv, LayoutInv, VectorExact

LEMMA SectionVector ==
  ASSUME NEW buf, NEW D, SectionOf(buf, D), ReadSection(buf), marked' = D
  PROVE  VectorInv'
<1> DEFINE m == [offset |-> 0, length |-> Len(buf)]
           b == [type |-> "deletion-vector-v1", offset |-> 0, length |-> Len(buf)]
           blobs == <<b>>
<1>1. VectorOf(buf, m, D) /\ StartWith(buf, blobs)
  BY DEF SectionOf, ReadSection
<1>2. b.offset = m.offset /\ b.length = m.length /\ IsDeletionVector(b)
  BY DEF IsDeletionVector
<1> HIDE DEF m, b
<1>3. VectorOf(buf, b, D)
  BY <1>1, <1>2 DEF VectorOf, Body
<1>4. {i \in DOMAIN blobs : IsDeletionVector(blobs[i])} = {1} /\ blobs[1] = b
  BY <1>2
<1> HIDE DEF blobs
<1>5. BlobsOf(buf, blobs, D)
  <2> DEFINE part == [i \in {1} |-> D]
  <2>1. part \in [{1} -> SUBSET D] /\ UNION {part[i] : i \in {1}} = D /\ part[1] = D
    OBVIOUS
  <2> HIDE DEF part
  <2> QED BY <1>3, <1>4, <2>1 DEF BlobsOf
<1> QED
  BY <1>1, <1>5, StartVector

LEMMA ThrowVector == Throw => VectorInv'
  BY DEF Throw, VectorInv, LayoutInv, DividedInv, VectorExact

LEMMA FooterVector ==
  ASSUME NEW buf, NEW D, FileOf(buf, D), ParseFooter(buf), marked' = D
  PROVE  VectorInv'
<1> DEFINE end == PayloadStart(buf) - 1
<1>1. CASE ~IsPuffin(buf)
  <2>1. ReadSection(buf) \/ Throw
    BY <1>1 DEF ParseFooter
  <2>2. SectionOf(buf, D)
    BY <1>1 DEF FileOf
  <2> QED BY <2>1, <2>2, SectionVector, ThrowVector
<1>2. CASE IsPuffin(buf)
  <2>1. \/ Throw
        \/ FooterIsValid(buf) /\ \E metadata \in ParseFileMetadata(buf) :
             /\ \A i \in DOMAIN metadata : BlobMetadataIsValid(metadata[i], end)
             /\ StartWith(buf, metadata)
    BY <1>2 DEF ParseFooter
  <2>2. ASSUME FooterIsValid(buf), NEW metadata \in ParseFileMetadata(buf),
               \A i \in DOMAIN metadata : BlobMetadataIsValid(metadata[i], end),
               StartWith(buf, metadata)
        PROVE  VectorInv'
    <3>1. BlobsOf(buf, metadata, D)
      BY <1>2, <2>2 DEF FileOf
    <3> QED BY <2>2, <3>1, StartVector
  <2> QED BY <2>1, <2>2, ThrowVector, Zenon
<1> QED
  BY <1>1, <1>2

LEMMA NextBlobVector ==
  ASSUME ReaderInv, VectorInv, NextBlob, UNCHANGED marked
  PROVE  VectorInv'
<1>1. PICK i \in DOMAIN pending :
        /\ IsDeletionVector(pending[i])
        /\ \A j \in 1 .. i - 1 : ~IsDeletionVector(pending[j])
        /\ window' = [offset |-> pending[i].offset, length |-> pending[i].length]
        /\ pending' = SubSeq(pending, i + 1, Len(pending))
  BY DEF NextBlob
<1>2. dv = "next" /\ dv' = "header" /\ UNCHANGED <<file, positions>>
  BY DEF NextBlob
<1>3. PICK current, part : Divided(current, part)
  BY <1>2 DEF VectorInv, DividedInv
<1>4. current = {}
  BY <1>2, <1>3 DEF Divided
<1>5. Len(pending) \in Nat /\ DOMAIN pending = 1 .. Len(pending)
  BY DEF ReaderInv, PendingInFile
<1>6. /\ Len(pending') = Len(pending) - i
      /\ DOMAIN pending' = 1 .. Len(pending) - i
      /\ \A j \in DOMAIN pending' : pending'[j] = pending[i + j]
  BY <1>1, <1>5
<1>a. PICK rest : \A j \in Vectors' : rest[j] = part[i + j]
  <2>1. \A j \in Vectors' : [k \in Vectors' |-> part[i + k]][j] = part[i + j]
    OBVIOUS
  <2> QED BY <2>1
<1>7. ASSUME NEW j \in Vectors'
      PROVE  i + j \in Vectors /\ pending'[j] = pending[i + j] /\ rest[j] = part[i + j]
  BY <1>5, <1>6, <1>a DEF Vectors, IsDeletionVector
<1>8. ASSUME NEW v \in Vectors
      PROVE  v = i \/ \E j \in Vectors' : v = i + j
  <2>1. v \in 1 .. Len(pending) /\ IsDeletionVector(pending[v]) /\ ~(v < i)
    BY <1>1, <1>5 DEF Vectors
  <2>2. CASE v > i
    <3>1. v - i \in DOMAIN pending' /\ v = i + (v - i)
      BY <1>5, <1>6, <2>1, <2>2
    <3>2. v - i \in Vectors'
      BY <1>6, <2>1, <3>1 DEF Vectors, IsDeletionVector
    <3> QED BY <3>1, <3>2
  <2> QED BY <1>5, <2>1, <2>2
<1>9. i \in Vectors
  BY <1>1 DEF Vectors
<1>10. VectorOf(file, pending[i], part[i])
  BY <1>3, <1>9 DEF Divided
<1>11. VectorOf(file', window', part[i])
  BY <1>1, <1>2, <1>10 DEF VectorOf, Body
<1>12. \A j \in Vectors' : VectorOf(file', pending'[j], rest[j])
  BY <1>2, <1>3, <1>7 DEF Divided
<1>13. \A p : p \in marked' <=> \/ p \in positions' \/ p \in part[i]
                                \/ \E j \in Vectors' : p \in rest[j]
  <2>1. \A p : p \in marked <=> p \in positions \/ \E v \in Vectors : p \in part[v]
    BY <1>3, <1>4 DEF Divided
  <2>2. \A p : (\E v \in Vectors : p \in part[v])
                 <=> p \in part[i] \/ \E j \in Vectors' : p \in rest[j]
    BY <1>7, <1>8, <1>9
  <2> QED BY <1>2, <2>1, <2>2
<1>14. Divided(part[i], rest)'
  BY <1>2, <1>11, <1>12, <1>13 DEF Divided
<1>15. DividedInv'
  BY <1>14 DEF DividedInv
<1> QED
  BY <1>2, <1>15 DEF VectorInv, LayoutInv, VectorExact

\* While a blob is being read, nothing is decoded.
LEMMA StillDivided ==
  ASSUME DividedInv, dv \in {"header", "bitmaps"}, dv' = "bitmaps",
         UNCHANGED <<file, pending, window, positions, marked>>
  PROVE  DividedInv'
<1>1. PICK current, part : Divided(current, part)
  BY DEF DividedInv
<1>2. Vectors' = Vectors
  BY DEF Vectors, IsDeletionVector
<1>3. dv # "next" /\ dv' # "next"
  OBVIOUS
<1>4. VectorOf(file', window', current) /\
      \A i \in Vectors' : VectorOf(file', pending'[i], part[i])
  BY <1>1, <1>2, <1>3 DEF Divided
<1>5. \A p : p \in marked' <=> \/ p \in positions' \/ p \in current
                               \/ \E i \in Vectors' : p \in part[i]
  BY <1>1, <1>2 DEF Divided
<1>6. Divided(current, part)'
  BY <1>3, <1>4, <1>5 DEF Divided
<1> QED
  BY <1>6 DEF DividedInv

\* The body of a blob that is in the file, by the blob's cells.
LEMMA BodyCells ==
  ASSUME ReaderInv, dv \in {"header", "bitmaps"}, window.length >= MinBlobSize
  PROVE  /\ window.length \in Nat /\ Len(Body(file, window)) = window.length - 2
         /\ \A i \in 1 .. window.length - 2 : Body(file, window)[i] = At(i + 1)
<1>1. /\ window.offset \in Nat /\ window.length \in Nat /\ window.length >= 5
      /\ window.offset + window.length <= Len(file) /\ Len(file) \in Nat
      /\ DOMAIN file = 1 .. Len(file)
  BY DEF ReaderInv, WindowInFile, InFile, IsBuffer, MinBlobSize
<1> DEFINE from == window.offset + 2
           to   == window.offset + window.length - 1
<1>2. from \in Nat /\ to \in Nat /\ from >= 1 /\ to <= Len(file) /\ from <= to
  BY <1>1
<1>3. Body(file, window) = SubSeq(file, from, to)
  BY DEF Body
<1>4. to - from + 1 = window.length - 2
  BY <1>1
<1> HIDE DEF from, to
<1>5. /\ Len(SubSeq(file, from, to)) = to - from + 1
      /\ \A i \in 1 .. to - from + 1 : SubSeq(file, from, to)[i] = file[from + i - 1]
  BY <1>2
<1>6. \A i \in 1 .. window.length - 2 : from + i - 1 = window.offset + (i + 1)
  BY <1>1 DEF from
<1> QED
  BY <1>1, <1>3, <1>4, <1>5, <1>6 DEF At

\* The header of a blob says how many bitmaps its body has.
LEMMA HeaderCells ==
  ASSUME ReaderInv, dv = "header", window.length >= MinBlobSize
  PROVE  /\ Body(file, window)[1] = At(2)
         /\ Count(Body(file, window)) = BitmapCount
         /\ BitmapCount \in Int
<1> DEFINE body == Body(file, window)
<1>1. /\ window.length \in Nat /\ window.length >= 5
      /\ \A i \in 1 .. window.length - 2 : body[i] = At(i + 1)
  BY BodyCells DEF MinBlobSize
<1> HIDE DEF body
<1>2. body[1] = At(2) /\ body[2] = At(3) /\ body[3] = At(4)
  <2>1. /\ 1 \in 1 .. window.length - 2 /\ 2 \in 1 .. window.length - 2
        /\ 3 \in 1 .. window.length - 2
    BY <1>1
  <2>2. 1 + 1 = 2 /\ 2 + 1 = 3 /\ 3 + 1 = 4
    OBVIOUS
  <2> QED BY <1>1, <2>1, <2>2
<1>3. Count(body) = BitmapCount
  BY <1>2 DEF Count, BitmapCount
<1>4. At(3).word \in 0 .. Word - 1 /\ At(4).word \in 0 .. Word - 1
  BY <1>1, AtBlob
<1>5. Signed(At(4).word, Word) \in Int /\ Word \in Nat
  BY <1>4, DeletionVectorAssumption DEF DeletionVectorAssumption, Signed
<1>6. Word * Signed(At(4).word, Word) \in Int
  BY <1>5
<1>7. BitmapCount \in Int
  BY <1>4, <1>5, <1>6 DEF BitmapCount
<1> QED
  BY <1>2, <1>3, <1>7 DEF body

LEMMA HeaderVector ==
  ASSUME ReaderInv, VectorInv, ReadHeader, UNCHANGED marked
  PROVE  VectorInv'
<1>1. CASE Throw
  BY <1>1, ThrowVector
<1>2. CASE ~(window.length < MinBlobSize \/ At(2).word # DvMagic \/ BitmapCount < 0)
  <2>1. /\ pos' = 4 /\ left' = BitmapCount /\ dv' = "bitmaps" /\ bitmaps' = <<>>
        /\ UNCHANGED <<file, pending, window, positions>> /\ dv = "header"
    BY <1>2 DEF ReadHeader, HeaderSize
  <2>a. PICK body : body = Body(file, window)
    OBVIOUS
  <2>2. window.length >= MinBlobSize
    BY <1>2, <2>1 DEF ReaderInv, WindowInFile, InFile, MinBlobSize
  <2>3. Count(body) = BitmapCount /\ BitmapCount \in Int
    BY <2>1, <2>2, <2>a, HeaderCells
  <2>4. BitmapCount \in Nat
    BY <1>2, <2>3
  <2>5. body = Body(file', window')
    BY <2>1, <2>a
  <2>6. LayoutInv'
    <3>1. window'.length >= MinBlobSize
      BY <2>1, <2>2
    <3>2. Count(body) - left' = 0 /\ Count(body) \in Nat
      BY <2>1, <2>3, <2>4
    <3>3. ASSUME NEW start, IsLayout(body, start)
          PROVE  pos' = start[1] + 1
      BY <2>1, <3>3 DEF IsLayout
    <3>4. DOMAIN bitmaps' = {}
      BY <2>1
    <3>5. ASSUME NEW start, IsLayout(body, start)
          PROVE  ReadSoFar(body, start)'
      BY <3>2, <3>3, <3>4, <3>5 DEF ReadSoFar
    <3> QED BY <2>5, <3>1, <3>5 DEF LayoutInv
  <2>7. DividedInv'
    BY <2>1, StillDivided DEF VectorInv
  <2> QED BY <2>1, <2>6, <2>7 DEF VectorInv, VectorExact
<1> QED
  BY <1>1, <1>2 DEF ReadHeader

\* What the k-th bitmap of a layout is.
LEMMA LayoutCells ==
  ASSUME ReaderInv, dv = "bitmaps", window.length >= MinBlobSize,
         NEW start, IsLayout(Body(file, window), start),
         Count(Body(file, window)) \in Nat,
         NEW k \in 1 .. Count(Body(file, window))
  PROVE  /\ start[k] \in Nat /\ start[k] + 2 < window.length
         /\ Key(Body(file, window), start[k]) = Signed(At(start[k] + 2).word, Word)
         /\ Body(file, window)[start[k] + 2] = At(start[k] + 3)
         /\ start[k + 1] = start[k] + 1 + At(start[k] + 3).size
<1> DEFINE body == Body(file, window)
           n == Count(body)
<1>1. /\ window.length \in Nat /\ Len(body) = window.length - 2
      /\ \A i \in 1 .. window.length - 2 : body[i] = At(i + 1)
  BY BodyCells
<1>2. /\ start \in [1 .. n + 1 -> 3 .. Len(body)]
      /\ \A j \in 1 .. n : /\ start[j] + 2 <= Len(body)
                           /\ start[j + 1] = start[j] + 1 + body[start[j] + 2].size
  BY DEF IsLayout
<1> HIDE DEF body, n
<1>3. n \in Nat /\ k \in 1 .. n
  BY DEF n, body
<1>4. k \in 1 .. n + 1 /\ k + 1 \in 1 .. n + 1
  BY <1>3
<1>5. start[k] \in 3 .. window.length - 2 /\ start[k + 1] \in 3 .. window.length - 2
  BY <1>1, <1>2, <1>4
<1>6. /\ start[k] + 1 \in 1 .. window.length - 2
      /\ start[k] + 2 \in 1 .. window.length - 2
  <2>1. start[k] + 2 <= Len(body)
    BY <1>2, <1>3
  <2>2. start[k] + 2 <= window.length - 2
    BY <1>1, <2>1
  <2>3. start[k] \in Nat /\ start[k] >= 3 /\ window.length \in Nat
    BY <1>1, <1>5
  <2> QED BY ONLY <2>2, <2>3, SMTT(20)
<1>7. /\ body[start[k] + 1] = At(start[k] + 2)
      /\ body[start[k] + 2] = At(start[k] + 3)
  BY <1>1, <1>5, <1>6
<1>8. start[k + 1] = start[k] + 1 + body[start[k] + 2].size
  BY <1>2, <1>3
<1>9. start[k] \in Nat /\ start[k] + 2 < window.length
  BY <1>1, <1>5, <1>6
<1>10. Key(body, start[k]) = Signed(At(start[k] + 2).word, Word)
  BY <1>7 DEF Key
<1> QED
  BY <1>7, <1>8, <1>9, <1>10 DEF body

LEMMA BitmapVector ==
  ASSUME ReaderInv, VectorInv, ReadBitmap, UNCHANGED marked
  PROVE  VectorInv'
<1> DEFINE remaining == window.length - (pos + 1)
           max_bytes == Min2((vector_size - 1) % Word, remaining)
           size      == DeserializeSize(pos + 1, max_bytes)
<1>1. dv = "bitmaps" /\ left > 0 /\ left \in Nat
  BY DEF ReadBitmap, ReaderInv, ReaderTypeOK
<1>2. \/ dv' = "error"
      \/ /\ size # 0
         /\ pos' = pos + 1 + size
         /\ left' = left - 1
         /\ Emplace(Signed(At(pos + 1).word, Word), At(pos + 2).values)
         /\ UNCHANGED <<dv, file, pending, window, positions>>
  BY DEF ReadBitmap, Throw
<1>3. size # 0 => size = At(pos + 2).size
  <2>1. pos + 1 + 1 = pos + 2
    BY DEF ReaderInv, ReaderTypeOK
  <2> QED BY <2>1 DEF DeserializeSize
<1> HIDE DEF size
<1>4. CASE dv' = "error"
  BY <1>4 DEF VectorInv, LayoutInv, DividedInv, VectorExact
<1>5. CASE /\ size # 0
           /\ pos' = pos + 1 + size
           /\ left' = left - 1
           /\ Emplace(Signed(At(pos + 1).word, Word), At(pos + 2).values)
           /\ UNCHANGED <<dv, file, pending, window, positions>>
  <2>1. PICK body : body = Body(file, window) /\ body = Body(file', window')
    BY <1>5
  <2>2. ASSUME NEW start, IsLayout(body, start) PROVE ReadSoFar(body, start)'
    <3> DEFINE n == Count(body)
               k == n - left
    <3>1. /\ n \in Nat /\ k \in 0 .. n
          /\ pos = start[k + 1] + 1
          /\ DOMAIN bitmaps = {Key(body, start[j]) : j \in 1 .. k}
          /\ \A j \in 1 .. k :
               bitmaps[Key(body, start[j])] = body[start[j] + 2].values
      <4>1. ReadSoFar(body, start)
        BY <1>1, <2>1, <2>2 DEF VectorInv, LayoutInv
      <4> QED BY <4>1 DEF ReadSoFar
    <3> HIDE DEF n
    <3>2. k + 1 \in 1 .. n /\ n - left' = k + 1 /\ k \in Nat /\ k + 1 + 1 = k + 2
      BY <1>1, <1>5, <3>1
    <3> HIDE DEF k
    <3>3. window.length >= MinBlobSize
      BY <1>1 DEF VectorInv, LayoutInv
    <3>4. /\ start[k + 1] \in Nat
          /\ Key(body, start[k + 1]) = Signed(At(start[k + 1] + 2).word, Word)
          /\ body[start[k + 1] + 2] = At(start[k + 1] + 3)
          /\ start[k + 1 + 1] = start[k + 1] + 1 + At(start[k + 1] + 3).size
      BY <1>1, <2>1, <2>2, <3>1, <3>2, <3>3, LayoutCells DEF n
    <3>5. pos + 1 = start[k + 1] + 2 /\ pos + 2 = start[k + 1] + 3
      BY <3>1, <3>4
    <3>6. /\ size = At(start[k + 1] + 3).size
          /\ Emplace(Key(body, start[k + 1]), body[start[k + 1] + 2].values)
      BY <1>3, <1>5, <3>4, <3>5
    <3>7. At(start[k + 1] + 3).size \in Nat
      <4>1. start[k + 1] + 2 < window.length
        BY <1>1, <2>1, <2>2, <3>1, <3>2, <3>3, LayoutCells DEF n
      <4>2. start[k + 1] + 3 \in Nat \ {0} /\ start[k + 1] + 3 <= window.length
        BY <1>1, <3>4, <4>1 DEF ReaderInv, WindowInFile, InFile
      <4> QED BY <1>1, <4>2, AtBlob
    <3>8. pos' = start[k + 1 + 1] + 1
      BY <1>5, <3>1, <3>4, <3>6, <3>7
    <3>9. \A j \in 1 .. k : Key(body, start[j]) # Key(body, start[k + 1])
      <4>1. \A i, j \in 1 .. n : Key(body, start[i]) = Key(body, start[j]) => i = j
        BY <2>2 DEF IsLayout, n
      <4> QED BY <3>1, <3>2, <4>1
    <3>10. Key(body, start[k + 1]) \notin DOMAIN bitmaps
      BY <3>1, <3>9
    <3>11. 1 .. k + 1 = (1 .. k) \cup {k + 1}
      BY <3>2
    <3>12. DOMAIN bitmaps' = {Key(body, start[j]) : j \in 1 .. k + 1}
      BY <3>1, <3>6, <3>11 DEF Emplace
    <3>13. \A j \in 1 .. k + 1 :
             bitmaps'[Key(body, start[j])] = body[start[j] + 2].values
      <4>1. bitmaps'[Key(body, start[k + 1])] = body[start[k + 1] + 2].values
        BY <3>6, <3>10 DEF Emplace
      <4>2. ASSUME NEW j \in 1 .. k
            PROVE  bitmaps'[Key(body, start[j])] = bitmaps[Key(body, start[j])]
        <5>1. Key(body, start[j]) \in DOMAIN bitmaps
          BY <3>1
        <5> QED BY <3>6, <5>1 DEF Emplace
      <4> QED BY <3>1, <3>11, <4>1, <4>2
    <3>14. Count(body) \in Nat /\ Count(body) - left' = k + 1 /\ k + 1 \in 0 .. Count(body)
      BY <3>1, <3>2 DEF n
    <3>15. QED
      BY <3>8, <3>12, <3>13, <3>14 DEF ReadSoFar
  <2>3. LayoutInv'
    <3>1. window'.length >= MinBlobSize
      BY <1>1, <1>5 DEF VectorInv, LayoutInv
    <3> QED BY <2>1, <2>2, <3>1 DEF LayoutInv
  <2>4. DividedInv'
    BY <1>1, <1>5, StillDivided DEF VectorInv
  <2> QED BY <1>1, <1>5, <2>3, <2>4 DEF VectorInv, VectorExact
<1> QED
  BY <1>2, <1>4, <1>5

\* When all its bitmaps are read, a blob has been read as what its layout denotes.
LEMMA BitmapsDenote ==
  ASSUME LayoutInv, dv = "bitmaps", left = 0,
         NEW start, IsLayout(Body(file, window), start)
  PROVE  ToSet = Denoted(Body(file, window), start)
<1> DEFINE body == Body(file, window)
<1>1. ReadSoFar(body, start)
  BY DEF LayoutInv
<1> HIDE DEF body
<1> DEFINE n == Count(body)
           K(j) == Key(body, start[j])
<1>2. /\ DOMAIN bitmaps = {K(j) : j \in 1 .. n}
      /\ \A j \in 1 .. n : bitmaps[K(j)] = body[start[j] + 2].values
  <2>1. Count(body) - left = Count(body)
    BY <1>1 DEF ReadSoFar
  <2> QED BY <1>1, <2>1 DEF ReadSoFar
<1>3. ToSet = UNION {{key * Bucket + v : v \in bitmaps[key]} : key \in DOMAIN bitmaps}
  BY DEF ToSet
<1>4. Denoted(body, start)
        = UNION {{K(j) * Bucket + v : v \in body[start[j] + 2].values} : j \in 1 .. n}
  BY DEF Denoted
<1>5. ToSet = Denoted(body, start)
  <2> HIDE DEF n, K
  <2> QED BY <1>2, <1>3, <1>4
<1> QED
  BY <1>5 DEF body

\* When its checksum is right as well, it has been read as what it was made for.
LEMMA DecodedBlob ==
  ASSUME ReaderInv, LayoutInv, dv = "bitmaps", left = 0,
         pos + 1 = window.length,
         At(pos + 1).sum = SubSeq(file, window.offset + 2, window.offset + pos),
         ~ \E p \in ToSet : p < 0,
         NEW D, VectorOf(file, window, D)
  PROVE  ToSet = D
<1> DEFINE body == Body(file, window)
<1>1. /\ window.offset \in Nat /\ window.length \in Nat /\ pos \in Nat
      /\ window.length >= MinBlobSize /\ window.offset + window.length <= Len(file)
  BY DEF ReaderInv, ReaderTypeOK, WindowInFile, InFile, LayoutInv
<1>2. /\ window.offset + window.length = window.offset + (pos + 1)
      /\ window.offset + window.length - 1 = window.offset + pos
  BY <1>1
<1>3. file[window.offset + window.length].sum = body
  BY <1>2 DEF At, Body
<1>4. MadeFor(body, D)
  BY <1>1, <1>3 DEF VectorOf
<1>5. PICK start :
        /\ IsLayout(body, start)
        /\ Denoted(body, start) = D \/ \E p \in Denoted(body, start) : p < 0
  BY <1>4 DEF MadeFor
<1>6. ToSet = Denoted(body, start)
  BY <1>5, BitmapsDenote
<1> QED
  BY <1>5, <1>6

LEMMA ChecksumVector ==
  ASSUME ReaderInv, VectorInv, ReadChecksum, UNCHANGED marked
  PROVE  VectorInv'
<1>1. CASE Throw
  BY <1>1, ThrowVector
<1>2. CASE ~Throw
  <2>1. /\ dv = "bitmaps" /\ left = 0 /\ pos + 1 = window.length
        /\ At(pos + 1).sum = SubSeq(file, window.offset + 2, window.offset + pos)
        /\ ~ \E p \in ToSet : p < 0
        /\ positions' = positions \cup ToSet /\ dv' = "next"
        /\ UNCHANGED <<file, pending, window>>
    BY <1>2 DEF ReadChecksum
  <2>2. PICK current, part : Divided(current, part)
    BY <2>1 DEF VectorInv, DividedInv
  <2>3. VectorOf(file, window, current)
    BY <2>1, <2>2 DEF Divided
  <2>4. ToSet = current
    BY <2>1, <2>3, DecodedBlob DEF VectorInv
  <2>5. Vectors' = Vectors
    BY <2>1 DEF Vectors, IsDeletionVector
  <2>6. \A i \in Vectors' : VectorOf(file', pending'[i], part[i])
    BY <2>1, <2>2, <2>5 DEF Divided
  <2>7. \A p : p \in marked' <=> \/ p \in positions' \/ p \in {}
                                 \/ \E i \in Vectors' : p \in part[i]
    <3>1. \A p : p \in marked <=> \/ p \in positions \/ p \in current
                                  \/ \E i \in Vectors : p \in part[i]
      BY <2>2 DEF Divided
    <3> QED BY <2>1, <2>4, <2>5, <3>1
  <2>8. Divided({}, part)'
    BY <2>1, <2>6, <2>7 DEF Divided
  <2>9. DividedInv'
    BY <2>8 DEF DividedInv
  <2> QED BY <2>1, <2>9 DEF VectorInv, LayoutInv, VectorExact
<1> QED
  BY <1>1, <1>2

LEMMA DecodeVector ==
  ASSUME ReaderInv, VectorInv, Decode, UNCHANGED marked
  PROVE  VectorInv'
<1>1. CASE NoMoreBlobs
  <2>1. dv = "next" /\ dv' = "done" /\ UNCHANGED positions /\ Vectors = {}
    BY <1>1 DEF NoMoreBlobs, Vectors
  <2>2. PICK current, part : Divided(current, part)
    BY <2>1 DEF VectorInv, DividedInv
  <2>3. \A p : p \in marked <=> p \in positions
    BY <2>1, <2>2 DEF Divided
  <2>4. marked = positions
    BY <2>3
  <2> QED BY <2>1, <2>4 DEF VectorInv, LayoutInv, DividedInv, VectorExact
<1> QED
  BY <1>1, NextBlobVector, HeaderVector, BitmapVector, ChecksumVector
  DEF Decode, FromBlob

LEMMA StoredVectors ==
  ASSUME table \in DOMAIN Tables, version \in DOMAIN Tables[table]
  PROVE  SectionOf(stored.blob, stored.deleted) /\ FileOf(stored.puffin, stored.all_deleted)
  BY StoredAssumption DEF StoredAssumption, stored

LEMMA VectorStep == ScanInv /\ VectorInv /\ [Next]_vars => VectorInv'
<1> SUFFICES ASSUME ScanInv, VectorInv, [Next]_vars PROVE VectorInv'
  OBVIOUS
<1>1. ReaderInv /\ SectionOf(stored.blob, stored.deleted)
      /\ FileOf(stored.puffin, stored.all_deleted)
  BY StoredVectors DEF ScanInv, ScanTypeOK
<1>2. CASE UNCHANGED <<marked, dvVars>>
  <2>1. UNCHANGED <<file, pending, window, pos, left, bitmaps, positions, dv, marked>>
    BY <1>2 DEF dvVars
  <2>2. LayoutInv'
    <3>1. PICK body : body = Body(file, window) /\ body = Body(file', window')
      BY <2>1
    <3>2. ASSUME NEW start, ReadSoFar(body, start) PROVE ReadSoFar(body, start)'
      BY <2>1, <3>2 DEF ReadSoFar
    <3>3. dv = "bitmaps" => LayoutInv'
      BY <2>1, <3>1, <3>2 DEF VectorInv, LayoutInv
    <3> QED BY <2>1, <3>3 DEF LayoutInv
  <2>3. DividedInv'
    <3>1. CASE dv \in {"next", "header", "bitmaps"}
      <4>1. PICK current, part : Divided(current, part)
        BY <3>1 DEF VectorInv, DividedInv
      <4>2. Vectors' = Vectors
        BY <2>1 DEF Vectors, IsDeletionVector
      <4>3. Divided(current, part)'
        BY <2>1, <4>1, <4>2 DEF Divided
      <4> QED BY <4>3 DEF DividedInv
    <3>2. CASE dv \notin {"next", "header", "bitmaps"}
      BY <2>1, <3>2 DEF DividedInv
    <3> QED BY <3>1, <3>2
  <2> QED BY <2>1, <2>2, <2>3 DEF VectorInv, VectorExact
<1>3. CASE InitGlobal
  <2>1. \/ ReadSection(stored.blob) /\ marked' = stored.deleted
        \/ Reset
    BY <1>3 DEF InitGlobal
  <2>2. Reset => VectorInv'
    BY DEF Reset, VectorInv, LayoutInv, DividedInv, VectorExact
  <2> QED BY <1>1, <2>1, <2>2, SectionVector
<1>4. CASE Read
  BY <1>1, <1>4, DecodeVector DEF Read, scanVars
<1>5. CASE ReadDVInit
  <2>1. \/ marked' = stored.all_deleted /\ ParseFooter(stored.puffin)
        \/ marked' = stored.deleted /\ ReadSection(stored.blob)
    BY <1>5 DEF ReadDVInit
  <2> QED BY <1>1, <2>1, SectionVector, FooterVector
<1>6. CASE ReadDVBindFails
  BY <1>6, ThrowVector DEF ReadDVBindFails
<1> QED
  BY <1>2, <1>3, <1>4, <1>5, <1>6
  DEF Next, Optimize, PushdownFilter, Bound, FilterFails, FilterBuilt, Scan,
      ExecuteAgain, TableChanges, ReadDVEnds, vars, scanVars

\* Whatever is stored, a vector that the reader decodes is the one that was
\* written: through the wrapping of vector_size, the bounds of every bitmap, the
\* keys and the blobs of a file, it makes that set of it or throws.
THEOREM VectorsAreExact == Spec => []VectorExact
<1>1. Init => VectorInv
  BY DEF Init, Idle, VectorInv, LayoutInv, DividedInv, VectorExact
<1>2. VectorInv => VectorExact
  BY DEF VectorInv
<1>3. QED
  BY <1>1, <1>2, ScanInit, ScanStep, VectorStep, PTL DEF Spec

-----------------------------------------------------------------------------
(* What is written is read.                                                *)

\* Of a blob that is whole, vector_size is what is left of its body.
SizeInv ==
  dv = "bitmaps" /\ IsWhole(file, window) =>
    \A start : IsLayout(Body(file, window), start)
      => vector_size = Len(Body(file, window))
                         - start[Count(Body(file, window)) - left + 1]

\* Only a reader that has no blob yet throws before it decodes one.
WholeInv ==
  /\ pc = "optimize" => window.length = 0
  /\ WholeIsRead
  /\ SizeInv

LEMMA HeaderWhole ==
  ASSUME ReaderInv, ReadHeader
  PROVE  WholeIsRead' /\ SizeInv'
<1>1. SUFFICES ASSUME IsWhole(file, window) PROVE WholeIsRead' /\ SizeInv'
  <2>1. UNCHANGED <<file, window>>
    BY DEF ReadHeader, Throw
  <2> QED BY <2>1 DEF WholeIsRead, SizeInv
<1> DEFINE body == Body(file, window)
<1>2. dv = "header" /\ UNCHANGED <<file, window>>
  BY DEF ReadHeader, Throw
<1>3. /\ window.length \in Nat /\ window.length >= 5 /\ window.length >= MinBlobSize
      /\ Len(body) = window.length - 2
  <2>1. window.length \in Nat /\ window.length >= 5
    BY <1>1, <1>2 DEF IsWhole, ReaderInv, WindowInFile, InFile, MinBlobSize
  <2> QED BY <1>2, <2>1, BodyCells DEF MinBlobSize
<1>4. PICK start : IsLayout(body, start)
  BY <1>1 DEF IsWhole
<1>5. At(1).word = Len(body) /\ At(1).word \in 0 .. Word - 1
  BY <1>1, <1>2, <1>3, AtBlob DEF IsWhole, At
<1>6. body[1] = At(2) /\ Count(body) = BitmapCount /\ BitmapCount \in Int
  BY <1>2, <1>3, HeaderCells
<1> HIDE DEF body
<1>7. At(2).word = DvMagic /\ BitmapCount >= 0
  BY <1>4, <1>6 DEF IsLayout
<1>8. /\ dv' = "bitmaps" /\ left' = Count(body)
      /\ vector_size' = (At(1).word - 3) % Word
  <2>1. ~(window.length < MinBlobSize \/ At(2).word # DvMagic \/ BitmapCount < 0)
    BY <1>3, <1>6, <1>7 DEF MinBlobSize
  <2> QED BY <1>6, <2>1 DEF ReadHeader
<1>9. vector_size' = Len(body) - 3
  <2>1. Word \in Nat \ {0}
    BY DeletionVectorAssumption DEF DeletionVectorAssumption
  <2>2. At(1).word - 3 \in 0 .. Word - 1
    BY <1>3, <1>5, <2>1
  <2> QED BY <1>5, <1>8, <2>1, <2>2
<1>10. \A s : IsLayout(body, s) => s[Count(body) - left' + 1] = 3
  BY <1>6, <1>8 DEF IsLayout
<1>11. body = Body(file', window')
  BY <1>2 DEF body
<1> QED
  BY <1>8, <1>9, <1>10, <1>11 DEF WholeIsRead, SizeInv

\* The bounds of a bitmap, of the blob and of what vector_size leaves, hold it.
LEMMA BitmapFits ==
  ASSUME ReaderInv, LayoutInv, SizeInv, dv = "bitmaps", left > 0,
         IsWhole(file, window),
         NEW start, IsLayout(Body(file, window), start)
  PROVE  LET k         == Count(Body(file, window)) - left
             max_bytes == Min2((vector_size - 1) % Word, window.length - (pos + 1))
             size      == DeserializeSize(pos + 1, max_bytes)
         IN  /\ pos < window.length /\ size \in Nat \ {0}
             /\ (vector_size - 1 - size) % Word
                  = Len(Body(file, window)) - start[k + 2]
<1> DEFINE body == Body(file, window)
           n == Count(body)
           k == n - left
           z == At(start[k + 1] + 3).size
<1>1. /\ n \in Nat /\ k \in 0 .. n /\ pos = start[k + 1] + 1
      /\ vector_size = Len(body) - start[k + 1]
  <2>1. ReadSoFar(body, start)
    BY DEF LayoutInv
  <2>2. vector_size = Len(body) - start[k + 1]
    BY DEF SizeInv
  <2> QED BY <2>1, <2>2 DEF ReadSoFar
<1>2. left \in Nat /\ vector_size \in 0 .. Word - 1 /\ Word \in Nat \ {0}
  BY DeletionVectorAssumption DEF DeletionVectorAssumption, ReaderInv, ReaderTypeOK
<1>3. k + 1 \in 1 .. n /\ k \in Nat
  BY <1>1, <1>2
<1>4. /\ window.length \in Nat /\ window.length >= MinBlobSize
      /\ Len(body) = window.length - 2
  BY BodyCells DEF LayoutInv
<1>5. /\ start[k + 1] \in Nat /\ start[k + 1] + 2 < window.length
      /\ body[start[k + 1] + 2] = At(start[k + 1] + 3)
      /\ start[k + 1 + 1] = start[k + 1] + 1 + z
  BY <1>1, <1>3, <1>4, LayoutCells
<1>6. /\ z > 0 /\ start[k + 2] \in 3 .. Len(body)
  <2>1. body[start[k + 1] + 2].size > 0
    BY <1>3 DEF IsLayout
  <2>2. start \in [1 .. n + 1 -> 3 .. Len(body)] /\ k + 2 \in 1 .. n + 1
    BY <1>1, <1>3 DEF IsLayout
  <2> QED BY <1>5, <2>1, <2>2
<1>7. z \in Nat
  <2>1. start[k + 1] + 3 \in Nat \ {0} /\ start[k + 1] + 3 <= window.length
    BY <1>4, <1>5
  <2> QED BY <2>1, AtBlob
<1>8. k + 1 + 1 = k + 2
  BY <1>3
<1> DEFINE from == start[k + 1]
           to == start[k + 2]
           max_bytes == Min2((vector_size - 1) % Word, window.length - (pos + 1))
           size == DeserializeSize(pos + 1, max_bytes)
<1>9. /\ from \in Nat /\ from + 2 < window.length /\ to = from + 1 + z
      /\ to \in 3 .. Len(body) /\ pos = from + 1 /\ vector_size = Len(body) - from
  BY <1>1, <1>5, <1>6, <1>8
<1>10. pos + 2 = from + 3
  BY <1>9
<1>11. At(pos + 2).size = z
  BY <1>10
<1> HIDE DEF body, k, n, z, from, to
<1>12. max_bytes = vector_size - 1
  <2>1. vector_size - 1 \in 0 .. Word - 1
    BY <1>2, <1>4, <1>6, <1>7, <1>9
  <2>2. (vector_size - 1) % Word = vector_size - 1
    BY <1>2, <2>1
  <2>3. vector_size - 1 <= window.length - (pos + 1)
    BY <1>4, <1>9
  <2> QED BY <2>2, <2>3 DEF Min2
<1>13. pos + 1 < window.length /\ pos + 1 + 1 = pos + 2 /\ pos < window.length
  BY <1>4, <1>9
<1>14. z <= vector_size - 1
  BY <1>4, <1>7, <1>9
<1>15. size = z
  BY <1>11, <1>12, <1>13, <1>14 DEF DeserializeSize
<1>16. (vector_size - 1 - size) % Word = Len(body) - to
  <2>1. Len(body) \in Nat
    BY <1>4, <1>9
  <2>2. vector_size - 1 - z = Len(body) - to
    BY <1>7, <1>9, <2>1
  <2>3. vector_size - 1 - z \in 0 .. Word - 1
    BY <1>2, <1>7, <1>14
  <2>4. (vector_size - 1 - z) % Word = vector_size - 1 - z
    BY <1>2, <2>3
  <2> QED BY <1>15, <2>2, <2>4
<1> QED
  BY <1>6, <1>7, <1>13, <1>15, <1>16 DEF to, k, n, body

LEMMA BitmapWhole ==
  ASSUME ReaderInv, LayoutInv, SizeInv, ReadBitmap
  PROVE  WholeIsRead' /\ SizeInv'
<1>1. SUFFICES ASSUME IsWhole(file, window) PROVE WholeIsRead' /\ SizeInv'
  <2>1. UNCHANGED <<file, window>>
    BY DEF ReadBitmap, Throw
  <2> QED BY <2>1 DEF WholeIsRead, SizeInv
<1> DEFINE max_bytes == Min2((vector_size - 1) % Word, window.length - (pos + 1))
           size == DeserializeSize(pos + 1, max_bytes)
<1>2. dv = "bitmaps" /\ left > 0 /\ left \in Nat /\ UNCHANGED <<file, window>>
  BY DEF ReadBitmap, Throw, ReaderInv, ReaderTypeOK
<1>3. PICK body : body = Body(file, window) /\ body = Body(file', window')
  BY <1>2
<1>4. PICK start : IsLayout(body, start)
  BY <1>1, <1>3 DEF IsWhole
<1>5. \A s : IsLayout(body, s) =>
        /\ window.length > pos /\ size \in Nat \ {0}
        /\ (vector_size - 1 - size) % Word = Len(body) - s[Count(body) - left + 2]
  BY <1>1, <1>2, <1>3, BitmapFits
<1>6. dv' = "bitmaps" /\ left' = left - 1 /\ vector_size' = (vector_size - 1 - size) % Word
  <2>1. ~(pos >= window.length) /\ size # 0
    BY <1>2, <1>4, <1>5 DEF ReaderInv, ReaderTypeOK, WindowInFile, InFile
  <2> HIDE DEF size, max_bytes
  <2>2. /\ dv' = dv /\ left' = left - 1
        /\ vector_size' = (vector_size - 1 - size) % Word
    BY <2>1 DEF ReadBitmap, size, max_bytes
  <2> QED BY <1>2, <2>2
<1>7. Count(body) \in Nat
  BY <1>2, <1>3, <1>4 DEF LayoutInv, ReadSoFar
<1>8. Count(body) - left' + 1 = Count(body) - left + 2
  BY <1>2, <1>6, <1>7
<1> HIDE DEF size
<1> QED
  BY <1>3, <1>5, <1>6, <1>8 DEF WholeIsRead, SizeInv

LEMMA ChecksumWhole ==
  ASSUME ReaderInv, LayoutInv, ReadChecksum
  PROVE  WholeIsRead' /\ SizeInv'
<1>1. SUFFICES ASSUME IsWhole(file, window) PROVE WholeIsRead' /\ SizeInv'
  <2>1. UNCHANGED <<file, window>>
    BY DEF ReadChecksum, Throw
  <2> QED BY <2>1 DEF WholeIsRead, SizeInv
<1> DEFINE body == Body(file, window)
<1>2. dv = "bitmaps" /\ left = 0
  BY DEF ReadChecksum
<1>3. PICK start : IsLayout(body, start) /\ ~ \E p \in Denoted(body, start) : p < 0
  BY <1>1 DEF IsWhole
<1>4. /\ window.length \in Nat /\ window.offset \in Nat /\ pos \in Nat
      /\ Len(body) = window.length - 2
  BY <1>2, BodyCells DEF LayoutInv, ReaderInv, ReaderTypeOK, WindowInFile, InFile
<1>5. ~ \E p \in ToSet : p < 0
  BY <1>2, <1>3, BitmapsDenote
<1>6. pos + 1 = window.length
  <2>1. ReadSoFar(body, start)
    BY <1>2, <1>3 DEF LayoutInv
  <2>2. pos = start[Count(body) + 1] + 1
    BY <1>2, <2>1 DEF ReadSoFar
  <2>3. start[Count(body) + 1] = Len(body)
    BY <1>3 DEF IsLayout
  <2> HIDE DEF body
  <2> QED BY <1>4, <2>2, <2>3
<1>7. At(pos + 1).sum = SubSeq(file, window.offset + 2, window.offset + pos)
  <2>1. window.offset + window.length - 1 = window.offset + pos
    BY <1>4, <1>6
  <2>2. file[window.offset + window.length].sum = body
    BY <1>1 DEF IsWhole
  <2> QED BY <1>6, <2>1, <2>2 DEF At, Body
<1>8. dv' = "next"
  BY <1>5, <1>6, <1>7 DEF ReadChecksum
<1> QED
  BY <1>8 DEF WholeIsRead, SizeInv

LEMMA WholeStep == ScanInv /\ VectorInv /\ WholeInv /\ [Next]_vars => WholeInv'
<1> SUFFICES ASSUME ScanInv, VectorInv, WholeInv, [Next]_vars PROVE WholeInv'
  OBVIOUS
<1>1. CASE Read
  <2>1. ReaderInv /\ LayoutInv /\ SizeInv
    BY DEF ScanInv, VectorInv, WholeInv
  <2>2. pc' # "optimize"
    BY <1>1 DEF Read, scanVars
  <2>3. NextBlob \/ NoMoreBlobs => WholeIsRead' /\ SizeInv'
    BY DEF NextBlob, NoMoreBlobs, WholeIsRead, SizeInv
  <2>4. WholeIsRead' /\ SizeInv'
    BY <1>1, <2>1, <2>3, HeaderWhole, BitmapWhole, ChecksumWhole
    DEF Read, Decode, FromBlob
  <2> QED BY <2>2, <2>4 DEF WholeInv
<1>2. CASE InitGlobal
  <2>1. pc' # "optimize" /\ dv' \in {"next", "idle"}
    BY <1>2 DEF InitGlobal, ReadSection, StartWith, Reset
  <2> QED BY <2>1 DEF WholeInv, WholeIsRead, SizeInv
<1>3. CASE ReadDVInit \/ ReadDVBindFails
  <2>1. /\ pc' # "optimize" /\ window.length = 0
        /\ \/ dv' = "next"
           \/ dv' = "error" /\ UNCHANGED <<file, window>>
    BY <1>3
    DEF WholeInv, ReadDVInit, ReadDVBindFails, ParseFooter, ReadSection, StartWith, Throw
  <2>2. ~IsWhole(file, window)
    BY <2>1 DEF IsWhole, MinBlobSize
  <2> QED BY <2>1, <2>2 DEF WholeInv, WholeIsRead, SizeInv
<1>4. CASE UNCHANGED dvVars /\ (pc' = "optimize" => pc = "optimize")
  <2>1. UNCHANGED <<file, window, left, vector_size, dv>>
    BY <1>4 DEF dvVars
  <2>2. PICK body : body = Body(file, window) /\ body = Body(file', window')
    BY <2>1
  <2>3. SizeInv'
    BY <2>1, <2>2 DEF WholeInv, SizeInv
  <2> QED BY <1>4, <2>1, <2>3 DEF WholeInv, WholeIsRead
<1> QED
  BY <1>1, <1>2, <1>3, <1>4
  DEF Next, Optimize, PushdownFilter, Bound, FilterFails, FilterBuilt, Scan,
      ExecuteAgain, TableChanges, ReadDVEnds, vars, scanVars

\* The reader refuses no blob that is whole, for all the sizes and counts in it:
\* what vector_size leaves is what the next bitmap needs.
THEOREM WholeVectorsAreRead == Spec => []WholeIsRead
<1>1. Init => VectorInv
  BY DEF Init, Idle, VectorInv, LayoutInv, DividedInv, VectorExact
<1>2. Init => WholeInv
  BY DEF Init, Idle, WholeInv, WholeIsRead, SizeInv
<1>3. WholeInv => WholeIsRead
  BY DEF WholeInv
<1>4. QED
  BY <1>1, <1>2, <1>3, ScanInit, ScanStep, VectorStep, WholeStep, PTL DEF Spec

-----------------------------------------------------------------------------
(* The query.                                                              *)

LEMMA NoPredicates == SerializeFiltersToIRC(<<>>) = {}
  BY DEF SerializeFiltersToIRC

\* What the optimizer's calls leave in the bind data.
PushedInv ==
  /\ calls = 0 => filter_json = {}
  /\ calls > 0 /\ ~SerializeThrows(filters)
       => filter_json = SerializeFiltersToIRC(filters)

\* No call without predicates comes between a translation and its use, or undoes
\* it: what the first call translated is what every execution sends.
THEOREM TranslationIsKept == Spec => []PruningKept
<1>1. Init => PushedInv
  BY DEF Init, PushedInv
<1>2. ScanInv /\ PushedInv /\ [Next]_vars => PushedInv'
  <2> SUFFICES ASSUME ScanInv, PushedInv, [Next]_vars PROVE PushedInv'
    OBVIOUS
  <2>1. calls \in 0 .. 2
    BY DEF ScanInv, ScanTypeOK
  <2>2. CASE Optimize
    <3>1. filters' = filters /\ calls' = calls + 1
      BY <2>2 DEF Optimize, PushdownFilter
    <3>2. CASE calls = 0 /\ filters # <<>>
      BY <2>2, <3>1, <3>2
      DEF Optimize, PushdownFilter, PushedInv, SerializeThrows,
          SerializeFiltersToIRC
    <3>3. CASE ~(calls = 0 /\ filters # <<>>)
      <4>1. filter_json' = filter_json
        BY <2>2, <3>3 DEF Optimize, PushdownFilter
      <4>2. calls = 0 => filter_json = SerializeFiltersToIRC(filters)
        BY <3>3, NoPredicates DEF PushedInv
      <4>3. ~SerializeThrows(filters) => filter_json = SerializeFiltersToIRC(filters)
        BY <2>1, <4>2 DEF PushedInv
      <4>4. QED
        BY <2>1, <3>1, <4>1, <4>3
        DEF PushedInv, SerializeThrows, SerializeFiltersToIRC
    <3>4. QED BY <3>2, <3>3
  <2>3. CASE UNCHANGED <<filters, calls, filter_json>>
    BY <2>3 DEF PushedInv, SerializeThrows, SerializeFiltersToIRC
  <2>4. QED
    BY <2>2, <2>3
    DEF Next, Bound, InitGlobal, Read, FilterFails, FilterBuilt, Scan,
        ExecuteAgain, TableChanges, ReadDVInit, ReadDVBindFails, ReadDVEnds,
        vars, scanVars
<1>3. PushedInv => PruningKept
  BY DEF PushedInv, PruningKept
<1>4. QED
  BY <1>1, <1>2, <1>3, ScanInit, ScanStep, PTL DEF Spec

\* What is sent are translations of the query's predicates.
SentInv ==
  \A f \in filter_json :
    f \in Translations /\ \E i \in DOMAIN filters : f = ExprToIRCJson[filters[i]]

LEMMA SentTranslations ==
  ASSUME filters \in Seq(Expressions), ~SerializeThrows(filters),
         NEW f \in SerializeFiltersToIRC(filters)
  PROVE  f \in Translations /\ \E i \in DOMAIN filters : f = ExprToIRCJson[filters[i]]
<1>1. PICK i \in DOMAIN filters : f = ExprToIRCJson[filters[i]]
  BY DEF SerializeFiltersToIRC
<1>2. filters[i] \in Expressions /\ f \notin {Omitted, Throws}
  BY <1>1 DEF SerializeFiltersToIRC, SerializeThrows
<1> QED
  BY <1>1, <1>2 DEF Translations

\* Predicates are finite.  A row that DuckDB's own filter lets through matches
\* what is sent of the filter: whatever the translation flips, drops or cannot
\* express, and with NULLs, it never asks for more than the query does.
THEOREM PushedFilterIsImplied ==
  ASSUME NEW CONSTANT depth, IsDepth(depth)
  PROVE  Spec => []FilterImplied
<1>1. Init => SentInv
  BY DEF Init, SentInv
<1>2. ScanInv /\ SentInv /\ [Next]_vars => SentInv'
  <2> SUFFICES ASSUME ScanInv, SentInv, [Next]_vars PROVE SentInv'
    OBVIOUS
  <2>1. CASE Optimize
    <3>1. filters' = filters /\ filters \in Seq(Expressions)
      BY <2>1 DEF Optimize, PushdownFilter, ScanInv, ScanTypeOK
    <3>2. \/ filter_json' = filter_json
          \/ filter_json' = {}
          \/ /\ ~SerializeThrows(filters)
             /\ filter_json' = SerializeFiltersToIRC(filters)
      BY <2>1 DEF Optimize, PushdownFilter
    <3>3. QED
      BY <3>1, <3>2, SentTranslations DEF SentInv
  <2>2. CASE UNCHANGED <<filters, filter_json>>
    BY <2>2 DEF SentInv
  <2>3. QED
    BY <2>1, <2>2
    DEF Next, Bound, InitGlobal, Read, FilterFails, FilterBuilt, Scan,
        ExecuteAgain, TableChanges, ReadDVInit, ReadDVBindFails, ReadDVEnds,
        vars, scanVars
<1>3. ScanInv /\ SentInv => FilterImplied
  <2> SUFFICES ASSUME ScanInv, SentInv, NEW r \in RowValues, Accepts(filters, r),
                      NEW f \in filter_json
               PROVE  Matches[f][r]
    BY DEF FilterImplied, MatchesFilter
  <2>1. PICK i \in DOMAIN filters : f = ExprToIRCJson[filters[i]]
    BY DEF SentInv
  <2>2. filters[i] \in Expressions /\ f \in Translations
    BY DEF ScanInv, ScanTypeOK, SentInv
  <2>3. Evaluate[filters[i]][r] = "true"
    BY DEF Accepts
  <2>4. QED
    BY <2>1, <2>2, <2>3, TranslationImplied
<1>4. QED
  BY <1>1, <1>2, <1>3, ScanInit, ScanStep, PTL DEF Spec

\* From the plan of an execution to its rows: what was needed was planned, and
\* once the filter is built it is that of the version which was planned.
AnswerInv ==
  /\ pc \in {"filter", "scan"} =>
       /\ live = {r \in Rows : ~(r[1] = Marked /\ r[2] \in marked)}
       /\ \A r \in live : Accepts(filters, Data[r]) => r[1] \in planned
  /\ pc = "scan" /\ Marked \in planned => positions = marked
  /\ QueryAnswers

LEMMA AnswerStep ==
  ASSUME ScanInv, FilterImplied, VectorExact, AnswerInv, [Next]_vars
  PROVE  AnswerInv'
<1>1. CASE InitGlobal
  <2>1. /\ live' = LiveRows /\ marked' = stored.deleted /\ pc = "bound"
        /\ planned' \in SUBSET Files /\ Needed \subseteq planned'
        /\ UNCHANGED <<filters, filter_json>>
        /\ \/ pc' = "filter"
           \/ /\ pc' = "scan" /\ Reset
              /\ ~(Marked \in planned' /\ stored.blob # <<>>)
    BY <1>1 DEF InitGlobal
  <2>2. live' = {r \in Rows : ~(r[1] = Marked /\ r[2] \in marked')}
    BY <2>1 DEF LiveRows
  <2>3. ASSUME NEW r \in live', Accepts(filters, Data[r])
        PROVE  r[1] \in planned'
    <3>1. r \in LiveRows /\ r \in Rows
      BY <2>1, <2>3 DEF LiveRows
    <3>2. Data[r] \in RowValues
      BY <3>1, PlannedScanAssumption DEF PlannedScanAssumption
    <3>3. MatchesFilter(filter_json, Data[r])
      BY <2>1, <2>3, <3>2 DEF FilterImplied
    <3>4. QED BY <2>1, <3>1, <3>3 DEF Needed
  <2>4. pc' = "scan" /\ Marked \in planned' => positions' = marked'
    <3>1. stored.blob = <<>> => stored.deleted = {}
      BY PlannedScanAssumption
      DEF PlannedScanAssumption, ScanInv, ScanTypeOK, stored
    <3>2. QED BY <2>1, <3>1 DEF Reset
  <2>5. pc' # "answered"
    BY <2>1
  <2>6. filters' = filters
    BY <2>1
  <2>7. \A r \in live' : Accepts(filters', Data[r]) => r[1] \in planned'
    BY <2>3, <2>6
  <2>8. QED
    BY <2>2, <2>4, <2>5, <2>7 DEF AnswerInv, QueryAnswers, Accepts
<1>2. CASE FilterBuilt
  BY <1>2
  DEF FilterBuilt, dvVars, VectorExact, AnswerInv, QueryAnswers, Accepts
<1>3. CASE Scan
  <2>1. /\ pc = "scan" /\ pc' = "answered"
        /\ UNCHANGED <<filters, planned, live, marked, positions>>
        /\ output' = {r \in planned \X Positions :
                        /\ ~(r[1] = Marked /\ r[2] \in positions)
                        /\ Accepts(filters, Data[r])}
    BY <1>3 DEF Scan, dvVars
  <2>2. /\ live = {r \in Rows : ~(r[1] = Marked /\ r[2] \in marked)}
        /\ \A r \in live : Accepts(filters, Data[r]) => r[1] \in planned
        /\ Marked \in planned => positions = marked
    BY <2>1 DEF AnswerInv
  <2>3. planned \subseteq Files
    BY DEF ScanInv, ScanTypeOK
  <2>4. \A r \in planned \X Positions : r \in Rows /\ r[1] \in planned
    BY <2>3 DEF Rows
  <2>5. \A r \in live : r[1] \in planned => r \in planned \X Positions
    BY <2>2 DEF Rows
  <2>6. \A r : r \in output' <=> r \in {x \in live : Accepts(filters, Data[x])}
    BY <2>1, <2>2, <2>4, <2>5
  <2>7. output' = {r \in live : Accepts(filters, Data[r])}
    BY <2>6
  <2>8. QED
    BY <2>1, <2>7 DEF AnswerInv, QueryAnswers, Accepts
<1>4. CASE Read
  BY <1>4 DEF Read, scanVars, AnswerInv, QueryAnswers, Accepts
<1>5. CASE TableChanges \/ UNCHANGED vars
  BY <1>5
  DEF TableChanges, vars, scanVars, dvVars, AnswerInv, QueryAnswers, Accepts
<1>6. CASE Optimize
  BY <1>6 DEF Optimize, PushdownFilter, AnswerInv, QueryAnswers
<1>7. CASE Bound \/ FilterFails \/ ExecuteAgain \/ ReadDVInit
           \/ ReadDVBindFails \/ ReadDVEnds
  BY <1>7
  DEF Bound, FilterFails, ExecuteAgain, ReadDVInit, ReadDVBindFails,
      ReadDVEnds, AnswerInv, QueryAnswers
<1>8. QED
  BY <1>1, <1>2, <1>3, <1>4, <1>5, <1>6, <1>7 DEF Next

\* If the translated filter is implied by the predicates, and a vector that
\* decodes is the one that was written, then a query returns its rows, whatever
\* else the server plans, and however often and on whatever versions it runs.
LEMMA AnswersRestOnTwo ==
  Spec /\ []FilterImplied /\ []VectorExact => []QueryAnswers
<1>1. Init => AnswerInv
  BY DEF Init, AnswerInv, QueryAnswers
<1>2. ScanInv /\ FilterImplied /\ VectorExact /\ AnswerInv /\ [Next]_vars
        => AnswerInv'
  BY AnswerStep
<1>3. AnswerInv => QueryAnswers
  BY DEF AnswerInv
<1>4. QED
  BY <1>1, <1>2, <1>3, ScanInit, ScanStep, PTL DEF Spec

\* A query returns the rows that its predicates accept, of the table as planned
\* and without those that are deleted, whatever else the server plans, and
\* however often and on whatever versions it runs.
THEOREM QueriesAnswer ==
  ASSUME NEW CONSTANT depth, IsDepth(depth)
  PROVE  Spec => []QueryAnswers
<1>1. Spec => []FilterImplied
  BY PushedFilterIsImplied
<1>2. QED
  BY <1>1, VectorsAreExact, AnswersRestOnTwo, PTL
==============================================================================
