--------------------------- MODULE FilterExpression ---------------------------
(***************************************************************************)
(* What a query's predicates become on their way to the planning server:   *)
(* SerializeFiltersToIRC of src/src/uc_irc_expression.cpp, and what the    *)
(* two sides make of a predicate.  DuckDB evaluates in three-valued logic, *)
(* and the server plans no file without a row that matches what it was     *)
(* sent: what a translation narrows, nobody gives back.                    *)
(*                                                                         *)
(* The server is the strictest that Iceberg allows: a comparison with NULL *)
(* matches nothing.  A floating-point column holds no NaN, which DuckDB    *)
(* sorts above every number and an Iceberg server may leave out of its     *)
(* statistics.                                                             *)
(***************************************************************************)
EXTENDS Integers, Sequences

CONSTANTS
  Columns,     \* columns of the table
  Anonymous,   \* those whose reference has an empty name
  Values,      \* values of a column, in the order of their type
  Null,        \* and SQL's NULL
  Expressions  \* the predicates considered, closed under their parts

RowValues == [Columns -> Values \cup {Null}]

\* A predicate has a class, and what belongs to it:
\*   "comparison"   type, column, constant, and flipped when the constant is on
\*                  the left
\*   "conjunction"  type "and" or "or", children
\*   "null_test"    type "is-null" or "not-null", column
\*   "other"        anything the translation has no case for; here the negation
\*                  of the predicate "of"
Parts(e) ==
  CASE e.class = "conjunction" -> {e.children[i] : i \in DOMAIN e.children}
    [] e.class = "other" -> {e.of}
    [] OTHER -> {}

\* Kinds of constants.  A "null" is of any type but VARCHAR; an "infinite" one
\* is a number above all others; "other" is of a type without a JSON form here.
ConstantKinds == {"exact", "infinite", "other", "null", "null_string"}

\* Comparisons that Iceberg has a name for.  Those DuckDB has besides are IS
\* [NOT] DISTINCT FROM.
Comparisons == {"eq", "not-eq", "lt", "gt", "lt-eq", "gt-eq"}

\* A predicate as the binder leaves it.
IsExpression(e) ==
  CASE e.class = "comparison" ->
         /\ e.type \in Comparisons \cup {"distinct"}
         /\ e.flipped \in BOOLEAN /\ e.column \in Columns
         /\ e.constant.kind \in ConstantKinds /\ e.constant.value \in Int
    [] e.class = "conjunction" ->
         /\ e.type \in {"and", "or"}
         /\ Len(e.children) \in Nat /\ DOMAIN e.children = 1 .. Len(e.children)
    [] e.class = "null_test" ->
         e.type \in {"is-null", "not-null"} /\ e.column \in Columns
    [] OTHER -> e.class = "other"

ASSUME ExpressionAssumption ==
  /\ Anonymous \subseteq Columns
  /\ Values \subseteq Int /\ Null \notin Values
  /\ \A e \in Expressions : IsExpression(e) /\ Parts(e) \subseteq Expressions

\* How deep each predicate is: it is finite.
IsDepth(depth) ==
  /\ \A e \in Expressions : depth[e] \in Nat
  /\ \A e \in Expressions : \A c \in Parts(e) : depth[c] < depth[e]

-----------------------------------------------------------------------------
(* DuckDB.                                                                 *)

FlipComparison(type) ==
  CASE type = "lt" -> "gt" [] type = "gt" -> "lt"
    [] type = "lt-eq" -> "gt-eq" [] type = "gt-eq" -> "lt-eq"
    [] OTHER -> type

Compare(type, a, b) ==
  CASE type = "eq" -> a = b
    [] type = "not-eq" -> a # b
    [] type = "lt" -> a < b
    [] type = "gt" -> a > b
    [] type = "lt-eq" -> a <= b
    [] type = "gt-eq" -> a >= b

Truth(condition) == IF condition THEN "true" ELSE "false"

IsNull(constant) == constant.kind \in {"null", "null_string"}

\* column and constant compared the way round they are written
ComparisonTruth(e, v) ==
  LET null == v = Null \/ IsNull(e.constant)
  IN  CASE e.type = "distinct" ->
             Truth(IF null THEN (v = Null) # IsNull(e.constant)
                           ELSE v # e.constant.value)
        [] e.type # "distinct" /\ null -> "unknown"
        [] e.type # "distinct" /\ ~null ->
             Truth(IF e.flipped THEN Compare(e.type, e.constant.value, v)
                                ELSE Compare(e.type, v, e.constant.value))

\* The truth value of a conjunction, from those of its children: the one that
\* decides it if a child has it, else "unknown" if a child is.
Joined(truths, decides, default) ==
  IF decides \in truths THEN decides
    ELSE IF "unknown" \in truths THEN "unknown" ELSE default

TruthValues == {"true", "false", "unknown"}

Evaluate[e \in Expressions] ==
  [r \in RowValues |->
    CASE e.class = "comparison" -> ComparisonTruth(e, r[e.column])
      [] e.class = "null_test" ->
           Truth((r[e.column] = Null) = (e.type = "is-null"))
      [] e.class = "conjunction" ->
           LET truths == {Evaluate[c][r] : c \in Parts(e)}
           IN  IF e.type = "and" THEN Joined(truths, "false", "true")
                                 ELSE Joined(truths, "true", "false")
      [] OTHER ->
           LET t == Evaluate[e.of][r]
           IN  CASE t = "true" -> "false" [] t = "false" -> "true"
                 [] OTHER -> t]

\* A row that DuckDB's own filter lets through.
Accepts(filters, r) ==
  \A i \in DOMAIN filters : Evaluate[filters[i]][r] = "true"

-----------------------------------------------------------------------------
(* The translation.  Omitted is the empty string, Throws an exception.     *)

Omitted == [type |-> "omitted"]
Throws  == [type |-> "throws"]

\* Mutant: to_string(), which has a fixed number of decimals.
ValueToIRCJsonFixed(constant) ==
  CASE constant.kind = "null" -> Throws
    [] constant.kind \in {"infinite", "other"} -> Omitted
    [] OTHER -> [type |-> "literal", value |-> 2 * ((constant.value + 1) \div 2)]

\* The text of a NULL string is a string like any other.
ValueToIRCJson(constant) ==
  CASE constant.kind = "null" -> Throws
    [] constant.kind \in {"infinite", "other"} -> Omitted
    [] OTHER -> [type |-> "literal", value |-> constant.value]

ComparisonToIRCJson(e) ==
  LET type    == IF e.flipped THEN FlipComparison(e.type) ELSE e.type
      literal == ValueToIRCJson(e.constant)
  IN  IF type \notin Comparisons \/ e.column \in Anonymous THEN Omitted
      ELSE IF literal \in {Omitted, Throws} THEN literal
      ELSE [type |-> type, term |-> e.column, value |-> literal.value]

\* The parts at the positions in kept; of one, no conjunction is made.
JoinParts(type, parts, kept) ==
  CASE kept = {} -> Omitted
    [] \E i \in kept : kept = {i} -> parts[CHOOSE i \in kept : TRUE]
    [] OTHER -> [type |-> type, parts |-> [i \in kept |-> parts[i]]]

\* Mutant: a child that cannot be translated is skipped, whatever the type.
ConjunctionSkips(type, parts) ==
  JoinParts(type, parts, {i \in DOMAIN parts : parts[i] \notin {Omitted, Throws}})

\* The children in turn: an exception ends it, and so does a child without a
\* translation under OR; under AND it is skipped.
Conjunction(type, parts) ==
  LET ends == {i \in DOMAIN parts :
                 parts[i] = Throws \/ (type = "or" /\ parts[i] = Omitted)}
  IN  IF ends # {}
        THEN parts[CHOOSE i \in ends : \A j \in ends : i <= j]
        ELSE JoinParts(type, parts, {i \in DOMAIN parts : parts[i] # Omitted})

ExprToIRCJson[e \in Expressions] ==
  CASE e.class = "comparison" -> ComparisonToIRCJson(e)
    [] e.class = "null_test" ->
         IF e.column \in Anonymous THEN Omitted
                                   ELSE [type |-> e.type, term |-> e.column]
    [] e.class = "other" -> Omitted
    [] OTHER ->
         Conjunction(e.type, [i \in DOMAIN e.children |->
                                ExprToIRCJson[e.children[i]]])

\* The parts of the filter that is sent, all of which must match; none: no
\* filter.
SerializeFiltersToIRC(filters) ==
  {ExprToIRCJson[filters[i]] : i \in DOMAIN filters} \ {Omitted}

SerializeThrows(filters) ==
  \E i \in DOMAIN filters : ExprToIRCJson[filters[i]] = Throws

-----------------------------------------------------------------------------
(* The server.                                                             *)

Translations == {ExprToIRCJson[e] : e \in Expressions} \ {Omitted, Throws}

Matches[f \in Translations] ==
  [r \in RowValues |->
    CASE f.type = "and" -> \A i \in DOMAIN f.parts : Matches[f.parts[i]][r]
      [] f.type = "or"  -> \E i \in DOMAIN f.parts : Matches[f.parts[i]][r]
      [] f.type = "is-null"  -> r[f.term] = Null
      [] f.type = "not-null" -> r[f.term] # Null
      [] OTHER -> r[f.term] # Null /\ Compare(f.type, r[f.term], f.value)]

MatchesFilter(filter, r) == \A f \in filter : Matches[f][r]
=============================================================================
