---------------------------- MODULE MCPlannedScan ----------------------------
(***************************************************************************)
(* A small instance of PlannedScan for TLC: many predicates on one table,  *)
(* and a few on tables whose deletion vectors are damaged.                 *)
(***************************************************************************)
EXTENDS PlannedScan

LOCAL Ext == INSTANCE SequencesExt

CONSTANTS f1, f2, nothing

-----------------------------------------------------------------------------
(* Predicates, up to conjunctions of conjunctions.                         *)

Constant(kind, value) == [kind |-> kind, value |-> value]

Comparison(type, flipped, column, constant) ==
  [class |-> "comparison", type |-> type, flipped |-> flipped,
   column |-> column, constant |-> constant]

NullTest(type, column) ==
  [class |-> "null_test", type |-> type, column |-> column]

Join(type, children) ==
  [class |-> "conjunction", type |-> type, children |-> children]

Not(e) == [class |-> "other", of |-> e]

One == Constant("exact", 1)

Leaves ==
  {Comparison(type, flipped, "a", One) :
     type \in Comparisons \cup {"distinct"}, flipped \in BOOLEAN} \cup
  {Comparison("gt", flipped, "a", c) :
     flipped \in BOOLEAN,
     c \in {Constant("infinite", 9), Constant("other", 1), Constant("null", 0),
            Constant("null_string", 1), Constant("exact", 0)}} \cup
  {Comparison("eq", FALSE, "unnamed", One), NullTest("is-null", "a"),
   NullTest("not-null", "a"), NullTest("is-null", "unnamed")}

Less      == Comparison("lt", FALSE, "a", One)
AtLeast   == Comparison("lt-eq", TRUE, "a", One)
Different == Comparison("distinct", FALSE, "a", One)
Raising   == Comparison("gt", FALSE, "a", Constant("null", 0))
Unnamed   == Comparison("eq", FALSE, "unnamed", One)
IsNullA   == NullTest("is-null", "a")
NullText  == Comparison("gt", FALSE, "a", Constant("null_string", 1))

Few == {Less, AtLeast, Different, Raising, Unnamed, IsNullA, NullText, Not(Less)}

Pairs  == {Join(type, <<x, y>>) : type \in {"and", "or"}, x \in Few, y \in Few}
Triple == {Join(type, <<x, y, Less>>) :
             type \in {"and", "or"}, x \in Few, y \in {Different, IsNullA}}
Nested == {Join(type, <<x, y>>) :
             type \in {"and", "or"}, x \in Pairs, y \in {AtLeast, Different}}
          \cup {Not(x) : x \in Pairs}

AllExpressions == Leaves \cup Few \cup Pairs \cup Triple \cup Nested

Depth[e \in AllExpressions] ==
  IF Parts(e) = {} THEN 0 ELSE 1 + Ext!Max({Depth[c] : c \in Parts(e)})

\* The predicates of the run are as finite as any that a query can have.
ASSUME PredicatesAreFinite == IsDepth(Depth)

AllFilters == {<<>>} \cup {<<e>> : e \in AllExpressions} \cup (Few \X Few)

-----------------------------------------------------------------------------
(* What a writer stores for a set of positions.                            *)

BitmapOf(values) ==
  <<[Cell(7) EXCEPT !.size = 2, !.values = values], Cell(0)>>

Segment(key, D) ==
  <<Cell(key)>> \o BitmapOf({p % Bucket : p \in {d \in D : d \div Bucket = key}})

Checksum(body) == [Cell(5) EXCEPT !.sum = body]

Blob(keys, D) ==
  LET body == <<Cell(DvMagic), Cell(Len(keys)), Cell(0)>> \o
              Ext!FlattenSeq([i \in DOMAIN keys |-> Segment(keys[i], D)])
  IN  <<Cell(Len(body))>> \o body \o <<Checksum(body)>>

Written(D) == Blob(Ext!SetToSeq({p \div Bucket : p \in D}), D)

PuffinWith(blobs, metadata, payload_size, flags, magic) ==
  <<Cell(PuffinMagic)>> \o blobs \o
  <<Cell(PuffinMagic), [Cell(3) EXCEPT !.footer = metadata],
    Cell(payload_size), Cell(flags), Cell(magic)>>

Metadata(type, offset, length) ==
  [type |-> type, offset |-> offset, length |-> length]

A == {0, 3}
B == {1}
Vector == "deletion-vector-v1"

\* The vectors of two data files and a blob of another type between them.
TwoVectors == Written(A) \o <<Cell(9)>> \o Written(B)
TwoBlobs ==
  <<Metadata(Vector, 1, Len(Written(A))),
    Metadata("statistics", 99, -1),
    Metadata(Vector, 2 + Len(Written(A)), Len(Written(B)))>>

Puffin == PuffinWith(TwoVectors, {TwoBlobs}, 1, 0, PuffinMagic)

PuffinOf(blobs) == PuffinWith(TwoVectors, blobs, 1, 0, PuffinMagic)

\* A Puffin file with a field of its footer replaced, or cut short.
DamagedPuffin(field, n) ==
  CASE field = "payload_size" ->
         PuffinWith(TwoVectors, {TwoBlobs}, n, 0, PuffinMagic)
    [] field = "flags" -> PuffinWith(TwoVectors, {TwoBlobs}, 1, n, PuffinMagic)
    [] field = "magic" -> PuffinWith(TwoVectors, {TwoBlobs}, 1, 0, n)
    [] field = "payload" -> PuffinOf({})
    [] field = "type" -> PuffinOf({[TwoBlobs EXCEPT ![1].type = "none"]})
    [] field = "offset" -> PuffinOf({[TwoBlobs EXCEPT ![1].offset = n]})
    [] field = "length" -> PuffinOf({[TwoBlobs EXCEPT ![1].length = n]})
    [] field = "tail" -> SubSeq(Puffin, 1, n)
    [] field = "head" -> SubSeq(Puffin, n, Len(Puffin))

\* A blob with a cell replaced, another bitmap in it, a bitmap that claims to be
\* longer, cut short, or followed by more.
DamagedBlob(blob, what, i, n) ==
  CASE what = "word" -> [blob EXCEPT ![i] = Cell(n)]
    [] what = "values" -> [blob EXCEPT ![i].values = {}]
    [] what = "size" -> [blob EXCEPT ![i].size = n]
    [] what = "tail" -> SubSeq(blob, 1, i)
    [] what = "more" -> Append(blob, Cell(0))

-----------------------------------------------------------------------------
Version(D, blob, puffin, all) ==
  [deleted |-> D, blob |-> blob, puffin |-> puffin, all_deleted |-> all]

NoDeletes  == Version({}, <<>>, Written({}), {})
SomeDeletes == Version(A, Written(A), Puffin, A \cup B)
OneDelete  == Version({2}, Written({2}), Written({2}), {2})
\* A key that no writer of positions uses, and a vector without bitmaps
NegativeKey == Version({}, Blob(<<15>>, {30}), Puffin, A \cup B)
EmptyVector == Version({}, Written({}), Written({}), {})

Cells == DOMAIN Written(A)

BlobDamages ==
  ({"word"} \X Cells \X {0, 1, 2, 15, DvMagic}) \cup
  ({"values", "tail"} \X Cells \X {0}) \cup
  ({"size"} \X {6, 9} \X {0, 1, 9}) \cup {<<"more", 0, 0>>}

PuffinDamages ==
  ({"payload_size"} \X {0, 2, 15}) \cup ({"flags"} \X {1, 2}) \cup
  ({"offset"} \X {-1, 0, 2, 9, 20}) \cup ({"length"} \X {-1, 4, 11, 20, 40}) \cup
  ({"tail"} \X {1, 4, Len(Puffin) - 1}) \cup ({"head"} \X {2, Len(Puffin) - 3})
  \cup ({"magic", "payload", "type"} \X {0})

SomeTables ==
  [t \in {<<"good">>, <<"changing">>, <<"negative key">>, <<"empty vector">>}
         \cup BlobDamages \cup PuffinDamages |->
    CASE t = <<"good">> -> <<SomeDeletes>>
      [] t = <<"changing">> -> <<NoDeletes, OneDelete, SomeDeletes>>
      [] t = <<"negative key">> -> <<NegativeKey>>
      [] t = <<"empty vector">> -> <<EmptyVector>>
      [] Len(t) = 2 ->
           <<Version(A, Written(A), DamagedPuffin(t[1], t[2]), A \cup B)>>
      [] Len(t) = 3 ->
           <<Version(A, DamagedBlob(Written(A), t[1], t[2], t[3]),
                     DamagedBlob(Written(A), t[1], t[2], t[3]), A),
             SomeDeletes>>]

SomeCases ==
  (AllFilters \X {<<"good">>}) \cup
  ({<<e>> : e \in Few} \X {<<"changing">>}) \cup
  ({<<>>, <<Less>>} \X DOMAIN SomeTables)

\* f1 has every value once, f2 only small ones.
SomeData ==
  [r \in Rows |->
    [c \in Columns |->
      IF c = "unnamed" THEN r[2] % 2
      ELSE IF r[1] = f2 THEN r[2] % 2
      ELSE IF r[2] = 3 THEN Null ELSE r[2]]]
=============================================================================
