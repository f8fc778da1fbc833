--------------------------- MODULE Traversal_proofs ---------------------------
(* What a client of Traversal receives, for every table, ordering, page    *)
(* size and number of writers and faults.                                  *)
EXTENDS TraversalRefinement, FiniteSetTheorems, SequenceTheorems, WellFoundedInduction, TLAPS

CellSet == Int \cup {Null}
KeySet  == [column : DOMAIN TypeOf, direction : {"asc", "desc"}]
RowSet  == [DOMAIN TypeOf -> CellSet]

(* The orderings a client may ask for are sequences of keys, and the rows  *)
(* of the tables have a cell in every column.                              *)
LEMMA OrderType ==
  ASSUME NEW o \in Orders
  PROVE  /\ o \in Seq(KeySet)
         /\ \A k \in DOMAIN o : k \in Nat /\ o[k] \in KeySet /\ o[k].column \in DOMAIN TypeOf
<1>1. o \in Seq(KeySet)
  BY RequestAssumption DEF KeySet
<1>2. \A k \in DOMAIN o : k \in Nat /\ o[k] \in KeySet
  BY <1>1
<1> QED
  BY <1>1, <1>2 DEF KeySet

(* The rows of the tables have a cell in every column.                     *)
LEMMA RowType ==
  /\ \A id \in RowIds : \A row \in Cells(id) : row \in RowSet
  /\ AllCells \subseteq RowSet
  BY TableAssumption DEF RowSet, CellSet, AllCells

-----------------------------------------------------------------------------
(* The order of the rows.                                                  *)

(* A place that is looked for is the first of the places that fit.         *)
LEMMA FirstIsLeast ==
  ASSUME NEW S \in SUBSET Nat, S # {}
  PROVE  First(S) \in S /\ \A n \in S : First(S) <= n
<1> DEFINE R == OpToRel(<, Nat)
<1>1. IsWellFoundedOn(R, Nat)
  BY NatLessThanWellFounded
<1>2. \A m, n \in Nat : <<n, m>> \in R <=> n < m
  BY DEF OpToRel
<1> HIDE DEF R
<1>3. PICK m \in S : \A n \in S : ~(<<n, m>> \in R)
  BY <1>1, WFMin
<1>4. ASSUME NEW n \in S PROVE m <= n
  <2>1. m \in Nat /\ n \in Nat /\ ~(n < m)
    BY <1>2, <1>3
  <2> QED
    BY <2>1
<1> QED
  BY <1>4 DEF First

(* A key orders the cells of a column totally, NULL at one end.            *)
LEMMA LowerOrder ==
  ASSUME NEW a \in CellSet, NEW b \in CellSet, NEW c \in CellSet
  PROVE  /\ a = b \/ Lower(a, b) \/ Lower(b, a)
         /\ ~Lower(a, a)
         /\ Lower(a, b) => ~Lower(b, a)
         /\ Lower(a, b) /\ Lower(b, c) => Lower(a, c)
  BY TableAssumption DEF Lower, CellSet

(* A key orders rows by their cells.                                       *)
LEMMA KeyOrder ==
  ASSUME NEW key \in KeySet, NEW r \in RowSet, NEW s \in RowSet, NEW t \in RowSet
  PROVE  /\ \/ r[key.column] = s[key.column]
            \/ KeyPrecedes(key, r, s) \/ KeyPrecedes(key, s, r)
         /\ r[key.column] = s[key.column] => ~KeyPrecedes(key, r, s)
         /\ KeyPrecedes(key, r, s) => ~KeyPrecedes(key, s, r)
         /\ KeyPrecedes(key, r, s) /\ KeyPrecedes(key, s, t) => KeyPrecedes(key, r, t)
<1>1. /\ r[key.column] \in CellSet /\ s[key.column] \in CellSet
      /\ t[key.column] \in CellSet
  BY DEF RowSet, KeySet
<1> QED
  BY <1>1, LowerOrder DEF KeyPrecedes

(* A key sees of two rows only their cells in its column.                  *)
LEMMA KeyAlike ==
  ASSUME NEW key, NEW r, NEW s, NEW t, r[key.column] = s[key.column]
  PROVE  /\ KeyPrecedes(key, r, t) <=> KeyPrecedes(key, s, t)
         /\ KeyPrecedes(key, t, r) <=> KeyPrecedes(key, t, s)
  BY DEF KeyPrecedes

(* Two rows that do not tie are ordered one way ...                        *)
LEMMA TotalOrder ==
  ASSUME NEW o \in Seq(KeySet), NEW r \in RowSet, NEW s \in RowSet
  PROVE  Ties(o, r, s) \/ Precedes(o, r, s) \/ Precedes(o, s, r)
<1> DEFINE Differ == {k \in DOMAIN o : r[o[k].column] # s[o[k].column]}
<1>1. CASE Differ = {}
  BY <1>1 DEF Ties
<1>2. CASE Differ # {}
  <2>1. Differ \in SUBSET Nat
    OBVIOUS
  <2>2. PICK k \in Differ : \A j \in Differ : k <= j
    <3> HIDE DEF Differ
    <3> QED
      BY <1>2, <2>1, FirstIsLeast
  <2>3. k \in DOMAIN o /\ r[o[k].column] # s[o[k].column] /\ o[k] \in KeySet
    OBVIOUS
  <2>4. \A j \in 1..(k - 1) : j \in DOMAIN o /\ ~(k <= j)
    BY <2>3
  <2>5. \A j \in 1..(k - 1) : r[o[j].column] = s[o[j].column]
    BY <2>2, <2>4
  <2>6. KeyPrecedes(o[k], r, s) \/ KeyPrecedes(o[k], s, r)
    BY <2>3, KeyOrder
  <2> QED
    BY <2>3, <2>5, <2>6 DEF Precedes
<1> QED
  BY <1>1, <1>2

(* A tie is one both ways.                                                 *)
LEMMA TieSymmetric ==
  \A o, r, s : Ties(o, r, s) <=> Ties(o, s, r)
  BY DEF Ties

(* Rows that tie stand alike to all others.                                *)
LEMMA TieAlike ==
  ASSUME NEW o \in Seq(KeySet), NEW r, NEW s, NEW t, Ties(o, r, s)
  PROVE  /\ Precedes(o, r, t) <=> Precedes(o, s, t)
         /\ Precedes(o, t, r) <=> Precedes(o, t, s)
         /\ Ties(o, r, t) <=> Ties(o, s, t)
<1>1. \A k \in DOMAIN o : r[o[k].column] = s[o[k].column]
  BY DEF Ties
<1>2. \A k \in DOMAIN o : \A j \in 1..(k - 1) : j \in DOMAIN o
  OBVIOUS
<1>3. \A k \in DOMAIN o : /\ KeyPrecedes(o[k], r, t) <=> KeyPrecedes(o[k], s, t)
                          /\ KeyPrecedes(o[k], t, r) <=> KeyPrecedes(o[k], t, s)
  BY <1>1, KeyAlike
<1>4. Ties(o, r, t) <=> Ties(o, s, t)
  BY <1>1 DEF Ties
<1>5. ASSUME NEW k \in DOMAIN o
      PROVE  /\ (\A j \in 1..(k - 1) : r[o[j].column] = t[o[j].column])
                  <=> (\A j \in 1..(k - 1) : s[o[j].column] = t[o[j].column])
             /\ (\A j \in 1..(k - 1) : t[o[j].column] = r[o[j].column])
                  <=> (\A j \in 1..(k - 1) : t[o[j].column] = s[o[j].column])
  <2>1. \A j \in 1..(k - 1) : r[o[j].column] = s[o[j].column]
    BY <1>1, <1>2
  <2> QED
    BY <2>1
<1> QED
  BY <1>3, <1>4, <1>5 DEF Precedes

(* What precedes a row that precedes another precedes that one.            *)
LEMMA Transitive ==
  ASSUME NEW o \in Seq(KeySet), NEW r \in RowSet, NEW s \in RowSet, NEW t \in RowSet,
         Precedes(o, r, s), Precedes(o, s, t)
  PROVE  Precedes(o, r, t)
<1>1. PICK k \in DOMAIN o : /\ KeyPrecedes(o[k], r, s)
                            /\ \A j \in 1..(k - 1) : r[o[j].column] = s[o[j].column]
  BY DEF Precedes
<1>2. PICK m \in DOMAIN o : /\ KeyPrecedes(o[m], s, t)
                            /\ \A j \in 1..(m - 1) : s[o[j].column] = t[o[j].column]
  BY DEF Precedes
<1>3. k \in Nat \ {0} /\ m \in Nat \ {0} /\ o[k] \in KeySet /\ o[m] \in KeySet
  OBVIOUS
<1>4. CASE k < m
  <2>1. s[o[k].column] = t[o[k].column]
    BY <1>2, <1>3, <1>4
  <2>2. KeyPrecedes(o[k], r, t)
    BY <1>1, <2>1, KeyAlike
  <2>3. \A j \in 1..(k - 1) : r[o[j].column] = t[o[j].column]
    BY <1>1, <1>2, <1>3, <1>4
  <2> QED
    BY <2>2, <2>3 DEF Precedes
<1>5. CASE m < k
  <2>1. r[o[m].column] = s[o[m].column]
    BY <1>1, <1>3, <1>5
  <2>2. KeyPrecedes(o[m], r, t)
    BY <1>2, <2>1, KeyAlike
  <2>3. \A j \in 1..(m - 1) : r[o[j].column] = t[o[j].column]
    BY <1>1, <1>2, <1>3, <1>5
  <2> QED
    BY <2>2, <2>3 DEF Precedes
<1>6. CASE k = m
  <2>1. KeyPrecedes(o[k], r, t)
    BY <1>1, <1>2, <1>3, <1>6, KeyOrder
  <2>2. \A j \in 1..(k - 1) : r[o[j].column] = t[o[j].column]
    BY <1>1, <1>2, <1>6
  <2> QED
    BY <2>1, <2>2 DEF Precedes
<1> QED
  BY <1>3, <1>4, <1>5, <1>6

(* A row precedes none that it ties with ...                               *)
LEMMA Irreflexive ==
  ASSUME NEW o \in Seq(KeySet), NEW r \in RowSet, NEW s \in RowSet, Ties(o, r, s)
  PROVE  ~Precedes(o, r, s)
<1>1. \A k \in DOMAIN o : r[o[k].column] = s[o[k].column] /\ o[k] \in KeySet
  BY DEF Ties
<1> QED
  BY <1>1, KeyOrder DEF Precedes

(* ... and none that precedes it.                                          *)
LEMMA Asymmetric ==
  ASSUME NEW o \in Seq(KeySet), NEW r \in RowSet, NEW s \in RowSet, Precedes(o, r, s)
  PROVE  ~Precedes(o, s, r)
<1>1. Ties(o, r, r)
  BY DEF Ties
<1> QED
  BY <1>1, Transitive, Irreflexive

(* Whatever does not come after a row that precedes another precedes it.   *)
LEMMA NotAfterPrecedes ==
  ASSUME NEW o \in Seq(KeySet), NEW r \in RowSet, NEW s \in RowSet, NEW t \in RowSet,
         ~Precedes(o, s, r), Precedes(o, s, t)
  PROVE  Precedes(o, r, t)
  BY TotalOrder, TieAlike, Transitive

-----------------------------------------------------------------------------
(* Boundaries.                                                             *)

(* Whole microseconds come back as the ticks they were.                    *)
LEMMA WholeQuotient ==
  ASSUME NEW t \in Int, NEW q \in Int, t = TicksPerMicro * q
  PROVE  t \div TicksPerMicro = q
  BY TicksAssumption, SMTT(30)

(* Whole microseconds are a multiple of their ticks.                       *)
LEMMA WholeTicks ==
  ASSUME NEW t \in Int, t % TicksPerMicro = 0
  PROVE  \E q \in Int : t = TicksPerMicro * q
  BY TicksAssumption, SMTT(30)

(* Both libraries then read the same microseconds, which are as many       *)
(* ticks.                                                                  *)
LEMMA MicrosExact ==
  ASSUME NEW ticks \in Int, ticks % TicksPerMicro = 0, NEW b
  PROVE  Micros(ticks, b) \in Int /\ Micros(ticks, b) * TicksPerMicro = ticks
<1>1. PICK q \in Int : ticks = TicksPerMicro * q
  BY WholeTicks
<1>2. TicksPerMicro \in Int /\ -ticks = TicksPerMicro * (-q)
  BY <1>1, TicksAssumption
<1>3. ticks \div TicksPerMicro = q /\ (-ticks) \div TicksPerMicro = -q
  BY <1>1, <1>2, WholeQuotient
<1>4. Micros(ticks, b) = q
  BY <1>3 DEF Micros
<1> QED
  BY <1>1, <1>2, <1>4

(* What every candidate is read as.                                        *)
LEMMA CandidateVariants ==
  ASSUME NEW b, NEW k \in DOMAIN Candidates(b)
  PROVE  /\ k \in Nat /\ Candidates(b)[k].variant \in Variants
         /\ Candidates(b)[k].rust = "timestamp" <=> Candidates(b)[k].variant = "Timestamp"
<1> DEFINE T == {t \in [rust : {"i64", "i32", "i16", "f64", "f32", "bool", "timestamp", "uuid",
                                "String", "bytes"}, variant : Variants] :
                   t.rust = "timestamp" <=> t.variant = "Timestamp"}
<1>1. /\ Try("i64", "Int") \in T /\ Try("i32", "Int") \in T /\ Try("i16", "Int") \in T
      /\ Try("f64", "Float") \in T /\ Try("f32", "Float") \in T /\ Try("bool", "Bool") \in T
  BY DEF Try, Variants
<1>2. /\ Try("timestamp", "Timestamp") \in T /\ Try("uuid", "Uuid") \in T
      /\ Try("String", "String") \in T /\ Try("bytes", "Bytes") \in T
  BY DEF Try, Variants
<1>3. /\ Numeric \in Seq(T) /\ Dated(b) \in Seq(T) /\ Unique(b) \in Seq(T)
      /\ Textual \in Seq(T) /\ Binary \in Seq(T)
  <2> HIDE DEF T
  <2> QED
    BY <1>1, <1>2 DEF Numeric, Dated, Unique, Textual, Binary
<1>4. Candidates(b) \in Seq(T)
  <2> HIDE DEF T
  <2> QED
    BY <1>3, ConcatProperties DEF Candidates
<1>5. k \in Nat /\ Candidates(b)[k] \in T
  <2> HIDE DEF T
  <2> QED
    BY <1>4, LenProperties, ElementOfSeq
<1> QED
  BY <1>5

(* The column of a key is read, and not one behind it with its label.      *)
LEMMA RightPlace ==
  ASSUME ExactBoundaries, NEW o \in Orders, NEW k \in DOMAIN o,
         ~Missing(Shown, o[k].column)
  PROVE  Shown[Place(Shown, o[k].column)] = o[k].column
<1> DEFINE column == o[k].column
           fits   == Places(Shown, column)
           p      == First(fits)
<1>1. fits \in SUBSET Nat /\ fits # {}
  BY RequestAssumption DEF Places, Missing
<1>2. p \in fits /\ \A n \in fits : p <= n
  <2> HIDE DEF fits
  <2> QED
    BY <1>1, FirstIsLeast
<1>3. p \in DOMAIN Shown /\ Label(Shown[p]) = Label(column)
  BY <1>2 DEF Places
<1>4. PICK i \in 1..p : Shown[i] = column
  BY <1>3 DEF ExactBoundaries
<1>5. i \in DOMAIN Shown
  BY <1>3, RequestAssumption
<1>6. i \in fits
  BY <1>4, <1>5 DEF Places
<1>7. i = p
  <2> HIDE DEF fits, p
  <2>1. p \in Nat /\ i \in Nat /\ i <= p
    BY <1>1, <1>2, <1>4
  <2>2. p <= i
    BY <1>2, <1>6
  <2> QED
    BY <2>1, <2>2
<1> QED
  BY <1>4, <1>7 DEF Place

(* A boundary stands for the cell it was read from.                        *)
LEMMA ValueExact ==
  ASSUME ExactBoundaries, NEW id \in RowIds, NEW row \in Cells(id), NEW o \in Orders,
         NEW k \in DOMAIN o, NEW b, KeyReadable(o[k], Shown, row, b)
  PROVE  /\ GetValue(Shown, row, o[k].column, b) # Unset
         /\ Bound(GetValue(Shown, row, o[k].column, b)) = row[o[k].column]
<1> DEFINE column == o[k].column
           value  == GetValue(Shown, row, column, b)
           seen   == Decoded(TypeOf[column], b)
           read   == Candidates(b)[First(seen)]
<1>1. Shown[Place(Shown, column)] = column
  BY RightPlace DEF KeyReadable
<1>2. column \in DOMAIN TypeOf
  BY OrderType
<1>3. row[column] \in Int \cup {Null}
  BY <1>2, TableAssumption
<1>4. CASE row[column] = Null
  <2>1. value = NullValue
    BY <1>1, <1>4 DEF GetValue
  <2> QED
    BY <2>1, <1>4, TableAssumption DEF NullValue, Value, Bound, Variants
<1>5. CASE row[column] # Null
  <2>1. seen # {} /\ seen \in SUBSET Nat
    BY <1>1, <1>5, CandidateVariants DEF KeyReadable, Undecodable, Decoded
  <2>2. First(seen) \in seen
    <3> HIDE DEF seen
    <3> QED
      BY <2>1, FirstIsLeast
  <2>3. First(seen) \in DOMAIN Candidates(b) /\ read.rust \in Decodes[TypeOf[column]]
    BY <2>2 DEF Decoded
  <2>4. /\ read.variant \in Variants
        /\ read.rust = "timestamp" <=> read.variant = "Timestamp"
    BY <2>3, CandidateVariants
  <2>5. value = Value(read.variant, IF read.rust = "timestamp" THEN Micros(row[column], b)
                                    ELSE row[column])
    BY <1>1, <1>5 DEF GetValue
  <2>6. CASE read.rust = "timestamp"
    <3>1. row[column] \in Int /\ row[column] % TicksPerMicro = 0
      BY <1>2, <1>3, <1>5, <2>3, <2>6 DEF ExactBoundaries
    <3>2. /\ Micros(row[column], b) \in Int
          /\ Micros(row[column], b) * TicksPerMicro = row[column]
      BY <3>1, MicrosExact
    <3> HIDE DEF value, read, column
    <3>3. value = [variant |-> read.variant, of |-> Micros(row[column], b)]
      BY <2>5, <2>6 DEF Value
    <3> QED
      BY <3>2, <3>3, <2>4, <2>6, TableAssumption DEF Bound, column, value
  <2>7. CASE read.rust # "timestamp"
    <3> HIDE DEF value, read, column
    <3>3. value = [variant |-> read.variant, of |-> row[column]]
      BY <2>5, <2>7 DEF Value
    <3> QED
      BY <3>3, <1>3, <2>4, <2>7, TableAssumption DEF Bound, column, value
  <2> QED
    BY <2>6, <2>7
<1> QED
  BY <1>4, <1>5

(* A value that was read is a Value, and no key is left without one.       *)
LEMMA ValueType ==
  ASSUME NEW row \in RowSet, NEW key, NEW b, KeyReadable(key, Shown, row, b)
  PROVE  GetValue(Shown, row, key.column, b) # Unset
<1> DEFINE column == key.column
           from  == Shown[Place(Shown, column)]
           value == GetValue(Shown, row, column, b)
           seen  == Decoded(TypeOf[from], b)
           read  == Candidates(b)[First(seen)]
<1>1. from \in DOMAIN TypeOf
  <2>1. Places(Shown, column) \in SUBSET Nat /\ Places(Shown, column) # {}
    BY RequestAssumption DEF KeyReadable, Missing, Places
  <2>2. Place(Shown, column) \in Places(Shown, column)
    BY <2>1, FirstIsLeast DEF Place
  <2> QED
    BY <2>2, RequestAssumption DEF Places
<1>2. row[from] \in Int \cup {Null}
  BY <1>1 DEF RowSet, CellSet
<1>3. value \in [variant : Variants, of : Int \cup {Null}]
  <2>1. CASE row[from] = Null
    BY <2>1 DEF GetValue, NullValue, Value, Variants
  <2>2. CASE row[from] # Null
    <3>1. seen # {} /\ seen \in SUBSET Nat
      BY <2>2, CandidateVariants DEF KeyReadable, Undecodable, Decoded
    <3>2. First(seen) \in seen
      <4> HIDE DEF seen
      <4> QED
        BY <3>1, FirstIsLeast
    <3>3. read.variant \in Variants
      BY <3>2, CandidateVariants DEF Decoded
    <3>4. Micros(row[from], b) \in Int
      <4>1. row[from] \in Int /\ -row[from] \in Int
        BY <1>2, <2>2
      <4>2. \A t \in Int : t \div TicksPerMicro \in Int
        BY TicksAssumption
      <4> HIDE DEF from
      <4> QED
        BY <4>1, <4>2 DEF Micros
    <3>5. value = Value(read.variant, IF read.rust = "timestamp" THEN Micros(row[from], b)
                                      ELSE row[from])
      BY <2>2 DEF GetValue
    <3> HIDE DEF value, read, from
    <3> QED
      BY <1>2, <3>3, <3>4, <3>5 DEF Value
  <2> QED
    BY <2>1, <2>2
<1> QED
  BY <1>3, TableAssumption

(* The cursor next_page builds has a value for every key.                  *)
LEMMA CursorValues ==
  ASSUME NEW row \in RowSet, NEW o \in Orders, NEW b, Readable(New(o), Shown, row, b)
  PROVE  IsBoundary(AfterRow(New(o), Shown, row, b))
<1> DEFINE cursor == AfterRow(New(o), Shown, row, b)
<1>1. /\ DOMAIN New(o) = DOMAIN o
      /\ \A k \in DOMAIN o : New(o)[k] = [order |-> o[k], value |-> Unset]
  BY DEF New
<1>2. /\ DOMAIN cursor = DOMAIN o
      /\ \A k \in DOMAIN o : cursor[k] = [order |-> o[k],
                                         value |-> GetValue(Shown, row, o[k].column, b)]
  BY <1>1 DEF AfterRow
<1>3. \A k \in DOMAIN o : KeyReadable(o[k], Shown, row, b)
  BY <1>1 DEF Readable
<1>4. \A k \in DOMAIN o : GetValue(Shown, row, o[k].column, b) # Unset
  BY <1>3, ValueType
<1>5. o = [k \in DOMAIN o |-> o[k]]
  BY OrderType
<1> HIDE DEF cursor
<1>6. ToOrderByClause(cursor) = [k \in DOMAIN o |-> o[k]]
  BY <1>2 DEF ToOrderByClause
<1>7. IsBoundary(cursor)
  BY <1>2, <1>4, <1>5, <1>6 DEF IsBoundary
<1> QED
  BY <1>7 DEF cursor

(* The cursor next_page builds stands after the row it is built from.      *)
LEMMA CursorStands ==
  ASSUME ExactBoundaries, NEW id \in RowIds, NEW row \in Cells(id), NEW o \in Orders, NEW b,
         Readable(New(o), Shown, row, b)
  PROVE  StandsAfter(AfterRow(New(o), Shown, row, b), o, row)
<1> DEFINE cursor == AfterRow(New(o), Shown, row, b)
<1>1. /\ DOMAIN New(o) = DOMAIN o
      /\ \A k \in DOMAIN o : New(o)[k] = [order |-> o[k], value |-> Unset]
  BY DEF New
<1>2. /\ DOMAIN cursor = DOMAIN o
      /\ \A k \in DOMAIN o : cursor[k] = [order |-> o[k],
                                         value |-> GetValue(Shown, row, o[k].column, b)]
  BY <1>1 DEF AfterRow
<1>3. \A k \in DOMAIN o : KeyReadable(o[k], Shown, row, b)
  BY <1>1 DEF Readable
<1>4. \A k \in DOMAIN o : /\ GetValue(Shown, row, o[k].column, b) # Unset
                         /\ Bound(GetValue(Shown, row, o[k].column, b)) = row[o[k].column]
  BY <1>3, ValueExact
<1> HIDE DEF cursor
<1>5. \A k \in DOMAIN cursor :
        /\ cursor[k].order = o[k]
        /\ Bound(cursor[k].value) = row[cursor[k].order.column]
  BY <1>2, <1>4
<1>6. ToOrderByClause(cursor) = o
  <2>1. ToOrderByClause(cursor) = [k \in DOMAIN o |-> o[k]]
    BY <1>2, <1>5 DEF ToOrderByClause
  <2>2. o = [k \in DOMAIN o |-> o[k]]
    BY OrderType
  <2> QED
    BY <2>1, <2>2
<1>7. StandsAfter(cursor, o, row)
  BY <1>5, <1>6 DEF StandsAfter
<1> QED
  BY <1>7 DEF cursor

(* What a cursor that stands after a row selects lies beyond the row; and  *)
(* it selects all that does where no key is NULL.                          *)
LEMMA StandsKeys ==
  ASSUME NEW o \in Orders, NEW cursor, NEW last, StandsAfter(cursor, o, last)
  PROVE  /\ DOMAIN cursor = DOMAIN o
         /\ \A k \in DOMAIN o : /\ cursor[k].order = o[k]
                                /\ Bound(cursor[k].value) = last[o[k].column]
<1>1. o = [k \in DOMAIN cursor |-> cursor[k].order]
  BY DEF StandsAfter, ToOrderByClause
<1> QED
  BY <1>1 DEF StandsAfter

(* What a cursor's condition selects lies beyond the row it stands after   *)
(* ...                                                                     *)
LEMMA SelectedBeyond ==
  ASSUME NEW o \in Orders, NEW cursor, NEW last \in RowSet, NEW row \in RowSet,
         StandsAfter(cursor, o, last), After(cursor, row)
  PROVE  Precedes(o, last, row)
<1>1. /\ DOMAIN cursor = DOMAIN o
      /\ \A k \in DOMAIN o : /\ cursor[k].order = o[k]
                             /\ Bound(cursor[k].value) = last[o[k].column]
  BY StandsKeys
<1>2. PICK k \in DOMAIN o :
        /\ Beyond(cursor[k], row[o[k].column])
        /\ \A j \in 1..(k - 1) : On(cursor[j], row[cursor[j].order.column])
  BY <1>1 DEF After
<1>3. k \in Nat /\ o[k] \in KeySet /\ o \in Seq(KeySet)
  BY OrderType
<1>4. \A j \in 1..(k - 1) : last[o[j].column] = row[o[j].column]
  <2> SUFFICES ASSUME NEW j \in 1..(k - 1) PROVE last[o[j].column] = row[o[j].column]
    OBVIOUS
  <2>1. j \in DOMAIN o
    BY <1>3
  <2> QED
    BY <1>1, <1>2, <2>1 DEF On
<1>5. last[o[k].column] \in CellSet /\ row[o[k].column] \in CellSet
  BY <1>3 DEF RowSet, KeySet
<1>6. KeyPrecedes(o[k], last, row)
  BY <1>1, <1>2, <1>3, <1>5, TableAssumption
    DEF Beyond, Comparable, KeyPrecedes, Lower, CellSet, KeySet
<1> QED
  BY <1>4, <1>6 DEF Precedes

(* ... and all that lies beyond is selected, if no key is NULL.            *)
LEMMA BeyondSelected ==
  ASSUME NEW o \in Orders, NEW cursor, NEW last \in RowSet, NEW row \in RowSet,
         \A k \in DOMAIN o : last[o[k].column] # Null /\ row[o[k].column] # Null,
         StandsAfter(cursor, o, last), Precedes(o, last, row)
  PROVE  After(cursor, row)
<1>1. /\ DOMAIN cursor = DOMAIN o
      /\ \A k \in DOMAIN o : /\ cursor[k].order = o[k]
                             /\ Bound(cursor[k].value) = last[o[k].column]
  BY StandsKeys
<1>2. PICK k \in DOMAIN o :
        /\ KeyPrecedes(o[k], last, row)
        /\ \A j \in 1..(k - 1) : last[o[j].column] = row[o[j].column]
  BY DEF Precedes
<1>3. k \in Nat /\ o[k] \in KeySet /\ o \in Seq(KeySet)
  BY OrderType
<1>4. \A j \in 1..(k - 1) : On(cursor[j], row[cursor[j].order.column])
  <2> SUFFICES ASSUME NEW j \in 1..(k - 1) PROVE On(cursor[j], row[cursor[j].order.column])
    OBVIOUS
  <2>1. j \in DOMAIN o
    BY <1>3
  <2> QED
    BY <1>1, <1>2, <2>1 DEF On, Comparable
<1>5. last[o[k].column] \in CellSet /\ row[o[k].column] \in CellSet
  BY <1>3 DEF RowSet, KeySet
<1>6. Beyond(cursor[k], row[cursor[k].order.column])
  BY <1>1, <1>2, <1>3, <1>5, TableAssumption
    DEF Beyond, Comparable, KeyPrecedes, Lower, CellSet, KeySet
<1> QED
  BY <1>1, <1>4, <1>6 DEF After

-----------------------------------------------------------------------------
(* What a query returns.                                                   *)

(* As many distinct rows as there are, in any sequence, are all of them.   *)
LEMMA AllListed ==
  ASSUME NEW S, IsFiniteSet(S), NEW s \in [1..Cardinality(S) -> S],
         \A j, k \in DOMAIN s : j < k => s[j] # s[k]
  PROVE  \A x \in S : \E k \in 1..Cardinality(S) : s[k] = x
<1> DEFINE n == Cardinality(S)
<1>1. n \in Nat
  BY FS_CardinalityType
<1>2. IsFiniteSet(1..n) /\ Cardinality(1..n) = n
  BY <1>1, FS_Interval
<1> HIDE DEF n
<1>3. s \in [1..n -> S] /\ \A j, k \in 1..n : j < k => s[j] # s[k]
  BY DEF n
<1>4. s \in Injection(1..n, S)
  <2>1. ASSUME NEW j \in 1..n, NEW k \in 1..n, s[j] = s[k] PROVE j = k
    BY <1>1, <1>3, <2>1
  <2> QED
    BY <1>3, <2>1 DEF Injection, IsInjective
<1>5. s \in Surjection(1..n, S)
  BY <1>2, <1>4, FS_Injection DEF n
<1> QED
  BY <1>5 DEF Surjection, n

(* What a query returns: selected rows in order, and all of them unless    *)
(* the LIMIT cuts some off, which then come behind.                        *)
LEMMA FoundRows ==
  ASSUME IsFiniteSet(DOMAIN table), NEW cursor, NEW o, NEW limit \in Nat,
         NEW ids \in Results(cursor, o, limit)
  PROVE  LET found == {id \in DOMAIN table : Selected(cursor, table[id])} IN
         /\ ids \in Seq(found) /\ Len(ids) <= limit /\ Sorted(ids, o)
         /\ \A id \in found :
              \/ \E k \in DOMAIN ids : ids[k] = id
              \/ /\ Len(ids) = limit
                 /\ \A k \in DOMAIN ids : ~Precedes(o, table[id], table[ids[k]])
<1> DEFINE found == {id \in DOMAIN table : Selected(cursor, table[id])}
           n     == Cardinality(found)
           cut   == IF n < limit THEN n ELSE limit
<1>1. IsFiniteSet(found) /\ n \in Nat
  <2>1. found \in SUBSET DOMAIN table
    OBVIOUS
  <2> HIDE DEF found
  <2>2. IsFiniteSet(found)
    BY <2>1, FS_Subset
  <2> QED
    BY <2>2, FS_CardinalityType
<1>2. PICK s \in [1..n -> found] : Sorted(s, o) /\ ids = SubSeq(s, 1, cut)
  BY DEF Results
<1> HIDE DEF found
<1>3. \A j, k \in 1..n : j < k => s[j] # s[k] /\ ~Precedes(o, table[s[k]], table[s[j]])
  BY <1>2 DEF Sorted
<1>4. cut \in Nat /\ cut <= n /\ cut <= limit
  BY <1>1
<1>5. /\ ids \in Seq(found) /\ Len(ids) = cut
      /\ \A k \in 1..cut : ids[k] = s[k]
  <2> HIDE DEF n, cut
  <2>1. cut \in Int /\ 1 \in Int /\ \A k \in 1..cut : s[k] \in found
    BY <1>1, <1>2, <1>4
  <2>2. /\ ids \in Seq(found)
        /\ Len(ids) = IF 1 <= cut THEN cut - 1 + 1 ELSE 0
        /\ \A i \in 1..cut - 1 + 1 : ids[i] = s[1 + i - 1]
    BY <1>2, <2>1, SubSeqProperties
  <2> QED
    BY <1>4, <2>2
<1>6. DOMAIN ids = 1..cut
  BY <1>5, LenProperties
<1>7. Sorted(ids, o)
  <2> SUFFICES ASSUME NEW j \in DOMAIN ids, NEW k \in DOMAIN ids, j < k
               PROVE  ids[j] # ids[k] /\ ~Precedes(o, table[ids[k]], table[ids[j]])
    BY DEF Sorted
  <2>1. j \in 1..n /\ k \in 1..n /\ ids[j] = s[j] /\ ids[k] = s[k]
    BY <1>1, <1>4, <1>5, <1>6
  <2> QED
    BY <1>3, <2>1
<1>8. ASSUME NEW id \in found
      PROVE  \/ \E k \in DOMAIN ids : ids[k] = id
             \/ /\ Len(ids) = limit
                /\ \A k \in DOMAIN ids : ~Precedes(o, table[id], table[ids[k]])
  <2>1. PICK m \in 1..n : s[m] = id
    BY <1>1, <1>2, <1>3, <1>8, AllListed
  <2>2. CASE m <= cut
    BY <1>4, <1>5, <1>6, <2>1, <2>2
  <2>3. CASE ~(m <= cut)
    <3>1. cut = limit
      BY <1>1, <2>1, <2>3
    <3>2. ASSUME NEW k \in DOMAIN ids PROVE ~Precedes(o, table[id], table[ids[k]])
      <4>1. k \in 1..n /\ k < m /\ ids[k] = s[k]
        BY <1>1, <1>4, <1>5, <1>6, <2>1, <2>3
      <4> QED
        BY <1>3, <2>1, <4>1
    <3> QED
      BY <1>5, <3>1, <3>2
  <2> QED
    BY <2>2, <2>3
<1> QED
  BY <1>4, <1>5, <1>7, <1>8 DEF found

-----------------------------------------------------------------------------
(* Type correctness.                                                       *)

(* The row of a primary key, wherever it has been read.                    *)
LEMMA TableRows ==
  ASSUME TypeOK
  PROVE  /\ IsFiniteSet(DOMAIN table)
         /\ \A id \in DOMAIN table : /\ id \in RowIds /\ table[id] \in Cells(id)
                                    /\ table[id] \in AllCells /\ table[id] \in RowSet
<1>1. DOMAIN table \in SUBSET RowIds
  BY DEF TypeOK
<1>2. IsFiniteSet(DOMAIN table)
  BY <1>1, TableAssumption, FS_Subset
<1>3. \A id \in DOMAIN table : id \in RowIds /\ table[id] \in Cells(id)
  BY DEF TypeOK
<1> QED
  BY <1>2, <1>3, RowType DEF AllCells

(* A page has room for a row, and the LIMIT for one more than the page.    *)
LEMMA PageSizes ==
  ASSUME TypeOK
  PROVE  /\ size \in Nat /\ PageSize(size) \in Nat /\ PageSize(size) >= 1
         /\ Limit(size) \in Nat /\ Limit(size) = PageSize(size) + 1
  BY RequestAssumption DEF TypeOK, PageSize, Limit

(* What a page keeps of the rows.                                          *)
LEMMA KeptRows ==
  ASSUME NEW S, NEW rs \in Seq(S), NEW n, PageSize(n) \in Nat
  PROVE  /\ Kept(rs, n) \in Seq(S)
         /\ Len(Kept(rs, n)) = IF Len(rs) < PageSize(n) THEN Len(rs) ELSE PageSize(n)
         /\ \A k \in DOMAIN Kept(rs, n) : k \in DOMAIN rs /\ Kept(rs, n)[k] = rs[k]
<1> DEFINE m == IF Len(rs) < PageSize(n) THEN Len(rs) ELSE PageSize(n)
<1>1. m \in Nat /\ m <= Len(rs) /\ \A k \in 1..m : k \in DOMAIN rs /\ rs[k] \in S
  OBVIOUS
<1>2. Kept(rs, n) = SubSeq(rs, 1, m)
  BY DEF Kept
<1> HIDE DEF m
<1>3. /\ SubSeq(rs, 1, m) \in Seq(S)
      /\ Len(SubSeq(rs, 1, m)) = IF 1 <= m THEN m - 1 + 1 ELSE 0
      /\ \A i \in 1..m - 1 + 1 : SubSeq(rs, 1, m)[i] = rs[1 + i - 1]
  BY <1>1, SubSeqProperties
<1>4. Len(Kept(rs, n)) = m /\ DOMAIN Kept(rs, n) = 1..m
  BY <1>1, <1>2, <1>3, LenProperties
<1> QED
  BY <1>1, <1>2, <1>3, <1>4 DEF m

(* The rows at hand have their primary keys and their cells.               *)
LEMMA RowSeqType ==
  ASSUME NEW rs \in RowSeqs
  PROVE  /\ Len(rs) \in Nat /\ DOMAIN rs = 1..Len(rs)
         /\ \A k \in DOMAIN rs : /\ rs[k].id \in RowIds /\ rs[k].row \in AllCells
                                /\ rs[k].row \in RowSet
<1>1. \A k \in DOMAIN rs : rs[k] \in [id : RowIds, row : AllCells]
  BY LenProperties, ElementOfSeq DEF RowSeqs
<1>2. Len(rs) \in Nat /\ DOMAIN rs = 1..Len(rs)
  BY LenProperties DEF RowSeqs
<1> QED
  BY <1>1, <1>2, RowType

(* Each action keeps the types, from the start.                            *)
LEMMA TypeInit == Init => TypeOK
<1> SUFFICES ASSUME Init PROVE TypeOK
  OBVIOUS
<1>1. /\ DOMAIN table \subseteq RowIds /\ \A id \in DOMAIN table : table[id] \in Cells(id)
      /\ stable \subseteq DOMAIN table
  BY TableAssumption DEF Init
<1>2. writes \in 0..MaxWrites /\ faults \in 0..MaxFaults
  BY RequestAssumption DEF Init
<1>3. rows \in RowSeqs /\ page.rows \in RowSeqs
  BY EmptySeq DEF Init, NoPage, RowSeqs
<1>4. pages \in Seq([sort : Orders, rows : RowSeqs])
  BY EmptySeq DEF Init
<1>5. token.cursor = << >> /\ page.cursor = << >>
  BY DEF Init, NoPage, EmptyToken
<1> QED
  BY <1>1, <1>2, <1>3, <1>4, <1>5 DEF Init, TypeOK, Fetched

(* Writers keep the types.                                                 *)
LEMMA TypeWrite == TypeOK /\ Write => TypeOK'
<1> SUFFICES ASSUME TypeOK, NEW id \in RowIds, Put(id) \/ Delete(id) PROVE TypeOK'
  BY DEF Write
<1>1. /\ writes < MaxWrites /\ writes' = writes + 1 /\ stable' = stable \ {id}
      /\ UNCHANGED <<size, order_by, token, phase, build, sort, rows, page, pages, faults>>
  BY DEF Put, Delete, Touch, request
<1>2. writes' \in 0..MaxWrites
  BY <1>1, RequestAssumption DEF TypeOK
<1>3. /\ DOMAIN table' \subseteq RowIds /\ \A x \in DOMAIN table' : table'[x] \in Cells(x)
      /\ stable' \subseteq DOMAIN table'
  <2>1. CASE Put(id)
    <3>1. PICK row \in Cells(id) :
            table' = [x \in DOMAIN table \cup {id} |-> IF x = id THEN row ELSE table[x]]
      BY <2>1 DEF Put
    <3> QED
      BY <1>1, <3>1 DEF TypeOK
  <2>2. CASE Delete(id)
    <3>1. table' = [x \in DOMAIN table \ {id} |-> table[x]]
      BY <2>2 DEF Delete
    <3> QED
      BY <1>1, <3>1 DEF TypeOK
  <2> QED
    BY <2>1, <2>2
<1> QED
  BY <1>1, <1>2, <1>3 DEF TypeOK, Fetched, IsBoundary

(* A changed sort and a lost response keep the types.                      *)
LEMMA TypeClient == TypeOK /\ (Resort \/ Lose) => TypeOK'
<1> SUFFICES ASSUME TypeOK, Resort \/ Lose PROVE TypeOK'
  OBVIOUS
<1>1. /\ faults < MaxFaults /\ faults' = faults + 1
      /\ UNCHANGED <<table, size, build, sort, rows, page, pages, stable, writes, token>>
      /\ order_by' \in Orders /\ phase' \in {phase, "client"}
  BY DEF Resort, Lose, Fault, request, history, TypeOK
<1>2. faults' \in 0..MaxFaults
  BY <1>1, RequestAssumption DEF TypeOK
<1>3. phase' \in {"client", "fetched", "responded", "done"} /\ (Fetched' => Fetched)
  BY <1>1 DEF TypeOK, Fetched
<1> QED
  BY <1>1, <1>2, <1>3 DEF TypeOK, IsBoundary

(* What a query returns are rows.                                          *)
LEMMA TypeFetch == TypeOK /\ Fetch => TypeOK'
<1> SUFFICES ASSUME TypeOK, Fetch PROVE TypeOK'
  OBVIOUS
<1>1. /\ build' \in Builds /\ sort' = order_by /\ phase' = "fetched"
      /\ UNCHANGED <<table, size, order_by, token, page, pages, stable, writes>>
  BY DEF Fetch
<1>2. PICK t \in Requests : \E ids \in Results(Parse(t), order_by, Limit(size)) :
        rows' = [k \in DOMAIN ids |-> [id |-> ids[k], row |-> table[ids[k]]]]
  BY DEF Fetch
<1>3. rows' \in RowSeqs
  <2>1. PICK ids \in Results(Parse(t), order_by, Limit(size)) :
          rows' = [k \in DOMAIN ids |-> [id |-> ids[k], row |-> table[ids[k]]]]
    BY <1>2
  <2> DEFINE found == {id \in DOMAIN table : Selected(Parse(t), table[id])}
  <2>2. ids \in Seq(found)
    BY <2>1, TableRows, PageSizes, FoundRows
  <2>3. \A id \in found : [id |-> id, row |-> table[id]] \in [id : RowIds, row : AllCells]
    BY TableRows
  <2> HIDE DEF found
  <2>4. DOMAIN ids = 1..Len(ids) /\ Len(ids) \in Nat /\ \A k \in DOMAIN ids : ids[k] \in found
    BY <2>2
  <2> QED
    BY <2>1, <2>3, <2>4 DEF RowSeqs
<1>4. faults' \in 0..MaxFaults
  <2>1. PICK u \in Requests : faults' = IF u = token THEN faults ELSE faults + 1
    BY DEF Fetch
  <2>2. u # token => faults < MaxFaults
    BY DEF Requests
  <2> QED
    BY <2>1, <2>2, RequestAssumption DEF TypeOK
<1> QED
  BY <1>1, <1>3, <1>4 DEF TypeOK, Fetched, IsBoundary

(* The last row kept of a page that is not the last one.                   *)
LEMMA LastKeptRow ==
  ASSUME TypeOK, ~IsLast(rows, size)
  PROVE  /\ Len(Kept(rows, size)) = PageSize(size) /\ PageSize(size) + 1 \in DOMAIN rows
         /\ PageSize(size) \in DOMAIN rows /\ LastKept = rows[PageSize(size)].row
         /\ Kept(rows, size) # << >>
         /\ LastKept \in RowSet /\ \E id \in RowIds : LastKept \in Cells(id)
<1>1. PageSize(size) \in Nat /\ PageSize(size) >= 1
  BY PageSizes
<1>2. rows \in RowSeqs /\ Len(rows) \in Nat /\ DOMAIN rows = 1..Len(rows)
  BY RowSeqType DEF TypeOK
<1>3. ~(Len(rows) <= PageSize(size))
  BY DEF IsLast
<1>4. /\ Kept(rows, size) \in RowSeqs /\ Len(Kept(rows, size)) = PageSize(size)
      /\ \A k \in DOMAIN Kept(rows, size) : Kept(rows, size)[k] = rows[k]
  BY <1>1, <1>2, <1>3, KeptRows DEF RowSeqs
<1>5. PageSize(size) \in DOMAIN Kept(rows, size)
  BY <1>1, <1>4, RowSeqType
<1>6. PageSize(size) \in DOMAIN rows /\ PageSize(size) + 1 \in DOMAIN rows
  BY <1>1, <1>2, <1>3
<1>7. LastKept = rows[PageSize(size)].row
  BY <1>4, <1>5 DEF LastKept
<1>8. LastKept \in RowSet /\ LastKept \in AllCells
  BY <1>2, <1>6, <1>7, RowSeqType
<1>9. Kept(rows, size) # << >>
  BY <1>5
<1> QED
  BY <1>4, <1>6, <1>7, <1>8, <1>9 DEF AllCells

(* A page is a prefix of the rows, and its cursor has values.              *)
LEMMA TypeCutPage == TypeOK /\ CutPage => TypeOK'
<1> SUFFICES ASSUME TypeOK, CutPage PROVE TypeOK'
  OBVIOUS
<1>1. /\ phase = "fetched" /\ phase' = "responded"
      /\ UNCHANGED <<table, size, order_by, token, build, sort, rows, pages, stable, writes,
                     faults>>
      /\ page' = [rows   |-> Kept(rows, size),
                  cursor |-> IF IsLast(rows, size) THEN << >>
                             ELSE AfterRow(New(sort), Shown, LastKept, build)]
  BY DEF CutPage, history
<1>2. sort \in Orders
  BY <1>1 DEF TypeOK, Fetched
<1>3. page'.rows \in RowSeqs
  BY <1>1, PageSizes, KeptRows DEF TypeOK, RowSeqs
<1>4. page'.cursor = << >> \/ IsBoundary(page'.cursor)
  <2>1. CASE IsLast(rows, size)
    BY <1>1, <2>1
  <2>2. CASE ~IsLast(rows, size)
    <3>1. Readable(New(sort), Shown, LastKept, build)
      BY <2>2 DEF CutPage, PageFails
    <3>2. LastKept \in RowSet
      BY <2>2, LastKeptRow
    <3> QED
      BY <1>1, <1>2, <2>2, <3>1, <3>2, CursorValues
  <2> QED
    BY <2>1, <2>2
<1> QED
  BY <1>1, <1>2, <1>3, <1>4 DEF TypeOK, Fetched, IsBoundary

(* A received page and its cursor's token have their types.                *)
LEMMA TypeReceive == TypeOK /\ Receive => TypeOK'
<1> SUFFICES ASSUME TypeOK, Receive PROVE TypeOK'
  OBVIOUS
<1>1. /\ phase = "responded" /\ pages' = Append(pages, [sort |-> sort, rows |-> page.rows])
      /\ token' = Encode(page.cursor) /\ phase' \in {"client", "done"}
      /\ build' = {} /\ sort' = << >> /\ rows' = << >> /\ page' = NoPage
      /\ UNCHANGED <<table, size, order_by, stable, writes, faults>>
  BY DEF Receive
<1>2. sort \in Orders
  BY <1>1 DEF TypeOK, Fetched
<1>3. pages' \in Seq([sort : Orders, rows : RowSeqs])
  <2>1. [sort |-> sort, rows |-> page.rows] \in [sort : Orders, rows : RowSeqs]
    BY <1>2 DEF TypeOK
  <2>2. pages \in Seq([sort : Orders, rows : RowSeqs])
    BY DEF TypeOK
  <2> QED
    BY <1>1, <2>1, <2>2, AppendProperties
<1>4. rows' \in RowSeqs /\ page'.rows \in RowSeqs /\ page'.cursor = << >>
  BY <1>1, EmptySeq DEF NoPage, RowSeqs
<1>5. token'.cursor = page.cursor
  BY <1>1 DEF Encode
<1>6. token'.cursor = << >> \/ IsBoundary(token'.cursor)
  BY <1>5 DEF TypeOK
<1>7. \A c \in {token'.cursor, page'.cursor} : c = << >> \/ IsBoundary(c)
  BY <1>4, <1>6
<1> QED
  BY <1>1, <1>3, <1>4, <1>7 DEF TypeOK, Fetched, IsBoundary

(* The types are inductive.                                                *)
LEMMA TypeNext == TypeOK /\ [Next]_vars => TypeOK'
<1> SUFFICES ASSUME TypeOK, [Next]_vars PROVE TypeOK'
  OBVIOUS
<1>1. CASE FailPage
  BY <1>1 DEF FailPage, request, history, TypeOK, Fetched, IsBoundary
<1>2. CASE UNCHANGED vars
  BY <1>2 DEF vars, TypeOK, Fetched, IsBoundary
<1> QED
  BY <1>1, <1>2, TypeWrite, TypeClient, TypeFetch, TypeCutPage, TypeReceive DEF Next, Handle

(* Every variable keeps its type: the rows are rows of the tables, the     *)
(* pages are in orderings of the clients, and no cursor, of a page or of   *)
(* a token, has a key without a value.                                     *)
THEOREM TraversalTypeCorrect == Spec => []TypeOK
  BY TypeInit, TypeNext, PTL DEF Spec

-----------------------------------------------------------------------------
(* The pages are one ordering, cut in order.                               *)

(* Of a token and what it may be edited into, only itself parses.          *)
LEMMA OnlyOwnToken ==
  ASSUME TokenStands, phase # "done", NEW t \in Requests, Parses(t)
  PROVE  t = token
<1>1. token = EmptyToken \/ (token.cursor # << >> /\ token = Encode(token.cursor))
  BY DEF TokenStands
<1>2. SUFFICES ASSUME t # token PROVE FALSE
  OBVIOUS
<1>3. PICK cursor : t = [token EXCEPT !.cursor = cursor]
  BY <1>2 DEF Requests, Edited
<1>4. token = [checksum |-> token.cursor, cursor |-> token.cursor]
  BY <1>1 DEF EmptyToken, Encode
<1>5. t = [checksum |-> token.cursor, cursor |-> cursor]
  BY <1>3, <1>4
<1>6. t # EmptyToken
  BY <1>1, <1>2, <1>5 DEF EmptyToken
<1>7. cursor = token.cursor
  BY <1>5, <1>6 DEF Parses
<1> QED
  BY <1>2, <1>4, <1>5, <1>7

(* The last page received, and its last row.                               *)
LEMMA LatestType ==
  ASSUME TypeOK, pages # << >>
  PROVE  /\ Len(pages) \in Nat /\ Len(pages) \in DOMAIN pages /\ DOMAIN pages = 1..Len(pages)
         /\ Latest.sort \in Orders /\ Latest.rows \in RowSeqs
         /\ Latest.rows # << >> => /\ Len(Latest.rows) \in DOMAIN Latest.rows
                                  /\ LastRow \in RowSet
<1>1. pages \in Seq([sort : Orders, rows : RowSeqs])
  BY DEF TypeOK
<1>2. /\ Len(pages) \in Nat /\ Len(pages) \in DOMAIN pages /\ DOMAIN pages = 1..Len(pages)
  BY <1>1
<1>3. Latest \in [sort : Orders, rows : RowSeqs]
  BY <1>1, <1>2, ElementOfSeq DEF Latest
<1>4. ASSUME Latest.rows # << >>
      PROVE  Len(Latest.rows) \in DOMAIN Latest.rows /\ LastRow \in RowSet
  <2>1. Len(Latest.rows) \in DOMAIN Latest.rows
    BY <1>3, <1>4 DEF RowSeqs
  <2> QED
    BY <1>3, <2>1, RowSeqType DEF LastRow
<1> QED
  BY <1>2, <1>3, <1>4

(* Every page received.                                                    *)
LEMMA PageType ==
  ASSUME TypeOK, NEW p \in DOMAIN pages
  PROVE  /\ pages[p].sort \in Orders /\ pages[p].rows \in RowSeqs
         /\ \A j \in DOMAIN pages[p].rows : pages[p].rows[j].row \in RowSet
<1>1. pages[p] \in [sort : Orders, rows : RowSeqs]
  <2>1. pages \in Seq([sort : Orders, rows : RowSeqs])
    BY DEF TypeOK
  <2> QED
    BY <2>1, LenProperties, ElementOfSeq
<1> QED
  BY <1>1, RowSeqType

(* What lies beyond the last row received lies beyond all of them.         *)
LEMMA BeyondAll ==
  ASSUME TypeOK, TokenStands, PagesInOrder, pages # << >>, phase # "done",
         NEW row \in RowSet, Precedes(Latest.sort, LastRow, row),
         NEW p \in DOMAIN pages, NEW j \in DOMAIN pages[p].rows
  PROVE  Precedes(Latest.sort, pages[p].rows[j].row, row)
<1>1. /\ Len(pages) \in Nat /\ Len(pages) \in DOMAIN pages /\ DOMAIN pages = 1..Len(pages)
      /\ Latest.sort \in Orders /\ Latest.rows \in RowSeqs
  BY LatestType
<1>2. Latest.rows # << >>
  BY DEF TokenStands
<1>3. Len(Latest.rows) \in DOMAIN Latest.rows /\ LastRow \in RowSet
  BY <1>2, LatestType
<1>4. Latest.sort \in Seq(KeySet)
  BY <1>1, OrderType
<1>5. pages[p].rows[j].row \in RowSet
  BY PageType
<1>6. CASE p = Len(pages)
  <2>1. pages[p] = Latest
    BY <1>6 DEF Latest
  <2>2. CASE j = Len(Latest.rows)
    BY <2>1, <2>2 DEF LastRow
  <2>3. CASE j # Len(Latest.rows)
    <3>1. j < Len(Latest.rows)
      BY <1>1, <2>1, <2>3, RowSeqType
    <3>2. ~Precedes(Latest.sort, LastRow, pages[p].rows[j].row)
      BY <1>3, <2>1, <3>1 DEF PagesInOrder, InOrder, LastRow
    <3> QED
      BY <1>3, <1>4, <1>5, <3>2, NotAfterPrecedes
  <2> QED
    BY <2>2, <2>3
<1>7. CASE p # Len(pages)
  <2>1. p < Len(pages)
    BY <1>1, <1>7
  <2>2. pages[p].sort = Latest.sort /\ Precedes(pages[p].sort, pages[p].rows[j].row, LastRow)
    BY <1>1, <1>3, <2>1 DEF PagesInOrder, OrderedOnce, Latest, LastRow
  <2> QED
    BY <1>3, <1>4, <1>5, <2>2, Transitive
<1> QED
  BY <1>6, <1>7

(* A client without a page has no token.                                   *)
LEMMA PagedInit == Init => Paged
<1> SUFFICES ASSUME Init PROVE Paged
  OBVIOUS
<1>1. pages = << >> /\ DOMAIN pages = {} /\ token = EmptyToken /\ phase = "client"
  BY DEF Init
<1> QED
  BY <1>1, TypeInit
    DEF Paged, TokenStands, RowsBeyond, PageCut, PagesInOrder, OrderedOnce, Fetched

(* Steps that leave the pages, the token and the request alone, or drop    *)
(* the request.                                                            *)
LEMMA PagedKept ==
  ASSUME Paged, UNCHANGED <<size, token, sort, rows, page, pages>>,
         phase' = phase \/ (phase' = "client" /\ Fetched)
  PROVE  TokenStands' /\ RowsBeyond' /\ PageCut' /\ PagesInOrder'
<1>1. /\ phase' # "done" => phase # "done"
      /\ Fetched' => Fetched
      /\ phase' = "responded" => phase = "responded"
  BY DEF Fetched
<1>2. TokenStands'
  BY <1>1 DEF Paged, TokenStands, Latest, LastRow
<1>3. RowsBeyond'
  BY <1>1 DEF Paged, RowsBeyond, Latest, LastRow
<1>4. PageCut'
  BY <1>1 DEF Paged, PageCut, LastKept
<1>5. PagesInOrder'
  BY DEF Paged, PagesInOrder, OrderedOnce
<1> QED
  BY <1>2, <1>3, <1>4, <1>5

(* What writers, lost responses, changed sorts and errors leave alone.     *)
LEMMA PagedElsewhere == Paged /\ (Write \/ Resort \/ Lose \/ FailPage \/ UNCHANGED vars) => Paged'
<1> SUFFICES ASSUME Paged, Write \/ Resort \/ Lose \/ FailPage \/ UNCHANGED vars PROVE Paged'
  OBVIOUS
<1>1. /\ UNCHANGED <<size, token, sort, rows, page, pages>>
      /\ phase' = phase \/ (phase' = "client" /\ Fetched)
  BY DEF Write, Put, Delete, Touch, Resort, Lose, FailPage, Fault, request, history, vars, Fetched
<1>2. TypeOK'
  BY TypeNext DEF Next, Handle, Paged
<1> QED
  BY <1>1, <1>2, PagedKept DEF Paged

(* What the handler is given: the client's own token, which agrees with    *)
(* the sort it asks for, and rows that the token selects.                  *)
LEMMA Fetching ==
  ASSUME TypeOK, TokenStands, Fetch
  PROVE  /\ phase = "client" /\ phase' = "fetched" /\ sort' = order_by /\ order_by \in Orders
         /\ Agrees(token.cursor, order_by) /\ build' \in Builds /\ calm' = TRUE
         /\ CursorAccepted(token.cursor, build')
         /\ UNCHANGED <<table, size, order_by, token, page, pages, stable, quiet, writes>>
         /\ \E ids \in Results(token.cursor, order_by, Limit(size)) :
              rows' = [k \in DOMAIN ids |-> [id |-> ids[k], row |-> table[ids[k]]]]
<1>1. /\ phase = "client" /\ phase' = "fetched" /\ sort' = order_by /\ order_by \in Orders
      /\ build' \in Builds /\ calm' = TRUE
      /\ UNCHANGED <<table, size, order_by, token, page, pages, stable, quiet, writes>>
  BY DEF Fetch, TypeOK
<1>2. PICK t \in Requests :
        /\ Parses(t) /\ Agrees(Parse(t), order_by) /\ CursorAccepted(Parse(t), build')
        /\ \E ids \in Results(Parse(t), order_by, Limit(size)) :
             rows' = [k \in DOMAIN ids |-> [id |-> ids[k], row |-> table[ids[k]]]]
  BY DEF Fetch
<1>3. Parse(t) = token.cursor
  BY <1>1, <1>2, OnlyOwnToken DEF Parse
<1> QED
  BY <1>1, <1>2, <1>3

(* A token that agrees with a sort was cut in that sort.                   *)
LEMMA SameSort ==
  ASSUME TokenStands, pages # << >>, phase # "done", NEW o, Agrees(token.cursor, o)
  PROVE  o = Latest.sort
  BY DEF TokenStands, StandsAfter, Agrees, IsEmptyCursor

(* What is fetched lies beyond the last page's last row, in order.         *)
LEMMA PagedFetch == ExactBoundaries /\ Paged /\ Fetch => Paged'
<1> SUFFICES ASSUME ExactBoundaries, Paged, Fetch PROVE Paged'
  OBVIOUS
<1>1. TypeOK /\ TokenStands /\ PagesInOrder
  BY DEF Paged
<1>2. /\ phase = "client" /\ phase' = "fetched" /\ sort' = order_by /\ order_by \in Orders
      /\ Agrees(token.cursor, order_by)
      /\ UNCHANGED <<table, size, order_by, token, page, pages, stable, quiet, writes>>
  BY <1>1, Fetching
<1>3. PICK ids \in Results(token.cursor, order_by, Limit(size)) :
        rows' = [k \in DOMAIN ids |-> [id |-> ids[k], row |-> table[ids[k]]]]
  BY <1>1, Fetching
<1> DEFINE found == {id \in DOMAIN table : Selected(token.cursor, table[id])}
<1>4. ids \in Seq(found) /\ Sorted(ids, order_by)
  BY <1>1, <1>3, TableRows, PageSizes, FoundRows
<1>5. \A k \in DOMAIN ids : ids[k] \in found
  <2> HIDE DEF found
  <2> QED
    BY <1>4
<1>6. /\ DOMAIN rows' = DOMAIN ids
      /\ \A k \in DOMAIN ids : rows'[k].id = ids[k] /\ rows'[k].row = table[ids[k]]
  BY <1>3
<1>7. InOrder(rows', sort')
  BY <1>2, <1>4, <1>6 DEF InOrder, Sorted
<1>8. ASSUME pages # << >>
      PROVE  sort' = Latest.sort /\ \A k \in DOMAIN rows' : Precedes(sort', LastRow, rows'[k].row)
  <2>1. sort' = Latest.sort
    BY <1>1, <1>2, <1>8, SameSort
  <2>2. /\ token.cursor # << >> /\ StandsAfter(token.cursor, Latest.sort, LastRow)
        /\ Latest.rows # << >>
    BY <1>1, <1>2, <1>8 DEF TokenStands
  <2>3. Latest.sort \in Orders /\ LastRow \in RowSet
    BY <1>1, <1>8, <2>2, LatestType
  <2>4. ASSUME NEW k \in DOMAIN ids PROVE Precedes(Latest.sort, LastRow, table[ids[k]])
    <3>1. ids[k] \in DOMAIN table /\ After(token.cursor, table[ids[k]])
      BY <1>5, <2>2 DEF Selected, IsEmptyCursor
    <3>2. table[ids[k]] \in RowSet
      BY <1>1, <3>1, TableRows
    <3> QED
      BY <2>2, <2>3, <3>1, <3>2, SelectedBeyond
  <2> QED
    BY <1>6, <2>1, <2>4
<1>9. RowsBeyond'
  BY <1>2, <1>7, <1>8 DEF RowsBeyond, Latest, LastRow
<1>10. TokenStands' /\ PageCut' /\ PagesInOrder'
  BY <1>1, <1>2 DEF TokenStands, PageCut, PagesInOrder, OrderedOnce, Latest, LastRow
<1>11. TypeOK'
  BY <1>1, TypeFetch
<1> QED
  BY <1>9, <1>10, <1>11 DEF Paged

(* A page's cursor stands after the last row kept.                         *)
LEMMA PagedCutPage == ExactBoundaries /\ Paged /\ CutPage => Paged'
<1> SUFFICES ASSUME ExactBoundaries, Paged, CutPage PROVE Paged'
  OBVIOUS
<1>1. /\ phase = "fetched" /\ phase' = "responded"
      /\ UNCHANGED <<table, size, order_by, token, build, sort, rows, pages, stable, writes,
                     faults>>
      /\ page' = [rows   |-> Kept(rows, size),
                  cursor |-> IF IsLast(rows, size) THEN << >>
                             ELSE AfterRow(New(sort), Shown, LastKept, build)]
  BY DEF CutPage, history
<1>2. PageCut'
  <2>1. ASSUME ~IsLast(rows, size)
        PROVE  StandsAfter(AfterRow(New(sort), Shown, LastKept, build), sort, LastKept)
    <3>1. Readable(New(sort), Shown, LastKept, build)
      BY <2>1 DEF CutPage, PageFails
    <3>2. \E id \in RowIds : LastKept \in Cells(id)
      BY <2>1, LastKeptRow DEF Paged
    <3>3. sort \in Orders
      BY <1>1 DEF Paged, TypeOK, Fetched
    <3> QED
      BY <3>1, <3>2, <3>3, CursorStands
  <2> QED
    BY <1>1, <2>1 DEF PageCut, LastKept
<1>3. RowsBeyond'
  BY <1>1 DEF Paged, RowsBeyond, Fetched, Latest, LastRow
<1>4. TokenStands' /\ PagesInOrder'
  BY <1>1 DEF Paged, TokenStands, PagesInOrder, OrderedOnce, Latest, LastRow
<1>5. TypeOK'
  BY TypeCutPage DEF Paged
<1> QED
  BY <1>2, <1>3, <1>4, <1>5 DEF Paged

(* The page that is received becomes the last one.                         *)
LEMMA Receiving ==
  ASSUME TypeOK, Receive
  PROVE  /\ phase = "responded" /\ Fetched /\ sort \in Orders
         /\ token' = Encode(page.cursor) /\ token'.cursor = page.cursor /\ quiet' = calm
         /\ phase' = IF page.cursor = << >> THEN "done" ELSE "client"
         /\ UNCHANGED <<table, size, order_by, stable, calm, writes, faults>>
         /\ pages' # << >> /\ Len(pages') = Len(pages) + 1 /\ Len(pages) \in Nat
         /\ DOMAIN pages = 1..Len(pages) /\ DOMAIN pages' = 1..(Len(pages) + 1)
         /\ \A p \in DOMAIN pages : pages'[p] = pages[p]
         /\ Latest' = [sort |-> sort, rows |-> page.rows]
         /\ pages'[Len(pages) + 1] = [sort |-> sort, rows |-> page.rows]
<1>1. /\ phase = "responded" /\ pages' = Append(pages, [sort |-> sort, rows |-> page.rows])
      /\ token' = Encode(page.cursor) /\ quiet' = calm
      /\ phase' = IF page.cursor = << >> THEN "done" ELSE "client"
      /\ UNCHANGED <<table, size, order_by, stable, calm, writes, faults>>
  BY DEF Receive, IsEmptyCursor
<1>2. sort \in Orders /\ Fetched
  BY <1>1 DEF TypeOK, Fetched
<1>3. /\ pages \in Seq([sort : Orders, rows : RowSeqs])
      /\ [sort |-> sort, rows |-> page.rows] \in [sort : Orders, rows : RowSeqs]
  BY <1>2 DEF TypeOK
<1>4. /\ Len(pages') = Len(pages) + 1 /\ Len(pages) \in Nat
      /\ DOMAIN pages = 1..Len(pages) /\ DOMAIN pages' = 1..(Len(pages) + 1)
      /\ \A p \in 1..Len(pages) : pages'[p] = pages[p]
      /\ pages'[Len(pages) + 1] = [sort |-> sort, rows |-> page.rows]
  BY <1>1, <1>3, AppendProperties, LenProperties
<1>5. pages' # << >>
  BY <1>4
<1>6. Latest' = [sort |-> sort, rows |-> page.rows]
  BY <1>4 DEF Latest
<1> QED
  BY <1>1, <1>2, <1>4, <1>5, <1>6 DEF Encode

(* The page the handler responds with.                                     *)
LEMMA PageRows ==
  ASSUME TypeOK, PageCut, phase = "responded"
  PROVE  /\ page.rows = Kept(rows, size) /\ page.rows \in RowSeqs
         /\ DOMAIN page.rows = 1..Len(page.rows) /\ Len(page.rows) \in Nat
         /\ Len(page.rows) = IF Len(rows) < PageSize(size) THEN Len(rows) ELSE PageSize(size)
         /\ \A k \in DOMAIN page.rows : k \in DOMAIN rows /\ page.rows[k] = rows[k]
         /\ page.cursor # << >> => ~IsLast(rows, size) /\ StandsAfter(page.cursor, sort, LastKept)
<1>1. page.rows = Kept(rows, size) /\ page.rows \in RowSeqs
  BY DEF PageCut, TypeOK
<1>2. DOMAIN page.rows = 1..Len(page.rows) /\ Len(page.rows) \in Nat
  BY <1>1, RowSeqType
<1>3. rows \in Seq([id : RowIds, row : AllCells]) /\ PageSize(size) \in Nat
  BY PageSizes DEF TypeOK, RowSeqs
<1>4. page.cursor # << >> => ~IsLast(rows, size) /\ StandsAfter(page.cursor, sort, LastKept)
  BY DEF PageCut
<1> QED
  BY <1>1, <1>2, <1>3, <1>4, KeptRows

(* A received page lies beyond all pages before it.                        *)
LEMMA PagedReceive == Paged /\ Receive => Paged'
<1> SUFFICES ASSUME Paged, Receive PROVE Paged'
  OBVIOUS
<1>1. TypeOK /\ TokenStands /\ RowsBeyond /\ PageCut /\ PagesInOrder
  BY DEF Paged
<1> DEFINE new == Len(pages) + 1
<1>2. /\ phase = "responded" /\ Fetched /\ sort \in Orders
      /\ token' = Encode(page.cursor) /\ token'.cursor = page.cursor
      /\ phase' = IF page.cursor = << >> THEN "done" ELSE "client"
      /\ pages' # << >> /\ Len(pages') = new /\ Len(pages) \in Nat
      /\ DOMAIN pages = 1..Len(pages) /\ DOMAIN pages' = 1..new
      /\ \A p \in DOMAIN pages : pages'[p] = pages[p]
      /\ Latest' = [sort |-> sort, rows |-> page.rows]
      /\ pages'[new] = [sort |-> sort, rows |-> page.rows]
  BY <1>1, Receiving
<1>3. /\ page.rows = Kept(rows, size) /\ page.rows \in RowSeqs
      /\ \A k \in DOMAIN page.rows : k \in DOMAIN rows /\ page.rows[k] = rows[k]
      /\ page.cursor # << >> => ~IsLast(rows, size) /\ StandsAfter(page.cursor, sort, LastKept)
  BY <1>1, <1>2, PageRows
<1>4. LastRow' = LastKept
  BY <1>2, <1>3 DEF LastRow, LastKept
<1>5. TokenStands'
  <2>1. ASSUME page.cursor # << >>
        PROVE  /\ Latest'.rows # << >> /\ StandsAfter(token'.cursor, Latest'.sort, LastRow')
               /\ token' = Encode(token'.cursor)
    BY <1>1, <1>2, <1>3, <1>4, <2>1, LastKeptRow
  <2> QED
    BY <1>2, <2>1 DEF TokenStands
<1>6. \A p \in DOMAIN pages :
        /\ pages[p].rows # << >> /\ pages[p].sort = sort
        /\ \A j \in DOMAIN pages[p].rows, k \in DOMAIN page.rows :
             Precedes(sort, pages[p].rows[j].row, page.rows[k].row)
  <2> SUFFICES ASSUME NEW p \in DOMAIN pages
               PROVE  /\ pages[p].rows # << >> /\ pages[p].sort = sort
                      /\ \A j \in DOMAIN pages[p].rows, k \in DOMAIN page.rows :
                           Precedes(sort, pages[p].rows[j].row, page.rows[k].row)
    OBVIOUS
  <2>1. pages # << >> /\ phase # "done"
    BY <1>2
  <2>2. /\ sort = Latest.sort
        /\ \A k \in DOMAIN rows : Precedes(Latest.sort, LastRow, rows[k].row)
    BY <1>1, <1>2, <2>1 DEF RowsBeyond
  <2>3. ASSUME NEW j \in DOMAIN pages[p].rows, NEW k \in DOMAIN page.rows
        PROVE  Precedes(sort, pages[p].rows[j].row, page.rows[k].row)
    <3>1. Precedes(Latest.sort, LastRow, page.rows[k].row) /\ page.rows[k].row \in RowSet
      BY <1>3, <2>2, RowSeqType
    <3> QED
      BY <1>1, <2>1, <2>2, <3>1, BeyondAll
  <2>4. pages[p].rows # << >> /\ pages[p].sort = sort
    <3>1. CASE p = Len(pages)
      BY <1>1, <2>1, <2>2, <3>1 DEF TokenStands, Latest
    <3>2. CASE p < Len(pages)
      <4>1. pages[p].rows # << >>
        BY <1>1, <3>2 DEF PagesInOrder
      <4>2. pages[p].sort = pages[Len(pages)].sort
        BY <1>1, <1>2, <3>2 DEF PagesInOrder, OrderedOnce
      <4> QED
        BY <2>2, <4>1, <4>2 DEF Latest
    <3> QED
      BY <1>2, <3>1, <3>2
  <2> QED
    BY <2>3, <2>4
<1>7. OrderedOnce'
  <2> SUFFICES ASSUME NEW p \in DOMAIN pages', NEW q \in DOMAIN pages', p < q
               PROVE  /\ pages'[p].sort = pages'[q].sort
                      /\ \A j \in DOMAIN pages'[p].rows, k \in DOMAIN pages'[q].rows :
                           Precedes(pages'[p].sort, pages'[p].rows[j].row, pages'[q].rows[k].row)
    BY DEF OrderedOnce
  <2>1. p \in DOMAIN pages /\ pages'[p] = pages[p]
    BY <1>2
  <2>2. CASE q = new
    BY <1>2, <1>6, <2>1, <2>2
  <2>3. CASE q # new
    <3>1. q \in DOMAIN pages /\ pages'[q] = pages[q]
      BY <1>2, <2>3
    <3> QED
      BY <1>1, <2>1, <3>1 DEF PagesInOrder, OrderedOnce
  <2> QED
    BY <2>2, <2>3
<1>8. ASSUME NEW p \in DOMAIN pages'
      PROVE  /\ InOrder(pages'[p].rows, pages'[p].sort)
             /\ p < Len(pages') => pages'[p].rows # << >>
  <2>1. CASE p = new
    <3>1. InOrder(rows, sort)
      BY <1>1, <1>2 DEF RowsBeyond
    <3>2. InOrder(page.rows, sort)
      BY <1>3, <3>1 DEF InOrder
    <3> QED
      BY <1>2, <2>1, <3>2
  <2>2. CASE p # new
    <3>1. p \in DOMAIN pages /\ pages'[p] = pages[p]
      BY <1>2, <2>2
    <3> QED
      BY <1>1, <1>6, <3>1 DEF PagesInOrder
  <2> QED
    BY <2>1, <2>2
<1>9. PagesInOrder'
  BY <1>7, <1>8 DEF PagesInOrder, InOrder
<1>10. RowsBeyond' /\ PageCut'
  BY <1>2 DEF RowsBeyond, PageCut, Fetched
<1>11. TypeOK'
  BY <1>1, TypeReceive
<1> QED
  BY <1>5, <1>9, <1>10, <1>11 DEF Paged

(* Together: the first part of the invariant is inductive.                 *)
LEMMA PagedNext == ExactBoundaries /\ Paged /\ [Next]_vars => Paged'
  BY PagedElsewhere, PagedFetch, PagedCutPage, PagedReceive DEF Next, Handle

(* Where boundaries are exact, a token stands after the last row of the    *)
(* page it came with, and a handler reads on from there.                   *)
THEOREM PagedHolds == ExactBoundaries => (Spec => []Paged)
<1>1. ASSUME ExactBoundaries PROVE Spec => []Paged
  <2>1. Paged /\ [Next]_vars => Paged'
    BY <1>1, PagedNext
  <2> QED
    BY <2>1, PagedInit, PTL DEF Spec
<1> QED
  BY <1>1

(* The pages a client receives are in one ordering, and every row of a     *)
(* page lies strictly beyond every row of the pages before it, whatever is *)
(* written, lost, resorted or edited in between.                           *)
THEOREM OrderedOnceHolds == ExactBoundaries => (Spec => []OrderedOnce)
<1>1. Paged => OrderedOnce
  BY DEF Paged, PagesInOrder
<1> QED
  BY <1>1, PagedHolds, PTL

-----------------------------------------------------------------------------
(* What is received, somebody wrote.                                       *)

InTable == {[id |-> id, row |-> table[id]] : id \in DOMAIN table}
AtHand  == {rows[k] : k \in DOMAIN rows}
Sent    == {pages[d[1]].rows[d[2]] : d \in Deliveries}

(* Only a write makes a row.                                               *)
LEMMA NoNewVersion ==
  ASSUME TypeOK, Versioned, InTable' \cup AtHand' \cup Sent' \subseteq Versions, writes' = writes
  PROVE  Versioned'
<1>1. Versions' = InTable' \cup AtHand' \cup Sent'
  BY DEF Versions, InTable, AtHand, Sent
<1>2. Versions' \in SUBSET Versions /\ IsFiniteSet(Versions)
  BY <1>1 DEF Versioned
<1>3. IsFiniteSet(Versions') /\ Cardinality(Versions') <= Cardinality(Versions)
  BY <1>2, FS_Subset
<1>4. Cardinality(Versions) <= Cardinality(RowIds) + writes
  BY DEF Versioned
<1>5. /\ Cardinality(Versions) \in Nat /\ Cardinality(Versions') \in Nat
      /\ Cardinality(RowIds) \in Nat /\ writes \in Nat
  BY <1>2, <1>3, FS_CardinalityType, TableAssumption, RequestAssumption DEF TypeOK
<1> QED
  BY <1>3, <1>4, <1>5 DEF Versioned

(* At first there are the rows of the table, one for each primary key.     *)
LEMMA VersionedInit == Init /\ TypeOK => Versioned
<1> SUFFICES ASSUME Init, TypeOK PROVE Versioned
  OBVIOUS
<1>1. rows = << >> /\ pages = << >> /\ writes = 0
  BY DEF Init
<1>2. Versions = InTable
  BY <1>1 DEF Versions, InTable, Deliveries
<1>3. IsFiniteSet(DOMAIN table) /\ DOMAIN table \in SUBSET RowIds
  BY TableRows DEF TypeOK
<1> DEFINE f == [id \in DOMAIN table |-> [id |-> id, row |-> table[id]]]
<1>4. f \in Surjection(DOMAIN table, InTable)
  BY DEF Surjection, InTable
<1>5. IsFiniteSet(InTable) /\ Cardinality(InTable) <= Cardinality(DOMAIN table)
  BY <1>3, <1>4, FS_Surjection
<1>6. Cardinality(DOMAIN table) <= Cardinality(RowIds)
  BY <1>3, TableAssumption, FS_Subset
<1>7. Cardinality(InTable) \in Nat /\ Cardinality(DOMAIN table) \in Nat /\ Cardinality(RowIds) \in Nat
  BY <1>3, <1>5, FS_CardinalityType, TableAssumption
<1> QED
  BY <1>1, <1>2, <1>5, <1>6, <1>7 DEF Versioned

(* A writer makes one row at most.                                         *)
LEMMA VersionedWrite == TypeOK /\ Versioned /\ Write => Versioned'
<1> SUFFICES ASSUME TypeOK, Versioned, NEW id \in RowIds, Put(id) \/ Delete(id) PROVE Versioned'
  BY DEF Write
<1>1. UNCHANGED <<rows, pages>> /\ writes' = writes + 1 /\ writes \in Nat
  BY RequestAssumption DEF Put, Delete, Touch, request, TypeOK
<1>2. AtHand' = AtHand /\ Sent' = Sent
  BY <1>1 DEF AtHand, Sent, Deliveries
<1>3. \E v : InTable' \subseteq InTable \cup {v}
  <2>1. CASE Put(id)
    <3>1. PICK row \in Cells(id) :
            table' = [x \in DOMAIN table \cup {id} |-> IF x = id THEN row ELSE table[x]]
      BY <2>1 DEF Put
    <3>2. InTable' \subseteq InTable \cup {[id |-> id, row |-> row]}
      BY <3>1 DEF InTable
    <3> QED
      BY <3>2
  <2>2. CASE Delete(id)
    <3>1. table' = [x \in DOMAIN table \ {id} |-> table[x]]
      BY <2>2 DEF Delete
    <3>2. InTable' \subseteq InTable
      BY <3>1 DEF InTable
    <3> QED
      BY <3>2
  <2> QED
    BY <2>1, <2>2
<1>4. PICK v : InTable' \subseteq InTable \cup {v}
  BY <1>3
<1>5. Versions' \in SUBSET (Versions \cup {v})
  BY <1>2, <1>4 DEF Versions, InTable, AtHand, Sent
<1>6. /\ IsFiniteSet(Versions) /\ Cardinality(Versions) <= Cardinality(RowIds) + writes
      /\ Cardinality(Versions) \in Nat /\ Cardinality(RowIds) \in Nat
  BY FS_CardinalityType, TableAssumption DEF Versioned
<1>7. /\ IsFiniteSet(Versions \cup {v})
      /\ Cardinality(Versions \cup {v}) = IF v \in Versions THEN Cardinality(Versions)
                                                     ELSE Cardinality(Versions) + 1
  BY <1>6, FS_AddElement
<1>8. IsFiniteSet(Versions') /\ Cardinality(Versions') <= Cardinality(Versions \cup {v})
  BY <1>5, <1>7, FS_Subset
<1>9. Cardinality(Versions') \in Nat
  BY <1>8, FS_CardinalityType
<1> QED
  BY <1>1, <1>6, <1>7, <1>8, <1>9 DEF Versioned

(* A query reads rows of the table.                                        *)
LEMMA VersionedFetch == TypeOK /\ TokenStands /\ Versioned /\ Fetch => Versioned'
<1> SUFFICES ASSUME TypeOK, TokenStands, Versioned, Fetch PROVE Versioned'
  OBVIOUS
<1>1. UNCHANGED <<table, pages, writes>>
  BY DEF Fetch
<1>2. PICK ids \in Results(token.cursor, order_by, Limit(size)) :
        rows' = [k \in DOMAIN ids |-> [id |-> ids[k], row |-> table[ids[k]]]]
  BY Fetching
<1> DEFINE found == {id \in DOMAIN table : Selected(token.cursor, table[id])}
<1>3. ids \in Seq(found)
  BY <1>2, TableRows, PageSizes, FoundRows
<1>4. \A k \in DOMAIN ids : ids[k] \in found
  <2> HIDE DEF found
  <2> QED
    BY <1>3
<1>5. AtHand' \subseteq InTable
  BY <1>2, <1>4 DEF AtHand, InTable
<1>6. InTable' = InTable /\ Sent' = Sent
  BY <1>1 DEF InTable, Sent, Deliveries
<1>7. InTable' \cup AtHand' \cup Sent' \subseteq Versions
  BY <1>5, <1>6 DEF Versions, InTable, AtHand, Sent
<1> QED
  BY <1>1, <1>7, NoNewVersion

(* What has been received, and the page the client receives now.           *)
LEMMA DeliveredNow ==
  ASSUME TypeOK, Receive
  PROVE  Deliveries' = Deliveries \cup {<<Len(pages) + 1, k>> : k \in DOMAIN page.rows}
<1>1. /\ Len(pages) \in Nat
      /\ DOMAIN pages = 1..Len(pages) /\ DOMAIN pages' = 1..(Len(pages) + 1)
      /\ \A p \in DOMAIN pages : pages'[p] = pages[p]
      /\ pages'[Len(pages) + 1].rows = page.rows
  BY Receiving
<1>2. DOMAIN pages' = DOMAIN pages \cup {Len(pages) + 1}
  BY <1>1
<1> DEFINE at(p) == {<<p, k>> : k \in DOMAIN pages[p].rows}
           now   == {<<Len(pages) + 1, k>> : k \in DOMAIN page.rows}
<1>3. Deliveries' = UNION {{<<p, k>> : k \in DOMAIN pages'[p].rows} : p \in DOMAIN pages'}
  BY DEF Deliveries
<1>4. \A p \in DOMAIN pages : {<<p, k>> : k \in DOMAIN pages'[p].rows} = at(p)
  BY <1>1
<1>5. {<<Len(pages) + 1, k>> : k \in DOMAIN pages'[Len(pages) + 1].rows} = now
  BY <1>1
<1>6. Deliveries = UNION {at(p) : p \in DOMAIN pages}
  BY DEF Deliveries
<1> QED
  BY <1>2, <1>3, <1>4, <1>5, <1>6

(* A page is of rows at hand.                                              *)
LEMMA VersionedReceive == Paged /\ Versioned /\ Receive => Versioned'
<1> SUFFICES ASSUME Paged, Versioned, Receive PROVE Versioned'
  OBVIOUS
<1>1. TypeOK /\ PageCut /\ phase = "responded" /\ rows' = << >>
  BY DEF Paged, Receive
<1>2. /\ Len(pages) \in Nat /\ DOMAIN pages = 1..Len(pages)
      /\ \A p \in DOMAIN pages : pages'[p] = pages[p]
      /\ pages'[Len(pages) + 1].rows = page.rows
      /\ UNCHANGED <<table, writes>>
  BY <1>1, Receiving
<1>3. \A k \in DOMAIN page.rows : page.rows[k] \in AtHand
  BY <1>1, PageRows DEF AtHand
<1>4. \A d \in Deliveries' : pages'[d[1]].rows[d[2]] \in Sent \cup AtHand
  <2>1. ASSUME NEW d \in Deliveries PROVE pages'[d[1]].rows[d[2]] \in Sent
    <3>1. d[1] \in DOMAIN pages
      BY <2>1 DEF Deliveries
    <3> QED
      BY <1>2, <2>1, <3>1 DEF Sent
  <2>2. ASSUME NEW k \in DOMAIN page.rows, NEW d, d = <<Len(pages) + 1, k>>
        PROVE  pages'[d[1]].rows[d[2]] \in AtHand
    BY <1>2, <1>3, <2>2
  <2> QED
    BY <1>1, <2>1, <2>2, DeliveredNow
<1>5. Sent' \subseteq Sent \cup AtHand /\ InTable' = InTable /\ AtHand' = {}
  <2>1. Sent' \subseteq Sent \cup AtHand
    <3>1. Sent' = {pages'[d[1]].rows[d[2]] : d \in Deliveries'}
      BY DEF Sent
    <3> QED
      BY <1>4, <3>1
  <2>2. InTable' = InTable
    BY <1>2 DEF InTable
  <2>3. AtHand' = {}
    BY <1>1 DEF AtHand
  <2> QED
    BY <2>1, <2>2, <2>3
<1>6. InTable' \cup AtHand' \cup Sent' \subseteq Versions
  BY <1>5 DEF Versions, InTable, AtHand, Sent
<1> QED
  BY <1>1, <1>2, <1>6, NoNewVersion

(* There are never more rows than there were and writes have made.         *)
LEMMA VersionedNext == Paged /\ Versioned /\ [Next]_vars => Versioned'
<1> SUFFICES ASSUME Paged, Versioned, [Next]_vars PROVE Versioned'
  OBVIOUS
<1>1. TypeOK /\ TokenStands
  BY DEF Paged
<1>2. CASE Resort \/ Lose \/ FailPage \/ CutPage \/ UNCHANGED vars
  <2>1. UNCHANGED <<table, rows, pages, writes>>
    BY <1>2 DEF Resort, Lose, Fault, FailPage, CutPage, request, history, vars
  <2>2. InTable' = InTable /\ AtHand' = AtHand /\ Sent' = Sent
    BY <2>1 DEF InTable, AtHand, Sent, Deliveries
  <2>3. InTable' \cup AtHand' \cup Sent' \subseteq Versions
    BY <2>2 DEF Versions, InTable, AtHand, Sent
  <2> QED
    BY <1>1, <2>1, <2>3, NoNewVersion
<1> QED
  BY <1>1, <1>2, VersionedWrite, VersionedFetch, VersionedReceive DEF Next, Handle

(* No two of the rows received are the same row as written.                *)
LEMMA DeliveriesDiffer ==
  ASSUME Paged, NEW d \in Deliveries, NEW e \in Deliveries,
         pages[d[1]].rows[d[2]] = pages[e[1]].rows[e[2]]
  PROVE  d = e
<1>1. PICK p \in DOMAIN pages : \E j \in DOMAIN pages[p].rows : d = <<p, j>>
  BY DEF Deliveries
<1>2. PICK j \in DOMAIN pages[p].rows : d = <<p, j>>
  BY <1>1
<1>3. PICK q \in DOMAIN pages : \E k \in DOMAIN pages[q].rows : e = <<q, k>>
  BY DEF Deliveries
<1>4. PICK k \in DOMAIN pages[q].rows : e = <<q, k>>
  BY <1>3
<1>5. /\ TypeOK /\ OrderedOnce /\ InOrder(pages[p].rows, pages[p].sort)
      /\ pages[p].rows[j] = pages[q].rows[k]
  BY <1>2, <1>4 DEF Paged, PagesInOrder
<1>6. /\ DOMAIN pages = 1..Len(pages) /\ Len(pages) \in Nat
      /\ DOMAIN pages[p].rows = 1..Len(pages[p].rows) /\ Len(pages[p].rows) \in Nat
      /\ pages[p].sort \in Seq(KeySet) /\ pages[q].sort \in Seq(KeySet)
      /\ pages[p].rows[j].row \in RowSet
  <2>1. DOMAIN pages = 1..Len(pages) /\ Len(pages) \in Nat
    BY <1>5, LenProperties DEF TypeOK
  <2> QED
    BY <1>5, <2>1, PageType, RowSeqType, OrderType
<1>7. p = q
  <2>1. ASSUME p < q \/ q < p PROVE FALSE
    <3> DEFINE o == pages[p].sort
               r == pages[p].rows[j].row
    <3>1. Precedes(o, r, r)
      BY <1>5, <2>1 DEF OrderedOnce
    <3>2. o \in Seq(KeySet) /\ r \in RowSet /\ Ties(o, r, r)
      BY <1>6 DEF Ties
    <3> HIDE DEF o, r
    <3> QED
      BY <3>1, <3>2, Irreflexive
  <2> QED
    BY <1>6, <2>1
<1>8. j = k
  <2>1. j \in DOMAIN pages[p].rows /\ k \in DOMAIN pages[p].rows
    BY <1>7
  <2>2. ~(j < k) /\ ~(k < j)
    BY <1>5, <1>7, <2>1 DEF InOrder
  <2> QED
    BY <1>6, <2>1, <2>2
<1> QED
  BY <1>2, <1>4, <1>7, <1>8

(* Where boundaries are exact, the rows at hand and received are no more   *)
(* than there were at first and writers have made since.                   *)
THEOREM VersionedHolds == ExactBoundaries => (Spec => []Versioned)
<1>1. ASSUME ExactBoundaries PROVE Spec => []Versioned
  <2>1. Init => Versioned
    BY TypeInit, VersionedInit
  <2>2. Paged /\ Versioned /\ [Next]_vars => Versioned'
    BY VersionedNext
  <2>3. Spec => []Paged
    BY <1>1, PagedHolds
  <2> QED
    BY <2>1, <2>2, <2>3, PTL DEF Spec
<1> QED
  BY <1>1

(* What has been received fits into what has been written.                 *)
LEMMA DeliveriesFit ==
  ASSUME Paged, Versioned
  PROVE  IsFiniteSet(Deliveries) /\ Cardinality(Deliveries) \in Nat /\ DeliveriesBounded
<1> DEFINE f == [d \in Deliveries |-> pages[d[1]].rows[d[2]]]
<1>1. f \in [Deliveries -> Versions]
  BY DEF Versions
<1>2. \A d, e \in Deliveries : f[d] = f[e] => d = e
  BY DeliveriesDiffer
<1>3. f \in Injection(Deliveries, Versions)
  BY <1>1, <1>2 DEF Injection, IsInjective
<1> HIDE DEF f
<1>4. IsFiniteSet(Versions) /\ Cardinality(Versions) <= Cardinality(RowIds) + writes
  BY DEF Versioned
<1>5. IsFiniteSet(Deliveries) /\ Cardinality(Deliveries) <= Cardinality(Versions)
  BY <1>3, <1>4, FS_Injection
<1>6. /\ Cardinality(Deliveries) \in Nat /\ Cardinality(Versions) \in Nat
      /\ Cardinality(RowIds) \in Nat /\ writes \in Nat
  BY <1>4, <1>5, FS_CardinalityType, TableAssumption, RequestAssumption DEF Paged, TypeOK
<1> QED
  BY <1>4, <1>5, <1>6 DEF DeliveriesBounded

(* A client receives no more rows than were there when it began and were   *)
(* written since, however its pages are cut, lost and asked for again.     *)
THEOREM DeliveriesBoundedHolds == ExactBoundaries => (Spec => []DeliveriesBounded)
<1>1. Paged /\ Versioned => DeliveriesBounded
  BY DeliveriesFit
<1>2. ASSUME ExactBoundaries PROVE Spec => []DeliveriesBounded
  BY <1>1, <1>2, PagedHolds, VersionedHolds, PTL
<1> QED
  BY <1>2

(* Nor more pages than one more than that: every page that another follows *)
(* has a row on it.  This is what is left of the page loop's termination   *)
(* without fairness.                                                       *)
THEOREM PagesBoundedHolds ==
  ExactBoundaries => (Spec => [](Len(pages) <= Cardinality(RowIds) + writes + 1))
<1>1. ASSUME Paged, Versioned PROVE Len(pages) <= Cardinality(RowIds) + writes + 1
  <2> DEFINE n == Len(pages) - 1
             f == [p \in 1..n |-> <<p, 1>>]
  <2>1. Len(pages) \in Nat /\ DOMAIN pages = 1..Len(pages) /\ TypeOK
    BY <1>1, LenProperties DEF Paged, TypeOK
  <2>2. ASSUME NEW p \in 1..n PROVE <<p, 1>> \in Deliveries
    <3>1. p \in DOMAIN pages /\ p < Len(pages)
      BY <2>1, <2>2
    <3>2. pages[p].rows # << >> /\ pages[p].rows \in RowSeqs
      BY <1>1, <2>1, <3>1, PageType DEF Paged, PagesInOrder
    <3>3. 1 \in DOMAIN pages[p].rows
      BY <3>2, EmptySeq, LenProperties DEF RowSeqs
    <3> QED
      BY <3>1, <3>3 DEF Deliveries
  <2>3. n \in Int
    BY <2>1
  <2> HIDE DEF n
  <2>4. f \in Injection(1..n, Deliveries)
    BY <2>2 DEF Injection, IsInjective
  <2> HIDE DEF f
  <2>5. IsFiniteSet(Deliveries) /\ Cardinality(Deliveries) \in Nat /\ DeliveriesBounded
    BY <1>1, DeliveriesFit
  <2>6. Cardinality(1..n) <= Cardinality(Deliveries)
    BY <2>4, <2>5, FS_Injection
  <2>7. Cardinality(1..n) = IF 1 > n THEN 0 ELSE n - 1 + 1
    BY <2>3, FS_Interval
  <2>8. Cardinality(RowIds) \in Nat /\ writes \in Nat
    BY <2>1, FS_CardinalityType, TableAssumption, RequestAssumption DEF TypeOK
  <2> QED
    BY <2>1, <2>3, <2>5, <2>6, <2>7, <2>8 DEF n, DeliveriesBounded
<1>2. ASSUME ExactBoundaries
      PROVE  Spec => [](Len(pages) <= Cardinality(RowIds) + writes + 1)
  BY <1>1, <1>2, PagedHolds, VersionedHolds, PTL
<1> QED
  BY <1>2

-----------------------------------------------------------------------------
(* No row that stays is skipped.                                           *)

(* Before the first page, no row has been reached.                         *)
LEMMA ThoroughInit == Init => Thorough
<1> SUFFICES ASSUME Init PROVE Thorough
  OBVIOUS
<1>1. pages = << >> /\ phase = "client" /\ token = EmptyToken
  BY DEF Init
<1> QED
  BY <1>1 DEF Thorough, Accounted, NotReached, RowsComplete, RowsCurrent, RowsRemain, Fetched

(* A writer takes the row it touches out of the reckoning.                 *)
LEMMA ThoroughWrite == Paged /\ Thorough /\ Write => Thorough'
<1> SUFFICES ASSUME Paged, Thorough, NEW w \in RowIds, Put(w) \/ Delete(w) PROVE Thorough'
  BY DEF Write
<1>1. /\ stable' = stable \ {w} /\ calm' = FALSE /\ quiet' = FALSE
      /\ UNCHANGED <<size, token, phase, sort, rows, page, pages>>
  BY DEF Put, Delete, Touch, request
<1>2. \A id \in stable' : id \in stable /\ table'[id] = table[id]
  <2>1. stable \subseteq DOMAIN table
    BY DEF Paged, TypeOK
  <2>2. CASE Put(w)
    <3>1. PICK row \in Cells(w) :
            table' = [x \in DOMAIN table \cup {w} |-> IF x = w THEN row ELSE table[x]]
      BY <2>2 DEF Put
    <3> QED
      BY <1>1, <2>1, <3>1
  <2>3. CASE Delete(w)
    <3>1. table' = [x \in DOMAIN table \ {w} |-> table[x]]
      BY <2>3 DEF Delete
    <3> QED
      BY <1>1, <2>1, <3>1
  <2> QED
    BY <2>2, <2>3
<1>3. Accounted'
  BY <1>1, <1>2
    DEF Thorough, Accounted, Received, OnPage, SkippedByTie, TiesWithLast, NotReached, Latest, LastRow
<1>4. RowsComplete'
  BY <1>1, <1>2 DEF Thorough, RowsComplete, Fetched, OnHand, CutOff, LastRow, Latest
<1>5. RowsCurrent' /\ RowsRemain'
  BY <1>1 DEF RowsCurrent, RowsRemain
<1> QED
  BY <1>3, <1>4, <1>5 DEF Thorough

(* What does not touch the table, the rows or the pages keeps the rest.    *)
LEMMA ThoroughKept ==
  ASSUME Thorough,
         UNCHANGED <<table, size, token, sort, rows, pages, stable, calm, quiet>>,
         (phase' # "done" /\ phase # "done") \/ phase' = phase, Fetched' => Fetched
  PROVE  Thorough'
<1>1. Accounted'
  BY DEF Thorough, Accounted, Received, OnPage, SkippedByTie, TiesWithLast, NotReached, Latest, LastRow
<1>2. RowsComplete'
  BY DEF Thorough, RowsComplete, OnHand, CutOff, LastRow, Latest
<1>3. RowsCurrent'
  BY DEF Thorough, RowsCurrent
<1>4. RowsRemain'
  BY DEF Thorough, RowsRemain, TiesWithLast, OnPage, Latest
<1> QED
  BY <1>1, <1>2, <1>3, <1>4 DEF Thorough

(* That is what most actions do not touch.                                 *)
LEMMA ThoroughElsewhere ==
  Thorough /\ (Resort \/ Lose \/ FailPage \/ CutPage \/ UNCHANGED vars) => Thorough'
<1> SUFFICES ASSUME Thorough, Resort \/ Lose \/ FailPage \/ CutPage \/ UNCHANGED vars
             PROVE  Thorough'
  OBVIOUS
<1>1. /\ UNCHANGED <<table, size, token, sort, rows, pages, stable, calm, quiet>>
      /\ (phase' # "done" /\ phase # "done") \/ phase' = phase
      /\ Fetched' => Fetched
  BY DEF Resort, Lose, FailPage, CutPage, Fault, request, history, vars, Fetched
<1> QED
  BY <1>1, ThoroughKept

(* The cells of a key are never NULL.                                      *)
LEMMA KeysSolid ==
  ASSUME SolidKeys, NEW o \in Orders, NEW row \in AllCells
  PROVE  \A k \in DOMAIN o : row[o[k].column] # Null
  BY DEF SolidKeys, AllCells

(* The last row received was a row of the table.                           *)
LEMMA LastRowCells ==
  ASSUME TypeOK, pages # << >>, Latest.rows # << >>
  PROVE  LastRow \in AllCells
<1>1. Latest.rows \in RowSeqs /\ Len(Latest.rows) \in DOMAIN Latest.rows
  BY LatestType
<1> QED
  BY <1>1, RowSeqType DEF LastRow

(* A query misses no untouched row beyond the token but those the LIMIT    *)
(* cuts off.                                                               *)
LEMMA ThoroughFetch == SolidKeys /\ Paged /\ Thorough /\ Fetch => Thorough'
<1> SUFFICES ASSUME SolidKeys, Paged, Thorough, Fetch PROVE Thorough'
  OBVIOUS
<1>1. TypeOK /\ TokenStands
  BY DEF Paged
<1>2. /\ phase = "client" /\ phase' = "fetched" /\ sort' = order_by /\ order_by \in Orders
      /\ Agrees(token.cursor, order_by)
      /\ UNCHANGED <<table, size, order_by, token, page, pages, stable, quiet, writes>>
  BY <1>1, Fetching
<1>3. PICK ids \in Results(token.cursor, order_by, Limit(size)) :
        rows' = [k \in DOMAIN ids |-> [id |-> ids[k], row |-> table[ids[k]]]]
  BY <1>1, Fetching
<1> DEFINE found == {id \in DOMAIN table : Selected(token.cursor, table[id])}
<1>4. /\ ids \in Seq(found)
      /\ \A id \in found :
           \/ \E k \in DOMAIN ids : ids[k] = id
           \/ /\ Len(ids) = Limit(size)
              /\ \A k \in DOMAIN ids : ~Precedes(order_by, table[id], table[ids[k]])
  BY <1>1, <1>3, TableRows, PageSizes, FoundRows
<1>5. \A k \in DOMAIN ids : ids[k] \in DOMAIN table
  <2>1. \A k \in DOMAIN ids : ids[k] \in found
    <3> HIDE DEF found
    <3> QED
      BY <1>4
  <2> QED
    BY <2>1
<1>6. /\ DOMAIN rows' = DOMAIN ids /\ Len(rows') = Len(ids)
      /\ \A k \in DOMAIN ids : rows'[k].id = ids[k] /\ rows'[k].row = table[ids[k]]
  <2>1. DOMAIN ids = 1..Len(ids) /\ Len(ids) \in Nat
    <3> HIDE DEF found
    <3> QED
      BY <1>4
  <2> QED
    BY <1>3, <2>1
<1>7. ASSUME NEW id \in stable, pages # << >> => Precedes(order_by, LastRow, table[id])
      PROVE  id \in found
  <2>1. id \in DOMAIN table
    BY <1>1 DEF TypeOK
  <2>2. CASE pages = << >>
    BY <1>1, <2>1, <2>2 DEF TokenStands, EmptyToken, Selected, IsEmptyCursor
  <2>3. CASE pages # << >>
    <3>1. order_by = Latest.sort
      BY <1>1, <1>2, <2>3, SameSort
    <3>2. StandsAfter(token.cursor, order_by, LastRow) /\ Latest.rows # << >>
      BY <1>1, <1>2, <2>3, <3>1 DEF TokenStands
    <3>3. /\ LastRow \in AllCells /\ table[id] \in AllCells
          /\ LastRow \in RowSet /\ table[id] \in RowSet
      BY <1>1, <2>1, <2>3, <3>2, LastRowCells, TableRows, RowType
    <3>4. \A k \in DOMAIN order_by : /\ LastRow[order_by[k].column] # Null
                                    /\ table[id][order_by[k].column] # Null
      BY <1>2, <3>3, KeysSolid
    <3>5. After(token.cursor, table[id])
      BY <1>2, <1>7, <2>3, <3>2, <3>3, <3>4, BeyondSelected
    <3> QED
      BY <2>1, <3>5 DEF Selected
  <2> QED
    BY <2>2, <2>3
<1>8. ASSUME NEW id \in stable, pages # << >> => Precedes(order_by, LastRow, table[id])
      PROVE  OnHand(id)' \/ CutOff(table[id])'
  <2>1. \/ \E k \in DOMAIN ids : ids[k] = id
        \/ /\ Len(ids) = Limit(size)
           /\ \A k \in DOMAIN ids : ~Precedes(order_by, table[id], table[ids[k]])
    BY <1>4, <1>7, <1>8
  <2> QED
    BY <1>2, <1>6, <2>1 DEF OnHand, CutOff
<1>9. RowsComplete'
  <2>1. \A k \in DOMAIN rows' : rows'[k].row = table'[rows'[k].id]
    BY <1>2, <1>6
  <2>2. ASSUME NEW id \in stable', (pages # << >> => Precedes(sort, LastRow, table[id]))'
        PROVE  OnHand(id)' \/ CutOff(table[id])'
    <3>1. id \in stable /\ LastRow' = LastRow
      BY <1>2 DEF LastRow, Latest
    <3> QED
      BY <1>2, <1>8, <2>2, <3>1
  <2> QED
    BY <2>1, <2>2 DEF RowsComplete
<1>10. RowsCurrent'
  BY <1>2, <1>5, <1>6 DEF RowsCurrent
<1>11. Accounted'
  BY <1>2
    DEF Thorough, Accounted, Received, OnPage, SkippedByTie, TiesWithLast, NotReached, Latest, LastRow
<1>12. RowsRemain'
  BY <1>2 DEF Thorough, RowsRemain, TiesWithLast, OnPage, Latest
<1> QED
  BY <1>9, <1>10, <1>11, <1>12 DEF Thorough

(* What a page without a cursor leaves out: nothing.                       *)
LEMMA LastPageKeepsAll ==
  ASSUME SolidKeys, TypeOK, PageCut, phase = "responded", page.cursor = << >>
  PROVE  /\ Len(rows) <= PageSize(size)
         /\ \A k \in DOMAIN rows : k \in DOMAIN page.rows /\ page.rows[k] = rows[k]
<1>1. sort \in Orders /\ sort \in Seq(KeySet) /\ sort # << >>
  BY OrderType DEF TypeOK, Fetched, SolidKeys
<1>2. IsLast(rows, size)
  <2>1. SUFFICES ASSUME ~IsLast(rows, size) PROVE FALSE
    OBVIOUS
  <2>2. StandsAfter(page.cursor, sort, LastKept)
    BY <2>1 DEF PageCut
  <2>3. DOMAIN page.cursor = DOMAIN sort
    BY <1>1, <2>2, StandsKeys
  <2>4. DOMAIN sort = {}
    BY <2>3
  <2> QED
    BY <1>1, <2>4
<1>3. Len(rows) <= PageSize(size) /\ PageSize(size) \in Nat
  BY <1>2, PageSizes DEF IsLast
<1>4. Len(rows) \in Nat /\ DOMAIN rows = 1..Len(rows)
  BY RowSeqType DEF TypeOK
<1>5. DOMAIN page.rows = 1..Len(rows)
  BY <1>3, <1>4, PageRows
<1> QED
  BY <1>3, <1>4, <1>5, PageRows

(* An untouched row is on the page received, or ties with its end, or is   *)
(* still ahead.                                                            *)
LEMMA AccountedReceive == SolidKeys /\ Paged /\ Thorough /\ Receive => Accounted'
<1> SUFFICES ASSUME SolidKeys, Paged, Thorough, Receive, NEW id \in stable'
             PROVE  \/ Received(id)' \/ SkippedByTie(id)'
                    \/ phase' # "done" /\ NotReached(id)'
  BY DEF Accounted
<1>1. TypeOK /\ TokenStands /\ RowsBeyond /\ PageCut /\ RowsComplete
  BY DEF Paged, Thorough
<1> DEFINE new == Len(pages) + 1
<1>2. /\ phase = "responded" /\ Fetched /\ sort \in Orders
      /\ phase' = IF page.cursor = << >> THEN "done" ELSE "client"
      /\ UNCHANGED <<table, size, order_by, stable, calm, writes, faults>>
      /\ pages' # << >> /\ Len(pages') = new /\ Len(pages) \in Nat
      /\ DOMAIN pages = 1..Len(pages) /\ DOMAIN pages' = 1..new
      /\ \A p \in DOMAIN pages : pages'[p] = pages[p]
      /\ Latest' = [sort |-> sort, rows |-> page.rows]
      /\ pages'[new] = [sort |-> sort, rows |-> page.rows]
  BY <1>1, Receiving
<1>3. id \in stable /\ id \in DOMAIN table /\ table[id] \in RowSet /\ sort \in Seq(KeySet)
  BY <1>1, <1>2, TableRows, OrderType DEF TypeOK
<1>4. \A k \in DOMAIN page.rows : k \in DOMAIN rows /\ page.rows[k] = rows[k]
  BY <1>1, <1>2, PageRows
<1>5. ASSUME NEW k \in DOMAIN page.rows, page.rows[k].id = id PROVE Received(id)'
  <2>1. new \in DOMAIN pages' /\ pages'[new].rows = page.rows
    BY <1>2
  <2> QED
    BY <1>5, <2>1 DEF Received, OnPage
<1>6. CASE Received(id)
  BY <1>2, <1>6 DEF Received, OnPage
<1>7. CASE SkippedByTie(id)
  <2>1. PICK p \in 1..(Len(pages) - 1) : TiesWithLast(pages[p], id)
    BY <1>7 DEF SkippedByTie
  <2>2. p \in 1..(Len(pages') - 1) /\ pages'[p] = pages[p]
    BY <1>2
  <2> QED
    BY <1>2, <2>1, <2>2 DEF SkippedByTie, TiesWithLast
<1>8. CASE pages # << >> /\ Ties(Latest.sort, table[id], LastRow)
  <2>1. Len(pages) \in 1..(Len(pages') - 1) /\ pages'[Len(pages)] = Latest
    BY <1>1, <1>2, <1>8, LatestType DEF Latest
  <2>2. Ties(Latest.sort, table'[id], Latest.rows[Len(Latest.rows)].row)
    BY <1>2, <1>8 DEF LastRow
  <2> QED
    BY <2>1, <2>2 DEF SkippedByTie, TiesWithLast
<1>9. CASE pages # << >> => Precedes(sort, LastRow, table[id])
  <2>1. OnHand(id) \/ CutOff(table[id])
    BY <1>1, <1>2, <1>3, <1>9 DEF RowsComplete
  <2>2. CASE page.cursor = << >>
    <3>1. /\ Len(rows) <= PageSize(size)
          /\ \A k \in DOMAIN rows : k \in DOMAIN page.rows /\ page.rows[k] = rows[k]
      BY <1>1, <1>2, <2>2, LastPageKeepsAll
    <3>2. ~CutOff(table[id])
      BY <1>1, <3>1, PageSizes DEF CutOff
    <3> QED
      BY <1>5, <2>1, <3>1, <3>2 DEF OnHand
  <2>3. CASE page.cursor # << >>
    <3>1. ~IsLast(rows, size) /\ page.rows = Kept(rows, size)
      BY <1>1, <1>2, <2>3, PageRows
    <3>2. /\ PageSize(size) \in DOMAIN rows /\ LastKept = rows[PageSize(size)].row
          /\ Len(page.rows) = PageSize(size)
      BY <1>1, <3>1, LastKeptRow
    <3>3. LastRow' = LastKept
      BY <1>2, <3>1 DEF LastRow, LastKept
    <3>4. ASSUME ~Precedes(sort, table[id], LastKept)
          PROVE  phase' # "done" /\ NotReached(id)'
      BY <1>2, <2>3, <3>3, <3>4 DEF NotReached
    <3>5. CASE CutOff(table[id])
      BY <3>2, <3>4, <3>5 DEF CutOff
    <3>6. CASE OnHand(id)
      <4>1. PICK k \in DOMAIN rows : rows[k].id = id
        BY <3>6 DEF OnHand
      <4>2. rows[k].row = table[id]
        BY <1>1, <1>2, <1>3, <4>1 DEF RowsComplete
      <4>3. CASE k <= PageSize(size)
        <5>1. k \in DOMAIN page.rows /\ page.rows[k] = rows[k]
          BY <1>1, <1>2, <1>4, <3>2, <4>1, <4>3, RowSeqType, PageRows DEF TypeOK
        <5> QED
          BY <1>5, <4>1, <5>1
      <4>4. CASE ~(k <= PageSize(size))
        <5>1. PageSize(size) < k
          BY <1>1, <3>2, <4>1, <4>4, RowSeqType DEF TypeOK
        <5>2. ~Precedes(sort, rows[k].row, rows[PageSize(size)].row)
          BY <1>1, <1>2, <3>2, <4>1, <5>1 DEF RowsBeyond, InOrder
        <5> QED
          BY <3>2, <3>4, <4>2, <5>2
      <4> QED
        BY <4>3, <4>4
    <3> QED
      BY <2>1, <3>5, <3>6
  <2> QED
    BY <2>2, <2>3
<1>10. CASE NotReached(id)
  <2>1. SUFFICES ASSUME pages # << >> PROVE Ties(Latest.sort, table[id], LastRow)
                                             \/ Precedes(sort, LastRow, table[id])
    BY <1>8, <1>9
  <2>2. sort = Latest.sort
    BY <1>1, <1>2, <2>1 DEF RowsBeyond
  <2>3. LastRow \in RowSet
    BY <1>1, <1>2, <2>1, LatestType DEF TokenStands
  <2>4. ~Precedes(sort, table[id], LastRow)
    BY <1>10, <2>1, <2>2 DEF NotReached
  <2> QED
    BY <1>3, <2>2, <2>3, <2>4, TotalOrder
<1> QED
  BY <1>3, <1>6, <1>7, <1>10 DEF Thorough, Accounted

(* The row asked for beyond the page is left for the next one.             *)
LEMMA RemainReceive == SolidKeys /\ Paged /\ Thorough /\ Receive => RowsRemain'
<1> SUFFICES ASSUME SolidKeys, Paged, Thorough, Receive, phase' # "done", quiet'
             PROVE  \E id \in DOMAIN table' :
                      \/ After(token'.cursor, table'[id])
                      \/ TiesWithLast(Latest, id)' /\ ~OnPage(Latest, id)'
  BY DEF RowsRemain
<1>1. TypeOK /\ RowsBeyond /\ PageCut /\ RowsCurrent
  BY DEF Paged, Thorough
<1>2. /\ phase = "responded" /\ Fetched /\ sort \in Orders /\ sort \in Seq(KeySet)
      /\ token'.cursor = page.cursor /\ page.cursor # << >> /\ calm /\ table' = table
      /\ Latest' = [sort |-> sort, rows |-> page.rows]
  BY <1>1, Receiving, OrderType
<1>3. /\ ~IsLast(rows, size) /\ page.rows = Kept(rows, size)
      /\ StandsAfter(page.cursor, sort, LastKept)
      /\ DOMAIN page.rows = 1..Len(page.rows)
      /\ \A k \in DOMAIN page.rows : k \in DOMAIN rows /\ page.rows[k] = rows[k]
  BY <1>1, <1>2, PageRows
<1> DEFINE m == PageSize(size)
<1>4. /\ m \in DOMAIN rows /\ m + 1 \in DOMAIN rows /\ LastKept = rows[m].row
      /\ Len(page.rows) = m /\ LastKept \in RowSet /\ LastKept \in AllCells /\ m \in Nat
  BY <1>1, <1>3, LastKeptRow, PageSizes DEF AllCells
<1> HIDE DEF m
<1>5. PICK id : id = rows[m + 1].id
  OBVIOUS
<1>6. id \in DOMAIN table /\ rows[m + 1].row = table[id]
  BY <1>1, <1>2, <1>4, <1>5 DEF RowsCurrent
<1>7. table[id] \in RowSet /\ table[id] \in AllCells
  BY <1>1, <1>6, TableRows
<1>8. ~Precedes(sort, table[id], LastKept)
  BY <1>1, <1>2, <1>4, <1>6 DEF RowsBeyond, InOrder
<1>9. CASE Precedes(sort, LastKept, table[id])
  <2>1. \A k \in DOMAIN sort : /\ LastKept[sort[k].column] # Null
                              /\ table[id][sort[k].column] # Null
    BY <1>2, <1>4, <1>7, KeysSolid
  <2>2. After(page.cursor, table[id])
    BY <1>2, <1>3, <1>4, <1>7, <1>9, <2>1, BeyondSelected
  <2> QED
    BY <1>2, <1>6, <2>2
<1>10. CASE Ties(sort, table[id], LastKept)
  <2>1. TiesWithLast(Latest, id)'
    BY <1>2, <1>3, <1>10 DEF TiesWithLast, LastKept
  <2>2. ASSUME NEW k \in DOMAIN page.rows PROVE page.rows[k].id # id
    <3>1. k \in DOMAIN rows /\ k < m + 1 /\ page.rows[k] = rows[k]
      BY <1>3, <1>4
    <3> QED
      BY <1>1, <1>2, <1>4, <1>5, <3>1 DEF RowsBeyond, InOrder
  <2>3. ~OnPage(Latest, id)'
    BY <1>2, <2>2 DEF OnPage
  <2> QED
    BY <1>2, <1>6, <2>1, <2>3
<1> QED
  BY <1>2, <1>4, <1>7, <1>8, <1>9, <1>10, TotalOrder

(* Receiving a page keeps the second part of the invariant.                *)
LEMMA ThoroughReceive == SolidKeys /\ Paged /\ Thorough /\ Receive => Thorough'
<1> SUFFICES ASSUME SolidKeys, Paged, Thorough, Receive PROVE Thorough'
  OBVIOUS
<1>1. ~Fetched'
  BY Receiving DEF Paged, Fetched
<1>2. RowsComplete' /\ RowsCurrent'
  BY <1>1 DEF RowsComplete, RowsCurrent
<1> QED
  BY <1>2, AccountedReceive, RemainReceive DEF Thorough

(* Which therefore is inductive.                                           *)
LEMMA ThoroughNext == SolidKeys /\ Paged /\ Thorough /\ [Next]_vars => Thorough'
  BY ThoroughWrite, ThoroughElsewhere, ThoroughFetch, ThoroughReceive DEF Next, Handle

(* Where, besides, no key is NULL, every row that nobody touches has been  *)
(* received, ties with the end of a page, or is yet to come.               *)
THEOREM ThoroughHolds == ExactBoundaries /\ SolidKeys => (Spec => [](Paged /\ Thorough))
<1>1. ASSUME ExactBoundaries, SolidKeys PROVE Spec => [](Paged /\ Thorough)
  <2>1. Paged /\ Thorough /\ [Next]_vars => (Paged /\ Thorough)'
    BY <1>1, PagedNext, ThoroughNext
  <2> QED
    BY <2>1, PagedInit, ThoroughInit, PTL DEF Spec
<1> QED
  BY <1>1

(* A traversal that ends has delivered every row that was there all along, *)
(* but for those the ordering cannot tell from the last row of a page.     *)
THEOREM StableRowsDeliveredHolds ==
  ExactBoundaries /\ SolidKeys => (Spec => []StableRowsDelivered)
<1>1. Thorough => StableRowsDelivered
  BY DEF Thorough, Accounted, StableRowsDelivered
<1> QED
  BY <1>1, ThoroughHolds, PTL

(* A token is only issued for a page that has rows, as long as nobody      *)
(* writes.                                                                 *)
THEOREM NextPageHasRowsHolds ==
  ExactBoundaries /\ SolidKeys => (Spec => []NextPageHasRows)
<1>1. Thorough => NextPageHasRows
  BY DEF Thorough, RowsRemain, NextPageHasRows, Latest
<1> QED
  BY <1>1, ThoroughHolds, PTL

-----------------------------------------------------------------------------
(* A traversal is a scan.                                                  *)

OfferedPages == [sort : Orders, rows : RowSeqs, more : BOOLEAN]

(* The scan's delivered pages are the pages received.                      *)
LEMMA DeliveredPages ==
  ASSUME TypeOK
  PROVE  /\ Delivered \in Seq(OfferedPages) /\ Len(Delivered) = Len(pages)
         /\ DOMAIN Delivered = DOMAIN pages /\ DOMAIN pages = 1..Len(pages)
         /\ Delivered # << >> <=> pages # << >>
         /\ \A p \in DOMAIN pages :
              Delivered[p] = [sort |-> pages[p].sort, rows |-> pages[p].rows,
                              more |-> p < Len(pages) \/ phase # "done"]
<1>1. Len(pages) \in Nat /\ DOMAIN pages = 1..Len(pages) /\ (pages # << >> <=> Len(pages) # 0)
  BY EmptySeq, LenProperties DEF TypeOK
<1>2. \A p \in DOMAIN pages :
        [sort |-> pages[p].sort, rows |-> pages[p].rows,
         more |-> p < Len(pages) \/ phase # "done"] \in OfferedPages
  BY PageType DEF OfferedPages
<1>3. Delivered \in [1..Len(pages) -> OfferedPages]
  BY <1>1, <1>2 DEF Delivered
<1>4. Delivered \in Seq(OfferedPages) /\ Len(Delivered) = Len(pages)
  BY <1>1, <1>3
<1>5. Delivered # << >> <=> Len(Delivered) # 0
  BY <1>4, EmptySeq
<1> QED
  BY <1>1, <1>3, <1>4, <1>5 DEF Delivered

(* What is on offer in each phase.                                         *)
LEMMA OnOfferCases ==
  /\ phase = "fetched" => OnOffer = [sort |-> sort, rows |-> Kept(rows, size),
                                     more |-> ~IsLast(rows, size)]
  /\ phase = "responded" => OnOffer = [sort |-> sort, rows |-> page.rows,
                                       more |-> ~IsEmptyCursor(page.cursor)]
  /\ ~Fetched => OnOffer = Scan!Nothing
  /\ Fetched /\ sort # << >> => OnOffer # Scan!Nothing
<1>1. phase = "fetched" => OnOffer = [sort |-> sort, rows |-> Kept(rows, size),
                                     more |-> ~IsLast(rows, size)]
  BY Zenon DEF OnOffer
<1>2. phase = "responded" => OnOffer = [sort |-> sort, rows |-> page.rows,
                                       more |-> ~IsEmptyCursor(page.cursor)]
  BY Zenon DEF OnOffer
<1>3. ~Fetched => OnOffer = Scan!Nothing
  BY Zenon DEF OnOffer, Fetched, Scan!Nothing, Scan!Page
<1>4. Fetched /\ sort # << >> => OnOffer # Scan!Nothing
  BY <1>1, <1>2 DEF Fetched, Scan!Nothing, Scan!Page
<1> QED
  BY <1>1, <1>2, <1>3, <1>4

(* A traversal starts as a scan.                                           *)
LEMMA ScanInit == Init => Scan!Init
<1> SUFFICES ASSUME Init PROVE Scan!Init
  OBVIOUS
<1>1. OnOffer = Scan!Nothing
  BY OnOfferCases DEF Init, Fetched
<1>2. Delivered = << >>
  BY TypeInit, DeliveredPages DEF Init
<1> QED
  BY <1>1, <1>2 DEF Init, Scan!Init

(* What leaves the page on offer and the pages delivered as they were.     *)
LEMMA ScanStutters ==
  ASSUME UNCHANGED <<table, size, pages, sort, rows, page, phase>>
  PROVE  UNCHANGED Scan!vars
<1>1. OnOffer' = OnOffer
  BY Zenon DEF OnOffer
<1>2. Delivered' = Delivered
  BY Zenon DEF Delivered
<1>3. PageSize(size)' = PageSize(size)
  OBVIOUS
<1> QED
  BY <1>1, <1>2, <1>3 DEF Scan!vars

(* The pages delivered do not change until another is received.            *)
LEMMA DeliveredKept ==
  ASSUME pages' = pages, phase # "done", phase' # "done"
  PROVE  Delivered' = Delivered
  BY Zenon DEF Delivered

(* A write is a write.                                                     *)
LEMMA ScanWrite == Write => Scan!Write
<1> SUFFICES ASSUME Write PROVE Scan!Write
  OBVIOUS
<1>1. PICK id \in RowIds : Put(id) \/ Delete(id)
  BY DEF Write
<1>2. \/ \E row \in Cells(id) :
           table' = [x \in DOMAIN table \cup {id} |-> IF x = id THEN row ELSE table[x]]
      \/ table' = [x \in DOMAIN table \ {id} |-> table[x]]
  BY <1>1 DEF Put, Delete
<1>3. UNCHANGED <<size, sort, rows, page, phase, pages>>
  BY <1>1 DEF Put, Delete, Touch, request
<1>4. OnOffer' = OnOffer /\ Delivered' = Delivered /\ PageSize(size)' = PageSize(size)
  BY <1>3, Zenon DEF OnOffer, Delivered
<1> QED
  BY <1>1, <1>2, <1>4 DEF Scan!Write

(* A lost response, and an error instead of one, withdraw the page on      *)
(* offer.                                                                  *)
LEMMA ScanWithdraw == SolidKeys /\ TypeOK /\ (Lose \/ FailPage) => Scan!Withdraw
<1> SUFFICES ASSUME SolidKeys, TypeOK, Lose \/ FailPage PROVE Scan!Withdraw
  OBVIOUS
<1>1. /\ Fetched /\ ~Fetched' /\ phase # "done" /\ phase' # "done"
      /\ UNCHANGED <<table, size, pages>>
  BY DEF Lose, FailPage, Fault, Fetched, history
<1>2. sort # << >>
  BY <1>1 DEF TypeOK, SolidKeys
<1>3. OnOffer # Scan!Nothing
  BY <1>1, <1>2, OnOfferCases
<1>4. OnOffer' = Scan!Nothing
  <2>1. OnOffer' = [sort |-> << >>, rows |-> << >>, more |-> TRUE]
    BY <1>1, Zenon DEF OnOffer, Fetched
  <2> QED
    BY <2>1 DEF Scan!Nothing, Scan!Page
<1>5. Delivered' = Delivered
  BY <1>1, DeliveredKept
<1> QED
  BY <1>1, <1>3, <1>4, <1>5 DEF Scan!Withdraw

(* A page has a cursor exactly when there are more rows.                   *)
LEMMA ScanCutPage == SolidKeys /\ TypeOK /\ CutPage => UNCHANGED Scan!vars
<1> SUFFICES ASSUME SolidKeys, TypeOK, CutPage PROVE UNCHANGED Scan!vars
  OBVIOUS
<1>1. /\ phase = "fetched" /\ phase' = "responded"
      /\ UNCHANGED <<table, size, pages, sort, rows>>
      /\ page' = [rows   |-> Kept(rows, size),
                  cursor |-> IF IsLast(rows, size) THEN << >>
                             ELSE AfterRow(New(sort), Shown, LastKept, build)]
  BY DEF CutPage, history
<1>2. AfterRow(New(sort), Shown, LastKept, build) # << >>
  <2>1. sort \in Orders /\ sort # << >>
    BY <1>1 DEF TypeOK, Fetched, SolidKeys
  <2>2. DOMAIN sort # {}
    BY <2>1, OrderType, EmptySeq, LenProperties
  <2>3. DOMAIN AfterRow(New(sort), Shown, LastKept, build) = DOMAIN sort
    BY DEF AfterRow, New
  <2> QED
    BY <2>2, <2>3
<1>3. IsEmptyCursor(page'.cursor) <=> IsLast(rows, size)
  BY <1>1, <1>2 DEF IsEmptyCursor
<1>4. OnOffer = [sort |-> sort, rows |-> Kept(rows, size), more |-> ~IsLast(rows, size)]
  BY <1>1, OnOfferCases
<1>5. OnOffer' = [sort |-> sort', rows |-> page'.rows, more |-> ~IsEmptyCursor(page'.cursor)]
  BY <1>1, Zenon DEF OnOffer
<1>6. OnOffer' = OnOffer
  BY <1>1, <1>3, <1>4, <1>5
<1>7. Delivered' = Delivered
  BY <1>1, DeliveredKept
<1> QED
  BY <1>1, <1>6, <1>7 DEF Scan!vars

(* Receiving the page delivers it.                                         *)
LEMMA ScanReceive == SolidKeys /\ TypeOK /\ Receive => Scan!Deliver
<1> SUFFICES ASSUME SolidKeys, TypeOK, Receive PROVE Scan!Deliver
  OBVIOUS
<1> DEFINE new   == Len(pages) + 1
           entry == [sort |-> sort, rows |-> page.rows, more |-> page.cursor # << >>]
<1>1. /\ phase = "responded" /\ Fetched /\ sort \in Orders
      /\ phase' = IF page.cursor = << >> THEN "done" ELSE "client"
      /\ UNCHANGED <<table, size>>
      /\ Len(pages') = new /\ Len(pages) \in Nat
      /\ DOMAIN pages = 1..Len(pages) /\ DOMAIN pages' = 1..new
      /\ \A p \in DOMAIN pages : pages'[p] = pages[p]
      /\ pages'[new] = [sort |-> sort, rows |-> page.rows]
  BY Receiving
<1>2. OnOffer = entry
  BY <1>1, OnOfferCases DEF IsEmptyCursor
<1>3. OnOffer # Scan!Nothing
  BY <1>1, OnOfferCases DEF SolidKeys
<1>4. OnOffer' = Scan!Nothing
  <2>1. OnOffer' = [sort |-> << >>, rows |-> << >>, more |-> TRUE]
    BY <1>1, Zenon DEF OnOffer
  <2> QED
    BY <2>1 DEF Scan!Nothing, Scan!Page
<1>5. entry \in OfferedPages
  BY <1>1 DEF OfferedPages, TypeOK
<1>6. /\ Delivered \in Seq(OfferedPages) /\ Len(Delivered) = Len(pages)
      /\ \A p \in DOMAIN pages :
           Delivered[p] = [sort |-> pages[p].sort, rows |-> pages[p].rows, more |-> TRUE]
  BY <1>1, DeliveredPages
<1>7. /\ DOMAIN Append(Delivered, entry) = 1..new
      /\ \A p \in 1..Len(pages) : Append(Delivered, entry)[p] = Delivered[p]
      /\ Append(Delivered, entry)[new] = entry
  <2> HIDE DEF entry
  <2>1. /\ Append(Delivered, entry) \in Seq(OfferedPages)
        /\ Len(Append(Delivered, entry)) = Len(Delivered) + 1
        /\ \A p \in 1..Len(Delivered) : Append(Delivered, entry)[p] = Delivered[p]
        /\ Append(Delivered, entry)[Len(Delivered) + 1] = entry
    BY <1>5, <1>6, AppendProperties
  <2> QED
    BY <1>6, <2>1, LenProperties
<1>8. Delivered' = [p \in 1..new |-> [sort |-> pages'[p].sort, rows |-> pages'[p].rows,
                                     more |-> p < new \/ phase' # "done"]]
  BY <1>1 DEF Delivered
<1>9. \A p \in 1..new : Delivered'[p] = Append(Delivered, entry)[p]
  <2> TAKE p \in 1..new
  <2>1. Delivered'[p] = [sort |-> pages'[p].sort, rows |-> pages'[p].rows,
                         more |-> p < new \/ phase' # "done"]
    BY <1>8
  <2>2. CASE p = new
    <3>1. (p < new \/ phase' # "done") <=> page.cursor # << >>
      BY <1>1, <2>2
    <3> QED
      BY <1>1, <1>7, <2>1, <2>2, <3>1
  <2>3. CASE p # new
    <3>1. p \in DOMAIN pages /\ p < new
      BY <1>1, <2>3
    <3> QED
      BY <1>1, <1>6, <1>7, <2>1, <3>1
  <2> QED
    BY <2>2, <2>3
<1>10. Delivered' = Append(Delivered, entry)
  <2>1. Delivered' = [p \in 1..new |-> Delivered'[p]]
    BY <1>8
  <2>2. Append(Delivered, entry) = [p \in 1..new |-> Append(Delivered, entry)[p]]
    BY <1>7
  <2> QED
    BY <1>9, <2>1, <2>2
<1> QED
  BY <1>1, <1>2, <1>3, <1>4, <1>10 DEF Scan!Deliver

(* The page cut from the rows the query returned, a row more than it has   *)
(* room for, is the page cut from all the rows it found.                   *)
Read(ids) == [k \in DOMAIN ids |-> [id |-> ids[k], row |-> table[ids[k]]]]
Least(m, n) == IF m < n THEN m ELSE n

(* A prefix of a list.                                                     *)
LEMMA Prefix ==
  ASSUME NEW S, NEW s \in Seq(S), NEW m \in Nat, m <= Len(s)
  PROVE  /\ SubSeq(s, 1, m) \in Seq(S) /\ Len(SubSeq(s, 1, m)) = m
         /\ DOMAIN SubSeq(s, 1, m) = 1..m /\ \A k \in 1..m : SubSeq(s, 1, m)[k] = s[k]
<1>1. \A i \in 1..m : s[i] \in S
  OBVIOUS
<1>2. /\ SubSeq(s, 1, m) \in Seq(S)
      /\ Len(SubSeq(s, 1, m)) = IF 1 <= m THEN m - 1 + 1 ELSE 0
      /\ \A i \in 1..m - 1 + 1 : SubSeq(s, 1, m)[i] = s[1 + i - 1]
  BY <1>1, SubSeqProperties
<1> QED
  BY <1>2, LenProperties

(* A prefix of what was read of a prefix is what is read of the shorter    *)
(* one.                                                                    *)
LEMMA PrefixOfPrefix ==
  ASSUME NEW S, NEW s \in Seq(S), NEW m \in Nat, NEW n \in Nat, m <= Len(s), n <= m
  PROVE  SubSeq(Read(SubSeq(s, 1, m)), 1, n) = Read(SubSeq(s, 1, n))
<1> DEFINE T == {[id |-> x, row |-> table[x]] : x \in S}
           rs == Read(SubSeq(s, 1, m))
<1>1. /\ DOMAIN SubSeq(s, 1, m) = 1..m /\ \A k \in 1..m : SubSeq(s, 1, m)[k] = s[k]
      /\ DOMAIN SubSeq(s, 1, n) = 1..n /\ \A k \in 1..n : SubSeq(s, 1, n)[k] = s[k]
  BY Prefix
<1>2. rs = [k \in 1..m |-> [id |-> s[k], row |-> table[s[k]]]]
  BY <1>1 DEF Read
<1>3. Read(SubSeq(s, 1, n)) = [k \in 1..n |-> [id |-> s[k], row |-> table[s[k]]]]
  BY <1>1 DEF Read
<1>4. \A k \in 1..m : [id |-> s[k], row |-> table[s[k]]] \in T
  OBVIOUS
<1> HIDE DEF T, rs
<1>5. rs \in Seq(T) /\ Len(rs) = m
  BY <1>2, <1>4
<1>6. /\ DOMAIN SubSeq(rs, 1, n) = 1..n /\ \A k \in 1..n : SubSeq(rs, 1, n)[k] = rs[k]
      /\ SubSeq(rs, 1, n) \in Seq(T)
  BY <1>5, Prefix
<1>7. SubSeq(rs, 1, n) = [k \in 1..n |-> SubSeq(rs, 1, n)[k]]
  BY <1>6
<1>8. \A k \in 1..n : SubSeq(rs, 1, n)[k] = [id |-> s[k], row |-> table[s[k]]]
  BY <1>2, <1>6
<1>9. SubSeq(rs, 1, n) = Read(SubSeq(s, 1, n))
  BY <1>3, <1>7, <1>8
<1> QED
  BY <1>9 DEF rs

(* A row more than the page has room for is enough to cut the page, and to *)
(* know whether others follow.                                             *)
LEMMA LimitedPage ==
  ASSUME TypeOK, NEW S, NEW s \in Seq(S), NEW rs,
         rs = Read(SubSeq(s, 1, Least(Len(s), Limit(size))))
  PROVE  /\ Kept(rs, size) = Read(SubSeq(s, 1, Least(Len(s), PageSize(size))))
         /\ ~IsLast(rs, size) <=> Len(s) > PageSize(size)
<1> DEFINE cut == Least(Len(s), Limit(size))
           kept == Least(Len(s), PageSize(size))
<1>1. /\ PageSize(size) \in Nat /\ Limit(size) = PageSize(size) + 1 /\ Len(s) \in Nat
  BY PageSizes
<1>2. /\ cut \in Nat /\ cut <= Len(s) /\ kept \in Nat /\ kept <= cut
      /\ kept = Least(cut, PageSize(size)) /\ (cut > PageSize(size) <=> Len(s) > PageSize(size))
  BY <1>1 DEF Least
<1> HIDE DEF cut, kept
<1>3. DOMAIN SubSeq(s, 1, cut) = 1..cut
  BY <1>2, Prefix
<1>4. Len(rs) = cut
  BY <1>2, <1>3 DEF Read, cut
<1>5. Kept(rs, size) = SubSeq(rs, 1, kept)
  BY <1>2, <1>4 DEF Kept, Least
<1>6. SubSeq(rs, 1, kept) = Read(SubSeq(s, 1, kept))
  BY <1>2, PrefixOfPrefix DEF cut
<1> QED
  BY <1>1, <1>2, <1>4, <1>5, <1>6 DEF IsLast, kept

(* What the handler's query selects are the rows ahead of the last one     *)
(* delivered.                                                              *)
LEMMA SelectedAhead ==
  ASSUME SolidKeys, TypeOK, TokenStands, phase = "client", Agrees(token.cursor, order_by)
  PROVE  {id \in DOMAIN table : Selected(token.cursor, table[id])} = Scan!Ahead(order_by)
<1>1. phase # "done" /\ order_by \in Orders
  BY DEF TypeOK
<1> SUFFICES ASSUME NEW id \in DOMAIN table
             PROVE  Selected(token.cursor, table[id])
                      <=> Delivered = << >> \/ Precedes(order_by, Scan!LastRow, table[id])
  BY DEF Scan!Ahead
<1>2. CASE pages = << >>
  <2>1. Delivered = << >>
    BY <1>2, DeliveredPages
  <2> QED
    BY <1>1, <1>2, <2>1 DEF TokenStands, EmptyToken, Selected, IsEmptyCursor
<1>3. CASE pages # << >>
  <2>1. /\ Latest.rows # << >> /\ token.cursor # << >>
        /\ StandsAfter(token.cursor, Latest.sort, LastRow)
    BY <1>1, <1>3 DEF TokenStands
  <2>2. order_by = Latest.sort
    BY <1>1, <1>3, SameSort
  <2>3. Delivered # << >> /\ Scan!LastRow = LastRow
    <3>1. /\ Len(Delivered) = Len(pages) /\ Delivered # << >>
          /\ Delivered[Len(pages)].rows = pages[Len(pages)].rows
      BY <1>3, DeliveredPages, LatestType
    <3> QED
      BY <3>1 DEF Scan!LastRow, Scan!Latest, LastRow, Latest
  <2>4. /\ LastRow \in AllCells /\ table[id] \in AllCells
        /\ LastRow \in RowSet /\ table[id] \in RowSet
    BY <1>3, <2>1, LastRowCells, TableRows, RowType
  <2>5. \A k \in DOMAIN order_by : /\ LastRow[order_by[k].column] # Null
                                  /\ table[id][order_by[k].column] # Null
    BY <1>1, <2>4, KeysSolid
  <2>6. After(token.cursor, table[id]) => Precedes(order_by, LastRow, table[id])
    BY <1>1, <2>1, <2>2, <2>4, SelectedBeyond
  <2>7. Precedes(order_by, LastRow, table[id]) => After(token.cursor, table[id])
    BY <1>1, <2>1, <2>2, <2>4, <2>5, BeyondSelected
  <2> QED
    BY <2>1, <2>3, <2>6, <2>7 DEF Selected, IsEmptyCursor
<1> QED
  BY <1>2, <1>3

(* Fetching offers a page: the first of the rows ahead.                    *)
LEMMA ScanFetch == SolidKeys /\ TypeOK /\ TokenStands /\ Fetch => Scan!Offer
<1> SUFFICES ASSUME SolidKeys, TypeOK, TokenStands, Fetch PROVE Scan!Offer
  OBVIOUS
<1>1. /\ phase = "client" /\ phase' = "fetched" /\ sort' = order_by /\ order_by \in Orders
      /\ Agrees(token.cursor, order_by)
      /\ UNCHANGED <<table, size, order_by, token, page, pages>>
  BY Fetching
<1>2. PICK ids \in Results(token.cursor, order_by, Limit(size)) : rows' = Read(ids)
  BY Fetching DEF Read
<1> DEFINE ahead == Scan!Ahead(order_by)
           n     == Cardinality(ahead)
<1>3. ahead = {id \in DOMAIN table : Selected(token.cursor, table[id])}
  BY <1>1, SelectedAhead
<1>4. n \in Nat
  <2>1. ahead \in SUBSET DOMAIN table /\ IsFiniteSet(DOMAIN table)
    BY <1>3, TableRows
  <2> HIDE DEF ahead
  <2> QED
    BY <2>1, FS_Subset, FS_CardinalityType
<1>5. PICK s \in [1..n -> ahead] :
        Sorted(s, order_by) /\ ids = SubSeq(s, 1, IF n < Limit(size) THEN n ELSE Limit(size))
  BY <1>3 DEF Results
<1>6. s \in Seq(ahead) /\ Len(s) = n
  <2> HIDE DEF ahead, n
  <2> QED
    BY <1>4, <1>5
<1>7. ids = SubSeq(s, 1, Least(Len(s), Limit(size)))
  BY <1>5, <1>6 DEF Least
<1>8. /\ Kept(rows', size) = Read(SubSeq(s, 1, Least(Len(s), PageSize(size))))
      /\ ~IsLast(rows', size) <=> Len(s) > PageSize(size)
  <2> HIDE DEF ahead, n
  <2> QED
    BY <1>2, <1>6, <1>7, LimitedPage
<1>9. s \in Scan!Scans(order_by)
  <2>1. Scan!Ordered(s, order_by)
    BY <1>5 DEF Scan!Ordered, Sorted
  <2>2. Scan!Scans(order_by) = {f \in [1..n -> ahead] : Scan!Ordered(f, order_by)}
    BY Zenon DEF Scan!Scans, Scan!Cardinality, Cardinality
  <2> HIDE DEF ahead, n
  <2> QED
    BY <1>5, <2>1, <2>2
<1>10. OnOffer' = [sort |-> order_by, rows |-> Kept(rows', size), more |-> ~IsLast(rows', size)]
  <2>1. OnOffer' = [sort |-> sort', rows |-> Kept(rows', size'), more |-> ~IsLast(rows', size')]
    BY <1>1, Zenon DEF OnOffer
  <2> QED
    BY <1>1, <2>1
<1> DEFINE kept == SubSeq(s, 1, IF Len(s) < PageSize(size) THEN Len(s) ELSE PageSize(size))
<1>11. OnOffer' = Scan!Page(order_by, [k \in DOMAIN kept |->
                                        [id |-> kept[k], row |-> table[kept[k]]]],
                            Len(s) > PageSize(size))
  <2>1. Kept(rows', size) = [k \in DOMAIN kept |-> [id |-> kept[k], row |-> table[kept[k]]]]
    BY <1>8, Zenon DEF Read, Least
  <2> HIDE DEF kept
  <2>2. (~IsLast(rows', size)) = (Len(s) > PageSize(size))
    BY <1>8 DEF IsLast
  <2> QED
    BY <1>10, <2>1, <2>2, Zenon DEF Scan!Page
<1>12. OnOffer = Scan!Nothing
  BY <1>1, OnOfferCases DEF Fetched
<1>13. ASSUME Delivered # << >> PROVE Scan!Latest.more /\ order_by = Scan!Latest.sort
  <2>1. pages # << >> /\ Len(Delivered) = Len(pages) /\ Len(pages) \in DOMAIN pages
    BY <1>13, DeliveredPages, LatestType
  <2>2. Delivered[Len(pages)] = [sort |-> Latest.sort, rows |-> Latest.rows,
                                 more |-> Len(pages) < Len(pages) \/ phase # "done"]
    BY <2>1, DeliveredPages DEF Latest
  <2>3. order_by = Latest.sort
    BY <1>1, <2>1, SameSort
  <2>4. Scan!Latest = Delivered[Len(pages)]
    BY <2>1, Zenon DEF Scan!Latest
  <2>5. Scan!Latest = [sort |-> Latest.sort, rows |-> Latest.rows,
                       more |-> Len(pages) < Len(pages) \/ phase # "done"]
    BY <2>2, <2>4, Zenon
  <2>6. Scan!Latest.more = (Len(pages) < Len(pages) \/ phase # "done")
    BY <2>5, Zenon
  <2>7. Scan!Latest.sort = Latest.sort
    BY <2>5, Zenon
  <2> QED
    BY <1>1, <2>3, <2>6, <2>7, Zenon
<1>14. Delivered' = Delivered
  BY <1>1, DeliveredKept
<1>15. PageSize(size)' = PageSize(size)
  BY <1>1
<1> HIDE DEF ahead, n, kept
<1>16. \E all \in Scan!Scans(order_by) :
         LET cut == SubSeq(all, 1, IF Len(all) < PageSize(size) THEN Len(all)
                                     ELSE PageSize(size))
         IN  OnOffer' = Scan!Page(order_by, [k \in DOMAIN cut |->
                                              [id |-> cut[k], row |-> table[cut[k]]]],
                                  Len(all) > PageSize(size))
  BY <1>9, <1>11, Zenon DEF kept
<1> QED
  BY <1>1, <1>12, <1>13, <1>14, <1>15, <1>16, Zenon DEF Scan!Offer

(* Every step of a traversal is a step of a scan, or none.                 *)
LEMMA ScanNext ==
  SolidKeys /\ Paged /\ [Next]_vars => [Scan!Next]_(Scan!vars)
<1> SUFFICES ASSUME SolidKeys, Paged, [Next]_vars PROVE Scan!Next \/ UNCHANGED Scan!vars
  OBVIOUS
<1>1. TypeOK /\ TokenStands
  BY DEF Paged
<1>2. Resort => UNCHANGED Scan!vars
  BY ScanStutters DEF Resort, Fault, request, history
<1>3. UNCHANGED vars => UNCHANGED Scan!vars
  BY ScanStutters DEF vars
<1> QED
  BY <1>1, <1>2, <1>3, ScanWrite, ScanWithdraw, ScanCutPage, ScanReceive, ScanFetch
    DEF Next, Handle, Scan!Next

(* What a client receives is a scan of the table: each page is cut from    *)
(* the rows strictly beyond the last row delivered, as the table was when  *)
(* they were read, and the first page that no other follows is the last.   *)
THEOREM ImplementsScanHolds == ExactBoundaries /\ SolidKeys => (Spec => ImplementsScan)
<1>1. ASSUME ExactBoundaries, SolidKeys PROVE Spec => ImplementsScan
  <2>1. Paged /\ [Next]_vars => [Scan!Next]_(Scan!vars)
    BY <1>1, ScanNext
  <2>2. Spec => []Paged
    BY <1>1, PagedHolds
  <2> QED
    BY <2>1, <2>2, ScanInit, PTL DEF Spec, ImplementsScan, Scan!Spec
<1> QED
  BY <1>1

-----------------------------------------------------------------------------
(* A boundary is accepted.                                                 *)

(* What a candidate is read as, and which come before which: a UUID before *)
(* text and bytes, text before bytes.                                      *)
Tries ==
  {Try("i64", "Int"), Try("i32", "Int"), Try("i16", "Int"), Try("f64", "Float"),
   Try("f32", "Float"), Try("bool", "Bool"), Try("timestamp", "Timestamp"),
   Try("uuid", "Uuid"), Try("String", "String"), Try("bytes", "Bytes")}
Plain == {t \in Tries : t.rust \notin {"uuid", "String", "bytes"}}

(* A UUID is tried before text and bytes, and text before bytes.           *)
LEMMA CandidateOrder ==
  ASSUME NEW b, NEW k \in DOMAIN Candidates(b)
  PROVE  /\ k \in Nat /\ Candidates(b)[k] \in Tries
         /\ Candidates(b)[k].rust \in {"String", "bytes"} /\ HasUuid(b) =>
              \E j \in DOMAIN Candidates(b) : j < k /\ Candidates(b)[j].rust = "uuid"
         /\ Candidates(b)[k].rust = "bytes" =>
              \E j \in DOMAIN Candidates(b) : j < k /\ Candidates(b)[j].rust = "String"
<1> DEFINE c1 == Numeric \o Dated(b)
           c2 == c1 \o Unique(b)
           c3 == c2 \o Textual
           u  == Len(Unique(b))
<1>1. /\ Numeric \in Seq(Plain) /\ Dated(b) \in Seq(Plain)
      /\ Unique(b) \in Seq(Tries) /\ Textual \in Seq(Tries) /\ Binary \in Seq(Tries)
      /\ Plain \subseteq Tries
  <2>1. /\ Try("i64", "Int") \in Plain /\ Try("i32", "Int") \in Plain
        /\ Try("i16", "Int") \in Plain /\ Try("f64", "Float") \in Plain
        /\ Try("f32", "Float") \in Plain /\ Try("bool", "Bool") \in Plain
        /\ Try("timestamp", "Timestamp") \in Plain
    BY DEF Plain, Tries, Try
  <2>2. /\ Try("uuid", "Uuid") \in Tries /\ Try("String", "String") \in Tries
        /\ Try("bytes", "Bytes") \in Tries
    BY DEF Tries
  <2>3. Plain \subseteq Tries
    BY DEF Plain
  <2> QED
    BY <2>1, <2>2, <2>3 DEF Numeric, Dated, Unique, Textual, Binary
<1>2. /\ c1 \in Seq(Plain) /\ c1 \in Seq(Tries) /\ Len(c1) \in Nat
  BY <1>1, ConcatProperties, LenProperties
<1> HIDE DEF c1
<1>3. /\ c2 \in Seq(Tries) /\ Len(c2) = Len(c1) + u /\ u \in Nat
      /\ \A j \in 1..(Len(c1) + u) :
           c2[j] = IF j <= Len(c1) THEN c1[j] ELSE Unique(b)[j - Len(c1)]
  BY <1>1, <1>2, ConcatProperties, LenProperties
<1>4. u \in {0, 1} /\ (HasUuid(b) => u = 1 /\ Unique(b)[1].rust = "uuid")
  BY DEF Unique, Try
<1>5. \A j \in 1..Len(c1) : c2[j].rust \notin {"uuid", "String", "bytes"}
  <2> TAKE j \in 1..Len(c1)
  <2>1. c2[j] = c1[j] /\ c1[j] \in Plain
    BY <1>2, <1>3
  <2> QED
    BY <2>1 DEF Plain
<1>6. \A j \in DOMAIN c2 : c2[j].rust \notin {"String", "bytes"}
  <2> TAKE j \in DOMAIN c2
  <2>1. CASE j \in 1..Len(c1)
    BY <1>5, <2>1
  <2>2. CASE j \notin 1..Len(c1)
    <3>1. j = Len(c1) + 1 /\ u = 1 /\ c2[j] = Unique(b)[1]
      BY <1>2, <1>3, <1>4, <2>2
    <3> QED
      BY <3>1 DEF Unique, Try
  <2> QED
    BY <2>1, <2>2
<1>7. /\ c3 \in Seq(Tries) /\ Len(c3) = Len(c2) + 1
      /\ \A j \in 1..Len(c2) : c3[j] = c2[j]
      /\ c3[Len(c2) + 1].rust = "String"
  <2> HIDE DEF c2
  <2>1. Len(Textual) = 1 /\ Textual[1].rust = "String"
    BY DEF Textual, Try
  <2>2. c2 \in Seq(Tries) /\ Textual \in Seq(Tries) /\ Len(c2) \in Nat
    BY <1>1, <1>3, LenProperties
  <2>3. c3 = c2 \o Textual
    OBVIOUS
  <2> HIDE DEF c3
  <2>4. /\ c2 \o Textual \in Seq(Tries) /\ Len(c2 \o Textual) = Len(c2) + Len(Textual)
        /\ \A j \in 1..(Len(c2) + Len(Textual)) :
             (c2 \o Textual)[j] = IF j <= Len(c2) THEN c2[j] ELSE Textual[j - Len(c2)]
    BY <2>2, ConcatProperties
  <2> QED
    BY <2>1, <2>2, <2>3, <2>4
<1>8. /\ Candidates(b) \in Seq(Tries) /\ Len(Candidates(b)) = Len(c2) + 2
      /\ \A j \in 1..(Len(c2) + 1) : Candidates(b)[j] = c3[j]
      /\ Candidates(b)[Len(c2) + 2].rust = "bytes" /\ Len(c2) \in Nat
  <2>1. Len(Binary) = 1 /\ Binary[1].rust = "bytes"
    BY DEF Binary, Try
  <2>2. Len(c2) \in Nat
    BY <1>3, LenProperties
  <2>3. Candidates(b) = c3 \o Binary
    BY DEF Candidates, c1
  <2> HIDE DEF c2, c3
  <2>4. /\ c3 \o Binary \in Seq(Tries) /\ Len(c3 \o Binary) = Len(c3) + Len(Binary)
        /\ \A j \in 1..(Len(c3) + Len(Binary)) :
             (c3 \o Binary)[j] = IF j <= Len(c3) THEN c3[j] ELSE Binary[j - Len(c3)]
    BY <1>1, <1>7, ConcatProperties
  <2> QED
    BY <1>7, <2>1, <2>2, <2>3, <2>4
<1>9. DOMAIN Candidates(b) = 1..(Len(c2) + 2) /\ DOMAIN c2 = 1..Len(c2)
  BY <1>3, <1>8, LenProperties
<1> HIDE DEF c2, c3, u
<1>10. k \in Nat /\ Candidates(b)[k] \in Tries
  BY <1>8, <1>9, ElementOfSeq
<1>11. Candidates(b)[k].rust \in {"String", "bytes"} => k > Len(c2)
  BY <1>6, <1>7, <1>8, <1>9
<1>12. Candidates(b)[k].rust = "bytes" => k = Len(c2) + 2
  BY <1>7, <1>8, <1>9, <1>11
<1>13. ASSUME Candidates(b)[k].rust \in {"String", "bytes"}, HasUuid(b)
       PROVE  \E j \in DOMAIN Candidates(b) : j < k /\ Candidates(b)[j].rust = "uuid"
  <2>1. Len(c2) = Len(c1) + 1 /\ Len(c2) \in DOMAIN Candidates(b) /\ Len(c2) \in 1..Len(c2)
    BY <1>2, <1>3, <1>4, <1>8, <1>9, <1>13
  <2>2. c2[Len(c2)] = Unique(b)[1]
    BY <1>2, <1>3, <1>4, <1>13, <2>1
  <2>3. Candidates(b)[Len(c2)].rust = "uuid"
    BY <1>4, <1>7, <1>8, <1>13, <2>1, <2>2
  <2> QED
    BY <1>11, <1>13, <2>1, <2>3
<1>14. ASSUME Candidates(b)[k].rust = "bytes"
       PROVE  \E j \in DOMAIN Candidates(b) : j < k /\ Candidates(b)[j].rust = "String"
  <2>1. Len(c2) + 1 \in DOMAIN Candidates(b) /\ Len(c2) + 1 < k
    BY <1>8, <1>9, <1>12, <1>14
  <2>2. Candidates(b)[Len(c2) + 1].rust = "String"
    BY <1>7, <1>8
  <2> QED
    BY <2>1, <2>2
<1> QED
  BY <1>10, <1>13, <1>14

(* Binding a value that was read as a candidate produces the candidate's   *)
(* own kind, in a build with the library for it.                           *)
LEMMA BoundKind ==
  ASSUME NEW try \in Tries, NEW of, NEW b, HasLibrary(Value(try.variant, of), b)
  PROVE  Produces(Value(try.variant, of), b) = BoundAs(try.rust)
<1>1. Value(try.variant, of).variant = try.variant
  BY DEF Value
<1>2. /\ try.variant = "Timestamp" => HasDates(b)
      /\ try.variant = "Uuid" => HasUuid(b)
  BY <1>1 DEF HasLibrary
<1> DEFINE value == Value(try.variant, of)
<1>3. /\ value.variant = "Bool" => Produces(value, b) = "bool"
      /\ value.variant = "Int" => Produces(value, b) = "i64"
      /\ value.variant = "Float" => Produces(value, b) = "f64"
      /\ value.variant = "Timestamp" => Produces(value, b) = TimestampRepr(b)
      /\ value.variant = "Bytes" => Produces(value, b) = "bytes"
      /\ value.variant = "Uuid" => Produces(value, b) = UuidRepr(b)
      /\ value.variant = "String" => Produces(value, b) = "String"
  <2> HIDE DEF value
  <2> QED
    BY DEF Produces
<1> HIDE DEF value
<1>4. /\ try.variant = "Timestamp" => Produces(value, b) = "timestamp"
      /\ try.variant = "Uuid" => Produces(value, b) = "uuid"
  BY <1>1, <1>2, <1>3 DEF value, TimestampRepr, UuidRepr
<1>5. Produces(value, b) = BoundAs(try.rust)
  BY <1>1, <1>3, <1>4 DEF value, Tries, Try, BoundAs
<1> QED
  BY <1>5 DEF value

(* So what was read off a row for a key is compared with the key's column. *)
LEMMA ReadAccepted ==
  ASSUME ExactBoundaries, SolidKeys, ComparableKeys, NEW o \in Orders, NEW row \in AllCells,
         NEW c \in Builds, Readable(New(o), Shown, row, c), NEW k \in DOMAIN o, NEW b,
         HasLibrary(GetValue(Shown, row, o[k].column, c), b)
  PROVE  Accepts(o[k].column, GetValue(Shown, row, o[k].column, c), b)
<1> DEFINE column == o[k].column
           seen   == Decoded(TypeOf[column], c)
           read   == Candidates(c)[First(seen)]
           value  == GetValue(Shown, row, column, c)
<1>1. \A j \in DOMAIN o :
        /\ ~Missing(Shown, o[j].column) /\ row[o[j].column] # Null
        /\ Shown[Place(Shown, o[j].column)] = o[j].column
        /\ ~Undecodable(Shown, o[j].column, c)
  <2> TAKE j \in DOMAIN o
  <2>1. KeyReadable(o[j], Shown, row, c)
    BY DEF Readable, New
  <2>2. ~Missing(Shown, o[j].column) /\ row[o[j].column] # Null
    BY <2>1, KeysSolid DEF KeyReadable
  <2>3. Shown[Place(Shown, o[j].column)] = o[j].column
    BY <2>2, RightPlace
  <2> QED
    BY <2>1, <2>2, <2>3 DEF KeyReadable
<1>2. Serves(c, o)
  BY <1>1 DEF Serves
<1>3. seen # {} /\ seen \in SUBSET Nat /\ seen \subseteq DOMAIN Candidates(c)
  BY <1>1, CandidateOrder DEF Undecodable, Decoded
<1>4. First(seen) \in seen /\ \A n \in seen : First(seen) <= n
  <2> HIDE DEF seen
  <2> QED
    BY <1>3, FirstIsLeast
<1>5. read \in Tries /\ read.rust \in Decodes[TypeOf[column]]
  BY <1>3, <1>4, CandidateOrder DEF Decoded
<1>6. \A j \in DOMAIN Candidates(c) :
        j < First(seen) => Candidates(c)[j].rust \notin Decodes[TypeOf[column]]
  <2>1. \A j \in DOMAIN Candidates(c) : j \notin seen =>
          Candidates(c)[j].rust \notin Decodes[TypeOf[column]]
    BY DEF Decoded
  <2>2. \A j \in DOMAIN Candidates(c) : j \in Nat
    BY CandidateOrder
  <2>3. First(seen) \in Nat
    BY <1>3, <1>4
  <2> HIDE DEF seen
  <2> QED
    BY <1>3, <1>4, <2>1, <2>2, <2>3
<1>7. ASSUME read.rust \in {"String", "bytes"} PROVE "uuid" \notin Decodes[TypeOf[column]]
  <2> SUFFICES ASSUME "uuid" \in Decodes[TypeOf[column]] PROVE FALSE
    OBVIOUS
  <2>1. HasUuid(c)
    BY <1>2 DEF ComparableKeys
  <2>2. First(seen) \in DOMAIN Candidates(c)
    BY <1>3, <1>4
  <2>3. PICK j \in DOMAIN Candidates(c) : j < First(seen) /\ Candidates(c)[j].rust = "uuid"
    <3> HIDE DEF seen
    <3> QED
      BY <1>7, <2>1, <2>2, CandidateOrder
  <2> QED
    BY <1>6, <2>3
<1>8. ASSUME read.rust = "bytes" PROVE "String" \notin Decodes[TypeOf[column]]
  <2>1. First(seen) \in DOMAIN Candidates(c)
    BY <1>3, <1>4
  <2>2. PICK j \in DOMAIN Candidates(c) : j < First(seen) /\ Candidates(c)[j].rust = "String"
    <3> HIDE DEF seen
    <3> QED
      BY <1>8, <2>1, CandidateOrder
  <2> QED
    BY <1>6, <2>2
<1>9. BoundAs(read.rust) \in Compares[TypeOf[column]]
  <2>1. \/ BoundAs(read.rust) \in Compares[TypeOf[column]]
        \/ read.rust \in {"String", "bytes"} /\ "uuid" \in Decodes[TypeOf[column]]
        \/ read.rust = "bytes" /\ "String" \in Decodes[TypeOf[column]]
    <3> HIDE DEF read
    <3> QED
      BY <1>5 DEF ComparableKeys
  <2> QED
    BY <1>7, <1>8, <2>1
<1>10. \E of : value = Value(read.variant, of)
  BY <1>1 DEF GetValue
<1>11. Produces(value, b) = BoundAs(read.rust)
  <2> HIDE DEF read, value
  <2>1. HasLibrary(value, b)
    BY DEF value
  <2> QED
    BY <1>5, <1>10, <2>1, BoundKind
<1> QED
  BY <1>9, <1>11 DEF Accepts

(* There is no cursor to begin with.                                       *)
LEMMA IssuedInit == Init => Issued
  BY DEF Init, Issued, Fetched, EmptyToken, NoPage

(* Only next_page makes cursors, and it reads them off a row.              *)
LEMMA IssuedNext == TypeOK /\ Issued /\ [Next]_vars => Issued'
<1> SUFFICES ASSUME TypeOK, Issued, [Next]_vars PROVE Issued'
  OBVIOUS
<1>1. CASE Write \/ Resort \/ Lose \/ FailPage \/ UNCHANGED vars
  <2>1. UNCHANGED <<token, page, build>> /\ (Fetched' => Fetched)
    BY <1>1 DEF Write, Put, Delete, Touch, Resort, Lose, Fault, FailPage, request, history,
                vars, Fetched
  <2> QED
    BY <2>1 DEF Issued
<1>2. CASE Fetch
  <2>1. UNCHANGED <<token, page>> /\ build' \in Builds
    BY <1>2 DEF Fetch
  <2> QED
    BY <2>1 DEF Issued
<1>3. CASE CutPage
  <2>1. /\ phase = "fetched" /\ UNCHANGED <<token, build>>
        /\ page'.cursor = IF IsLast(rows, size) THEN << >>
                          ELSE AfterRow(New(sort), Shown, LastKept, build)
    BY <1>3 DEF CutPage
  <2>2. sort \in Orders /\ build \in Builds
    BY <2>1 DEF TypeOK, Issued, Fetched
  <2>3. ASSUME ~IsLast(rows, size) PROVE ReadOff(page'.cursor)
    <3>1. Readable(New(sort), Shown, LastKept, build)
      BY <1>3, <2>3 DEF CutPage, PageFails
    <3>2. LastKept \in AllCells
      BY <2>3, LastKeptRow DEF AllCells
    <3> QED
      BY <2>1, <2>2, <2>3, <3>1, <3>2 DEF ReadOff
  <2> QED
    BY <2>1, <2>2, <2>3 DEF Issued
<1>4. CASE Receive
  <2>1. token'.cursor = page.cursor /\ page'.cursor = << >> /\ ~Fetched'
    BY <1>4 DEF Receive, Encode, NoPage, Fetched
  <2> QED
    BY <2>1 DEF Issued
<1> QED
  BY <1>1, <1>2, <1>3, <1>4 DEF Next, Handle

(* A token's cursor was read off a row, by a build that could read all of  *)
(* its ordering.                                                           *)
THEOREM IssuedHolds == Spec => []Issued
<1>1. TypeOK /\ Issued /\ [Next]_vars => Issued'
  BY IssuedNext
<1> QED
  BY <1>1, IssuedInit, TraversalTypeCorrect, PTL DEF Spec

(* The database compares every boundary a token carries with the column it *)
(* came from, whichever of the driver's types it was read as: the one that *)
(* says most of it is tried first.                                         *)
THEOREM BoundaryAcceptedHolds ==
  ExactBoundaries /\ SolidKeys /\ ComparableKeys => (Spec => []BoundaryAccepted)
<1>1. ASSUME ExactBoundaries, SolidKeys, ComparableKeys PROVE Spec => []BoundaryAccepted
  <2>1. Issued => BoundaryAccepted
    <3> SUFFICES ASSUME Issued, NEW b \in Builds, NEW k \in DOMAIN token.cursor,
                        HasLibrary(token.cursor[k].value, b)
                 PROVE  Accepts(token.cursor[k].order.column, token.cursor[k].value, b)
      BY DEF BoundaryAccepted
    <3>1. token.cursor # << >>
      OBVIOUS
    <3>2. PICK o \in Orders, row \in AllCells, c \in Builds :
            Readable(New(o), Shown, row, c) /\ token.cursor = AfterRow(New(o), Shown, row, c)
      BY <3>1 DEF Issued, ReadOff
    <3>3. /\ k \in DOMAIN o
          /\ token.cursor[k] = [order |-> o[k],
                                value |-> GetValue(Shown, row, o[k].column, c)]
      BY <3>2 DEF AfterRow, New
    <3> QED
      BY <1>1, <3>2, <3>3, ReadAccepted
  <2> QED
    BY <2>1, IssuedHolds, PTL
<1> QED
  BY <1>1
=============================================================================
