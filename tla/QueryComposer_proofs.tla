------------------------ MODULE QueryComposer_proofs -------------------------
(* Theorems about QueryComposer: type correctness, and the facts about     *)
(* counting in lists that the proofs of its properties share.              *)
EXTENDS QueryComposer, WhereClause_proofs, FiniteSetTheorems, SequenceTheorems

(* The number of the first k tokens that are a ? is a natural number, and  *)
(* it grows by one exactly at a ?.                                         *)
LEMMA QuestionsCounted ==
  ASSUME NEW sql, NEW k \in Nat
  PROVE  /\ IsFiniteSet(QuestionsUpTo(sql, k))
         /\ Cardinality(QuestionsUpTo(sql, k)) \in Nat
         /\ Cardinality(QuestionsUpTo(sql, 0)) = 0
         /\ Cardinality(QuestionsUpTo(sql, k + 1)) =
              Cardinality(QuestionsUpTo(sql, k)) + (IF IsQuestion(sql[k + 1]) THEN 1 ELSE 0)
<1>1. IsFiniteSet(QuestionsUpTo(sql, k))
  <2>1. IsFiniteSet(1..k)
    BY FS_Interval
  <2>2. QuestionsUpTo(sql, k) \subseteq 1..k
    BY DEF QuestionsUpTo
  <2> QED
    BY <2>1, <2>2, FS_Subset
<1>2. Cardinality(QuestionsUpTo(sql, k)) \in Nat
  BY <1>1, FS_CardinalityType
<1>3. Cardinality(QuestionsUpTo(sql, 0)) = 0
  <2>1. QuestionsUpTo(sql, 0) = {}
    BY DEF QuestionsUpTo
  <2> QED
    BY <2>1, FS_EmptySet
<1>4. \A j \in 1..(k + 1) : j \in 1..k \/ j = k + 1
  OBVIOUS
<1>5. k + 1 \notin 1..k /\ k + 1 \in 1..(k + 1) /\ 1..k \subseteq 1..(k + 1)
  OBVIOUS
<1>6. CASE IsQuestion(sql[k + 1])
  <2>1. QuestionsUpTo(sql, k + 1) = QuestionsUpTo(sql, k) \cup {k + 1}
    BY <1>4, <1>5, <1>6 DEF QuestionsUpTo
  <2>2. k + 1 \notin QuestionsUpTo(sql, k)
    BY <1>5 DEF QuestionsUpTo
  <2>3. Cardinality(QuestionsUpTo(sql, k + 1)) = Cardinality(QuestionsUpTo(sql, k)) + 1
    BY <1>1, <2>1, <2>2, FS_AddElement
  <2> QED
    BY <1>1, <1>2, <1>3, <1>6, <2>3
<1>7. CASE ~IsQuestion(sql[k + 1])
  <2>1. QuestionsUpTo(sql, k + 1) = QuestionsUpTo(sql, k)
    BY <1>4, <1>5, <1>7 DEF QuestionsUpTo
  <2> QED
    BY <1>1, <1>2, <1>3, <1>7, <2>1
<1> QED
  BY <1>6, <1>7

(* A base query's tokens, and the count compose() starts from.             *)
LEMMA BaseType ==
  ASSUME NEW b \in Bases
  PROVE  /\ b \in Seq(BaseTokens) /\ Len(b) \in Nat /\ DOMAIN b = 1..Len(b)
         /\ \A k \in 1..Len(b) :
              /\ b[k] \in BaseTokens /\ b[k].number \in Nat
              /\ ~IsSlot(b[k]) => b[k] \in ClauseTokens
         /\ CountPlaceholders(b, Numbered) \in Nat
<1>1. b \in Seq(BaseTokens)
  BY InputsAssumption
<1>2. Len(b) \in Nat /\ DOMAIN b = 1..Len(b) /\ \A k \in 1..Len(b) : b[k] \in BaseTokens
  BY <1>1
<1>3. \A k \in 1..Len(b) : b[k].number \in Nat
  BY <1>2 DEF BaseTokens, ClauseTokens
<1>4. \A k \in 1..Len(b) : ~IsSlot(b[k]) => b[k] \in ClauseTokens
  BY <1>2 DEF BaseTokens, IsSlot
<1>5. MaxPlaceholderNumber(b) \in Nat
  BY <1>1, <1>2, <1>3, MaxPlaceholderNumberIsMax
<1>6. Cardinality(QuestionsUpTo(b, Len(b))) \in Nat
  BY <1>2, QuestionsCounted
<1> QED
  BY <1>1, <1>2, <1>3, <1>4, <1>5, <1>6 DEF CountPlaceholders

-----------------------------------------------------------------------------
(* The texts compose() splices are texts of the statement's type.          *)
LEMMA SplicedType ==
  ASSUME TypeOK, NEW name
  PROVE  Spliced(name) \in Text
<1>1. acc.sql \in Text
  <2>1. acc.sql \in Seq(Tokens(Values))
    BY DEF TypeOK, Fragments
  <2>2. Tokens(Values) \subseteq Tokens(Values) \cup KeyTokens
    OBVIOUS
  <2> QED
    BY <2>1, <2>2, SeqMonotonic DEF Text
<1>2. OrderingText \in Text
  <2>1. Len(ordering) \in Nat /\ DOMAIN ordering = 1..Len(ordering)
        /\ \A k \in 1..Len(ordering) : ordering[k] \in Keys
    BY DEF TypeOK
  <2>2. \A k \in 1..Len(ordering) : Token("key", 0, ordering[k]) \in KeyTokens
    BY <2>1 DEF Token, KeyTokens
  <2>3. /\ OrderingText = [k \in 1..Len(ordering) |-> OrderingText[k]]
        /\ \A k \in 1..Len(ordering) : OrderingText[k] \in Tokens(Values) \cup KeyTokens
    BY <2>1, <2>2 DEF OrderingText
  <2> QED
    BY <2>1, <2>3, ListIsSeq DEF Text
<1>3. << >> \in Text
  BY DEF Text
<1> QED
  BY <1>1, <1>2, <1>3 DEF Spliced

(* The arguments, extended by a fragment's values.                         *)
LEMMA Extended ==
  ASSUME NEW a \in Arguments, NEW v \in Seq(Values)
  PROVE  /\ a \o FromValues(v) \in Arguments
         /\ Len(a \o FromValues(v)) = Len(a) + Len(v)
         /\ DOMAIN (a \o FromValues(v)) = 1..(Len(a) + Len(v))
         /\ \A n \in 1..Len(a) : (a \o FromValues(v))[n] = a[n]
         /\ \A n \in 1..Len(v) :
              (a \o FromValues(v))[Len(a) + n] = [opaque |-> FALSE, means |-> v[n]]
<1> DEFINE A == [opaque : BOOLEAN, means : Values]
           b == FromValues(v)
<1>1. b \in Seq(A) /\ Len(b) = Len(v)
      /\ \A n \in 1..Len(v) : b[n] = [opaque |-> FALSE, means |-> v[n]]
  <2>1. Len(v) \in Nat /\ DOMAIN v = 1..Len(v) /\ \A j \in DOMAIN v : v[j] \in Values
    OBVIOUS
  <2>2. \A j \in 1..Len(v) : b[j] = [opaque |-> FALSE, means |-> v[j]] /\ b[j] \in A
    BY <2>1 DEF FromValues
  <2>3. b = [j \in 1..Len(v) |-> b[j]]
    BY <2>1 DEF FromValues
  <2> HIDE DEF b, A
  <2>4. b \in Seq(A) /\ Len(b) = Len(v)
    BY <2>1, <2>2, <2>3, ListIsSeq
  <2> QED
    BY <2>2, <2>4
<1> HIDE DEF A, b
<1>2. a \in Seq(A) /\ b \in Seq(A)
  BY <1>1 DEF Arguments, A
<1>3. /\ a \o b \in Seq(A) /\ Len(a \o b) = Len(a) + Len(b)
      /\ DOMAIN (a \o b) = 1..(Len(a) + Len(b))
      /\ \A n \in 1..Len(a) : (a \o b)[n] = a[n]
      /\ \A n \in 1..Len(b) : (a \o b)[Len(a) + n] = b[n]
  BY <1>2, Concatenation
<1> QED
  BY <1>1, <1>3 DEF A, b, Arguments

(* The pool is the arguments, and the clause's values behind them.         *)
LEMMA PoolType ==
  ASSUME TypeOK
  PROVE  /\ Pool \in Arguments /\ Len(Pool) = Len(arguments) + Len(acc.values)
         /\ DOMAIN Pool = 1..Len(Pool) /\ Len(arguments) \in Nat /\ Len(acc.values) \in Nat
         /\ \A n \in 1..Len(arguments) : Pool[n] = arguments[n]
<1>1. arguments \in Arguments /\ acc.values \in Seq(Values)
  BY DEF TypeOK, Fragments
<1>2. Len(arguments) \in Nat /\ Len(acc.values) \in Nat
  BY <1>1 DEF Arguments
<1> DEFINE p == arguments \o FromValues(acc.values)
<1>3. /\ p \in Arguments /\ Len(p) = Len(arguments) + Len(acc.values)
      /\ DOMAIN p = 1..(Len(arguments) + Len(acc.values))
      /\ \A n \in 1..Len(arguments) : p[n] = arguments[n]
  BY <1>1, Extended
<1>4. Pool = p
  BY DEF Pool
<1> HIDE DEF p
<1> QED
  BY <1>2, <1>3, <1>4

(* Behind the arguments, the pool holds the clause's values.               *)
LEMMA PoolValues ==
  ASSUME TypeOK, NEW m \in 1..Len(acc.values)
  PROVE  Pool[Len(arguments) + m] = [opaque |-> FALSE, means |-> acc.values[m]]
<1>1. arguments \in Arguments /\ acc.values \in Seq(Values)
  BY DEF TypeOK, Fragments
<1> QED
  BY <1>1, Extended DEF Pool

-----------------------------------------------------------------------------
(* The builder starts with its types.                                      *)
LEMMA TypeInit == Init => TypeOK
<1> SUFFICES ASSUME Init PROVE TypeOK
  OBVIOUS
<1> USE DEF Init
<1>1. base \in Bases /\ arguments \in Arguments /\ order_by \in Seq(Seq(Keys))
  BY DEF Arguments
<1>2. where_by \in Seq(Fragments) /\ authored \in Seq(Clauses)
  OBVIOUS
<1>3. cursor \in Cursors \cup {NoCursor} /\ pc \in Phases /\ i \in Nat \ {0}
  BY DEF Phases
<1>4. ordering \in Seq(Keys) /\ boundary \in Seq(Tokens(Values)) /\ acc \in Fragments
  BY DEF EmptyClause, Fragment, Fragments
<1>5. out \in Text /\ question \in Nat /\ spliced \subseteq {"where", "order_by"}
  BY DEF Text
<1>6. taken \subseteq Nat /\ marks \in Seq(Values) /\ rendered \in Arguments
  BY DEF Arguments
<1>7. outcome \in Errors \cup {"pending", "ok"} /\ ((pc = "done") <=> (outcome # "pending"))
  OBVIOUS
<1> QED
  BY <1>1, <1>2, <1>3, <1>4, <1>5, <1>6, <1>7 DEF TypeOK

(* A step that fails changes nothing but the result.                       *)
LEMMA TypeFail ==
  ASSUME TypeOK, NEW e \in Errors, Fail(e)
  PROVE  TypeOK'
BY DEF TypeOK, Fail, Return, builder, pipeline, Phases, Errors

(* Every call of the builder keeps the types.                              *)
LEMMA TypeBuild ==
  ASSUME TypeOK, Build
  PROVE  TypeOK'
<1>1. Len(authored) \in Nat /\ Len(arguments) \in Nat /\ Author0 \in Nat
  BY DEF TypeOK, Arguments, Author0
<1>2. ASSUME NEW opaque \in BOOLEAN, PushArgument(opaque) PROVE TypeOK'
  <2>1. [opaque |-> opaque, means |-> <<Author0, Len(arguments) + 1>>]
          \in [opaque : BOOLEAN, means : Values]
    BY <1>1 DEF Values
  <2>2. arguments' \in Arguments
    BY <1>2, <2>1 DEF PushArgument, TypeOK, Arguments
  <2> QED
    BY <1>2, <2>2 DEF PushArgument, TypeOK, pipeline
<1>3. ASSUME NEW c \in Cursors, WithCursor(c) PROVE TypeOK'
  BY <1>3 DEF WithCursor, TypeOK, pipeline
<1>4. \A c \in Clauses, a \in Nat : Author(c, a) \in Fragments
  BY AuthorType, InputsAssumption
<1>5. ASSUME NEW c \in Clauses, PushWhere(c) PROVE TypeOK'
  <2>1. where_by' \in Seq(Fragments) /\ authored' \in Seq(Clauses)
    BY <1>1, <1>4, <1>5 DEF PushWhere, TypeOK
  <2> QED
    BY <1>5, <2>1 DEF PushWhere, TypeOK, pipeline
<1>6. ASSUME NEW c \in Clauses, NEW d \in Clauses, PushEither(c, d) PROVE TypeOK'
  <2>1. Author(c, Len(authored) + 2) \in Fragments /\ Author(d, Len(authored) + 3) \in Fragments
    BY <1>1, <1>4
  <2>2. Combine(Author(c, Len(authored) + 2), Author(d, Len(authored) + 3)) \in Fragments
    BY <2>1, CombineType
  <2>3. where_by' \in Seq(Fragments) /\ authored' \in Seq(Clauses)
    BY <1>6, <2>2 DEF PushEither, TypeOK
  <2> QED
    BY <1>6, <2>3 DEF PushEither, TypeOK, pipeline
<1>7. ASSUME NEW o \in Orders, PushOrderBy(o) PROVE TypeOK'
  <2>1. o \in Seq(Keys)
    BY InputsAssumption
  <2>2. order_by' \in Seq(Seq(Keys))
    BY <1>7, <2>1 DEF PushOrderBy, TypeOK
  <2> QED
    BY <1>7, <2>2 DEF PushOrderBy, TypeOK, pipeline
<1>8. CASE Compose
  BY <1>8 DEF Compose, TypeOK, builder, pipeline, Phases
<1> QED
  BY <1>2, <1>3, <1>5, <1>6, <1>7, <1>8 DEF Build, Bind, BindValue

(* The value an index of the statement's pool stands for.                  *)
LEMMA PoolElement ==
  ASSUME TypeOK, NEW n \in 1..Len(Pool)
  PROVE  n \in Nat /\ Pool[n] \in [opaque : BOOLEAN, means : Values]
<1> DEFINE p == Pool
           A == [opaque : BOOLEAN, means : Values]
<1>1. p \in Seq(A)
  BY PoolType DEF Arguments
<1> HIDE DEF p, A
<1>2. \A k \in 1..Len(p) : k \in Nat /\ p[k] \in A
  BY <1>1
<1> QED
  BY <1>2 DEF p, A

(* A token of the statement that is no key is meant for a value.           *)
LEMMA WrittenType ==
  ASSUME TypeOK, i <= Len(out), out[i].kind # "key"
  PROVE  out[i].means \in Values
<1>1. i \in 1..Len(out)
  BY DEF TypeOK, Text
<1>2. out[i] \in Tokens(Values) \cup KeyTokens
  BY <1>1 DEF TypeOK, Text
<1> QED
  BY <1>2 DEF Tokens, KeyTokens

(* Branch b of the cursor's clause names the values 1 to b, and b last.    *)
LEMMA BranchType ==
  ASSUME NEW b \in Nat
  PROVE  /\ Branch(b) \in Seq(Tokens(Values)) /\ Len(Branch(b)) = b
         /\ \A j \in 1..b : Branch(b)[j] = Token("number", j, <<AuthorCursor, j>>)
<1>1. \A j \in 1..b : Token("number", j, <<AuthorCursor, j>>) \in Tokens(Values)
  BY DEF Token, Tokens, Kinds, Values, AuthorCursor
<1>2. /\ Branch(b) = [j \in 1..b |-> Branch(b)[j]]
      /\ \A j \in 1..b : Branch(b)[j] = Token("number", j, <<AuthorCursor, j>>)
  BY DEF Branch
<1>3. \A j \in 1..b : Branch(b)[j] \in Tokens(Values)
  BY <1>1, <1>2
<1> QED
  BY <1>2, <1>3, ListIsSeq

(* A cursor's keys are a list, with or without a cursor.                   *)
LEMMA CursorType ==
  ASSUME TypeOK
  PROVE  cursor.keys \in Seq(Keys) /\ Len(cursor.keys) \in Nat
<1>1. CASE cursor \in Cursors
  BY <1>1, InputsAssumption
<1>2. CASE cursor = NoCursor
  BY <1>2 DEF NoCursor
<1> QED
  BY <1>1, <1>2 DEF TypeOK

(* The cursor's clause has a value for each key.                           *)
LEMMA CursorClauseType ==
  ASSUME TypeOK
  PROVE  /\ CursorClause \in Fragments
         /\ CursorClause.sql = boundary /\ Len(CursorClause.values) = Len(cursor.keys)
         /\ \A j \in 1..Len(cursor.keys) : CursorClause.values[j] = <<AuthorCursor, j>>
<1> DEFINE v == [j \in 1..Len(cursor.keys) |-> <<AuthorCursor, j>>]
<1>1. \A j \in 1..Len(cursor.keys) : v[j] \in Values /\ v[j] = <<AuthorCursor, j>>
  BY CursorType DEF Values, AuthorCursor
<1>2. v = [j \in 1..Len(cursor.keys) |-> v[j]] /\ CursorClause = Fragment(boundary, v)
  BY DEF CursorClause
<1> HIDE DEF v
<1>3. v \in Seq(Values) /\ Len(v) = Len(cursor.keys)
  BY <1>1, <1>2, CursorType, ListIsSeq
<1> QED
  BY <1>1, <1>2, <1>3 DEF TypeOK, Fragments, Fragment

(* compose_where's result: the combined clause, shifted past the base's.   *)
LEMMA ShiftType ==
  ASSUME NEW f \in Fragments, NEW offset \in Nat
  PROVE  /\ Shift(f, offset) \in Fragments
         /\ Shift(f, offset).sql = ShiftPlaceholderNumbers(f.sql, offset)
         /\ Shift(f, offset).values = f.values
<1>1. f.sql \in Seq(Tokens(Values)) /\ f.values \in Seq(Values)
  BY DEF Fragments
<1>2. ShiftPlaceholderNumbers(f.sql, offset) \in Seq(Tokens(Values))
  BY <1>1, ShiftText
<1> QED
  BY <1>1, <1>2 DEF Shift, Fragment, Fragments

(* The base query's placeholders can be counted.                           *)
LEMMA PlaceholdersType ==
  ASSUME TypeOK
  PROVE  Placeholders \in Nat
BY BaseType DEF TypeOK, Placeholders

(* Every step of compose() keeps the types.                                *)
LEMMA TypeComposing ==
  ASSUME TypeOK, Composing
  PROVE  TypeOK'
<1> USE DEF builder, pipeline
<1>1. CASE RejectUnsupported \/ RejectBase \/ RejectCursor \/ PanicOnUnsetCursor
           \/ RejectMissingWhere \/ RejectMissingOrderBy \/ RejectStatement \/ RejectReference
  <2>1. \E e \in Errors : Fail(e)
    BY <1>1 DEF RejectUnsupported, RejectBase, RejectCursor, PanicOnUnsetCursor,
                RejectMissingWhere, RejectMissingOrderBy, RejectStatement, RejectReference,
                Errors
  <2> QED
    BY <2>1, TypeFail
<1>2. CASE AcceptBase
  BY <1>2 DEF AcceptBase, TypeOK, Phases
<1>3. CASE ThenOrderBy
  <2>1. order_by[i] \in Seq(Keys)
    BY <1>3 DEF ThenOrderBy, TypeOK
  <2>2. ordering' \in Seq(Keys)
    BY <1>3, <2>1 DEF ThenOrderBy, TypeOK
  <2> QED
    BY <1>3, <2>2 DEF ThenOrderBy, TypeOK
<1>4. CASE AcceptOrdering
  <2>2. ordering' \in Seq(Keys)
    BY <1>4, CursorType DEF AcceptOrdering, TypeOK
  <2> QED
    BY <1>4, <2>2 DEF AcceptOrdering, TypeOK, Phases
<1>5. CASE AndClause
  <2>1. where_by[i] \in Fragments /\ acc \in Fragments
    BY <1>5 DEF AndClause, TypeOK
  <2>2. acc' \in Fragments
    BY <1>5, <2>1, CombineType DEF AndClause
  <2> QED
    BY <1>5, <2>2 DEF AndClause, TypeOK
<1>6. CASE BoundaryBranch
  <2>1. i - Len(where_by) \in Nat
    BY <1>6 DEF BoundaryBranch, TypeOK
  <2>2. boundary' \in Seq(Tokens(Values))
    <3>1. Branch(i - Len(where_by)) \in Seq(Tokens(Values)) /\ boundary \in Seq(Tokens(Values))
      BY <2>1, BranchType DEF TypeOK
    <3> QED
      BY <1>6, <3>1 DEF BoundaryBranch
  <2> QED
    BY <1>6, <2>2 DEF BoundaryBranch, TypeOK
<1>7. CASE FinishWhere
  <2>1. Combine(acc, CursorClause) \in Fragments
    BY CursorClauseType, CombineType DEF TypeOK
  <2>2. acc' \in Fragments
    BY <1>7, <2>1, ShiftType, PlaceholdersType DEF FinishWhere
  <2> QED
    BY <1>7, <2>2 DEF FinishWhere, WheresRead, TypeOK, Phases
<1>8. CASE SpliceSlot
  <2>1. out' \in Text
    <3>1. out \in Text /\ Spliced(base[i].name) \in Text
      BY SplicedType DEF TypeOK
    <3> QED
      BY <1>8, <3>1 DEF SpliceSlot, Text
  <2> QED
    BY <1>8, <2>1 DEF SpliceSlot, TypeOK
<1>9. CASE NumberQuestion
  <2>1. Cardinality(QuestionsUpTo(base, i)) \in Nat /\ question + 1 \in Nat
    BY QuestionsCounted DEF TypeOK
  <2>2. Token("number", question + 1, <<Author0, Cardinality(QuestionsUpTo(base, i))>>)
          \in Tokens(Values)
    BY <2>1 DEF Token, Tokens, Kinds, Values, Author0
  <2>3. out' \in Text
    BY <1>9, <2>2 DEF NumberQuestion, QuestionNumber, TypeOK, Text
  <2> QED
    BY <1>9, <2>1, <2>3 DEF NumberQuestion, QuestionNumber, TypeOK
<1>10. CASE CopyToken
  <2>1. base[i] \in ClauseTokens
    BY <1>10, BaseType DEF CopyToken, TypeOK
  <2>2. Token(base[i].kind, base[i].number, <<Author0, base[i].number>>)
          \in Tokens(Values)
    BY <2>1 DEF ClauseTokens, Token, Tokens, Kinds, Values, Author0
  <2>3. out' \in Text
    BY <1>10, <2>2 DEF CopyToken, TypeOK, Text
  <2> QED
    BY <1>10, <2>3 DEF CopyToken, TypeOK
<1>11. CASE FinishNumbered
  <2>1. Pool \in Arguments
    BY PoolType
  <2> QED
    BY <1>11, <2>1 DEF FinishNumbered, Return, TypeOK, Phases
<1>12. CASE StartRender
  BY <1>12 DEF StartRender, SlotsFound, BaseScanned, TypeOK, Phases
<1>13. CASE RenderReference
  <2>1. out[i].means \in Values /\ out[i].number \in 1..Len(Pool)
    BY <1>13, WrittenType DEF RenderReference, Available, IsNumber
  <2>2. rendered' \in Arguments
    <3> DEFINE x == Pool[out[i].number]
    <3>1. x \in [opaque : BOOLEAN, means : Values]
      BY <2>1, PoolElement
    <3>2. rendered' = Append(rendered, x) /\ rendered \in Arguments
      BY <1>13 DEF RenderReference, TypeOK
    <3> HIDE DEF x
    <3> QED
      BY <3>1, <3>2 DEF Arguments
  <2>3. taken' \subseteq Nat
    BY <1>13, <2>1, PoolElement DEF RenderReference, TypeOK
  <2>4. marks' \in Seq(Values)
    BY <1>13, <2>1 DEF RenderReference, TypeOK
  <2> QED
    BY <1>13, <2>2, <2>3, <2>4 DEF RenderReference, TypeOK
<1>14. CASE CopyRendered
  <2>1. IsQuestion(out[i]) => out[i].means \in Values
    BY <1>14, WrittenType DEF CopyRendered, IsQuestion
  <2>2. marks' \in Seq(Values)
    BY <1>14, <2>1 DEF CopyRendered, TypeOK
  <2> QED
    BY <1>14, <2>2 DEF CopyRendered, TypeOK
<1>15. CASE FinishRender
  BY <1>15 DEF FinishRender, Return, TypeOK, Phases
<1> QED
  BY <1>1, <1>2, <1>3, <1>4, <1>5, <1>6, <1>7, <1>8, <1>9, <1>10, <1>11, <1>12, <1>13,
     <1>14, <1>15 DEF Composing

(* The types are right throughout every build and composition, for every   *)
(* dialect and all base queries, clauses, orderings and cursors.           *)
THEOREM TypeCorrect == Spec => []TypeOK
<1>1. TypeOK /\ [Next]_vars => TypeOK'
  <2>1. ASSUME TypeOK, UNCHANGED vars PROVE TypeOK'
    BY <2>1 DEF TypeOK, vars
  <2> QED
    BY <2>1, TypeBuild, TypeComposing DEF Next
<1> QED
  BY <1>1, TypeInit, PTL DEF Spec
-----------------------------------------------------------------------------
(* Facts about counting the elements of a list that are in a set, for      *)
(* every list and every set: what the composer's appends, concatenations   *)
(* and shifts do to a count.                                               *)

(* A count is a natural number; it starts at 0 and grows by one exactly at *)
(* an element of the set.                                                  *)
LEMMA CountFinite ==
  ASSUME NEW s, NEW S, NEW k \in Nat
  PROVE  IsFiniteSet({j \in 1..k : s[j] \in S})
<1> DEFINE C == {j \in 1..k : s[j] \in S}
<1>1. IsFiniteSet(1..k) /\ C \subseteq 1..k
  BY FS_Interval
<1> HIDE DEF C
<1>2. IsFiniteSet(C)
  BY <1>1, FS_Subset
<1> QED
  BY <1>2 DEF C

(* Counting goes up by one where an element is in the set.                 *)
LEMMA CountStep ==
  ASSUME NEW s, NEW S, NEW k, k \in Nat
  PROVE  /\ CountUpTo(s, S, k) \in Nat /\ CountUpTo(s, S, 0) = 0
         /\ CountUpTo(s, S, k + 1) =
              CountUpTo(s, S, k) + (IF s[k + 1] \in S THEN 1 ELSE 0)
<1> DEFINE C(n) == {j \in 1..n : s[j] \in S}
<1>1. IsFiniteSet(C(k))
  BY CountFinite
<1>2. Cardinality(C(k)) \in Nat /\ C(0) = {} /\ Cardinality({}) = 0
  BY <1>1, FS_CardinalityType, FS_EmptySet
<1>3. /\ \A j \in 1..(k + 1) : j \in 1..k \/ j = k + 1
      /\ k + 1 \notin 1..k /\ k + 1 \in 1..(k + 1) /\ 1..k \subseteq 1..(k + 1)
  OBVIOUS
<1>4. CASE s[k + 1] \in S
  <2>1. C(k + 1) = C(k) \cup {k + 1} /\ k + 1 \notin C(k)
    BY <1>3, <1>4
  <2>2. Cardinality(C(k + 1)) = Cardinality(C(k)) + 1
    <3> HIDE DEF C
    <3> QED
      BY <1>1, <2>1, FS_AddElement
  <2> QED
    BY <1>2, <1>4, <2>2 DEF CountUpTo
<1>5. CASE s[k + 1] \notin S
  <2>1. C(k + 1) = C(k)
    BY <1>3, <1>5
  <2> QED
    BY <1>2, <1>5, <2>1 DEF CountUpTo
<1> QED
  BY <1>4, <1>5

(* The same for all lists, sets and places.                                *)
LEMMA CountEach ==
  \A s, S : \A k \in Nat :
    CountUpTo(s, S, k + 1) = CountUpTo(s, S, k) + (IF s[k + 1] \in S THEN 1 ELSE 0)
BY CountStep

(* Nothing is counted of nothing.                                          *)
LEMMA CountZero == \A s, S : CountUpTo(s, S, 0) = 0
<1>1. 0 \in Nat
  OBVIOUS
<1> QED
  BY <1>1, CountStep

(* A count is a number.                                                    *)
LEMMA CountIsNat == \A s, S : \A k \in Nat : CountUpTo(s, S, k) \in Nat
BY CountStep

(* Induction over the indices of a list: a set of natural numbers that     *)
(* holds 0 and, with each k below n, k + 1, holds all of them up to n.     *)
LEMMA UpTo ==
  ASSUME NEW n \in Nat, NEW P, 0 \in P,
         \A k \in Nat : k < n /\ k \in P => k + 1 \in P
  PROVE  \A k \in 0..n : k \in P
<1> DEFINE Out == {k \in 0..n : k \notin P}
<1>1. SUFFICES ASSUME Out # {} PROVE FALSE
  OBVIOUS
<1>2. Out \in SUBSET Nat
  OBVIOUS
<1>3. PICK m \in Out : \A k \in Out : m <= k
  <2> HIDE DEF Out
  <2> QED
    BY <1>1, <1>2, LeastNatural
<1>4. m \in 0..n /\ m \notin P /\ m # 0
  BY <1>3
<1>5. m - 1 \in Nat /\ m - 1 < n /\ m - 1 \in 0..n /\ (m - 1) + 1 = m /\ ~(m <= m - 1)
  BY <1>4
<1>6. m - 1 \notin Out
  <2> HIDE DEF Out
  <2> QED
    BY <1>3, <1>5
<1> QED
  BY <1>4, <1>5, <1>6

(* Lists that agree on membership count alike.                             *)
LEMMA CountAlike ==
  ASSUME NEW s, NEW S, NEW t, NEW U, NEW k \in Nat,
         \A j \in 1..k : s[j] \in S <=> t[j] \in U
  PROVE  CountUpTo(s, S, k) = CountUpTo(t, U, k)
<1>1. {j \in 1..k : s[j] \in S} = {j \in 1..k : t[j] \in U}
  OBVIOUS
<1> QED
  BY <1>1 DEF CountUpTo

(* Where every element is in the set, all are counted ...                  *)
LEMMA CountAll ==
  ASSUME NEW s, NEW S, NEW k \in Nat, \A j \in 1..k : s[j] \in S
  PROVE  CountUpTo(s, S, k) = k
<1>1. {j \in 1..k : s[j] \in S} = 1..k
  OBVIOUS
<1>2. Cardinality(1..k) = k
  BY FS_Interval
<1> QED
  BY <1>1, <1>2 DEF CountUpTo

(* ... and none where none is.                                             *)
LEMMA CountNone ==
  ASSUME NEW s, NEW S, NEW k \in Nat, \A j \in 1..k : s[j] \notin S
  PROVE  CountUpTo(s, S, k) = 0
<1>1. {j \in 1..k : s[j] \in S} = {}
  OBVIOUS
<1> QED
  BY <1>1, FS_EmptySet DEF CountUpTo

(* What counts nothing holds nothing.                                      *)
LEMMA CountWithin ==
  ASSUME NEW s, NEW S, NEW n \in Nat, CountUpTo(s, S, n) = 0
  PROVE  \A j \in 1..n : s[j] \notin S
<1>1. IsFiniteSet({j \in 1..n : s[j] \in S})
  BY CountFinite
<1>2. {j \in 1..n : s[j] \in S} = {}
  BY <1>1, FS_EmptySet DEF CountUpTo
<1> QED
  BY <1>2

(* A longer prefix counts no less.                                         *)
LEMMA CountMore ==
  ASSUME NEW s, NEW S, NEW k \in Nat, NEW n \in Nat, k <= n
  PROVE  CountUpTo(s, S, k) <= CountUpTo(s, S, n)
<1> DEFINE C == {j \in 1..k : s[j] \in S}
           D == {j \in 1..n : s[j] \in S}
<1>1. C \subseteq D
  OBVIOUS
<1>2. IsFiniteSet(D)
  BY CountFinite
<1> HIDE DEF C, D
<1>3. Cardinality(C) <= Cardinality(D)
  BY <1>1, <1>2, FS_Subset
<1> QED
  BY <1>3 DEF CountUpTo, C, D

(* Up to its first part's length a concatenation counts as that part; from *)
(* there on, the second part's count is added.                             *)
LEMMA CountFirst ==
  ASSUME NEW T, NEW a, NEW b, NEW S, a \in Seq(T), b \in Seq(T), NEW k, k \in 0..Len(a)
  PROVE  CountUpTo(a \o b, S, k) = CountUpTo(a, S, k)
<1> DEFINE c == a \o b
<1>1. \A j \in 1..Len(a) : c[j] = a[j]
  BY Concatenation
<1> HIDE DEF c
<1>2. k \in Nat /\ \A j \in 1..k : c[j] \in S <=> a[j] \in S
  BY <1>1
<1>3. CountUpTo(c, S, k) = CountUpTo(a, S, k)
  BY <1>2, CountAlike
<1> QED
  BY <1>3 DEF c

(* Past the first of two lists, the count goes on from all of it.          *)
LEMMA CountSecond ==
  ASSUME NEW T, NEW a, NEW b, NEW S, a \in Seq(T), b \in Seq(T), NEW l, l \in 0..Len(b)
  PROVE  CountUpTo(a \o b, S, Len(a) + l) = Occurrences(a, S) + CountUpTo(b, S, l)
<1> DEFINE c == a \o b
           n == Len(a)
           P == {k \in 0..Len(b) :
                  CountUpTo(c, S, n + k) = CountUpTo(a, S, n) + CountUpTo(b, S, k)}
<1>1. /\ n \in Nat /\ Len(b) \in Nat
      /\ \A k \in 1..Len(b) : c[n + k] = b[k]
  BY Concatenation
<1>2. CountUpTo(c, S, n) = CountUpTo(a, S, n)
  BY <1>1, CountFirst
<1> HIDE DEF c, n
<1>3. 0 \in P
  <2>1. CountUpTo(b, S, 0) = 0
    BY CountZero
  <2>2. CountUpTo(a, S, n) \in Nat
    BY <1>1, CountIsNat
  <2>3. n + 0 = n /\ 0 \in 0..Len(b)
    BY <1>1
  <2>4. CountUpTo(c, S, n + 0) = CountUpTo(a, S, n) + CountUpTo(b, S, 0)
    BY <1>2, <2>1, <2>2, <2>3
  <2> QED
    BY <2>3, <2>4
<1>4. ASSUME NEW k \in Nat, k < Len(b), k \in P PROVE k + 1 \in P
  <2> DEFINE m == n + k
  <2>1. /\ m \in Nat /\ m + 1 = n + (k + 1) /\ k + 1 \in 1..Len(b) /\ k + 1 \in 0..Len(b)
    BY <1>1, <1>4
  <2> HIDE DEF m
  <2>2. c[m + 1] = b[k + 1]
    BY <1>1, <2>1
  <2>3. CountUpTo(c, S, m + 1) = CountUpTo(c, S, m) + (IF c[m + 1] \in S THEN 1 ELSE 0)
    BY <2>1, CountEach
  <2>4. CountUpTo(b, S, k + 1) = CountUpTo(b, S, k) + (IF b[k + 1] \in S THEN 1 ELSE 0)
    BY CountEach
  <2>7. CountUpTo(b, S, k) \in Nat /\ CountUpTo(a, S, n) \in Nat
    BY <1>1, CountIsNat
  <2>5. CountUpTo(c, S, m) = CountUpTo(a, S, n) + CountUpTo(b, S, k)
    BY <1>4 DEF m
  <2>6. CountUpTo(c, S, m + 1) = CountUpTo(a, S, n) + CountUpTo(b, S, k + 1)
    BY <2>2, <2>3, <2>4, <2>5, <2>7
  <2> QED
    BY <2>1, <2>6
<1>5. \A k \in 0..Len(b) : k \in P
  <2> HIDE DEF P
  <2> QED
    BY <1>1, <1>3, <1>4, UpTo
<1>6. CountUpTo(c, S, n + l) = CountUpTo(a, S, n) + CountUpTo(b, S, l)
  BY <1>5
<1> QED
  BY <1>6 DEF Occurrences, c, n

(* A concatenation counts what its parts count.                            *)
LEMMA CountSum ==
  ASSUME NEW T, NEW a, NEW b, NEW S, a \in Seq(T), b \in Seq(T)
  PROVE  Occurrences(a \o b, S) = Occurrences(a, S) + Occurrences(b, S)
<1>1. Len(b) \in 0..Len(b) /\ Len(a \o b) = Len(a) + Len(b)
  OBVIOUS
<1>2. CountUpTo(a \o b, S, Len(a) + Len(b)) = Occurrences(a, S) + CountUpTo(b, S, Len(b))
  BY <1>1, CountSecond
<1> QED
  BY <1>1, <1>2 DEF Occurrences

(* What a concatenation is, and how it counts.                             *)
Joins(a, b, T, S) ==
  /\ (a \o b) \in Seq(T) /\ Len(a \o b) = Len(a) + Len(b)
  /\ \A k \in 1..Len(a) : (a \o b)[k] = a[k]
  /\ \A k \in 1..Len(b) : (a \o b)[Len(a) + k] = b[k]
  /\ \A k \in 0..Len(a) : CountUpTo(a \o b, S, k) = CountUpTo(a, S, k)
  /\ \A k \in 0..Len(b) :
       CountUpTo(a \o b, S, Len(a) + k) = Occurrences(a, S) + CountUpTo(b, S, k)
  /\ Occurrences(a \o b, S) = Occurrences(a, S) + Occurrences(b, S)

(* All of the above, of two lists.                                         *)
LEMMA Joined ==
  ASSUME NEW T, NEW a, NEW b, NEW S, a \in Seq(T), b \in Seq(T)
  PROVE  Joins(a, b, T, S)
<1>1. /\ (a \o b) \in Seq(T) /\ Len(a \o b) = Len(a) + Len(b)
      /\ \A k \in 1..Len(a) : (a \o b)[k] = a[k]
      /\ \A k \in 1..Len(b) : (a \o b)[Len(a) + k] = b[k]
  BY Concatenation
<1>2. \A k \in 0..Len(a) : CountUpTo(a \o b, S, k) = CountUpTo(a, S, k)
  BY CountFirst
<1>3. \A k \in 0..Len(b) :
        CountUpTo(a \o b, S, Len(a) + k) = Occurrences(a, S) + CountUpTo(b, S, k)
  BY CountSecond
<1>4. Occurrences(a \o b, S) = Occurrences(a, S) + Occurrences(b, S)
  BY CountSum
<1> QED
  BY <1>1, <1>2, <1>3, <1>4 DEF Joins

(* One more element leaves the counts of the prefixes as they were.        *)
LEMMA CountAppend ==
  ASSUME NEW T, NEW a, NEW t, NEW S, a \in Seq(T), t \in T
  PROVE  /\ \A k \in 0..Len(a) : CountUpTo(Append(a, t), S, k) = CountUpTo(a, S, k)
         /\ Occurrences(Append(a, t), S) = Occurrences(a, S) + (IF t \in S THEN 1 ELSE 0)
<1> DEFINE c == Append(a, t)
<1>1. /\ Len(c) = Len(a) + 1 /\ Len(a) \in Nat /\ c[Len(a) + 1] = t
      /\ \A k \in 1..Len(a) : c[k] = a[k]
  OBVIOUS
<1> HIDE DEF c
<1>2. ASSUME NEW k \in 0..Len(a) PROVE CountUpTo(c, S, k) = CountUpTo(a, S, k)
  <2>1. k \in Nat /\ \A j \in 1..k : c[j] \in S <=> a[j] \in S
    BY <1>1
  <2> QED
    BY <2>1, CountAlike
<1> DEFINE n == Len(a)
<1>3. n \in Nat
  BY <1>1
<1> HIDE DEF n
<1>6. CountUpTo(c, S, n + 1) = CountUpTo(c, S, n) + (IF c[n + 1] \in S THEN 1 ELSE 0)
  BY <1>3, CountStep
<1>4. Len(a) \in 0..Len(a)
  BY <1>1
<1>5. Occurrences(c, S) = Occurrences(a, S) + (IF t \in S THEN 1 ELSE 0)
  BY <1>1, <1>2, <1>4, <1>6 DEF Occurrences, n
<1> QED
  BY <1>2, <1>5 DEF c

(* No element, no occurrence.                                              *)
LEMMA CountEmpty ==
  ASSUME NEW S
  PROVE  Occurrences(<< >>, S) = 0
BY CountStep DEF Occurrences

(* The occurrences in a list are a number.                                 *)
LEMMA CountNat ==
  ASSUME NEW T, NEW s \in Seq(T), NEW S
  PROVE  Occurrences(s, S) \in Nat
<1>1. Len(s) \in Nat
  OBVIOUS
<1> QED
  BY <1>1, CountStep DEF Occurrences

-----------------------------------------------------------------------------
(* Shifting leaves an author's tokens where they are, and combining adds   *)
(* the counts of its two sides up, empty or not.                           *)
LEMMA ShiftCounts ==
  ASSUME NEW sql \in Seq(Tokens(Values)), NEW offset \in Nat, NEW a
  PROVE  Occurrences(ShiftPlaceholderNumbers(sql, offset), TokensBy(a)) =
           Occurrences(sql, TokensBy(a))
<1> DEFINE s == ShiftPlaceholderNumbers(sql, offset)
<1>1. /\ s \in Seq(Tokens(Values)) /\ Len(s) = Len(sql) /\ Len(sql) \in Nat
      /\ \A k \in 1..Len(sql) : s[k].means = sql[k].means
  BY ShiftText
<1>2. \A k \in 1..Len(sql) : s[k].kind = sql[k].kind
  BY DEF ShiftPlaceholderNumbers, Token, IsNumber
<1> HIDE DEF s
<1>3. \A k \in 1..Len(sql) : s[k] \in Tokens(Values) /\ sql[k] \in Tokens(Values)
  BY <1>1
<1>4. \A k \in 1..Len(sql) : s[k] \in TokensBy(a) <=> sql[k] \in TokensBy(a)
  BY <1>1, <1>2, <1>3 DEF TokensBy
<1>5. CountUpTo(s, TokensBy(a), Len(sql)) = CountUpTo(sql, TokensBy(a), Len(sql))
  BY <1>1, <1>4, CountAlike
<1> QED
  BY <1>1, <1>5 DEF Occurrences, s

(* Combining two clauses loses and repeats no token of any author.         *)
LEMMA CombineCounts ==
  ASSUME NEW f \in Fragments, NEW g \in Fragments, NEW a
  PROVE  Occurrences(Combine(f, g).sql, TokensBy(a)) =
           Occurrences(f.sql, TokensBy(a)) + Occurrences(g.sql, TokensBy(a))
<1> DEFINE m == MaxPlaceholderNumber(f.sql)
           s == ShiftPlaceholderNumbers(g.sql, m)
           S == TokensBy(a)
<1>1. f.sql \in Seq(Tokens(Values)) /\ g.sql \in Seq(Tokens(Values))
  BY DEF Fragments
<1>2. m \in Nat
  <2>1. \A k \in DOMAIN f.sql : f.sql[k] \in Tokens(Values)
    BY <1>1
  <2>2. \A k \in DOMAIN f.sql : f.sql[k].number \in Nat
    BY <2>1 DEF Tokens
  <2> QED
    BY <1>1, <2>2, MaxPlaceholderNumberIsMax
<1> HIDE DEF m
<1>3. s \in Seq(Tokens(Values)) /\ Occurrences(s, S) = Occurrences(g.sql, S)
  BY <1>1, <1>2, ShiftText, ShiftCounts
<1> HIDE DEF s
<1>4. Occurrences(f.sql \o s, S) = Occurrences(f.sql, S) + Occurrences(s, S)
  BY <1>1, <1>3, CountSum
<1>5. Occurrences(<< >>, S) = 0
  BY CountEmpty
<1>6. Occurrences(f.sql, S) \in Nat /\ Occurrences(g.sql, S) \in Nat
  BY <1>1, CountNat
<1> HIDE DEF S
<1>7. CASE g.sql = << >>
  <2>1. Combine(f, g) = f
    BY <1>7 DEF Combine, IsEmpty
  <2> QED
    BY <1>5, <1>6, <1>7, <2>1 DEF S
<1>8. CASE g.sql # << >> /\ f.sql = << >>
  <2>1. Combine(f, g) = g
    BY <1>8 DEF Combine, IsEmpty
  <2> QED
    BY <1>5, <1>6, <1>8, <2>1 DEF S
<1>9. CASE g.sql # << >> /\ f.sql # << >>
  <2>1. Combine(f, g).sql = f.sql \o s
    BY <1>9 DEF Combine, IsEmpty, Fragment, s, m
  <2> QED
    BY <1>3, <1>4, <2>1 DEF S
<1> QED
  BY <1>7, <1>8, <1>9

(* What a clause's author wrote is its text, token by token.               *)
LEMMA AuthorCounts ==
  ASSUME NEW clause \in [text : ClauseTexts, bound : Nat], NEW author \in Nat, NEW a
  PROVE  /\ a = author =>
              Occurrences(Author(clause, author).sql, TokensBy(a)) = Len(clause.text)
         /\ a # author => Occurrences(Author(clause, author).sql, TokensBy(a)) = 0
         /\ WrittenFor(Author(clause, author).sql, {author})
         /\ \A j \in DOMAIN Author(clause, author).values :
              Author(clause, author).values[j][1] = author
<1> DEFINE s == Author(clause, author).sql
           n == Len(clause.text)
<1>1. clause.text \in ClauseTexts /\ n \in Nat /\ DOMAIN clause.text = 1..n
      /\ \A k \in 1..n : clause.text[k] \in ClauseTokens
  BY DEF ClauseTexts
<1>10. s \in Seq(Tokens(Values))
  BY AuthorType DEF Fragments
<1>2. /\ DOMAIN s = 1..n
      /\ \A k \in 1..n : s[k] = Token(clause.text[k].kind, clause.text[k].number,
                                     <<author, clause.text[k].number>>)
  BY <1>1, AuthorType
<1> HIDE DEF s, n
<1>3. Len(s) = n
  BY <1>1, <1>2, <1>10
<1>4. \A k \in 1..n : s[k].kind # "key" /\ s[k].means[1] = author
  BY <1>1, <1>2 DEF ClauseTokens, Token
<1>5. \A k \in 1..n : s[k] \in TokensBy(a) <=> a = author
  <2>1. \A k \in DOMAIN s : s[k] \in Tokens(Values)
    BY <1>10
  <2> QED
    BY <1>2, <1>4, <2>1 DEF TokensBy
<1>6. /\ a = author => CountUpTo(s, TokensBy(a), n) = n
      /\ a # author => CountUpTo(s, TokensBy(a), n) = 0
  <2>1. a = author => CountUpTo(s, TokensBy(a), n) = n
    BY <1>1, <1>5, CountAll
  <2>2. a # author => CountUpTo(s, TokensBy(a), n) = 0
    BY <1>1, <1>5, CountNone
  <2> QED
    BY <2>1, <2>2
<1>7. /\ a = author => Occurrences(s, TokensBy(a)) = n
      /\ a # author => Occurrences(s, TokensBy(a)) = 0
  BY <1>3, <1>6 DEF Occurrences
<1>8. WrittenFor(s, {author})
  BY <1>2, <1>4 DEF WrittenFor
<1>9. \A j \in DOMAIN Author(clause, author).values :
        Author(clause, author).values[j][1] = author
  BY DEF Author, Fragment
<1> QED
  BY <1>7, <1>8, <1>9 DEF s, n
=============================================================================
