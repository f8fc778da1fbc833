------------------------- MODULE BindFidelity_proofs --------------------------
(* The theorem that every placeholder of a composed statement is bound to  *)
(* the value its author wrote it for, by the inductive invariant IInv.     *)
EXTENDS QueryComposer_proofs

(* What appending, and concatenating, do to a text's tokens.               *)
LEMMA Appended ==
  ASSUME NEW S, NEW s \in Seq(S), NEW t \in S
  PROVE  /\ Len(Append(s, t)) = Len(s) + 1
         /\ \A k \in DOMAIN Append(s, t) :
              \/ k \in DOMAIN s /\ Append(s, t)[k] = s[k]
              \/ k = Len(s) + 1 /\ Append(s, t)[k] = t
OBVIOUS

(* An element of a concatenation is one of its parts'.                     *)
LEMMA Concatenated ==
  ASSUME NEW S, NEW a \in Seq(S), NEW b \in Seq(S)
  PROVE  \A k \in DOMAIN (a \o b) :
           \/ k \in DOMAIN a /\ (a \o b)[k] = a[k]
           \/ \E j \in DOMAIN b : (a \o b)[k] = b[j]
<1>1. SUFFICES ASSUME NEW k \in DOMAIN (a \o b), k \notin DOMAIN a
               PROVE  \E j \in DOMAIN b : (a \o b)[k] = b[j]
  BY Concatenation
<1>2. DOMAIN a = 1..Len(a) /\ DOMAIN b = 1..Len(b) /\ Len(a) \in Nat /\ Len(b) \in Nat
  OBVIOUS
<1>3. k \in 1..(Len(a) + Len(b)) /\ k \notin 1..Len(a)
  BY <1>1, <1>2, Concatenation
<1>4. k - Len(a) \in 1..Len(b) /\ Len(a) + (k - Len(a)) = k
  BY <1>2, <1>3
<1>5. (a \o b)[Len(a) + (k - Len(a))] = b[k - Len(a)]
  BY <1>4, Concatenation
<1> QED
  BY <1>2, <1>4, <1>5

(* Two lists that grow together stay aligned.                              *)
LEMMA AppendedPair ==
  ASSUME NEW m \in Seq(Values), NEW r \in Arguments, Len(m) = Len(r),
         \A k \in DOMAIN m : r[k].means = m[k],
         NEW v \in Values, NEW a \in [opaque : BOOLEAN, means : Values], a.means = v
  PROVE  /\ Len(Append(m, v)) = Len(Append(r, a))
         /\ \A k \in DOMAIN Append(m, v) : Append(r, a)[k].means = Append(m, v)[k]
<1> DEFINE A == [opaque : BOOLEAN, means : Values]
<1>1. r \in Seq(A) /\ a \in A
  BY DEF Arguments
<1> HIDE DEF A
<1>2. Len(Append(m, v)) = Len(m) + 1 /\ Len(Append(r, a)) = Len(m) + 1
  BY <1>1
<1>3. ASSUME NEW k \in DOMAIN Append(m, v)
      PROVE  Append(r, a)[k].means = Append(m, v)[k]
  <2>1. CASE k \in DOMAIN m
    <3>1. Append(m, v)[k] = m[k] /\ Append(r, a)[k] = r[k]
      BY <1>1, <2>1
    <3> QED
      BY <2>1, <3>1
  <2>2. CASE k = Len(m) + 1
    <3>1. Append(m, v)[k] = v /\ Append(r, a)[k] = a
      BY <1>1, <2>2
    <3> QED
      BY <3>1
  <2> QED
    BY <2>1, <2>2, <1>3, Appended
<1> QED
  BY <1>2, <1>3

(* Texts that resolve in the pool, and hold no ? that the rendering would  *)
(* mistake for a placeholder, can be put together.                         *)
LEMMA ResolvesConcat ==
  ASSUME NEW a \in Text, NEW b \in Text, Resolves(a), Resolves(b),
         NoQuestions(a), NoQuestions(b)
  PROVE  Resolves(a \o b) /\ NoQuestions(a \o b)
<1>1. \A k \in DOMAIN (a \o b) :
        \/ k \in DOMAIN a /\ (a \o b)[k] = a[k]
        \/ \E j \in DOMAIN b : (a \o b)[k] = b[j]
  BY Concatenated DEF Text
<1>2. Resolves(a \o b)
  BY <1>1 DEF Resolves
<1>3. NoQuestions(a \o b)
  BY <1>1 DEF NoQuestions, QuestionFree
<1> QED
  BY <1>2, <1>3

(* A statement still resolves when a token that resolves is put behind it. *)
LEMMA ResolvesAppend ==
  ASSUME NEW a \in Text, NEW t \in Tokens(Values) \cup KeyTokens, Resolves(a), NoQuestions(a),
         IsNumber(t) => t.number \in DOMAIN Pool /\ Pool[t.number].means = t.means,
         ~Numbered => ~IsQuestion(t)
  PROVE  Resolves(Append(a, t)) /\ NoQuestions(Append(a, t))
<1>1. \A k \in DOMAIN Append(a, t) :
        \/ k \in DOMAIN a /\ Append(a, t)[k] = a[k]
        \/ Append(a, t)[k] = t
  BY Appended DEF Text
<1>2. Resolves(Append(a, t))
  BY <1>1 DEF Resolves
<1>3. NoQuestions(Append(a, t))
  BY <1>1 DEF NoQuestions, QuestionFree
<1> QED
  BY <1>2, <1>3

(* What compose splices into a slot resolves.                              *)
LEMMA SplicedResolves ==
  ASSUME TypeOK, Resolves(acc.sql), NoQuestions(acc.sql), NEW name
  PROVE  Resolves(Spliced(name)) /\ NoQuestions(Spliced(name))
<1>1. \A k \in DOMAIN OrderingText : ~IsNumber(OrderingText[k]) /\ ~IsQuestion(OrderingText[k])
  BY DEF OrderingText, Token, IsNumber, IsQuestion
<1>2. Resolves(OrderingText) /\ NoQuestions(OrderingText)
  BY <1>1 DEF Resolves, NoQuestions, QuestionFree
<1>3. Resolves(<< >>) /\ NoQuestions(<< >>)
  BY DEF Resolves, NoQuestions, QuestionFree
<1> QED
  BY <1>2, <1>3 DEF Spliced

-----------------------------------------------------------------------------
(* A combined clause, shifted past the base query's arguments, resolves in *)
(* the arguments extended by its values.                                   *)
LEMMA ShiftedResolves ==
  ASSUME NEW f \in Fragments, FragmentOk(f), NEW a \in Arguments
  PROVE  LET s == ShiftPlaceholderNumbers(f.sql, Len(a))
             p == a \o FromValues(f.values)
         IN  \A k \in DOMAIN s : IsNumber(s[k]) =>
               s[k].number \in DOMAIN p /\ p[s[k].number].means = s[k].means
<1> DEFINE s == ShiftPlaceholderNumbers(f.sql, Len(a))
           p == a \o FromValues(f.values)
           v == f.values
<1>1. f.sql \in Seq(Tokens(Values)) /\ v \in Seq(Values) /\ Len(a) \in Nat /\ Len(v) \in Nat
  BY DEF Fragments, Arguments
<1>2. /\ s \in Seq(Tokens(Values)) /\ Len(s) = Len(f.sql)
      /\ \A k \in 1..Len(f.sql) :
           /\ IsNumber(s[k]) <=> IsNumber(f.sql[k])
           /\ s[k].means = f.sql[k].means
           /\ IsNumber(f.sql[k]) => s[k].number = f.sql[k].number + Len(a)
  BY <1>1, ShiftText
<1>3. /\ DOMAIN p = 1..(Len(a) + Len(v))
      /\ \A n \in 1..Len(v) : p[Len(a) + n] = [opaque |-> FALSE, means |-> v[n]]
  BY <1>1, Extended
<1>4. \A k \in 1..Len(f.sql) : IsNumber(f.sql[k]) =>
        f.sql[k].number \in 1..Len(v) /\ v[f.sql[k].number] = f.sql[k].means
  BY <1>1 DEF FragmentOk
<1>5. DOMAIN s = 1..Len(f.sql)
  BY <1>1, <1>2
<1> HIDE DEF s, p, v
<1>6. ASSUME NEW k \in 1..Len(f.sql), IsNumber(s[k])
      PROVE  s[k].number \in DOMAIN p /\ p[s[k].number].means = s[k].means
  <2>1. f.sql[k].number \in 1..Len(v) /\ s[k].number = Len(a) + f.sql[k].number
    BY <1>1, <1>2, <1>4, <1>6
  <2>2. s[k].number \in DOMAIN p
    BY <1>1, <1>3, <2>1
  <2>3. p[Len(a) + f.sql[k].number] = [opaque |-> FALSE, means |-> v[f.sql[k].number]]
    BY <1>3, <2>1
  <2>4. v[f.sql[k].number] = s[k].means
    BY <1>2, <1>4, <1>6
  <2> QED
    BY <2>1, <2>2, <2>3, <2>4
<1> QED
  BY <1>5, <1>6 DEF s, p, v

(* The cursor's clause is a fragment like any other once all its branches  *)
(* are written.                                                            *)
LEMMA CursorClauseOk ==
  ASSUME TypeOK, BoundaryOk, Branches = Len(cursor.keys)
  PROVE  FragmentOk(CursorClause) /\ QuestionFree(CursorClause.sql)
<1>1. /\ CursorClause.sql = boundary
      /\ CursorClause.values \in Seq(Values)
      /\ Len(CursorClause.values) = Len(cursor.keys) /\ Len(cursor.keys) \in Nat
      /\ \A j \in 1..Len(cursor.keys) : CursorClause.values[j] = <<AuthorCursor, j>>
  BY CursorClauseType, CursorType DEF Fragments
<1>2. DOMAIN CursorClause.values = 1..Len(cursor.keys)
  BY <1>1
<1>3. CursorClause.values # << >> => Branches > 0
  BY <1>1
<1> QED
  BY <1>1, <1>2, <1>3 DEF BoundaryOk, FragmentOk, QuestionFree, IsNumber, IsQuestion

-----------------------------------------------------------------------------
(* A numbered ? of the base query is one of its arguments.                 *)
LEMMA QuestionHasArgument ==
  ASSUME TypeOK, ~Numbered, i <= Len(base), IsQuestion(base[i])
  PROVE  /\ Cardinality(QuestionsUpTo(base, i)) = Cardinality(QuestionsUpTo(base, i - 1)) + 1
         /\ Cardinality(QuestionsUpTo(base, i)) \in 1..Placeholders
<1>1. i \in Nat /\ i - 1 \in Nat /\ Len(base) \in Nat /\ (i - 1) + 1 = i
  BY BaseType DEF TypeOK
<1>2. /\ Cardinality(QuestionsUpTo(base, i - 1)) \in Nat
      /\ Cardinality(QuestionsUpTo(base, (i - 1) + 1)) = Cardinality(QuestionsUpTo(base, i - 1)) + 1
  BY <1>1, QuestionsCounted
<1>3. QuestionsUpTo(base, i) \subseteq QuestionsUpTo(base, Len(base))
  BY <1>1 DEF QuestionsUpTo
<1>4. IsFiniteSet(QuestionsUpTo(base, Len(base)))
      /\ Cardinality(QuestionsUpTo(base, Len(base))) \in Nat
  BY <1>1, QuestionsCounted
<1>5. Cardinality(QuestionsUpTo(base, i)) <= Cardinality(QuestionsUpTo(base, Len(base)))
  BY <1>3, <1>4, FS_Subset
<1>6. Placeholders = Cardinality(QuestionsUpTo(base, Len(base)))
  BY DEF Placeholders, CountPlaceholders
<1> QED
  BY <1>1, <1>2, <1>4, <1>5, <1>6

(* A $N of the base query is one of its arguments.                         *)
LEMMA NumberHasArgument ==
  ASSUME TypeOK, WellFormed, Numbered, NEW k \in 1..Len(base), IsNumber(base[k])
  PROVE  base[k].number \in 1..Placeholders
<1>1. /\ base \in Seq(BaseTokens) /\ DOMAIN base = 1..Len(base)
      /\ \A j \in DOMAIN base : base[j].number \in Nat
  BY BaseType DEF TypeOK
<1>2. base[k].number \in Numbers(base)
  BY <1>1 DEF Numbers
<1>3. base[k].number <= MaxPlaceholderNumber(base)
  BY <1>1, <1>2, MaxPlaceholderNumberIsMax
<1>4. base[k].number > 0 /\ Placeholders = MaxPlaceholderNumber(base)
  BY <1>1 DEF WellFormed, Placeholders, CountPlaceholders
<1> QED
  BY <1>1, <1>3, <1>4, PlaceholdersType

(* The pool holds the base query's arguments at their own numbers.         *)
LEMMA PoolArguments ==
  ASSUME TypeOK, ArgumentsOk, NEW n \in 1..Len(arguments)
  PROVE  n \in DOMAIN Pool /\ Pool[n].means = <<Author0, n>>
<1>1. Pool[n] = arguments[n] /\ arguments[n].means = <<Author0, n>>
  <2>1. Pool[n] = arguments[n]
    BY PoolType
  <2>2. DOMAIN arguments = 1..Len(arguments)
    BY DEF TypeOK, Arguments
  <2> QED
    BY <2>1, <2>2 DEF ArgumentsOk
<1>2. /\ DOMAIN Pool = 1..Len(Pool) /\ Len(Pool) = Len(arguments) + Len(acc.values)
      /\ Len(arguments) \in Nat /\ Len(acc.values) \in Nat
  BY PoolType
<1>3. n \in 1..(Len(arguments) + Len(acc.values))
  BY <1>2
<1> QED
  BY <1>1, <1>2, <1>3

-----------------------------------------------------------------------------
(* What a push adds is numbered for its own values.                        *)
LEMMA PushedOk ==
  ASSUME TypeOK, WellFormed', \/ \E c \in Clauses : PushWhere(c)
                              \/ \E c, d \in Clauses : PushEither(c, d),
         \A w \in DOMAIN where_by : FragmentOk(where_by[w]) /\ NoQuestions(where_by[w].sql)
  PROVE  \A w \in DOMAIN where_by' : FragmentOk(where_by'[w]) /\ NoQuestions(where_by'[w].sql)
<1> DEFINE n == Len(authored)
<1>1. n \in Nat /\ authored \in Seq(Clauses) /\ where_by \in Seq(Fragments)
  BY DEF TypeOK
<1>2. \A c \in Clauses, a \in Nat : Author(c, a) \in Fragments
  BY AuthorType, InputsAssumption
<1>3. \A c \in Clauses, a \in Nat : WellFormedClause(c, Numbered) =>
        FragmentOk(Author(c, a)) /\ NoQuestions(Author(c, a).sql)
  BY AuthorOk, InputsAssumption DEF NoQuestions
<1> SUFFICES ASSUME NEW f \in Fragments, FragmentOk(f), NoQuestions(f.sql),
                    where_by' = Append(where_by, f)
             PROVE  \A w \in DOMAIN where_by' :
                      FragmentOk(where_by'[w]) /\ NoQuestions(where_by'[w].sql)
  <2>1. ASSUME NEW c \in Clauses, PushWhere(c)
        PROVE  \E f \in Fragments : /\ FragmentOk(f) /\ NoQuestions(f.sql)
                                     /\ where_by' = Append(where_by, f)
    <3>1. authored' = Append(authored, c) /\ where_by' = Append(where_by, Author(c, n + 2))
      BY <2>1 DEF PushWhere
    <3>2. n + 1 \in DOMAIN authored' /\ authored'[n + 1] = c
      BY <1>1, <3>1
    <3>3. WellFormedClause(c, Numbered)
      BY <3>2 DEF WellFormed
    <3>4. Author(c, n + 2) \in Fragments /\ FragmentOk(Author(c, n + 2))
          /\ NoQuestions(Author(c, n + 2).sql)
      BY <1>1, <1>2, <1>3, <3>3
    <3> HIDE DEF n
    <3> QED
      BY <3>1, <3>4
  <2>2. ASSUME NEW c \in Clauses, NEW d \in Clauses, PushEither(c, d)
        PROVE  \E f \in Fragments : /\ FragmentOk(f) /\ NoQuestions(f.sql)
                                     /\ where_by' = Append(where_by, f)
    <3>1. /\ authored' = authored \o <<c, d>>
          /\ where_by' = Append(where_by, Combine(Author(c, n + 2), Author(d, n + 3)))
      BY <2>2 DEF PushEither
    <3>2. /\ n + 1 \in DOMAIN authored' /\ authored'[n + 1] = c
          /\ n + 2 \in DOMAIN authored' /\ authored'[n + 2] = d
      BY <1>1, <3>1
    <3>3. WellFormedClause(c, Numbered) /\ WellFormedClause(d, Numbered)
      BY <3>2 DEF WellFormed
    <3>4. /\ Author(c, n + 2) \in Fragments /\ FragmentOk(Author(c, n + 2))
          /\ NoQuestions(Author(c, n + 2).sql)
          /\ Author(d, n + 3) \in Fragments /\ FragmentOk(Author(d, n + 3))
          /\ NoQuestions(Author(d, n + 3).sql)
      BY <1>1, <1>2, <1>3, <3>3
    <3>5. /\ Combine(Author(c, n + 2), Author(d, n + 3)) \in Fragments
          /\ FragmentOk(Combine(Author(c, n + 2), Author(d, n + 3)))
          /\ NoQuestions(Combine(Author(c, n + 2), Author(d, n + 3)).sql)
      BY <3>4, CombineType, CombineOk, CombineQuestionFree DEF NoQuestions
    <3> QED
      BY <3>1, <3>5
  <2> QED
    BY <2>1, <2>2
<1>4. \A w \in DOMAIN where_by' : where_by'[w] = f \/ (w \in DOMAIN where_by /\ where_by'[w] = where_by[w])
  BY <1>1, Appended
<1> QED
  BY <1>4

(* The cursor's keys are a list after a step, too.                         *)
LEMMA CursorNext ==
  ASSUME TypeOK'
  PROVE  Len(cursor'.keys) \in Nat
<1>1. CASE cursor' \in Cursors
  BY <1>1, InputsAssumption
<1>2. CASE cursor' = NoCursor
  BY <1>2 DEF NoCursor
<1> QED
  BY <1>1, <1>2 DEF TypeOK

-----------------------------------------------------------------------------
(* The invariant, step by step.                                            *)
LEMMA InvInit == Init => IInv
<1> SUFFICES ASSUME Init PROVE IInv
  OBVIOUS
<1>1. TypeOK
  BY TypeInit
<1>2. ArgumentsOk /\ BaseOk /\ ~Splicing /\ Branches = 0
  BY DEF Init, ArgumentsOk, BaseOk, Splicing, Branches
<1>3. FragmentOk(acc) /\ NoQuestions(acc.sql)
  BY DEF Init, EmptyClause, Fragment, FragmentOk, NoQuestions, QuestionFree
<1>4. BoundaryOk
  BY <1>2, CursorType, <1>1 DEF Init, BoundaryOk
<1>5. GatheringOk
  BY <1>3, <1>4 DEF Init, GatheringOk
<1>6. SplicingOk
  BY <1>2 DEF SplicingOk
<1> QED
  BY <1>1, <1>2, <1>5, <1>6 DEF IInv

(* A well-formed set of inputs was well-formed before the last push.       *)
LEMMA WellFormedBack ==
  ASSUME TypeOK, Next, WellFormed'
  PROVE  WellFormed
<1>1. base' = base
  BY DEF Next, Build, Bind, BindValue, PushArgument, WithCursor, PushWhere, PushEither, PushOrderBy, Compose,
         Composing, RejectUnsupported, RejectBase, AcceptBase, ThenOrderBy, RejectCursor,
         AcceptOrdering, AndClause, BoundaryBranch, PanicOnUnsetCursor, FinishWhere,
         SpliceSlot, NumberQuestion, CopyToken, RejectMissingWhere, RejectMissingOrderBy,
         RejectStatement, FinishNumbered, StartRender, RenderReference, RejectReference,
         CopyRendered, FinishRender, Fail, builder
<1>2. \A a \in DOMAIN authored : a \in DOMAIN authored' /\ authored'[a] = authored[a]
  <2>1. CASE \E c \in Clauses : PushWhere(c)
    BY <2>1 DEF PushWhere, TypeOK
  <2>2. CASE \E c, d \in Clauses : PushEither(c, d)
    BY <2>2 DEF PushEither, TypeOK
  <2>3. CASE authored' = authored
    BY <2>3
  <2> QED
    BY <2>1, <2>2, <2>3
    DEF Next, Build, Bind, BindValue, PushArgument, WithCursor, PushOrderBy, Compose,
         Composing, RejectUnsupported, RejectBase, AcceptBase, ThenOrderBy, RejectCursor,
         AcceptOrdering, AndClause, BoundaryBranch, PanicOnUnsetCursor, FinishWhere,
         SpliceSlot, NumberQuestion, CopyToken, RejectMissingWhere, RejectMissingOrderBy,
         RejectStatement, FinishNumbered, StartRender, RenderReference, RejectReference,
         CopyRendered, FinishRender, Fail, builder
<1> QED
  BY <1>1, <1>2 DEF WellFormed

(* A step that fails.                                                      *)
LEMMA InvFail ==
  ASSUME IInv, NEW e \in Errors, Fail(e), WellFormed' => WellFormed
  PROVE  IInv'
<1>1. TypeOK'
  BY TypeFail DEF IInv
<1>2. ArgumentsOk' /\ BaseOk' /\ ~Splicing' /\ ~Gathering'
  BY DEF IInv, ArgumentsOk, BaseOk, Splicing, Gathering, Fail, Return, builder, pipeline, Errors
<1>3. WellFormed' => GatheringOk' /\ SplicingOk'
  BY <1>2 DEF IInv, GatheringOk, SplicingOk, NoQuestions, Fail, builder
<1> QED
  BY <1>1, <1>2, <1>3 DEF IInv

(* A call of the builder: nothing is spliced yet, and what is pushed is    *)
(* numbered for its own values.                                            *)
LEMMA InvBuild ==
  ASSUME IInv, Build, WellFormed' => WellFormed
  PROVE  IInv'
<1> USE DEF IInv
<1>1. TypeOK'
  BY TypeBuild
<1>2. /\ pc = "build" /\ pc' \in {"build", "base"} /\ UNCHANGED <<base, pipeline, outcome>>
      /\ outcome = "pending"
  BY DEF Build, Bind, BindValue, PushArgument, WithCursor, PushWhere, PushEither, PushOrderBy,
         Compose, TypeOK, builder
<1>3. ArgumentsOk'
  <2>1. ASSUME NEW opaque \in BOOLEAN, PushArgument(opaque) PROVE ArgumentsOk'
    <3> DEFINE l == Len(arguments)
               A == [opaque : BOOLEAN, means : Values]
               x == [opaque |-> opaque, means |-> <<Author0, l + 1>>]
    <3>1. arguments \in Seq(A) /\ arguments' = Append(arguments, x)
      BY <2>1 DEF PushArgument, TypeOK, Arguments
    <3>2. l \in Nat /\ DOMAIN arguments = 1..l /\ x.means = <<Author0, l + 1>>
      BY <3>1
    <3> HIDE DEF A, x
    <3>3. /\ DOMAIN arguments' = 1..(l + 1) /\ arguments'[l + 1] = x
          /\ \A k \in 1..l : arguments'[k] = arguments[k]
      BY <3>1
    <3> HIDE DEF l
    <3>4. \A k \in 1..(l + 1) : k \in 1..l \/ k = l + 1
      BY <3>2
    <3> QED
      BY <3>2, <3>3, <3>4 DEF ArgumentsOk
  <2>2. CASE arguments' = arguments
    BY <2>2 DEF ArgumentsOk
  <2> QED
    BY <2>1, <2>2 DEF Build, Bind, BindValue, WithCursor, PushWhere, PushEither, PushOrderBy,
                      Compose, builder
<1>4. BaseOk' /\ ~Splicing'
  BY <1>2 DEF BaseOk, Splicing
<1>5. ASSUME WellFormed' PROVE GatheringOk'
  <2>1. \A w \in DOMAIN where_by' : FragmentOk(where_by'[w]) /\ NoQuestions(where_by'[w].sql)
    <3>1. \A w \in DOMAIN where_by : FragmentOk(where_by[w]) /\ NoQuestions(where_by[w].sql)
      BY <1>5 DEF GatheringOk
    <3>2. CASE \E c \in Clauses : PushWhere(c)
      BY <3>1, <3>2, <1>5, PushedOk
    <3>3. CASE \E c, d \in Clauses : PushEither(c, d)
      BY <3>1, <3>3, <1>5, PushedOk
    <3>4. CASE where_by' = where_by
      BY <3>1, <3>4
    <3> QED
      BY <3>2, <3>3, <3>4 DEF Build, Bind, BindValue, PushArgument, WithCursor, PushOrderBy,
                              Compose, builder
  <2>2. Gathering /\ Branches = 0 /\ Branches' = 0
    BY <1>2 DEF Gathering, Branches
  <2>3. FragmentOk(acc') /\ NoQuestions(acc'.sql)
    BY <1>2, <1>5, <2>2 DEF GatheringOk, pipeline
  <2>4. BoundaryOk'
    <3>1. Len(cursor'.keys) \in Nat
      BY <1>1, CursorNext
    <3>2. BoundaryOk
      BY <1>5, <2>2 DEF GatheringOk
    <3> QED
      BY <1>2, <2>2, <3>1, <3>2 DEF BoundaryOk, pipeline
  <2>5. out' = << >> /\ marks' = << >> /\ rendered' = << >> /\ question' = 0
    BY <1>2, <1>5, <2>2 DEF GatheringOk, pipeline
  <2> QED
    BY <2>1, <2>3, <2>4, <2>5 DEF GatheringOk, NoQuestions
<1>6. SplicingOk'
  BY <1>4 DEF SplicingOk
<1> QED
  BY <1>1, <1>3, <1>4, <1>5, <1>6

(* A further branch of the cursor's clause names the next value.           *)
LEMMA BranchOk ==
  ASSUME TypeOK, BoundaryOk, BoundaryBranch
  PROVE  BoundaryOk'
<1> DEFINE b == Branches + 1
<1>1. /\ Len(where_by) \in Nat /\ Len(cursor.keys) \in Nat /\ i \in Nat
      /\ boundary \in Seq(Tokens(Values))
  BY CursorType DEF TypeOK
<1>2. /\ Branches \in Nat /\ Branches = i - 1 - Len(where_by)
      /\ Branches' = b /\ b <= Len(cursor.keys)
      /\ boundary' = boundary \o Branch(b) /\ cursor' = cursor
  BY <1>1 DEF BoundaryBranch, Branches, builder
<1> HIDE DEF b
<1>3. b \in Nat /\ b = Branches + 1
  BY <1>2 DEF b
<1>4. /\ Branch(b) \in Seq(Tokens(Values)) /\ Len(Branch(b)) = b
      /\ \A j \in 1..b : Branch(b)[j] = Token("number", j, <<AuthorCursor, j>>)
  BY <1>3, BranchType
<1>5. \A j \in DOMAIN Branch(b) :
        /\ IsNumber(Branch(b)[j]) /\ Branch(b)[j].number = j /\ j \in 1..b
        /\ Branch(b)[j].means = <<AuthorCursor, j>>
  <2>1. DOMAIN Branch(b) = 1..b
    BY <1>4
  <2>2. \A j \in 1..b : Branch(b)[j] = Token("number", j, <<AuthorCursor, j>>)
    BY <1>4
  <2> QED
    BY <2>1, <2>2 DEF Token, IsNumber
<1>6. \A k \in DOMAIN boundary :
        /\ IsNumber(boundary[k]) /\ boundary[k].number \in 1..b
        /\ boundary[k].means = <<AuthorCursor, boundary[k].number>>
  BY <1>2, <1>3 DEF BoundaryOk
<1>7. \A k \in DOMAIN boundary' :
        /\ IsNumber(boundary'[k]) /\ boundary'[k].number \in 1..b
        /\ boundary'[k].means = <<AuthorCursor, boundary'[k].number>>
  <2> DEFINE Ok(t) == /\ IsNumber(t) /\ t.number \in 1..b
                      /\ t.means = <<AuthorCursor, t.number>>
  <2>1. \A k \in DOMAIN boundary : Ok(boundary[k])
    BY <1>6
  <2>2. \A j \in DOMAIN Branch(b) : Ok(Branch(b)[j])
    BY <1>5
  <2> HIDE DEF Ok
  <2>3. boundary \in Seq(Tokens(Values)) /\ Branch(b) \in Seq(Tokens(Values))
    BY <1>1, <1>4
  <2>4. \A k \in DOMAIN (boundary \o Branch(b)) : Ok((boundary \o Branch(b))[k])
    BY <2>1, <2>2, <2>3, Concatenated
  <2> QED
    BY <1>2, <2>4 DEF Ok
<1>8. \E k \in DOMAIN boundary' : boundary'[k].number = b
  <2>1. b \in 1..Len(Branch(b)) /\ Len(boundary) \in Nat
    BY <1>1, <1>2, <1>3, <1>4
  <2>2. (boundary \o Branch(b))[Len(boundary) + b] = Branch(b)[b]
    BY <1>1, <1>4, <2>1, Concatenation
  <2>3. Len(boundary) + b \in DOMAIN (boundary \o Branch(b))
    BY <1>1, <1>4, <2>1, Concatenation
  <2>4. Branch(b)[b].number = b
    BY <1>4, <1>5, <2>1
  <2> QED
    BY <1>2, <2>2, <2>3, <2>4
<1>9. Branches' = b /\ Branches' <= Len(cursor'.keys) /\ Branches' # 0
  BY <1>2, <1>3
<1> QED
  BY <1>7, <1>8, <1>9 DEF BoundaryOk

(* Reading the base, the orderings and the clauses: what is gathered stays *)
(* well-numbered and the statement is still empty.                         *)
LEMMA InvGather ==
  ASSUME IInv, AcceptBase \/ ThenOrderBy \/ AcceptOrdering \/ AndClause \/ BoundaryBranch,
         WellFormed' => WellFormed
  PROVE  IInv'
<1> USE DEF IInv
<1>1. TypeOK'
  BY TypeComposing DEF Composing
<1>2. /\ pc \in {"base", "order", "where"} /\ pc' \in {"order", "where"}
      /\ outcome = "pending" /\ outcome' = "pending"
      /\ UNCHANGED <<builder, out, question, spliced, taken, marks, rendered>>
  BY DEF AcceptBase, ThenOrderBy, AcceptOrdering, AndClause, BoundaryBranch, TypeOK, builder
<1>3. ArgumentsOk' /\ ~Splicing' /\ Gathering /\ Gathering'
  BY <1>2 DEF ArgumentsOk, Splicing, Gathering, builder
<1>4. BaseOk'
  <2>1. ~UnsupportedBase /\ Placeholders = Len(arguments)
    BY <1>2 DEF BaseOk, AcceptBase, ThenOrderBy, AcceptOrdering, AndClause, BoundaryBranch
  <2> QED
    BY <1>2, <2>1 DEF BaseOk, UnsupportedBase, Placeholders, builder
<1>5. ASSUME WellFormed' PROVE GatheringOk'
  <2>1. /\ \A w \in DOMAIN where_by : FragmentOk(where_by[w]) /\ NoQuestions(where_by[w].sql)
        /\ FragmentOk(acc) /\ NoQuestions(acc.sql) /\ BoundaryOk
        /\ out = << >> /\ marks = << >> /\ rendered = << >> /\ question = 0
    BY <1>3, <1>5 DEF GatheringOk
  <2>2. Len(where_by) \in Nat /\ Len(cursor.keys) \in Nat /\ i \in Nat \ {0}
    BY CursorType DEF TypeOK
  <2>3. FragmentOk(acc') /\ NoQuestions(acc'.sql)
    <3>1. CASE acc' = acc
      BY <2>1, <3>1
    <3>2. CASE AndClause
      <4>1. where_by[i] \in Fragments /\ acc \in Fragments /\ i \in DOMAIN where_by
        BY <3>2 DEF AndClause, TypeOK
      <4>2. FragmentOk(Combine(acc, where_by[i])) /\ NoQuestions(Combine(acc, where_by[i]).sql)
        BY <2>1, <4>1, CombineOk, CombineQuestionFree DEF NoQuestions
      <4> QED
        BY <3>2, <4>2 DEF AndClause
    <3> QED
      BY <3>1, <3>2 DEF AcceptBase, ThenOrderBy, AcceptOrdering, BoundaryBranch
  <2>4. BoundaryOk'
    <3>1. CASE BoundaryBranch
      BY <2>1, <2>2, <3>1, BranchOk
    <3>2. CASE AcceptBase \/ ThenOrderBy \/ AcceptOrdering \/ AndClause
      <4>1. Branches = 0 /\ Branches' = 0 /\ boundary' = boundary /\ cursor' = cursor
        BY <2>2, <3>2 DEF AcceptBase, ThenOrderBy, AcceptOrdering, AndClause, Branches, builder
      <4> QED
        BY <2>1, <2>2, <4>1 DEF BoundaryOk
    <3> QED
      BY <3>1, <3>2
  <2> QED
    BY <1>2, <2>1, <2>3, <2>4 DEF GatheringOk, NoQuestions, builder
<1>6. SplicingOk'
  BY <1>3 DEF SplicingOk
<1> QED
  BY <1>1, <1>3, <1>4, <1>5, <1>6

(* The end of compose_where: the clauses are shifted past the base query.  *)
LEMMA FinishedClause ==
  ASSUME IInv, FinishWhere, WellFormed
  PROVE  \E f \in Fragments : /\ FragmentOk(f) /\ NoQuestions(f.sql)
                              /\ acc' = Shift(f, Placeholders)
<1>1. TypeOK /\ Gathering /\ pc = "where"
  BY DEF FinishWhere, WheresRead, Gathering, IInv
<1>2. FragmentOk(acc) /\ NoQuestions(acc.sql) /\ BoundaryOk
  BY <1>1 DEF IInv, GatheringOk
<1>3. Branches = Len(cursor.keys)
  BY <1>1, <1>2, CursorType DEF FinishWhere, WheresRead, Branches, BoundaryOk, TypeOK
<1>4. /\ CursorClause \in Fragments /\ acc \in Fragments
      /\ FragmentOk(CursorClause) /\ QuestionFree(CursorClause.sql)
  BY <1>1, <1>2, <1>3, CursorClauseOk, CursorClauseType DEF TypeOK
<1> DEFINE f == Combine(acc, CursorClause)
<1>5. f \in Fragments /\ FragmentOk(f) /\ NoQuestions(f.sql)
  BY <1>2, <1>4, CombineType, CombineOk, CombineQuestionFree DEF NoQuestions
<1>6. acc' = Shift(f, Placeholders)
  BY DEF FinishWhere
<1> QED
  BY <1>5, <1>6

(* Combining the cursor's clause and shifting the whole by the base        *)
(* query's placeholders makes every number of it resolve in the pool.      *)
LEMMA InvFinishWhere ==
  ASSUME IInv, FinishWhere, WellFormed' => WellFormed
  PROVE  IInv'
<1> USE DEF IInv
<1>1. TypeOK'
  BY TypeComposing DEF Composing
<1>2. /\ pc = "where" /\ pc' = "splice" /\ i' = 1 /\ outcome = "pending" /\ outcome' = "pending"
      /\ UNCHANGED <<builder, out, question, marks, rendered>>
  BY DEF FinishWhere, WheresRead, TypeOK
<1>3. Gathering /\ ~Gathering' /\ ArgumentsOk'
  BY <1>2 DEF Gathering, ArgumentsOk, builder
<1>4. ~UnsupportedBase /\ Placeholders = Len(arguments) /\ UNCHANGED <<Placeholders, UnsupportedBase>>
  BY <1>2 DEF BaseOk, UnsupportedBase, Placeholders, builder
<1>5. BaseOk'
  BY <1>2, <1>4 DEF BaseOk, builder
<1>6. ASSUME WellFormed' PROVE SplicingOk'
  <2>1. /\ FragmentOk(acc) /\ NoQuestions(acc.sql) /\ BoundaryOk
        /\ out = << >> /\ marks = << >> /\ rendered = << >> /\ question = 0
    BY <1>3, <1>6 DEF GatheringOk
  <2>2. PICK f \in Fragments : /\ FragmentOk(f) /\ NoQuestions(f.sql)
                              /\ acc' = Shift(f, Placeholders)
    BY <1>3, <1>6, FinishedClause
  <2>4. f \in Fragments /\ FragmentOk(f) /\ NoQuestions(f.sql)
    BY <2>2
  <2>5. acc' = Shift(f, Placeholders)
    BY <2>2
  <2>6. Resolves(acc.sql)'
    <3>1. /\ arguments \in Arguments /\ arguments' = arguments
          /\ acc'.sql = ShiftPlaceholderNumbers(f.sql, Len(arguments))
          /\ acc'.values = f.values
      BY <1>2, <1>4, <2>4, <2>5, ShiftType, PlaceholdersType DEF TypeOK, builder
    <3>2. Pool' = arguments \o FromValues(f.values)
      BY <3>1 DEF Pool
    <3> DEFINE s == ShiftPlaceholderNumbers(f.sql, Len(arguments))
               p == arguments \o FromValues(f.values)
    <3>3. \A k \in DOMAIN s : IsNumber(s[k]) =>
            s[k].number \in DOMAIN p /\ p[s[k].number].means = s[k].means
      BY <2>4, <3>1, ShiftedResolves
    <3>4. acc'.sql = s /\ Pool' = p
      BY <3>1, <3>2
    <3> HIDE DEF s, p
    <3> QED
      BY <3>3, <3>4 DEF Resolves
  <2>7. NoQuestions(acc'.sql)
    <3>1. f.sql \in Seq(Tokens(Values)) /\ Placeholders \in Nat
      BY <2>4, PlaceholdersType DEF Fragments
    <3>2. ~Numbered => QuestionFree(ShiftPlaceholderNumbers(f.sql, Placeholders))
      BY <2>4, <3>1, ShiftQuestionFree DEF NoQuestions
    <3> QED
      BY <2>4, <2>5, <3>1, <3>2, ShiftType DEF NoQuestions
  <2>8. Resolves(out)' /\ NoQuestions(out')
    BY <1>2, <2>1 DEF Resolves, NoQuestions, QuestionFree
  <2>9. question' = Cardinality(QuestionsUpTo(base', i' - 1))
    BY <1>2, <2>1, QuestionsCounted
  <2> QED
    BY <1>2, <2>1, <2>6, <2>7, <2>8, <2>9 DEF SplicingOk, NoQuestions
<1>7. WellFormed' => GatheringOk'
  BY <1>2, <1>3 DEF GatheringOk, NoQuestions, builder
<1> QED
  BY <1>1, <1>3, <1>5, <1>6, <1>7

(* A step of the loop over the base query's tokens.                        *)
LEMMA InvSplice ==
  ASSUME IInv, SpliceSlot \/ NumberQuestion \/ CopyToken, WellFormed' => WellFormed
  PROVE  IInv'
<1> USE DEF IInv
<1>1. TypeOK'
  BY TypeComposing DEF Composing
<1>2. /\ pc = "splice" /\ pc' = "splice" /\ i' = i + 1 /\ i <= Len(base)
      /\ outcome = "pending" /\ outcome' = "pending"
      /\ UNCHANGED <<builder, acc, marks, rendered>>
  BY DEF SpliceSlot, NumberQuestion, QuestionNumber, CopyToken, TypeOK
<1>3. Splicing /\ ~Gathering' /\ ArgumentsOk'
  BY <1>2 DEF Splicing, Gathering, ArgumentsOk, builder
<1>4. ~UnsupportedBase /\ Placeholders = Len(arguments) /\ BaseOk'
  BY <1>2 DEF BaseOk, UnsupportedBase, Placeholders, builder
<1>5. i \in 1..Len(base) /\ Len(base) \in Nat /\ i - 1 \in Nat /\ (i - 1) + 1 = i /\ i' - 1 = i
  <2>1. i \in Nat \ {0} /\ Len(base) \in Nat
    BY BaseType DEF TypeOK
  <2> QED
    BY <1>2, <2>1
<1>6. ASSUME WellFormed' PROVE SplicingOk'
  <2>1. /\ Resolves(acc.sql) /\ NoQuestions(acc.sql) /\ Resolves(out) /\ NoQuestions(out)
        /\ marks = << >> /\ rendered = << >>
        /\ ~Numbered => question = Cardinality(QuestionsUpTo(base, i - 1))
    BY <1>2, <1>3, <1>6 DEF SplicingOk
  <2>2. Cardinality(QuestionsUpTo(base, i)) =
          Cardinality(QuestionsUpTo(base, i - 1)) + (IF IsQuestion(base[i]) THEN 1 ELSE 0)
        /\ Cardinality(QuestionsUpTo(base, i - 1)) \in Nat
    BY <1>5, QuestionsCounted
  <2>3. /\ Resolves(out') /\ NoQuestions(out')
        /\ ~Numbered => question' = Cardinality(QuestionsUpTo(base, i))
    <3>1. CASE SpliceSlot
      <4>1. out' = out \o Spliced(base[i].name) /\ ~IsQuestion(base[i]) /\ question' = question
        BY <3>1 DEF SpliceSlot, IsSlot, IsQuestion
      <4>2. Resolves(out') /\ NoQuestions(out')
        BY <2>1, <4>1, SplicedType, SplicedResolves, ResolvesConcat DEF TypeOK
      <4> QED
        BY <2>1, <2>2, <4>1, <4>2
    <3>2. CASE NumberQuestion
      <4> DEFINE q == Cardinality(QuestionsUpTo(base, i))
                 t == Token("number", question + 1, <<Author0, q>>)
      <4>1. /\ ~Numbered /\ IsQuestion(base[i])
            /\ question' = question + 1 /\ out' = Append(out, t)
        BY <3>2 DEF NumberQuestion, QuestionNumber
      <4>2. q = question + 1 /\ q \in 1..Len(arguments) /\ q \in Nat
        BY <1>2, <1>4, <2>1, <4>1, QuestionHasArgument
      <4>3. q \in DOMAIN Pool /\ Pool[q].means = <<Author0, q>>
        BY <4>2, PoolArguments
      <4> HIDE DEF q
      <4>4. t \in Tokens(Values) /\ t.number = q /\ t.means = <<Author0, q>> /\ ~IsQuestion(t)
        BY <4>2 DEF Token, Tokens, Kinds, Values, Author0, IsQuestion
      <4> HIDE DEF t
      <4>5. Resolves(out') /\ NoQuestions(out')
        BY <2>1, <4>1, <4>3, <4>4, ResolvesAppend DEF TypeOK
      <4> QED
        BY <4>1, <4>2, <4>5 DEF q
    <3>3. CASE CopyToken
      <4> DEFINE t == Token(base[i].kind, base[i].number, <<Author0, base[i].number>>)
      <4>1. /\ Numbered \/ ~IsQuestion(base[i])
            /\ ~IsSlot(base[i]) /\ question' = question /\ out' = Append(out, t)
        BY <3>3 DEF CopyToken
      <4>2. base[i] \in ClauseTokens
        BY <1>5, <4>1, BaseType DEF TypeOK
      <4>3. /\ t \in Tokens(Values) /\ t.number = base[i].number
            /\ t.means = <<Author0, base[i].number>>
            /\ IsNumber(t) <=> IsNumber(base[i])
            /\ IsQuestion(t) <=> IsQuestion(base[i])
        BY <4>2 DEF Token, ClauseTokens, Tokens, Kinds, Values, Author0, IsNumber, IsQuestion
      <4> HIDE DEF t
      <4>4. IsNumber(base[i]) => Numbered /\ base[i].number \in 1..Len(arguments)
        <5>1. DOMAIN base = 1..Len(base)
          BY BaseType DEF TypeOK
        <5>2. IsNumber(base[i]) => Numbered
          BY <1>4, <1>5, <5>1 DEF UnsupportedBase, Numbers
        <5> QED
          BY <1>4, <1>5, <1>6, <5>2, NumberHasArgument
      <4>5. IsNumber(t) => t.number \in DOMAIN Pool /\ Pool[t.number].means = t.means
        BY <4>3, <4>4, PoolArguments
      <4>6. Resolves(out') /\ NoQuestions(out')
        BY <2>1, <4>1, <4>3, <4>5, ResolvesAppend DEF TypeOK
      <4> QED
        BY <2>1, <2>2, <4>1, <4>6
    <3> QED
      BY <3>1, <3>2, <3>3
  <2>4. Pool' = Pool /\ base' = base
    BY <1>2 DEF Pool, builder
  <2>5. Resolves(acc.sql)' /\ Resolves(out)'
    BY <1>2, <2>1, <2>3, <2>4 DEF Resolves
  <2> QED
    BY <1>2, <1>5, <2>1, <2>3, <2>4, <2>5 DEF SplicingOk, NoQuestions
<1>7. WellFormed' => GatheringOk'
  BY <1>2, <1>3 DEF GatheringOk, NoQuestions, builder
<1> QED
  BY <1>1, <1>3, <1>4, <1>6, <1>7

(* The end of compose, and each step of the rendering.                     *)
LEMMA InvRender ==
  ASSUME IInv, FinishNumbered \/ StartRender \/ RenderReference \/ CopyRendered \/ FinishRender,
         WellFormed' => WellFormed
  PROVE  IInv'
<1> USE DEF IInv
<1>1. TypeOK'
  BY TypeComposing DEF Composing
<1>2. /\ pc \in {"splice", "render"} /\ pc' \in {"render", "done"} /\ outcome = "pending"
      /\ outcome' \in {"pending", "ok"} /\ UNCHANGED <<builder, acc, out>>
      /\ pc' = "render" => ~Numbered \/ pc = "render"
  BY DEF FinishNumbered, StartRender, RenderReference, CopyRendered, FinishRender, Return,
         SlotsFound, BaseScanned, TypeOK, pipeline
<1>3. Splicing /\ ~Gathering' /\ ArgumentsOk'
  BY <1>2 DEF Splicing, Gathering, ArgumentsOk, builder
<1>4. BaseOk'
  BY <1>2 DEF BaseOk, UnsupportedBase, Placeholders, builder
<1>5. ASSUME WellFormed' PROVE SplicingOk'
  <2>1. /\ Resolves(acc.sql) /\ NoQuestions(acc.sql) /\ Resolves(out) /\ NoQuestions(out)
        /\ pc = "render" => ~Numbered
        /\ pc = "splice" => marks = << >> /\ rendered = << >>
        /\ ~Numbered => /\ Len(marks) = Len(rendered)
                        /\ \A k \in DOMAIN marks : rendered[k].means = marks[k]
    BY <1>3, <1>5 DEF SplicingOk
  <2>2. Pool' = Pool
    BY <1>2 DEF Pool, builder
  <2>3. Resolves(acc.sql)' /\ NoQuestions(acc'.sql) /\ Resolves(out)' /\ NoQuestions(out')
    BY <1>2, <2>1, <2>2 DEF Resolves, NoQuestions
  <2>4. outcome' = "ok" /\ Numbered => rendered' = Pool'
    BY <1>2, <2>1, <2>2 DEF FinishNumbered, StartRender, RenderReference, CopyRendered, FinishRender
  <2>5. ~Numbered => /\ Len(marks') = Len(rendered')
                     /\ \A k \in DOMAIN marks' : rendered'[k].means = marks'[k]
    <3>1. CASE RenderReference
      <4>1. i \in DOMAIN out
        BY <3>1 DEF RenderReference, TypeOK, Text
      <4>2. Pool[out[i].number].means = out[i].means /\ out[i].number \in 1..Len(Pool)
        BY <2>1, <3>1, <4>1 DEF Resolves, RenderReference, Available
      <4>3. Pool[out[i].number] \in [opaque : BOOLEAN, means : Values] /\ out[i].means \in Values
        BY <4>2, PoolElement
      <4>4. /\ marks' = Append(marks, out[i].means)
            /\ rendered' = Append(rendered, Pool[out[i].number])
        BY <3>1 DEF RenderReference
      <4> QED
        BY <2>1, <4>2, <4>3, <4>4, AppendedPair DEF TypeOK, Arguments
    <3>2. CASE CopyRendered
      <4>1. i \in DOMAIN out
        BY <3>2 DEF CopyRendered, TypeOK, Text
      <4> QED
        BY <2>1, <3>2, <4>1 DEF CopyRendered, NoQuestions, QuestionFree
    <3>3. CASE FinishNumbered \/ StartRender \/ FinishRender
      BY <2>1, <3>3 DEF FinishNumbered, StartRender, FinishRender, pipeline
    <3> QED
      BY <3>1, <3>2, <3>3
  <2>6. pc' = "render" => ~Numbered
    BY <1>2, <2>1
  <2> QED
    BY <1>2, <2>3, <2>4, <2>5, <2>6 DEF SplicingOk, NoQuestions
<1>6. WellFormed' => GatheringOk'
  BY <1>2, <1>3 DEF GatheringOk, NoQuestions, builder
<1> QED
  BY <1>1, <1>3, <1>4, <1>5, <1>6

(* The invariant is inductive.                                             *)
LEMMA InvNext == IInv /\ [Next]_vars => IInv'
<1>1. ASSUME IInv, Next PROVE IInv'
  <2>1. WellFormed' => WellFormed
    BY <1>1, WellFormedBack DEF IInv
  <2>2. CASE \E e \in Errors : Fail(e)
    BY <1>1, <2>1, <2>2, InvFail
  <2> QED
    BY <1>1, <2>1, <2>2, InvBuild, InvGather, InvFinishWhere, InvSplice, InvRender
    DEF Next, Composing, RejectUnsupported, RejectBase, RejectCursor, PanicOnUnsetCursor,
        RejectMissingWhere, RejectMissingOrderBy, RejectStatement, RejectReference, Errors
<1>2. ASSUME IInv, UNCHANGED vars PROVE IInv'
  <2>1. /\ UNCHANGED <<TypeOK, ArgumentsOk, BaseOk, WellFormed, Branches, Gathering, Splicing, Pool>>
    BY <1>2 DEF vars, TypeOK, ArgumentsOk, BaseOk, WellFormed, Branches, Gathering, Splicing,
                Pool, UnsupportedBase, Placeholders
  <2>2. UNCHANGED <<GatheringOk, SplicingOk>>
    BY <1>2, <2>1 DEF vars, GatheringOk, SplicingOk, BoundaryOk, NoQuestions, Resolves
  <2> QED
    BY <1>2, <2>1, <2>2 DEF IInv
<1> QED
  BY <1>1, <1>2

(* The finished statement's numbers resolve in what is rendered.           *)
LEMMA InvImpliesFidelity == IInv => BindFidelity
<1> SUFFICES ASSUME IInv, outcome = "ok", WellFormed
             PROVE  IF Numbered
                    THEN \A k \in DOMAIN out :
                           IsNumber(out[k]) =>
                             /\ out[k].number \in DOMAIN rendered
                             /\ rendered[out[k].number].means = out[k].means
                    ELSE /\ Len(marks) = Len(rendered)
                         /\ \A k \in DOMAIN marks : rendered[k].means = marks[k]
  BY DEF BindFidelity
<1> QED
  BY DEF IInv, SplicingOk, Splicing, Resolves

(* The invariant holds throughout every build and composition.             *)
THEOREM IInvHolds == Spec => []IInv
<1> QED
  BY InvInit, InvNext, PTL DEF Spec

(* For every dialect and every base query, clause, ordering and cursor,    *)
(* and any number of builder calls: a composed statement binds every       *)
(* placeholder to the value its author wrote it for.                       *)
THEOREM BindFidelityHolds == Spec => []BindFidelity
<1> QED
  BY IInvHolds, InvImpliesFidelity, PTL
=============================================================================
