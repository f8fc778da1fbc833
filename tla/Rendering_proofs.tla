--------------------------- MODULE Rendering_proofs ---------------------------
(* Theorems about the end of compose(): rendering the numbers back to ?    *)
(* binds each argument of the base query once, and the checks over the     *)
(* whole statement never refuse parts that fit.                            *)
EXTENDS Placement_proofs

(* Behind the arguments the pool holds none of theirs, so an argument is   *)
(* found at its own index and at no other.                                 *)
LEMMA PoolArgumentOnly ==
  ASSUME TypeOK, ArgumentsOk, Signed, NEW n \in 1..Len(Pool), NEW a \in DOMAIN arguments
  PROVE  /\ Pool[n].means = <<Author0, a>> <=> n = a
         /\ a \in 1..Len(Pool) /\ Pool[a] = arguments[a]
<1>1. /\ Len(Pool) = Len(arguments) + Len(acc.values)
      /\ Len(arguments) \in Nat /\ Len(acc.values) \in Nat
      /\ \A m \in 1..Len(arguments) : Pool[m] = arguments[m]
  BY PoolType
<1>2. DOMAIN arguments = 1..Len(arguments)
  BY DEF TypeOK, Arguments
<1>3. a \in 1..Len(Pool) /\ Pool[a] = arguments[a]
  BY <1>1, <1>2
<1>4. CASE n \in 1..Len(arguments)
  <2>1. Pool[n].means = <<Author0, n>>
    BY <1>1, <1>2, <1>4 DEF ArgumentsOk
  <2> QED
    BY <1>3, <2>1
<1>5. CASE n \notin 1..Len(arguments)
  <2> DEFINE m == n - Len(arguments)
  <2>1. m \in 1..Len(acc.values) /\ n = Len(arguments) + m
    BY <1>1, <1>5
  <2> HIDE DEF m
  <2>2. acc.values \in Seq(Values) /\ DOMAIN acc.values = 1..Len(acc.values)
    <3>1. acc.values \in Seq(Values)
      BY DEF TypeOK, Fragments
    <3> QED
      BY <3>1
  <2>3. Pool[n] = [opaque |-> FALSE, means |-> acc.values[m]]
    BY <2>1, PoolValues
  <2>4. acc.values[m][1] # Author0
    BY <2>1, <2>2 DEF Signed, ClauseSigned, Foreign
  <2>5. n # a
    BY <1>2, <1>5
  <2> QED
    BY <1>3, <2>3, <2>4, <2>5
<1> QED
  BY <1>4, <1>5

-----------------------------------------------------------------------------
(* A reference hands on the argument at its number.                        *)
LEMMA TakenRender ==
  ASSUME TypeOK, ArgumentsOk, Signed, TakenOnce, RenderReference
  PROVE  TakenOnce'
<1> DEFINE n == out[i].number
           x == Pool[n]
           A == [opaque : BOOLEAN, means : Values]
<1>1. /\ rendered' = Append(rendered, x) /\ n \in 1..Len(Pool) /\ n \notin taken
      /\ taken' = IF x.opaque THEN taken \cup {n} ELSE taken
      /\ arguments' = arguments
  BY DEF RenderReference, Available, builder
<1>2. x \in A /\ rendered \in Seq(A)
  BY <1>1, PoolElement DEF TypeOK, Arguments
<1>3. x.opaque => n \in DOMAIN arguments /\ arguments[n].opaque
  <2>1. /\ Len(Pool) = Len(arguments) + Len(acc.values) /\ Len(arguments) \in Nat
        /\ Len(acc.values) \in Nat /\ \A m \in 1..Len(arguments) : Pool[m] = arguments[m]
    BY PoolType
  <2>2. DOMAIN arguments = 1..Len(arguments)
    BY DEF TypeOK, Arguments
  <2>3. CASE n \in 1..Len(arguments)
    BY <2>1, <2>2, <2>3
  <2>4. CASE n \notin 1..Len(arguments)
    <3> HIDE DEF n
    <3> DEFINE m == n - Len(arguments)
    <3>1. m \in 1..Len(acc.values) /\ n = Len(arguments) + m
      <4>1. n \in 1..(Len(arguments) + Len(acc.values))
        BY <1>1, <2>1
      <4> QED
        BY <2>1, <2>4, <4>1
    <3> HIDE DEF m
    <3>2. Pool[n] = [opaque |-> FALSE, means |-> acc.values[m]]
      BY <3>1, PoolValues
    <3> QED
      BY <3>2
  <2> QED
    BY <2>3, <2>4
<1>4. \A m \in taken' : m \in DOMAIN arguments' /\ arguments'[m].opaque
  BY <1>1, <1>3 DEF TakenOnce
<1>5. ASSUME ~Numbered, NEW a \in DOMAIN arguments, arguments[a].opaque
      PROVE  Occurrences(rendered', BoundTo(<<Author0, a>>)) = IF a \in taken' THEN 1 ELSE 0
  <2> DEFINE S == BoundTo(<<Author0, a>>)
  <2>1. Occurrences(rendered, S) = IF a \in taken THEN 1 ELSE 0
    BY <1>5 DEF TakenOnce
  <2>2. x.means = <<Author0, a>> <=> n = a
    BY <1>1, PoolArgumentOnly
  <2>3. x \in S <=> n = a
    BY <1>2, <2>2 DEF BoundTo
  <2>4. n = a => x.opaque
    BY <1>1, <1>5, PoolArgumentOnly
  <2> HIDE DEF n, x, S, A
  <2>5. Occurrences(rendered', S) = Occurrences(rendered, S) + (IF x \in S THEN 1 ELSE 0)
    BY <1>1, <1>2, CountAppend
  <2>6. CASE n = a
    BY <1>1, <2>1, <2>3, <2>4, <2>5, <2>6 DEF S
  <2>7. CASE n # a
    BY <1>1, <2>1, <2>3, <2>5, <2>7 DEF S
  <2> QED
    BY <2>6, <2>7
<1> QED
  BY <1>1, <1>4, <1>5 DEF TakenOnce

(* That indices are taken once is inductive.                               *)
LEMMA TakenNext == TypeOK /\ TypeOK' /\ ArgumentsOk /\ Signed /\ TakenOnce /\ [Next]_vars
                     => TakenOnce'
<1>1. ASSUME TypeOK, TypeOK', ArgumentsOk, Signed, TakenOnce, Next PROVE TakenOnce'
  <2>1. CASE Build
    <3>1. pc = "build" /\ UNCHANGED <<taken, rendered>>
      BY <2>1 DEF Build, Bind, BindValue, PushArgument, WithCursor, PushWhere, PushEither,
                  PushOrderBy, Compose, pipeline
    <3>2. taken = {} /\ rendered = << >>
      BY <1>1, <3>1 DEF Signed, NothingSpliced, Gathering
    <3> QED
      BY <3>1, <3>2, CountEmpty DEF TakenOnce
  <2>2. CASE UNCHANGED <<arguments, taken>> /\ (rendered' = rendered \/ Numbered)
    BY <1>1, <2>2 DEF TakenOnce
  <2>3. CASE RenderReference
    BY <1>1, <2>3, TakenRender
  <2> QED
    BY <1>1, <2>1, <2>2, <2>3
    DEF Next, Composing, RejectUnsupported, RejectBase, AcceptBase, ThenOrderBy, RejectCursor,
        AcceptOrdering, AndClause, BoundaryBranch, PanicOnUnsetCursor, FinishWhere,
        SpliceSlot, NumberQuestion, CopyToken, RejectMissingWhere, RejectMissingOrderBy,
        RejectStatement, FinishNumbered, StartRender, RejectReference, CopyRendered, FinishRender,
        Fail, Return, builder, pipeline
<1>2. ASSUME TakenOnce, UNCHANGED vars PROVE TakenOnce'
  BY <1>2 DEF vars, TakenOnce
<1> QED
  BY <1>1, <1>2

(* Nothing is taken before anything is rendered.                           *)
LEMMA TakenInit == Init => TakenOnce
BY CountEmpty DEF Init, TakenOnce

(* An index of the pool is left empty exactly when its opaque bind has     *)
(* been handed on, whatever a fragment's numbers refer to.                 *)
THEOREM TakenOnceHolds == Spec => []TakenOnce
<1>1. IInv => ArgumentsOk
  BY DEF IInv
<1> QED
  BY <1>1, TypeCorrect, IInvHolds, SignedHolds, TakenInit, TakenNext, PTL DEF Spec

(* The arguments the driver got for v, counted.                            *)
LEMMA BoundCounted ==
  ASSUME TypeOK, NEW v
  PROVE  Cardinality({k \in DOMAIN rendered : rendered[k].means = v}) =
           Occurrences(rendered, BoundTo(v))
<1> DEFINE A == [opaque : BOOLEAN, means : Values]
<1>1. rendered \in Seq(A)
  BY DEF TypeOK, Arguments
<1> HIDE DEF A
<1>2. DOMAIN rendered = 1..Len(rendered) /\ \A k \in DOMAIN rendered : rendered[k] \in A
  BY <1>1
<1>3. \A k \in DOMAIN rendered : rendered[k].means = v <=> rendered[k] \in BoundTo(v)
  BY <1>2 DEF BoundTo, A
<1>4. {k \in DOMAIN rendered : rendered[k].means = v} =
        {k \in 1..Len(rendered) : rendered[k] \in BoundTo(v)}
  BY <1>2, <1>3
<1> QED
  BY <1>4 DEF Occurrences, CountUpTo

(* What is taken once is bound at most once.                               *)
LEMMA TakenStatement == TypeOK /\ TakenOnce => OpaqueBoundOnce
<1> SUFFICES ASSUME TypeOK, TakenOnce, ~Numbered,
                    NEW a \in DOMAIN arguments, arguments[a].opaque
             PROVE  Cardinality({k \in DOMAIN rendered : rendered[k].means = <<Author0, a>>}) <= 1
  BY DEF OpaqueBoundOnce
<1>1. Cardinality({k \in DOMAIN rendered : rendered[k].means = <<Author0, a>>}) =
        Occurrences(rendered, BoundTo(<<Author0, a>>))
  BY BoundCounted
<1>2. Occurrences(rendered, BoundTo(<<Author0, a>>)) = IF a \in taken THEN 1 ELSE 0
  BY DEF TakenOnce
<1>3. Occurrences(rendered, BoundTo(<<Author0, a>>)) <= 1
  BY <1>2
<1> QED
  BY <1>1, <1>3

(* Whatever the numbering of the fragments refers to, an opaque bind is    *)
(* handed to the driver at most once: it is never cloned.                  *)
THEOREM OpaqueBoundOnceHolds == Spec => []OpaqueBoundOnce
<1> QED
  BY TypeCorrect, TakenOnceHolds, TakenStatement, PTL
-----------------------------------------------------------------------------
(* What is spliced into a slot never stands for an argument of the base    *)
(* query, and neither does a token that is no number.                      *)
LEMMA ReferencesNone ==
  ASSUME TypeOK, Signed, NEW name, NEW a
  PROVE  Occurrences(Spliced(name), References(<<Author0, a>>)) = 0
<1> DEFINE s == Spliced(name)
           S == References(<<Author0, a>>)
<1>1. Len(s) \in Nat /\ DOMAIN s = 1..Len(s)
  BY SplicedType DEF Text
<1>2. \A k \in DOMAIN s : s[k] \notin S
  <2>1. \A k \in DOMAIN acc.sql : acc.sql[k].means[1] # Author0
    <3>1. Author0 \notin Pushers \cup (IF Gathering THEN {} ELSE {AuthorCursor})
      BY DEF Pushers, Author0, AuthorCursor
    <3> QED
      BY <3>1 DEF Signed, ClauseSigned, WrittenFor
  <2>2. \A k \in DOMAIN acc.sql : acc.sql[k] \notin S
    BY <2>1 DEF References
  <2>3. \A k \in DOMAIN OrderingText : OrderingText[k] \notin S
    BY DEF OrderingText, Token, References, IsNumber
  <2>4. s \in {acc.sql, OrderingText, << >>}
    BY DEF Spliced
  <2> HIDE DEF s, S
  <2> QED
    BY <2>2, <2>3, <2>4
<1> HIDE DEF s, S
<1>3. Occurrences(s, S) = 0
  BY <1>1, <1>2, CountNone DEF Occurrences
<1> QED
  BY <1>3 DEF s, S

(* Where the base query has ?s, it has no numbers.                         *)
LEMMA NoBaseNumbers ==
  ASSUME TypeOK, BaseOk, ~Numbered, Splicing, NEW k \in DOMAIN base
  PROVE  ~IsNumber(base[k])
BY DEF BaseOk, Splicing, UnsupportedBase, Numbers

(* In the loop over the base query, the number given to a ? is the first   *)
(* one that stands for its argument.                                       *)
LEMMA ReferencedSplice ==
  ASSUME IInv, Signed, BaseReferenced, SpliceSlot \/ NumberQuestion \/ CopyToken,
         WellFormed, ~Numbered
  PROVE  BaseReferenced'
<1>1. /\ pc = "splice" /\ pc' = "splice" /\ i' = i + 1 /\ i <= Len(base)
      /\ outcome' # "ok" /\ UNCHANGED builder
  BY DEF SpliceSlot, NumberQuestion, CopyToken, IInv, TypeOK
<1>2. /\ Splicing /\ Splicing' /\ ~Rendering' /\ TypeOK /\ BaseOk /\ SplicingOk
  BY <1>1 DEF Splicing, Rendering, IInv
<1>3. /\ i \in Nat /\ Len(base) \in Nat /\ DOMAIN base = 1..Len(base) /\ i \in 1..Len(base)
      /\ question \in Nat /\ out \in Text /\ DOMAIN arguments = 1..Len(arguments)
  <2>1. i \in Nat \ {0} /\ question \in Nat /\ out \in Text /\ arguments \in Arguments
    BY <1>2 DEF TypeOK
  <2>2. Len(base) \in Nat /\ DOMAIN base = 1..Len(base)
    BY <1>2, BaseType DEF TypeOK
  <2> QED
    BY <1>1, <2>1, <2>2 DEF Arguments
<1>4. pc' = "splice" => i' <= Len(base') + 1
  BY <1>1, <1>3 DEF builder
<1>5. ASSUME NEW a \in DOMAIN arguments
      PROVE  Occurrences(out', References(<<Author0, a>>)) = IF a <= question' THEN 1 ELSE 0
  <2> DEFINE S == References(<<Author0, a>>)
             T == Tokens(Values) \cup KeyTokens
  <2>1. Occurrences(out, S) = IF a <= question THEN 1 ELSE 0
    BY <1>2 DEF BaseReferenced
  <2>2. out \in Seq(T) /\ Spliced(base[i].name) \in Seq(T)
    BY <1>2, <1>3, SplicedType DEF Text
  <2>3. CASE SpliceSlot
    <3>1. out' = out \o Spliced(base[i].name) /\ question' = question
      BY <2>3 DEF SpliceSlot
    <3>2. Occurrences(Spliced(base[i].name), S) = 0
      BY <1>2, ReferencesNone
    <3> HIDE DEF S, T
    <3>3. Occurrences(out', S) = Occurrences(out, S) + 0
      BY <2>2, <3>1, <3>2, CountSum
    <3>4. Occurrences(out', S) = IF a <= question' THEN 1 ELSE 0
      BY <2>1, <3>1, <3>3
    <3> QED
      BY <3>4 DEF S
  <2>4. CASE NumberQuestion
    <3> DEFINE q == Cardinality(QuestionsUpTo(base, i))
               t == Token("number", question + 1, <<Author0, q>>)
    <3>1. IsQuestion(base[i]) /\ question' = question + 1 /\ out' = Append(out, t)
      BY <2>4 DEF NumberQuestion, QuestionNumber
    <3>2. q = question + 1 /\ q \in Nat
      BY <1>1, <1>2, <1>3, <3>1, QuestionHasArgument DEF SplicingOk
    <3>3. t \in Tokens(Values) /\ IsNumber(t) /\ t.means = <<Author0, question + 1>>
      BY <1>3, <3>2 DEF Token, Tokens, Kinds, Values, Author0, IsNumber
    <3>4. t \in S <=> a = question + 1
      BY <3>3 DEF References
    <3>5. t \in T
      BY <3>3
    <3> HIDE DEF S, T, t, q
    <3>6. Occurrences(out', S) = Occurrences(out, S) + (IF t \in S THEN 1 ELSE 0)
      BY <2>2, <3>1, <3>5, CountAppend
    <3>7. Occurrences(out', S) = IF a <= question' THEN 1 ELSE 0
      BY <1>3, <2>1, <3>1, <3>4, <3>6
    <3> QED
      BY <3>7 DEF S
  <2>5. CASE CopyToken
    <3> DEFINE t == Token(base[i].kind, base[i].number, <<Author0, base[i].number>>)
    <3>1. ~IsSlot(base[i]) /\ question' = question /\ out' = Append(out, t)
      BY <2>5 DEF CopyToken
    <3>2. base[i] \in ClauseTokens /\ ~IsNumber(base[i])
      BY <1>2, <1>3, <3>1, BaseType, NoBaseNumbers DEF TypeOK
    <3>3. t \in Tokens(Values) /\ ~IsNumber(t)
      BY <3>2 DEF ClauseTokens, Token, Tokens, Kinds, Values, Author0, IsNumber
    <3>4. t \in T /\ t \notin S
      BY <3>3 DEF References
    <3> HIDE DEF S, T, t
    <3>5. Occurrences(out', S) = Occurrences(out, S) + (IF t \in S THEN 1 ELSE 0)
      BY <2>2, <3>1, <3>4, CountAppend
    <3>6. Occurrences(out', S) = IF a <= question' THEN 1 ELSE 0
      BY <2>1, <3>1, <3>4, <3>5
    <3> QED
      BY <3>6 DEF S
  <2> QED
    BY <2>3, <2>4, <2>5
<1> QED
  BY <1>1, <1>2, <1>4, <1>5 DEF BaseReferenced, builder
(* Behind the loop every argument has been given its number.               *)
LEMMA QuestionsNumbered ==
  ASSUME IInv, BaseReferenced, BaseScanned, ~Numbered, WellFormed
  PROVE  question = Len(arguments)
<1>1. Splicing /\ pc = "splice" /\ i > Len(base) /\ TypeOK /\ BaseOk
  BY DEF BaseScanned, Splicing, IInv
<1>2. i \in Nat /\ Len(base) \in Nat
  BY <1>1, BaseType DEF TypeOK
<1>3. i - 1 = Len(base)
  BY <1>1, <1>2 DEF BaseReferenced
<1>4. question = Cardinality(QuestionsUpTo(base, i - 1))
  BY <1>1 DEF IInv, SplicingOk
<1>5. Placeholders = Cardinality(QuestionsUpTo(base, Len(base)))
  BY DEF Placeholders, CountPlaceholders
<1> QED
  BY <1>1, <1>3, <1>4, <1>5 DEF BaseOk

(* So it has before the render loop.                                       *)
LEMMA ReferencedStart ==
  ASSUME IInv, Signed, BaseReferenced, StartRender, WellFormed
  PROVE  BaseReferenced'
<1>1. /\ pc = "splice" /\ pc' = "render" /\ i > Len(base) /\ i' = 1 /\ ~Numbered
      /\ outcome' # "ok" /\ UNCHANGED <<builder, out, question, rendered>>
  BY DEF StartRender, SlotsFound, BaseScanned, IInv, TypeOK
<1>2. /\ Splicing /\ TypeOK /\ BaseOk /\ SplicingOk
  BY <1>1 DEF Splicing, IInv
<1>3. i \in Nat /\ Len(base) \in Nat /\ Len(out) \in Nat /\ rendered = << >>
  <2>1. i \in Nat \ {0} /\ out \in Text /\ Len(base) \in Nat
    BY <1>2, BaseType DEF TypeOK
  <2> QED
    BY <1>1, <2>1 DEF Text, Signed, NothingSpliced
<1>4. question = Len(arguments)
  BY <1>1, QuestionsNumbered DEF StartRender, SlotsFound
<1>5. ASSUME NEW a \in DOMAIN arguments
      PROVE  Occurrences(rendered', BoundTo(<<Author0, a>>)) =
               CountUpTo(out', References(<<Author0, a>>), i' - 1)
  <2>1. Occurrences(<< >>, BoundTo(<<Author0, a>>)) = 0
    BY CountEmpty
  <2>2. CountUpTo(out', References(<<Author0, a>>), 0) = 0
    BY CountZero
  <2>3. i' - 1 = 0 /\ rendered' = << >>
    BY <1>1, <1>3
  <2> QED
    BY <2>1, <2>2, <2>3
<1> QED
  BY <1>1, <1>2, <1>3, <1>4, <1>5 DEF BaseReferenced, Splicing, builder

(* In the render loop a number hands on the argument it stands for.        *)
LEMMA ReferencedRender ==
  ASSUME IInv, BaseReferenced, RenderReference \/ CopyRendered, WellFormed
  PROVE  BaseReferenced'
<1>1. /\ pc = "render" /\ pc' = "render" /\ i <= Len(out) /\ i' = i + 1
      /\ outcome' # "ok" /\ UNCHANGED <<builder, out, question>>
  BY DEF RenderReference, CopyRendered, IInv, TypeOK
<1>2. Splicing /\ Rendering /\ TypeOK /\ SplicingOk /\ ~Numbered
  BY <1>1 DEF Splicing, Rendering, IInv, SplicingOk
<1>3. /\ i \in Nat /\ Len(out) \in Nat /\ i \in DOMAIN out
      /\ out[i] \in Tokens(Values) \cup KeyTokens
  <2>1. i \in Nat \ {0} /\ out \in Text
    BY <1>2 DEF TypeOK
  <2>2. i \in 1..Len(out) /\ Len(out) \in Nat
    BY <1>1, <2>1 DEF Text
  <2> QED
    BY <2>1, <2>2 DEF Text
<1>4. ASSUME NEW a \in DOMAIN arguments
      PROVE  Occurrences(rendered', BoundTo(<<Author0, a>>)) =
               CountUpTo(out, References(<<Author0, a>>), i)
  <2> DEFINE S == References(<<Author0, a>>)
             B == BoundTo(<<Author0, a>>)
             A == [opaque : BOOLEAN, means : Values]
             j == i - 1
  <2>1. Occurrences(rendered, B) = CountUpTo(out, S, j) /\ rendered \in Seq(A)
    BY <1>2 DEF BaseReferenced, TypeOK, Arguments
  <2>2. j \in Nat /\ j + 1 = i
    BY <1>1, <1>3, <1>2 DEF TypeOK
  <2>3. CASE RenderReference
    <3> DEFINE n == out[i].number
               x == Pool[n]
    <3>1. IsNumber(out[i]) /\ rendered' = Append(rendered, x) /\ n \in 1..Len(Pool)
      BY <2>3 DEF RenderReference, Available
    <3>2. x \in A
      BY <1>2, <3>1, PoolElement
    <3>3. x.means = out[i].means
      BY <1>2, <1>3, <3>1 DEF SplicingOk, Resolves
    <3>4. out[i] \in Tokens(Values)
      BY <1>3, <3>1 DEF KeyTokens, IsNumber
    <3>5. x \in B <=> out[i] \in S
      BY <3>1, <3>2, <3>3, <3>4 DEF BoundTo, References
    <3> HIDE DEF S, B, A, x, n, j
    <3>6. Occurrences(rendered', B) = Occurrences(rendered, B) + (IF x \in B THEN 1 ELSE 0)
      BY <2>1, <3>1, <3>2, CountAppend
    <3>7. CountUpTo(out, S, j + 1) = CountUpTo(out, S, j) + (IF out[j + 1] \in S THEN 1 ELSE 0)
      BY <2>2, CountEach
    <3>8. Occurrences(rendered', B) = CountUpTo(out, S, i)
      BY <2>1, <2>2, <3>5, <3>6, <3>7
    <3> QED
      BY <3>8 DEF S, B
  <2>4. CASE CopyRendered
    <3>1. rendered' = rendered /\ out[i] \notin S
      BY <2>4 DEF CopyRendered, References
    <3> HIDE DEF S, B, A, j
    <3>2. CountUpTo(out, S, j + 1) = CountUpTo(out, S, j) + (IF out[j + 1] \in S THEN 1 ELSE 0)
      BY <2>2, CountEach
    <3>3. CountUpTo(out, S, j) \in Nat
      BY <2>2, CountIsNat
    <3>4. Occurrences(rendered', B) = CountUpTo(out, S, i)
      BY <2>1, <2>2, <3>1, <3>2, <3>3
    <3> QED
      BY <3>4 DEF S, B
  <2> QED
    BY <2>3, <2>4
<1>5. (i + 1) - 1 = i /\ i + 1 <= Len(out) + 1
  BY <1>1, <1>3
<1> QED
  BY <1>1, <1>2, <1>4, <1>5 DEF BaseReferenced, Splicing, Rendering, builder

(* That arguments are referenced once is inductive.                        *)
LEMMA ReferencedNext == IInv /\ TypeOK' /\ Signed /\ BaseReferenced /\ [Next]_vars
                          => BaseReferenced'
<1>1. ASSUME IInv, TypeOK', Signed, BaseReferenced, Next PROVE BaseReferenced'
  <2> SUFFICES ASSUME WellFormed', ~Numbered PROVE BaseReferenced'
    BY DEF BaseReferenced
  <2>1. TypeOK /\ WellFormed
    BY <1>1, WellFormedBack DEF IInv
  <2>2. CASE Build \/ (\E e \in Errors : Fail(e)) \/ AcceptBase \/ ThenOrderBy \/ AcceptOrdering
             \/ AndClause \/ BoundaryBranch
    <3>1. pc' \in {"build", "base", "order", "where"} \/ outcome' \in Errors
      BY <2>1, <2>2 DEF Build, Bind, BindValue, PushArgument, WithCursor, PushWhere, PushEither,
                  PushOrderBy, Compose, Fail, Return, AcceptBase, ThenOrderBy, AcceptOrdering,
                  AndClause, BoundaryBranch
    <3>2. pc' # "splice" /\ ~Splicing' /\ ~Rendering'
      BY <1>1, <3>1 DEF TypeOK, Splicing, Rendering, Errors
    <3> QED
      BY <3>2 DEF BaseReferenced
  <2>3. CASE FinishWhere
    <3>1. /\ pc = "where" /\ pc' = "splice" /\ i' = 1 /\ outcome' # "ok"
          /\ UNCHANGED <<builder, out, question>>
      BY <2>1, <2>3 DEF FinishWhere, WheresRead, TypeOK
    <3>2. out = << >> /\ question = 0
      BY <1>1, <3>1 DEF Signed, NothingSpliced, Gathering
    <3>3. \A a \in DOMAIN arguments : ~(a <= 0)
      <4>1. DOMAIN arguments = 1..Len(arguments)
        BY <2>1 DEF TypeOK, Arguments
      <4> QED
        BY <4>1
    <3>4. ~Rendering' /\ 1 <= Len(base) + 1
      BY <2>1, <3>1, BaseType DEF Rendering, TypeOK
    <3> QED
      BY <3>1, <3>2, <3>3, <3>4, CountEmpty DEF BaseReferenced, builder
  <2>4. CASE SpliceSlot \/ NumberQuestion \/ CopyToken
    BY <1>1, <2>1, <2>4, ReferencedSplice
  <2>5. CASE FinishNumbered
    BY <2>5 DEF FinishNumbered
  <2>6. CASE StartRender
    BY <1>1, <2>1, <2>6, ReferencedStart
  <2>7. CASE RenderReference \/ CopyRendered
    BY <1>1, <2>1, <2>7, ReferencedRender
  <2>8. CASE FinishRender
    <3>1. /\ pc = "render" /\ pc' = "done" /\ outcome' = "ok" /\ i > Len(out)
          /\ UNCHANGED <<builder, pipeline>>
      BY <2>8 DEF FinishRender, Return
    <3>2. i \in Nat /\ Len(out) \in Nat
      BY <2>1 DEF TypeOK, Text
    <3>3. i = Len(out) + 1
      BY <1>1, <2>1, <3>1, <3>2 DEF BaseReferenced, Rendering
    <3> QED
      BY <1>1, <2>1, <3>1, <3>3 DEF BaseReferenced, Rendering, Splicing, builder, pipeline
  <2> QED
    BY <1>1, <2>2, <2>3, <2>4, <2>5, <2>6, <2>7, <2>8
    DEF Next, Composing, RejectUnsupported, RejectBase, RejectCursor, PanicOnUnsetCursor,
        RejectMissingWhere, RejectMissingOrderBy, RejectStatement, RejectReference, Errors
<1>2. ASSUME BaseReferenced, UNCHANGED vars PROVE BaseReferenced'
  BY <1>2 DEF vars, BaseReferenced, WellFormed, Splicing, Rendering
<1> QED
  BY <1>1, <1>2

(* Nothing is referenced before anything is written.                       *)
LEMMA ReferencedInit == Init => BaseReferenced
BY DEF Init, BaseReferenced, Splicing, Rendering

(* The ?s of the base query numbered so far stand for the first arguments, *)
(* one for one, and the render loop binds one argument per number it has   *)
(* passed.                                                                 *)
THEOREM BaseReferencedHolds == Spec => []BaseReferenced
<1> QED
  BY TypeCorrect, IInvHolds, SignedHolds, ReferencedInit, ReferencedNext, PTL DEF Spec

(* What is referenced once is bound once.                                  *)
LEMMA ReferencedStatement == TypeOK /\ BaseReferenced => BaseArgumentsOnce
<1> SUFFICES ASSUME TypeOK, BaseReferenced, outcome = "ok", ~Numbered, WellFormed,
                    NEW a \in DOMAIN arguments
             PROVE  Cardinality({k \in DOMAIN rendered : rendered[k].means = <<Author0, a>>}) = 1
  BY DEF BaseArgumentsOnce
<1> DEFINE v == <<Author0, a>>
<1>1. Cardinality({k \in DOMAIN rendered : rendered[k].means = v}) = Occurrences(rendered, BoundTo(v))
  BY BoundCounted
<1>2. /\ question = Len(arguments) /\ i = Len(out) + 1
      /\ Occurrences(rendered, BoundTo(v)) = CountUpTo(out, References(v), i - 1)
      /\ Occurrences(out, References(v)) = IF a <= question THEN 1 ELSE 0
  BY DEF BaseReferenced, Splicing, Rendering
<1>3. Len(out) \in Nat /\ a <= Len(arguments)
  BY DEF TypeOK, Text, Arguments
<1>4. i - 1 = Len(out)
  BY <1>2, <1>3
<1>5. Occurrences(rendered, BoundTo(v)) = 1
  BY <1>2, <1>3, <1>4 DEF Occurrences
<1> QED
  BY <1>1, <1>5

(* Rendered back to ?, each argument of the base query reaches the driver  *)
(* exactly once, whatever well-numbered fragments are spliced around it.   *)
THEOREM BaseArgumentsOnceHolds == Spec => []BaseArgumentsOnce
<1> QED
  BY TypeCorrect, BaseReferencedHolds, ReferencedStatement, PTL
-----------------------------------------------------------------------------
(* The numbers of a concatenation are those of its parts.                  *)
LEMMA NumbersConcat ==
  ASSUME NEW T, NEW a, NEW b, a \in Seq(T), b \in Seq(T)
  PROVE  Numbers(a) \subseteq Numbers(a \o b) /\ Numbers(b) \subseteq Numbers(a \o b)
<1> DEFINE c == a \o b
<1>1. /\ DOMAIN c = 1..(Len(a) + Len(b)) /\ Len(a) \in Nat /\ Len(b) \in Nat
      /\ DOMAIN a = 1..Len(a) /\ DOMAIN b = 1..Len(b)
      /\ \A k \in 1..Len(a) : c[k] = a[k]
      /\ \A k \in 1..Len(b) : c[Len(a) + k] = b[k]
  BY Concatenation
<1> HIDE DEF c
<1>2. \A k \in DOMAIN a : k \in DOMAIN c /\ c[k] = a[k]
  BY <1>1
<1>3. \A k \in DOMAIN b : Len(a) + k \in DOMAIN c /\ c[Len(a) + k] = b[k]
  BY <1>1
<1>4. Numbers(a) \subseteq Numbers(c)
  BY <1>2 DEF Numbers
<1>5. Numbers(b) \subseteq Numbers(c)
  BY <1>3 DEF Numbers
<1> QED
  BY <1>4, <1>5 DEF c

(* A token put behind a text adds its number, and takes none away.         *)
LEMMA NumbersAppend ==
  ASSUME NEW T, NEW a, NEW t, a \in Seq(T), t \in T
  PROVE  /\ Numbers(a) \subseteq Numbers(Append(a, t))
         /\ IsNumber(t) => t.number \in Numbers(Append(a, t))
<1> DEFINE c == Append(a, t)
<1>1. /\ DOMAIN c = 1..(Len(a) + 1) /\ Len(a) \in Nat /\ DOMAIN a = 1..Len(a)
      /\ c[Len(a) + 1] = t /\ \A k \in 1..Len(a) : c[k] = a[k]
  OBVIOUS
<1> HIDE DEF c
<1>2. \A k \in DOMAIN a : k \in DOMAIN c /\ c[k] = a[k]
  BY <1>1
<1>3. Len(a) + 1 \in DOMAIN c
  BY <1>1
<1>4. Numbers(a) \subseteq Numbers(c)
  BY <1>2 DEF Numbers
<1>5. IsNumber(t) => t.number \in Numbers(c)
  BY <1>1, <1>3 DEF Numbers
<1> QED
  BY <1>4, <1>5 DEF c

(* Shifted past the base query's arguments, the highest number of the      *)
(* combined clause is the number of all of them.                           *)
LEMMA LastFinishWhere ==
  ASSUME IInv, Signed, FinishWhere, WellFormed
  PROVE  LastReferenced'
<1>1. /\ pc = "where" /\ pc' = "splice" /\ i' = 1 /\ UNCHANGED <<builder, out, question>>
      /\ TypeOK /\ BaseOk
  BY DEF FinishWhere, WheresRead, IInv
<1>2. question = 0 /\ Placeholders = Len(arguments) /\ Len(arguments) \in Nat
  BY <1>1 DEF Signed, NothingSpliced, Gathering, BaseOk, TypeOK, Arguments
<1>3. PICK f \in Fragments : FragmentOk(f) /\ acc' = Shift(f, Placeholders)
  BY FinishedClause
<1> DEFINE n == Len(arguments)
<1>4. /\ acc'.sql = ShiftPlaceholderNumbers(f.sql, n) /\ acc'.values = f.values
      /\ f.sql \in Seq(Tokens(Values)) /\ f.values \in Seq(Values)
  BY <1>2, <1>3, ShiftType DEF Fragments
<1>5. Len(Pool') = n + Len(f.values)
  <2>1. arguments \in Arguments /\ arguments' = arguments
    BY <1>1 DEF TypeOK, builder
  <2>2. Len(arguments \o FromValues(f.values)) = n + Len(f.values)
    BY <1>4, <2>1, Extended
  <2>3. Pool' = arguments \o FromValues(f.values)
    BY <1>4, <2>1 DEF Pool
  <2> QED
    BY <2>2, <2>3
<1>6. ASSUME acc'.values # << >> PROVE Len(Pool') \in Numbers(acc'.sql)
  <2>1. PICK k \in DOMAIN f.sql : IsNumber(f.sql[k]) /\ f.sql[k].number = Len(f.values)
    BY <1>3, <1>4, <1>6 DEF FragmentOk
  <2>2. k \in DOMAIN acc'.sql /\ acc'.sql[k] = Token("number", Len(f.values) + n, f.sql[k].means)
    BY <1>4, <2>1 DEF ShiftPlaceholderNumbers
  <2>3. IsNumber(acc'.sql[k]) /\ acc'.sql[k].number = Len(f.values) + n
    BY <2>2 DEF Token, IsNumber
  <2>4. Len(f.values) + n = n + Len(f.values)
    BY <1>2, <1>4
  <2> QED
    BY <1>5, <2>2, <2>3, <2>4 DEF Numbers
<1>7. Met("where")' = {}
  BY <1>1, MetNone
<1>8. \A k \in DOMAIN base' : ~(k < i')
  <2>1. DOMAIN base = 1..Len(base)
    BY <1>1, BaseType DEF TypeOK
  <2> QED
    BY <1>1, <2>1 DEF builder
<1> QED
  BY <1>1, <1>2, <1>6, <1>7, <1>8 DEF LastReferenced

(* A step of the loop writes the clause's last number with the clause, and *)
(* the base query's last with its last placeholder.                        *)
LEMMA LastSplice ==
  ASSUME TypeOK, Signed, LastReferenced, SpliceSlot \/ NumberQuestion \/ CopyToken, WellFormed
  PROVE  LastReferenced'
<1> DEFINE T == Tokens(Values) \cup KeyTokens
<1>1. /\ pc = "splice" /\ pc' = "splice" /\ i' = i + 1 /\ i \in Nat /\ UNCHANGED <<builder, acc>>
      /\ Splicing /\ Pool' = Pool /\ base' = base
  BY DEF SpliceSlot, NumberQuestion, CopyToken, TypeOK, Splicing, Pool, builder
<1>2. /\ out \in Seq(T) /\ i \in 1..Len(base) /\ DOMAIN base = 1..Len(base)
      /\ Spliced(base[i].name) \in Seq(T)
  <2>1. i <= Len(base)
    BY DEF SpliceSlot, NumberQuestion, CopyToken
  <2> QED
    BY <2>1, BaseType, SplicedType DEF TypeOK, Text
<1>3. /\ Numbers(out) \subseteq Numbers(out')
      /\ IsSlot(base[i]) => Numbers(Spliced(base[i].name)) \subseteq Numbers(out')
      /\ IsNumber(base[i]) => base[i].number \in Numbers(out')
      /\ question' = question \/ question' \in Numbers(out')
  <2>1. CASE SpliceSlot
    <3>1. /\ out' = out \o Spliced(base[i].name) /\ question' = question
          /\ ~IsNumber(base[i])
      BY <2>1 DEF SpliceSlot, IsSlot, IsNumber
    <3> HIDE DEF T
    <3>2. Numbers(out) \subseteq Numbers(out') /\ Numbers(Spliced(base[i].name)) \subseteq Numbers(out')
      BY <1>2, <3>1, NumbersConcat
    <3> QED
      BY <3>1, <3>2
  <2>2. CASE NumberQuestion
    <3> DEFINE q == Cardinality(QuestionsUpTo(base, i))
               t == Token("number", question + 1, <<Author0, q>>)
    <3>1. /\ out' = Append(out, t) /\ question' = question + 1
          /\ ~IsNumber(base[i]) /\ ~IsSlot(base[i])
      BY <2>2 DEF NumberQuestion, QuestionNumber, IsQuestion, IsSlot, IsNumber
    <3>2. q \in Nat /\ question + 1 \in Nat
      BY <1>1, QuestionsCounted DEF TypeOK
    <3> HIDE DEF q
    <3>3. t \in T /\ IsNumber(t) /\ t.number = question + 1
      BY <3>2 DEF Token, Tokens, Kinds, Values, Author0, IsNumber
    <3> HIDE DEF t, T
    <3>4. Numbers(out) \subseteq Numbers(out') /\ t.number \in Numbers(out')
      BY <1>2, <3>1, <3>3, NumbersAppend
    <3> QED
      BY <3>1, <3>3, <3>4
  <2>3. CASE CopyToken
    <3> DEFINE t == Token(base[i].kind, base[i].number, <<Author0, base[i].number>>)
    <3>1. out' = Append(out, t) /\ question' = question /\ ~IsSlot(base[i])
      BY <2>3 DEF CopyToken
    <3>2. base[i] \in ClauseTokens
      BY <1>2, <3>1, BaseType DEF TypeOK
    <3>3. t \in T /\ (IsNumber(base[i]) => IsNumber(t) /\ t.number = base[i].number)
      BY <3>2 DEF ClauseTokens, Token, Tokens, Kinds, Values, Author0, IsNumber
    <3> HIDE DEF t, T
    <3>4. /\ Numbers(out) \subseteq Numbers(out')
          /\ IsNumber(t) => t.number \in Numbers(out')
      BY <1>2, <3>1, <3>3, NumbersAppend
    <3> QED
      BY <3>1, <3>3, <3>4
  <2> QED
    BY <2>1, <2>2, <2>3
<1>4. ASSUME Met("where")' # {} PROVE Numbers(acc.sql) \subseteq Numbers(out')
  <2>1. CASE IsSlot(base[i]) /\ base[i].name = "where"
    <3>1. Spliced(base[i].name) = acc.sql
      BY <2>1 DEF Spliced
    <3> QED
      BY <1>3, <2>1, <3>1
  <2>2. CASE ~(IsSlot(base[i]) /\ base[i].name = "where")
    <3>1. Met("where")' = Met("where")
      BY <2>2, MetStep
    <3> QED
      BY <1>1, <1>3, <1>4, <3>1 DEF LastReferenced
  <2> QED
    BY <2>1, <2>2
<1>5. ASSUME NEW k \in DOMAIN base, IsNumber(base[k]), k < i + 1
      PROVE  base[k].number \in Numbers(out')
  <2>1. k < i \/ k = i
    BY <1>1, <1>2, <1>5
  <2> QED
    BY <1>1, <1>3, <1>5, <2>1 DEF LastReferenced
<1>6. ~Numbered /\ question' > 0 => question' \in Numbers(out')
  BY <1>1, <1>3 DEF LastReferenced
<1> QED
  BY <1>1, <1>4, <1>5, <1>6 DEF LastReferenced

(* That the last argument has a number is inductive.                       *)
LEMMA LastNext == IInv /\ TypeOK' /\ Signed /\ LastReferenced /\ [Next]_vars => LastReferenced'
<1>1. ASSUME IInv, TypeOK', Signed, LastReferenced, Next PROVE LastReferenced'
  <2> SUFFICES ASSUME WellFormed' PROVE LastReferenced'
    BY DEF LastReferenced
  <2>1. TypeOK /\ WellFormed
    BY <1>1, WellFormedBack DEF IInv
  <2>2. CASE Build \/ (\E e \in Errors : Fail(e)) \/ AcceptBase \/ ThenOrderBy \/ AcceptOrdering
             \/ AndClause \/ BoundaryBranch
    <3>1. pc' \in {"build", "base", "order", "where"} \/ outcome' \in Errors
      BY <2>1, <2>2 DEF Build, Bind, BindValue, PushArgument, WithCursor, PushWhere, PushEither,
                  PushOrderBy, Compose, Fail, Return, AcceptBase, ThenOrderBy, AcceptOrdering,
                  AndClause, BoundaryBranch
    <3>2. ~Splicing'
      BY <1>1, <3>1 DEF TypeOK, Splicing, Errors
    <3> QED
      BY <3>2 DEF LastReferenced
  <2>3. CASE FinishWhere
    BY <1>1, <2>1, <2>3, LastFinishWhere
  <2>4. CASE SpliceSlot \/ NumberQuestion \/ CopyToken
    BY <1>1, <2>1, <2>4, LastSplice
  <2>5. CASE FinishNumbered \/ StartRender \/ RenderReference \/ CopyRendered \/ FinishRender
    <3>1. /\ UNCHANGED <<builder, acc, out, question>> /\ Splicing
          /\ pc' # "splice" /\ (pc = "splice" => i > Len(base))
      BY <2>5 DEF FinishNumbered, StartRender, RenderReference, CopyRendered, FinishRender,
                  SlotsFound, BaseScanned, Splicing, Return, builder, pipeline
    <3>2. Met("where")' = Met("where")
      BY <2>1, <2>5, MetSame
    <3>3. DOMAIN base = 1..Len(base) /\ i \in Nat /\ Len(base) \in Nat
      BY <2>1, BaseType DEF TypeOK
    <3>4. \A k \in DOMAIN base : pc = "splice" => k < i
      BY <3>1, <3>3
    <3> QED
      BY <1>1, <2>1, <3>1, <3>2, <3>4 DEF LastReferenced, Pool, builder
  <2> QED
    BY <1>1, <2>2, <2>3, <2>4, <2>5
    DEF Next, Composing, RejectUnsupported, RejectBase, RejectCursor, PanicOnUnsetCursor,
        RejectMissingWhere, RejectMissingOrderBy, RejectStatement, RejectReference, Errors
<1>2. ASSUME LastReferenced, UNCHANGED vars PROVE LastReferenced'
  BY <1>2 DEF vars, LastReferenced, WellFormed, Splicing, Met, Slots, Pool
<1> QED
  BY <1>1, <1>2

(* Nothing is spliced yet.                                                 *)
LEMMA LastInit == Init => LastReferenced
BY DEF Init, LastReferenced, Splicing

(* The last of the statement's arguments has a number in the statement,    *)
(* which is what compose() compares at the end.                            *)
THEOREM LastReferencedHolds == Spec => []LastReferenced
<1> QED
  BY TypeCorrect, IInvHolds, SignedHolds, LastInit, LastNext, PTL DEF Spec
-----------------------------------------------------------------------------
(* What a query whose parts fit has, and what is known of it behind the    *)
(* loop over the base query's tokens.                                      *)
Fits ==
  /\ WellFormed
  /\ ~UnsupportedBase /\ Placeholders = Len(arguments)
  /\ ~OrderingDisagrees
  /\ cursor.keys # << >> => cursor.set
  /\ Slots("where") # {} /\ Slots("order_by") # {}

(* The invariants proved so far.                                           *)
Known == IInv /\ Signed /\ Placed /\ TakenOnce /\ BaseReferenced /\ LastReferenced

(* Every slot it has is met.                                               *)
LEMMA SlotsMet ==
  ASSUME Known, Fits, BaseScanned
  PROVE  ~WhereHasNoSlot /\ ~OrderByHasNoSlot /\ Met("where") # {}
<1>1. TypeOK /\ Splicing /\ Scanned
  BY DEF Known, IInv, BaseScanned, Splicing, Scanned
<1>2. Met("where") # {} /\ Met("order_by") # {}
  BY <1>1, MetAll DEF Fits
<1>3. spliced = {name \in {"where", "order_by"} : Met(name) # {}}
  BY <1>1 DEF Known, Placed
<1> QED
  BY <1>2, <1>3 DEF WhereHasNoSlot, OrderByHasNoSlot

(* The statement's arguments end in a number of it, unless there are none: *)
(* what has values is spliced, as its slot was found.                      *)
LEMMA LastIsReferenced ==
  ASSUME Known, WellFormed, SlotsFound
  PROVE  Len(Pool) = 0 \/ Len(Pool) \in Numbers(out)
<1>1. /\ TypeOK /\ Splicing /\ pc = "splice" /\ i > Len(base) /\ IInv /\ Scanned
      /\ Placeholders = Len(arguments) /\ ~WhereHasNoSlot /\ BaseScanned
  BY DEF Known, IInv, BaseOk, SlotsFound, BaseScanned, Splicing, Scanned
<1>2. /\ Len(Pool) = Len(arguments) + Len(acc.values) /\ Len(arguments) \in Nat
      /\ i \in Nat /\ Len(base) \in Nat /\ DOMAIN base = 1..Len(base)
      /\ acc.values \in Seq(Values) /\ base \in Seq(BaseTokens)
      /\ \A k \in DOMAIN base : base[k].number \in Nat
  BY <1>1, PoolType, BaseType DEF TypeOK, Fragments
<1>3. CASE acc.values # << >>
  <2>1. Len(Pool) \in Numbers(acc.sql)
    BY <1>1, <1>3 DEF Known, LastReferenced
  <2>2. acc.sql # << >>
    BY <2>1 DEF Numbers
  <2>3. "where" \in spliced
    BY <1>1, <2>2 DEF WhereHasNoSlot, IsEmpty
  <2>4. spliced = {name \in {"where", "order_by"} : Met(name) # {}}
    BY <1>1 DEF Known, Placed
  <2>5. Met("where") # {}
    BY <2>3, <2>4
  <2>6. Numbers(acc.sql) \subseteq Numbers(out)
    BY <1>1, <2>5 DEF Known, LastReferenced
  <2> QED
    BY <2>1, <2>6
<1>4. CASE acc.values = << >>
  <2>1. Len(Pool) = Placeholders
    BY <1>1, <1>2, <1>4
  <2>2. CASE Numbered
    <3>1. Placeholders = MaxPlaceholderNumber(base)
      BY <2>2 DEF Placeholders, CountPlaceholders
    <3>2. CASE Numbers(base) = {}
      BY <2>1, <3>1, <3>2 DEF MaxPlaceholderNumber
    <3>3. CASE Numbers(base) # {}
      <4>1. Placeholders \in Numbers(base)
        BY <1>2, <3>1, <3>3, MaxPlaceholderNumberIsMax
      <4>2. PICK k \in DOMAIN base : IsNumber(base[k]) /\ base[k].number = Placeholders
        BY <4>1 DEF Numbers
      <4>3. k < i
        BY <1>1, <1>2
      <4>4. base[k].number \in Numbers(out)
        BY <1>1, <4>2, <4>3 DEF Known, LastReferenced
      <4> QED
        BY <2>1, <4>2, <4>4
    <3> QED
      BY <3>2, <3>3
  <2>3. CASE ~Numbered
    <3>1. question = Len(arguments)
      BY <1>1, <2>3, QuestionsNumbered DEF Known
    <3>2. question > 0 => question \in Numbers(out)
      BY <1>1, <2>3 DEF Known, LastReferenced
    <3> QED
      BY <1>1, <1>2, <2>1, <3>1, <3>2
  <2> QED
    BY <2>2, <2>3
<1> QED
  BY <1>3, <1>4

(* The check of the whole statement passes.                                *)
LEMMA StatementFits ==
  ASSUME Known, WellFormed, SlotsFound
  PROVE  ~StatementMismatch
<1> DEFINE l == Len(Pool)
           m == MaxPlaceholderNumber(out)
           T == Tokens(Values) \cup KeyTokens
<1>1. TypeOK /\ Splicing /\ SplicingOk
  BY DEF Known, IInv, SlotsFound, BaseScanned, Splicing
<1>2. l \in Nat /\ DOMAIN Pool = 1..l
  <2>1. /\ DOMAIN Pool = 1..Len(Pool) /\ Len(arguments) \in Nat /\ Len(acc.values) \in Nat
        /\ Len(Pool) = Len(arguments) + Len(acc.values)
    BY <1>1, PoolType
  <2>2. Len(Pool) \in Nat
    BY <2>1
  <2> QED
    BY <2>1, <2>2
<1>3. out \in Seq(T) /\ \A k \in DOMAIN out : out[k].number \in Nat
  <2>1. out \in Seq(T)
    BY <1>1 DEF TypeOK, Text
  <2>2. \A t \in T : t.number \in Nat
    BY DEF Tokens, KeyTokens
  <2> HIDE DEF T
  <2>3. \A k \in DOMAIN out : out[k] \in T
    BY <2>1
  <2> QED
    BY <2>1, <2>2, <2>3
<1>4. Numbers(out) \subseteq 1..l
  BY <1>1, <1>2 DEF SplicingOk, Resolves, Numbers
<1>5. l = 0 \/ l \in Numbers(out)
  BY LastIsReferenced
<1> HIDE DEF T
<1>6. /\ m \in Nat /\ \A n \in Numbers(out) : n <= m
      /\ Numbers(out) # {} => m \in Numbers(out)
  BY <1>3, MaxPlaceholderNumberIsMax
<1>7. Numbers(out) = {} => m = 0
  BY DEF MaxPlaceholderNumber
<1> HIDE DEF l, m
<1>8. m = l
  <2>1. CASE Numbers(out) = {}
    BY <1>5, <1>7, <2>1
  <2>2. CASE Numbers(out) # {}
    <3>1. m \in 1..l
      BY <1>4, <1>6, <2>2
    <3>2. l \in Numbers(out)
      BY <1>2, <1>5, <3>1
    <3>3. l <= m
      BY <1>6, <3>2
    <3> QED
      BY <1>2, <3>1, <3>3
  <2> QED
    BY <2>1, <2>2
<1> QED
  BY <1>8 DEF StatementMismatch, l, m

(* A number that is rendered finds its argument: an opaque bind has only   *)
(* one number in the statement, and it has not been passed before.         *)
LEMMA ReferenceFits ==
  ASSUME Known, WellFormed, pc = "render", i <= Len(out), IsNumber(out[i])
  PROVE  Available(out[i].number)
<1> DEFINE n == out[i].number
           v == <<Author0, n>>
           S == References(v)
           j == i - 1
<1>1. TypeOK /\ Splicing /\ Rendering /\ SplicingOk /\ ArgumentsOk /\ ~Numbered
  BY DEF Known, IInv, Splicing, Rendering, SplicingOk
<1>2. /\ i \in DOMAIN out /\ Len(out) \in Nat /\ j \in Nat /\ j + 1 = i
      /\ out[i] \in Tokens(Values) \cup KeyTokens
  <2>1. i \in Nat \ {0} /\ out \in Text
    BY <1>1 DEF TypeOK
  <2>2. i \in 1..Len(out) /\ Len(out) \in Nat
    BY <2>1 DEF Text
  <2> QED
    BY <2>1, <2>2 DEF Text
<1>3. n \in DOMAIN Pool /\ Pool[n].means = out[i].means
  BY <1>1, <1>2 DEF SplicingOk, Resolves
<1>4. n \in 1..Len(Pool)
  BY <1>1, <1>3, PoolType
<1>5. ASSUME n \in taken PROVE FALSE
  <2>1. n \in DOMAIN arguments /\ arguments[n].opaque
    BY <1>5 DEF Known, TakenOnce
  <2>2. Occurrences(rendered, BoundTo(v)) = 1
    BY <1>1, <1>5, <2>1 DEF Known, TakenOnce
  <2>3. CountUpTo(out, S, j) = 1
    BY <1>1, <2>1, <2>2 DEF Known, BaseReferenced
  <2>4. Occurrences(out, S) = IF n <= question THEN 1 ELSE 0
    BY <1>1, <2>1 DEF Known, BaseReferenced
  <2>5. out[i].means = v
    BY <1>1, <1>3, <1>4, <2>1, PoolArgumentOnly DEF Known
  <2>6. out[i] \in S
    BY <1>2, <2>5 DEF References, KeyTokens, IsNumber
  <2> HIDE DEF S, v, n, j
  <2>7. CountUpTo(out, S, j + 1) = CountUpTo(out, S, j) + (IF out[j + 1] \in S THEN 1 ELSE 0)
    BY <1>2, CountEach
  <2>8. i \in Nat /\ CountUpTo(out, S, i) = 2
    BY <1>2, <2>3, <2>6, <2>7
  <2>9. CountUpTo(out, S, i) <= CountUpTo(out, S, Len(out))
    BY <1>2, <2>8, CountMore
  <2>10. Occurrences(out, S) = CountUpTo(out, S, Len(out))
    BY DEF Occurrences
  <2>11. Occurrences(out, S) <= 1
    BY <2>4
  <2>12. CountUpTo(out, S, Len(out)) \in Nat
    BY <1>2, CountIsNat
  <2> QED
    BY <2>8, <2>9, <2>10, <2>11, <2>12
<1> QED
  BY <1>4, <1>5 DEF Available

(* So none of compose's returns with an error is taken.                    *)
LEMMA NoErrorNext == Known /\ TypeOK' /\ NoSpuriousError /\ [Next]_vars => NoSpuriousError'
<1>1. ASSUME Known, TypeOK', Next PROVE NoSpuriousError'
  <2> SUFFICES ASSUME pc' = "done", Fits', outcome' # "ok" PROVE FALSE
    BY DEF NoSpuriousError, Fits
  <2>1. pc # "done"
    BY <1>1 DEF Next, Build, Bind, BindValue, PushArgument, WithCursor, PushWhere, PushEither,
       PushOrderBy, Compose, Composing, RejectUnsupported, RejectBase, AcceptBase, ThenOrderBy,
       RejectCursor, AcceptOrdering, AndClause, BoundaryBranch, PanicOnUnsetCursor, WheresRead,
       FinishWhere, SpliceSlot, NumberQuestion, CopyToken, RejectMissingWhere,
       RejectMissingOrderBy, RejectStatement, SlotsFound, BaseScanned, FinishNumbered,
       StartRender, RenderReference, RejectReference, CopyRendered, FinishRender
  <2>2. \/ RejectUnsupported \/ RejectBase \/ RejectCursor \/ PanicOnUnsetCursor
        \/ RejectMissingWhere \/ RejectMissingOrderBy \/ RejectStatement \/ RejectReference
    BY <1>1, <2>1 DEF Next, Build, Bind, BindValue, PushArgument, WithCursor, PushWhere, PushEither,
       PushOrderBy, Compose, Composing, AcceptBase, ThenOrderBy, AcceptOrdering, AndClause,
       BoundaryBranch, FinishWhere, SpliceSlot, NumberQuestion, CopyToken, FinishNumbered,
       StartRender, RenderReference, CopyRendered, FinishRender, Return
  <2>3. UNCHANGED <<builder, pipeline>>
    BY <2>2 DEF RejectUnsupported, RejectBase, RejectCursor, PanicOnUnsetCursor,
       RejectMissingWhere, RejectMissingOrderBy, RejectStatement, RejectReference, Fail
  <2>4. Fits
    BY <2>3 DEF Fits, WellFormed, UnsupportedBase, Placeholders, OrderingDisagrees, Slots,
                builder, pipeline
  <2>5. ~RejectUnsupported /\ ~RejectBase /\ ~RejectCursor /\ ~PanicOnUnsetCursor
    BY <2>4 DEF Fits, RejectUnsupported, RejectBase, RejectCursor, PanicOnUnsetCursor
  <2>6. ~RejectMissingWhere /\ ~RejectMissingOrderBy
    BY <1>1, <2>4, SlotsMet DEF RejectMissingWhere, RejectMissingOrderBy
  <2>7. ~RejectStatement
    BY <1>1, <2>4, StatementFits DEF Fits, RejectStatement
  <2>8. ~RejectReference
    BY <1>1, <2>4, ReferenceFits DEF Fits, RejectReference
  <2> QED
    BY <2>2, <2>5, <2>6, <2>7, <2>8
<1>2. ASSUME NoSpuriousError, UNCHANGED vars PROVE NoSpuriousError'
  BY <1>2 DEF vars, NoSpuriousError, WellFormed, UnsupportedBase, Placeholders,
              OrderingDisagrees, Slots
<1> QED
  BY <1>1, <1>2

(* Nothing has been returned yet.                                          *)
LEMMA NoErrorInit == Init => NoSpuriousError
BY DEF Init, NoSpuriousError

(* A query whose parts fit always composes: for every dialect, and every   *)
(* base query, clause, ordering and cursor, none of compose's later checks *)
(* refuses it.                                                             *)
THEOREM NoSpuriousErrorHolds == Spec => []NoSpuriousError
<1>1. IInv /\ Signed /\ Placed /\ TakenOnce /\ BaseReferenced /\ LastReferenced => Known
  BY DEF Known
<1> QED
  BY <1>1, TypeCorrect, IInvHolds, SignedHolds, PlacedHolds, TakenOnceHolds, BaseReferencedHolds,
     LastReferencedHolds, NoErrorInit, NoErrorNext, PTL DEF Spec
=============================================================================
