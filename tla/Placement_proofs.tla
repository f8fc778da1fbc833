-------------------------- MODULE Placement_proofs ---------------------------
(* Theorems about what a composed statement consists of: the cursor's      *)
(* ordering, and every condition, once per slot.                           *)
EXTENDS BindFidelity_proofs

(* Texts written for some authors stay so when they are shifted, put       *)
(* together or combined.                                                   *)
LEMMA WrittenMore ==
  ASSUME NEW sql, NEW A, NEW B, A \subseteq B, WrittenFor(sql, A)
  PROVE  WrittenFor(sql, B)
BY DEF WrittenFor

(* Two texts by the same authors are one text by them.                     *)
LEMMA WrittenConcat ==
  ASSUME NEW T, NEW a \in Seq(T), NEW b \in Seq(T), NEW A, WrittenFor(a, A), WrittenFor(b, A)
  PROVE  WrittenFor(a \o b, A)
<1>1. \A k \in DOMAIN (a \o b) :
        \/ k \in DOMAIN a /\ (a \o b)[k] = a[k]
        \/ \E j \in DOMAIN b : (a \o b)[k] = b[j]
  BY Concatenated
<1> QED
  BY <1>1 DEF WrittenFor

(* Shifting a text's numbers leaves its authors.                           *)
LEMMA WrittenShift ==
  ASSUME NEW sql \in Seq(Tokens(Values)), NEW offset \in Nat, NEW A, WrittenFor(sql, A)
  PROVE  WrittenFor(ShiftPlaceholderNumbers(sql, offset), A)
<1> DEFINE s == ShiftPlaceholderNumbers(sql, offset)
<1>1. /\ s \in Seq(Tokens(Values)) /\ Len(s) = Len(sql)
      /\ \A k \in 1..Len(sql) : s[k].means = sql[k].means
  BY ShiftText
<1>2. \A k \in DOMAIN sql : s[k].kind = sql[k].kind
  BY DEF ShiftPlaceholderNumbers, Token, IsNumber
<1> HIDE DEF s
<1>3. DOMAIN s = 1..Len(sql) /\ DOMAIN sql = 1..Len(sql)
  BY <1>1
<1>4. WrittenFor(s, A)
  BY <1>1, <1>2, <1>3 DEF WrittenFor
<1> QED
  BY <1>4 DEF s

(* And so does combining two clauses.                                      *)
LEMMA WrittenCombine ==
  ASSUME NEW f \in Fragments, NEW g \in Fragments, NEW A,
         WrittenFor(f.sql, A), WrittenFor(g.sql, A), Foreign(f.values), Foreign(g.values)
  PROVE  WrittenFor(Combine(f, g).sql, A) /\ Foreign(Combine(f, g).values)
<1> DEFINE m == MaxPlaceholderNumber(f.sql)
           s == ShiftPlaceholderNumbers(g.sql, m)
<1>1. /\ f.sql \in Seq(Tokens(Values)) /\ g.sql \in Seq(Tokens(Values))
      /\ f.values \in Seq(Values) /\ g.values \in Seq(Values)
  BY DEF Fragments
<1>2. m \in Nat
  <2>1. \A k \in DOMAIN f.sql : f.sql[k] \in Tokens(Values)
    BY <1>1
  <2>2. \A k \in DOMAIN f.sql : f.sql[k].number \in Nat
    BY <2>1 DEF Tokens
  <2> QED
    BY <1>1, <2>2, MaxPlaceholderNumberIsMax
<1> HIDE DEF m
<1>3. s \in Seq(Tokens(Values)) /\ WrittenFor(s, A)
  BY <1>1, <1>2, ShiftText, WrittenShift
<1> HIDE DEF s
<1>4. WrittenFor(f.sql \o s, A)
  BY <1>1, <1>3, WrittenConcat
<1>5. Foreign(f.values \o g.values)
  <2> DEFINE v == f.values
             w == g.values
  <2>1. v \in Seq(Values) /\ w \in Seq(Values)
    BY <1>1
  <2> HIDE DEF v, w
  <2>2. \A k \in DOMAIN (v \o w) :
          \/ k \in DOMAIN v /\ (v \o w)[k] = v[k]
          \/ \E j \in DOMAIN w : (v \o w)[k] = w[j]
    BY <2>1, Concatenated
  <2> QED
    BY <2>2 DEF Foreign, v, w
<1>6. /\ Combine(f, g).sql \in {f.sql, g.sql, f.sql \o s}
      /\ Combine(f, g).values \in {f.values, g.values, f.values \o g.values}
  BY DEF Combine, Fragment, s, m
<1> QED
  BY <1>4, <1>5, <1>6

-----------------------------------------------------------------------------
(* What is pushed is signed by its author, in both ways of pushing.        *)
LEMMA AuthorSigned ==
  ASSUME NEW c \in Clauses, NEW a \in Nat, a # Author0
  PROVE  /\ Author(c, a) \in Fragments
         /\ WrittenFor(Author(c, a).sql, {a}) /\ Foreign(Author(c, a).values)
<1>1. c \in [text : ClauseTexts, bound : Nat]
  BY InputsAssumption
<1> QED
  BY <1>1, AuthorType, AuthorCounts DEF Foreign

(* A pushed clause is signed by its author, who is new.                    *)
LEMMA SignedPush ==
  ASSUME TypeOK, Signed, \/ \E c \in Clauses : PushWhere(c)
                         \/ \E c, d \in Clauses : PushEither(c, d)
  PROVE  FragmentsSigned' /\ Pushers \subseteq Pushers'
<1> DEFINE n == Len(authored)
<1>1. n \in Nat /\ authored \in Seq(Clauses) /\ where_by \in Seq(Fragments)
  BY DEF TypeOK
<1>2. \E f \in Fragments : /\ where_by' = Append(where_by, f)
                           /\ WrittenFor(f.sql, Pushers') /\ Foreign(f.values)
                           /\ Pushers \subseteq Pushers'
  <2>1. ASSUME NEW c \in Clauses, PushWhere(c)
        PROVE  \E f \in Fragments : /\ where_by' = Append(where_by, f)
                                    /\ WrittenFor(f.sql, Pushers') /\ Foreign(f.values)
                                    /\ Pushers \subseteq Pushers'
    <3>1. where_by' = Append(where_by, Author(c, n + 2)) /\ Len(authored') = n + 1
      BY <1>1, <2>1 DEF PushWhere
    <3>2. n + 2 \in Nat /\ n + 2 # Author0 /\ n + 2 \in Pushers' /\ Pushers \subseteq Pushers'
      BY <1>1, <3>1 DEF Pushers, Author0
    <3> HIDE DEF n
    <3>3. /\ Author(c, n + 2) \in Fragments
          /\ WrittenFor(Author(c, n + 2).sql, {n + 2}) /\ Foreign(Author(c, n + 2).values)
      BY <3>2, AuthorSigned
    <3>4. WrittenFor(Author(c, n + 2).sql, Pushers')
      BY <3>2, <3>3, WrittenMore
    <3> QED
      BY <3>1, <3>2, <3>3, <3>4
  <2>2. ASSUME NEW c \in Clauses, NEW d \in Clauses, PushEither(c, d)
        PROVE  \E f \in Fragments : /\ where_by' = Append(where_by, f)
                                    /\ WrittenFor(f.sql, Pushers') /\ Foreign(f.values)
                                    /\ Pushers \subseteq Pushers'
    <3> DEFINE f == Author(c, n + 2)
               g == Author(d, n + 3)
    <3>1. where_by' = Append(where_by, Combine(f, g)) /\ Len(authored') = n + 2
      BY <1>1, <2>2 DEF PushEither
    <3>2. /\ n + 2 \in Nat /\ n + 2 # Author0 /\ n + 2 \in Pushers' /\ Pushers \subseteq Pushers'
          /\ n + 3 \in Nat /\ n + 3 # Author0 /\ n + 3 \in Pushers'
      BY <1>1, <3>1 DEF Pushers, Author0
    <3> HIDE DEF n
    <3>3. /\ f \in Fragments /\ WrittenFor(f.sql, {n + 2}) /\ Foreign(f.values)
          /\ g \in Fragments /\ WrittenFor(g.sql, {n + 3}) /\ Foreign(g.values)
      BY <3>2, AuthorSigned
    <3> HIDE DEF f, g
    <3>4. WrittenFor(f.sql, Pushers') /\ WrittenFor(g.sql, Pushers')
      BY <3>2, <3>3, WrittenMore
    <3>5. /\ Combine(f, g) \in Fragments
          /\ WrittenFor(Combine(f, g).sql, Pushers') /\ Foreign(Combine(f, g).values)
      BY <3>3, <3>4, CombineType, WrittenCombine
    <3> QED
      BY <3>1, <3>2, <3>5
  <2> QED
    BY <2>1, <2>2
<1>3. PICK f \in Fragments : /\ where_by' = Append(where_by, f)
                             /\ WrittenFor(f.sql, Pushers') /\ Foreign(f.values)
                             /\ Pushers \subseteq Pushers'
  BY <1>2
<1>4. \A w \in DOMAIN where_by' :
        (w \in DOMAIN where_by /\ where_by'[w] = where_by[w]) \/ where_by'[w] = f
  BY <1>1, <1>3, Appended
<1>5. \A w \in DOMAIN where_by :
        WrittenFor(where_by[w].sql, Pushers') /\ Foreign(where_by[w].values)
  BY <1>3, WrittenMore DEF Signed, FragmentsSigned
<1>6. FragmentsSigned'
  BY <1>3, <1>4, <1>5 DEF FragmentsSigned
<1> QED
  BY <1>3, <1>6

(* A step of the builder, and of compose() up to the combined clause.      *)
LEMMA SignedBuild ==
  ASSUME TypeOK, TypeOK', Signed, Build
  PROVE  Signed'
<1>1. /\ pc = "build" /\ pc' \in {"build", "base"} /\ UNCHANGED <<base, pipeline, outcome>>
  BY DEF Build, Bind, BindValue, PushArgument, WithCursor, PushWhere, PushEither, PushOrderBy,
         Compose, TypeOK, builder
<1>2. Gathering /\ Gathering' /\ Branches = 0 /\ Branches' = 0
  BY <1>1 DEF Gathering, Branches
<1>3. FragmentsSigned' /\ Pushers \subseteq Pushers'
  <2>1. CASE \/ \E c \in Clauses : PushWhere(c)
             \/ \E c, d \in Clauses : PushEither(c, d)
    BY <2>1, SignedPush
  <2>2. CASE UNCHANGED <<where_by, authored>>
    BY <2>2 DEF Signed, FragmentsSigned, Pushers
  <2> QED
    BY <2>1, <2>2 DEF Build, Bind, BindValue, PushArgument, WithCursor, PushOrderBy,
                      Compose, builder
<1>4. ClauseSigned'
  <2>1. WrittenFor(acc.sql, Pushers) /\ Foreign(acc.values)
    BY <1>2 DEF Signed, ClauseSigned
  <2>2. WrittenFor(acc.sql, Pushers')
    BY <1>3, <2>1, WrittenMore
  <2> QED
    BY <1>1, <1>2, <2>1, <2>2 DEF ClauseSigned, pipeline
<1>5. BoundarySigned'
  BY <1>1, <1>2, CursorNext DEF Signed, BoundarySigned, pipeline
<1>6. NothingSpliced'
  BY <1>1, <1>2 DEF Signed, NothingSpliced, pipeline
<1> QED
  BY <1>3, <1>4, <1>5, <1>6 DEF Signed

(* The lengths of the first m + 1 branches.                                *)
LEMMA Triangle ==
  ASSUME NEW l \in Nat, NEW m \in Nat, 2 * l = m * (m + 1)
  PROVE  2 * (l + (m + 1)) = (m + 1) * ((m + 1) + 1)
OBVIOUS

(* The cursor's clause grows by a branch as long as its number.            *)
LEMMA SignedBranch ==
  ASSUME TypeOK, Signed, BoundaryBranch
  PROVE  BoundarySigned'
<1> DEFINE b == Branches + 1
<1>1. /\ Len(where_by) \in Nat /\ Len(cursor.keys) \in Nat /\ i \in Nat
      /\ boundary \in Seq(Tokens(Values)) /\ Len(boundary) \in Nat
  BY CursorType DEF TypeOK
<1>2. /\ Branches \in Nat /\ Branches = i - 1 - Len(where_by)
      /\ Branches' = b /\ b <= Len(cursor.keys)
      /\ boundary' = boundary \o Branch(b) /\ cursor' = cursor
  BY <1>1 DEF BoundaryBranch, Branches, builder
<1>3. b \in Nat /\ b = Branches + 1
  BY <1>2
<1> HIDE DEF b
<1>4. /\ Branch(b) \in Seq(Tokens(Values)) /\ Len(Branch(b)) = b
      /\ \A j \in 1..b : Branch(b)[j] = Token("number", j, <<AuthorCursor, j>>)
  BY <1>3, BranchType
<1>5. \A j \in DOMAIN Branch(b) : Branch(b)[j].kind # "key" /\ Branch(b)[j].means[1] = AuthorCursor
  <2>1. \A j \in 1..b : /\ Token("number", j, <<AuthorCursor, j>>).kind # "key"
                        /\ Token("number", j, <<AuthorCursor, j>>).means[1] = AuthorCursor
    BY DEF Token
  <2>2. DOMAIN Branch(b) = 1..b
    BY <1>4
  <2>3. \A j \in 1..b : Branch(b)[j] = Token("number", j, <<AuthorCursor, j>>)
    BY <1>4
  <2> QED
    BY <2>1, <2>2, <2>3
<1>6. WrittenFor(Branch(b), {AuthorCursor}) /\ WrittenFor(boundary, {AuthorCursor})
  BY <1>5 DEF WrittenFor, Signed, BoundarySigned
<1>7. WrittenFor(boundary', {AuthorCursor})
  BY <1>1, <1>2, <1>4, <1>6, WrittenConcat
<1>8. Gathering /\ 2 * Len(boundary) = Branches * (Branches + 1)
  BY DEF Signed, BoundarySigned, Gathering, BoundaryBranch
<1>9. Len(boundary') = Len(boundary) + b
  BY <1>1, <1>2, <1>4, Concatenation
<1>10. 2 * Len(boundary') = Branches' * (Branches' + 1)
  <2>1. 2 * (Len(boundary) + b) = b * (b + 1)
    BY <1>1, <1>2, <1>3, <1>8, Triangle
  <2> QED
    BY <1>2, <1>9, <2>1
<1> QED
  BY <1>1, <1>2, <1>3, <1>7, <1>10 DEF BoundarySigned

(* Gathering the parts of the statement keeps the signatures.              *)
LEMMA SignedGather ==
  ASSUME TypeOK, TypeOK', Signed,
         AcceptBase \/ ThenOrderBy \/ AcceptOrdering \/ AndClause \/ BoundaryBranch
  PROVE  Signed'
<1>1. /\ pc \in {"base", "order", "where"} /\ pc' \in {"order", "where"}
      /\ UNCHANGED <<builder, out, question, spliced, taken, marks, rendered>>
  BY DEF AcceptBase, ThenOrderBy, AcceptOrdering, AndClause, BoundaryBranch, TypeOK
<1>2. Gathering /\ Gathering'
  BY <1>1 DEF Gathering
<1>3. FragmentsSigned' /\ Pushers' = Pushers
  BY <1>1 DEF Signed, FragmentsSigned, Pushers, builder
<1>4. ClauseSigned'
  <2>1. WrittenFor(acc.sql, Pushers) /\ Foreign(acc.values)
    BY <1>2 DEF Signed, ClauseSigned
  <2>2. WrittenFor(acc'.sql, Pushers) /\ Foreign(acc'.values)
    <3>1. CASE AndClause
      <4>1. where_by[i] \in Fragments /\ acc \in Fragments /\ i \in DOMAIN where_by
        BY <3>1 DEF AndClause, TypeOK
      <4>2. WrittenFor(where_by[i].sql, Pushers) /\ Foreign(where_by[i].values)
        BY <4>1 DEF Signed, FragmentsSigned
      <4> QED
        BY <2>1, <3>1, <4>1, <4>2, WrittenCombine DEF AndClause
    <3>2. CASE acc' = acc
      BY <2>1, <3>2
    <3> QED
      BY <3>1, <3>2 DEF AcceptBase, ThenOrderBy, AcceptOrdering, BoundaryBranch
  <2> QED
    BY <1>2, <1>3, <2>2 DEF ClauseSigned
<1>5. BoundarySigned'
  <2>1. CASE BoundaryBranch
    BY <2>1, SignedBranch
  <2>2. CASE AcceptBase \/ ThenOrderBy \/ AcceptOrdering \/ AndClause
    <3>1. Len(where_by) \in Nat /\ i \in Nat \ {0}
      BY DEF TypeOK
    <3>2. Branches = 0 /\ Branches' = 0 /\ boundary' = boundary /\ cursor' = cursor
      BY <2>2, <3>1 DEF AcceptBase, ThenOrderBy, AcceptOrdering, AndClause, Branches, builder
    <3> QED
      BY <1>2, <3>2 DEF Signed, BoundarySigned
  <2> QED
    BY <2>1, <2>2
<1>6. NothingSpliced'
  BY <1>1, <1>2 DEF Signed, NothingSpliced
<1> QED
  BY <1>3, <1>4, <1>5, <1>6 DEF Signed

(* The combined clause is signed by the pushed clauses' authors and the    *)
(* cursor.                                                                 *)
LEMMA SignedFinishWhere ==
  ASSUME TypeOK, Signed, FinishWhere
  PROVE  Signed'
<1>1. /\ pc = "where" /\ pc' = "splice"
      /\ UNCHANGED <<builder, boundary, out, question, spliced, taken, marks, rendered>>
  BY DEF FinishWhere, WheresRead
<1>2. Gathering /\ ~Gathering'
  BY <1>1 DEF Gathering
<1>3. FragmentsSigned' /\ Pushers' = Pushers
  BY <1>1 DEF Signed, FragmentsSigned, Pushers, builder
<1>4. ClauseSigned'
  <2> DEFINE A == Pushers \cup {AuthorCursor}
             f == Combine(acc, CursorClause)
  <2>1. /\ acc \in Fragments /\ CursorClause \in Fragments /\ CursorClause.sql = boundary
        /\ Len(CursorClause.values) = Len(cursor.keys) /\ Len(cursor.keys) \in Nat
        /\ \A j \in 1..Len(cursor.keys) : CursorClause.values[j] = <<AuthorCursor, j>>
    BY CursorClauseType, CursorType DEF TypeOK
  <2>2. Foreign(CursorClause.values)
    <3>1. DOMAIN CursorClause.values = 1..Len(cursor.keys)
      BY <2>1 DEF Fragments
    <3> QED
      BY <2>1, <3>1 DEF Foreign, AuthorCursor, Author0
  <2>3. WrittenFor(acc.sql, A) /\ WrittenFor(boundary, A) /\ Foreign(acc.values)
    <3>1. WrittenFor(acc.sql, Pushers) /\ WrittenFor(boundary, {AuthorCursor}) /\ Foreign(acc.values)
      BY <1>2 DEF Signed, ClauseSigned, BoundarySigned
    <3> QED
      BY <3>1, WrittenMore
  <2> HIDE DEF A
  <2>4. f \in Fragments /\ WrittenFor(f.sql, A) /\ Foreign(f.values)
    BY <2>1, <2>2, <2>3, CombineType, WrittenCombine
  <2> HIDE DEF f
  <2>5. acc' = Shift(f, Placeholders) /\ Placeholders \in Nat
    BY PlaceholdersType DEF FinishWhere, f
  <2>6. acc'.sql = ShiftPlaceholderNumbers(f.sql, Placeholders) /\ acc'.values = f.values
    BY <2>4, <2>5, ShiftType
  <2>7. WrittenFor(acc'.sql, A)
    BY <2>4, <2>5, <2>6, WrittenShift DEF Fragments
  <2> QED
    BY <1>2, <1>3, <2>4, <2>6, <2>7 DEF ClauseSigned, A
<1>5. BoundarySigned' /\ NothingSpliced'
  BY <1>1, <1>2 DEF Signed, BoundarySigned, NothingSpliced
<1> QED
  BY <1>3, <1>4, <1>5 DEF Signed

(* The other steps leave all that is signed alone.                         *)
LEMMA SignedLater ==
  ASSUME TypeOK, Signed,
         \/ \E e \in Errors : Fail(e)
         \/ SpliceSlot \/ NumberQuestion \/ CopyToken
         \/ FinishNumbered \/ StartRender \/ RenderReference \/ CopyRendered \/ FinishRender
  PROVE  Signed'
<1>1. /\ UNCHANGED <<builder, boundary, acc>> /\ ~Gathering'
      /\ pc' = "splice" => pc = "splice" /\ UNCHANGED <<taken, marks, rendered>>
  BY DEF SpliceSlot, NumberQuestion, CopyToken, FinishNumbered, StartRender, RenderReference,
         CopyRendered, FinishRender, Fail, Return, pipeline, Gathering
<1>2. FragmentsSigned' /\ Pushers' = Pushers
  BY <1>1 DEF Signed, FragmentsSigned, Pushers, builder
<1>3. ClauseSigned'
  <2>1. WrittenFor(acc.sql, Pushers \cup (IF Gathering THEN {} ELSE {AuthorCursor}))
        /\ Foreign(acc.values)
    BY DEF Signed, ClauseSigned
  <2>2. WrittenFor(acc.sql, Pushers \cup {AuthorCursor})
    BY <2>1 DEF WrittenFor
  <2> QED
    BY <1>1, <1>2, <2>1, <2>2 DEF ClauseSigned
<1>4. BoundarySigned' /\ NothingSpliced'
  BY <1>1 DEF Signed, BoundarySigned, NothingSpliced
<1> QED
  BY <1>2, <1>3, <1>4 DEF Signed

(* Nothing is signed before anything is written.                           *)
LEMMA SignedInit == Init => Signed
<1> SUFFICES ASSUME Init PROVE Signed
  OBVIOUS
<1>1. Gathering /\ Branches = 0
  BY DEF Init, Gathering, Branches
<1>2. FragmentsSigned /\ NothingSpliced
  BY DEF Init, FragmentsSigned, NothingSpliced
<1>3. acc.sql = << >> /\ acc.values = << >>
  BY DEF Init, EmptyClause, Fragment
<1>4. ClauseSigned
  BY <1>3 DEF ClauseSigned, WrittenFor, Foreign
<1>5. BoundarySigned
  BY <1>1, TypeInit, CursorType DEF Init, BoundarySigned, WrittenFor
<1> QED
  BY <1>2, <1>4, <1>5 DEF Signed

(* The signatures are inductive.                                           *)
LEMMA SignedNext == TypeOK /\ TypeOK' /\ Signed /\ [Next]_vars => Signed'
<1>1. ASSUME TypeOK, TypeOK', Signed, Next PROVE Signed'
  <2>1. CASE Build
    BY <1>1, <2>1, SignedBuild
  <2>2. CASE AcceptBase \/ ThenOrderBy \/ AcceptOrdering \/ AndClause \/ BoundaryBranch
    BY <1>1, <2>2, SignedGather
  <2>3. CASE FinishWhere
    BY <1>1, <2>3, SignedFinishWhere
  <2>4. CASE \/ \E e \in Errors : Fail(e)
             \/ SpliceSlot \/ NumberQuestion \/ CopyToken
             \/ FinishNumbered \/ StartRender \/ RenderReference \/ CopyRendered \/ FinishRender
    BY <1>1, <2>4, SignedLater
  <2> QED
    BY <1>1, <2>1, <2>2, <2>3, <2>4
    DEF Next, Composing, RejectUnsupported, RejectBase, RejectCursor, PanicOnUnsetCursor,
        RejectMissingWhere, RejectMissingOrderBy, RejectStatement, RejectReference, Errors
<1>2. ASSUME Signed, UNCHANGED vars PROVE Signed'
  BY <1>2 DEF vars, Signed, FragmentsSigned, ClauseSigned, BoundarySigned, NothingSpliced,
              Gathering, Branches, Pushers
<1> QED
  BY <1>1, <1>2

(* Every part of a statement is signed, throughout.                        *)
THEOREM SignedHolds == Spec => []Signed
<1> QED
  BY TypeCorrect, SignedInit, SignedNext, PTL DEF Spec

-----------------------------------------------------------------------------
(* The slots met are finitely many; a step of the loop over the base       *)
(* query's tokens meets the slot it is at, and no other.                   *)
LEMMA MetFinite ==
  ASSUME TypeOK, NEW name
  PROVE  /\ IsFiniteSet(Slots(name)) /\ Cardinality(Slots(name)) \in Nat
         /\ IsFiniteSet(Met(name)) /\ Cardinality(Met(name)) \in Nat
<1>1. DOMAIN base = 1..Len(base) /\ Len(base) \in Nat
  BY BaseType DEF TypeOK
<1>2. IsFiniteSet(1..Len(base)) /\ Slots(name) \subseteq 1..Len(base)
  BY <1>1, FS_Interval DEF Slots
<1>3. IsFiniteSet(Slots(name)) /\ Met(name) \subseteq Slots(name)
  BY <1>2, FS_Subset DEF Met
<1>4. IsFiniteSet(Met(name))
  BY <1>3, FS_Subset
<1> QED
  BY <1>3, <1>4, FS_CardinalityType

(* The loop meets the slot that it stands on, and no other.                *)
LEMMA MetStep ==
  ASSUME TypeOK, SpliceSlot \/ NumberQuestion \/ CopyToken, NEW name
  PROVE  /\ IsSlot(base[i]) /\ base[i].name = name =>
              Met(name)' # {} /\ Cardinality(Met(name)') = Cardinality(Met(name)) + 1
         /\ ~(IsSlot(base[i]) /\ base[i].name = name) => Met(name)' = Met(name)
<1>1. /\ pc = "splice" /\ pc' = "splice" /\ i' = i + 1 /\ i <= Len(base) /\ base' = base
      /\ i \in Nat \ {0} /\ DOMAIN base = 1..Len(base) /\ Len(base) \in Nat
  BY BaseType DEF SpliceSlot, NumberQuestion, CopyToken, TypeOK, builder
<1>2. /\ Met(name) = {k \in Slots(name) : k < i} /\ Met(name)' = {k \in Slots(name) : k < i + 1}
      /\ Slots(name) \subseteq Nat
  BY <1>1 DEF Met, Slots
<1>3. i \in Slots(name) <=> IsSlot(base[i]) /\ base[i].name = name
  BY <1>1 DEF Slots
<1>4. CASE i \in Slots(name)
  <2>1. Met(name)' = Met(name) \cup {i} /\ i \notin Met(name)
    BY <1>1, <1>2, <1>4
  <2>2. IsFiniteSet(Met(name)) /\ Cardinality(Met(name)) \in Nat
    BY MetFinite
  <2>3. Cardinality(Met(name) \cup {i}) = Cardinality(Met(name)) + 1
    BY <2>1, <2>2, FS_AddElement
  <2> QED
    BY <1>3, <1>4, <2>1, <2>3
<1>5. CASE i \notin Slots(name)
  <2>1. Met(name)' = Met(name)
    BY <1>1, <1>2, <1>5
  <2> QED
    BY <1>3, <1>5, <2>1
<1> QED
  BY <1>4, <1>5

(* Before the loop no slot has been met, and behind it all of them.        *)
LEMMA MetNone ==
  ASSUME TypeOK, FinishWhere, NEW name
  PROVE  Met(name)' = {}
<1>1. /\ pc' = "splice" /\ i' = 1 /\ base' = base /\ DOMAIN base = 1..Len(base)
  BY BaseType DEF FinishWhere, TypeOK, builder
<1> QED
  BY <1>1 DEF Met, Slots

(* The loop over the base query's tokens is through.                       *)
Scanned == (pc = "splice" /\ i > Len(base)) \/ (pc # "splice")
(* Behind the loop, every slot has been met.                               *)
LEMMA MetAll ==
  ASSUME TypeOK, Scanned, NEW name
  PROVE  Met(name) = Slots(name)
<1>1. DOMAIN base = 1..Len(base) /\ Len(base) \in Nat /\ i \in Nat
  BY BaseType DEF TypeOK
<1> QED
  BY <1>1 DEF Met, Slots, Scanned

(* Rendering meets no slot.                                                *)
LEMMA MetSame ==
  ASSUME TypeOK, NEW name,
         FinishNumbered \/ StartRender \/ RenderReference \/ CopyRendered \/ FinishRender
  PROVE  Met(name)' = Met(name) /\ Met(name) = Slots(name)
<1>1. Scanned /\ pc' # "splice" /\ base' = base
  BY DEF FinishNumbered, StartRender, RenderReference, CopyRendered, FinishRender, Scanned,
         SlotsFound, BaseScanned, Return, builder
<1>2. Met(name)' = Slots(name)
  BY <1>1 DEF Met, Slots
<1> QED
  BY <1>1, <1>2, MetAll

-----------------------------------------------------------------------------
(* A text without sort keys may follow; the ordering's keys are one run    *)
(* more.                                                                   *)
LEMMA RunsSame ==
  ASSUME NEW sql \in Text, NEW m \in Nat, NEW keys \in Seq(Keys), InRuns(sql, m, keys),
         NEW t \in Text, \A k \in DOMAIN t : t[k] \notin SortKeys
  PROVE  InRuns(sql \o t, m, keys)
<1> DEFINE T == Tokens(Values) \cup KeyTokens
           S == SortKeys
<1>1. sql \in Seq(T) /\ t \in Seq(T)
  BY DEF Text
<1> HIDE DEF T, S
<1>2. /\ \A k \in 0..Len(sql) : CountUpTo(sql \o t, S, k) = CountUpTo(sql, S, k)
      /\ Occurrences(sql \o t, S) = Occurrences(sql, S) + Occurrences(t, S)
  BY <1>1, CountFirst, CountSecond, CountSum
<1>3. Len(t) \in Nat /\ DOMAIN t = 1..Len(t) /\ Len(sql) \in Nat /\ DOMAIN sql = 1..Len(sql)
  BY <1>1
<1>4. Occurrences(t, S) = 0
  BY <1>3, CountNone DEF Occurrences, S
<1>5. Occurrences(sql \o t, S) = m * Len(keys)
  <2>1. Occurrences(sql, S) = m * Len(keys) /\ Occurrences(sql, S) \in Nat
    BY <1>1, CountNat DEF InRuns, S
  <2> QED
    BY <1>2, <1>4, <2>1
<1>6. ASSUME NEW k \in DOMAIN (sql \o t), (sql \o t)[k] \in S
      PROVE  \E c \in 0..m, j \in 1..Len(keys) :
               CountUpTo(sql \o t, S, k) = c * Len(keys) + j /\ (sql \o t)[k].means = keys[j]
  <2>1. k \in DOMAIN sql /\ (sql \o t)[k] = sql[k]
    BY <1>1, <1>6, Concatenated DEF S
  <2>2. CountUpTo(sql \o t, S, k) = CountUpTo(sql, S, k)
    BY <1>2, <1>3, <2>1
  <2>3. \E c \in 0..m, j \in 1..Len(keys) :
          CountUpTo(sql, S, k) = c * Len(keys) + j /\ sql[k].means = keys[j]
    BY <1>6, <2>1 DEF InRuns, S
  <2> QED
    BY <2>1, <2>2, <2>3
<1> QED
  BY <1>5, <1>6 DEF InRuns, S

(* A text with m runs of the keys and one run behind it has m + 1.         *)
LEMMA RunsMore ==
  ASSUME NEW sql \in Text, NEW m \in Nat, NEW keys \in Seq(Keys), InRuns(sql, m, keys),
         NEW t \in Text, Len(t) = Len(keys),
         \A k \in 1..Len(keys) : t[k] \in SortKeys /\ t[k].means = keys[k]
  PROVE  InRuns(sql \o t, m + 1, keys)
<1> DEFINE T == Tokens(Values) \cup KeyTokens
           S == SortKeys
           n == Len(keys)
           l == Len(sql)
<1>1. sql \in Seq(T) /\ t \in Seq(T) /\ n \in Nat /\ l \in Nat
  BY DEF Text
<1>2. Len(t) = n /\ DOMAIN t = 1..n /\ DOMAIN sql = 1..l
  BY <1>1
<1> HIDE DEF T, S
<1>13. /\ (sql \o t) \in Seq(T) /\ Len(sql \o t) = Len(sql) + Len(t)
       /\ \A k \in 1..Len(sql) : (sql \o t)[k] = sql[k]
       /\ \A k \in 1..Len(t) : (sql \o t)[Len(sql) + k] = t[k]
       /\ \A k \in 0..Len(sql) : CountUpTo(sql \o t, S, k) = CountUpTo(sql, S, k)
       /\ \A k \in 0..Len(t) :
            CountUpTo(sql \o t, S, Len(sql) + k) = Occurrences(sql, S) + CountUpTo(t, S, k)
       /\ Occurrences(sql \o t, S) = Occurrences(sql, S) + Occurrences(t, S)
  <2>1. Joins(sql, t, T, S)
    BY <1>1, Joined
  <2> QED
    BY <2>1 DEF Joins
<1>4. \A k \in 1..n : t[k] \in S
  BY DEF S
<1>12. Len(sql) = l
  OBVIOUS
<1>6. Occurrences(sql, S) = m * n
  BY DEF InRuns, S
<1> HIDE DEF n, l
<1>3. /\ Len(sql \o t) = l + n /\ (sql \o t) \in Seq(T)
      /\ \A k \in 1..n : (sql \o t)[l + k] = t[k]
      /\ \A k \in 1..l : (sql \o t)[k] = sql[k]
  BY <1>2, <1>12, <1>13
<1>5. DOMAIN (sql \o t) = 1..(l + n)
  BY <1>3
<1>7. \A k \in 0..n : CountUpTo(t, S, k) = k
  BY <1>1, <1>4, CountAll
<1>8. Occurrences(t, S) = n
  BY <1>1, <1>2, <1>7 DEF Occurrences
<1>9. m * n \in Nat /\ (m + 1) * n = m * n + n
  BY <1>1
<1>10. Occurrences(sql \o t, S) = (m + 1) * n
  BY <1>6, <1>8, <1>9, <1>13
<1>11. ASSUME NEW k \in DOMAIN (sql \o t), (sql \o t)[k] \in S
       PROVE  \E c \in 0..(m + 1), j \in 1..n :
                CountUpTo(sql \o t, S, k) = c * n + j /\ (sql \o t)[k].means = keys[j]
  <2>1. CASE k \in 1..l
    <3>1. (sql \o t)[k] = sql[k]
      BY <1>3, <2>1
    <3>2. CountUpTo(sql \o t, S, k) = CountUpTo(sql, S, k)
      <4>1. \A m0 \in 0..Len(sql) : CountUpTo(sql \o t, S, m0) = CountUpTo(sql, S, m0)
        BY <1>13
      <4>2. k \in 0..Len(sql)
        BY <1>1, <1>12, <2>1
      <4> QED
        BY <4>1, <4>2
    <3>3. PICK c \in 0..m, j \in 1..n :
            CountUpTo(sql, S, k) = c * n + j /\ sql[k].means = keys[j]
      BY <1>2, <1>11, <2>1, <3>1 DEF InRuns, S, n
    <3>4. c \in 0..(m + 1)
      OBVIOUS
    <3> QED
      BY <3>1, <3>2, <3>3, <3>4
  <2>2. CASE k \notin 1..l
    <3> DEFINE j == k - l
    <3>1. j \in 1..n /\ k = l + j /\ j \in 0..Len(t)
      BY <1>1, <1>2, <1>5, <2>2
    <3> HIDE DEF j
    <3>2. (sql \o t)[k] = t[j] /\ t[j].means = keys[j]
      BY <1>3, <3>1 DEF n
    <3>3. CountUpTo(sql \o t, S, k) = m * n + j
      <4>1. CountUpTo(sql \o t, S, l + j) = Occurrences(sql, S) + CountUpTo(t, S, j)
        BY <1>12, <1>13, <3>1
      <4>2. CountUpTo(t, S, j) = j
        BY <1>2, <1>7, <3>1
      <4> QED
        BY <1>6, <3>1, <4>1, <4>2
    <3>4. m \in 0..(m + 1)
      OBVIOUS
    <3> QED
      BY <3>1, <3>2, <3>3, <3>4
  <2> QED
    BY <2>1, <2>2
<1> QED
  BY <1>10, <1>11 DEF InRuns, S, n

(* A step of the loop over the base query's tokens appends either what is  *)
(* spliced into the slot it is at, or a token of the base query.           *)
LEMMA SpliceStep ==
  ASSUME TypeOK, SpliceSlot \/ NumberQuestion \/ CopyToken
  PROVE  \E t \in Text : /\ out' = out \o t
                         /\ IsSlot(base[i]) => t = Spliced(base[i].name)
                         /\ ~IsSlot(base[i]) => WrittenFor(t, {Author0})
<1>1. i \in 1..Len(base) /\ out \in Text
  BY BaseType DEF SpliceSlot, NumberQuestion, CopyToken, TypeOK
<1>2. base[i] \in BaseTokens /\ (~IsSlot(base[i]) => base[i] \in ClauseTokens)
  BY <1>1, BaseType DEF TypeOK
<1>3. CASE SpliceSlot
  BY <1>3, SplicedType DEF SpliceSlot
<1>4. CASE NumberQuestion \/ CopyToken
  <2>1. ~IsSlot(base[i])
    BY <1>4 DEF NumberQuestion, CopyToken, IsSlot, IsQuestion
  <2>2. \E x \in Tokens(Values) : /\ out' = Append(out, x)
                                  /\ x.kind # "key" /\ x.means[1] = Author0
    <3>1. CASE NumberQuestion
      <4> DEFINE q == Cardinality(QuestionsUpTo(base, i))
      <4>1. q \in Nat /\ QuestionNumber \in Nat
        BY <1>1, QuestionsCounted DEF TypeOK, QuestionNumber
      <4> HIDE DEF q
      <4> DEFINE x == Token("number", QuestionNumber, <<Author0, q>>)
      <4>2. x \in Tokens(Values) /\ x.kind # "key" /\ x.means[1] = Author0
        BY <4>1 DEF Token, Tokens, Kinds, Values, Author0
      <4>3. out' = Append(out, x)
        BY <3>1 DEF NumberQuestion, q
      <4> QED
        BY <4>2, <4>3
    <3>2. CASE CopyToken
      <4> DEFINE x == Token(base[i].kind, base[i].number, <<Author0, base[i].number>>)
      <4>1. x \in Tokens(Values) /\ x.kind # "key" /\ x.means[1] = Author0
        BY <1>2, <2>1 DEF ClauseTokens, Token, Tokens, Kinds, Values, Author0
      <4>2. out' = Append(out, x)
        BY <3>2 DEF CopyToken
      <4> QED
        BY <4>1, <4>2
    <3> QED
      BY <1>4, <3>1, <3>2
  <2>3. PICK x \in Tokens(Values) : /\ out' = Append(out, x)
                                    /\ x.kind # "key" /\ x.means[1] = Author0
    BY <2>2
  <2>4. x \in Tokens(Values) \cup KeyTokens
    OBVIOUS
  <2>5. <<x>> \in Text /\ WrittenFor(<<x>>, {Author0})
    BY <2>3, <2>4 DEF Text, WrittenFor
  <2>6. Append(out, x) = out \o <<x>>
    BY <1>1, <2>4, AppendIsConcat DEF Text
  <2> QED
    BY <2>1, <2>3, <2>5, <2>6
<1> QED
  BY <1>3, <1>4

(* Only an order_by slot holds sort keys: those of the ordering, in order. *)
LEMMA SplicedKeys ==
  ASSUME TypeOK, Signed, NEW name
  PROVE  IF name = "order_by"
         THEN /\ Len(Spliced(name)) = Len(ordering)
              /\ \A k \in 1..Len(ordering) :
                   Spliced(name)[k] \in SortKeys /\ Spliced(name)[k].means = ordering[k]
         ELSE \A k \in DOMAIN Spliced(name) : Spliced(name)[k] \notin SortKeys
<1>1. CASE name = "order_by"
  <2>1. ordering \in Seq(Keys) /\ DOMAIN ordering = 1..Len(ordering) /\ Len(ordering) \in Nat
    BY DEF TypeOK
  <2>2. Spliced(name) = OrderingText /\ OrderingText \in Text
    BY <1>1, SplicedType DEF Spliced
  <2>3. DOMAIN OrderingText = 1..Len(ordering)
    BY <2>1 DEF OrderingText
  <2>4. Len(OrderingText) = Len(ordering)
    BY <2>1, <2>2, <2>3 DEF Text
  <2>5. ASSUME NEW k \in 1..Len(ordering)
        PROVE  OrderingText[k] \in SortKeys /\ OrderingText[k].means = ordering[k]
    BY <2>1, <2>5 DEF OrderingText, Token, SortKeys, KeyTokens
  <2> QED
    BY <1>1, <2>2, <2>4, <2>5
<1>2. CASE name # "order_by"
  <2>1. Spliced(name) \in {acc.sql, << >>}
    BY <1>2 DEF Spliced
  <2>2. \A k \in DOMAIN acc.sql : acc.sql[k].kind # "key"
    BY DEF Signed, ClauseSigned, WrittenFor
  <2>3. \A k \in DOMAIN Spliced(name) : Spliced(name)[k].kind # "key"
    BY <2>1, <2>2
  <2> QED
    BY <1>2, <2>3 DEF SortKeys
<1> QED
  BY <1>1, <1>2

(* A step of the loop splices the ordering into a slot for it, whole, and  *)
(* writes no key otherwise.                                                *)
LEMMA SortedSplice ==
  ASSUME TypeOK, Signed, Sorted, SpliceSlot \/ NumberQuestion \/ CopyToken
  PROVE  Sorted'
<1> DEFINE m == Cardinality(Met("order_by"))
<1>1. Splicing /\ Splicing' /\ pc' # "where" /\ UNCHANGED <<cursor, ordering>>
  BY DEF SpliceSlot, NumberQuestion, CopyToken, Splicing, builder
<1>2. m \in Nat /\ ordering \in Seq(Keys) /\ out \in Text /\ InRuns(out, m, ordering)
  BY <1>1, MetFinite DEF Sorted, TypeOK
<1>3. PICK t \in Text : /\ out' = out \o t
                        /\ IsSlot(base[i]) => t = Spliced(base[i].name)
                        /\ ~IsSlot(base[i]) => WrittenFor(t, {Author0})
  BY SpliceStep
<1>4. InRuns(out', Cardinality(Met("order_by")'), ordering)
  <2>1. CASE IsSlot(base[i]) /\ base[i].name = "order_by"
    <3>1. Cardinality(Met("order_by")') = m + 1
      BY <2>1, MetStep
    <3>2. /\ Len(t) = Len(ordering)
          /\ \A k \in 1..Len(ordering) : t[k] \in SortKeys /\ t[k].means = ordering[k]
      BY <1>3, <2>1, SplicedKeys
    <3> HIDE DEF m
    <3>3. InRuns(out \o t, m + 1, ordering)
      BY <1>2, <3>2, RunsMore
    <3> QED
      BY <1>3, <3>1, <3>3
  <2>2. CASE ~(IsSlot(base[i]) /\ base[i].name = "order_by")
    <3>1. Met("order_by")' = Met("order_by")
      BY <2>2, MetStep
    <3>2. \A k \in DOMAIN t : t[k] \notin SortKeys
      <4>1. CASE IsSlot(base[i])
        BY <1>3, <2>2, <4>1, SplicedKeys
      <4>2. CASE ~IsSlot(base[i])
        BY <1>3, <4>2 DEF WrittenFor, SortKeys
      <4> QED
        BY <4>1, <4>2
    <3>3. InRuns(out \o t, m, ordering)
      BY <1>2, <3>2, RunsSame
    <3> QED
      BY <1>3, <3>1, <3>3
  <2> QED
    BY <2>1, <2>2
<1> QED
  BY <1>1, <1>4 DEF Sorted

(* Every step keeps the statement sorted as the cursor was cut.            *)
LEMMA SortedNext == TypeOK /\ TypeOK' /\ Signed /\ Sorted /\ [Next]_vars => Sorted'
<1>1. ASSUME TypeOK, TypeOK', Signed, Sorted, Next PROVE Sorted'
  <2>1. CASE Build
    <3>1. pc' \in {"build", "base"} /\ outcome' = outcome /\ pc = "build"
      BY <1>1, <2>1 DEF Build, Bind, BindValue, PushArgument, WithCursor, PushWhere, PushEither,
                        PushOrderBy, Compose, TypeOK
    <3>2. outcome' # "ok"
      BY <1>1, <3>1 DEF TypeOK
    <3> QED
      BY <3>1, <3>2 DEF Sorted, Splicing
  <2>2. CASE \E e \in Errors : Fail(e)
    BY <2>2 DEF Sorted, Splicing, Fail, Return, Errors
  <2>3. CASE AcceptBase \/ ThenOrderBy \/ AcceptOrdering \/ AndClause \/ BoundaryBranch
    <3>1. outcome' = outcome /\ pc \notin {"done"} /\ pc' \in {"order", "where"}
      BY <2>3 DEF AcceptBase, ThenOrderBy, AcceptOrdering, AndClause, BoundaryBranch
    <3>2. ~Splicing'
      BY <1>1, <3>1 DEF Splicing, TypeOK
    <3>3. pc' = "where" /\ cursor'.keys # << >> => ordering' = cursor'.keys
      BY <1>1, <2>3 DEF AcceptBase, ThenOrderBy, AcceptOrdering, AndClause, BoundaryBranch,
                        OrderingDisagrees, Sorted, builder
    <3> QED
      BY <3>2, <3>3 DEF Sorted
  <2>4. CASE FinishWhere
    <3>1. /\ pc = "where" /\ pc' = "splice" /\ UNCHANGED <<cursor, ordering, out>>
          /\ out = << >>
      BY <1>1, <2>4 DEF FinishWhere, WheresRead, builder, Signed, NothingSpliced, Gathering
    <3>2. Met("order_by")' = {} /\ Cardinality({}) = 0
      BY <1>1, <2>4, MetNone, FS_EmptySet
    <3>3. Len(ordering) \in Nat /\ Occurrences(<< >>, SortKeys) = 0
      BY <1>1, CountEmpty DEF TypeOK
    <3>4. InRuns(<< >>, 0, ordering)
      BY <3>3 DEF InRuns
    <3> QED
      BY <1>1, <3>1, <3>2, <3>4 DEF Sorted
  <2>5. CASE SpliceSlot \/ NumberQuestion \/ CopyToken
    BY <1>1, <2>5, SortedSplice
  <2>6. CASE FinishNumbered \/ StartRender \/ RenderReference \/ CopyRendered \/ FinishRender
    <3>1. Met("order_by")' = Met("order_by")
      BY <1>1, <2>6, MetSame
    <3>2. /\ UNCHANGED <<cursor, ordering, out>> /\ Splicing /\ pc' # "where"
      BY <2>6 DEF FinishNumbered, StartRender, RenderReference, CopyRendered, FinishRender,
                  SlotsFound, BaseScanned, Splicing, Return, builder, pipeline
    <3> QED
      BY <1>1, <3>1, <3>2 DEF Sorted
  <2> QED
    BY <1>1, <2>1, <2>2, <2>3, <2>4, <2>5, <2>6
    DEF Next, Composing, RejectUnsupported, RejectBase, RejectCursor, PanicOnUnsetCursor,
        RejectMissingWhere, RejectMissingOrderBy, RejectStatement, RejectReference, Errors
<1>2. ASSUME Sorted, UNCHANGED vars PROVE Sorted'
  BY <1>2 DEF vars, Sorted, Splicing, Met, Slots
<1> QED
  BY <1>1, <1>2

(* Nothing is sorted before anything is written.                           *)
LEMMA SortedInit == Init => Sorted
BY DEF Init, Sorted, Splicing

(* At every step of compose() the statement holds the ordering's keys,     *)
(* whole and in order, once per order_by slot the loop has met; with a     *)
(* cursor the ordering is the cursor's.                                    *)
THEOREM SortedHolds == Spec => []Sorted
<1> QED
  BY TypeCorrect, SignedHolds, SortedInit, SortedNext, PTL DEF Spec

(* Behind the loop every slot has been met, so the runs are one per slot.  *)
LEMMA SortedStatement == TypeOK /\ Sorted => SpliceCursorOrdering
<1> SUFFICES ASSUME TypeOK, Sorted, outcome = "ok", cursor.keys # << >>
             PROVE  LET n     == Len(cursor.keys)
                        slots == Cardinality(Slots("order_by"))
                    IN  /\ Cardinality(KeysUpTo(Len(out))) = slots * n
                        /\ \A k \in KeysUpTo(Len(out)) : \E c \in 0..slots, j \in 1..n :
                             /\ Cardinality(KeysUpTo(k)) = c * n + j
                             /\ out[k].means = cursor.keys[j]
  BY DEF SpliceCursorOrdering
<1> DEFINE slots == Cardinality(Slots("order_by"))
<1>1. pc = "done" /\ Scanned /\ Splicing
  BY DEF TypeOK, Scanned, Splicing
<1>2. ordering = cursor.keys /\ InRuns(out, slots, cursor.keys)
  BY <1>1, MetAll DEF Sorted
<1>3. out \in Text /\ Len(out) \in Nat /\ DOMAIN out = 1..Len(out)
      /\ \A k \in 1..Len(out) : out[k] \in Tokens(Values) \cup KeyTokens
  BY DEF TypeOK, Text
<1>4. \A k \in 1..Len(out) : out[k].kind = "key" <=> out[k] \in SortKeys
  BY <1>3 DEF SortKeys
<1>5. ASSUME NEW k \in 0..Len(out) PROVE Cardinality(KeysUpTo(k)) = CountUpTo(out, SortKeys, k)
  <2>1. KeysUpTo(k) = {j \in 1..k : out[j] \in SortKeys}
    BY <1>3, <1>4 DEF KeysUpTo
  <2> QED
    BY <2>1 DEF CountUpTo
<1>6. Cardinality(KeysUpTo(Len(out))) = slots * Len(cursor.keys)
  BY <1>2, <1>3, <1>5 DEF InRuns, Occurrences
<1>7. ASSUME NEW k \in KeysUpTo(Len(out))
      PROVE  \E c \in 0..slots, j \in 1..Len(cursor.keys) :
               /\ Cardinality(KeysUpTo(k)) = c * Len(cursor.keys) + j
               /\ out[k].means = cursor.keys[j]
  <2>1. k \in DOMAIN out /\ k \in 0..Len(out) /\ out[k] \in SortKeys
    BY <1>3, <1>4 DEF KeysUpTo
  <2>2. \E c \in 0..slots, j \in 1..Len(cursor.keys) :
          /\ CountUpTo(out, SortKeys, k) = c * Len(cursor.keys) + j
          /\ out[k].means = cursor.keys[j]
    BY <1>2, <2>1 DEF InRuns
  <2> QED
    BY <1>5, <2>1, <2>2
<1> QED
  BY <1>6, <1>7

(* A composed statement paged by a cursor is sorted as the cursor was cut, *)
(* once per order_by slot, whatever orderings were pushed.                 *)
THEOREM SpliceCursorOrderingHolds == Spec => []SpliceCursorOrdering
<1> QED
  BY TypeCorrect, SortedHolds, SortedStatement, PTL

-----------------------------------------------------------------------------
(* A text without a word of an author's has no token of that author.       *)
LEMMA NotByOthers ==
  ASSUME NEW sql \in Seq(Tokens(Values)), NEW A, WrittenFor(sql, A), NEW a, a \notin A
  PROVE  Occurrences(sql, TokensBy(a)) = 0
<1>1. Len(sql) \in Nat /\ DOMAIN sql = 1..Len(sql)
  OBVIOUS
<1>2. \A k \in 1..Len(sql) : sql[k] \notin TokensBy(a)
  BY <1>1 DEF WrittenFor, TokensBy
<1> QED
  BY <1>1, <1>2, CountNone DEF Occurrences

(* A text by one author consists of that author's tokens.                  *)
LEMMA AllByOne ==
  ASSUME NEW sql \in Seq(Tokens(Values)), NEW a, WrittenFor(sql, {a})
  PROVE  Occurrences(sql, TokensBy(a)) = Len(sql)
<1>1. Len(sql) \in Nat /\ DOMAIN sql = 1..Len(sql) /\ \A k \in 1..Len(sql) : sql[k] \in Tokens(Values)
  OBVIOUS
<1>2. \A k \in 1..Len(sql) : sql[k] \in TokensBy(a)
  BY <1>1 DEF WrittenFor, TokensBy
<1> QED
  BY <1>1, <1>2, CountAll DEF Occurrences

(* What a push adds: one fragment, in which the clauses it pushes stand    *)
(* whole and no earlier one has a token.                                   *)
Adds(f) ==
  /\ where_by' = Append(where_by, f)
  /\ DOMAIN authored \subseteq DOMAIN authored'
  /\ \A a \in DOMAIN authored :
       authored'[a] = authored[a] /\ Occurrences(f.sql, TokensBy(a + 1)) = 0
  /\ \A a \in DOMAIN authored' \ DOMAIN authored :
       /\ Occurrences(f.sql, TokensBy(a + 1)) = Len(authored'[a].text)
       /\ a + 1 \notin Pushers

(* A clause's author writes all of its text and nobody else's.             *)
LEMMA AuthoredCounts ==
  ASSUME NEW c \in Clauses, NEW a \in Nat, NEW b
  PROVE  /\ Author(c, a) \in Fragments /\ Len(c.text) \in Nat
         /\ Occurrences(Author(c, a).sql, TokensBy(b)) = IF b = a THEN Len(c.text) ELSE 0
<1>1. c \in [text : ClauseTexts, bound : Nat]
  BY InputsAssumption
<1>2. Len(c.text) \in Nat
  BY <1>1 DEF ClauseTexts
<1>3. Author(c, a) \in Fragments
  BY <1>1, AuthorType
<1>4. b = a => Occurrences(Author(c, a).sql, TokensBy(b)) = Len(c.text)
  BY <1>1, AuthorCounts
<1>5. b # a => Occurrences(Author(c, a).sql, TokensBy(b)) = 0
  BY <1>1, AuthorCounts
<1> QED
  BY <1>2, <1>3, <1>4, <1>5

(* A builder call that pushes clauses adds one fragment.                   *)
LEMMA PushAdds ==
  ASSUME TypeOK, \/ \E c \in Clauses : PushWhere(c)
                 \/ \E c, d \in Clauses : PushEither(c, d)
  PROVE  \E f \in Fragments : Adds(f)
<1> DEFINE n == Len(authored)
<1>1. n \in Nat /\ authored \in Seq(Clauses) /\ DOMAIN authored = 1..n
  BY DEF TypeOK
<1>2. ASSUME NEW c \in Clauses, PushWhere(c)
      PROVE  \E f \in Fragments : Adds(f)
  <2> DEFINE f == Author(c, n + 2)
  <2>1. where_by' = Append(where_by, f) /\ authored' = Append(authored, c)
    BY <1>2 DEF PushWhere
  <2>2. /\ DOMAIN authored' = 1..(n + 1) /\ authored'[n + 1] = c
        /\ \A a \in 1..n : authored'[a] = authored[a]
    BY <1>1, <2>1
  <2>3. Pushers = 2..(n + 1)
    BY DEF Pushers
  <2> HIDE DEF n
  <2>4. n + 2 \in Nat
    BY <1>1
  <2>5. f \in Fragments
    BY <2>4, AuthoredCounts
  <2>6. \A b : Occurrences(f.sql, TokensBy(b)) = IF b = n + 2 THEN Len(c.text) ELSE 0
    BY <2>4, AuthoredCounts
  <2> HIDE DEF f
  <2>7. \A a \in 1..n : a + 1 # n + 2
    BY <1>1
  <2>8. \A a \in (1..(n + 1)) \ (1..n) : a = n + 1 /\ a + 1 = n + 2 /\ a + 1 \notin 2..(n + 1)
    BY <1>1
  <2>9. 1..n \subseteq 1..(n + 1)
    BY <1>1
  <2>10. Adds(f)
    <3>1. \A a \in 1..n : Occurrences(f.sql, TokensBy(a + 1)) = 0
      BY <2>6, <2>7
    <3>2. \A a \in (1..(n + 1)) \ (1..n) :
            Occurrences(f.sql, TokensBy(a + 1)) = Len(authored'[a].text)
      BY <2>2, <2>6, <2>8
    <3> QED
      BY <1>1, <2>1, <2>2, <2>3, <2>8, <2>9, <3>1, <3>2 DEF Adds
  <2> QED
    BY <2>5, <2>10
<1>3. ASSUME NEW c \in Clauses, NEW d \in Clauses, PushEither(c, d)
      PROVE  \E f \in Fragments : Adds(f)
  <2> DEFINE g == Author(c, n + 2)
             h == Author(d, n + 3)
             f == Combine(g, h)
  <2>1. where_by' = Append(where_by, f) /\ authored' = authored \o <<c, d>>
    BY <1>3 DEF PushEither
  <2>2. /\ DOMAIN authored' = 1..(n + 2) /\ authored'[n + 1] = c /\ authored'[n + 2] = d
        /\ \A a \in 1..n : authored'[a] = authored[a]
    <3>1. <<c, d>> \in Seq(Clauses) /\ Len(<<c, d>>) = 2 /\ <<c, d>>[1] = c /\ <<c, d>>[2] = d
      OBVIOUS
    <3> QED
      BY <1>1, <2>1, <3>1
  <2>3. Pushers = 2..(n + 1)
    BY DEF Pushers
  <2> HIDE DEF n
  <2>4. n + 2 \in Nat /\ n + 3 \in Nat
    BY <1>1
  <2>5. g \in Fragments /\ h \in Fragments
    BY <2>4, AuthoredCounts
  <2>6. \A b : Occurrences(g.sql, TokensBy(b)) = IF b = n + 2 THEN Len(c.text) ELSE 0
    BY <2>4, AuthoredCounts
  <2>7. \A b : Occurrences(h.sql, TokensBy(b)) = IF b = n + 3 THEN Len(d.text) ELSE 0
    BY <2>4, AuthoredCounts
  <2>8. Len(c.text) \in Nat /\ Len(d.text) \in Nat
    BY <2>4, AuthoredCounts
  <2> HIDE DEF g, h
  <2>9. f \in Fragments
    BY <2>5, CombineType
  <2>10. \A b : Occurrences(f.sql, TokensBy(b)) =
                  Occurrences(g.sql, TokensBy(b)) + Occurrences(h.sql, TokensBy(b))
    BY <2>5, CombineCounts
  <2> HIDE DEF f
  <2>11. \A a \in 1..n : a + 1 # n + 2 /\ a + 1 # n + 3
    BY <1>1
  <2>12. \A a \in (1..(n + 2)) \ (1..n) :
           /\ \/ a = n + 1 /\ a + 1 = n + 2 /\ a + 1 # n + 3
              \/ a = n + 2 /\ a + 1 = n + 3 /\ a + 1 # n + 2
           /\ a + 1 \notin 2..(n + 1)
    BY <1>1
  <2>13. 1..n \subseteq 1..(n + 2)
    BY <1>1
  <2>14. Adds(f)
    <3>1. \A a \in 1..n : Occurrences(f.sql, TokensBy(a + 1)) = 0
      BY <2>6, <2>7, <2>10, <2>11
    <3>2. \A a \in (1..(n + 2)) \ (1..n) :
            Occurrences(f.sql, TokensBy(a + 1)) = Len(authored'[a].text)
      BY <2>2, <2>6, <2>7, <2>8, <2>10, <2>12
    <3> QED
      BY <1>1, <2>1, <2>2, <2>3, <2>12, <2>13, <3>1, <3>2 DEF Adds
  <2> QED
    BY <2>9, <2>14
<1> QED
  BY <1>2, <1>3

(* While the builder is filled no clause is in the accumulator yet, and    *)
(* each pushed one stands whole in the fragment pushed with it.            *)
LEMMA PlacedBuild ==
  ASSUME TypeOK, TypeOK', Signed, Placed, Build
  PROVE  Placed'
<1>1. /\ pc = "build" /\ pc' \in {"build", "base"} /\ UNCHANGED <<base, pipeline, outcome>>
  BY DEF Build, Bind, BindValue, PushArgument, WithCursor, PushWhere, PushEither, PushOrderBy,
         Compose, TypeOK, builder
<1>2. /\ Gathering /\ Gathering' /\ acc' = acc /\ outcome' = "pending" /\ ~Splicing'
      /\ \A w : ~CombinedIn(w) /\ ~CombinedIn(w)'
  BY <1>1 DEF Gathering, Splicing, CombinedIn, TypeOK, pipeline
<1>3. \A a \in DOMAIN authored' : \E w \in DOMAIN where_by' : Whole(a, w)'
  <2>1. CASE UNCHANGED <<where_by, authored>>
    BY <1>2, <2>1 DEF Placed, Whole
  <2>2. CASE \/ \E c \in Clauses : PushWhere(c)
             \/ \E c, d \in Clauses : PushEither(c, d)
    <3> DEFINE n == Len(where_by)
    <3>1. PICK f \in Fragments : Adds(f)
      BY <2>2, PushAdds
    <3>2. /\ where_by \in Seq(Fragments) /\ n \in Nat /\ DOMAIN where_by = 1..n
          /\ acc.sql \in Seq(Tokens(Values))
          /\ \A w \in 1..n : where_by[w] \in Fragments
      <4>1. acc.sql \in Seq(Tokens(Values))
        BY DEF TypeOK, Fragments
      <4>2. where_by \in Seq(Fragments)
        BY DEF TypeOK
      <4> QED
        BY <4>1, <4>2
    <3>3. /\ DOMAIN where_by' = 1..(n + 1) /\ where_by'[n + 1] = f
          /\ \A w \in 1..n : where_by'[w] = where_by[w]
      BY <3>1, <3>2 DEF Adds
    <3> HIDE DEF n
    <3>4. \A w \in 1..(n + 1) : w \in 1..n \/ w = n + 1
      BY <3>2
    <3>5. 1..n \subseteq 1..(n + 1) /\ n + 1 \in 1..(n + 1) /\ n + 1 \notin 1..n
      BY <3>2
    <3>6. ASSUME NEW a \in DOMAIN authored' PROVE \E w \in DOMAIN where_by' : Whole(a, w)'
      <4>1. CASE a \in DOMAIN authored
        <5>1. authored'[a] = authored[a] /\ Occurrences(f.sql, TokensBy(a + 1)) = 0
          BY <3>1, <4>1 DEF Adds
        <5>2. PICK w \in 1..n : Whole(a, w)
          BY <3>2, <4>1 DEF Placed
        <5>3. \A v \in 1..(n + 1) : Occurrences(where_by'[v].sql, TokensBy(a + 1)) =
                                       IF v = w THEN Len(authored'[a].text) ELSE 0
          <6>1. \A v \in 1..n : Occurrences(where_by'[v].sql, TokensBy(a + 1)) =
                                   IF v = w THEN Len(authored'[a].text) ELSE 0
            BY <3>2, <3>3, <5>1, <5>2 DEF Whole
          <6>2. Occurrences(where_by'[n + 1].sql, TokensBy(a + 1)) = 0 /\ n + 1 # w
            BY <3>3, <3>5, <5>1, <5>2
          <6> QED
            BY <3>4, <6>1, <6>2
        <5>4. Occurrences(acc'.sql, TokensBy(a + 1)) = 0
          BY <1>2, <5>2 DEF Whole
        <5> QED
          BY <1>2, <3>3, <3>5, <5>2, <5>3, <5>4 DEF Whole
      <4>2. CASE a \notin DOMAIN authored
        <5>1. /\ Occurrences(f.sql, TokensBy(a + 1)) = Len(authored'[a].text)
              /\ a + 1 \notin Pushers
          BY <3>1, <4>2 DEF Adds
        <5>2. \A v \in 1..n : Occurrences(where_by[v].sql, TokensBy(a + 1)) = 0
          <6>1. ASSUME NEW v \in 1..n
                PROVE  /\ where_by[v].sql \in Seq(Tokens(Values))
                       /\ WrittenFor(where_by[v].sql, Pushers)
            BY <3>2, <6>1 DEF Signed, FragmentsSigned, Fragments
          <6> QED
            BY <5>1, <6>1, NotByOthers
        <5>3. Occurrences(acc.sql, TokensBy(a + 1)) = 0
          <6>1. WrittenFor(acc.sql, Pushers)
            BY <1>2 DEF Signed, ClauseSigned
          <6> QED
            BY <3>2, <5>1, <6>1, NotByOthers
        <5>4. \A v \in 1..(n + 1) : Occurrences(where_by'[v].sql, TokensBy(a + 1)) =
                                       IF v = n + 1 THEN Len(authored'[a].text) ELSE 0
          BY <3>3, <3>4, <3>5, <5>1, <5>2
        <5> QED
          BY <1>2, <3>3, <3>5, <5>3, <5>4 DEF Whole
      <4> QED
        BY <4>1, <4>2
    <3> QED
      BY <3>6
  <2> QED
    BY <2>1, <2>2 DEF Build, Bind, BindValue, PushArgument, WithCursor, PushOrderBy,
                      Compose, builder
<1> QED
  BY <1>1, <1>2, <1>3 DEF Placed

(* Gathering reads one fragment after the other into the clause.           *)
LEMMA PlacedGather ==
  ASSUME TypeOK, TypeOK', Signed, Placed,
         AcceptBase \/ ThenOrderBy \/ AcceptOrdering \/ AndClause \/ BoundaryBranch
  PROVE  Placed'
<1>1. /\ pc \in {"base", "order", "where"} /\ pc' \in {"order", "where"}
      /\ UNCHANGED <<builder, outcome>>
  BY DEF AcceptBase, ThenOrderBy, AcceptOrdering, AndClause, BoundaryBranch, TypeOK
<1>2. Gathering /\ Gathering' /\ outcome' # "ok" /\ ~Splicing' /\ pc' # "render"
  BY <1>1 DEF Gathering, Splicing, TypeOK
<1>3. /\ DOMAIN where_by = 1..Len(where_by) /\ Len(where_by) \in Nat /\ i \in Nat \ {0}
      /\ acc \in Fragments /\ \A w \in DOMAIN where_by : where_by[w] \in Fragments
  BY DEF TypeOK
<1>4. ASSUME NEW a \in DOMAIN authored, NEW w \in DOMAIN where_by, Whole(a, w)
      PROVE  Whole(a, w)'
  <2> DEFINE S == TokensBy(a + 1)
             l == Len(authored[a].text)
  <2>1. /\ \A v \in DOMAIN where_by : Occurrences(where_by[v].sql, S) = IF v = w THEN l ELSE 0
        /\ Occurrences(acc.sql, S) = IF CombinedIn(w) THEN l ELSE 0
    BY <1>2, <1>4 DEF Whole
  <2>2. Occurrences(acc'.sql, S) = IF CombinedIn(w)' THEN l ELSE 0
    <3>1. CASE AndClause
      <4>1. /\ i \in DOMAIN where_by /\ acc' = Combine(acc, where_by[i])
            /\ pc = "where" /\ pc' = "where" /\ i' = i + 1
        BY <1>3, <3>1 DEF AndClause
      <4> HIDE DEF l, S
      <4>2. Occurrences(acc'.sql, S) = Occurrences(acc.sql, S) + Occurrences(where_by[i].sql, S)
        BY <1>3, <4>1, CombineCounts DEF S
      <4>3. CombinedIn(w)' <=> CombinedIn(w) \/ i = w
        BY <1>3, <4>1 DEF CombinedIn
      <4>4. CombinedIn(w) => i # w
        BY <1>3 DEF CombinedIn
      <4>5. l \in Nat
        BY <1>3, <2>1, CountNat DEF S, Fragments
      <4> QED
        BY <2>1, <4>1, <4>2, <4>3, <4>4, <4>5
    <3>2. CASE BoundaryBranch
      <4>1. CombinedIn(w) /\ CombinedIn(w)' /\ acc' = acc
        BY <1>3, <3>2 DEF BoundaryBranch, CombinedIn
      <4> QED
        BY <2>1, <4>1
    <3>3. CASE AcceptBase \/ ThenOrderBy \/ AcceptOrdering
      <4>1. ~CombinedIn(w) /\ ~CombinedIn(w)' /\ acc' = acc
        BY <1>3, <3>3 DEF AcceptBase, ThenOrderBy, AcceptOrdering, CombinedIn
      <4> QED
        BY <2>1, <4>1
    <3> QED
      BY <3>1, <3>2, <3>3
  <2> QED
    BY <1>1, <1>2, <2>1, <2>2 DEF Whole, builder
<1>5. \A a \in DOMAIN authored' : \E w \in DOMAIN where_by' : Whole(a, w)'
  BY <1>1, <1>4 DEF Placed, builder
<1> QED
  BY <1>2, <1>5 DEF Placed

(* The combined clause is complete: every pushed clause is in it once, and *)
(* the cursor's, of 1 + 2 + ... + n numbers for its n keys.                *)
LEMMA PlacedFinishWhere ==
  ASSUME TypeOK, Signed, Placed, FinishWhere
  PROVE  Placed'
<1> DEFINE f == Combine(acc, CursorClause)
           n == Len(cursor.keys)
<1>1. /\ pc = "where" /\ pc' = "splice" /\ acc' = Shift(f, Placeholders)
      /\ UNCHANGED <<builder, out, spliced, outcome>>
      /\ i > Len(where_by) + n
  BY DEF FinishWhere, WheresRead
<1>2. Gathering /\ ~Gathering' /\ outcome' # "ok" /\ pc' # "render" /\ out' = << >> /\ spliced' = {}
  BY <1>1 DEF Gathering, TypeOK, Signed, NothingSpliced
<1>3. /\ DOMAIN where_by = 1..Len(where_by) /\ Len(where_by) \in Nat /\ i \in Nat \ {0}
      /\ acc \in Fragments /\ n \in Nat /\ boundary \in Seq(Tokens(Values))
      /\ CursorClause \in Fragments /\ CursorClause.sql = boundary
  BY CursorType, CursorClauseType DEF TypeOK
<1>4. \A a : Occurrences(acc'.sql, TokensBy(a)) =
              Occurrences(acc.sql, TokensBy(a)) + Occurrences(boundary, TokensBy(a))
  <2> SUFFICES ASSUME NEW a
               PROVE  Occurrences(acc'.sql, TokensBy(a)) =
                        Occurrences(acc.sql, TokensBy(a)) + Occurrences(boundary, TokensBy(a))
    OBVIOUS
  <2>1. f \in Fragments /\ Placeholders \in Nat
    BY <1>3, CombineType, PlaceholdersType
  <2>2. Occurrences(f.sql, TokensBy(a)) =
          Occurrences(acc.sql, TokensBy(a)) + Occurrences(boundary, TokensBy(a))
    BY <1>3, CombineCounts
  <2> HIDE DEF f
  <2>3. acc'.sql = ShiftPlaceholderNumbers(f.sql, Placeholders) /\ f.sql \in Seq(Tokens(Values))
    BY <1>1, <2>1, ShiftType DEF Fragments
  <2>4. Occurrences(acc'.sql, TokensBy(a)) = Occurrences(f.sql, TokensBy(a))
    BY <2>1, <2>3, ShiftCounts
  <2> QED
    BY <2>2, <2>4
<1> HIDE DEF f
<1>5. WrittenFor(boundary, {AuthorCursor}) /\ WrittenFor(acc.sql, Pushers)
  BY <1>2 DEF Signed, BoundarySigned, ClauseSigned
<1>6. acc.sql \in Seq(Tokens(Values))
  BY <1>3 DEF Fragments
<1>7. \A a \in DOMAIN authored : Occurrences(acc'.sql, TokensBy(a + 1)) = Len(authored[a].text)
  <2> SUFFICES ASSUME NEW a \in DOMAIN authored
               PROVE  Occurrences(acc'.sql, TokensBy(a + 1)) = Len(authored[a].text)
    OBVIOUS
  <2>1. a \in Nat /\ a + 1 \notin {AuthorCursor}
    BY DEF TypeOK, AuthorCursor
  <2>2. Occurrences(boundary, TokensBy(a + 1)) = 0
    BY <1>3, <1>5, <2>1, NotByOthers
  <2>3. PICK w \in DOMAIN where_by : Whole(a, w)
    BY DEF Placed
  <2>4. CombinedIn(w)
    BY <1>1, <1>3, <2>3 DEF CombinedIn
  <2>5. Occurrences(acc.sql, TokensBy(a + 1)) = Len(authored[a].text)
    BY <1>2, <2>3, <2>4 DEF Whole
  <2>6. Occurrences(acc.sql, TokensBy(a + 1)) \in Nat
    BY <1>6, CountNat
  <2> QED
    BY <1>4, <2>2, <2>5, <2>6
<1>8. 2 * Occurrences(acc'.sql, TokensBy(AuthorCursor)) = n * (n + 1)
  <2>1. Occurrences(acc.sql, TokensBy(AuthorCursor)) = 0
    <3>1. AuthorCursor \notin Pushers
      BY DEF AuthorCursor, Pushers
    <3> QED
      BY <1>5, <1>6, <3>1, NotByOthers
  <2>2. Occurrences(boundary, TokensBy(AuthorCursor)) = Len(boundary) /\ Len(boundary) \in Nat
    BY <1>3, <1>5, AllByOne
  <2>3. Branches = n
    <3>1. Branches = i - 1 - Len(where_by) /\ Branches \in 0..n
      BY <1>1, <1>2, <1>3 DEF Branches, Signed, BoundarySigned
    <3> QED
      BY <1>1, <1>3, <3>1
  <2>4. 2 * Len(boundary) = n * (n + 1)
    BY <1>2, <2>3 DEF Signed, BoundarySigned
  <2>5. Occurrences(acc'.sql, TokensBy(AuthorCursor)) = Len(boundary)
    BY <1>4, <2>1, <2>2
  <2> QED
    BY <2>4, <2>5
<1>9. \A name : Met(name)' = {}
  BY MetNone
<1>10. \A a \in Pushers' \cup {AuthorCursor} :
         Occurrences(out', TokensBy(a)) =
           Cardinality(Met("where")') * Occurrences(acc'.sql, TokensBy(a))
  <2> SUFFICES ASSUME NEW a
               PROVE  Occurrences(<< >>, TokensBy(a)) =
                        Cardinality({}) * Occurrences(acc'.sql, TokensBy(a))
    BY <1>2, <1>9
  <2>1. Occurrences(acc'.sql, TokensBy(a)) \in Nat
    BY <1>3, <1>4, <1>6, CountNat
  <2> QED
    BY <2>1, CountEmpty, FS_EmptySet
<1>11. spliced' = {name \in {"where", "order_by"} : Met(name)' # {}}
  BY <1>2, <1>9
<1>12. \A a \in DOMAIN authored' : \E w \in DOMAIN where_by' : Whole(a, w)'
  BY <1>1, <1>2 DEF Placed, Whole, builder
<1> QED
  BY <1>1, <1>2, <1>7, <1>8, <1>10, <1>11, <1>12 DEF Placed, builder

(* A where slot takes one more copy of the clause, every other step of the *)
(* loop adds nothing of a caller's.                                        *)
LEMMA SplicedCounts ==
  ASSUME TypeOK, Signed, NEW name, NEW a
  PROVE  Occurrences(Spliced(name), TokensBy(a)) =
           IF name = "where" THEN Occurrences(acc.sql, TokensBy(a)) ELSE 0
<1>1. CASE name = "where"
  BY <1>1 DEF Spliced
<1>2. CASE name = "order_by"
  <2>1. Spliced(name) \in Text /\ Spliced(name) = OrderingText
    BY <1>2, SplicedType DEF Spliced
  <2>2. Len(OrderingText) \in Nat /\ DOMAIN OrderingText = 1..Len(OrderingText)
    BY <2>1 DEF Text
  <2>3. \A k \in 1..Len(OrderingText) : OrderingText[k] \notin TokensBy(a)
    <3>1. DOMAIN OrderingText = DOMAIN ordering
      BY DEF OrderingText
    <3>2. \A k \in DOMAIN ordering : OrderingText[k].kind = "key"
      BY DEF OrderingText, Token
    <3> QED
      BY <2>2, <3>1, <3>2 DEF TokensBy
  <2>4. Occurrences(OrderingText, TokensBy(a)) = 0
    BY <2>2, <2>3, CountNone DEF Occurrences
  <2> QED
    BY <1>2, <2>1, <2>4
<1>3. CASE name \notin {"where", "order_by"}
  BY <1>3, CountEmpty DEF Spliced
<1> QED
  BY <1>1, <1>2, <1>3

(* A step of the loop writes the clause into a where slot, whole, and into *)
(* nothing else.                                                           *)
LEMMA PlacedSplice ==
  ASSUME TypeOK, Signed, Placed, SpliceSlot \/ NumberQuestion \/ CopyToken
  PROVE  Placed'
<1> DEFINE m == Cardinality(Met("where"))
           m1 == Cardinality(Met("where")')
<1>1. /\ pc = "splice" /\ pc' = "splice" /\ Splicing /\ ~Gathering /\ ~Gathering'
      /\ outcome' # "ok" /\ UNCHANGED <<builder, acc>>
  BY DEF SpliceSlot, NumberQuestion, CopyToken, Splicing, Gathering, TypeOK
<1>2. PICK t \in Text : /\ out' = out \o t
                        /\ IsSlot(base[i]) => t = Spliced(base[i].name)
                        /\ ~IsSlot(base[i]) => WrittenFor(t, {Author0})
  BY SpliceStep
<1>3. out \in Text /\ m \in Nat /\ acc.sql \in Seq(Tokens(Values))
  BY MetFinite DEF TypeOK, Fragments
<1>4. ASSUME NEW a \in Pushers \cup {AuthorCursor}
      PROVE  Occurrences(out', TokensBy(a)) = m1 * Occurrences(acc.sql, TokensBy(a))
  <2> DEFINE x == Occurrences(acc.sql, TokensBy(a))
  <2>1. Occurrences(out', TokensBy(a)) = Occurrences(out, TokensBy(a)) + Occurrences(t, TokensBy(a))
    BY <1>2, <1>3, CountSum DEF Text
  <2>2. Occurrences(out, TokensBy(a)) = m * x
    BY <1>1, <1>4 DEF Placed
  <2>3. x \in Nat
    BY <1>3, CountNat
  <2> HIDE DEF x, m1, m
  <2>4. CASE IsSlot(base[i]) /\ base[i].name = "where"
    <3>1. Occurrences(t, TokensBy(a)) = x
      BY <1>2, <2>4, SplicedCounts DEF x
    <3>2. m1 = m + 1
      BY <2>4, MetStep DEF m1, m
    <3>3. (m + 1) * x = m * x + x
      BY <1>3, <2>3
    <3>4. Occurrences(out', TokensBy(a)) = m1 * x
      BY <2>1, <2>2, <3>1, <3>2, <3>3
    <3> QED
      BY <3>4 DEF x
  <2>5. CASE ~(IsSlot(base[i]) /\ base[i].name = "where")
    <3>1. Occurrences(t, TokensBy(a)) = 0
      <4>1. CASE IsSlot(base[i])
        BY <1>2, <2>5, <4>1, SplicedCounts
      <4>2. CASE ~IsSlot(base[i])
        <5>1. a # Author0
          BY DEF Pushers, Author0, AuthorCursor
        <5>2. WrittenFor(t, {Author0}) /\ Len(t) \in Nat /\ DOMAIN t = 1..Len(t)
          BY <1>2, <4>2 DEF Text
        <5>3. \A k \in 1..Len(t) : t[k] \notin TokensBy(a)
          BY <5>1, <5>2 DEF WrittenFor, TokensBy
        <5> QED
          BY <5>2, <5>3, CountNone DEF Occurrences
      <4> QED
        BY <4>1, <4>2
    <3>2. m1 = m
      BY <2>5, MetStep DEF m1, m
    <3>3. m * x \in Nat
      BY <1>3, <2>3
    <3>4. Occurrences(out', TokensBy(a)) = m1 * x
      BY <2>1, <2>2, <3>1, <3>2, <3>3
    <3> QED
      BY <3>4 DEF x
  <2> QED
    BY <2>4, <2>5
<1>5. spliced' = {name \in {"where", "order_by"} : Met(name)' # {}}
  <2>1. spliced = {name \in {"where", "order_by"} : Met(name) # {}}
    BY <1>1 DEF Placed
  <2>2. \A name : Met(name)' # {} <=> Met(name) # {} \/ (IsSlot(base[i]) /\ base[i].name = name)
    BY MetStep
  <2>3. spliced' = spliced \cup {name \in {"where", "order_by"} :
                                   IsSlot(base[i]) /\ base[i].name = name}
    BY DEF SpliceSlot, NumberQuestion, CopyToken, IsSlot, IsQuestion
  <2> QED
    BY <2>1, <2>2, <2>3
<1>6. \A a \in DOMAIN authored' : \E w \in DOMAIN where_by' : Whole(a, w)'
  BY <1>1 DEF Placed, Whole, builder
<1>7. Pushers' = Pushers /\ cursor' = cursor /\ authored' = authored
  BY <1>1 DEF Pushers, builder
<1> HIDE DEF m
<1> QED
  BY <1>1, <1>4, <1>5, <1>6, <1>7 DEF Placed

(* Rendering leaves the statement as it is.                                *)
LEMMA PlacedRender ==
  ASSUME TypeOK, Placed,
         FinishNumbered \/ StartRender \/ RenderReference \/ CopyRendered \/ FinishRender
  PROVE  Placed'
<1>1. /\ UNCHANGED <<builder, acc, out, spliced>> /\ Splicing /\ Splicing'
      /\ ~Gathering /\ ~Gathering' /\ ~WhereHasNoSlot
  BY DEF FinishNumbered, StartRender, RenderReference, CopyRendered, FinishRender, SlotsFound,
         BaseScanned, Splicing, Gathering, Return, builder, pipeline, Placed
<1>2. \A name : Met(name)' = Met(name)
  BY MetSame
<1>3. Pushers' = Pushers /\ ~WhereHasNoSlot'
  BY <1>1 DEF Pushers, WhereHasNoSlot, builder
<1>4. \A a \in DOMAIN authored' : \E w \in DOMAIN where_by' : Whole(a, w)'
  BY <1>1 DEF Placed, Whole, builder
<1> QED
  BY <1>1, <1>2, <1>3, <1>4 DEF Placed, builder

(* The placement is inductive.                                             *)
LEMMA PlacedNext == TypeOK /\ TypeOK' /\ Signed /\ Placed /\ [Next]_vars => Placed'
<1>1. ASSUME TypeOK, TypeOK', Signed, Placed, Next PROVE Placed'
  <2>1. CASE Build
    BY <1>1, <2>1, PlacedBuild
  <2>2. CASE \E e \in Errors : Fail(e)
    <3>1. /\ UNCHANGED <<where_by, authored>> /\ ~Gathering' /\ ~Splicing'
          /\ pc' # "render" /\ outcome' # "ok"
      BY <2>2 DEF Fail, Return, Errors, Gathering, Splicing, builder
    <3>2. \A a \in DOMAIN authored' : \E w \in DOMAIN where_by' : Whole(a, w)'
      BY <1>1, <3>1 DEF Placed, Whole
    <3> QED
      BY <3>1, <3>2 DEF Placed
  <2>3. CASE AcceptBase \/ ThenOrderBy \/ AcceptOrdering \/ AndClause \/ BoundaryBranch
    BY <1>1, <2>3, PlacedGather
  <2>4. CASE FinishWhere
    BY <1>1, <2>4, PlacedFinishWhere
  <2>5. CASE SpliceSlot \/ NumberQuestion \/ CopyToken
    BY <1>1, <2>5, PlacedSplice
  <2>6. CASE FinishNumbered \/ StartRender \/ RenderReference \/ CopyRendered \/ FinishRender
    BY <1>1, <2>6, PlacedRender
  <2> QED
    BY <1>1, <2>1, <2>2, <2>3, <2>4, <2>5, <2>6
    DEF Next, Composing, RejectUnsupported, RejectBase, RejectCursor, PanicOnUnsetCursor,
        RejectMissingWhere, RejectMissingOrderBy, RejectStatement, RejectReference, Errors
<1>2. ASSUME Placed, UNCHANGED vars PROVE Placed'
  BY <1>2 DEF vars, Placed, Whole, CombinedIn, Splicing, Gathering, Met, Slots, Pushers,
              WhereHasNoSlot
<1> QED
  BY <1>1, <1>2

(* No clause is pushed, and none has to be placed.                         *)
LEMMA PlacedInit == Init => Placed
BY DEF Init, Placed, Splicing

(* At every step of compose() each pushed clause stands whole in one       *)
(* fragment, then in the combined clause, then in every where slot the     *)
(* loop has met.                                                           *)
THEOREM PlacedHolds == Spec => []Placed
<1> QED
  BY TypeCorrect, SignedHolds, PlacedInit, PlacedNext, PTL DEF Spec

(* The tokens an author wrote, counted in the finished statement.          *)
LEMMA WrittenCounted ==
  ASSUME TypeOK, NEW a
  PROVE  Cardinality(WrittenBy(a)) = Occurrences(out, TokensBy(a))
<1>1. /\ DOMAIN out = 1..Len(out)
      /\ \A k \in 1..Len(out) : out[k] \in Tokens(Values) \cup KeyTokens
  BY DEF TypeOK, Text
<1>2. \A k \in 1..Len(out) :
        out[k] \in TokensBy(a) <=> out[k].kind # "key" /\ out[k].means[1] = a
  BY <1>1 DEF TokensBy, KeyTokens
<1>3. WrittenBy(a) = {k \in 1..Len(out) : out[k] \in TokensBy(a)}
  BY <1>1, <1>2 DEF WrittenBy
<1> QED
  BY <1>3 DEF Occurrences, CountUpTo

(* The cursor's clause once per slot.                                      *)
LEMMA TwiceSlots ==
  ASSUME NEW x \in Nat, NEW m \in Nat, NEW n \in Nat, 2 * x = n * (n + 1)
  PROVE  2 * (m * x) = n * (n + 1) * m
<1>1. 2 * (m * x) = m * (2 * x)
  OBVIOUS
<1>2. m * (n * (n + 1)) = n * (n + 1) * m
  OBVIOUS
<1> QED
  BY <1>1, <1>2

(* Of a finished statement, the counts are those of the property.          *)
LEMMA PlacedStatement == TypeOK /\ Placed => ConditionsInEverySlot
<1> SUFFICES ASSUME TypeOK, Placed, outcome = "ok" PROVE ConditionsInEverySlot
  BY DEF ConditionsInEverySlot
<1> DEFINE m == Cardinality(Slots("where"))
           n == Len(cursor.keys)
<1>1. pc = "done" /\ Scanned /\ Splicing /\ \A name : Met(name) = Slots(name)
  BY MetAll DEF TypeOK, Scanned, Splicing
<1>2. m \in Nat /\ n \in Nat /\ cursor.keys \in Seq(Keys) /\ acc.sql \in Seq(Tokens(Values))
  BY MetFinite, CursorType DEF TypeOK, Fragments
<1>3. /\ \A a \in DOMAIN authored : Occurrences(acc.sql, TokensBy(a + 1)) = Len(authored[a].text)
      /\ 2 * Occurrences(acc.sql, TokensBy(AuthorCursor)) = n * (n + 1)
      /\ \A a \in Pushers \cup {AuthorCursor} :
           Cardinality(WrittenBy(a)) = m * Occurrences(acc.sql, TokensBy(a))
  BY <1>1, WrittenCounted DEF Placed
<1>4. \A a \in DOMAIN authored :
        a + 1 \in Pushers /\ authored[a].text \in ClauseTexts /\ Len(authored[a].text) \in Nat
  <2>1. /\ authored \in Seq(Clauses) /\ Len(authored) \in Nat /\ DOMAIN authored = 1..Len(authored)
        /\ Clauses \subseteq [text : ClauseTexts, bound : Nat]
    BY InputsAssumption DEF TypeOK
  <2>2. \A a \in DOMAIN authored : a + 1 \in Pushers
    BY <2>1 DEF Pushers
  <2>3. \A a \in DOMAIN authored : authored[a] \in Clauses
    BY <2>1
  <2>4. \A a \in DOMAIN authored : authored[a].text \in ClauseTexts
    BY <2>1, <2>3
  <2> QED
    BY <2>2, <2>4 DEF ClauseTexts
<1>5. ASSUME cursor.keys # << >> \/ (\E a \in DOMAIN authored : authored[a].text # << >>)
      PROVE  Slots("where") # {}
  <2>1. acc.sql # << >>
    <3>1. CASE cursor.keys # << >>
      <4>1. n # 0
        BY <1>2, <3>1
      <4>2. n * (n + 1) # 2 * 0
        BY <1>2, <4>1
      <4> QED
        BY <1>3, <4>2, CountEmpty
    <3>2. ASSUME NEW a \in DOMAIN authored, authored[a].text # << >> PROVE acc.sql # << >>
      <4>1. Len(authored[a].text) # 0
        BY <1>4, <3>2 DEF ClauseTexts
      <4> QED
        BY <1>3, <4>1, CountEmpty
    <3> QED
      BY <1>5, <3>1, <3>2
  <2>2. "where" \in spliced
    BY <2>1 DEF Placed, WhereHasNoSlot, IsEmpty
  <2> QED
    BY <1>1, <2>2 DEF Placed
<1>6. \A a \in DOMAIN authored : Cardinality(WrittenBy(a + 1)) = Len(authored[a].text) * m
  BY <1>2, <1>3, <1>4
<1>7. 2 * Cardinality(WrittenBy(AuthorCursor)) = n * (n + 1) * m
  <2> DEFINE x == Occurrences(acc.sql, TokensBy(AuthorCursor))
  <2>1. x \in Nat /\ 2 * x = n * (n + 1) /\ Cardinality(WrittenBy(AuthorCursor)) = m * x
    BY <1>2, <1>3, CountNat
  <2> HIDE DEF x, m, n
  <2> QED
    BY <1>2, <2>1, TwiceSlots
<1> QED
  BY <1>5, <1>6, <1>7 DEF ConditionsInEverySlot

(* In a composed statement no condition is dropped or repeated: every      *)
(* pushed clause, and the cursor's, stands whole in every where slot.      *)
THEOREM ConditionsInEverySlotHolds == Spec => []ConditionsInEverySlot
<1> QED
  BY TypeCorrect, PlacedHolds, PlacedStatement, PTL
=============================================================================
