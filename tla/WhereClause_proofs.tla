------------------------- MODULE WhereClause_proofs --------------------------
(* Facts about numbering, shifting and combining that hold for every text. *)
EXTENDS WhereClause, WellFoundedInduction, TLAPS

(* Every inhabited set of natural numbers has a least element: the form of *)
(* induction the other lemmas use.                                         *)
LEMMA LeastNatural ==
  ASSUME NEW S \in SUBSET Nat, S # {}
  PROVE  \E m \in S : \A n \in S : m <= n
<1> DEFINE R == OpToRel(<, Nat)
<1>1. IsWellFoundedOn(R, Nat)
  BY NatLessThanWellFounded
<1>2. \A m, n \in Nat : <<n, m>> \in R <=> n < m
  BY DEF OpToRel
<1> HIDE DEF R
<1>3. PICK m \in S : \A n \in S : ~(<<n, m>> \in R)
  BY <1>1, WFMin
<1>4. SUFFICES ASSUME NEW n \in S PROVE m <= n
  OBVIOUS
<1>5. m \in Nat /\ n \in Nat /\ ~(n < m)
  BY <1>2, <1>3
<1> QED
  BY <1>5

(* A finite list of natural numbers has an upper bound.                    *)
LEMMA ListBounded ==
  ASSUME NEW len \in Nat, NEW f \in [1..len -> Nat]
  PROVE  \E b \in Nat : \A k \in 1..len : f[k] <= b
<1> DEFINE Bounded(n) == \E b \in Nat : \A k \in 1..n : f[k] <= b
           Unbounded  == {n \in 0..len : ~Bounded(n)}
<1>1. SUFFICES ASSUME ~Bounded(len) PROVE FALSE
  OBVIOUS
<1>2. Unbounded \in SUBSET Nat /\ len \in Unbounded
  BY <1>1
<1>3. PICK n \in Unbounded : \A m \in Unbounded : n <= m
  <2> HIDE DEF Unbounded
  <2> QED
    BY <1>2, LeastNatural
<1>4. n \in 0..len /\ ~Bounded(n)
  BY <1>3
<1>5. \A m \in 0..len : m < n => Bounded(m)
  <2> HIDE DEF Bounded
  <2>1. SUFFICES ASSUME NEW m \in 0..len, m < n, ~Bounded(m) PROVE FALSE
    OBVIOUS
  <2>2. m \in Unbounded
    BY <2>1
  <2>3. n <= m
    BY <1>3, <2>2
  <2> QED
    BY <1>4, <2>1, <2>3
<1>6. Bounded(0)
  <2>1. \A k \in 1..0 : f[k] <= 0
    OBVIOUS
  <2> QED
    BY <2>1
<1>7. \A m \in Nat : m < len /\ Bounded(m) => Bounded(m + 1)
  <2>1. SUFFICES ASSUME NEW m \in Nat, m < len, NEW b \in Nat,
                        \A k \in 1..m : f[k] <= b
                 PROVE  Bounded(m + 1)
    OBVIOUS
  <2>2. m + 1 \in 1..len /\ f[m + 1] \in Nat
    BY <2>1
  <2>3. \A k \in 1..(m + 1) : k = m + 1 \/ k \in 1..m
    OBVIOUS
  <2>4. \A k \in 1..(m + 1) : f[k] \in Nat
    BY <2>1
  <2>5. CASE f[m + 1] <= b
    <3>1. \A k \in 1..(m + 1) : f[k] <= b
      BY <2>1, <2>3, <2>5
    <3> QED
      BY <3>1
  <2>6. CASE b < f[m + 1]
    <3>1. \A k \in 1..(m + 1) : f[k] <= f[m + 1]
      BY <2>1, <2>2, <2>3, <2>4, <2>6
    <3> QED
      BY <2>2, <3>1
  <2> QED
    BY <2>2, <2>5, <2>6
<1> HIDE DEF Bounded
<1>8. n # 0 /\ n - 1 \in Nat /\ n - 1 \in 0..len /\ n - 1 < n /\ n - 1 < len
  BY <1>4, <1>6
<1>9. Bounded(n - 1)
  BY <1>5, <1>8
<1>10. Bounded((n - 1) + 1)
  BY <1>7, <1>8, <1>9
<1>11. (n - 1) + 1 = n
  BY <1>4
<1> QED
  BY <1>4, <1>10, <1>11

(* A function over 1..n is a sequence of its values.                       *)
LEMMA ListIsSeq ==
  ASSUME NEW S, NEW n \in Nat, NEW t, t = [k \in 1..n |-> t[k]],
         \A k \in 1..n : t[k] \in S
  PROVE  t \in Seq(S) /\ Len(t) = n /\ DOMAIN t = 1..n
OBVIOUS

(* max_placeholder_number is a natural number, an upper bound of the text's *)
(* numbers and, where there are any, one of them.                          *)
LEMMA MaxPlaceholderNumberIsMax ==
  ASSUME NEW T, NEW sql \in Seq(T), \A k \in DOMAIN sql : sql[k].number \in Nat
  PROVE  /\ MaxPlaceholderNumber(sql) \in Nat
         /\ \A n \in Numbers(sql) : n <= MaxPlaceholderNumber(sql)
         /\ Numbers(sql) # {} => MaxPlaceholderNumber(sql) \in Numbers(sql)
<1>1. Numbers(sql) \subseteq Nat
  BY DEF Numbers
<1>2. CASE Numbers(sql) = {}
  BY <1>2 DEF MaxPlaceholderNumber
<1>3. CASE Numbers(sql) # {}
  <2> DEFINE Uppers == {b \in Nat : \A n \in Numbers(sql) : n <= b}
  <2>1. PICK b \in Nat : \A k \in 1..Len(sql) : sql[k].number <= b
    <3> DEFINE f == [k \in 1..Len(sql) |-> sql[k].number]
    <3>1. f \in [1..Len(sql) -> Nat] /\ Len(sql) \in Nat
      OBVIOUS
    <3>2. PICK b \in Nat : \A k \in 1..Len(sql) : f[k] <= b
      <4> HIDE DEF f
      <4> QED
        BY <3>1, ListBounded
    <3> QED
      BY <3>2
  <2>2. b \in Uppers /\ Uppers \in SUBSET Nat
    BY <2>1 DEF Numbers
  <2>3. PICK m \in Uppers : \A u \in Uppers : m <= u
    BY <2>2, LeastNatural
  <2>4. m \in Numbers(sql)
    <3>1. SUFFICES ASSUME m \notin Numbers(sql) PROVE FALSE
      OBVIOUS
    <3>2. \A n \in Numbers(sql) : n < m
      BY <1>1, <2>3, <3>1
    <3>3. m - 1 \in Uppers
      BY <1>1, <1>3, <3>2
    <3> QED
      BY <2>3, <3>3
  <2>5. \E x \in Numbers(sql) : \A n \in Numbers(sql) : n <= x
    BY <2>3, <2>4
  <2> QED
    BY <1>1, <1>3, <2>5 DEF MaxPlaceholderNumber
<1> QED
  BY <1>2, <1>3
-----------------------------------------------------------------------------
(* shift_placeholder_numbers renumbers and changes nothing else.           *)
LEMMA ShiftText ==
  ASSUME NEW M, NEW sql \in Seq(Tokens(M)), NEW offset \in Nat
  PROVE  LET s == ShiftPlaceholderNumbers(sql, offset)
         IN  /\ s \in Seq(Tokens(M)) /\ Len(s) = Len(sql)
             /\ \A k \in 1..Len(sql) :
                  /\ IsNumber(s[k]) <=> IsNumber(sql[k])
                  /\ IsQuestion(s[k]) <=> IsQuestion(sql[k])
                  /\ s[k].means = sql[k].means
                  /\ IsNumber(sql[k]) => s[k].number = sql[k].number + offset
<1> DEFINE s == ShiftPlaceholderNumbers(sql, offset)
<1>1. Len(sql) \in Nat /\ DOMAIN sql = 1..Len(sql)
  OBVIOUS
<1>2. \A k \in 1..Len(sql) : sql[k] \in Tokens(M)
  OBVIOUS
<1>3. \A k \in 1..Len(sql) :
        s[k] = IF IsNumber(sql[k])
               THEN Token("number", sql[k].number + offset, sql[k].means) ELSE sql[k]
  BY <1>1 DEF ShiftPlaceholderNumbers
<1> HIDE DEF s
<1>4. ASSUME NEW k \in 1..Len(sql) PROVE s[k] \in Tokens(M)
  <2>1. CASE IsNumber(sql[k])
    <3>1. sql[k].number + offset \in Nat /\ sql[k].means \in M
      BY <1>2 DEF Tokens
    <3>2. s[k] = Token("number", sql[k].number + offset, sql[k].means)
      BY <1>3, <2>1
    <3> QED
      BY <3>1, <3>2 DEF Token, Tokens, Kinds
  <2>2. CASE ~IsNumber(sql[k])
    BY <1>2, <1>3, <2>2
  <2> QED
    BY <2>1, <2>2
<1>5. s = [k \in 1..Len(sql) |-> s[k]]
  BY <1>1 DEF s, ShiftPlaceholderNumbers
<1>6. s \in Seq(Tokens(M)) /\ Len(s) = Len(sql)
  BY <1>1, <1>4, <1>5
<1>7. ASSUME NEW k \in 1..Len(sql)
      PROVE  /\ IsNumber(s[k]) <=> IsNumber(sql[k])
             /\ IsQuestion(s[k]) <=> IsQuestion(sql[k])
             /\ s[k].means = sql[k].means
             /\ IsNumber(sql[k]) => s[k].number = sql[k].number + offset
  <2>1. CASE IsNumber(sql[k])
    <3>1. s[k] = Token("number", sql[k].number + offset, sql[k].means)
      BY <1>3, <2>1
    <3>2. /\ s[k].kind = "number" /\ s[k].means = sql[k].means
          /\ s[k].number = sql[k].number + offset
      BY <3>1 DEF Token
    <3> QED
      BY <2>1, <3>2 DEF IsNumber, IsQuestion
  <2>2. CASE ~IsNumber(sql[k])
    BY <1>3, <2>2
  <2> QED
    BY <2>1, <2>2
<1> QED
  BY <1>6, <1>7 DEF s

(* The highest number of a fragment in order is its number of values.      *)
LEMMA MaxOfFragment ==
  ASSUME NEW f \in Fragments, FragmentOk(f)
  PROVE  MaxPlaceholderNumber(f.sql) = Len(f.values)
<1>1. /\ f.sql \in Seq(Tokens(Values)) /\ f.values \in Seq(Values)
      /\ \A k \in DOMAIN f.sql : f.sql[k].number \in Nat
  <2>1. f.sql \in Seq(Tokens(Values)) /\ f.values \in Seq(Values)
    BY DEF Fragments
  <2>2. \A k \in DOMAIN f.sql : f.sql[k] \in Tokens(Values)
    BY <2>1
  <2> QED
    BY <2>1, <2>2 DEF Tokens
<1> DEFINE m == MaxPlaceholderNumber(f.sql)
<1>2. /\ m \in Nat
      /\ \A n \in Numbers(f.sql) : n <= m
      /\ Numbers(f.sql) # {} => m \in Numbers(f.sql)
  BY <1>1, MaxPlaceholderNumberIsMax
<1>3. \A n \in Numbers(f.sql) : n \in 1..Len(f.values)
  BY <1>1 DEF Numbers, FragmentOk
<1>4. f.values # << >> => Len(f.values) \in Numbers(f.sql)
  BY <1>1 DEF Numbers, FragmentOk
<1>5. Numbers(f.sql) = {} => m = 0
  BY DEF MaxPlaceholderNumber
<1>6. Len(f.values) \in Nat /\ (Len(f.values) = 0 <=> f.values = << >>)
  BY <1>1
<1> HIDE DEF m
<1>7. CASE f.values = << >>
  <2>1. Numbers(f.sql) = {}
    BY <1>3, <1>6, <1>7
  <2> QED
    BY <1>5, <1>6, <1>7, <2>1 DEF m
<1>8. CASE f.values # << >>
  <2>1. m \in 1..Len(f.values) /\ Len(f.values) <= m
    BY <1>2, <1>3, <1>4, <1>8
  <2> QED
    BY <1>2, <1>6, <2>1 DEF m
<1> QED
  BY <1>7, <1>8
-----------------------------------------------------------------------------
(* A concatenation holds its first part at the start, its second after it. *)
LEMMA Concatenation ==
  ASSUME NEW S, NEW a \in Seq(S), NEW b \in Seq(S)
  PROVE  /\ a \o b \in Seq(S)
         /\ DOMAIN (a \o b) = 1..(Len(a) + Len(b)) /\ Len(a \o b) = Len(a) + Len(b)
         /\ \A k \in 1..Len(a) : (a \o b)[k] = a[k]
         /\ \A k \in 1..Len(b) : (a \o b)[Len(a) + k] = b[k]
<1>1. a \o b \in Seq(S) /\ Len(a \o b) = Len(a) + Len(b)
  OBVIOUS
<1>2. DOMAIN (a \o b) = 1..(Len(a) + Len(b))
  BY <1>1
<1>3. \A k \in 1..Len(a) : (a \o b)[k] = a[k]
  OBVIOUS
<1>4. ASSUME NEW k \in 1..Len(b) PROVE (a \o b)[Len(a) + k] = b[k]
  <2>1. Len(a) \in Nat /\ Len(b) \in Nat /\ k \in Nat
    OBVIOUS
  <2>2. Len(a) + k \in 1..(Len(a) + Len(b)) /\ ~(Len(a) + k <= Len(a))
        /\ (Len(a) + k) - Len(a) = k
    BY <2>1
  <2> QED
    BY <2>2
<1> QED
  BY <1>1, <1>2, <1>3, <1>4

(* Combining two fragments yields a fragment; with max_placeholder_number  *)
(* of a text only known to be some natural number, no more can be said.    *)
LEMMA CombineType ==
  ASSUME NEW f \in Fragments, NEW g \in Fragments
  PROVE  Combine(f, g) \in Fragments
<1> DEFINE m == MaxPlaceholderNumber(f.sql)
           s == ShiftPlaceholderNumbers(g.sql, m)
<1>1. /\ f.sql \in Seq(Tokens(Values)) /\ f.values \in Seq(Values)
      /\ g.sql \in Seq(Tokens(Values)) /\ g.values \in Seq(Values)
  BY DEF Fragments
<1>2. \A k \in DOMAIN f.sql : f.sql[k].number \in Nat
  <2>1. \A k \in DOMAIN f.sql : f.sql[k] \in Tokens(Values)
    BY <1>1
  <2> QED
    BY <2>1 DEF Tokens
<1>3. m \in Nat
  BY <1>1, <1>2, MaxPlaceholderNumberIsMax
<1>4. s \in Seq(Tokens(Values))
  <2> HIDE DEF m
  <2> QED
    BY <1>1, <1>3, ShiftText
<1>5. f.sql \o s \in Seq(Tokens(Values)) /\ f.values \o g.values \in Seq(Values)
  <2> HIDE DEF s
  <2> QED
    BY <1>1, <1>4
<1> HIDE DEF s, m
<1>6. Fragment(f.sql \o s, f.values \o g.values) \in Fragments
  BY <1>5 DEF Fragment, Fragments
<1> QED
  BY <1>6 DEF Combine, s, m

(* combine keeps every number pointing at the value it is meant for, and   *)
(* the highest number equal to the number of values.                       *)
LEMMA CombineOk ==
  ASSUME NEW f \in Fragments, NEW g \in Fragments, FragmentOk(f), FragmentOk(g)
  PROVE  FragmentOk(Combine(f, g))
<1> DEFINE s == ShiftPlaceholderNumbers(g.sql, Len(f.values))
           c == Fragment(f.sql \o s, f.values \o g.values)
           p == Len(f.sql)
           v == Len(f.values)
<1>1. SUFFICES ASSUME f.sql # << >>, g.sql # << >> PROVE FragmentOk(c)
  <2>1. MaxPlaceholderNumber(f.sql) = Len(f.values)
    BY MaxOfFragment
  <2> QED
    BY <2>1 DEF Combine, IsEmpty
<1>2. /\ f.sql \in Seq(Tokens(Values)) /\ f.values \in Seq(Values)
      /\ g.sql \in Seq(Tokens(Values)) /\ g.values \in Seq(Values)
  BY DEF Fragments
<1>3. p \in Nat /\ v \in Nat /\ Len(g.sql) \in Nat /\ Len(g.values) \in Nat
  BY <1>2 DEF p, v
<1>4. /\ s \in Seq(Tokens(Values)) /\ Len(s) = Len(g.sql)
      /\ \A k \in 1..Len(g.sql) :
           /\ IsNumber(s[k]) <=> IsNumber(g.sql[k])
           /\ s[k].means = g.sql[k].means
           /\ IsNumber(g.sql[k]) => s[k].number = g.sql[k].number + v
  BY <1>2, <1>3, ShiftText
<1> HIDE DEF s
<1>5. c.sql = f.sql \o s /\ c.values = f.values \o g.values
  BY DEF Fragment
<1> HIDE DEF c, p, v
<1>6. /\ DOMAIN c.sql = 1..(p + Len(s))
      /\ \A k \in 1..p : c.sql[k] = f.sql[k]
      /\ \A k \in 1..Len(s) : c.sql[p + k] = s[k]
  <2> DEFINE a == f.sql
  <2>1. a \in Seq(Tokens(Values)) /\ s \in Seq(Tokens(Values))
    BY <1>2, <1>4
  <2> HIDE DEF a
  <2>2. /\ DOMAIN (a \o s) = 1..(Len(a) + Len(s))
        /\ \A k \in 1..Len(a) : (a \o s)[k] = a[k]
        /\ \A k \in 1..Len(s) : (a \o s)[Len(a) + k] = s[k]
    BY <2>1, Concatenation
  <2> QED
    BY <1>5, <2>2 DEF a, p
<1>7. /\ DOMAIN c.values = 1..(v + Len(g.values)) /\ Len(c.values) = v + Len(g.values)
      /\ \A n \in 1..v : c.values[n] = f.values[n]
      /\ \A n \in 1..Len(g.values) : c.values[v + n] = g.values[n]
  <2> DEFINE a == f.values
             b == g.values
  <2>1. a \in Seq(Values) /\ b \in Seq(Values)
    BY <1>2
  <2> HIDE DEF a, b
  <2>2. /\ DOMAIN (a \o b) = 1..(Len(a) + Len(b)) /\ Len(a \o b) = Len(a) + Len(b)
        /\ \A n \in 1..Len(a) : (a \o b)[n] = a[n]
        /\ \A n \in 1..Len(b) : (a \o b)[Len(a) + n] = b[n]
    BY <2>1, Concatenation
  <2> QED
    BY <1>5, <2>2 DEF a, b, v
<1>8. DOMAIN f.sql = 1..p /\ DOMAIN f.values = 1..v
      /\ DOMAIN g.sql = 1..Len(g.sql) /\ DOMAIN g.values = 1..Len(g.values)
  BY <1>2 DEF p, v
<1>9. ASSUME NEW k \in DOMAIN c.sql, IsNumber(c.sql[k])
      PROVE  c.sql[k].number \in DOMAIN c.values /\ c.values[c.sql[k].number] = c.sql[k].means
  <2>1. CASE k \in 1..p
    <3>1. f.sql[k].number \in 1..v /\ f.values[f.sql[k].number] = f.sql[k].means
      BY <1>6, <1>8, <1>9, <2>1 DEF FragmentOk
    <3>2. c.sql[k] = f.sql[k] /\ f.sql[k].number \in 1..(v + Len(g.values))
      BY <1>3, <1>6, <2>1, <3>1
    <3> QED
      BY <1>7, <3>1, <3>2
  <2>2. CASE k \notin 1..p
    <3>1. PICK j \in 1..Len(s) : k = p + j
      <4>1. k - p \in 1..Len(s) /\ k = p + (k - p)
        BY <1>3, <1>4, <1>6, <2>2
      <4> QED
        BY <4>1
    <3>2. c.sql[k] = s[j] /\ j \in 1..Len(g.sql)
      BY <1>4, <1>6, <3>1
    <3>3. /\ IsNumber(g.sql[j]) /\ c.sql[k].number = g.sql[j].number + v
          /\ c.sql[k].means = g.sql[j].means
      BY <1>4, <1>9, <3>2
    <3>4. g.sql[j].number \in 1..Len(g.values) /\ g.values[g.sql[j].number] = g.sql[j].means
      BY <1>8, <3>2, <3>3 DEF FragmentOk
    <3>5. c.sql[k].number = v + g.sql[j].number /\ c.sql[k].number \in 1..(v + Len(g.values))
      <4> DEFINE x == g.sql[j].number
                 w == Len(g.values)
      <4>1. v \in Nat /\ w \in Nat /\ x \in 1..w /\ c.sql[k].number = x + v
        BY <1>3, <3>3, <3>4
      <4> HIDE DEF x, w
      <4>2. x + v = v + x /\ x + v \in 1..(v + w)
        BY <4>1
      <4> QED
        BY <4>1, <4>2 DEF x, w
    <3> QED
      BY <1>7, <3>3, <3>4, <3>5
  <2> QED
    BY <2>1, <2>2
<1>10. c.values # << >> =>
         \E k \in DOMAIN c.sql : IsNumber(c.sql[k]) /\ c.sql[k].number = Len(c.values)
  <2>1. CASE g.values # << >>
    <3>1. PICK j \in 1..Len(g.sql) : IsNumber(g.sql[j]) /\ g.sql[j].number = Len(g.values)
      BY <1>8, <2>1 DEF FragmentOk
    <3>2. p + j \in DOMAIN c.sql /\ c.sql[p + j] = s[j]
      BY <1>3, <1>4, <1>6, <3>1
    <3>3. IsNumber(c.sql[p + j]) /\ c.sql[p + j].number = Len(c.values)
      BY <1>3, <1>4, <1>7, <3>1, <3>2
    <3> QED
      BY <3>2, <3>3
  <2>2. CASE g.values = << >> /\ f.values # << >>
    <3>1. PICK k \in 1..p : IsNumber(f.sql[k]) /\ f.sql[k].number = v
      BY <1>8, <2>2 DEF FragmentOk, v
    <3>2. k \in DOMAIN c.sql /\ c.sql[k] = f.sql[k] /\ Len(c.values) = v
      BY <1>2, <1>3, <1>4, <1>6, <1>7, <2>2, <3>1
    <3> QED
      BY <3>1, <3>2
  <2>3. CASE g.values = << >> /\ f.values = << >>
    BY <1>2, <1>5, <2>3 DEF c
  <2> QED
    BY <2>1, <2>2, <2>3
<1> QED
  BY <1>9, <1>10 DEF FragmentOk
(* Question-freeness of a concatenation, and of a combination.             *)
LEMMA ConcatQuestionFree ==
  ASSUME NEW S, NEW a \in Seq(S), NEW b \in Seq(S), QuestionFree(a), QuestionFree(b)
  PROVE  QuestionFree(a \o b)
<1>1. SUFFICES ASSUME NEW k \in 1..(Len(a) + Len(b)) PROVE ~IsQuestion((a \o b)[k])
  BY Concatenation DEF QuestionFree
<1>2. Len(a) \in Nat /\ Len(b) \in Nat /\ DOMAIN a = 1..Len(a) /\ DOMAIN b = 1..Len(b)
  OBVIOUS
<1>3. CASE k \in 1..Len(a)
  BY <1>2, <1>3, Concatenation DEF QuestionFree
<1>4. CASE k \notin 1..Len(a)
  <2>1. k - Len(a) \in 1..Len(b) /\ k = Len(a) + (k - Len(a))
    BY <1>1, <1>2, <1>4
  <2>2. (a \o b)[k] = b[k - Len(a)]
    BY <2>1, Concatenation
  <2> QED
    BY <1>2, <2>1, <2>2 DEF QuestionFree
<1> QED
  BY <1>3, <1>4

(* Shifting a text's numbers writes no ?.                                  *)
LEMMA ShiftQuestionFree ==
  ASSUME NEW M, NEW sql \in Seq(Tokens(M)), NEW offset \in Nat, QuestionFree(sql)
  PROVE  QuestionFree(ShiftPlaceholderNumbers(sql, offset))
<1> DEFINE s == ShiftPlaceholderNumbers(sql, offset)
<1>1. /\ s \in Seq(Tokens(M)) /\ Len(s) = Len(sql)
      /\ \A k \in 1..Len(sql) : IsQuestion(s[k]) <=> IsQuestion(sql[k])
  BY ShiftText
<1> HIDE DEF s
<1>2. DOMAIN s = 1..Len(sql) /\ DOMAIN sql = 1..Len(sql)
  BY <1>1
<1>3. QuestionFree(s)
  BY <1>1, <1>2 DEF QuestionFree
<1> QED
  BY <1>3 DEF s

(* Neither does combining two clauses.                                     *)
LEMMA CombineQuestionFree ==
  ASSUME NEW f \in Fragments, NEW g \in Fragments,
         QuestionFree(f.sql), QuestionFree(g.sql)
  PROVE  QuestionFree(Combine(f, g).sql)
<1> DEFINE m == MaxPlaceholderNumber(f.sql)
           s == ShiftPlaceholderNumbers(g.sql, m)
<1>1. f.sql \in Seq(Tokens(Values)) /\ g.sql \in Seq(Tokens(Values))
  BY DEF Fragments
<1>2. \A k \in DOMAIN f.sql : f.sql[k].number \in Nat
  <2>1. \A k \in DOMAIN f.sql : f.sql[k] \in Tokens(Values)
    BY <1>1
  <2> QED
    BY <2>1 DEF Tokens
<1>3. m \in Nat
  BY <1>1, <1>2, MaxPlaceholderNumberIsMax
<1>4. s \in Seq(Tokens(Values)) /\ QuestionFree(s)
  <2> HIDE DEF m
  <2> QED
    BY <1>1, <1>3, ShiftText, ShiftQuestionFree
<1>5. QuestionFree(f.sql \o s)
  <2> HIDE DEF s
  <2> QED
    BY <1>1, <1>4, ConcatQuestionFree
<1> HIDE DEF s, m
<1>6. Combine(f, g).sql \in {f.sql, g.sql, f.sql \o s}
  BY DEF Combine, Fragment, s, m
<1> QED
  BY <1>5, <1>6

-----------------------------------------------------------------------------
(* WhereClause::new and bind_value: a well-formed clause is a fragment in  *)
(* order.                                                                  *)
LEMMA AuthorType ==
  ASSUME NEW clause \in [text : ClauseTexts, bound : Nat], NEW author \in Nat
  PROVE  /\ Author(clause, author) \in Fragments
         /\ DOMAIN Author(clause, author).sql = DOMAIN clause.text
         /\ \A k \in DOMAIN clause.text :
              Author(clause, author).sql[k] =
                Token(clause.text[k].kind, clause.text[k].number,
                      <<author, clause.text[k].number>>)
<1> DEFINE s == [k \in DOMAIN clause.text |->
                   Token(clause.text[k].kind, clause.text[k].number,
                         <<author, clause.text[k].number>>)]
           v == [j \in 1..clause.bound |-> <<author, j>>]
<1>1. clause.text \in ClauseTexts /\ clause.bound \in Nat
  OBVIOUS
<1>2. /\ Len(clause.text) \in Nat /\ DOMAIN clause.text = 1..Len(clause.text)
      /\ \A k \in DOMAIN clause.text :
           clause.text[k] \in ClauseTokens
  BY <1>1 DEF ClauseTexts
<1>3. \A k \in DOMAIN clause.text : s[k] \in Tokens(Values)
  BY <1>2 DEF ClauseTokens, Tokens, Token, Kinds, Values
<1>4. s \in Seq(Tokens(Values))
  <2>1. s = [k \in 1..Len(clause.text) |-> s[k]]
    BY <1>2
  <2> HIDE DEF s
  <2> QED
    BY <1>2, <1>3, <2>1
<1>5. v \in Seq(Values)
  BY <1>1 DEF Values
<1>6. Author(clause, author) = [sql |-> s, values |-> v]
  BY DEF Author, Fragment
<1>7. DOMAIN s = DOMAIN clause.text
  OBVIOUS
<1> HIDE DEF v
<1>8. Author(clause, author).sql = s
  BY <1>6
<1>9. Author(clause, author) \in Fragments
  <2> HIDE DEF s
  <2> QED
    BY <1>4, <1>5, <1>6 DEF Fragments
<1> QED
  BY <1>7, <1>8, <1>9

(* A clause that is well formed is in step with its values.                *)
LEMMA AuthorOk ==
  ASSUME NEW clause \in [text : ClauseTexts, bound : Nat], NEW author \in Nat,
         NEW numbered, WellFormedClause(clause, numbered)
  PROVE  /\ FragmentOk(Author(clause, author))
         /\ ~numbered => QuestionFree(Author(clause, author).sql)
<1> DEFINE f == Author(clause, author)
<1>1. /\ DOMAIN f.sql = DOMAIN clause.text
      /\ \A k \in DOMAIN clause.text :
           f.sql[k] = Token(clause.text[k].kind, clause.text[k].number,
                            <<author, clause.text[k].number>>)
  BY AuthorType
<1>2. f.values = [j \in 1..clause.bound |-> <<author, j>>]
  BY DEF Author, Fragment
<1> HIDE DEF f
<1>3. clause.bound \in Nat
  OBVIOUS
<1>4. /\ DOMAIN f.values = 1..clause.bound /\ Len(f.values) = clause.bound
      /\ \A j \in 1..clause.bound : f.values[j] = <<author, j>>
  BY <1>2, <1>3
<1>5. \A k \in DOMAIN f.sql :
        /\ IsNumber(f.sql[k]) <=> IsNumber(clause.text[k])
        /\ IsQuestion(f.sql[k]) <=> IsQuestion(clause.text[k])
        /\ f.sql[k].number = clause.text[k].number
        /\ f.sql[k].means = <<author, clause.text[k].number>>
  <2>1. SUFFICES ASSUME NEW k \in DOMAIN f.sql
                 PROVE  /\ IsNumber(f.sql[k]) <=> IsNumber(clause.text[k])
                        /\ IsQuestion(f.sql[k]) <=> IsQuestion(clause.text[k])
                        /\ f.sql[k].number = clause.text[k].number
                        /\ f.sql[k].means = <<author, clause.text[k].number>>
    OBVIOUS
  <2>2. f.sql[k] = [kind |-> clause.text[k].kind, number |-> clause.text[k].number,
                    means |-> <<author, clause.text[k].number>>]
    BY <1>1 DEF Token
  <2>3. /\ f.sql[k].kind = clause.text[k].kind
        /\ f.sql[k].number = clause.text[k].number
        /\ f.sql[k].means = <<author, clause.text[k].number>>
    BY <2>2
  <2> QED
    BY <2>3 DEF IsNumber, IsQuestion
<1>6. \A k \in DOMAIN f.sql :
        IsNumber(f.sql[k]) =>
          /\ f.sql[k].number \in DOMAIN f.values
          /\ f.values[f.sql[k].number] = f.sql[k].means
  BY <1>1, <1>4, <1>5 DEF WellFormedClause
<1>7. f.values # << >> =>
        \E k \in DOMAIN f.sql : IsNumber(f.sql[k]) /\ f.sql[k].number = Len(f.values)
  <2>1. SUFFICES ASSUME f.values # << >>
                 PROVE \E k \in DOMAIN f.sql :
                          IsNumber(f.sql[k]) /\ f.sql[k].number = Len(f.values)
    OBVIOUS
  <2>2. clause.bound > 0
    BY <1>2, <1>3, <2>1
  <2>3. PICK k \in DOMAIN clause.text :
           IsNumber(clause.text[k]) /\ clause.text[k].number = clause.bound
    BY <2>2 DEF WellFormedClause
  <2> QED
    BY <1>1, <1>4, <1>5, <2>3
<1>8. ~numbered => QuestionFree(f.sql)
  BY <1>1, <1>5 DEF WellFormedClause, QuestionFree
<1> QED
  BY <1>6, <1>7, <1>8 DEF FragmentOk, f
=============================================================================
