----------------------- MODULE ComposerRefinement_proofs ----------------------
(***************************************************************************)
(* Proof that QueryComposer implements Composition: first what flattening  *)
(* a list of lists does step by step, then what texts, fragments and       *)
(* branches say when they are combined, then that every loop has gathered  *)
(* what was promised (PromiseKept), and with it the refinement.            *)
(***************************************************************************)
EXTENDS ComposerRefinement, Rendering_proofs

(* The parts of a list joined so far: what FlattenSeq's function is.       *)
Joint(g, s, n) == g = [j \in 1..n |-> IF j = 1 THEN s[j] ELSE g[j - 1] \o s[j]]

(* It exists ...                                                           *)
LEMMA JointExists ==
  ASSUME NEW s, NEW n \in Nat
  PROVE  \E g : Joint(g, s, n)
<1> DEFINE P == {k \in Nat : \E g : Joint(g, s, k)}
<1>1. 0 \in P
  <2> DEFINE g == [j \in 1..0 |-> 0]
  <2>1. Joint(g, s, 0)
    BY DEF Joint
  <2> QED
    BY <2>1
<1>2. ASSUME NEW k \in Nat, k < n, k \in P PROVE k + 1 \in P
  <2>1. PICK g : Joint(g, s, k)
    BY <1>2
  <2> DEFINE h == [j \in 1..(k + 1) |->
                     IF j = 1 THEN s[j] ELSE g[j - 1] \o s[j]]
  <2> DEFINE G(j) == IF j = 1 THEN s[j] ELSE g[j - 1] \o s[j]
  <2>6. \A j \in 1..k : g[j] = G(j)
    <3> HIDE DEF G
    <3>1. g = [j \in 1..k |-> G(j)]
      BY <2>1 DEF Joint, G
    <3> QED
      BY <3>1
  <2>2. \A j \in 1..k : h[j] = g[j]
    BY <2>6
  <2>3. \A j \in 1..(k + 1) : j # 1 => j - 1 \in 1..k
    OBVIOUS
  <2>7. \A j \in 1..(k + 1) : G(j) = IF j = 1 THEN s[j] ELSE h[j - 1] \o s[j]
    <3> HIDE DEF h
    <3> QED
      BY <2>2, <2>3
  <2>4. h = [j \in 1..(k + 1) |-> IF j = 1 THEN s[j] ELSE h[j - 1] \o s[j]]
    <3>1. h = [j \in 1..(k + 1) |-> G(j)]
      OBVIOUS
    <3> HIDE DEF h, G
    <3> QED
      BY <2>7, <3>1
  <2> HIDE DEF h
  <2>5. Joint(h, s, k + 1)
    BY <2>4 DEF Joint
  <2> QED
    BY <2>5
<1> HIDE DEF P
<1>3. n \in P
  BY <1>1, <1>2, UpTo
<1> QED
  BY <1>3 DEF P

(* ... is what FlattenSeq reads its result off ...                         *)
LEMMA FlattenJoint ==
  ASSUME NEW s, Len(s) \in Nat, Len(s) # 0
  PROVE  \E g : Joint(g, s, Len(s)) /\ FlattenSeq(s) = g[Len(s)]
<1> DEFINE g == CHOOSE h : h = [j \in 1..Len(s) |-> IF j = 1 THEN s[j] ELSE h[j - 1] \o s[j]]
<1>1. \E h : h = [j \in 1..Len(s) |-> IF j = 1 THEN s[j] ELSE h[j - 1] \o s[j]]
  BY JointExists DEF Joint
<1>2. g = [j \in 1..Len(s) |-> IF j = 1 THEN s[j] ELSE g[j - 1] \o s[j]]
  BY <1>1
<1>3. FlattenSeq(s) = g[Len(s)]
  BY DEF FlattenSeq
<1> QED
  BY <1>2, <1>3 DEF Joint

(* Each of its elements is the one before, extended by a part.             *)
LEMMA JointAt ==
  ASSUME NEW g, NEW s, NEW n \in Nat, Joint(g, s, n)
  PROVE  \A j \in 1..n : g[j] = IF j = 1 THEN s[j] ELSE g[j - 1] \o s[j]
<1> DEFINE G(j) == IF j = 1 THEN s[j] ELSE g[j - 1] \o s[j]
<1>1. g = [j \in 1..n |-> G(j)]
  BY DEF Joint
<1>2. \A j \in 1..n : g[j] = G(j)
  <2> HIDE DEF G
  <2> QED
    BY <1>1
<1> QED
  BY <1>2

(* ... and depends on the parts alone.                                     *)
Alike(s, t, n) == \A k \in 1..n : s[k] = t[k]

(* Lists that agree on their first n parts have the same first n joints.   *)
LEMMA JointAlike ==
  ASSUME NEW s, NEW t, NEW n \in Nat, NEW m \in Nat, n <= m, NEW g, NEW h,
         Joint(g, s, n), Joint(h, t, m), Alike(s, t, n), NEW j \in 1..n
  PROVE  g[j] = h[j]
<1> DEFINE P == {k \in Nat : \A a \in 1..k : a <= n => g[a] = h[a]}
<1>0. \A k \in 1..n : s[k] = t[k]
  BY DEF Alike
<1>1. \A a \in 1..n : g[a] = IF a = 1 THEN s[a] ELSE g[a - 1] \o s[a]
  BY JointAt
<1>2. \A a \in 1..n : h[a] = IF a = 1 THEN t[a] ELSE h[a - 1] \o t[a]
  <2>1. \A a \in 1..m : h[a] = IF a = 1 THEN t[a] ELSE h[a - 1] \o t[a]
    BY JointAt
  <2>2. \A a \in 1..n : a \in 1..m
    OBVIOUS
  <2> QED
    BY <2>1, <2>2
<1>3. 0 \in P
  OBVIOUS
<1>4. ASSUME NEW k \in Nat, k < n, k \in P PROVE k + 1 \in P
  <2>1. k + 1 \in 1..n /\ \A a \in 1..k : g[a] = h[a]
    BY <1>4
  <2>2. g[k + 1] = h[k + 1]
    <3>1. CASE k = 0
      BY <1>0, <1>1, <1>2, <2>1, <3>1
    <3>2. CASE k # 0
      <4>1. (k + 1) - 1 = k /\ k \in 1..k /\ k + 1 # 1
        BY <3>2
      <4>2. g[k] = h[k] /\ s[k + 1] = t[k + 1]
        BY <1>0, <2>1, <4>1
      <4>3. g[k + 1] = g[k] \o s[k + 1] /\ h[k + 1] = h[k] \o t[k + 1]
        BY <1>1, <1>2, <2>1, <4>1
      <4> QED
        BY <4>2, <4>3
    <3> QED
      BY <3>1, <3>2
  <2>3. \A a \in 1..(k + 1) : a \in 1..k \/ a = k + 1
    OBVIOUS
  <2> QED
    BY <2>1, <2>2, <2>3
<1> HIDE DEF P
<1>5. n \in P
  BY <1>3, <1>4, UpTo
<1> QED
  BY <1>5 DEF P

(* Nothing flattens to nothing.                                            *)
LEMMA FlatEmpty == FlattenSeq(<< >>) = << >>
BY DEF FlattenSeq

(* One part more is joined at the end.                                     *)
LEMMA FlatJoin ==
  ASSUME NEW n \in Nat, n # 0, NEW s, NEW t, Len(s) = n, Len(t) = n + 1,
         Alike(s, t, n)
  PROVE  FlattenSeq(t) = FlattenSeq(s) \o t[n + 1]
<1>1. PICK h : Joint(h, t, n + 1) /\ FlattenSeq(t) = h[n + 1]
  BY FlattenJoint
<1>2. PICK g : Joint(g, s, n) /\ FlattenSeq(s) = g[n]
  BY FlattenJoint
<1>3. n + 1 \in Nat /\ n <= n + 1 /\ n \in 1..n /\ n + 1 \in 1..(n + 1)
  OBVIOUS
<1>4. g[n] = h[n]
  BY <1>1, <1>2, <1>3, JointAlike
<1>5. h[n + 1] = IF n + 1 = 1 THEN t[n + 1] ELSE h[(n + 1) - 1] \o t[n + 1]
  BY <1>1, <1>3, JointAt
<1>6. (n + 1) - 1 = n /\ n + 1 # 1
  OBVIOUS
<1> QED
  BY <1>1, <1>2, <1>4, <1>5, <1>6

(* The same, with the agreement spelled out.                               *)
LEMMA FlatGrow ==
  ASSUME NEW S, NEW T, NEW n \in Nat, NEW s \in Seq(S), NEW t \in Seq(S), Len(s) = n,
         Len(t) = n + 1, \A k \in 1..n : s[k] = t[k], t[n + 1] \in Seq(T)
  PROVE  FlattenSeq(t) = FlattenSeq(s) \o t[n + 1]
<1>1. CASE n = 0
  <2>1. s = << >> /\ n + 1 = 1
    BY <1>1
  <2>2. FlattenSeq(s) = << >>
    BY <2>1, FlatEmpty
  <2>3. PICK h : Joint(h, t, n + 1) /\ FlattenSeq(t) = h[n + 1]
    BY FlattenJoint
  <2>4. h[n + 1] = t[n + 1]
    <3>1. n + 1 \in Nat /\ n + 1 \in 1..(n + 1)
      OBVIOUS
    <3> QED
      BY <2>1, <2>3, <3>1, JointAt
  <2>5. << >> \o t[n + 1] = t[n + 1]
    OBVIOUS
  <2> QED
    BY <2>2, <2>3, <2>4, <2>5
<1>2. CASE n # 0
  <2>1. Alike(s, t, n)
    BY DEF Alike
  <2> QED
    BY <1>2, <2>1, FlatJoin
<1> QED
  BY <1>1, <1>2

(* Lists, as the parts of a list.                                          *)
Lists(T) == Seq(T)

(* The first parts of a list of parts.                                     *)
LEMMA LeadingType ==
  ASSUME NEW T, NEW s \in Seq(T), NEW k \in 0..Len(s)
  PROVE  /\ Leading(s, k) \in Seq(T) /\ Len(Leading(s, k)) = k
         /\ \A j \in 1..k : Leading(s, k)[j] = s[j]
         /\ Leading(s, 0) = << >> /\ Leading(s, Len(s)) = s
<1>1. \A j \in 1..k : s[j] \in T
  OBVIOUS
<1> QED
  BY <1>1 DEF Leading

(* Lists can be joined, ...                                                *)
LEMMA ListsJoin ==
  ASSUME NEW T, NEW a \in Lists(T), NEW b \in Lists(T)
  PROVE  a \o b \in Lists(T)
BY DEF Lists

(* ... in any grouping, ...                                                *)
LEMMA ListsAssociate ==
  ASSUME NEW T, NEW a \in Lists(T), NEW b \in Lists(T), NEW c \in Lists(T)
  PROVE  (a \o b) \o c = a \o (b \o c)
BY DEF Lists

(* ... starting from the empty one, ...                                    *)
LEMMA ListsEmpty ==
  ASSUME NEW T
  PROVE  << >> \in Lists(T)
BY DEF Lists

(* ... which joins to nothing.                                             *)
LEMMA EmptyJoins ==
  ASSUME NEW T, NEW a \in Lists(T)
  PROVE  << >> \o a = a /\ a \o << >> = a
BY DEF Lists

(* Flattening one part more appends that part.                             *)
LEMMA FlatAppend ==
  ASSUME NEW T, NEW s \in Seq(Lists(T)), NEW x \in Lists(T)
  PROVE  FlattenSeq(Append(s, x)) = FlattenSeq(s) \o x
<1> DEFINE S == Lists(T)
           t == Append(s, x)
           n == Len(s)
<1> HIDE DEF S
<1>1. n \in Nat /\ t \in Seq(S) /\ s \in Seq(S) /\ Len(t) = n + 1 /\ t[n + 1] = x
      /\ \A k \in 1..n : s[k] = t[k]
  BY DEF S
<1> HIDE DEF t, n
<1>2. Len(s) = n /\ t[n + 1] \in Seq(T)
  BY <1>1 DEF n, Lists
<1>3. FlattenSeq(t) = FlattenSeq(s) \o t[n + 1]
  BY <1>1, <1>2, FlatGrow
<1> QED
  BY <1>1, <1>3 DEF t

(* One leading part more is one part appended.                             *)
LEMMA LeadingGrows ==
  ASSUME NEW S, NEW s \in Seq(S), NEW k \in Nat, k < Len(s)
  PROVE  /\ Leading(s, k) \in Seq(S) /\ s[k + 1] \in S
         /\ Leading(s, k + 1) = Append(Leading(s, k), s[k + 1])
<1>1. k \in 0..Len(s) /\ k + 1 \in 0..Len(s) /\ k + 1 \in 1..Len(s)
  OBVIOUS
<1>2. Leading(s, k) \in Seq(S)
  BY <1>1, LeadingType
<1>3. s[k + 1] \in S
  BY <1>1
<1> QED
  BY <1>1, <1>2, <1>3 DEF Leading

(* A loop that has flattened k parts gets to k + 1 by joining the next:    *)
(* the step of every loop of compose().                                    *)
LEMMA FlatStep ==
  ASSUME NEW T, NEW s \in Seq(Lists(T)), NEW k \in Nat, k < Len(s)
  PROVE  /\ s[k + 1] \in Lists(T)
         /\ FlattenSeq(Leading(s, k + 1)) = FlattenSeq(Leading(s, k)) \o s[k + 1]
<1>1. /\ Leading(s, k) \in Seq(Lists(T)) /\ s[k + 1] \in Lists(T)
      /\ Leading(s, k + 1) = Append(Leading(s, k), s[k + 1])
  BY LeadingGrows
<1> QED
  BY <1>1, FlatAppend

(* Such a loop starts with nothing and ends with everything.               *)
LEMMA FlatEnds ==
  ASSUME NEW S, NEW s \in Seq(S)
  PROVE  /\ FlattenSeq(Leading(s, 0)) = << >>
         /\ FlattenSeq(Leading(s, Len(s))) = FlattenSeq(s)
<1>1. Len(s) \in 0..Len(s) /\ 0 \in 0..Len(s)
  OBVIOUS
<1>2. Leading(s, 0) = << >> /\ Leading(s, Len(s)) = s
  BY <1>1, LeadingType
<1> QED
  BY <1>2, FlatEmpty

(* A list of lists flattens to a list.                                     *)
LEMMA FlatType ==
  ASSUME NEW T, NEW s \in Seq(Lists(T))
  PROVE  FlattenSeq(s) \in Lists(T)
<1> DEFINE F(k) == FlattenSeq(Leading(s, k))
           P == {k \in Nat : k <= Len(s) => F(k) \in Lists(T)}
<1>1. Len(s) \in Nat
  OBVIOUS
<1>2. F(0) = << >> /\ F(Len(s)) = FlattenSeq(s)
  BY FlatEnds
<1>3. \A k \in Nat : k < Len(s) => s[k + 1] \in Lists(T) /\ F(k + 1) = F(k) \o s[k + 1]
  BY FlatStep
<1> HIDE DEF F
<1>4. 0 \in P
  BY <1>2, ListsEmpty
<1>5. ASSUME NEW k \in Nat, k < Len(s), k \in P PROVE k + 1 \in P
  <2>1. F(k) \in Lists(T) /\ s[k + 1] \in Lists(T)
    BY <1>3, <1>5
  <2>2. F(k) \o s[k + 1] \in Lists(T)
    BY <2>1, ListsJoin
  <2>3. F(k + 1) = F(k) \o s[k + 1]
    BY <1>3, <1>5
  <2>4. F(k + 1) \in Lists(T)
    BY <2>2, <2>3, Zenon
  <2> QED
    BY <2>4
<1> HIDE DEF P
<1>6. Len(s) \in P
  <2>1. \A k \in 0..Len(s) : k \in P
    BY <1>1, <1>4, <1>5, UpTo
  <2> QED
    BY <1>1, <2>1
<1> QED
  BY <1>1, <1>2, <1>6 DEF P

(* Two lists joined flatten to what each flattens to, joined.              *)
LEMMA FlatConcat ==
  ASSUME NEW T, NEW s \in Seq(Lists(T)), NEW t \in Seq(Lists(T))
  PROVE  FlattenSeq(s \o t) = FlattenSeq(s) \o FlattenSeq(t)
<1> DEFINE u    == Leading(t, 0)
           L(k) == FlattenSeq(s \o Leading(t, k))
           R(k) == FlattenSeq(Leading(t, k))
           f    == FlattenSeq(s)
           P    == {k \in Nat : k <= Len(t) => L(k) = f \o R(k)}
<1>1. Len(t) \in Nat /\ Len(t) \in 0..Len(t) /\ 0 \in 0..Len(t)
  OBVIOUS
<1>2. f \in Lists(T)
  BY FlatType
<1>3. Leading(t, 0) = << >> /\ Leading(t, Len(t)) = t
  BY <1>1, LeadingType
<1>4. L(0) = f /\ R(0) = << >>
  <2>1. s \o << >> = s
    OBVIOUS
  <2> QED
    BY <1>3, <2>1, FlatEmpty
<1>5. L(Len(t)) = FlattenSeq(s \o t) /\ R(Len(t)) = FlattenSeq(t)
  BY <1>3
<1>6. ASSUME NEW k \in Nat, k < Len(t)
      PROVE  /\ L(k + 1) = L(k) \o t[k + 1]
             /\ R(k + 1) = R(k) \o t[k + 1]
             /\ R(k) \in Lists(T) /\ t[k + 1] \in Lists(T)
  <2> DEFINE v == Leading(t, k)
             x == t[k + 1]
  <2>1. v \in Seq(Lists(T)) /\ x \in Lists(T) /\ Leading(t, k + 1) = Append(v, x)
    BY <1>6, LeadingGrows
  <2>2. L(k) = FlattenSeq(s \o v) /\ L(k + 1) = FlattenSeq(s \o Append(v, x))
    BY <2>1
  <2>3. R(k) = FlattenSeq(v) /\ R(k + 1) = FlattenSeq(Append(v, x))
    BY <2>1
  <2> HIDE DEF v, x, L, R
  <2>4. s \o v \in Seq(Lists(T)) /\ s \o Append(v, x) = Append(s \o v, x)
    BY <2>1
  <2>5. L(k + 1) = L(k) \o x
    BY <2>1, <2>2, <2>4, FlatAppend
  <2>6. R(k + 1) = R(k) \o x /\ R(k) \in Lists(T)
    BY <2>1, <2>3, FlatAppend, FlatType
  <2> QED
    BY <2>1, <2>5, <2>6 DEF x
<1> HIDE DEF L, R, f
<1>7. 0 \in P
  <2>1. f \o << >> = f
    BY <1>2, EmptyJoins
  <2> QED
    BY <1>4, <2>1
<1>8. ASSUME NEW k \in Nat, k < Len(t), k \in P PROVE k + 1 \in P
  <2> DEFINE x == t[k + 1]
  <2>1. L(k) = f \o R(k) /\ R(k) \in Lists(T) /\ x \in Lists(T)
    BY <1>6, <1>8
  <2>2. L(k + 1) = L(k) \o x /\ R(k + 1) = R(k) \o x
    BY <1>6, <1>8
  <2> HIDE DEF x
  <2>3. (f \o R(k)) \o x = f \o (R(k) \o x)
    BY <1>2, <2>1, ListsAssociate
  <2>4. L(k + 1) = f \o R(k + 1)
    BY <2>1, <2>2, <2>3
  <2> QED
    BY <2>4
<1> HIDE DEF P
<1>9. Len(t) \in P
  <2>1. \A k \in 0..Len(t) : k \in P
    BY <1>1, <1>7, <1>8, UpTo
  <2> QED
    BY <1>1, <2>1
<1>10. L(Len(t)) = f \o R(Len(t))
  BY <1>1, <1>9 DEF P
<1> QED
  BY <1>5, <1>10 DEF f

(* Every part empty, nothing to join.                                      *)
LEMMA FlatNothing ==
  ASSUME NEW T, NEW s \in Seq(Lists(T)), \A k \in 1..Len(s) : s[k] = << >>
  PROVE  FlattenSeq(s) = << >>
<1> DEFINE F(k) == FlattenSeq(Leading(s, k))
           P == {k \in Nat : k <= Len(s) => F(k) = << >>}
<1>1. Len(s) \in Nat
  OBVIOUS
<1>2. F(0) = << >> /\ F(Len(s)) = FlattenSeq(s)
  BY FlatEnds
<1>3. \A k \in Nat : k < Len(s) => F(k + 1) = F(k) \o s[k + 1]
  BY FlatStep
<1>4. \A k \in Nat : k < Len(s) => k + 1 \in 1..Len(s)
  BY <1>1
<1>5. << >> \o << >> = << >>
  OBVIOUS
<1> HIDE DEF F
<1>6. 0 \in P
  BY <1>2
<1>7. ASSUME NEW k \in Nat, k < Len(s), k \in P PROVE k + 1 \in P
  <2>1. F(k) = << >> /\ s[k + 1] = << >>
    BY <1>4, <1>7
  <2>2. F(k + 1) = << >>
    BY <1>3, <1>5, <1>7, <2>1
  <2> QED
    BY <2>2
<1> HIDE DEF P
<1>8. Len(s) \in P
  <2>1. \A k \in 0..Len(s) : k \in P
    BY <1>1, <1>6, <1>7, UpTo
  <2> QED
    BY <1>1, <2>1
<1> QED
  BY <1>1, <1>2, <1>8 DEF P

(* A list cut into single elements joins to itself.                        *)
LEMMA FlatSingles ==
  ASSUME NEW T, NEW v \in Seq(T), NEW s \in Seq(Lists(T)), Len(s) = Len(v),
         \A k \in 1..Len(v) : s[k] = <<v[k]>>
  PROVE  FlattenSeq(s) = v
<1> DEFINE F(k) == FlattenSeq(Leading(s, k))
           L(k) == Leading(v, k)
           P == {k \in Nat : k <= Len(s) => F(k) = L(k)}
<1>1. Len(s) \in Nat
  OBVIOUS
<1>2. F(0) = << >> /\ F(Len(s)) = FlattenSeq(s)
  BY FlatEnds
<1>3. L(0) = << >> /\ L(Len(s)) = v
  <2>1. 0 \in 0..Len(v) /\ Len(v) \in 0..Len(v)
    OBVIOUS
  <2> QED
    BY <2>1, LeadingType
<1>4. \A k \in Nat : k < Len(s) => F(k + 1) = F(k) \o s[k + 1]
  BY FlatStep
<1>5. ASSUME NEW k \in Nat, k < Len(s)
      PROVE  L(k + 1) = L(k) \o s[k + 1]
  <2> DEFINE l == L(k)
             x == v[k + 1]
  <2>1. l \in Seq(T) /\ x \in T /\ L(k + 1) = Append(l, x)
    BY <1>5, LeadingGrows
  <2>2. s[k + 1] = <<x>>
    BY <1>5
  <2> HIDE DEF l, x
  <2>3. Append(l, x) = l \o <<x>>
    BY <2>1
  <2> QED
    BY <2>1, <2>2, <2>3 DEF l
<1> HIDE DEF F, L
<1>6. 0 \in P
  BY <1>2, <1>3
<1>7. ASSUME NEW k \in Nat, k < Len(s), k \in P PROVE k + 1 \in P
  <2>1. F(k) = L(k)
    BY <1>7
  <2>2. F(k + 1) = L(k + 1)
    BY <1>4, <1>5, <1>7, <2>1
  <2> QED
    BY <2>2
<1> HIDE DEF P
<1>8. Len(s) \in P
  <2>1. \A k \in 0..Len(s) : k \in P
    BY <1>1, <1>6, <1>7, UpTo
  <2> QED
    BY <1>1, <2>1
<1> QED
  BY <1>1, <1>2, <1>3, <1>8 DEF P
-----------------------------------------------------------------------------
(* What the tokens of a text were written for.                             *)
Meant == Values \cup Keys
Words == Tokens(Values) \cup KeyTokens

Part(t, kind)    == IF t.kind = kind THEN <<t.means>> ELSE << >>
Parts(sql, kind) == [k \in DOMAIN sql |-> Part(sql[k], kind)]

(* Meanings flattens what the single tokens say.                           *)
LEMMA MeaningsParts == \A sql, kind : Meanings(sql, kind) = FlattenSeq(Parts(sql, kind))
BY DEF Meanings, Parts, Part

(* A token says nothing or one thing, ...                                  *)
LEMMA PartType ==
  ASSUME NEW t \in Words, NEW kind
  PROVE  Part(t, kind) \in Lists(Meant)
<1>1. t.means \in Meant
  BY DEF Words, Tokens, KeyTokens, Meant
<1>2. <<t.means>> \in Seq(Meant) /\ << >> \in Seq(Meant)
  BY <1>1
<1> QED
  BY <1>2 DEF Part, Lists

(* ... and the parts of a text line up with its tokens.                    *)
LEMMA PartsType ==
  ASSUME NEW sql \in Seq(Words), NEW kind
  PROVE  /\ Parts(sql, kind) \in Seq(Lists(Meant)) /\ Len(Parts(sql, kind)) = Len(sql)
         /\ \A k \in 1..Len(sql) : Parts(sql, kind)[k] = Part(sql[k], kind)
<1> DEFINE p == Parts(sql, kind)
<1>1. Len(sql) \in Nat /\ DOMAIN sql = 1..Len(sql) /\ \A k \in 1..Len(sql) : sql[k] \in Words
  OBVIOUS
<1>2. p = [k \in 1..Len(sql) |-> p[k]] /\ \A k \in 1..Len(sql) : p[k] = Part(sql[k], kind)
  BY <1>1 DEF Parts
<1> HIDE DEF p
<1>3. \A k \in 1..Len(sql) : p[k] \in Lists(Meant)
  BY <1>1, <1>2, PartType
<1>4. p \in Seq(Lists(Meant)) /\ Len(p) = Len(sql)
  BY <1>1, <1>2, <1>3, ListIsSeq
<1> QED
  BY <1>2, <1>4 DEF p

(* What a text says is a list of values or keys.                           *)
LEMMA MeaningsType ==
  ASSUME NEW sql \in Seq(Words), NEW kind
  PROVE  Meanings(sql, kind) \in Lists(Meant)
BY PartsType, FlatType, MeaningsParts

(* The empty text says nothing.                                            *)
LEMMA MeaningsEmpty ==
  ASSUME NEW kind
  PROVE  Meanings(<< >>, kind) = << >>
<1>1. Parts(<< >>, kind) = << >>
  BY DEF Parts
<1> QED
  BY <1>1, FlatEmpty, MeaningsParts

(* Two texts in a row say what the first says, then the second.            *)
LEMMA MeaningsConcat ==
  ASSUME NEW a \in Seq(Words), NEW b \in Seq(Words), NEW kind
  PROVE  Meanings(a \o b, kind) = Meanings(a, kind) \o Meanings(b, kind)
<1> DEFINE c == a \o b
           p == Parts(a, kind)
           q == Parts(b, kind)
           r == Parts(c, kind)
<1>1. /\ c \in Seq(Words) /\ Len(c) = Len(a) + Len(b) /\ Len(a) \in Nat /\ Len(b) \in Nat
      /\ \A k \in 1..Len(a) : c[k] = a[k]
      /\ \A k \in 1..Len(b) : c[Len(a) + k] = b[k]
  BY Concatenation
<1> HIDE DEF c
<1>2. /\ p \in Seq(Lists(Meant)) /\ Len(p) = Len(a)
      /\ \A k \in 1..Len(a) : p[k] = Part(a[k], kind)
  BY PartsType
<1>3. /\ q \in Seq(Lists(Meant)) /\ Len(q) = Len(b)
      /\ \A k \in 1..Len(b) : q[k] = Part(b[k], kind)
  BY PartsType
<1>4. /\ r \in Seq(Lists(Meant)) /\ Len(r) = Len(a) + Len(b)
      /\ \A k \in 1..(Len(a) + Len(b)) : r[k] = Part(c[k], kind)
  BY <1>1, PartsType
<1> HIDE DEF p, q, r
<1> DEFINE u == p \o q
<1>5. /\ u \in Seq(Lists(Meant)) /\ Len(u) = Len(p) + Len(q)
      /\ \A k \in 1..Len(p) : u[k] = p[k]
      /\ \A k \in 1..Len(q) : u[Len(p) + k] = q[k]
  <2>1. p \in Seq(Lists(Meant)) /\ q \in Seq(Lists(Meant))
    BY <1>2, <1>3
  <2> QED
    BY <2>1, Concatenation
<1> HIDE DEF u
<1>6. ASSUME NEW k \in 1..(Len(a) + Len(b)) PROVE r[k] = u[k]
  <2>1. CASE k \in 1..Len(a)
    BY <1>1, <1>2, <1>4, <1>5, <2>1
  <2>2. CASE k \notin 1..Len(a)
    <3> DEFINE j == k - Len(a)
    <3>1. j \in 1..Len(b) /\ k = Len(a) + j
      BY <1>1, <2>2
    <3> HIDE DEF j
    <3> QED
      BY <1>1, <1>2, <1>3, <1>4, <1>5, <3>1
  <2> QED
    BY <2>1, <2>2
<1>7. r = p \o q
  <2>1. Len(u) = Len(r) /\ \A k \in 1..Len(r) : r[k] = u[k]
    BY <1>2, <1>3, <1>4, <1>5, <1>6
  <2>2. r = u
    BY <1>4, <1>5, <2>1
  <2> QED
    BY <2>2 DEF u
<1>8. FlattenSeq(r) = FlattenSeq(p) \o FlattenSeq(q)
  BY <1>2, <1>3, <1>7, FlatConcat
<1> QED
  BY <1>8, MeaningsParts DEF p, q, r, c

(* A token more says that token's meaning more.                            *)
LEMMA MeaningsAppend ==
  ASSUME NEW a \in Seq(Words), NEW t \in Words, NEW kind
  PROVE  Meanings(Append(a, t), kind) = Meanings(a, kind) \o Part(t, kind)
<1>1. Parts(Append(a, t), kind) = Append(Parts(a, kind), Part(t, kind))
  <2> DEFINE p == Parts(a, kind)
             q == Parts(Append(a, t), kind)
             x == Part(t, kind)
  <2>1. p \in Seq(Lists(Meant)) /\ Len(p) = Len(a) /\ \A k \in 1..Len(a) : p[k] = Part(a[k], kind)
    BY PartsType
  <2>2. /\ Append(a, t) \in Seq(Words) /\ Len(Append(a, t)) = Len(a) + 1
        /\ \A k \in 1..Len(a) : Append(a, t)[k] = a[k]
        /\ Append(a, t)[Len(a) + 1] = t /\ Len(a) \in Nat
    OBVIOUS
  <2>3. q \in Seq(Lists(Meant)) /\ Len(q) = Len(a) + 1
        /\ \A k \in 1..(Len(a) + 1) : q[k] = Part(Append(a, t)[k], kind)
    BY <2>2, PartsType
  <2>4. x \in Lists(Meant)
    BY PartType
  <2>5. \A k \in 1..Len(a) : q[k] = p[k]
    BY <2>1, <2>2, <2>3
  <2>6. q[Len(a) + 1] = x
    BY <2>2, <2>3
  <2> HIDE DEF p, q, x
  <2>7. q = Append(p, x)
    BY <2>1, <2>2, <2>3, <2>4, <2>5, <2>6
  <2> QED
    BY <2>7 DEF p, q, x
<1>2. Parts(a, kind) \in Seq(Lists(Meant)) /\ Part(t, kind) \in Lists(Meant)
  BY PartsType, PartType
<1> QED
  BY <1>1, <1>2, FlatAppend, MeaningsParts

(* Texts that differ in their numbers only mean the same.                  *)
LEMMA MeaningsAlike ==
  ASSUME NEW a, NEW b, NEW kind, DOMAIN a = DOMAIN b,
         \A k \in DOMAIN a : a[k].kind = b[k].kind /\ a[k].means = b[k].means
  PROVE  Meanings(a, kind) = Meanings(b, kind)
<1>1. Parts(a, kind) = Parts(b, kind)
  BY DEF Parts, Part
<1> QED
  BY <1>1, MeaningsParts

(* A text without tokens of a kind says nothing of it.                     *)
LEMMA MeaningsNone ==
  ASSUME NEW sql \in Seq(Words), NEW kind, \A k \in DOMAIN sql : sql[k].kind # kind
  PROVE  Meanings(sql, kind) = << >>
<1> DEFINE p == Parts(sql, kind)
<1>1. /\ p \in Seq(Lists(Meant)) /\ Len(p) = Len(sql)
      /\ \A k \in 1..Len(sql) : p[k] = Part(sql[k], kind)
  BY PartsType
<1>2. \A k \in 1..Len(sql) : Part(sql[k], kind) = << >>
  BY DEF Part
<1> HIDE DEF p
<1>3. FlattenSeq(p) = << >>
  BY <1>1, <1>2, FlatNothing
<1> QED
  BY <1>3, MeaningsParts DEF p

(* A text that has only tokens of a kind says what they say, in order.     *)
LEMMA MeaningsAll ==
  ASSUME NEW sql \in Seq(Words), NEW kind, NEW v \in Seq(Meant), Len(v) = Len(sql),
         \A k \in 1..Len(sql) : sql[k].kind = kind /\ sql[k].means = v[k]
  PROVE  Meanings(sql, kind) = v
<1> DEFINE p == Parts(sql, kind)
<1>1. /\ p \in Seq(Lists(Meant)) /\ Len(p) = Len(sql)
      /\ \A k \in 1..Len(sql) : p[k] = Part(sql[k], kind)
  BY PartsType
<1>2. \A k \in 1..Len(v) : Part(sql[k], kind) = <<v[k]>>
  BY DEF Part
<1> HIDE DEF p
<1>3. Len(p) = Len(v) /\ \A k \in 1..Len(v) : p[k] = <<v[k]>>
  BY <1>1, <1>2
<1>4. FlattenSeq(p) = v
  BY <1>1, <1>3, FlatSingles
<1> QED
  BY <1>4, MeaningsParts DEF p

(* The instance of the promise flattens as we do.                          *)
LEMMA SameFlat == \A s : Promise!FlattenSeq(s) = FlattenSeq(s)
BY DEF Promise!FlattenSeq, FlattenSeq

(* A fragment's text is a text.                                            *)
LEMMA FragmentWords ==
  ASSUME NEW sql \in Seq(Tokens(Values))
  PROVE  sql \in Seq(Words)
<1>1. Tokens(Values) \subseteq Words
  BY DEF Words
<1> QED
  BY <1>1, SeqMonotonic

(* The statement's text consists of words.                                 *)
LEMMA TextWords == Text = Seq(Words)
BY DEF Text, Words

(* A value is a pair of natural numbers.                                   *)
LEMMA ValueMeant ==
  ASSUME NEW a \in Nat, NEW n \in Nat
  PROVE  <<a, n>> \in Values /\ <<a, n>> \in Meant
BY DEF Values, Meant

(* What a text names is a list of values.                                  *)
LEMMA NamedType ==
  ASSUME NEW text \in ClauseTexts, NEW author \in Nat
  PROVE  Promise!Named(text, author) \in Lists(Meant)
<1> DEFINE P(k) == IF text[k].kind = "number" THEN << <<author, text[k].number>> >> ELSE << >>
           s    == [k \in DOMAIN text |-> P(k)]
<1>1. /\ Len(text) \in Nat /\ DOMAIN text = 1..Len(text)
      /\ \A k \in 1..Len(text) : text[k].number \in Nat
  <2>1. text \in Seq(ClauseTokens)
    BY DEF ClauseTexts
  <2>2. Len(text) \in Nat /\ DOMAIN text = 1..Len(text)
        /\ \A k \in 1..Len(text) : text[k] \in ClauseTokens
    BY <2>1
  <2> QED
    BY <2>2 DEF ClauseTokens
<1>2. \A k \in 1..Len(text) : <<author, text[k].number>> \in Meant
  BY <1>1, ValueMeant
<1>3. \A k \in 1..Len(text) : P(k) \in Lists(Meant)
  <2>1. SUFFICES ASSUME NEW k \in 1..Len(text) PROVE P(k) \in Lists(Meant)
    OBVIOUS
  <2> DEFINE v == <<author, text[k].number>>
  <2>2. v \in Meant
    BY <1>2
  <2> HIDE DEF v
  <2>3. <<v>> \in Seq(Meant) /\ << >> \in Seq(Meant)
    BY <2>2
  <2> QED
    BY <2>3 DEF Lists, v
<1>4. s = [k \in 1..Len(text) |-> s[k]] /\ \A k \in 1..Len(text) : s[k] = P(k)
  BY <1>1
<1>5. Promise!Named(text, author) = FlattenSeq(s)
  BY SameFlat DEF Promise!Named
<1> HIDE DEF s, P
<1>6. s \in Seq(Lists(Meant))
  BY <1>1, <1>3, <1>4, ListIsSeq
<1> QED
  BY <1>5, <1>6, FlatType

(* A clause means what its author names in it.                             *)
LEMMA AuthorMeanings ==
  ASSUME NEW c \in [text : ClauseTexts, bound : Nat], NEW author \in Nat
  PROVE  /\ Meanings(Author(c, author).sql, "number") = Promise!Named(c.text, author)
         /\ Author(c, author).sql # << >> <=> c.text # << >>
<1> DEFINE f == Author(c, author)
           text == c.text
<1>1. /\ f \in Fragments /\ DOMAIN f.sql = DOMAIN text
      /\ \A k \in DOMAIN text :
           f.sql[k] = Token(text[k].kind, text[k].number, <<author, text[k].number>>)
  BY AuthorType
<1>2. text \in Seq(ClauseTokens) /\ f.sql \in Seq(Tokens(Values))
  BY <1>1 DEF ClauseTexts, Fragments
<1>7. Len(text) \in Nat /\ DOMAIN text = 1..Len(text)
  BY <1>2
<1> HIDE DEF f, text
<1>3. \A k \in DOMAIN text :
        f.sql[k].kind = text[k].kind /\ f.sql[k].means = <<author, text[k].number>>
  <2>1. SUFFICES ASSUME NEW k \in DOMAIN text
                 PROVE  f.sql[k].kind = text[k].kind /\ f.sql[k].means = <<author, text[k].number>>
    OBVIOUS
  <2>2. f.sql[k] = Token(text[k].kind, text[k].number, <<author, text[k].number>>)
    BY <1>1
  <2> QED
    BY <2>2 DEF Token
<1>4. Parts(f.sql, "number") =
        [k \in DOMAIN text |->
           IF text[k].kind = "number" THEN << <<author, text[k].number>> >> ELSE << >>]
  BY <1>1, <1>3 DEF Parts, Part
<1>5. Meanings(f.sql, "number") = Promise!Named(text, author)
  BY <1>4, MeaningsParts, SameFlat DEF Promise!Named
<1>6. f.sql # << >> <=> text # << >>
  BY <1>1, <1>2
<1> QED
  BY <1>5, <1>6 DEF f, text

(* Shifting the numbers changes nothing of what a text says.               *)
LEMMA ShiftMeanings ==
  ASSUME NEW sql \in Seq(Tokens(Values)), NEW offset \in Nat, NEW kind
  PROVE  /\ Meanings(ShiftPlaceholderNumbers(sql, offset), kind) = Meanings(sql, kind)
         /\ ShiftPlaceholderNumbers(sql, offset) \in Seq(Tokens(Values))
         /\ ShiftPlaceholderNumbers(sql, offset) = << >> <=> sql = << >>
<1> DEFINE s == ShiftPlaceholderNumbers(sql, offset)
<1>1. /\ s \in Seq(Tokens(Values)) /\ Len(s) = Len(sql) /\ Len(sql) \in Nat
      /\ \A k \in 1..Len(sql) : s[k].means = sql[k].means
  BY ShiftText
<1>2. \A k \in 1..Len(sql) : s[k].kind = sql[k].kind
  BY DEF ShiftPlaceholderNumbers, Token, IsNumber
<1>3. DOMAIN sql = 1..Len(sql)
  OBVIOUS
<1> HIDE DEF s
<1>4. DOMAIN s = DOMAIN sql
  BY <1>1, <1>3
<1>5. Meanings(s, kind) = Meanings(sql, kind)
  BY <1>1, <1>2, <1>3, <1>4, MeaningsAlike
<1>6. s = << >> <=> sql = << >>
  BY <1>1
<1> QED
  BY <1>1, <1>5, <1>6 DEF s

(* Two clauses combined mean what the first means, then what the second.   *)
LEMMA CombineMeanings ==
  ASSUME NEW f \in Fragments, NEW g \in Fragments
  PROVE  /\ Meanings(Combine(f, g).sql, "number") =
              Meanings(f.sql, "number") \o Meanings(g.sql, "number")
         /\ Combine(f, g).sql # << >> <=> f.sql # << >> \/ g.sql # << >>
         /\ Meanings(f.sql, "number") \in Lists(Meant)
         /\ Meanings(g.sql, "number") \in Lists(Meant)
<1> DEFINE m == MaxPlaceholderNumber(f.sql)
           s == ShiftPlaceholderNumbers(g.sql, m)
           M(sql) == Meanings(sql, "number")
<1>1. f.sql \in Seq(Tokens(Values)) /\ g.sql \in Seq(Tokens(Values))
  BY DEF Fragments
<1>2. m \in Nat
  <2>1. \A k \in DOMAIN f.sql : f.sql[k] \in Tokens(Values)
    BY <1>1
  <2>2. \A k \in DOMAIN f.sql : f.sql[k].number \in Nat
    BY <2>1 DEF Tokens
  <2> QED
    BY <1>1, <2>2, MaxPlaceholderNumberIsMax
<1> HIDE DEF m
<1>3. M(s) = M(g.sql) /\ s \in Seq(Tokens(Values)) /\ (s = << >> <=> g.sql = << >>)
  BY <1>1, <1>2, ShiftMeanings
<1> HIDE DEF s
<1>4. f.sql \in Seq(Words) /\ g.sql \in Seq(Words) /\ s \in Seq(Words)
  BY <1>1, <1>3, FragmentWords
<1>5. M(f.sql \o s) = M(f.sql) \o M(s)
  <2>1. \A kind : Meanings(f.sql \o s, kind) = Meanings(f.sql, kind) \o Meanings(s, kind)
    BY <1>4, MeaningsConcat
  <2> QED
    BY <2>1
<1>6. M(<< >>) = << >> /\ M(f.sql) \in Lists(Meant) /\ M(g.sql) \in Lists(Meant)
  BY <1>4, MeaningsEmpty, MeaningsType
<1> HIDE DEF M
<1>10. M(Combine(f, g).sql) = M(f.sql) \o M(g.sql)
       /\ (Combine(f, g).sql # << >> <=> f.sql # << >> \/ g.sql # << >>)
  <2>7. CASE g.sql = << >>
    <3>1. Combine(f, g) = f
      BY <2>7 DEF Combine, IsEmpty
    <3>2. M(f.sql) \o << >> = M(f.sql)
      BY <1>6, EmptyJoins
    <3> QED
      BY <1>6, <2>7, <3>1, <3>2
  <2>8. CASE g.sql # << >> /\ f.sql = << >>
    <3>1. Combine(f, g) = g
      BY <2>8 DEF Combine, IsEmpty
    <3>2. << >> \o M(g.sql) = M(g.sql)
      BY <1>6, EmptyJoins
    <3> QED
      BY <1>6, <2>8, <3>1, <3>2
  <2>9. CASE g.sql # << >> /\ f.sql # << >>
    <3>1. Combine(f, g).sql = f.sql \o s
      BY <2>9 DEF Combine, IsEmpty, Fragment, s, m
    <3>2. f.sql \o s # << >>
      <4>1. Len(f.sql \o s) = Len(f.sql) + Len(s) /\ Len(f.sql) \in Nat /\ Len(s) \in Nat
        BY <1>4, Concatenation
      <4>2. Len(s) # 0
        BY <1>3, <1>4, <2>9
      <4>3. Len(f.sql \o s) # 0
        BY <4>1, <4>2
      <4> QED
        BY <4>3
    <3> QED
      BY <1>3, <1>5, <2>9, <3>1, <3>2
  <2> QED
    BY <2>7, <2>8, <2>9
<1> QED
  BY <1>6, <1>10 DEF M

(* A branch of the cursor's clause means the first of its values.          *)
LEMMA BranchMeanings ==
  ASSUME NEW b \in Nat
  PROVE  /\ Meanings(Branch(b), "number") = [j \in 1..b |-> <<AuthorCursor, j>>]
         /\ [j \in 1..b |-> <<AuthorCursor, j>>] \in Lists(Meant)
         /\ Branch(b) \in Seq(Words)
<1> DEFINE v == [j \in 1..b |-> <<AuthorCursor, j>>]
<1>1. /\ Branch(b) \in Seq(Tokens(Values)) /\ Len(Branch(b)) = b
      /\ \A j \in 1..b : Branch(b)[j] = Token("number", j, <<AuthorCursor, j>>)
  BY BranchType
<1>2. v = [j \in 1..b |-> v[j]] /\ \A j \in 1..b : v[j] = <<AuthorCursor, j>>
  OBVIOUS
<1>3. \A j \in 1..b : v[j] \in Meant
  <2>1. SUFFICES ASSUME NEW j \in 1..b PROVE v[j] \in Meant
    OBVIOUS
  <2>2. AuthorCursor \in Nat /\ j \in Nat
    BY DEF AuthorCursor
  <2>3. <<AuthorCursor, j>> \in Meant
    BY <2>2, ValueMeant
  <2>4. v[j] = <<AuthorCursor, j>>
    BY <1>2
  <2> QED
    BY <2>3, <2>4
<1>4. \A j \in 1..b : Branch(b)[j].kind = "number" /\ Branch(b)[j].means = v[j]
  <2>1. SUFFICES ASSUME NEW j \in 1..b
                 PROVE  Branch(b)[j].kind = "number" /\ Branch(b)[j].means = v[j]
    OBVIOUS
  <2>2. v[j] = <<AuthorCursor, j>>
    BY <1>2
  <2> HIDE DEF v
  <2>3. Branch(b)[j] = Token("number", j, <<AuthorCursor, j>>)
    BY <1>1
  <2> QED
    BY <2>2, <2>3 DEF Token
<1> HIDE DEF v
<1>5. v \in Seq(Meant) /\ Len(v) = b
  <2>1. b \in Nat /\ v = [k \in 1..b |-> v[k]] /\ \A k \in 1..b : v[k] \in Meant
    BY <1>2, <1>3
  <2> QED
    BY <2>1, ListIsSeq
<1>6. Branch(b) \in Seq(Words)
  BY <1>1, FragmentWords
<1>7. Meanings(Branch(b), "number") = v
  BY <1>1, <1>4, <1>5, <1>6, MeaningsAll
<1> QED
  BY <1>5, <1>6, <1>7 DEF Lists, v

(* The ordering's text means the ordering, and no value.                   *)
LEMMA OrderingMeanings ==
  ASSUME TypeOK
  PROVE  /\ Meanings(OrderingText, "key") = ordering
         /\ Meanings(OrderingText, "number") = << >>
         /\ ordering \in Lists(Meant)
         /\ OrderingText \in Seq(Words)
<1>1. ordering \in Seq(Keys) /\ Len(ordering) \in Nat /\ DOMAIN ordering = 1..Len(ordering)
  BY DEF TypeOK
<1>2. ordering \in Seq(Meant)
  <2>1. Keys \subseteq Meant
    BY DEF Meant
  <2> QED
    BY <1>1, <2>1, SeqMonotonic
<1>3. OrderingText \in Seq(Words)
  <2>1. Spliced("order_by") = OrderingText
    BY DEF Spliced
  <2> QED
    BY <2>1, SplicedType, TextWords
<1>4. /\ DOMAIN OrderingText = 1..Len(ordering)
      /\ \A k \in 1..Len(ordering) : /\ OrderingText[k].kind = "key"
                                     /\ OrderingText[k].means = ordering[k]
  BY <1>1 DEF OrderingText, Token
<1>5. Len(OrderingText) = Len(ordering)
  BY <1>1, <1>3, <1>4
<1>6. Meanings(OrderingText, "key") = ordering
  BY <1>2, <1>3, <1>4, <1>5, MeaningsAll
<1>7. Meanings(OrderingText, "number") = << >>
  BY <1>3, <1>4, MeaningsNone
<1> QED
  BY <1>2, <1>3, <1>6, <1>7 DEF Lists

(* What a list of fragments means, and what a list of clauses names.       *)
MeantBy(ws) == [w \in DOMAIN ws |-> Meanings(ws[w].sql, "number")]
NamedBy(cs) == [a \in DOMAIN cs |-> Promise!Named(cs[a].text, a + 1)]

(* Each fragment says a list of values.                                    *)
LEMMA MeantByType ==
  ASSUME NEW ws \in Seq(Fragments)
  PROVE  /\ MeantBy(ws) \in Seq(Lists(Meant)) /\ Len(MeantBy(ws)) = Len(ws) /\ Len(ws) \in Nat
         /\ \A w \in 1..Len(ws) : /\ MeantBy(ws)[w] = Meanings(ws[w].sql, "number")
                                  /\ ws[w] \in Fragments
<1> DEFINE m == MeantBy(ws)
<1>1. Len(ws) \in Nat /\ DOMAIN ws = 1..Len(ws) /\ \A w \in 1..Len(ws) : ws[w] \in Fragments
  OBVIOUS
<1>2. /\ m = [w \in 1..Len(ws) |-> m[w]]
      /\ \A w \in 1..Len(ws) : m[w] = Meanings(ws[w].sql, "number")
  BY <1>1 DEF MeantBy
<1> HIDE DEF m
<1>3. ASSUME NEW w \in 1..Len(ws) PROVE m[w] \in Lists(Meant)
  <2>1. ws[w].sql \in Seq(Tokens(Values))
    BY <1>1 DEF Fragments
  <2>2. Meanings(ws[w].sql, "number") \in Lists(Meant)
    BY <2>1, FragmentWords, MeaningsType
  <2> QED
    BY <1>2, <2>2
<1>4. m \in Seq(Lists(Meant)) /\ Len(m) = Len(ws)
  BY <1>1, <1>2, <1>3, ListIsSeq
<1> QED
  BY <1>1, <1>2, <1>4 DEF m

(* A clause the caller may push has a text and a number of values.         *)
LEMMA ClauseType ==
  ASSUME NEW c \in Clauses
  PROVE  c \in [text : ClauseTexts, bound : Nat] /\ c.text \in ClauseTexts /\ c.bound \in Nat
BY InputsAssumption

(* Each clause names a list of values.                                     *)
LEMMA NamedByType ==
  ASSUME NEW cs \in Seq(Clauses)
  PROVE  /\ NamedBy(cs) \in Seq(Lists(Meant)) /\ Len(NamedBy(cs)) = Len(cs) /\ Len(cs) \in Nat
         /\ \A a \in 1..Len(cs) : NamedBy(cs)[a] = Promise!Named(cs[a].text, a + 1)
<1> DEFINE m == NamedBy(cs)
<1>1. Len(cs) \in Nat /\ DOMAIN cs = 1..Len(cs) /\ \A a \in 1..Len(cs) : cs[a] \in Clauses
  OBVIOUS
<1>2. /\ m = [a \in 1..Len(cs) |-> m[a]]
      /\ \A a \in 1..Len(cs) : m[a] = Promise!Named(cs[a].text, a + 1)
  BY <1>1 DEF NamedBy
<1> HIDE DEF m
<1>3. ASSUME NEW a \in 1..Len(cs) PROVE m[a] \in Lists(Meant)
  <2>1. cs[a].text \in ClauseTexts /\ a + 1 \in Nat
    BY <1>1, ClauseType
  <2> QED
    BY <1>2, <2>1, NamedType
<1>4. m \in Seq(Lists(Meant)) /\ Len(m) = Len(cs)
  BY <1>1, <1>2, <1>3, ListIsSeq
<1> QED
  BY <1>1, <1>2, <1>4 DEF m

(* Equal, element by element.                                              *)
LEMMA EqualLists ==
  ASSUME NEW S, NEW a \in Seq(S), NEW b \in Seq(S), Len(a) = Len(b),
         \A k \in 1..Len(a) : a[k] = b[k]
  PROVE  a = b
OBVIOUS

(* What Append does, in facts without the operator.                        *)
LEMMA SeqAppend ==
  ASSUME NEW S, NEW a \in Seq(S), NEW x \in S
  PROVE  /\ Append(a, x) \in Seq(S) /\ Len(Append(a, x)) = Len(a) + 1 /\ Len(a) \in Nat
         /\ \A k \in 1..Len(a) : Append(a, x)[k] = a[k]
         /\ Append(a, x)[Len(a) + 1] = x
OBVIOUS

(* A list one longer that agrees elsewhere is the list with its last       *)
(* element appended.                                                       *)
LEMMA SeqGrown ==
  ASSUME NEW S, NEW a \in Seq(S), NEW b \in Seq(S), Len(b) = Len(a) + 1,
         \A k \in 1..Len(a) : b[k] = a[k]
  PROVE  b = Append(a, b[Len(a) + 1]) /\ b[Len(a) + 1] \in S
OBVIOUS

(* A fragment more says what it says, behind the others.                   *)
LEMMA MeantAppend ==
  ASSUME NEW ws \in Seq(Fragments), NEW f \in Fragments
  PROVE  FlattenSeq(MeantBy(Append(ws, f))) =
           FlattenSeq(MeantBy(ws)) \o Meanings(f.sql, "number")
<1> DEFINE us == Append(ws, f)
           m  == MeantBy(ws)
           n  == MeantBy(us)
<1>1. /\ us \in Seq(Fragments) /\ Len(us) = Len(ws) + 1 /\ Len(ws) \in Nat
      /\ \A k \in 1..Len(ws) : us[k] = ws[k]
      /\ us[Len(ws) + 1] = f
  BY SeqAppend
<1> HIDE DEF us
<1>2. /\ m \in Seq(Lists(Meant)) /\ Len(m) = Len(ws)
      /\ \A w \in 1..Len(ws) : m[w] = Meanings(ws[w].sql, "number")
  BY MeantByType
<1>3. /\ n \in Seq(Lists(Meant)) /\ Len(n) = Len(us)
      /\ \A w \in 1..Len(us) : n[w] = Meanings(us[w].sql, "number")
  BY <1>1, MeantByType
<1> HIDE DEF m, n
<1>4. \A w \in 1..Len(ws) : w \in 1..Len(us)
  BY <1>1
<1>5. \A w \in 1..Len(m) : n[w] = m[w]
  BY <1>1, <1>2, <1>3, <1>4
<1>6. n = Append(m, n[Len(m) + 1]) /\ n[Len(m) + 1] \in Lists(Meant)
  <2>1. Len(n) = Len(m) + 1
    BY <1>1, <1>2, <1>3
  <2> QED
    BY <1>2, <1>3, <1>5, <2>1, SeqGrown
<1>7. n[Len(m) + 1] = Meanings(f.sql, "number")
  <2>1. Len(m) + 1 = Len(ws) + 1 /\ Len(ws) + 1 \in 1..Len(us)
    BY <1>1, <1>2
  <2> QED
    BY <1>1, <1>3, <2>1
<1>8. FlattenSeq(n) = FlattenSeq(m) \o n[Len(m) + 1]
  <2> DEFINE x == n[Len(m) + 1]
  <2>1. n = Append(m, x) /\ x \in Lists(Meant)
    BY <1>6
  <2> HIDE DEF x
  <2>2. FlattenSeq(n) = FlattenSeq(m) \o x
    BY <1>2, <2>1, FlatAppend
  <2> QED
    BY <2>2 DEF x
<1> QED
  BY <1>7, <1>8 DEF m, n, us

(* A clause more names its values, behind the others.                      *)
LEMMA NamedAppend ==
  ASSUME NEW cs \in Seq(Clauses), NEW c \in Clauses
  PROVE  FlattenSeq(NamedBy(Append(cs, c))) =
           FlattenSeq(NamedBy(cs)) \o Promise!Named(c.text, Len(cs) + 2)
<1> DEFINE us == Append(cs, c)
           m  == NamedBy(cs)
           n  == NamedBy(us)
<1>1. /\ us \in Seq(Clauses) /\ Len(us) = Len(cs) + 1 /\ Len(cs) \in Nat
      /\ \A k \in 1..Len(cs) : us[k] = cs[k]
      /\ us[Len(cs) + 1] = c
  BY SeqAppend
<1> HIDE DEF us
<1>2. /\ m \in Seq(Lists(Meant)) /\ Len(m) = Len(cs)
      /\ \A w \in 1..Len(cs) : m[w] = Promise!Named(cs[w].text, w + 1)
  BY NamedByType
<1>3. /\ n \in Seq(Lists(Meant)) /\ Len(n) = Len(us)
      /\ \A w \in 1..Len(us) : n[w] = Promise!Named(us[w].text, w + 1)
  BY <1>1, NamedByType
<1> HIDE DEF m, n
<1>4. \A w \in 1..Len(cs) : w \in 1..Len(us)
  BY <1>1
<1>5. \A w \in 1..Len(m) : n[w] = m[w]
  BY <1>1, <1>2, <1>3, <1>4
<1>6. n = Append(m, n[Len(m) + 1]) /\ n[Len(m) + 1] \in Lists(Meant)
  <2>1. Len(n) = Len(m) + 1
    BY <1>1, <1>2, <1>3
  <2> QED
    BY <1>2, <1>3, <1>5, <2>1, SeqGrown
<1>7. n[Len(m) + 1] = Promise!Named(c.text, Len(cs) + 2)
  <2>1. /\ Len(m) + 1 = Len(cs) + 1 /\ Len(cs) + 1 \in 1..Len(us)
        /\ (Len(cs) + 1) + 1 = Len(cs) + 2
    BY <1>1, <1>2
  <2> QED
    BY <1>1, <1>3, <2>1
<1>8. FlattenSeq(n) = FlattenSeq(m) \o n[Len(m) + 1]
  <2> DEFINE x == n[Len(m) + 1]
  <2>1. n = Append(m, x) /\ x \in Lists(Meant)
    BY <1>6
  <2> HIDE DEF x
  <2>2. FlattenSeq(n) = FlattenSeq(m) \o x
    BY <1>2, <2>1, FlatAppend
  <2> QED
    BY <2>2 DEF x
<1> QED
  BY <1>7, <1>8 DEF m, n, us

(* The cursor's first n branches.                                          *)
BranchesTo(n) == [b \in 1..n |-> [j \in 1..b |-> <<AuthorCursor, j>>]]

(* Each branch of the cursor's clause names a list of values.              *)
LEMMA BranchesType ==
  ASSUME NEW n \in Nat
  PROVE  /\ BranchesTo(n) \in Seq(Lists(Meant)) /\ Len(BranchesTo(n)) = n
         /\ \A b \in 1..n : BranchesTo(n)[b] = [j \in 1..b |-> <<AuthorCursor, j>>]
<1> DEFINE m == BranchesTo(n)
<1>1. /\ m = [b \in 1..n |-> m[b]]
      /\ \A b \in 1..n : m[b] = [j \in 1..b |-> <<AuthorCursor, j>>]
  BY DEF BranchesTo
<1> HIDE DEF m
<1>2. ASSUME NEW b \in 1..n PROVE m[b] \in Lists(Meant)
  <2>1. b \in Nat
    OBVIOUS
  <2>2. [j \in 1..b |-> <<AuthorCursor, j>>] \in Lists(Meant)
    BY <2>1, BranchMeanings
  <2> QED
    BY <1>1, <2>2
<1>3. m \in Seq(Lists(Meant)) /\ Len(m) = n
  BY <1>1, <1>2, ListIsSeq
<1> QED
  BY <1>1, <1>3 DEF m

(* A branch more names its values, behind the others.                      *)
LEMMA BranchesGrow ==
  ASSUME NEW n \in Nat
  PROVE  FlattenSeq(BranchesTo(n + 1)) =
           FlattenSeq(BranchesTo(n)) \o Meanings(Branch(n + 1), "number")
<1> DEFINE p == BranchesTo(n)
           q == BranchesTo(n + 1)
<1>1. p \in Seq(Lists(Meant)) /\ Len(p) = n
      /\ \A b \in 1..n : p[b] = [j \in 1..b |-> <<AuthorCursor, j>>]
  BY BranchesType
<1>2. n + 1 \in Nat /\ n + 1 \in 1..(n + 1) /\ \A b \in 1..n : b \in 1..(n + 1)
  OBVIOUS
<1>3. q \in Seq(Lists(Meant)) /\ Len(q) = n + 1
      /\ \A b \in 1..(n + 1) : q[b] = [j \in 1..b |-> <<AuthorCursor, j>>]
  BY <1>2, BranchesType
<1> HIDE DEF p, q
<1>4. Len(q) = Len(p) + 1 /\ \A b \in 1..Len(p) : q[b] = p[b]
  BY <1>1, <1>2, <1>3
<1>5. q = Append(p, q[n + 1]) /\ q[n + 1] \in Lists(Meant)
  <2>1. q = Append(p, q[Len(p) + 1]) /\ q[Len(p) + 1] \in Lists(Meant)
    BY <1>1, <1>3, <1>4, SeqGrown
  <2> QED
    BY <1>1, <2>1
<1>6. q[n + 1] = Meanings(Branch(n + 1), "number")
  BY <1>2, <1>3, BranchMeanings
<1>7. FlattenSeq(q) = FlattenSeq(p) \o q[n + 1]
  <2> DEFINE x == q[n + 1]
  <2>1. q = Append(p, x) /\ x \in Lists(Meant)
    BY <1>5
  <2> HIDE DEF x
  <2>2. FlattenSeq(q) = FlattenSeq(p) \o x
    BY <1>1, <2>1, FlatAppend
  <2> QED
    BY <2>2 DEF x
<1> QED
  BY <1>6, <1>7 DEF p, q

(* There is text in one of the fragments, and in one of the clauses.       *)
SomeSql(ws)  == \E w \in DOMAIN ws : ws[w].sql # << >>
SomeText(cs) == \E a \in DOMAIN cs : cs[a].text # << >>

(* Some fragment has text when one had it before, or the new one has.      *)
LEMMA SqlAppended ==
  ASSUME NEW ws \in Seq(Fragments), NEW f \in Fragments
  PROVE  SomeSql(Append(ws, f)) <=> SomeSql(ws) \/ f.sql # << >>
<1> DEFINE us == Append(ws, f)
<1>1. /\ us \in Seq(Fragments) /\ Len(us) = Len(ws) + 1 /\ Len(ws) \in Nat
      /\ \A k \in 1..Len(ws) : us[k] = ws[k]
      /\ us[Len(ws) + 1] = f
  BY SeqAppend
<1> HIDE DEF us
<1>2. DOMAIN us = 1..(Len(ws) + 1) /\ DOMAIN ws = 1..Len(ws)
  BY <1>1
<1>3. \A k : k \in 1..(Len(ws) + 1) <=> k \in 1..Len(ws) \/ k = Len(ws) + 1
  BY <1>1
<1>4. SomeSql(us) <=> SomeSql(ws) \/ f.sql # << >>
  BY <1>1, <1>2, <1>3 DEF SomeSql
<1> QED
  BY <1>4 DEF us

(* Some text is there when it was, or is appended.                         *)
LEMMA TextAppended ==
  ASSUME NEW cs \in Seq(Clauses), NEW c \in Clauses
  PROVE  SomeText(Append(cs, c)) <=> SomeText(cs) \/ c.text # << >>
<1> DEFINE us == Append(cs, c)
<1>1. /\ us \in Seq(Clauses) /\ Len(us) = Len(cs) + 1 /\ Len(cs) \in Nat
      /\ \A k \in 1..Len(cs) : us[k] = cs[k]
      /\ us[Len(cs) + 1] = c
  BY SeqAppend
<1> HIDE DEF us
<1>2. DOMAIN us = 1..(Len(cs) + 1) /\ DOMAIN cs = 1..Len(cs)
  BY <1>1
<1>3. \A k : k \in 1..(Len(cs) + 1) <=> k \in 1..Len(cs) \/ k = Len(cs) + 1
  BY <1>1
<1>4. SomeText(us) <=> SomeText(cs) \/ c.text # << >>
  BY <1>1, <1>2, <1>3 DEF SomeText
<1> QED
  BY <1>4 DEF us

(* The clauses and fragments, and what was pushed of both, agree.          *)
Agree(ws, cs) ==
  /\ FlattenSeq(MeantBy(ws)) = FlattenSeq(NamedBy(cs))
  /\ SomeSql(ws) <=> SomeText(cs)

(* That agreement is the invariant about clauses, ...                      *)
LEMMA AgreeIs == ClausesKept <=> Agree(where_by, authored)
BY SameFlat DEF ClausesKept, Agree, SomeSql, SomeText, Fragmented, MeantBy, NamedBy, Promise!AllNamed

(* ... before a step and behind it.                                        *)
LEMMA AgreeIsPrime == ClausesKept' <=> Agree(where_by', authored')
BY SameFlat DEF ClausesKept, Agree, SomeSql, SomeText, Fragmented, MeantBy, NamedBy, Promise!AllNamed

(* push_where keeps the agreement.                                         *)
LEMMA AgreePush ==
  ASSUME NEW ws \in Seq(Fragments), NEW cs \in Seq(Clauses), NEW c \in Clauses, Agree(ws, cs)
  PROVE  Agree(Append(ws, Author(c, Len(cs) + 2)), Append(cs, c))
<1> DEFINE f == Author(c, Len(cs) + 2)
<1>1. Len(cs) + 2 \in Nat /\ c \in [text : ClauseTexts, bound : Nat]
  BY ClauseType
<1>2. f \in Fragments
  BY <1>1, AuthorType
<1>3. /\ Meanings(f.sql, "number") = Promise!Named(c.text, Len(cs) + 2)
      /\ f.sql # << >> <=> c.text # << >>
  BY <1>1, AuthorMeanings
<1> HIDE DEF f
<1>4. FlattenSeq(MeantBy(Append(ws, f))) = FlattenSeq(MeantBy(ws)) \o Meanings(f.sql, "number")
  BY <1>2, MeantAppend
<1>5. FlattenSeq(NamedBy(Append(cs, c))) =
        FlattenSeq(NamedBy(cs)) \o Promise!Named(c.text, Len(cs) + 2)
  BY NamedAppend
<1>6. FlattenSeq(MeantBy(Append(ws, f))) = FlattenSeq(NamedBy(Append(cs, c)))
  BY <1>3, <1>4, <1>5 DEF Agree
<1>7. SomeSql(Append(ws, f)) <=> SomeText(Append(cs, c))
  BY <1>2, <1>3, SqlAppended, TextAppended DEF Agree
<1> QED
  BY <1>6, <1>7 DEF Agree, f

(* So does push_where of two clauses the caller combined.                  *)
LEMMA AgreeEither ==
  ASSUME NEW ws \in Seq(Fragments), NEW cs \in Seq(Clauses), NEW c \in Clauses, NEW d \in Clauses,
         Agree(ws, cs)
  PROVE  Agree(Append(ws, Combine(Author(c, Len(cs) + 2), Author(d, Len(cs) + 3))), cs \o <<c, d>>)
<1> DEFINE f  == Author(c, Len(cs) + 2)
           g  == Author(d, Len(cs) + 3)
           h  == Combine(f, g)
           us == Append(cs, c)
           M(sql) == Meanings(sql, "number")
           N(x, n) == Promise!Named(x.text, n)
           W(x)  == FlattenSeq(MeantBy(x))
           A(x)  == FlattenSeq(NamedBy(x))
<1>1. /\ Len(cs) \in Nat /\ Len(cs) + 2 \in Nat /\ Len(cs) + 3 \in Nat
      /\ c \in [text : ClauseTexts, bound : Nat] /\ d \in [text : ClauseTexts, bound : Nat]
  BY ClauseType
<1>2. f \in Fragments /\ g \in Fragments
  BY <1>1, AuthorType
<1>3. M(f.sql) = N(c, Len(cs) + 2) /\ (f.sql # << >> <=> c.text # << >>)
  BY <1>1, AuthorMeanings
<1>4. M(g.sql) = N(d, Len(cs) + 3) /\ (g.sql # << >> <=> d.text # << >>)
  BY <1>1, AuthorMeanings
<1> HIDE DEF f, g
<1>5. /\ M(h.sql) = M(f.sql) \o M(g.sql) /\ M(f.sql) \in Lists(Meant) /\ M(g.sql) \in Lists(Meant)
      /\ (h.sql # << >> <=> f.sql # << >> \/ g.sql # << >>)
  BY <1>2, CombineMeanings
<1>6. h \in Fragments
  BY <1>2, CombineType
<1> HIDE DEF h
<1>7. us \in Seq(Clauses) /\ Len(us) = Len(cs) + 1 /\ cs \o <<c, d>> = Append(us, d)
      /\ Len(us) + 2 = Len(cs) + 3
  <2>1. us \in Seq(Clauses) /\ Len(us) = Len(cs) + 1
    BY SeqAppend
  <2>2. cs \o <<c, d>> = Append(us, d)
    <3>1. <<c, d>> \in Seq(Clauses) /\ Len(<<c, d>>) = 2 /\ <<c, d>>[1] = c /\ <<c, d>>[2] = d
      OBVIOUS
    <3> DEFINE e == <<c, d>>
    <3>2. /\ e \in Seq(Clauses) /\ Len(e) = 2 /\ e[1] = c /\ e[2] = d
      BY <3>1
    <3> HIDE DEF e
    <3>3. /\ cs \o e \in Seq(Clauses) /\ Len(cs \o e) = Len(cs) + Len(e)
          /\ \A k \in 1..Len(cs) : (cs \o e)[k] = cs[k]
          /\ \A k \in 1..Len(e) : (cs \o e)[Len(cs) + k] = e[k]
      <4>1. e \in Seq(Clauses)
        BY <3>2
      <4> QED
        BY ONLY <4>1, cs \in Seq(Clauses), Concatenation
    <3>4. /\ us \in Seq(Clauses) /\ Len(us) = Len(cs) + 1
          /\ \A k \in 1..Len(cs) : us[k] = cs[k]
          /\ us[Len(cs) + 1] = c
      BY SeqAppend
    <3> HIDE DEF us
    <3>5. /\ Append(us, d) \in Seq(Clauses) /\ Len(Append(us, d)) = Len(us) + 1
          /\ \A k \in 1..Len(us) : Append(us, d)[k] = us[k]
          /\ Append(us, d)[Len(us) + 1] = d
      BY <3>4, SeqAppend
    <3> DEFINE a == cs \o e
               b == Append(us, d)
    <3>6. /\ a \in Seq(Clauses) /\ b \in Seq(Clauses) /\ Len(a) = Len(b) /\ Len(b) = Len(cs) + 2
          /\ \A k \in 1..Len(cs) : a[k] = b[k]
          /\ a[Len(cs) + 1] = b[Len(cs) + 1] /\ a[Len(cs) + 2] = b[Len(cs) + 2]
      BY <1>1, <3>2, <3>3, <3>4, <3>5
    <3> HIDE DEF a, b
    <3>7. \A k \in 1..Len(a) : a[k] = b[k]
      <4>1. \A k \in 1..Len(a) : k \in 1..Len(cs) \/ k = Len(cs) + 1 \/ k = Len(cs) + 2
        BY <1>1, <3>6
      <4> QED
        BY <3>6, <4>1
    <3>8. a = b
      BY <3>6, <3>7, EqualLists
    <3> QED
      BY <3>8 DEF a, b, e
  <2>3. Len(us) + 2 = Len(cs) + 3
    <3> HIDE DEF us
    <3> QED
      BY <1>1, <2>1
  <2> QED
    BY <2>1, <2>2, <2>3
<1>8. W(Append(ws, h)) = W(ws) \o M(h.sql)
  BY <1>6, MeantAppend
<1>9. A(us) = A(cs) \o N(c, Len(cs) + 2)
  BY NamedAppend
<1> HIDE DEF us
<1>10. A(Append(us, d)) = A(us) \o N(d, Len(us) + 2)
  BY <1>7, NamedAppend
<1>11. W(ws) \in Lists(Meant) /\ W(ws) = A(cs)
  <2> HIDE DEF M, N, W, A, f, g, h
  <2>1. MeantBy(ws) \in Seq(Lists(Meant))
    BY MeantByType
  <2>2. FlattenSeq(MeantBy(ws)) \in Lists(Meant)
    BY <2>1, FlatType
  <2>3. FlattenSeq(MeantBy(ws)) = FlattenSeq(NamedBy(cs))
    BY DEF Agree
  <2> QED
    BY <2>2, <2>3 DEF W, A
<1> HIDE DEF M, N, W, A
<1>12. W(Append(ws, h)) = A(Append(us, d))
  <2>1. W(ws) \o (M(f.sql) \o M(g.sql)) = (W(ws) \o M(f.sql)) \o M(g.sql)
    <3> DEFINE x == W(ws)
               y == M(f.sql)
               z == M(g.sql)
    <3>1. x \in Lists(Meant) /\ y \in Lists(Meant) /\ z \in Lists(Meant)
      BY <1>5, <1>11
    <3> HIDE DEF x, y, z
    <3>2. (x \o y) \o z = x \o (y \o z)
      BY <3>1, ListsAssociate
    <3> QED
      BY <3>2 DEF x, y, z
  <2> QED
    BY <1>3, <1>4, <1>5, <1>7, <1>8, <1>9, <1>10, <1>11, <2>1
<1>13. SomeSql(Append(ws, h)) <=> SomeText(Append(us, d))
  <2>1. SomeSql(Append(ws, h)) <=> SomeSql(ws) \/ h.sql # << >>
    BY <1>6, SqlAppended
  <2>2. SomeText(us) <=> SomeText(cs) \/ c.text # << >>
    BY TextAppended DEF us
  <2>3. SomeText(Append(us, d)) <=> SomeText(us) \/ d.text # << >>
    BY <1>7, TextAppended
  <2> QED
    BY <1>3, <1>4, <1>5, <2>1, <2>2, <2>3 DEF Agree
<1> QED
  BY <1>7, <1>12, <1>13 DEF Agree, f, g, h, W, A

(* Only a push changes the clauses, and it appends one fragment.           *)
LEMMA PushOrKeep ==
  ASSUME [Next]_vars
  PROVE  \/ \E c \in Clauses : PushWhere(c)
         \/ \E c, d \in Clauses : PushEither(c, d)
         \/ UNCHANGED <<where_by, authored>>
BY DEF Next, vars, Build, Composing, Bind, BindValue, PushArgument, WithCursor, PushOrderBy,
       Compose, RejectUnsupported, RejectBase, AcceptBase, ThenOrderBy, RejectCursor,
       AcceptOrdering, AndClause, BoundaryBranch, PanicOnUnsetCursor, FinishWhere, SpliceSlot,
       NumberQuestion, CopyToken, RejectMissingWhere, RejectMissingOrderBy, RejectStatement,
       FinishNumbered, StartRender, RenderReference, RejectReference, CopyRendered, FinishRender,
       Fail, Return, builder, pipeline

(* Every step keeps fragments and authored clauses in agreement.           *)
LEMMA ClausesKeptNext ==
  ASSUME TypeOK, ClausesKept, [Next]_vars
  PROVE  ClausesKept'
<1>1. /\ where_by \in Seq(Fragments) /\ authored \in Seq(Clauses) /\ Agree(where_by, authored)
  BY AgreeIs DEF TypeOK
<1>2. CASE \E c \in Clauses : PushWhere(c)
  <2>1. PICK c \in Clauses : PushWhere(c)
    BY <1>2
  <2>2. /\ authored' = Append(authored, c)
        /\ where_by' = Append(where_by, Author(c, Len(authored) + 2))
    BY <2>1 DEF PushWhere
  <2>3. Agree(Append(where_by, Author(c, Len(authored) + 2)), Append(authored, c))
    BY <1>1, AgreePush
  <2> QED
    BY <2>2, <2>3, AgreeIsPrime
<1>3. CASE \E c, d \in Clauses : PushEither(c, d)
  <2>1. PICK c \in Clauses, d \in Clauses : PushEither(c, d)
    BY <1>3
  <2>2. /\ authored' = authored \o <<c, d>>
        /\ where_by' = Append(where_by, Combine(Author(c, Len(authored) + 2),
                                                Author(d, Len(authored) + 3)))
    BY <2>1 DEF PushEither
  <2>3. Agree(Append(where_by, Combine(Author(c, Len(authored) + 2),
                                       Author(d, Len(authored) + 3))),
              authored \o <<c, d>>)
    BY <1>1, AgreeEither
  <2> QED
    BY <2>2, <2>3, AgreeIsPrime
<1>4. CASE UNCHANGED <<where_by, authored>>
  BY <1>1, <1>4, AgreeIsPrime
<1> QED
  BY <1>2, <1>3, <1>4, PushOrKeep
-----------------------------------------------------------------------------
(* The clause is what the first n fragments say.                           *)
Gathers(a, ws, n) ==
  /\ Meanings(a.sql, "number") = FlattenSeq(Leading(MeantBy(ws), n))
  /\ a.sql # << >> <=> \E w \in 1..n : ws[w].sql # << >>

(* That is what the invariant says of compose_where's loop.                *)
LEMMA GathersIs ==
  /\ ClausesJoined <=> (Gathering => Gathers(acc, where_by, JoinedSoFar))
  /\ ClausesJoined' <=> (Gathering' => Gathers(acc', where_by', JoinedSoFar'))
BY DEF ClausesJoined, Gathers, Fragmented, MeantBy

(* Before the loop, there is nothing in the clause.                        *)
LEMMA GathersNone ==
  ASSUME NEW a, NEW ws \in Seq(Fragments)
  PROVE  Gathers(a, ws, 0) <=> Meanings(a.sql, "number") = << >> /\ a.sql = << >>
<1>1. MeantBy(ws) \in Seq(Lists(Meant))
  BY MeantByType
<1>2. FlattenSeq(Leading(MeantBy(ws), 0)) = << >>
  BY <1>1, FlatEnds
<1>3. ~ \E w \in 1..0 : ws[w].sql # << >>
  OBVIOUS
<1> QED
  BY <1>2, <1>3 DEF Gathers

(* One turn of the loop gathers one fragment more.                         *)
LEMMA GathersMore ==
  ASSUME NEW a \in Fragments, NEW ws \in Seq(Fragments), NEW n \in Nat, n < Len(ws),
         Gathers(a, ws, n)
  PROVE  Gathers(Combine(a, ws[n + 1]), ws, n + 1)
<1> DEFINE f == ws[n + 1]
           h == Combine(a, f)
           m == MeantBy(ws)
<1>1. /\ m \in Seq(Lists(Meant)) /\ Len(m) = Len(ws)
      /\ n + 1 \in 1..Len(ws) /\ m[n + 1] = Meanings(f.sql, "number") /\ f \in Fragments
  BY MeantByType
<1>2. /\ Meanings(h.sql, "number") = Meanings(a.sql, "number") \o Meanings(f.sql, "number")
      /\ h.sql # << >> <=> a.sql # << >> \/ f.sql # << >>
  BY <1>1, CombineMeanings
<1> HIDE DEF h, m
<1>3. FlattenSeq(Leading(m, n + 1)) = FlattenSeq(Leading(m, n)) \o m[n + 1]
  BY <1>1, FlatStep
<1>4. (\E w \in 1..(n + 1) : ws[w].sql # << >>)
        <=> (\E w \in 1..n : ws[w].sql # << >>) \/ f.sql # << >>
  <2>1. \A w : w \in 1..(n + 1) <=> w \in 1..n \/ w = n + 1
    OBVIOUS
  <2> QED
    BY <2>1
<1>5. Meanings(a.sql, "number") = FlattenSeq(Leading(m, n))
  BY DEF Gathers, m
<1>6. a.sql # << >> <=> \E w \in 1..n : ws[w].sql # << >>
  BY DEF Gathers
<1>7. Meanings(h.sql, "number") = FlattenSeq(Leading(m, n + 1))
  BY <1>1, <1>2, <1>3, <1>5
<1>8. h.sql # << >> <=> \E w \in 1..(n + 1) : ws[w].sql # << >>
  BY <1>2, <1>4, <1>6
<1> QED
  BY <1>7, <1>8 DEF Gathers, h, m

(* The cursor's clause is its first n branches.                            *)
WritesTo(b, n) ==
  /\ Meanings(b, "number") = FlattenSeq(BranchesTo(n))
  /\ b # << >> <=> n > 0

(* That is what the invariant says of to_where_clause's loop.              *)
LEMMA WritesIs ==
  /\ BranchesWritten <=> (Gathering => WritesTo(boundary, Branches))
  /\ BranchesWritten' <=> (Gathering' => WritesTo(boundary', Branches'))
BY DEF BranchesWritten, WritesTo, BranchesTo

(* One turn of the loop writes one branch more.                            *)
LEMMA WritesMore ==
  ASSUME NEW b \in Seq(Tokens(Values)), NEW n \in Nat, WritesTo(b, n)
  PROVE  WritesTo(b \o Branch(n + 1), n + 1)
<1> DEFINE d == Branch(n + 1)
           p == FlattenSeq(BranchesTo(n))
           q == FlattenSeq(BranchesTo(n + 1))
<1>1. d \in Seq(Words) /\ d \in Seq(Tokens(Values)) /\ Len(d) = n + 1
  <2>1. n + 1 \in Nat
    OBVIOUS
  <2>2. d \in Seq(Words)
    BY <2>1, BranchMeanings
  <2>3. d \in Seq(Tokens(Values)) /\ Len(d) = n + 1
    BY <2>1, BranchType
  <2> QED
    BY <2>2, <2>3
<1>2. b \in Seq(Words)
  BY FragmentWords
<1>3. q = p \o Meanings(d, "number")
  BY ONLY n \in Nat, BranchesGrow DEF d, p, q
<1>4. Meanings(b, "number") = p
  BY DEF WritesTo
<1>5. b \o d # << >> /\ n + 1 > 0
  <2> HIDE DEF d
  <2>1. Len(b \o d) = Len(b) + Len(d) /\ Len(b) \in Nat
    <3>1. d \in Seq(Tokens(Values)) /\ b \in Seq(Tokens(Values))
      BY <1>1
    <3>2. Len(b \o d) = Len(b) + Len(d)
      BY ONLY <3>1, Concatenation
    <3> QED
      BY <3>1, <3>2
  <2>2. Len(b \o d) # 0
    BY <1>1, <2>1
  <2> QED
    BY <2>2
<1> HIDE DEF d, p, q
<1>6. Meanings(b \o d, "number") = Meanings(b, "number") \o Meanings(d, "number")
  BY <1>1, <1>2, MeaningsConcat
<1>7. Meanings(b \o d, "number") = q
  BY <1>3, <1>4, <1>6
<1> QED
  BY <1>5, <1>7 DEF WritesTo, d, q

(* What the steps that still gather do to the clauses joined so far.       *)
LEMMA GatheringStep ==
  ASSUME [Next]_vars, Gathering'
  PROVE  /\ Gathering
         /\ \/ /\ pc # "where" /\ (pc' = "where" => i' = 1)
               /\ acc' = acc /\ boundary' = boundary
            \/ AndClause
            \/ BoundaryBranch
            \/ UNCHANGED vars
BY DEF Next, vars, Build, Composing, Bind, BindValue, PushArgument, WithCursor, PushOrderBy,
       PushWhere, PushEither, Compose, RejectUnsupported, RejectBase, AcceptBase, ThenOrderBy,
       RejectCursor, AcceptOrdering, AndClause, BoundaryBranch, PanicOnUnsetCursor, FinishWhere,
       SpliceSlot, NumberQuestion, CopyToken, RejectMissingWhere, RejectMissingOrderBy,
       RejectStatement, FinishNumbered, StartRender, RenderReference, RejectReference,
       CopyRendered, FinishRender, Fail, Return, builder, pipeline, Gathering, WheresRead,
       BaseScanned, SlotsFound

(* Every step keeps the clause what the fragments read so far say.         *)
LEMMA ClausesJoinedNext ==
  ASSUME TypeOK, TypeOK', ClausesJoined, [Next]_vars
  PROVE  ClausesJoined'
<1> SUFFICES ASSUME Gathering'
             PROVE  Gathers(acc', where_by', JoinedSoFar')
  BY GathersIs
<1>1. /\ where_by \in Seq(Fragments) /\ where_by' \in Seq(Fragments) /\ acc \in Fragments
      /\ Len(where_by) \in Nat /\ Len(where_by') \in Nat /\ i \in Nat \ {0}
  BY DEF TypeOK
<1>2. Gathering /\ Gathers(acc, where_by, JoinedSoFar)
  BY GatheringStep, GathersIs
<1>3. CASE pc # "where" /\ (pc' = "where" => i' = 1) /\ acc' = acc
  <2>1. JoinedSoFar = 0 /\ JoinedSoFar' = 0
    BY <1>1, <1>3 DEF JoinedSoFar
  <2> QED
    BY <1>1, <1>2, <1>3, <2>1, GathersNone
<1>4. CASE AndClause
  <2> DEFINE n == i - 1
  <2>1. /\ pc = "where" /\ pc' = "where" /\ i <= Len(where_by) /\ i' = i + 1
        /\ where_by' = where_by /\ acc' = Combine(acc, where_by[i])
    BY <1>4 DEF AndClause, builder
  <2>2. JoinedSoFar = n /\ JoinedSoFar' = n + 1 /\ n \in Nat /\ n < Len(where_by) /\ n + 1 = i
    BY <1>1, <2>1 DEF JoinedSoFar
  <2> HIDE DEF n
  <2>3. Gathers(acc, where_by, n)
    BY <1>2, <2>2
  <2>4. Gathers(Combine(acc, where_by[n + 1]), where_by, n + 1)
    BY <1>1, <2>2, <2>3, GathersMore
  <2> QED
    BY <2>1, <2>2, <2>4
<1>5. CASE BoundaryBranch
  <2>1. /\ pc = "where" /\ pc' = "where" /\ i > Len(where_by) /\ i' = i + 1
        /\ where_by' = where_by /\ acc' = acc
    BY <1>5 DEF BoundaryBranch, builder
  <2>2. JoinedSoFar = Len(where_by) /\ JoinedSoFar' = Len(where_by)
    BY <1>1, <2>1 DEF JoinedSoFar
  <2> QED
    BY <1>2, <2>1, <2>2
<1>6. CASE UNCHANGED vars
  <2>1. acc' = acc /\ where_by' = where_by /\ JoinedSoFar' = JoinedSoFar
    BY <1>6 DEF vars, JoinedSoFar
  <2> QED
    BY <1>2, <2>1
<1> QED
  BY <1>3, <1>4, <1>5, <1>6, GatheringStep

(* Every step keeps the boundary what its branches say.                    *)
LEMMA BranchesWrittenNext ==
  ASSUME TypeOK, TypeOK', BranchesWritten, [Next]_vars
  PROVE  BranchesWritten'
<1> SUFFICES ASSUME Gathering'
             PROVE  WritesTo(boundary', Branches')
  BY WritesIs
<1>1. /\ where_by \in Seq(Fragments) /\ where_by' \in Seq(Fragments)
      /\ boundary \in Seq(Tokens(Values))
      /\ Len(where_by) \in Nat /\ Len(where_by') \in Nat /\ i \in Nat \ {0}
  BY DEF TypeOK
<1>2. Gathering /\ WritesTo(boundary, Branches)
  BY GatheringStep, WritesIs
<1>3. CASE pc # "where" /\ (pc' = "where" => i' = 1) /\ boundary' = boundary
  <2>1. Branches = 0 /\ Branches' = 0
    BY <1>1, <1>3 DEF Branches
  <2> QED
    BY <1>2, <1>3, <2>1
<1>4. CASE AndClause
  <2>1. /\ pc = "where" /\ pc' = "where" /\ i <= Len(where_by) /\ i' = i + 1
        /\ where_by' = where_by /\ boundary' = boundary
    BY <1>4 DEF AndClause, builder
  <2>2. Branches = 0 /\ Branches' = 0
    BY <1>1, <2>1 DEF Branches
  <2> QED
    BY <1>2, <2>1, <2>2
<1>5. CASE BoundaryBranch
  <2> DEFINE n == Branches
  <2>1. /\ pc = "where" /\ pc' = "where" /\ i > Len(where_by) /\ i' = i + 1
        /\ where_by' = where_by /\ boundary' = boundary \o Branch(i - Len(where_by))
    BY <1>5 DEF BoundaryBranch, builder
  <2>2. n \in Nat /\ n + 1 = i - Len(where_by) /\ Branches' = n + 1
    BY <1>1, <2>1 DEF Branches
  <2>3. WritesTo(boundary, n)
    BY <1>2
  <2> HIDE DEF n
  <2>4. WritesTo(boundary \o Branch(n + 1), n + 1)
    BY <1>1, <2>2, <2>3, WritesMore
  <2> QED
    BY <2>1, <2>2, <2>4
<1>6. CASE UNCHANGED vars
  <2>1. boundary' = boundary /\ Branches' = Branches
    BY <1>6 DEF vars, Branches
  <2> QED
    BY <1>2, <2>1
<1> QED
  BY <1>3, <1>4, <1>5, <1>6, GatheringStep

(* The orderings, as lists of keys.                                        *)
LEMMA OrderingsType ==
  ASSUME TypeOK
  PROVE  order_by \in Seq(Lists(Keys)) /\ Len(order_by) \in Nat
BY DEF TypeOK, Lists

(* What the steps do to the ordering.                                      *)
LEMMA OrderingStep ==
  ASSUME [Next]_vars
  PROVE  \/ pc = "build" /\ pc' \in {"build", "base"} /\ ordering' = ordering
         \/ AcceptBase
         \/ ThenOrderBy
         \/ AcceptOrdering
         \/ /\ pc \in {"where", "splice", "render"} /\ pc' \in {"where", "splice", "render", "done"}
            /\ pc' = "done" \/ outcome' = outcome
            /\ UNCHANGED <<ordering, order_by, cursor>>
         \/ pc' = "done" /\ outcome' \in Errors
         \/ UNCHANGED vars
BY DEF Next, vars, Build, Composing, Bind, BindValue, PushArgument, WithCursor, PushOrderBy,
       PushWhere, PushEither, Compose, RejectUnsupported, RejectBase, AcceptBase, ThenOrderBy,
       RejectCursor, AcceptOrdering, AndClause, BoundaryBranch, PanicOnUnsetCursor, FinishWhere,
       SpliceSlot, NumberQuestion, CopyToken, RejectMissingWhere, RejectMissingOrderBy,
       RejectStatement, FinishNumbered, StartRender, RenderReference, RejectReference,
       CopyRendered, FinishRender, Fail, Return, builder, pipeline, WheresRead,
       BaseScanned, SlotsFound, Errors

(* Every step keeps the ordering what the pushed ones add up to.           *)
LEMMA OrderingKeptNext ==
  ASSUME TypeOK, TypeOK', OrderingKept, [Next]_vars
  PROVE  OrderingKept'
<1> DEFINE P(o, c) == IF o = << >> THEN c.keys ELSE FlattenSeq(o)
           D(o, c, x) == x = P(o, c) /\ ~(o # << >> /\ c.keys # << >> /\ c.keys # x)
<1>1. /\ OrderingKept <=>
           /\ pc \in {"build", "base"} => ordering = << >>
           /\ pc = "order" => i <= Len(order_by) + 1 /\ ordering = FlattenSeq(Leading(order_by, i - 1))
           /\ pc = "where" \/ Splicing => D(order_by, cursor, ordering)
      /\ OrderingKept' <=>
           /\ pc' \in {"build", "base"} => ordering' = << >>
           /\ pc' = "order" => i' <= Len(order_by') + 1 /\ ordering' = FlattenSeq(Leading(order_by', i' - 1))
           /\ pc' = "where" \/ Splicing' => D(order_by', cursor', ordering')
  BY SameFlat DEF OrderingKept, Promise!Ordering, Promise!Pushed, OrderingDisagrees
<1>2. order_by \in Seq(Lists(Keys)) /\ Len(order_by) \in Nat /\ i \in Nat \ {0}
  BY OrderingsType DEF TypeOK
<1> HIDE DEF D
<1>3. /\ outcome \in {"pending", "ok"} \cup Errors
      /\ pc' # "done" => outcome' = "pending"
      /\ pc # "done" => outcome = "pending"
  BY DEF TypeOK
<1>4. CASE pc = "build" /\ pc' \in {"build", "base"} /\ ordering' = ordering
  BY <1>1, <1>3, <1>4 DEF Splicing
<1>5. CASE AcceptBase
  <2>1. /\ pc = "base" /\ pc' = "order" /\ i' = 1 /\ ordering' = ordering /\ order_by' = order_by
    BY <1>5 DEF AcceptBase, builder
  <2>2. FlattenSeq(Leading(order_by, 0)) = << >>
    BY <1>2, FlatEnds
  <2>3. i' - 1 = 0 /\ 1 <= Len(order_by) + 1
    BY <1>2, <2>1
  <2> QED
    BY <1>1, <1>3, <2>1, <2>2, <2>3 DEF Splicing
<1>6. CASE ThenOrderBy
  <2> DEFINE n == i - 1
  <2>1. /\ pc = "order" /\ pc' = "order" /\ i' = i + 1 /\ i <= Len(order_by)
        /\ ordering' = ordering \o order_by[i] /\ order_by' = order_by
    BY <1>6 DEF ThenOrderBy, builder
  <2>2. n \in Nat /\ n < Len(order_by) /\ n + 1 = i /\ i' - 1 = n + 1 /\ i' <= Len(order_by') + 1
    BY <1>2, <2>1
  <2>3. ordering = FlattenSeq(Leading(order_by, n))
    BY <1>1, <2>1
  <2> HIDE DEF n
  <2>4. FlattenSeq(Leading(order_by, n + 1)) = FlattenSeq(Leading(order_by, n)) \o order_by[n + 1]
    BY <1>2, <2>2, FlatStep
  <2> QED
    BY <1>1, <1>3, <2>1, <2>2, <2>3, <2>4 DEF Splicing
<1>7. CASE AcceptOrdering
  <2>1. /\ pc = "order" /\ pc' = "where" /\ i > Len(order_by) /\ order_by' = order_by
        /\ cursor' = cursor /\ ~OrderingDisagrees
        /\ ordering' = IF order_by = << >> THEN cursor.keys ELSE ordering
    BY <1>7 DEF AcceptOrdering, builder
  <2>2. i - 1 = Len(order_by)
    BY <1>1, <1>2, <2>1
  <2>3. ordering = FlattenSeq(order_by)
    BY <1>1, <1>2, <2>1, <2>2, FlatEnds
  <2>4. D(order_by, cursor, ordering')
    BY <2>1, <2>3 DEF D, OrderingDisagrees
  <2> QED
    BY <1>1, <2>1, <2>4
<1>8. CASE /\ pc \in {"where", "splice", "render"} /\ pc' \in {"where", "splice", "render", "done"}
           /\ pc' = "done" \/ outcome' = outcome
           /\ UNCHANGED <<ordering, order_by, cursor>>
  BY <1>1, <1>3, <1>8 DEF Splicing
<1>9. CASE pc' = "done" /\ outcome' \in Errors
  BY <1>1, <1>9 DEF Splicing, Errors
<1>10. CASE UNCHANGED vars
  BY <1>1, <1>10 DEF vars, Splicing
<1> QED
  BY <1>4, <1>5, <1>6, <1>7, <1>8, <1>9, <1>10, OrderingStep

(* What the promise says of the conditions, in terms of what was pushed.   *)
LEMMA ConditionsAre ==
  ASSUME TypeOK
  PROVE  /\ FlattenSeq(NamedBy(authored)) \in Lists(Meant)
         /\ FlattenSeq(BranchesTo(Len(cursor.keys))) \in Lists(Meant)
         /\ Promise!Conditions =
              FlattenSeq(NamedBy(authored)) \o FlattenSeq(BranchesTo(Len(cursor.keys)))
         /\ Promise!Conditions \in Lists(Meant)
<1>1. cursor.keys \in Seq(Keys) /\ Len(cursor.keys) \in Nat /\ authored \in Seq(Clauses)
  BY CursorType DEF TypeOK
<1>2. DOMAIN cursor.keys = 1..Len(cursor.keys)
  BY <1>1
<1>3. Promise!Positioned = BranchesTo(Len(cursor.keys))
  BY <1>2 DEF Promise!Positioned, BranchesTo, AuthorCursor
<1>4. Promise!AllNamed = NamedBy(authored)
  BY DEF Promise!AllNamed, NamedBy
<1>5. Promise!Conditions = FlattenSeq(NamedBy(authored)) \o FlattenSeq(BranchesTo(Len(cursor.keys)))
  BY <1>3, <1>4, SameFlat DEF Promise!Conditions
<1>6. FlattenSeq(NamedBy(authored)) \in Lists(Meant)
  BY <1>1, NamedByType, FlatType
<1>7. FlattenSeq(BranchesTo(Len(cursor.keys))) \in Lists(Meant)
  BY <1>1, BranchesType, FlatType
<1> QED
  BY <1>5, <1>6, <1>7, ListsJoin

(* The ordering composed is the one promised.                              *)
LEMMA OrderingIs ==
  ASSUME TypeOK, OrderingKept, Splicing
  PROVE  Promise!Ordering = ordering /\ ordering \in Lists(Meant)
BY OrderingMeanings DEF OrderingKept

(* The promised ordering is a list.                                        *)
LEMMA PromisedOrdering ==
  ASSUME TypeOK
  PROVE  Promise!Ordering \in Lists(Meant)
<1>1. Promise!Ordering = IF order_by = << >> THEN cursor.keys ELSE FlattenSeq(order_by)
  BY SameFlat DEF Promise!Ordering, Promise!Pushed
<1>2. FlattenSeq(order_by) \in Lists(Keys)
  BY OrderingsType, FlatType
<1>3. cursor.keys \in Lists(Keys)
  BY CursorType DEF Lists
<1>4. Lists(Keys) \subseteq Lists(Meant)
  BY DEF Lists, Meant
<1> QED
  BY <1>1, <1>2, <1>3, <1>4

(* The instance of the promise counts as we do.                            *)
LEMMA SameCardinality == \A S : Promise!Cardinality(S) = Cardinality(S)
BY DEF Promise!Cardinality, Cardinality

(* What the tokens of the base query stand for are lists.                  *)
LEMMA StandsType ==
  ASSUME TypeOK
  PROVE  /\ Promise!AllStand \in Seq(Lists(Meant)) /\ Promise!AllSort \in Seq(Lists(Meant))
         /\ Len(Promise!AllStand) = Len(base) /\ Len(Promise!AllSort) = Len(base)
         /\ \A k \in 1..Len(base) :
              /\ Promise!AllStand[k] = Promise!Stands(k)
              /\ Promise!AllSort[k] =
                   IF Promise!Slot(base[k], "order_by") THEN Promise!Ordering ELSE << >>
<1> DEFINE l == Len(base)
           s == Promise!AllStand
           o == Promise!AllSort
           O(k) == IF Promise!Slot(base[k], "order_by") THEN Promise!Ordering ELSE << >>
<1>1. l \in Nat /\ DOMAIN base = 1..l /\ \A k \in 1..l : base[k].number \in Nat
  BY BaseType DEF TypeOK
<1>2. s = [k \in 1..l |-> Promise!Stands(k)] /\ o = [k \in 1..l |-> O(k)]
  BY <1>1 DEF Promise!AllStand, Promise!AllSort
<1>3. \A k \in 1..l : Promise!Stands(k) \in Lists(Meant)
  <2>1. SUFFICES ASSUME NEW k \in 1..l
                 PROVE  Promise!Stands(k) \in Lists(Meant)
    OBVIOUS
  <2>2. Promise!Conditions \in Lists(Meant) /\ << >> \in Lists(Meant)
    BY ConditionsAre, ListsEmpty
  <2>3. base[k].number \in Nat /\ k \in Nat
    BY <1>1
  <2>4. Promise!Questions(k) = Cardinality(QuestionsUpTo(base, k))
    BY SameCardinality DEF Promise!Questions, QuestionsUpTo, IsQuestion
  <2>5. Promise!Questions(k) \in Nat
    BY <2>3, <2>4, QuestionsCounted
  <2>6. <<0, base[k].number>> \in Meant /\ <<0, Promise!Questions(k)>> \in Meant
    BY <2>3, <2>5, ValueMeant
  <2>7. \A m \in Meant : <<m>> \in Lists(Meant)
    BY DEF Lists
  <2> DEFINE x == << <<0, base[k].number>> >>
             y == << <<0, Promise!Questions(k)>> >>
  <2>8. x \in Lists(Meant) /\ y \in Lists(Meant)
    BY <2>6, <2>7
  <2>9. Promise!Stands(k) \in {x, y, << >>, Promise!Conditions}
    BY Zenon DEF Promise!Stands
  <2> HIDE DEF x, y
  <2> QED
    BY <2>2, <2>8, <2>9
<1>4. \A k \in 1..l : O(k) \in Lists(Meant)
  BY PromisedOrdering, ListsEmpty
<1> HIDE DEF l, s, o, O
<1>5. \A k \in 1..l : s[k] = Promise!Stands(k) /\ o[k] = O(k)
  BY <1>2
<1>6. s = [k \in 1..l |-> s[k]] /\ o = [k \in 1..l |-> o[k]]
  BY <1>2
<1>7. s \in Seq(Lists(Meant)) /\ Len(s) = l
  BY <1>1, <1>3, <1>5, <1>6, ListIsSeq
<1>8. o \in Seq(Lists(Meant)) /\ Len(o) = l
  BY <1>1, <1>4, <1>5, <1>6, ListIsSeq
<1> QED
  BY <1>5, <1>7, <1>8 DEF s, o, l, O

(* What is promised depends on the builder alone, ...                      *)
LEMMA PromiseSame ==
  ASSUME UNCHANGED builder
  PROVE  /\ Promise!AllStand' = Promise!AllStand /\ Promise!AllSort' = Promise!AllSort
         /\ Promise!Conditions' = Promise!Conditions /\ Promise!Ordering' = Promise!Ordering
         /\ Promise!HasConditions' <=> Promise!HasConditions
<1>1. /\ base' = base /\ authored' = authored /\ cursor' = cursor /\ order_by' = order_by
  BY DEF builder
<1>2. Promise!Conditions' = Promise!Conditions
  BY <1>1 DEF Promise!Conditions, Promise!AllNamed, Promise!Positioned
<1>3. Promise!Ordering' = Promise!Ordering
  BY <1>1 DEF Promise!Ordering, Promise!Pushed
<1>4. Promise!HasConditions' <=> Promise!HasConditions
  BY <1>1 DEF Promise!HasConditions
<1>5. Promise!AllSort' = Promise!AllSort
  BY <1>1, <1>3 DEF Promise!AllSort
<1>6. Promise!AllStand' = Promise!AllStand
  BY <1>1, <1>2 DEF Promise!AllStand, Promise!Stands, Promise!Questions
<1> QED
  BY <1>2, <1>3, <1>4, <1>5, <1>6

(* The step that finishes the clause has all conditions in it.             *)
LEMMA FinishedConditions ==
  ASSUME TypeOK, TypeOK', Signed, ClausesKept, ClausesJoined, BranchesWritten, FinishWhere
  PROVE  /\ Meanings(acc'.sql, "number") = Promise!Conditions
         /\ acc'.sql # << >> <=> Promise!HasConditions
<1> DEFINE l == Len(cursor.keys)
           f == Combine(acc, CursorClause)
           M(sql) == Meanings(sql, "number")
<1>1. /\ pc = "where" /\ i > Len(where_by) + l /\ Gathering
      /\ acc' = Shift(f, Placeholders)
  BY DEF FinishWhere, WheresRead, Gathering
<1>2. /\ where_by \in Seq(Fragments) /\ Len(where_by) \in Nat /\ i \in Nat \ {0}
      /\ acc \in Fragments /\ cursor.keys \in Seq(Keys) /\ l \in Nat
      /\ boundary \in Seq(Tokens(Values)) /\ authored \in Seq(Clauses)
  BY CursorType DEF TypeOK
<1>3. JoinedSoFar = Len(where_by) /\ Branches = l
  <2>1. Branches \in 0..l
    BY <1>1 DEF Signed, BoundarySigned
  <2> QED
    BY <1>1, <1>2, <2>1 DEF JoinedSoFar, Branches
<1>4. Gathers(acc, where_by, Len(where_by)) /\ WritesTo(boundary, l)
  BY <1>1, <1>3, GathersIs, WritesIs
<1>5. Agree(where_by, authored)
  BY AgreeIs
<1>6. M(acc.sql) = FlattenSeq(NamedBy(authored))
  <2>1. MeantBy(where_by) \in Seq(Lists(Meant)) /\ Len(MeantBy(where_by)) = Len(where_by)
    BY <1>2, MeantByType
  <2>2. FlattenSeq(Leading(MeantBy(where_by), Len(where_by))) = FlattenSeq(MeantBy(where_by))
    BY <2>1, FlatEnds
  <2> QED
    BY <1>4, <1>5, <2>2 DEF Gathers, Agree
<1>7. M(boundary) = FlattenSeq(BranchesTo(l))
  BY <1>4 DEF WritesTo
<1>8. CursorClause \in Fragments /\ CursorClause.sql = boundary
  BY CursorClauseType
<1>9. /\ f \in Fragments /\ f.sql \in Seq(Tokens(Values))
      /\ M(f.sql) = M(acc.sql) \o M(boundary)
      /\ f.sql # << >> <=> acc.sql # << >> \/ boundary # << >>
  <2>1. f \in Fragments
    BY <1>2, <1>8, CombineType
  <2>2. /\ M(f.sql) = M(acc.sql) \o M(CursorClause.sql)
        /\ f.sql # << >> <=> acc.sql # << >> \/ CursorClause.sql # << >>
    BY <1>2, <1>8, CombineMeanings
  <2>3. f.sql \in Seq(Tokens(Values))
    <3> HIDE DEF f
    <3> QED
      BY <2>1 DEF Fragments
  <2> QED
    BY <1>8, <2>1, <2>2, <2>3
<1> HIDE DEF f
<1>10. /\ M(acc'.sql) = M(f.sql)
       /\ acc'.sql # << >> <=> f.sql # << >>
  <2>1. Placeholders \in Nat
    BY PlaceholdersType
  <2>2. acc'.sql = ShiftPlaceholderNumbers(f.sql, Placeholders)
    BY <1>1, <1>9, <2>1, ShiftType
  <2> QED
    BY <1>9, <2>1, <2>2, ShiftMeanings
<1>11. acc.sql # << >> <=> \E a \in DOMAIN authored : authored[a].text # << >>
  <2>1. DOMAIN where_by = 1..Len(where_by)
    BY <1>2
  <2> QED
    BY <1>4, <1>5, <2>1 DEF Gathers, Agree, SomeSql, SomeText
<1>12. boundary # << >> <=> cursor.keys # << >>
  <2>1. l > 0 <=> cursor.keys # << >>
    BY <1>2
  <2> QED
    BY <1>4, <2>1 DEF WritesTo
<1>13. M(acc'.sql) = Promise!Conditions
  BY <1>6, <1>7, <1>9, <1>10, ConditionsAre
<1>14. acc'.sql # << >> <=> Promise!HasConditions
  BY <1>9, <1>10, <1>11, <1>12 DEF Promise!HasConditions
<1> QED
  BY <1>13, <1>14

(* A text that authors have written has no sort keys in it.                *)
LEMMA WrittenNoKeys ==
  ASSUME NEW sql \in Seq(Words), NEW A, WrittenFor(sql, A)
  PROVE  Meanings(sql, "key") = << >>
BY MeaningsNone DEF WrittenFor

(* A step of the splice loop writes what the token it reads stands for.    *)
LEMMA SplicedMeanings ==
  ASSUME TypeOK, Signed, OrderingKept, Splicing,
         Meanings(acc.sql, "number") = Promise!Conditions,
         SpliceSlot \/ NumberQuestion \/ CopyToken
  PROVE  /\ Meanings(out', "number") = Meanings(out, "number") \o Promise!Stands(i)
         /\ Meanings(out', "key") = Meanings(out, "key") \o
              (IF Promise!Slot(base[i], "order_by") THEN Promise!Ordering ELSE << >>)
<1>1. out \in Seq(Words) /\ acc.sql \in Seq(Words) /\ << >> \in Seq(Words)
  <2>1. out \in Seq(Words)
    BY TextWords DEF TypeOK
  <2>2. acc.sql \in Seq(Tokens(Values))
    BY DEF TypeOK, Fragments
  <2>3. << >> \in Seq(Words)
    OBVIOUS
  <2> QED
    BY <2>1, <2>2, <2>3, FragmentWords
<1>2. Meanings(acc.sql, "key") = << >>
  BY <1>1, WrittenNoKeys DEF Signed, ClauseSigned
<1>3. Promise!Ordering = ordering /\ ordering \in Lists(Meant)
  BY OrderingIs
<1>4. i \in 1..Len(base) /\ base[i] \in BaseTokens /\ base[i].number \in Nat
      /\ (~IsSlot(base[i]) => base[i] \in ClauseTokens)
  <2>1. i \in 1..Len(base)
    BY BaseType DEF TypeOK, SpliceSlot, NumberQuestion, CopyToken
  <2> QED
    BY <2>1, BaseType DEF TypeOK
<1>5. CASE SpliceSlot
  <2> DEFINE t == Spliced(base[i].name)
  <2>1. out' = out \o t /\ base[i].kind = "slot"
    BY <1>5 DEF SpliceSlot, IsSlot
  <2>2. /\ Promise!Stands(i) = IF base[i].name = "where" THEN Promise!Conditions ELSE << >>
        /\ Promise!Slot(base[i], "order_by") <=> base[i].name = "order_by"
    BY <2>1 DEF Promise!Stands, Promise!Slot
  <2>3. t \in Seq(Words)
    BY SplicedType, TextWords
  <2>4. /\ Meanings(t, "number") = Promise!Stands(i)
        /\ Meanings(t, "key") = IF Promise!Slot(base[i], "order_by") THEN Promise!Ordering ELSE << >>
    <3>1. CASE base[i].name = "where"
      <4>1. t = acc.sql
        BY <3>1 DEF Spliced
      <4> HIDE DEF t
      <4> QED
        BY <1>2, <2>2, <3>1, <4>1
    <3>2. CASE base[i].name = "order_by"
      <4>1. t = OrderingText
        BY <3>2 DEF Spliced
      <4>2. Meanings(OrderingText, "key") = ordering /\ Meanings(OrderingText, "number") = << >>
        BY OrderingMeanings
      <4> HIDE DEF t
      <4> QED
        BY <1>3, <2>2, <3>2, <4>1, <4>2
    <3>3. CASE base[i].name \notin {"where", "order_by"}
      <4>1. t = << >>
        BY <3>3 DEF Spliced
      <4>2. Meanings(<< >>, "number") = << >> /\ Meanings(<< >>, "key") = << >>
        BY MeaningsEmpty
      <4> HIDE DEF t
      <4> QED
        BY <2>2, <3>3, <4>1, <4>2
    <3> QED
      BY <3>1, <3>2, <3>3
  <2> HIDE DEF t
  <2>5. /\ Meanings(out', "number") = Meanings(out, "number") \o Meanings(t, "number")
        /\ Meanings(out', "key") = Meanings(out, "key") \o Meanings(t, "key")
    <3>1. \A kind : Meanings(out \o t, kind) = Meanings(out, kind) \o Meanings(t, kind)
      BY <1>1, <2>3, MeaningsConcat
    <3> QED
      BY <2>1, <3>1
  <2> QED
    BY <2>4, <2>5
<1>6. CASE NumberQuestion
  <2> DEFINE n == Cardinality(QuestionsUpTo(base, i))
             t == Token("number", QuestionNumber, <<Author0, n>>)
  <2>1. out' = Append(out, t) /\ base[i].kind = "question" /\ ~Numbered
    BY <1>6 DEF NumberQuestion, IsQuestion
  <2>2. n \in Nat /\ QuestionNumber \in Nat
    <3>1. i \in Nat /\ question \in Nat
      BY DEF TypeOK
    <3> QED
      BY <3>1, QuestionsCounted DEF QuestionNumber
  <2>3. n = Promise!Questions(i)
    BY SameCardinality DEF Promise!Questions, QuestionsUpTo, IsQuestion
  <2> HIDE DEF n
  <2>4. t \in Tokens(Values)
    BY <2>2 DEF Tokens, Token, Values, Author0, Kinds
  <2>5. t \in Words /\ Part(t, "number") = << <<0, n>> >> /\ Part(t, "key") = << >>
    BY <2>4 DEF Words, Part, Token, Author0
  <2> HIDE DEF t
  <2>6. /\ Meanings(out', "number") = Meanings(out, "number") \o Part(t, "number")
        /\ Meanings(out', "key") = Meanings(out, "key") \o Part(t, "key")
    BY <1>1, <2>1, <2>5, MeaningsAppend
  <2>7. Promise!Stands(i) = << <<0, n>> >> /\ ~Promise!Slot(base[i], "order_by")
    BY <2>1, <2>3 DEF Promise!Stands, Promise!Slot
  <2> QED
    BY <2>5, <2>6, <2>7
<1>7. CASE CopyToken
  <2> DEFINE t == Token(base[i].kind, base[i].number, <<Author0, base[i].number>>)
  <2>1. out' = Append(out, t) /\ ~IsSlot(base[i]) /\ (Numbered \/ ~IsQuestion(base[i]))
    BY <1>7 DEF CopyToken
  <2>2. base[i].kind \in {"number", "question", "text"} /\ base[i].number \in Nat
    BY <1>4, <2>1 DEF ClauseTokens
  <2>3. t \in Tokens(Values)
    BY <2>2 DEF Tokens, Token, Values, Author0, Kinds
  <2>4. /\ t \in Words /\ Part(t, "key") = << >>
        /\ Part(t, "number") =
             IF base[i].kind = "number" THEN << <<0, base[i].number>> >> ELSE << >>
    BY <2>2, <2>3 DEF Words, Part, Token, Author0
  <2> HIDE DEF t
  <2>5. /\ Meanings(out', "number") = Meanings(out, "number") \o Part(t, "number")
        /\ Meanings(out', "key") = Meanings(out, "key") \o Part(t, "key")
    BY <1>1, <2>1, <2>4, MeaningsAppend
  <2>6. /\ ~Promise!Slot(base[i], "order_by")
        /\ Promise!Stands(i) = IF base[i].kind = "number" THEN << <<0, base[i].number>> >> ELSE << >>
    BY <2>1, <2>2 DEF Promise!Stands, Promise!Slot, IsSlot, IsQuestion
  <2> QED
    BY <2>4, <2>5, <2>6
<1> QED
  BY <1>5, <1>6, <1>7

(* What the steps behind the splice loop leave alone.                      *)
LEMMA SplicingStep ==
  ASSUME TypeOK, TypeOK', [Next]_vars, Splicing'
  PROVE  \/ FinishWhere
         \/ SpliceSlot \/ NumberQuestion \/ CopyToken
         \/ /\ Splicing /\ pc' # "splice"
            /\ pc = "splice" => SlotsFound
            /\ UNCHANGED <<builder, acc, out, spliced, ordering>>
         \/ UNCHANGED vars
BY DEF Next, vars, Build, Composing, Bind, BindValue, PushArgument, WithCursor, PushOrderBy,
       PushWhere, PushEither, Compose, RejectUnsupported, RejectBase, AcceptBase, ThenOrderBy,
       RejectCursor, AcceptOrdering, AndClause, BoundaryBranch, PanicOnUnsetCursor, FinishWhere,
       SpliceSlot, NumberQuestion, CopyToken, RejectMissingWhere, RejectMissingOrderBy,
       RejectStatement, FinishNumbered, StartRender, RenderReference, RejectReference,
       CopyRendered, FinishRender, Fail, Return, builder, pipeline, WheresRead,
       BaseScanned, SlotsFound, Splicing, TypeOK

(* The statement reads as the first n tokens of the base query do.         *)
Reads(text, n) ==
  /\ n <= Len(base)
  /\ Meanings(text, "number") = FlattenSeq(Leading(Promise!AllStand, n))
  /\ Meanings(text, "key") = FlattenSeq(Leading(Promise!AllSort, n))

(* Before the splice loop, the empty statement reads as no tokens do.      *)
LEMMA ReadsNone ==
  ASSUME TypeOK
  PROVE  Reads(<< >>, 0)
<1>1. /\ Promise!AllStand \in Seq(Lists(Meant)) /\ Promise!AllSort \in Seq(Lists(Meant))
      /\ Len(base) \in Nat
  BY StandsType, BaseType DEF TypeOK
<1> QED
  BY <1>1, FlatEnds, MeaningsEmpty DEF Reads

(* One turn of the splice loop reads one token more.                       *)
LEMMA ReadsMore ==
  ASSUME TypeOK, Signed, OrderingKept, Splicing, Reads(out, i - 1),
         Meanings(acc.sql, "number") = Promise!Conditions,
         SpliceSlot \/ NumberQuestion \/ CopyToken
  PROVE  Reads(out', i)
<1> DEFINE n == i - 1
           s == Promise!AllStand
           o == Promise!AllSort
           M(text) == Meanings(text, "number")
           K(text) == Meanings(text, "key")
<1>1. i \in Nat \ {0} /\ Len(base) \in Nat /\ i <= Len(base)
  BY BaseType DEF TypeOK, SpliceSlot, NumberQuestion, CopyToken
<1>2. n \in Nat /\ n < Len(base) /\ n + 1 = i /\ i \in 1..Len(base)
  BY <1>1
<1>3. /\ s \in Seq(Lists(Meant)) /\ o \in Seq(Lists(Meant)) /\ Len(s) = Len(base) /\ Len(o) = Len(base)
      /\ s[i] = Promise!Stands(i)
      /\ o[i] = IF Promise!Slot(base[i], "order_by") THEN Promise!Ordering ELSE << >>
  BY <1>2, StandsType
<1>4. M(out) = FlattenSeq(Leading(s, n)) /\ K(out) = FlattenSeq(Leading(o, n))
  BY DEF Reads
<1>5. M(out') = M(out) \o s[i] /\ K(out') = K(out) \o o[i]
  BY <1>3, SplicedMeanings
<1> HIDE DEF n, s, o, M, K
<1>6. FlattenSeq(Leading(s, n + 1)) = FlattenSeq(Leading(s, n)) \o s[n + 1]
  BY <1>2, <1>3, FlatStep
<1>7. FlattenSeq(Leading(o, n + 1)) = FlattenSeq(Leading(o, n)) \o o[n + 1]
  BY <1>2, <1>3, FlatStep
<1>8. M(out') = FlattenSeq(Leading(s, i)) /\ K(out') = FlattenSeq(Leading(o, i))
  BY <1>2, <1>4, <1>5, <1>6, <1>7
<1> QED
  BY <1>1, <1>8 DEF Reads, s, o, M, K

(* The combined clause holds every condition, and there is text in it      *)
(* where there is one.                                                     *)
Holds(clause) ==
  /\ Meanings(clause.sql, "number") = Promise!Conditions
  /\ clause.sql # << >> <=> Promise!HasConditions

(* That is what the invariant says of the statement.                       *)
LEMMA StatementIs ==
  /\ StatementKept <=> (Splicing =>
       /\ Holds(acc) /\ Reads(out, Read)
       /\ cursor.keys # << >> => cursor.set
       /\ pc # "splice" => ~WhereHasNoSlot /\ ~OrderByHasNoSlot)
  /\ UNCHANGED builder => (StatementKept' <=> (Splicing' =>
       /\ Holds(acc') /\ Reads(out', Read')
       /\ cursor'.keys # << >> => cursor'.set
       /\ pc' # "splice" => ~WhereHasNoSlot' /\ ~OrderByHasNoSlot'))
<1>1. StatementKept <=> (Splicing =>
       /\ Holds(acc) /\ Reads(out, Read)
       /\ cursor.keys # << >> => cursor.set
       /\ pc # "splice" => ~WhereHasNoSlot /\ ~OrderByHasNoSlot)
  BY DEF StatementKept, Holds, Reads
<1>2. ASSUME UNCHANGED builder
      PROVE  StatementKept' <=> (Splicing' =>
               /\ Holds(acc') /\ Reads(out', Read')
               /\ cursor'.keys # << >> => cursor'.set
               /\ pc' # "splice" => ~WhereHasNoSlot' /\ ~OrderByHasNoSlot')
  <2>1. base' = base
    BY <1>2 DEF builder
  <2> QED
    BY <1>2, <2>1, PromiseSame DEF StatementKept, Holds, Reads
<1> QED
  BY <1>1, <1>2

(* Every step keeps the statement what the tokens read so far stand for.   *)
LEMMA StatementKeptNext ==
  ASSUME TypeOK, TypeOK', Signed, ClausesKept, ClausesJoined, BranchesWritten, OrderingKept,
         StatementKept, [Next]_vars
  PROVE  StatementKept'
<1> SUFFICES ASSUME Splicing'
             PROVE  StatementKept'
  BY DEF StatementKept
<1>1. i \in Nat \ {0} /\ Len(base) \in Nat
  BY BaseType DEF TypeOK
<1>2. CASE FinishWhere
  <2>1. /\ pc = "where" /\ pc' = "splice" /\ i' = 1 /\ out' = out
        /\ UNCHANGED builder /\ (cursor.keys = << >> \/ cursor.set)
    BY <1>2 DEF FinishWhere, WheresRead
  <2>2. out = << >>
    BY <2>1 DEF Signed, NothingSpliced, Gathering
  <2>3. Holds(acc')
    BY <1>2, FinishedConditions DEF Holds
  <2>4. Reads(out', 0) /\ Read' = 0
    BY <2>1, <2>2, ReadsNone DEF Read
  <2>5. cursor' = cursor
    BY <2>1 DEF builder
  <2> QED
    BY <2>1, <2>3, <2>4, <2>5, StatementIs
<1>3. CASE SpliceSlot \/ NumberQuestion \/ CopyToken
  <2>1. /\ pc = "splice" /\ pc' = "splice" /\ i' = i + 1 /\ acc' = acc /\ Splicing
        /\ UNCHANGED builder /\ cursor' = cursor
    BY <1>3 DEF SpliceSlot, NumberQuestion, CopyToken, Splicing, builder
  <2>2. /\ Holds(acc) /\ Reads(out, i - 1)
        /\ cursor.keys # << >> => cursor.set
    BY <2>1, StatementIs DEF Read
  <2>3. Reads(out', i)
    BY <1>3, <2>1, <2>2, ReadsMore DEF Holds
  <2>4. Read' = i
    BY <1>1, <2>1 DEF Read
  <2> QED
    BY <2>1, <2>2, <2>3, <2>4, StatementIs
<1>4. CASE /\ Splicing /\ pc' # "splice"
           /\ pc = "splice" => SlotsFound
           /\ UNCHANGED <<builder, acc, out, spliced, ordering>>
  <2>1. /\ UNCHANGED builder /\ cursor' = cursor /\ base' = base /\ order_by' = order_by
        /\ acc' = acc /\ out' = out /\ spliced' = spliced /\ ordering' = ordering
    BY <1>4 DEF builder
  <2>2. /\ Holds(acc) /\ Reads(out, Read)
        /\ cursor.keys # << >> => cursor.set
        /\ pc # "splice" => ~WhereHasNoSlot /\ ~OrderByHasNoSlot
    BY <1>4, StatementIs
  <2>3. Read = Len(base)
    <3>1. CASE pc = "splice"
      <4>1. i > Len(base) /\ Read = i - 1
        BY <1>4, <3>1 DEF SlotsFound, BaseScanned, Read
      <4>2. Read <= Len(base)
        BY <2>2 DEF Reads
      <4> QED
        BY <1>1, <4>1, <4>2
    <3>2. CASE pc # "splice"
      BY <3>2 DEF Read
    <3> QED
      BY <3>1, <3>2
  <2>4. Read' = Len(base)
    BY <1>4, <2>1 DEF Read
  <2>5. ~WhereHasNoSlot /\ ~OrderByHasNoSlot
    BY <1>4, <2>2 DEF SlotsFound
  <2>6. ~WhereHasNoSlot' /\ ~OrderByHasNoSlot'
    BY <2>1, <2>5 DEF WhereHasNoSlot, OrderByHasNoSlot
  <2> QED
    BY <2>1, <2>2, <2>3, <2>4, <2>6, StatementIs
<1>5. CASE UNCHANGED vars
  <2>1. /\ UNCHANGED builder /\ cursor' = cursor /\ acc' = acc /\ out' = out /\ Read' = Read /\ pc' = pc
        /\ Splicing' = Splicing /\ WhereHasNoSlot' = WhereHasNoSlot
        /\ OrderByHasNoSlot' = OrderByHasNoSlot
    BY <1>5 DEF vars, builder, Read, Splicing, WhereHasNoSlot, OrderByHasNoSlot
  <2> QED
    BY <2>1, StatementIs
<1> QED
  BY <1>2, <1>3, <1>4, <1>5, SplicingStep

(* Which steps render, or end rendering.                                   *)
LEMMA RenderingStep ==
  ASSUME TypeOK, [Next]_vars, Rendering', ~Numbered
  PROVE  \/ StartRender \/ RenderReference \/ CopyRendered
         \/ FinishRender /\ outcome' = "ok"
         \/ UNCHANGED vars
<1>1. outcome = "pending" \/ pc = "done"
  BY DEF TypeOK
<1>2. CASE Build
  BY <1>1, <1>2 DEF Build, Bind, BindValue, PushArgument, WithCursor, PushOrderBy, PushWhere,
                    PushEither, Compose, Rendering
<1>3. CASE RejectUnsupported \/ RejectBase \/ AcceptBase \/ ThenOrderBy \/ RejectCursor
           \/ AcceptOrdering \/ AndClause \/ BoundaryBranch \/ PanicOnUnsetCursor \/ FinishWhere
  BY <1>1, <1>3 DEF RejectUnsupported, RejectBase, AcceptBase, ThenOrderBy, RejectCursor,
                    AcceptOrdering, AndClause, BoundaryBranch, PanicOnUnsetCursor, FinishWhere,
                    Fail, Return, WheresRead, Rendering
<1>4. CASE SpliceSlot \/ NumberQuestion \/ CopyToken
  BY <1>1, <1>4 DEF SpliceSlot, NumberQuestion, CopyToken, Rendering
<1>5. CASE RejectMissingWhere \/ RejectMissingOrderBy \/ RejectStatement \/ FinishNumbered
           \/ RejectReference
  BY <1>1, <1>5 DEF RejectMissingWhere, RejectMissingOrderBy, RejectStatement, FinishNumbered,
                    RejectReference, Fail, Return, BaseScanned, SlotsFound, Rendering
<1>6. CASE FinishRender
  BY <1>1, <1>6 DEF FinishRender, Return
<1> QED
  BY <1>2, <1>3, <1>4, <1>5, <1>6 DEF Next, Composing

Passed == IF pc = "render" THEN i - 1 ELSE Len(out)

(* The ?s written are the numbers of the first n tokens of the statement.  *)
Marked(text, n) ==
  n <= Len(out) /\ text = Meanings(Leading(out, n), "number")

(* One turn of the render loop passes one token more.                      *)
LEMMA MarkedMore ==
  ASSUME TypeOK, NEW n \in Nat, n < Len(out), Marked(marks, n)
  PROVE  Marked(marks \o Part(out[n + 1], "number"), n + 1)
<1>1. out \in Seq(Words) /\ Len(out) \in Nat
  BY TextWords DEF TypeOK
<1>2. /\ Leading(out, n) \in Seq(Words) /\ out[n + 1] \in Words
      /\ Leading(out, n + 1) = Append(Leading(out, n), out[n + 1])
  BY <1>1, LeadingGrows
<1> DEFINE a == Leading(out, n)
           t == out[n + 1]
<1> HIDE DEF a, t
<1>3. a \in Seq(Words) /\ t \in Words /\ Leading(out, n + 1) = Append(a, t)
  BY <1>2 DEF a, t
<1>4. Meanings(Append(a, t), "number") = Meanings(a, "number") \o Part(t, "number")
  BY <1>3, MeaningsAppend
<1>5. marks = Meanings(a, "number")
  BY DEF Marked, a
<1>6. n + 1 <= Len(out)
  BY <1>1
<1> QED
  BY <1>3, <1>4, <1>5, <1>6 DEF Marked, t

(* That is what the invariant says of the rendered marks.                  *)
LEMMA MarksAre ==
  MarksKept <=> (WellFormed /\ ~Numbered /\ Rendering => Marked(marks, Passed))
BY DEF MarksKept, Marked, Passed

(* Every step keeps the rendered marks the numbers passed.                 *)
LEMMA MarksKeptNext ==
  ASSUME IInv, TypeOK', Signed, MarksKept, [Next]_vars
  PROVE  MarksKept'
<1> SUFFICES ASSUME WellFormed', ~Numbered, Rendering'
             PROVE  Passed' <= Len(out') /\ marks' = Meanings(Leading(out', Passed'), "number")
  BY DEF MarksKept, Passed
<1>1. /\ TypeOK /\ i \in Nat \ {0} /\ out \in Seq(Words) /\ Len(out) \in Nat
      /\ marks \in Seq(Values)
  BY TextWords DEF IInv, TypeOK
<1>2. CASE UNCHANGED vars
  <2>1. WellFormed /\ Rendering /\ Passed' = Passed /\ out' = out /\ marks' = marks
    BY <1>2 DEF vars, WellFormed, Rendering, Passed
  <2> QED
    BY <2>1, MarksAre DEF Marked
<1>3. CASE ~UNCHANGED vars
  <2>1. WellFormed
    BY <1>1, <1>3, WellFormedBack
  <2>2. CASE StartRender
    <3>1. /\ pc = "splice" /\ pc' = "render" /\ i' = 1 /\ marks' = marks /\ out' = out
      BY <2>2 DEF StartRender, SlotsFound, BaseScanned
    <3>2. marks = << >>
      BY <3>1 DEF Signed, NothingSpliced
    <3>3. Passed' = 0
      BY <3>1 DEF Passed
    <3>4. Leading(out, 0) = << >>
      BY <1>1, LeadingType
    <3> QED
      BY <1>1, <3>1, <3>2, <3>3, <3>4, MeaningsEmpty
  <2>3. CASE RenderReference \/ CopyRendered
    <3> DEFINE n == i - 1
    <3>1. pc = "render" /\ pc' = "render" /\ i' = i + 1 /\ i <= Len(out) /\ out' = out
      BY <2>3 DEF RenderReference, CopyRendered
    <3>2. n \in Nat /\ n < Len(out) /\ n + 1 = i /\ Passed = n /\ Passed' = i /\ i \in 1..Len(out)
      BY <1>1, <3>1 DEF Passed
    <3>3. Marked(marks, n)
      BY <2>1, <3>1, <3>2, MarksAre DEF Rendering
    <3> HIDE DEF n
    <3>4. Marked(marks \o Part(out[n + 1], "number"), n + 1)
      BY <1>1, <3>2, <3>3, MarkedMore
    <3>5. marks' = marks \o Part(out[i], "number")
      <4>1. CASE RenderReference
        <5>1. marks' = Append(marks, out[i].means) /\ out[i].kind = "number"
          BY <4>1 DEF RenderReference, IsNumber
        <5>2. out[i].means \in Values
          BY <1>1, <3>1, <5>1, WrittenType
        <5> DEFINE v == out[i].means
        <5>3. Part(out[i], "number") = <<v>>
          BY <5>1 DEF Part
        <5> HIDE DEF v
        <5>4. v \in Values /\ marks' = Append(marks, v)
          BY <5>1, <5>2 DEF v
        <5>5. Append(marks, v) = marks \o <<v>>
          BY <1>1, <5>4
        <5> QED
          BY <5>3, <5>4, <5>5
      <4>2. CASE CopyRendered
        <5>1. ~IsNumber(out[i]) /\ marks' = IF IsQuestion(out[i]) THEN Append(marks, out[i].means) ELSE marks
          BY <4>2 DEF CopyRendered
        <5>2. ~IsQuestion(out[i])
          <6>1. NoQuestions(out)
            BY <2>1, <3>1 DEF IInv, SplicingOk, Splicing
          <6> QED
            BY <1>1, <3>2, <6>1 DEF NoQuestions, QuestionFree
        <5>3. Part(out[i], "number") = << >> /\ marks' = marks
          BY <5>1, <5>2 DEF Part, IsNumber
        <5>4. marks \o << >> = marks
          BY <1>1
        <5> QED
          BY <5>3, <5>4
      <4> QED
        BY <2>3, <4>1, <4>2
    <3> QED
      BY <3>1, <3>2, <3>4, <3>5 DEF Marked
  <2>4. CASE FinishRender /\ outcome' = "ok"
    <3>1. /\ pc = "render" /\ pc' = "done" /\ i > Len(out) /\ out' = out /\ marks' = marks
      BY <2>4 DEF FinishRender, Return, pipeline
    <3>2. Marked(marks, Passed) /\ Passed = i - 1 /\ Passed' = Len(out)
      BY <2>1, <3>1, MarksAre DEF Rendering, Passed
    <3>3. i - 1 = Len(out)
      BY <1>1, <3>1, <3>2 DEF Marked
    <3> QED
      BY <1>1, <3>1, <3>2, <3>3 DEF Marked
  <2> QED
    BY <1>1, <1>3, <2>2, <2>3, <2>4, RenderingStep
<1> QED
  BY <1>2, <1>3
-----------------------------------------------------------------------------
(* Nothing is gathered at first, and nothing was promised.                 *)
LEMMA PromiseKeptInit == Init => PromiseKept
<1> SUFFICES ASSUME Init PROVE PromiseKept
  OBVIOUS
<1>1. /\ where_by = << >> /\ order_by = << >> /\ authored = << >> /\ pc = "build"
      /\ ordering = << >> /\ boundary = << >> /\ acc = EmptyClause /\ outcome = "pending"
      /\ acc.sql = << >>
  BY DEF Init, EmptyClause, Fragment
<1>2. << >> \in Seq(Fragments) /\ << >> \in Seq(Clauses) /\ 0 \in Nat
  OBVIOUS
<1>3. Agree(<< >>, << >>)
  <2>1. MeantBy(<< >>) = << >> /\ NamedBy(<< >>) = << >>
    BY DEF MeantBy, NamedBy
  <2> QED
    BY <2>1 DEF Agree, SomeSql, SomeText
<1>4. Gathers(acc, where_by, 0) /\ JoinedSoFar = 0
  BY <1>1, <1>2, GathersNone, MeaningsEmpty DEF JoinedSoFar
<1>5. WritesTo(boundary, 0) /\ Branches = 0
  <2>1. BranchesTo(0) = << >>
    BY DEF BranchesTo
  <2> QED
    BY <1>1, <2>1, FlatEmpty, MeaningsEmpty DEF WritesTo, Branches
<1>6. ClausesKept /\ ClausesJoined /\ BranchesWritten
  BY <1>1, <1>3, <1>4, <1>5, AgreeIs, GathersIs, WritesIs
<1>7. OrderingKept /\ StatementKept /\ MarksKept
  BY <1>1 DEF OrderingKept, StatementKept, MarksKept, Splicing, Rendering
<1> QED
  BY <1>6, <1>7 DEF PromiseKept

(* Every step of the builder and of compose() keeps what is promised.      *)
LEMMA PromiseKeptNext ==
  IInv /\ TypeOK' /\ Signed /\ PromiseKept /\ [Next]_vars => PromiseKept'
BY ClausesKeptNext, ClausesJoinedNext, BranchesWrittenNext, OrderingKeptNext, StatementKeptNext,
   MarksKeptNext DEF PromiseKept, IInv

(* Whatever the inputs, each loop of compose() has gathered exactly what   *)
(* the parts pushed to the builder promise for its index: clauses, the     *)
(* cursor's branches, the ordering, the spliced statement and its rendered *)
(* marks.                                                                  *)
THEOREM PromiseKeptHolds == Spec => []PromiseKept
<1>1. Init => PromiseKept
  BY PromiseKeptInit
<1>2. IInv /\ TypeOK' /\ Signed /\ PromiseKept /\ [Next]_vars => PromiseKept'
  BY PromiseKeptNext
<1> QED
  BY <1>1, <1>2, IInvHolds, TypeCorrect, SignedHolds, PTL DEF Spec

(* The greatest of a set, as the instance of the promise has it.           *)
LEMMA MaxIs ==
  ASSUME NEW S \in SUBSET Nat, NEW m \in S, \A n \in S : n <= m
  PROVE  Promise!Max(S) = m
<1>1. \E x \in S : \A y \in S : x >= y
  OBVIOUS
<1>2. Promise!Max(S) \in S /\ \A y \in S : Promise!Max(S) >= y
  BY <1>1, Zenon DEF Promise!Max
<1> DEFINE x == Promise!Max(S)
<1>3. x \in Nat /\ m \in Nat /\ x <= m /\ m <= x
  BY <1>2
<1> HIDE DEF x
<1>4. x = m
  BY <1>3
<1> QED
  BY <1>4 DEF x

(* The least of a set, likewise.                                           *)
LEMMA MinIs ==
  ASSUME NEW S \in SUBSET Nat, NEW m \in S, \A n \in S : m <= n
  PROVE  Promise!Min(S) = m
<1>1. \E x \in S : \A y \in S : x <= y
  OBVIOUS
<1>2. Promise!Min(S) \in S /\ \A y \in S : Promise!Min(S) <= y
  BY <1>1, Zenon DEF Promise!Min
<1> DEFINE x == Promise!Min(S)
<1>3. x \in Nat /\ m \in Nat /\ x <= m /\ m <= x
  BY <1>2
<1> HIDE DEF x
<1>4. x = m
  BY <1>3
<1> QED
  BY <1>4 DEF x

(* The promise's highest number is max_placeholder_number.                 *)
LEMMA MaxNumbers ==
  ASSUME NEW T, NEW sql \in Seq(T), \A k \in DOMAIN sql : sql[k].number \in Nat
  PROVE  Promise!Max(Numbers(sql) \cup {0}) = MaxPlaceholderNumber(sql)
<1> DEFINE S == Numbers(sql) \cup {0}
           m == MaxPlaceholderNumber(sql)
<1>1. S \in SUBSET Nat
  BY DEF Numbers
<1>2. m \in Nat /\ (\A n \in Numbers(sql) : n <= m) /\ (Numbers(sql) # {} => m \in Numbers(sql))
  BY MaxPlaceholderNumberIsMax
<1>3. Numbers(sql) = {} => m = 0
  BY DEF MaxPlaceholderNumber
<1>4. m \in S /\ \A n \in S : n <= m
  BY <1>2, <1>3
<1> HIDE DEF S, m
<1>5. Promise!Max(S) = m
  BY <1>1, <1>4, MaxIs
<1> QED
  BY <1>5 DEF S, m

(* Right numbering, as the promise has it, is the invariants'.             *)
LEMMA RightlyNumbered ==
  ASSUME TypeOK, 0 \notin Promise!BaseNumbers,
         \A a \in DOMAIN authored : Promise!WellNumbered(authored[a])
  PROVE  WellFormed
<1>1. ASSUME NEW k \in DOMAIN base, IsNumber(base[k])
      PROVE  base[k].number > 0
  <2>1. base[k].number \in Nat /\ base[k].number # 0
    BY <1>1, BaseType DEF TypeOK, Promise!BaseNumbers, IsNumber
  <2> QED
    BY <2>1
<1>2. ASSUME NEW a \in DOMAIN authored
      PROVE  WellFormedClause(authored[a], Numbered)
  <2> DEFINE c == authored[a]
             x == c.text
  <2>1. c \in Clauses
    BY <1>2 DEF TypeOK
  <2>2. x \in Seq(ClauseTokens) /\ c.bound \in Nat
    <3> HIDE DEF c
    <3> QED
      BY <2>1, ClauseType DEF ClauseTexts
  <2>3. \A k \in DOMAIN x : x[k].number \in Nat
    <3> HIDE DEF x, c
    <3>1. \A k \in DOMAIN x : x[k] \in ClauseTokens
      BY <2>2
    <3>2. \A t \in ClauseTokens : t.number \in Nat
      BY DEF ClauseTokens
    <3> QED
      BY <3>1, <3>2
  <2>4. /\ Numbers(x) \subseteq 1..c.bound
        /\ Promise!Max(Numbers(x) \cup {0}) = c.bound
        /\ Numbered \/ \A k \in DOMAIN x : x[k].kind # "question"
    BY <1>2 DEF Promise!WellNumbered, Numbers, IsNumber
  <2> HIDE DEF x
  <2>5. MaxPlaceholderNumber(x) = c.bound
    BY <2>2, <2>3, <2>4, MaxNumbers
  <2>6. ASSUME c.bound > 0
        PROVE  \E k \in DOMAIN x : IsNumber(x[k]) /\ x[k].number = c.bound
    <3>1. Numbers(x) # {}
      BY <2>5, <2>6 DEF MaxPlaceholderNumber
    <3>2. c.bound \in Numbers(x)
      BY <2>2, <2>3, <2>5, <3>1, MaxPlaceholderNumberIsMax
    <3> QED
      BY <3>2 DEF Numbers
  <2>7. \A k \in DOMAIN x : IsNumber(x[k]) => x[k].number \in 1..c.bound
    BY <2>4 DEF Numbers
  <2>8. \A k \in DOMAIN x : IsQuestion(x[k]) => Numbered
    BY <2>4 DEF IsQuestion
  <2> HIDE DEF c
  <2>9. WellFormedClause(c, Numbered)
    BY <2>6, <2>7, <2>8 DEF WellFormedClause, x
  <2> QED
    BY <2>9 DEF c
<1> QED
  BY <1>1, <1>2 DEF WellFormed
-----------------------------------------------------------------------------
(* The first of six faults that holds gives the error its name.            *)
FirstGiven(h1, h2, h3, h4, h5, h6, n1, n2, n3, n4, n5, n6) ==
  LET faults == << Promise!Fault(h1, n1), Promise!Fault(h2, n2), Promise!Fault(h3, n3),
                   Promise!Fault(h4, n4), Promise!Fault(h5, n5), Promise!Fault(h6, n6) >>
      found  == {f \in DOMAIN faults : faults[f].holds}
      first  == faults[Promise!Min(found)].name
  IN  /\ h1 => found # {} /\ first = n1
      /\ ~h1 /\ h2 => found # {} /\ first = n2
      /\ ~h1 /\ ~h2 /\ h3 => found # {} /\ first = n3
      /\ ~h1 /\ ~h2 /\ ~h3 /\ h4 => found # {} /\ first = n4
      /\ ~h1 /\ ~h2 /\ ~h3 /\ ~h4 /\ h5 => found # {} /\ first = n5
      /\ ~h1 /\ ~h2 /\ ~h3 /\ ~h4 /\ ~h5 /\ h6 => found # {} /\ first = n6
      /\ ~h1 /\ ~h2 /\ ~h3 /\ ~h4 /\ ~h5 /\ ~h6 => found = {}

(* However many hold, the first one's name is given.                       *)
LEMMA FirstFault ==
  ASSUME NEW h1 \in BOOLEAN, NEW h2 \in BOOLEAN, NEW h3 \in BOOLEAN,
         NEW h4 \in BOOLEAN, NEW h5 \in BOOLEAN, NEW h6 \in BOOLEAN,
         NEW n1, NEW n2, NEW n3, NEW n4, NEW n5, NEW n6
  PROVE  FirstGiven(h1, h2, h3, h4, h5, h6, n1, n2, n3, n4, n5, n6)
<1> DEFINE faults == << Promise!Fault(h1, n1), Promise!Fault(h2, n2), Promise!Fault(h3, n3),
                        Promise!Fault(h4, n4), Promise!Fault(h5, n5), Promise!Fault(h6, n6) >>
           found  == {f \in DOMAIN faults : faults[f].holds}
<1>1. /\ DOMAIN faults = 1..6
      /\ faults[1].holds = h1 /\ faults[2].holds = h2 /\ faults[3].holds = h3
      /\ faults[4].holds = h4 /\ faults[5].holds = h5 /\ faults[6].holds = h6
      /\ faults[1].name = n1 /\ faults[2].name = n2 /\ faults[3].name = n3
      /\ faults[4].name = n4 /\ faults[5].name = n5 /\ faults[6].name = n6
  BY DEF Promise!Fault
<1> HIDE DEF faults
<1>2. found \in SUBSET Nat
  BY <1>1
<1>3. \A f : f \in found <=> f \in 1..6 /\ faults[f].holds
  BY <1>1, Zenon
<1> HIDE DEF found
<1>4. \A m \in found : (\A f \in 1..6 : f < m => f \notin found) => Promise!Min(found) = m
  <2>1. SUFFICES ASSUME NEW m \in found, \A f \in 1..6 : f < m => f \notin found
                 PROVE  Promise!Min(found) = m
    OBVIOUS
  <2>2. \A n \in found : m <= n
    BY <1>2, <1>3, <2>1
  <2> QED
    BY <1>2, <2>2, MinIs
<1>5. 1 \in 1..6 /\ 2 \in 1..6 /\ 3 \in 1..6 /\ 4 \in 1..6 /\ 5 \in 1..6 /\ 6 \in 1..6
  OBVIOUS
<1>6. /\ 1 \in found <=> h1
      /\ 2 \in found <=> h2
      /\ 3 \in found <=> h3
      /\ 4 \in found <=> h4
      /\ 5 \in found <=> h5
      /\ 6 \in found <=> h6
  BY <1>1, <1>3, <1>5, Zenon
<1>7. h1 => 1 \in found /\ Promise!Min(found) = 1
  <2>1. SUFFICES ASSUME h1
                 PROVE  1 \in found /\ Promise!Min(found) = 1
    OBVIOUS
  <2>2. 1 \in found
    BY <1>6, <2>1
  <2> QED
    BY <1>4, <2>2
<1>8. ~h1 /\ h2 => 2 \in found /\ Promise!Min(found) = 2
  <2>1. SUFFICES ASSUME ~h1, h2
                 PROVE  2 \in found /\ Promise!Min(found) = 2
    OBVIOUS
  <2>2. 2 \in found /\ 1 \notin found
    BY <1>6, <2>1
  <2> QED
    BY <1>4, <2>2
<1>9. ~h1 /\ ~h2 /\ h3 => 3 \in found /\ Promise!Min(found) = 3
  <2>1. SUFFICES ASSUME ~h1, ~h2, h3
                 PROVE  3 \in found /\ Promise!Min(found) = 3
    OBVIOUS
  <2>2. 3 \in found /\ 1 \notin found /\ 2 \notin found
    BY <1>6, <2>1
  <2> QED
    BY <1>4, <2>2
<1>10. ~h1 /\ ~h2 /\ ~h3 /\ h4 => 4 \in found /\ Promise!Min(found) = 4
  <2>1. SUFFICES ASSUME ~h1, ~h2, ~h3, h4
                 PROVE  4 \in found /\ Promise!Min(found) = 4
    OBVIOUS
  <2>2. 4 \in found /\ 1 \notin found /\ 2 \notin found /\ 3 \notin found
    BY <1>6, <2>1
  <2> QED
    BY <1>4, <2>2
<1>11. ~h1 /\ ~h2 /\ ~h3 /\ ~h4 /\ h5 => 5 \in found /\ Promise!Min(found) = 5
  <2>1. SUFFICES ASSUME ~h1, ~h2, ~h3, ~h4, h5
                 PROVE  5 \in found /\ Promise!Min(found) = 5
    OBVIOUS
  <2>2. 5 \in found /\ 1 \notin found /\ 2 \notin found /\ 3 \notin found /\ 4 \notin found
    BY <1>6, <2>1
  <2> QED
    BY <1>4, <2>2
<1>12. ~h1 /\ ~h2 /\ ~h3 /\ ~h4 /\ ~h5 /\ h6 => 6 \in found /\ Promise!Min(found) = 6
  <2>1. SUFFICES ASSUME ~h1, ~h2, ~h3, ~h4, ~h5, h6
                 PROVE  6 \in found /\ Promise!Min(found) = 6
    OBVIOUS
  <2>2. 6 \in found /\ 1 \notin found /\ 2 \notin found /\ 3 \notin found /\ 4 \notin found /\ 5 \notin found
    BY <1>6, <2>1
  <2> QED
    BY <1>4, <2>2
<1>13. ~h1 /\ ~h2 /\ ~h3 /\ ~h4 /\ ~h5 /\ ~h6 => found = {}
  <2>1. SUFFICES ASSUME ~h1, ~h2, ~h3, ~h4, ~h5, ~h6, NEW f \in found
                 PROVE  FALSE
    BY <1>2
  <2>2. f \in {1, 2, 3, 4, 5, 6}
    BY <1>2, <1>3, <2>1
  <2> QED
    BY <1>6, <2>1, <2>2
<1>14. /\ h1 => found # {} /\ faults[Promise!Min(found)].name = n1
       /\ ~h1 /\ h2 => found # {} /\ faults[Promise!Min(found)].name = n2
       /\ ~h1 /\ ~h2 /\ h3 => found # {} /\ faults[Promise!Min(found)].name = n3
       /\ ~h1 /\ ~h2 /\ ~h3 /\ h4 => found # {} /\ faults[Promise!Min(found)].name = n4
       /\ ~h1 /\ ~h2 /\ ~h3 /\ ~h4 /\ h5 => found # {} /\ faults[Promise!Min(found)].name = n5
       /\ ~h1 /\ ~h2 /\ ~h3 /\ ~h4 /\ ~h5 /\ h6 => found # {} /\ faults[Promise!Min(found)].name = n6
       /\ ~h1 /\ ~h2 /\ ~h3 /\ ~h4 /\ ~h5 /\ ~h6 => found = {}
  BY <1>1, <1>7, <1>8, <1>9, <1>10, <1>11, <1>12, <1>13
<1> QED
  BY <1>14 DEF faults, found, FirstGiven

(* What can be wrong, in terms of the composer's own checks.               *)
CursorDisagrees == order_by # << >> /\ cursor.keys # << >> /\ Promise!Pushed # cursor.keys
CursorUnset     == cursor.keys # << >> /\ ~cursor.set
WhereMissing    == Promise!HasConditions /\ ~Promise!HasSlot("where")
OrderByMissing  == Promise!Pushed # << >> /\ ~Promise!HasSlot("order_by")

(* The promise counts the base query's placeholders as count_placeholders  *)
(* does.                                                                   *)
LEMMA BaseNumbersAre ==
  ASSUME TypeOK
  PROVE  /\ Promise!BaseNumbers = Numbers(base)
         /\ Promise!References = Placeholders
<1>1. Promise!BaseNumbers = Numbers(base)
  BY DEF Promise!BaseNumbers, Numbers, IsNumber
<1>2. base \in Seq(BaseTokens) /\ \A k \in DOMAIN base : base[k].number \in Nat
  BY BaseType DEF TypeOK
<1>3. Promise!Max(Numbers(base) \cup {0}) = MaxPlaceholderNumber(base)
  BY <1>2, MaxNumbers
<1>4. Promise!Questions(Len(base)) = Cardinality(QuestionsUpTo(base, Len(base)))
  BY SameCardinality DEF Promise!Questions, QuestionsUpTo, IsQuestion
<1> QED
  BY <1>1, <1>3, <1>4 DEF Promise!References, Placeholders, CountPlaceholders

(* The promised verdict, by the first of the composer's checks that fails. *)
LEMMA VerdictIs ==
  ASSUME TypeOK
  PROVE  /\ UnsupportedBase => Promise!Verdict = [outcome |-> "UnsupportedPlaceholder"]
         /\ ~UnsupportedBase /\ Placeholders # Len(arguments)
              => Promise!Verdict = [outcome |-> "BindMismatch"]
         /\ ~UnsupportedBase /\ Placeholders = Len(arguments) =>
              /\ CursorDisagrees => Promise!Verdict = [outcome |-> "CursorMismatch"]
              /\ ~CursorDisagrees /\ CursorUnset => Promise!Verdict = [outcome |-> "Panic"]
              /\ ~CursorDisagrees /\ ~CursorUnset /\ WhereMissing
                   => Promise!Verdict = [outcome |-> "MissingWhereSlot"]
              /\ ~CursorDisagrees /\ ~CursorUnset /\ ~WhereMissing /\ OrderByMissing
                   => Promise!Verdict = [outcome |-> "MissingOrderBySlot"]
              /\ ~CursorDisagrees /\ ~CursorUnset /\ ~WhereMissing /\ ~OrderByMissing
                   => Promise!Verdict = Promise!Statement
<1> DEFINE h1 == ~Numbered /\ Promise!BaseNumbers # {}
           h2 == Promise!References # Len(arguments)
           h3 == order_by # << >> /\ cursor.keys # << >> /\ Promise!Pushed # cursor.keys
           h4 == cursor.keys # << >> /\ ~cursor.set
           h5 == Promise!HasConditions /\ ~Promise!HasSlot("where")
           h6 == Promise!Pushed # << >> /\ ~Promise!HasSlot("order_by")
           faults == << Promise!Fault(h1, "UnsupportedPlaceholder"),
                        Promise!Fault(h2, "BindMismatch"), Promise!Fault(h3, "CursorMismatch"),
                        Promise!Fault(h4, "Panic"), Promise!Fault(h5, "MissingWhereSlot"),
                        Promise!Fault(h6, "MissingOrderBySlot") >>
           found == {f \in DOMAIN faults : faults[f].holds}
           first == faults[Promise!Min(found)].name
<1>1. Promise!Faults = faults
  BY DEF Promise!Faults
<1>2. Promise!Verdict = IF found = {} THEN Promise!Statement ELSE [outcome |-> first]
  BY <1>1 DEF Promise!Verdict, Promise!Found
<1>3. /\ h1 <=> UnsupportedBase
      /\ h2 <=> Placeholders # Len(arguments)
      /\ h3 <=> CursorDisagrees
      /\ h4 <=> CursorUnset
      /\ h5 <=> WhereMissing
      /\ h6 <=> OrderByMissing
  BY BaseNumbersAre DEF UnsupportedBase, CursorDisagrees, CursorUnset, WhereMissing, OrderByMissing
<1>4. /\ h1 \in BOOLEAN /\ h2 \in BOOLEAN /\ h3 \in BOOLEAN /\ h5 \in BOOLEAN /\ h6 \in BOOLEAN
      /\ h4 \in BOOLEAN
  OBVIOUS
<1> HIDE DEF h1, h2, h3, h4, h5, h6
<1>5. /\ h1 => found # {} /\ first = "UnsupportedPlaceholder"
      /\ ~h1 /\ h2 => found # {} /\ first = "BindMismatch"
      /\ ~h1 /\ ~h2 /\ h3 => found # {} /\ first = "CursorMismatch"
      /\ ~h1 /\ ~h2 /\ ~h3 /\ h4 => found # {} /\ first = "Panic"
      /\ ~h1 /\ ~h2 /\ ~h3 /\ ~h4 /\ h5 => found # {} /\ first = "MissingWhereSlot"
      /\ ~h1 /\ ~h2 /\ ~h3 /\ ~h4 /\ ~h5 /\ h6 => found # {} /\ first = "MissingOrderBySlot"
      /\ ~h1 /\ ~h2 /\ ~h3 /\ ~h4 /\ ~h5 /\ ~h6 => found = {}
  <2>1. FirstGiven(h1, h2, h3, h4, h5, h6, "UnsupportedPlaceholder", "BindMismatch",
                   "CursorMismatch", "Panic", "MissingWhereSlot", "MissingOrderBySlot")
    BY <1>4, FirstFault
  <2> QED
    BY <2>1, Zenon DEF FirstGiven
<1> HIDE DEF faults, found, first
<1> QED
  BY <1>2, <1>3, <1>5

(* compose_order_by's check is the promised one, and holds behind it.      *)
LEMMA OrderingCompared ==
  ASSUME TypeOK, OrderingKept
  PROVE  /\ pc = "order" /\ i > Len(order_by) => (CursorDisagrees <=> OrderingDisagrees)
         /\ pc = "where" \/ Splicing => ~CursorDisagrees
<1>1. Promise!Pushed = FlattenSeq(order_by)
  BY SameFlat DEF Promise!Pushed
<1>2. ASSUME pc = "order", i > Len(order_by)
      PROVE  CursorDisagrees <=> OrderingDisagrees
  <2>1. order_by \in Seq(Lists(Keys)) /\ Len(order_by) \in Nat /\ i \in Nat \ {0}
    BY OrderingsType DEF TypeOK
  <2>2. i <= Len(order_by) + 1 /\ ordering = FlattenSeq(Leading(order_by, i - 1))
    BY <1>2 DEF OrderingKept
  <2>3. i - 1 = Len(order_by)
    BY <1>2, <2>1, <2>2
  <2>4. ordering = FlattenSeq(order_by)
    BY <2>1, <2>2, <2>3, FlatEnds
  <2> QED
    BY <1>1, <2>4 DEF CursorDisagrees, OrderingDisagrees
<1>3. ASSUME pc = "where" \/ Splicing
      PROVE  ~CursorDisagrees
  BY <1>3 DEF OrderingKept, OrderingDisagrees, CursorDisagrees, Promise!Ordering
<1> QED
  BY <1>2, <1>3

(* The checks for missing slots are the promised ones, and those before    *)
(* them have passed.                                                       *)
LEMMA SlotsCompared ==
  ASSUME TypeOK, Placed, OrderingKept, StatementKept, BaseScanned \/ Rendering
  PROVE  /\ ~CursorDisagrees /\ ~CursorUnset
         /\ WhereMissing <=> WhereHasNoSlot
         /\ OrderByMissing <=> OrderByHasNoSlot
<1>1. Splicing /\ Scanned
  BY DEF BaseScanned, Rendering, Splicing, Scanned, TypeOK
<1>2. \A name : Promise!HasSlot(name) <=> Slots(name) # {}
  BY DEF Promise!HasSlot, Slots, IsSlot
<1>3. \A name : Met(name) = Slots(name)
  BY <1>1, MetAll
<1>4. spliced = {name \in {"where", "order_by"} : Met(name) # {}}
  BY <1>1 DEF Placed
<1>5. ("where" \in spliced <=> Promise!HasSlot("where"))
      /\ ("order_by" \in spliced <=> Promise!HasSlot("order_by"))
  BY <1>2, <1>3, <1>4
<1>6. ~CursorDisagrees /\ ~CursorUnset
  BY <1>1, OrderingCompared DEF StatementKept, CursorUnset
<1>7. WhereMissing <=> WhereHasNoSlot
  BY <1>1, <1>5 DEF StatementKept, WhereMissing, WhereHasNoSlot, IsEmpty
<1>8. OrderByMissing <=> OrderByHasNoSlot
  <2>1. Promise!Pushed = FlattenSeq(order_by) /\ FlattenSeq(<< >>) = << >>
    BY SameFlat, FlatEmpty DEF Promise!Pushed
  <2>2. ordering = IF order_by = << >> THEN cursor.keys ELSE Promise!Pushed
    BY <1>1 DEF OrderingKept, Promise!Ordering
  <2>3. CASE order_by = << >>
    BY <2>1, <2>3 DEF OrderByMissing, OrderByHasNoSlot
  <2>4. CASE order_by # << >>
    BY <1>5, <2>2, <2>4 DEF OrderByMissing, OrderByHasNoSlot
  <2> QED
    BY <2>3, <2>4
<1> QED
  BY <1>6, <1>7, <1>8

(* Every error the composer returns is the promised one.                   *)
Verdicts(e) == outcome' = e /\ Promise!Verdict = [outcome |-> e]

(* If the numbering is right, compose() returns only promised errors, each *)
(* only when no earlier one applies; the two checks that are not promised, *)
(* over the whole statement and for a reference without an argument, never *)
(* fail.                                                                   *)
LEMMA ErrorPromised ==
  ASSUME Known, PromiseKept, WellFormed,
         \/ RejectUnsupported \/ RejectBase \/ RejectCursor \/ PanicOnUnsetCursor
         \/ RejectMissingWhere \/ RejectMissingOrderBy \/ RejectStatement \/ RejectReference
  PROVE  \E e \in Errors : Verdicts(e)
<1>1. /\ TypeOK /\ BaseOk /\ Placed
      /\ OrderingKept /\ StatementKept
  BY DEF Known, IInv, PromiseKept
<1>2. CASE RejectUnsupported
  BY <1>1, <1>2, VerdictIs DEF RejectUnsupported, Fail, Return, Verdicts, Errors
<1>3. CASE RejectBase
  BY <1>1, <1>3, VerdictIs DEF RejectBase, Fail, Return, Verdicts, Errors
<1>4. CASE RejectCursor
  <2>1. pc = "order" /\ i > Len(order_by) /\ OrderingDisagrees /\ outcome' = "CursorMismatch"
    BY <1>4 DEF RejectCursor, Fail, Return
  <2>2. ~UnsupportedBase /\ Placeholders = Len(arguments)
    BY <1>1, <2>1 DEF BaseOk
  <2>3. CursorDisagrees
    BY <1>1, <2>1, OrderingCompared
  <2> QED
    BY <1>1, <2>1, <2>2, <2>3, VerdictIs DEF Verdicts, Errors
<1>5. CASE PanicOnUnsetCursor
  <2>1. pc = "where" /\ CursorUnset /\ outcome' = "Panic"
    BY <1>5 DEF PanicOnUnsetCursor, WheresRead, Fail, Return, CursorUnset
  <2>2. ~UnsupportedBase /\ Placeholders = Len(arguments)
    BY <1>1, <2>1 DEF BaseOk
  <2>3. ~CursorDisagrees
    BY <1>1, <2>1, OrderingCompared
  <2> QED
    BY <1>1, <2>1, <2>2, <2>3, VerdictIs DEF Verdicts, Errors
<1>6. CASE RejectMissingWhere
  <2>1. BaseScanned /\ WhereHasNoSlot /\ outcome' = "MissingWhereSlot"
    BY <1>6 DEF RejectMissingWhere, Fail, Return
  <2>2. ~UnsupportedBase /\ Placeholders = Len(arguments)
    BY <1>1, <2>1 DEF BaseOk, BaseScanned
  <2> QED
    BY <1>1, <2>1, <2>2, SlotsCompared, VerdictIs DEF Verdicts, Errors
<1>7. CASE RejectMissingOrderBy
  <2>1. BaseScanned /\ ~WhereHasNoSlot /\ OrderByHasNoSlot /\ outcome' = "MissingOrderBySlot"
    BY <1>7 DEF RejectMissingOrderBy, Fail, Return
  <2>2. ~UnsupportedBase /\ Placeholders = Len(arguments)
    BY <1>1, <2>1 DEF BaseOk, BaseScanned
  <2> QED
    BY <1>1, <2>1, <2>2, SlotsCompared, VerdictIs DEF Verdicts, Errors
<1>8. ~RejectStatement
  BY StatementFits DEF RejectStatement
<1>9. ~RejectReference
  BY ReferenceFits DEF RejectReference
<1> QED
  BY <1>2, <1>3, <1>4, <1>5, <1>6, <1>7, <1>8, <1>9

(* What the driver binds is what the statement's numbers were written for. *)
LEMMA BoundByNumber ==
  ASSUME NEW text, NEW pool,
         \A k \in DOMAIN text : IsNumber(text[k]) => pool[text[k].number].means = text[k].means
  PROVE  FlattenSeq([k \in DOMAIN text |->
           IF IsNumber(text[k]) THEN <<pool[text[k].number].means>> ELSE << >>])
           = Meanings(text, "number")
<1>1. [k \in DOMAIN text |->
         IF IsNumber(text[k]) THEN <<pool[text[k].number].means>> ELSE << >>]
      = [k \in DOMAIN text |-> IF text[k].kind = "number" THEN <<text[k].means>> ELSE << >>]
  BY DEF IsNumber
<1> QED
  BY <1>1 DEF Meanings

(* The same where the driver binds by position.                            *)
LEMMA BoundByPosition ==
  ASSUME NEW m \in Seq(Values), NEW r \in Arguments, Len(m) = Len(r),
         \A k \in DOMAIN m : r[k].means = m[k]
  PROVE  [k \in DOMAIN r |-> r[k].means] = m
<1>1. DOMAIN r = 1..Len(r) /\ DOMAIN m = 1..Len(m)
  BY DEF Arguments
<1>2. m = [k \in 1..Len(m) |-> m[k]]
  OBVIOUS
<1> QED
  BY <1>1, <1>2

(* A statement that is read to its end is the promised one.                *)
LEMMA StatementPromised ==
  ASSUME TypeOK, StatementKept, Splicing, Read = Len(base)
  PROVE  Promise!Statement =
           [outcome |-> "ok", values |-> Meanings(out, "number"), keys |-> Meanings(out, "key")]
<1>1. Reads(out, Len(base))
  BY StatementIs
<1>2. /\ Promise!AllStand \in Seq(Lists(Meant)) /\ Len(Promise!AllStand) = Len(base)
      /\ Promise!AllSort \in Seq(Lists(Meant)) /\ Len(Promise!AllSort) = Len(base)
  BY StandsType
<1>3. /\ FlattenSeq(Leading(Promise!AllStand, Len(base))) = FlattenSeq(Promise!AllStand)
      /\ FlattenSeq(Leading(Promise!AllSort, Len(base))) = FlattenSeq(Promise!AllSort)
  BY <1>2, FlatEnds
<1> QED
  BY <1>1, <1>3, SameFlat DEF Reads, Promise!Statement

(* A numbered statement binds and sorts as promised.                       *)
LEMMA NumberedPromised ==
  ASSUME Known, PromiseKept, WellFormed, FinishNumbered
  PROVE  Observed' = Promise!Verdict
<1>1. /\ TypeOK /\ BaseOk /\ Placed /\ SplicingOk
      /\ OrderingKept /\ StatementKept
  BY DEF Known, IInv, PromiseKept
<1>2. /\ BaseScanned /\ ~WhereHasNoSlot /\ ~OrderByHasNoSlot /\ Numbered
      /\ pc = "splice" /\ i > Len(base) /\ Splicing
      /\ rendered' = Pool /\ out' = out /\ outcome' = "ok"
  BY DEF FinishNumbered, SlotsFound, BaseScanned, Splicing, Return
<1>3. Read = Len(base)
  <2>1. Read <= Len(base) /\ Read = i - 1 /\ i \in Nat \ {0} /\ Len(base) \in Nat
    BY <1>1, <1>2, BaseType DEF StatementKept, Read, TypeOK
  <2> QED
    BY <1>2, <2>1
<1>4. Promise!Verdict = Promise!Statement
  <2>1. ~UnsupportedBase /\ Placeholders = Len(arguments)
    BY <1>1, <1>2 DEF BaseOk
  <2>2. ~CursorDisagrees /\ ~CursorUnset /\ ~WhereMissing /\ ~OrderByMissing
    BY <1>1, <1>2, SlotsCompared
  <2> QED
    BY <1>1, <2>1, <2>2, VerdictIs
<1>5. BoundValues' = Meanings(out, "number")
  <2>1. \A k \in DOMAIN out : IsNumber(out[k]) => Pool[out[k].number].means = out[k].means
    BY <1>1, <1>2 DEF SplicingOk, Resolves
  <2>2. BoundValues' = FlattenSeq([k \in DOMAIN out |->
           IF IsNumber(out[k]) THEN <<Pool[out[k].number].means>> ELSE << >>])
    BY <1>2 DEF BoundValues
  <2> QED
    BY <2>1, <2>2, BoundByNumber
<1>6. SortedBy' = Meanings(out, "key")
  BY <1>2 DEF SortedBy
<1>7. Observed' = [outcome |-> "ok", values |-> Meanings(out, "number"), keys |-> Meanings(out, "key")]
  BY <1>2, <1>5, <1>6 DEF Observed
<1> QED
  BY <1>1, <1>2, <1>3, <1>4, <1>7, StatementPromised

(* So does one rendered back to question marks.                            *)
LEMMA RenderedPromised ==
  ASSUME Known, PromiseKept, WellFormed, FinishRender
  PROVE  Observed' = Promise!Verdict
<1>1. /\ TypeOK /\ BaseOk /\ Placed /\ SplicingOk
      /\ OrderingKept /\ StatementKept
  BY DEF Known, IInv, PromiseKept
<1>2. /\ pc = "render" /\ i > Len(out) /\ Splicing /\ ~Numbered /\ Rendering
      /\ rendered' = rendered /\ out' = out /\ outcome' = "ok" /\ Read = Len(base)
  BY <1>1 DEF FinishRender, Splicing, Rendering, Return, SplicingOk, pipeline, Read
<1>3. Promise!Verdict = Promise!Statement
  <2>1. ~UnsupportedBase /\ Placeholders = Len(arguments)
    BY <1>1, <1>2 DEF BaseOk
  <2>2. ~WhereHasNoSlot /\ ~OrderByHasNoSlot
    BY <1>1, <1>2 DEF StatementKept
  <2>3. ~CursorDisagrees /\ ~CursorUnset /\ ~WhereMissing /\ ~OrderByMissing
    BY <1>1, <1>2, <2>2, SlotsCompared
  <2> QED
    BY <1>1, <2>1, <2>3, VerdictIs
<1>4. BoundValues' = Meanings(out, "number")
  <2>1. /\ marks \in Seq(Values) /\ rendered \in Arguments /\ Len(marks) = Len(rendered)
        /\ \A k \in DOMAIN marks : rendered[k].means = marks[k]
    BY <1>1, <1>2 DEF SplicingOk, TypeOK
  <2>2. BoundValues' = [k \in DOMAIN rendered |-> rendered[k].means]
    BY <1>2 DEF BoundValues
  <2>3. BoundValues' = marks
    BY <2>1, <2>2, BoundByPosition
  <2>4. Marked(marks, Passed) /\ Passed = i - 1
    BY <1>2, MarksAre DEF PromiseKept, Passed
  <2>5. out \in Seq(Words) /\ Len(out) \in Nat /\ i \in Nat \ {0}
    BY <1>1, TextWords DEF TypeOK
  <2>6. Passed = Len(out)
    BY <1>2, <2>4, <2>5 DEF Marked
  <2>7. Leading(out, Len(out)) = out
    BY <2>5, LeadingType
  <2> QED
    BY <2>3, <2>4, <2>6, <2>7 DEF Marked
<1>5. SortedBy' = Meanings(out, "key")
  BY <1>2 DEF SortedBy
<1>6. Observed' = [outcome |-> "ok", values |-> Meanings(out, "number"), keys |-> Meanings(out, "key")]
  BY <1>2, <1>4, <1>5 DEF Observed
<1> QED
  BY <1>1, <1>2, <1>3, <1>6, StatementPromised
-----------------------------------------------------------------------------
(* The steps of the refinement.                                            *)

(* A call of the builder is one of the promise's, or invisible.            *)
LEMMA BuilderRefines ==
  ASSUME TypeOK, Build
  PROVE  [Promise!Next]_(Promise!vars)
<1>1. pc = "build" /\ outcome = "pending" /\ outcome' = outcome
  BY DEF TypeOK, Build, Bind, BindValue, PushArgument, WithCursor, PushWhere, PushEither,
         PushOrderBy, Compose
<1>2. Promise!Pending /\ Observed' = Observed
  BY <1>1 DEF Promise!Pending, Observed
<1>3. CASE \E opaque : PushArgument(opaque)
  <2>1. PICK opaque : PushArgument(opaque)
    BY <1>3
  <2>2. Len(arguments') = Len(arguments) + 1
    <3>1. arguments' = Append(arguments, [opaque |-> opaque, means |-> <<Author0, Len(arguments) + 1>>])
      BY <2>1 DEF PushArgument
    <3> QED
      BY <3>1 DEF TypeOK, Arguments
  <2> QED
    BY <1>2, <2>1, <2>2 DEF PushArgument, Promise!Next, Promise!Bind
<1>4. CASE \E c \in Cursors : WithCursor(c)
  BY <1>2, <1>4 DEF WithCursor, NoCursor, Promise!Next, Promise!WithCursor
<1>5. CASE \E c \in Clauses : PushWhere(c)
  <2>1. PICK c \in Clauses : PushWhere(c)
    BY <1>5
  <2>2. authored' = Append(authored, c) /\ Len(authored) < MaxWheres /\ authored \in Seq(Clauses)
    BY <2>1 DEF PushWhere, TypeOK
  <2>3. Len(authored') <= MaxWheres
    BY <2>2, InputsAssumption
  <2> QED
    BY <1>2, <2>1, <2>2, <2>3 DEF PushWhere, Promise!Next, Promise!PushWhere
<1>6. CASE \E c, d \in Clauses : PushEither(c, d)
  <2>1. PICK c \in Clauses, d \in Clauses : PushEither(c, d)
    BY <1>6
  <2>2. /\ authored' = authored \o <<c, d>> /\ Len(authored) + 1 < MaxWheres
        /\ authored \in Seq(Clauses)
    BY <2>1 DEF PushEither, TypeOK
  <2>3. Len(authored') <= MaxWheres
    BY <2>2, InputsAssumption
  <2> QED
    BY <1>2, <2>1, <2>2, <2>3 DEF PushEither, Promise!Next, Promise!PushWhere
<1>7. CASE \E o \in Orders : PushOrderBy(o)
  BY <1>2, <1>7 DEF PushOrderBy, Promise!Next, Promise!PushOrderBy
<1>8. CASE Compose
  BY <1>2, <1>8 DEF Compose, builder, Promise!vars
<1> QED
  BY <1>3, <1>4, <1>5, <1>6, <1>7, <1>8 DEF Build, Bind, BindValue

(* A return is the abstract step, with the promised verdict if the         *)
(* numbering is right; every other step of compose() is invisible.         *)
LEMMA ReturnRefines ==
  ASSUME TypeOK, UNCHANGED builder, outcome = "pending", outcome' # "pending",
         WellFormed \/ UnsupportedBase => Observed' = Promise!Verdict
  PROVE  Promise!Next
<1>1. Promise!Pending /\ Observed'.outcome # "pending"
  BY DEF Promise!Pending, Observed
<1>2. (Numbered => 0 \notin Promise!BaseNumbers)
        /\ (\A a \in DOMAIN authored : Promise!WellNumbered(authored[a]))
        => WellFormed \/ UnsupportedBase
  <2>1. Promise!BaseNumbers = {} \/ Numbered \/ UnsupportedBase
    BY BaseNumbersAre DEF UnsupportedBase
  <2>2. 0 \notin Promise!BaseNumbers /\ (\A a \in DOMAIN authored : Promise!WellNumbered(authored[a]))
          => WellFormed
    BY RightlyNumbered
  <2> QED
    BY <2>1, <2>2
<1> QED
  BY <1>1, <1>2 DEF builder, Promise!Next, Promise!Compose

(* What neither returns nor changes the builder is invisible.              *)
LEMMA QuietRefines ==
  ASSUME UNCHANGED builder, outcome = "pending", outcome' = outcome
  PROVE  UNCHANGED Promise!vars
<1>1. Observed' = Observed
  BY DEF Observed
<1> QED
  BY <1>1 DEF builder, Promise!vars

(* Every step of compose() is the promised one, or invisible.              *)
LEMMA ComposingRefines ==
  ASSUME Known, PromiseKept, Composing
  PROVE  [Promise!Next]_(Promise!vars)
<1>1. TypeOK /\ BaseOk
  BY DEF Known, IInv
<1>2. UNCHANGED builder /\ outcome = "pending"
  BY <1>1 DEF Composing, TypeOK, RejectUnsupported, RejectBase, AcceptBase, ThenOrderBy,
     RejectCursor, AcceptOrdering, AndClause, BoundaryBranch, PanicOnUnsetCursor, FinishWhere,
     SpliceSlot, NumberQuestion, CopyToken, RejectMissingWhere, RejectMissingOrderBy,
     RejectStatement, FinishNumbered, StartRender, RenderReference, RejectReference,
     CopyRendered, FinishRender, Fail, Return, WheresRead, BaseScanned, SlotsFound
<1>3. CASE \/ RejectUnsupported \/ RejectBase \/ RejectCursor \/ PanicOnUnsetCursor
           \/ RejectMissingWhere \/ RejectMissingOrderBy \/ RejectStatement \/ RejectReference
  <2>1. outcome' \in Errors
    BY <1>3 DEF RejectUnsupported, RejectBase, RejectCursor, PanicOnUnsetCursor,
       RejectMissingWhere, RejectMissingOrderBy, RejectStatement, RejectReference,
       Fail, Return, Errors
  <2>2. ASSUME WellFormed PROVE Observed' = Promise!Verdict
    <3>1. PICK e \in Errors : Verdicts(e)
      BY <1>3, <2>2, ErrorPromised
    <3>2. e # "ok"
      BY <3>1 DEF Errors
    <3> QED
      BY <3>1, <3>2 DEF Verdicts, Observed
  <2>3. ASSUME UnsupportedBase PROVE Observed' = Promise!Verdict
    <3>1. RejectUnsupported
      BY <1>1, <1>3, <2>3 DEF BaseOk, RejectUnsupported, RejectBase, RejectCursor, PanicOnUnsetCursor,
         RejectMissingWhere, RejectMissingOrderBy, RejectStatement, RejectReference,
         WheresRead, BaseScanned, SlotsFound
    <3>2. outcome' = "UnsupportedPlaceholder"
      BY <3>1 DEF RejectUnsupported, Fail, Return
    <3>3. Promise!Verdict = [outcome |-> "UnsupportedPlaceholder"]
      BY <1>1, <2>3, VerdictIs
    <3> QED
      BY <3>2, <3>3 DEF Observed
  <2> QED
    BY <1>1, <1>2, <2>1, <2>2, <2>3, ReturnRefines DEF Errors
<1>4. CASE FinishNumbered \/ FinishRender
  <2>1. outcome' = "ok"
    BY <1>4 DEF FinishNumbered, FinishRender, Return
  <2>2. WellFormed => Observed' = Promise!Verdict
    BY <1>4, NumberedPromised, RenderedPromised
  <2>3. ~UnsupportedBase
    BY <1>1, <1>4 DEF BaseOk, FinishNumbered, FinishRender, SlotsFound, BaseScanned
  <2> QED
    BY <1>1, <1>2, <2>1, <2>2, <2>3, ReturnRefines
<1>5. CASE \/ AcceptBase \/ ThenOrderBy \/ AcceptOrdering \/ AndClause \/ BoundaryBranch
           \/ FinishWhere \/ SpliceSlot \/ NumberQuestion \/ CopyToken \/ StartRender
           \/ RenderReference \/ CopyRendered
  <2>1. outcome' = outcome
    BY <1>5 DEF AcceptBase, ThenOrderBy, AcceptOrdering, AndClause, BoundaryBranch,
       FinishWhere, SpliceSlot, NumberQuestion, CopyToken, StartRender, RenderReference, CopyRendered
  <2> QED
    BY <1>2, <2>1, QuietRefines
<1> QED
  BY <1>3, <1>4, <1>5 DEF Composing

(* The initial states are the promise's.                                   *)
LEMMA InitRefines == Init => Promise!Init
BY DEF Init, Promise!Init, NoCursor, Observed

(* Every step is a step of the promise, or invisible.                      *)
LEMMA NextRefines ==
  ASSUME Known, PromiseKept, [Next]_vars
  PROVE  [Promise!Next]_(Promise!vars)
<1>1. TypeOK
  BY DEF Known, IInv
<1>2. CASE Build
  BY <1>1, <1>2, BuilderRefines
<1>3. CASE Composing
  BY <1>3, ComposingRefines
<1>4. CASE UNCHANGED vars
  <2>1. Observed' = Observed
    BY <1>4 DEF vars, Observed, BoundValues, SortedBy
  <2> QED
    BY <1>4, <2>1 DEF vars, Promise!vars
<1> QED
  BY <1>2, <1>3, <1>4 DEF Next

(* QueryComposer implements Composition, for every set of base queries,    *)
(* clauses, orderings and cursors: the caller sees one step from a         *)
(* finished builder to the first error that applies, or to a statement     *)
(* that binds and sorts as its parts said, if their authors have numbered  *)
(* them right.                                                             *)
THEOREM ImplementsCompositionHolds == Spec => ImplementsComposition
<1>1. Init => Promise!Init
  BY InitRefines
<1>2. Known /\ PromiseKept /\ [Next]_vars => [Promise!Next]_(Promise!vars)
  BY NextRefines
<1>3. IInv /\ Signed /\ Placed /\ TakenOnce /\ BaseReferenced /\ LastReferenced => Known
  BY DEF Known
<1> QED
  BY <1>1, <1>2, <1>3, IInvHolds, SignedHolds, PlacedHolds, TakenOnceHolds, BaseReferencedHolds,
     LastReferencedHolds, PromiseKeptHolds, PTL DEF Spec, ImplementsComposition, Promise!Spec
=============================================================================
