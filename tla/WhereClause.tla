----------------------------- MODULE WhereClause -----------------------------
(***************************************************************************)
(* SQL text as QueryLexer::scan sees it, and the WHERE fragments built     *)
(* from it (lexer.rs, clauses/where.rs).                                   *)
(*                                                                         *)
(* Text is a sequence of tokens.  A placeholder carries, next to its       *)
(* number, the identity `means` of the value its author wrote it for: a    *)
(* pair <<author, position among the author's values>>.  `means` is a      *)
(* history: no operator of the code reads it, and the properties compare   *)
(* it with the value a placeholder ends up bound to.                       *)
(***************************************************************************)
EXTENDS Naturals, Sequences, FiniteSets

(* What a scan tells apart: $N, ?, slots; "text" is SQL between them, and  *)
(* "key" one column and direction of an ORDER BY.                          *)
Kinds == {"number", "question", "text", "key"}
Token(kind, number, means) == [kind |-> kind, number |-> number, means |-> means]
IsNumber(t)   == t.kind = "number"
IsQuestion(t) == t.kind = "question"

(* Token::placeholder_number over a scan: every N of a $N in the text.     *)
Numbers(sql) == {sql[k].number : k \in {j \in DOMAIN sql : IsNumber(sql[j])}}

(* QueryLexer::max_placeholder_number: the highest $N, or 0 without one.   *)
MaxPlaceholderNumber(sql) ==
  IF Numbers(sql) = {} THEN 0
  ELSE CHOOSE m \in Numbers(sql) : \A n \in Numbers(sql) : n <= m

(* The ?s among the first k tokens of the text.                            *)
QuestionsUpTo(sql, k) == {j \in 1..k : IsQuestion(sql[j])}

(* QueryLexer::count_placeholders: the highest $N where placeholders are   *)
(* numbered, the number of ?s where they are not.                          *)
CountPlaceholders(sql, numbered) ==
  IF numbered THEN MaxPlaceholderNumber(sql)
  ELSE Cardinality(QuestionsUpTo(sql, Len(sql)))

(* QueryLexer::shift_placeholder_numbers: $N becomes $(N + offset).        *)
ShiftPlaceholderNumbers(sql, offset) ==
  [k \in DOMAIN sql |->
     IF IsNumber(sql[k]) THEN Token("number", sql[k].number + offset, sql[k].means)
     ELSE sql[k]]

(* WhereClause { sql, values }.  Whitespace-only text is the empty text.   *)
Fragment(sql, values) == [sql |-> sql, values |-> values]
EmptyClause == Fragment(<< >>, << >>)
IsEmpty(w)  == w.sql = << >>

(* WhereClause::combine, which `and` and `or` share: an empty side yields  *)
(* the other; otherwise the right side is shifted past the highest number  *)
(* of the left, and its values are appended.                               *)
CombineAbsorbing(w, other) ==                          \* mutant: one empty side empties both
  IF IsEmpty(w) \/ IsEmpty(other) THEN EmptyClause
  ELSE Fragment(w.sql \o ShiftPlaceholderNumbers(other.sql, MaxPlaceholderNumber(w.sql)),
                w.values \o other.values)
Combine(w, other) ==
  IF IsEmpty(other) THEN w
  ELSE IF IsEmpty(w) THEN other
  ELSE Fragment(w.sql \o ShiftPlaceholderNumbers(other.sql, MaxPlaceholderNumber(w.sql)),
                w.values \o other.values)

(* WhereClause::shift: past the base query's own placeholders.             *)
ShiftOneMore(w, offset) ==                             \* mutant: off by one
  Fragment(ShiftPlaceholderNumbers(w.sql, offset + 1), w.values)
Shift(w, offset) == Fragment(ShiftPlaceholderNumbers(w.sql, offset), w.values)

(* WhereClause::new(text) and `bound` calls of bind_value, by `author`: a  *)
(* $N of the text is written for the author's N-th value.                  *)
Author(clause, author) ==
  Fragment([k \in DOMAIN clause.text |->
              Token(clause.text[k].kind, clause.text[k].number,
                    <<author, clause.text[k].number>>)],
           [j \in 1..clause.bound |-> <<author, j>>])

(* A clause whose numbering matches the values it carries: every $N has a  *)
(* value and the last value a $N, with no raw ? where that is executed as  *)
(* a placeholder.                                                          *)
WellFormedClause(clause, numbered) ==
  /\ \A k \in DOMAIN clause.text :
       /\ IsQuestion(clause.text[k]) => numbered
       /\ IsNumber(clause.text[k]) => clause.text[k].number \in 1..clause.bound
  /\ clause.bound > 0 =>
       \E k \in DOMAIN clause.text :
          IsNumber(clause.text[k]) /\ clause.text[k].number = clause.bound
-----------------------------------------------------------------------------
(* The types of texts and fragments, and what `combine` maintains.         *)
Values       == Nat \X Nat
Tokens(what) == [kind : Kinds, number : Nat, means : what]
Fragments    == [sql : Seq(Tokens(Values)), values : Seq(Values)]
ClauseTokens == [kind : {"number", "question", "text"}, number : Nat]
ClauseTexts  == Seq(ClauseTokens)

(* A fragment whose numbers index its own values, each meant for the value *)
(* at its index, and whose highest number is the number of its values: the *)
(* next fragment can then be shifted past the number or the count alike.   *)
FragmentOk(f) ==
  /\ \A k \in DOMAIN f.sql :
       IsNumber(f.sql[k]) =>
         /\ f.sql[k].number \in DOMAIN f.values
         /\ f.values[f.sql[k].number] = f.sql[k].means
  /\ f.values # << >> =>
       \E k \in DOMAIN f.sql : IsNumber(f.sql[k]) /\ f.sql[k].number = Len(f.values)
QuestionFree(sql) == \A k \in DOMAIN sql : ~IsQuestion(sql[k])
=============================================================================
