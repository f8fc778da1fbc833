----------------------------- MODULE SqlCondition -----------------------------
(***************************************************************************)
(* How a database reads a condition: by its operators' precedence, in the  *)
(* order PostgreSQL, MySQL and SQLite share.  (They part on a comparison   *)
(* before IN, LIKE or another comparison without parentheses between.)     *)
(*                                                                         *)
(* A condition is a sequence of WhereClause's tokens: the kind of one is   *)
(* its operator, in CEL's spelling ("&&" for AND), or a parenthesis, a     *)
(* comma, a "column", a $N or a ?, which is bound by its position.         *)
(* `means` is a column's name.  What follows a condition ends it.          *)
(***************************************************************************)
EXTENDS WhereClause, Integers

Tree(op, of)  == [op |-> op, of |-> of, leaf |-> << >>]
Column(name)  == [op |-> "column", of |-> << >>, leaf |-> name]
Bound(value)  == [op |-> "bound", of |-> << >>, leaf |-> value]

Comparisons == {"==", "!=", "<", ">"}
Arithmetic  == {"+", "*"}
NullTests   == {"is null", "is not null"}
Infix       == {"&&", "||", "like", "in"} \cup Comparisons \cup Arithmetic \cup NullTests

(* The tighter an operator binds, the higher.                              *)
Tightness(op) ==
  CASE op = "||" -> 1 [] op = "&&" -> 2 [] op = "!" -> 3
    [] op \in Comparisons \cup NullTests \cup {"like", "in"} -> 4
    [] op = "+" -> 5 [] op = "*" -> 6 [] op = "neg" -> 7

(* The expression at token k, of operators at least as tight as `least`;   *)
(* `next` is the token behind it.                                          *)
RECURSIVE Read(_, _, _), ReadOn(_, _, _, _), ReadItems(_, _, _)

Read(w, k, least) ==
  LET token == w.sql[k] IN
  CASE token.kind = "("            -> LET inner == Read(w, k + 1, 1)
                                      IN ReadOn(w, inner.tree, inner.next + 1, least)
    [] token.kind \in {"!", "neg"} -> LET operand == Read(w, k + 1, Tightness(token.kind))
                                      IN ReadOn(w, Tree(token.kind, <<operand.tree>>),
                                                operand.next, least)
    [] token.kind = "column"       -> ReadOn(w, Column(token.means), k + 1, least)
    [] token.kind = "number"       -> ReadOn(w, Bound(w.values[token.number]), k + 1, least)
    [] token.kind = "question"     -> ReadOn(w, Bound(w.values[Cardinality(QuestionsUpTo(w.sql, k))]),
                                             k + 1, least)

ReadOn(w, left, k, least) ==
  LET op == w.sql[k].kind IN
  IF k > Len(w.sql) \/ op \notin Infix \/ Tightness(op) < least
  THEN [tree |-> left, next |-> k]
  ELSE CASE op \in NullTests -> ReadOn(w, Tree(op, <<left>>), k + 1, least)
         [] op = "in"        -> LET items == ReadItems(w, <<left>>, k + 2)
                                IN ReadOn(w, Tree(op, items.trees), items.next, least)
         [] OTHER            -> LET right == Read(w, k + 1, Tightness(op) + 1)
                                IN ReadOn(w, Tree(op, <<left, right.tree>>), right.next, least)

ReadItems(w, before, k) ==
  IF w.sql[k].kind = ")" THEN [trees |-> before, next |-> k + 1]
  ELSE LET item == Read(w, k, 1)
           trees == Append(before, item.tree)
       IN IF w.sql[item.next].kind = "," THEN ReadItems(w, trees, item.next + 1)
          ELSE [trees |-> trees, next |-> item.next + 1]

(* The condition the whole clause reads as.                                *)
Reading(w) == Read(w, 1, 1).tree

-----------------------------------------------------------------------------
(* A row's verdict on a condition of comparisons, AND and OR: what is      *)
(* compared with NULL is neither true nor false.                           *)
Junction(absorbing, left, right, null) ==
  IF left = absorbing \/ right = absorbing THEN absorbing
  ELSE IF left = null \/ right = null THEN null ELSE ~absorbing
Comparing(op, left, right, null) ==
  IF left = null \/ right = null THEN null
  ELSE CASE op = "==" -> left = right [] op = ">" -> left > right [] op = "<" -> left < right
Operation(op, left, right, null) ==
  CASE op = "&&" -> Junction(FALSE, left, right, null)
    [] op = "||" -> Junction(TRUE, left, right, null)
    [] OTHER     -> Comparing(op, left, right, null)

RECURSIVE Evaluate(_, _, _)
Evaluate(tree, row, null) ==
  CASE tree.op = "column" -> row[tree.leaf]
    [] tree.op = "bound"  -> tree.leaf.of
    [] OTHER -> Operation(tree.op, Evaluate(tree.of[1], row, null),
                          Evaluate(tree.of[2], row, null), null)
=============================================================================
