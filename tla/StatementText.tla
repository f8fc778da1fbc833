----------------------------- MODULE StatementText ----------------------------
(***************************************************************************)
(* The finished statement, as text: how WHERE clauses are joined, what a   *)
(* cursor renders to, and how both are spliced into a base query           *)
(* (clauses/where.rs, clauses/pager.rs, composer.rs), with the parentheses *)
(* and connectives QueryComposer's texts leave out.                        *)
(*                                                                         *)
(* A base query is its condition, and behind it what sorts and limits:     *)
(* tokens of SqlCondition, "key"s and slots.                               *)
(***************************************************************************)
EXTENDS FilterClause, OrderByClause

BaseQuery(numbered, sql, arguments) ==
  [numbered |-> numbered, sql |-> sql, arguments |-> arguments]

(* Token::Slot: its name, and what follows the name inside of the comment. *)
Slot(name, suffix) == Token("slot", 0, <<name, suffix>>)
SlotOf(token, name) == token.kind = "slot" /\ token.means[1] = name
Suffix(token)       == IF token.means[2] = "" THEN << >> ELSE Symbol(token.means[2])

(* WhereClause::combine: both sides in parentheses.                        *)
Join(w, op, other) ==
  IF IsEmpty(other) THEN w
  ELSE IF IsEmpty(w) THEN other
  ELSE Fragment(RenderBinary(w.sql, op,
                  ShiftPlaceholderNumbers(other.sql, MaxPlaceholderNumber(w.sql))),
                w.values \o other.values)

-----------------------------------------------------------------------------
(* Cursor::new and Cursor::after: one value per key, or an error.          *)
Fits(keys, values)  == Len(values) = Len(keys)
Cursor(keys, values) == [k \in DOMAIN keys |-> [order |-> keys[k], value |-> values[k]]]
CursorKeys(cursor)  == [k \in DOMAIN cursor |-> cursor[k].order]

(* Cursor::to_where_clause: (k1 > $1) OR (k1 = $1 AND k2 > $2) OR ...      *)
Comparison(cursor, k, op) ==
  <<Token("column", 0, cursor[k].order.column)>> \o Symbol(op) \o <<Token("number", k, << >>)>>
BeyondOp(key) == IF key.order.direction = <<"asc">> THEN ">" ELSE "<"
Separated(parts, separator) ==
  FlattenSeq([k \in DOMAIN parts |-> IF k = 1 THEN parts[k] ELSE Symbol(separator) \o parts[k]])

BoundaryBranchAlone(cursor, b) ==                        \* mutant: the keys before are left out
  Paren(Comparison(cursor, b, BeyondOp(cursor[b])))
BoundaryBranch(cursor, b) ==
  Paren(Separated([k \in 1..b |->
          Comparison(cursor, k, IF k = b THEN BeyondOp(cursor[b]) ELSE "==")], "&&"))
BoundaryClause(cursor) ==
  Fragment(Separated([b \in DOMAIN cursor |-> BoundaryBranch(cursor, b)], "||"),
           [k \in DOMAIN cursor |-> cursor[k].value])

-----------------------------------------------------------------------------
(* QueryComposer::compose_where and compose_order_by.  A cursor without    *)
(* keys is none; pushing no ordering differs from pushing an empty one.    *)
Wheres(where_by, cursor) ==
  where_by \o IF cursor = << >> THEN << >> ELSE <<BoundaryClause(cursor)>>
ComposeWhereBare(where_by, cursor, offset) ==          \* mutant: not parenthesised whole
  LET all == FoldLeft(LAMBDA w, other : Join(w, "&&", other), EmptyClause,
                      Wheres(where_by, cursor))
  IN  Shift(all, offset)
ComposeWhere(where_by, cursor, offset) ==
  LET all == FoldLeft(LAMBDA w, other : Join(w, "&&", other), EmptyClause,
                      Wheres(where_by, cursor))
  IN  IF IsEmpty(all) THEN EmptyClause
      ELSE Fragment(Paren(Shift(all, offset).sql), all.values)

ComposeOrderBy(order_by, cursor) ==
  IF order_by = << >> THEN CursorKeys(cursor) ELSE FlattenSeq(order_by)
OrderingSql(keys) ==
  Separated([k \in DOMAIN keys |-> <<Token("key", 0, keys[k])>>], ",")

(* compose's loop over the base query: a slot is replaced by its fragment  *)
(* and its suffix, or dropped; a ? gets its number.                        *)
Placeholders(base) == CountPlaceholders(base.sql, base.numbered)
NumberOf(base, k)  == Cardinality(QuestionsUpTo(base.sql, k))
Filled(fragment, token) == IF fragment = << >> THEN << >> ELSE fragment \o Suffix(token)
Copied(base, k, where_sql, order_by_sql) ==
  LET token == base.sql[k] IN
  IF SlotOf(token, "where") THEN Filled(where_sql, token)
  ELSE IF SlotOf(token, "order_by") THEN Filled(order_by_sql, token)
  ELSE CASE token.kind = "slot"                       -> << >>
         [] token.kind = "question" /\ ~base.numbered -> <<Token("number", NumberOf(base, k), << >>)>>
         [] OTHER                                     -> <<token>>
Spliced(base, where_sql, order_by_sql) ==
  FlattenSeq([k \in DOMAIN base.sql |-> Copied(base, k, where_sql, order_by_sql)])

(* render_question_placeholders: the arguments in the order of the text.   *)
RenderQuestions(sql, arguments) ==
  LET numbers == SelectSeq(sql, IsNumber)
  IN  Fragment([k \in DOMAIN sql |->
                  IF IsNumber(sql[k]) THEN Token("question", 0, << >>) ELSE sql[k]],
               [j \in DOMAIN numbers |-> arguments[numbers[j].number]])

(* compose: the statement, and what it is refused for.  A base query of    *)
(* the wrong spelling and a misnumbered fragment are left to QueryComposer.*)
Compose(base, where_by, order_by, cursor) ==
  LET where == ComposeWhere(where_by, cursor, Placeholders(base))
      sql   == Spliced(base, where.sql, OrderingSql(ComposeOrderBy(order_by, cursor)))
      arguments == base.arguments \o where.values
  IN  IF base.numbered THEN Fragment(sql, arguments) ELSE RenderQuestions(sql, arguments)

HasSlot(base, name) == \E k \in DOMAIN base.sql : SlotOf(base.sql[k], name)
RefusedByLength(base, where_by, order_by, cursor) ==     \* mutant: keys counted, not compared
  \/ Placeholders(base) # Len(base.arguments)
  \/ order_by # << >> /\ cursor # << >> /\ Len(FlattenSeq(order_by)) # Len(cursor)
  \/ ~IsEmpty(ComposeWhere(where_by, cursor, 0)) /\ ~HasSlot(base, "where")
  \/ order_by # << >> /\ FlattenSeq(order_by) # << >> /\ ~HasSlot(base, "order_by")
Refused(base, where_by, order_by, cursor) ==
  \/ Placeholders(base) # Len(base.arguments)
  \/ order_by # << >> /\ cursor # << >> /\ FlattenSeq(order_by) # CursorKeys(cursor)
  \/ ~IsEmpty(ComposeWhere(where_by, cursor, 0)) /\ ~HasSlot(base, "where")
  \/ order_by # << >> /\ FlattenSeq(order_by) # << >> /\ ~HasSlot(base, "order_by")

(* QueryComposer::build: each argument is bound to the query in turn.      *)
BindTo(argument, bound)  == Append(bound, argument)
BuildQuery(statement) ==
  Fragment(statement.sql,
           FoldLeft(LAMBDA bound, argument : BindTo(argument, bound), << >>, statement.values))
=============================================================================
