----------------------------- MODULE ClientRequest -----------------------------
(***************************************************************************)
(* A request from its texts to the query the driver is given: a handler    *)
(* parses the client's filter and order_by, resolves them against its      *)
(* allow-list (not at all, once or again: the crates leave that to it),    *)
(* renders, positions a cursor, composes and builds.  Each step may refuse *)
(* the request.                                                            *)
(***************************************************************************)
EXTENDS StatementText

CONSTANTS
  Requests,   \* what clients ask for: a filter, an order_by text and a position
  Offers,     \* allow-lists: functions from field names to columns
  TieBreaks,  \* orderings a handler adds on its own
  Bases,      \* base queries
  Null,       \* SQL's NULL
  Cells       \* the cells a row may have, Null among them

VARIABLES
  pc,         \* the next step, or how the request ended
  request,    \* what the client sent
  columns,    \* the allow-list
  filter,     \* FilterClause::expr
  resolved,   \* what the handler resolved: "filter", "ordering"
  where_by,   \* the filter's WhereClause
  keys,       \* OrderByClause::keys, the client's and then the handler's
  cursor,     \* the Cursor, no keys for none
  base,       \* the base query its composer is made for
  pushed,     \* the composer's order_by: the ordering, or none pushed
  query       \* the statement, and what is bound to its placeholders

given == <<request, columns>>
vars  == <<pc, given, filter, resolved, where_by, keys, cursor, base, pushed, query>>

Blank  == [kind |-> "blank"]
NoBase == BaseQuery(TRUE, << >>, << >>)

(* Where a page starts: at the beginning, behind a token cut for `keys`,   *)
(* or at values of the handler's own.                                      *)
Start      == [from |-> "start"]
AfterToken(order_by, values) == 
  [from |-> "token", keys |-> order_by, values |-> values]
At(values) == [from |-> "values", values |-> values]

Init ==
  /\ pc = "parse filter" /\ request \in Requests /\ columns \in Offers
  /\ filter = Blank /\ where_by = EmptyClause
  /\ resolved = {} /\ keys = << >> /\ cursor = << >> /\ base = NoBase /\ pushed = << >>
  /\ query = EmptyClause

Refuse == pc' = "refused"

ParseFilter ==
  /\ pc = "parse filter"
  /\ IF request.filter = Blank \/ Validates(request.filter)
     THEN filter' = request.filter /\ pc' = "resolve filter"
     ELSE Refuse /\ UNCHANGED filter
  /\ UNCHANGED <<given, resolved, where_by, keys, cursor, base, pushed, query>>

ResolveFilter ==
  /\ pc \in {"resolve filter", "render filter"}
  /\ IF filter = Blank \/ Fields(filter) \subseteq DOMAIN columns
     THEN /\ filter' = IF filter = Blank THEN Blank ELSE Rename(filter, columns)
          /\ resolved' = resolved \cup {"filter"} /\ pc' = "render filter"
     ELSE Refuse /\ UNCHANGED <<filter, resolved>>
  /\ UNCHANGED <<given, where_by, keys, cursor, base, pushed, query>>

(* FilterClause::to_where_clause, whose expect() would panic.              *)
ToWhereClause ==
  /\ pc \in {"resolve filter", "render filter"}
  /\ LET rendered == Render(filter, << >>) IN
     CASE filter = Blank -> where_by' = EmptyClause /\ pc' = "parse ordering"
       [] filter # Blank /\ rendered.ok ->
            where_by' = Fragment(rendered.sqls[1], rendered.values) /\ pc' = "parse ordering"
       [] OTHER -> pc' = "panicked" /\ UNCHANGED where_by
  /\ UNCHANGED <<given, filter, resolved, keys, cursor, base, pushed, query>>

ParseOrderBy ==
  /\ pc = "parse ordering"
  /\ IF OrderingParses(request.order_by)
     THEN keys' = ParseOrdering(request.order_by) /\ pc' = "resolve ordering"
     ELSE Refuse /\ UNCHANGED keys
  /\ UNCHANGED <<given, filter, resolved, where_by, cursor, base, pushed, query>>

ResolveOrderBy ==
  /\ pc \in {"resolve ordering", "break ties"}
  /\ IF OrderingOffered(keys, columns)
     THEN /\ keys' = RenameKeys(keys, columns)
          /\ resolved' = resolved \cup {"ordering"} /\ pc' = "break ties"
     ELSE Refuse /\ UNCHANGED <<keys, resolved>>
  /\ UNCHANGED <<given, filter, where_by, cursor, base, pushed, query>>

BreakTies ==
  /\ pc \in {"resolve ordering", "break ties"}
  /\ \E own \in TieBreaks : keys' = Then(keys, own)
  /\ pc' = "position"
  /\ UNCHANGED <<given, filter, resolved, where_by, cursor, base, pushed, query>>

(* Cursor::parse of a token, or Cursor::new and after of the values.       *)
Position ==
  /\ pc = "position"
  /\ CASE request.position.from = "start" -> cursor' = << >> /\ pc' = "compose"
       [] request.position.from = "token" ->
            /\ cursor' = Cursor(request.position.keys, request.position.values)
            /\ pc' = "compose"
       [] request.position.from = "values" /\ Fits(keys, request.position.values) ->
            cursor' = Cursor(keys, request.position.values) /\ pc' = "compose"
       [] OTHER -> Refuse /\ UNCHANGED cursor
  /\ UNCHANGED <<given, filter, resolved, where_by, keys, base, pushed, query>>

(* QueryComposer::new, push_where, push_order_by or the cursor's ordering  *)
(* alone, with_cursor and build.                                           *)
Build ==
  /\ pc = "compose"
  /\ \E b \in Bases, order_by \in {<< >>, <<keys>>} :
       /\ base' = b /\ pushed' = order_by
       /\ IF Refused(b, <<where_by>>, order_by, cursor) THEN Refuse /\ UNCHANGED query
          ELSE /\ query' = BuildQuery(Compose(b, <<where_by>>, order_by, cursor))
               /\ pc' = "built"
  /\ UNCHANGED <<given, filter, resolved, where_by, keys, cursor>>

Next ==
  \/ ParseFilter \/ ResolveFilter \/ ToWhereClause
  \/ ParseOrderBy \/ ResolveOrderBy \/ BreakTies
  \/ Position \/ Build
Spec == Init /\ [][Next]_vars
-----------------------------------------------------------------------------
(* Properties.                                                             *)

(* What a filter says, as SqlCondition would read it.                      *)
RECURSIVE Meaning(_)
Meaning(node) ==
  CASE IsField(node) -> Column(FieldName(node))
    [] node.kind = "literal" -> Bound(Value(node.type, node.text))
    [] node.func \in Constructors -> Bound(Value(node.func, node.args[1].text))
    [] node.func \in Methods ->
         Tree("like", <<Column(FieldName(node.target[1])),
                        Bound(Value(node.func, node.args[1].text))>>)
    [] node.func = "in" ->
         Tree("in", [k \in 1..(Len(node.args[2].elements) + 1) |->
                       Meaning((<<node.args[1]>> \o node.args[2].elements)[k])])
    [] node.func = "==" /\ NullCompared(node) -> Tree("is null", <<Meaning(Compared(node))>>)
    [] node.func = "!=" /\ NullCompared(node) -> Tree("is not null", <<Meaning(Compared(node))>>)
    [] OTHER -> Tree(node.func, [k \in DOMAIN node.args |-> Meaning(node.args[k])])

(* No filter tests a condition, rather than a column or a computed value,  *)
(* for null or for membership, and no list is empty.                       *)
RECURSIVE TestsValues(_)
Computed(node) == node.kind = "call" => node.func \in Arithmetic \cup {"neg"} \cup Constructors
TestsValues(node) ==
  /\ node.kind = "call" /\ node.func \in {"==", "!="} /\ NullCompared(node) =>
       Computed(Compared(node))
  /\ node.kind = "call" /\ node.func = "in" =>
       Computed(node.args[1]) /\ node.args[2].elements # << >>
  /\ \A part \in ToSet(Parts(node)) : TestsValues(part)

(* Right behind the rendering; nothing changes the clause after it.        *)
Rendered == filter # Blank /\ pc = "parse ordering"

(* The database reads the WHERE clause as the filter was meant: every      *)
(* operator over the operands it had, every literal where it stood.        *)
ReadsAsMeant == Rendered /\ TestsValues(filter) => Reading(where_by) = Meaning(filter)

(* An allow-list that was applied holds: no column but an offered one is   *)
(* in the filter's clause, wherever in the filter its field stood, nor in  *)
(* the client's ordering, and a filter that names anything else was        *)
(* refused.  Without one, an ordering still is of identifiers only.        *)
ColumnsOf(sql) == {sql[k].means : k \in {j \in DOMAIN sql : sql[j].kind = "column"}}
OnlyOffered ==
  /\ "filter" \in resolved =>
       /\ ColumnsOf(where_by.sql) \subseteq Range(columns)
       /\ request.filter # Blank => Fields(request.filter) \subseteq DOMAIN columns
  /\ pc = "break ties" => \A k \in DOMAIN keys : keys[k].column \in Range(columns)
  /\ pc = "resolve ordering" => \A k \in DOMAIN keys : IsIdentifier(keys[k].column)

(* Nor does one come in by another way.  The keys of a token were resolved *)
(* when it was cut, under the allow-list of then, and nobody looks them up *)
(* again: that compose() compares them with the ordering pushed is all     *)
(* that keeps a built statement's conditions and sort keys to the base     *)
(* query's columns, the handler's own and the offered ones.  (A handler    *)
(* that pushes none sorts by what the token says.)                         *)
SortedOn(sql)     == {sql[k].means.column : k \in {j \in DOMAIN sql : sql[j].kind = "key"}}
ColumnsNamed(sql) == ColumnsOf(sql) \cup SortedOn(sql)
OwnColumns        == UNION {{own[k].column : k \in DOMAIN own} : own \in TieBreaks}
StatementOffered ==
  /\ pc = "built" /\ {"filter", "ordering"} \subseteq resolved
  /\ pushed # << >> \/ request.position.from # "token"
  => ColumnsNamed(query.sql) \subseteq ColumnsNamed(base.sql) \cup OwnColumns \cup Range(columns)

(* The clause numbers its placeholders as QueryComposer wants of a clause  *)
(* it is pushed: one $N per value, in order, from $1.                      *)
NumberedInOrder ==
  Rendered =>
  LET numbers == SelectSeq(where_by.sql, IsNumber) IN
  /\ Len(numbers) = Len(where_by.values)
  /\ \A k \in DOMAIN numbers : numbers[k].number = k

(* to_where_clause's "unreachable" panic: what parse accepts renders,      *)
(* resolved or not (filter.rs:99-103).                                     *)
NeverPanics == pc # "panicked"

-----------------------------------------------------------------------------
(* The base query's condition, read with all that is spliced into its slot *)
(* as one operand, and without the slot if there is nothing.               *)
Operand == <<"the where slot">>
ClauseReadings ==
  (IF IsEmpty(where_by) THEN << >> ELSE <<Reading(where_by)>>)
  \o (IF cursor = << >> THEN << >> ELSE <<Reading(BoundaryClause(cursor))>>)
BaseSql ==
  Spliced(base, IF ClauseReadings = << >> THEN << >> ELSE <<Token("column", 0, Operand)>>, << >>)

RECURSIVE Filling(_, _)
Filling(tree, condition) ==
  IF tree = Column(Operand) THEN condition
  ELSE [tree EXCEPT !.of = [k \in DOMAIN tree.of |-> Filling(tree.of[k], condition)]]

Meant ==
  LET read == Reading(Fragment(BaseSql, base.arguments))
  IN  CASE Len(ClauseReadings) = 0 -> read
        [] Len(ClauseReadings) = 1 -> Filling(read, ClauseReadings[1])
        [] OTHER               -> Filling(read, Tree("&&", ClauseReadings))

(* In the finished statement the database reads the base query's condition *)
(* as its author wrote it, over the base query's arguments, with the whole *)
(* of the filter and of the cursor's boundary as one operand: no OR inside *)
(* of either takes the tenant's restriction apart.                         *)
StatementReads == pc = "built" => Reading(query) = Meant

(* A row's columns by name, its own cursor's columns, cells compared as    *)
(* SQL compares them.                                                      *)
Paging == INSTANCE Pager WITH
  TypeOf <- << >>, Decodes <- << >>, Compares <- << >>, UntypedNulls <- FALSE,
  TicksPerMicro <- 1, Unset <- Null, NullsFirst <- FALSE
PagingCursor ==
  [k \in DOMAIN cursor |->
     [order |-> Paging!Key(cursor[k].order.column, cursor[k].order.direction[1]),
      value |-> cursor[k].value]]
Rows == [{cursor[k].order.column : k \in DOMAIN cursor} -> Cells]

(* The condition a cursor renders selects exactly the rows beyond its      *)
(* boundary, key by key in mixed directions, whatever in a row or in the   *)
(* boundary is NULL: what Traversal pages by.                              *)
BoundarySelects ==
  pc = "compose" /\ cursor # << >> =>
    \A row \in Rows :
      (Evaluate(Reading(BoundaryClause(cursor)), row, Null) = TRUE)
        = Paging!After(PagingCursor, row)
=============================================================================
