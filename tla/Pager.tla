-------------------------------- MODULE Pager ---------------------------------
(***************************************************************************)
(* Cursor and Pager (clauses/pager.rs), and what a database makes of the   *)
(* clauses a cursor renders.                                               *)
(***************************************************************************)
EXTENDS RowValues

CONSTANTS
  Unset,       \* CursorKey::value is None
  NullsFirst   \* whether an ascending sort puts NULL first: SQLite and MySQL do

(* OrderKey: a resolved column and its direction.                          *)
Key(column, direction) == [column |-> column, direction |-> direction]

(* Cursor::new: the ordering, and no position yet.                         *)
New(order_by) == [k \in DOMAIN order_by |-> [order |-> order_by[k], value |-> Unset]]

IsEmptyCursor(cursor)     == cursor = << >>
ToOrderByClause(cursor)   == [k \in DOMAIN cursor |-> cursor[k].order]

(* Cursor::after_row reads every key off the row, or fails on one the row  *)
(* does not carry or that no candidate decodes.                            *)
KeyReadable(order, shown, row, build) ==
  /\ ~Missing(shown, order.column)
  /\ \/ row[shown[Place(shown, order.column)]] = Null
     \/ ~Undecodable(shown, order.column, build)
Readable(cursor, shown, row, build) ==
  \A k \in DOMAIN cursor : KeyReadable(cursor[k].order, shown, row, build)
AfterRowUnset(cursor, shown, row, build) == cursor     \* mutant: no boundary is set
AfterRow(cursor, shown, row, build) ==
  [k \in DOMAIN cursor |->
     [cursor[k] EXCEPT !.value = GetValue(shown, row, cursor[k].order.column, build)]]

(* Cursor::to_where_clause, evaluated: some key lies beyond its boundary   *)
(* and the keys before it are on theirs.  Nothing compares with NULL.      *)
Comparable(key, cell) == cell # Null /\ Bound(key.value) # Null
BeyondAscending(key, cell) ==                          \* mutant: every key ascending
  Comparable(key, cell) /\ cell > Bound(key.value)
BeyondOrOn(key, cell) ==                               \* mutant: >= for >
  /\ Comparable(key, cell)
  /\ IF key.order.direction = "asc" THEN cell >= Bound(key.value) ELSE cell <= Bound(key.value)
Beyond(key, cell) ==
  /\ Comparable(key, cell)
  /\ IF key.order.direction = "asc" THEN cell > Bound(key.value) ELSE cell < Bound(key.value)

On(key, cell) == Comparable(key, cell) /\ cell = Bound(key.value)

After(cursor, row) ==
  \E k \in DOMAIN cursor :
    /\ Beyond(cursor[k], row[cursor[k].order.column])
    /\ \A j \in 1..(k - 1) : On(cursor[j], row[cursor[j].order.column])

Selected(cursor, row) == IsEmptyCursor(cursor) \/ After(cursor, row)

(* Every boundary is of a type its column compares with.                   *)
CursorAccepted(cursor, build) ==
  \A k \in DOMAIN cursor : Accepts(cursor[k].order.column, cursor[k].value, build)

-----------------------------------------------------------------------------
(* ORDER BY: the rows' order, key by key, with NULL at one end.            *)
Lower(a, b) ==
  IF a = Null \/ b = Null THEN a # b /\ (a = Null <=> NullsFirst) ELSE a < b

KeyPrecedes(key, r, s) ==
  IF key.direction = "asc" THEN Lower(r[key.column], s[key.column])
  ELSE Lower(s[key.column], r[key.column])

Precedes(order_by, r, s) ==
  \E k \in DOMAIN order_by :
    /\ KeyPrecedes(order_by[k], r, s)
    /\ \A j \in 1..(k - 1) : r[order_by[j].column] = s[order_by[j].column]

Ties(order_by, r, s) ==
  \A k \in DOMAIN order_by : r[order_by[k].column] = s[order_by[k].column]

-----------------------------------------------------------------------------
(* Pager::new takes a size of 0 as 1, Pager::limit asks for a row more.    *)
PageSize(size) == IF size = 0 THEN 1 ELSE size
LimitOfPage(size) == PageSize(size)                    \* mutant: no extra row
Limit(size)    == PageSize(size) + 1

(* Pager::next_page: what is kept, and whether the extra row came back.    *)
KeptAll(rows, size) == rows                            \* mutant: no truncate
Kept(rows, size) == SubSeq(rows, 1, IF Len(rows) < PageSize(size) THEN Len(rows)
                                    ELSE PageSize(size))
IsLastOffByOne(rows, size) == Len(rows) < PageSize(size)  \* mutant: < for <=
IsLast(rows, size) == Len(rows) <= PageSize(size)

(* The token: the checksum is the payload's, and no two payloads share one.*)
EmptyToken == [checksum |-> << >>, cursor |-> << >>]
Encode(cursor) == [checksum |-> cursor, cursor |-> cursor]
ParsesAnyway(token) == TRUE                            \* mutant: no checksum comparison
Parses(token)  == token = EmptyToken \/ token.checksum = token.cursor
Parse(token)   == token.cursor
=============================================================================
