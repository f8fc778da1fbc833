------------------------------- MODULE Traversal ------------------------------
(***************************************************************************)
(* A client pages through a table: each request carries the token of the   *)
(* page before, the handler of the README composes a query from it and     *)
(* cuts a page out of the rows, and the page's cursor travels back as the  *)
(* next token.  Nothing is kept between requests: the table changes,       *)
(* responses are lost and sent for again, and a client may change its sort *)
(* or damage a token.                                                      *)
(***************************************************************************)
EXTENDS Pager, FiniteSets

CONSTANTS
  RowIds,     \* primary keys
  Cells(_),   \* the rows a primary key may have: functions from columns to cells
  Shown,      \* the columns of the query's SELECT list, in order
  Builds,     \* the builds of the service: a request may go to any of them
  Tables,     \* tables a traversal may start from: partial functions from RowIds
  Orders,     \* the orderings a client may ask for
  Sizes,      \* page sizes
  MaxWrites,  \* bound on the writers' steps
  MaxFaults   \* bound on lost responses and on requests that do not fit

ASSUME TableAssumption ==
  /\ IsFiniteSet(RowIds) /\ Null \notin Int /\ NullsFirst \in BOOLEAN
  /\ Unset \notin [variant : Variants, of : Int \cup {Null}]
  /\ \A id \in RowIds : Cells(id) \subseteq [DOMAIN TypeOf -> Int \cup {Null}]
  /\ \A t \in Tables : DOMAIN t \subseteq RowIds /\ \A id \in DOMAIN t : t[id] \in Cells(id)

ASSUME RequestAssumption ==
  /\ Shown \in Seq(DOMAIN TypeOf)
  /\ Orders \subseteq Seq([column : DOMAIN TypeOf, direction : {"asc", "desc"}])
  /\ Sizes \subseteq Nat /\ MaxWrites \in Nat /\ MaxFaults \in Nat

VARIABLES
  table,      \* the rows by primary key
  size,       \* Pager::size, as the caller gave it
  order_by,   \* the sort the client asks for
  token,      \* the client's page_token
  phase,      \* "client", "fetched", "responded" or "done"
  build,      \* the build that handles the request under way
  sort,       \* the handler's order_by, which its pager is built over
  rows,       \* what the handler's query returned: primary keys and rows, in order
  page,       \* the Page it responds with
  pages,      \* history: the pages the client received, and their sorts
  stable,     \* history: the primary keys no writer has touched
  calm,       \* history: no write since the request under way read the table
  quiet,      \* history: no write since the request behind `token` read it
  writes,     \* steps of the writers so far
  faults      \* lost responses, damaged tokens and changed sorts so far

request == <<build, sort, rows, page>>
history == <<pages, stable, calm, quiet>>
vars    == <<table, size, order_by, token, phase, build, sort, rows, page, pages, stable,
             calm, quiet, writes, faults>>

NoPage == [rows |-> << >>, cursor |-> << >>]

Init ==
  /\ table \in Tables /\ size \in Sizes /\ order_by \in Orders
  /\ token = EmptyToken /\ phase = "client"
  /\ build = {} /\ sort = << >> /\ rows = << >> /\ page = NoPage
  /\ pages = << >> /\ stable = DOMAIN table /\ calm = TRUE /\ quiet = TRUE
  /\ writes = 0 /\ faults = 0

-----------------------------------------------------------------------------
(* The writers: a row may be inserted, updated or deleted at any time.     *)
Touch(id) ==
  /\ phase # "done" /\ writes < MaxWrites
  /\ writes' = writes + 1
  /\ stable' = stable \ {id} /\ calm' = FALSE /\ quiet' = FALSE
  /\ UNCHANGED <<size, order_by, token, phase, request, pages, faults>>

Put(id) ==
  /\ Touch(id)
  /\ \E row \in Cells(id) :
       table' = [x \in DOMAIN table \cup {id} |-> IF x = id THEN row ELSE table[x]]

Delete(id) ==
  /\ id \in DOMAIN table /\ Touch(id)
  /\ table' = [x \in DOMAIN table \ {id} |-> table[x]]

Write == \E id \in RowIds : Put(id) \/ Delete(id)

-----------------------------------------------------------------------------
(* What the client does wrong, and what goes wrong on the way.             *)
Fault ==
  /\ faults < MaxFaults
  /\ faults' = faults + 1
  /\ UNCHANGED <<table, size, request, history, writes>>

(* The client sorts differently from here on.                              *)
Resort ==
  /\ phase \in {"client", "fetched", "responded"} /\ Fault
  /\ order_by' \in Orders \ {order_by}
  /\ UNCHANGED <<token, phase>>

(* The response is lost: the client asks again with the token it has.      *)
Lose ==
  /\ phase = "responded" /\ Fault
  /\ phase' = "client"
  /\ UNCHANGED <<order_by, token>>

-----------------------------------------------------------------------------
(* The handler.  Where the ordering ties, the database is free to choose.  *)
Sorted(ids, o) ==
  \A j, k \in DOMAIN ids : j < k =>
    ids[j] # ids[k] /\ ~Precedes(o, table[ids[k]], table[ids[j]])

(* The selected rows in an order the ORDER BY allows, cut by the LIMIT.    *)
Results(cursor, o, limit) ==
  LET found == {id \in DOMAIN table : Selected(cursor, table[id])}
      n     == Cardinality(found)
  IN  {SubSeq(ids, 1, IF n < limit THEN n ELSE limit) :
         ids \in {s \in [1..n -> found] : Sorted(s, o)}}

(* compose_order_by's check of the pushed ordering against the cursor's.   *)
AlwaysAgrees(cursor, o) == TRUE                        \* mutant: no CursorMismatch
AgreesWhole(cursor, o) == IsEmptyCursor(cursor) \/ cursor = o  \* mutant: positions compared too
Agrees(cursor, o) == IsEmptyCursor(cursor) \/ ToOrderByClause(cursor) = o

(* A token edited to stand after another row.                              *)
Positions(b) == {id \in DOMAIN table : Readable(token.cursor, Shown, table[id], b)}
Edited ==
  UNION {{[token EXCEPT !.cursor = AfterRow(token.cursor, Shown, table[id], b)] :
            id \in Positions(b)} : b \in Builds} \ {token}
Requests == {token} \cup IF faults < MaxFaults THEN Edited ELSE {}

(* Parse the token, compose, and fetch.  A token that does not parse and a *)
(* sort that disagrees with it are refused, as is, by the database, a      *)
(* boundary its column does not compare with: the client is where it was.  *)
Fetch ==
  /\ phase = "client"
  /\ build' \in Builds
  /\ \E t \in Requests :
       /\ Parses(t) /\ Agrees(Parse(t), order_by) /\ CursorAccepted(Parse(t), build')
       /\ \E ids \in Results(Parse(t), order_by, Limit(size)) :
            rows' = [k \in DOMAIN ids |-> [id |-> ids[k], row |-> table[ids[k]]]]
       /\ faults' = IF t = token THEN faults ELSE faults + 1
  /\ sort' = order_by /\ phase' = "fetched" /\ calm' = TRUE
  /\ UNCHANGED <<table, size, order_by, token, page, pages, stable, quiet, writes>>

(* The cursor after the last row kept, over a pager for the sort.          *)
LastKept == Kept(rows, size)[Len(Kept(rows, size))].row

(* next_page cannot read a key off a row: an error instead of the page.    *)
PageFails == ~IsLast(rows, size) /\ ~Readable(New(sort), Shown, LastKept, build)

FailPage ==
  /\ phase = "fetched" /\ PageFails
  /\ phase' = "client"
  /\ UNCHANGED <<table, size, order_by, token, request, history, writes, faults>>

CutPage ==
  /\ phase = "fetched" /\ ~PageFails
  /\ page' = [rows   |-> Kept(rows, size),
              cursor |-> IF IsLast(rows, size) THEN << >>
                         ELSE AfterRow(New(sort), Shown, LastKept, build)]
  /\ phase' = "responded"
  /\ UNCHANGED <<table, size, order_by, token, build, sort, rows, history, writes, faults>>

(* The page reaches the client, and its cursor with it; an empty token     *)
(* ends the traversal.                                                     *)
Receive ==
  /\ phase = "responded"
  /\ pages' = Append(pages, [sort |-> sort, rows |-> page.rows])
  /\ token' = Encode(page.cursor) /\ quiet' = calm
  /\ phase' = IF IsEmptyCursor(page.cursor) THEN "done" ELSE "client"
  /\ build' = {} /\ sort' = << >> /\ rows' = << >> /\ page' = NoPage
  /\ UNCHANGED <<table, size, order_by, stable, calm, writes, faults>>

Handle == Fetch \/ FailPage \/ CutPage \/ Receive
Next   == Write \/ Resort \/ Lose \/ Handle

(* The client's loop asks for the next page until there is none.           *)
Spec == Init /\ [][Next]_vars /\ WF_vars(Handle)
-----------------------------------------------------------------------------
(* Properties.                                                             *)

AllCells == UNION {Cells(id) : id \in RowIds}
RowSeqs  == Seq([id : RowIds, row : AllCells])
Fetched  == phase \in {"fetched", "responded"}
IsBoundary(cursor) ==
  /\ ToOrderByClause(cursor) \in Orders
  /\ \A k \in DOMAIN cursor : cursor[k].value # Unset

(* Type correctness: a token never carries a key without a value.         *)
TypeOK ==
  /\ DOMAIN table \subseteq RowIds /\ \A id \in DOMAIN table : table[id] \in Cells(id)
  /\ size \in Sizes /\ order_by \in Orders
  /\ phase \in {"client", "fetched", "responded", "done"}
  /\ build \in Builds \cup {{}} /\ sort \in Orders \cup {<< >>} /\ (Fetched => sort \in Orders)
  /\ rows \in RowSeqs /\ page.rows \in RowSeqs
  /\ \A cursor \in {token.cursor, page.cursor} : cursor = << >> \/ IsBoundary(cursor)
  /\ pages \in Seq([sort : Orders, rows : RowSeqs])
  /\ stable \subseteq DOMAIN table
  /\ writes \in 0..MaxWrites /\ faults \in 0..MaxFaults

(* Whatever is written between the requests, lost on the way or asked for  *)
(* with another sort or an edited token: the pages a client receives are   *)
(* in one ordering, and every row lies strictly beyond the rows of the     *)
(* pages before it, so no row comes twice.                                 *)
OrderedOnce ==
  \A p, q \in DOMAIN pages : p < q =>
    /\ pages[p].sort = pages[q].sort
    /\ \A j \in DOMAIN pages[p].rows, k \in DOMAIN pages[q].rows :
         Precedes(pages[p].sort, pages[p].rows[j].row, pages[q].rows[k].row)

(* The rows received, by page and place.                                   *)
Deliveries == UNION {{<<p, k>> : k \in DOMAIN pages[p].rows} : p \in DOMAIN pages}

(* Whatever a client receives was in the table from the start, where each  *)
(* of RowIds may be, or is there for a write of its own, and is received   *)
(* once however often the page loop asks.  So a traversal that is served   *)
(* comes to an end: a row written ahead of it is the only thing that makes *)
(* it longer.                                                              *)
DeliveriesBounded == Cardinality(Deliveries) <= Cardinality(RowIds) + writes

OnPage(p, id) == \E k \in DOMAIN p.rows : p.rows[k].id = id
Received(id)  == \E p \in DOMAIN pages : OnPage(pages[p], id)

(* A row that ties with the last row of a page another page follows.       *)
TiesWithLast(p, id) == Ties(p.sort, table[id], p.rows[Len(p.rows)].row)
SkippedByTie(id)    == \E p \in 1..(Len(pages) - 1) : TiesWithLast(pages[p], id)

(* A traversal that ends has delivered every row that was there from its   *)
(* first request to its last, except those the ordering cannot tell from   *)
(* the last row of a page.                                                 *)
StableRowsDelivered ==
  phase = "done" => \A id \in stable : Received(id) \/ SkippedByTie(id)

(* A token is only ever issued for a page with rows on it: while nobody    *)
(* has written since the rows behind it were read, the next page is not    *)
(* empty -- unless the ordering cannot tell its rows from the last page's. *)
NextPageHasRows ==
  phase = "client" /\ token # EmptyToken /\ quiet =>
    \E id \in DOMAIN table :
      \/ After(token.cursor, table[id])
      \/ TiesWithLast(pages[Len(pages)], id) /\ ~OnPage(pages[Len(pages)], id)

(* Whichever driver type a boundary was read as -- a column may decode as  *)
(* several -- the database compares it with the column it came from, so no *)
(* page is followed by a query that is refused: unless a build redeems it  *)
(* that lacks the library its variant stands for.                          *)
HasLibrary(value, b) ==
  /\ value.variant = "Timestamp" => HasDates(b)
  /\ value.variant = "Uuid" => HasUuid(b)
BoundaryAccepted ==
  \A b \in Builds, k \in DOMAIN token.cursor :
    LET key == token.cursor[k]
    IN  HasLibrary(key.value, b) => Accepts(key.order.column, key.value, b)

(* A client that keeps asking reaches the last page, whatever is written   *)
(* or lost, unless it ends up with a sort its token was not cut for, or    *)
(* its requests never cease to land on a build that cannot read a key of   *)
(* its sort, for want of the column or of a type.                          *)
Serves(b, sorting) ==
  \A k \in DOMAIN sorting :
    ~Missing(Shown, sorting[k].column) /\ ~Undecodable(Shown, sorting[k].column, b)
TraversalEnds ==
  \/ <>(phase = "done")
  \/ <>[](token # EmptyToken /\ ToOrderByClause(token.cursor) # order_by)
  \/ []<>(phase = "fetched" /\ ~Serves(build, sort))

-----------------------------------------------------------------------------
(* What the proofs suppose of the tables, where the properties need it.    *)

(* A boundary stands for the cell it was read from: a key's column is the  *)
(* first one shown under its label, and instants are whole microseconds.   *)
ExactBoundaries ==
  /\ \A o \in Orders : \A k \in DOMAIN o, j \in DOMAIN Shown :
       Label(Shown[j]) = Label(o[k].column) => \E i \in 1..j : Shown[i] = o[k].column
  /\ \A id \in RowIds : \A row \in Cells(id) : \A column \in DOMAIN TypeOf :
       "timestamp" \in Decodes[TypeOf[column]] /\ row[column] # Null =>
         row[column] % TicksPerMicro = 0

(* Orderings have keys, and no key is ever NULL.                           *)
SolidKeys ==
  /\ << >> \notin Orders
  /\ \A id \in RowIds : \A row \in Cells(id) : \A o \in Orders : \A k \in DOMAIN o :
       row[o[k].column] # Null

(* What a key's column decodes as compares with it when it is bound again, *)
(* but for a UUID read as text or bytes, and text read as bytes; and where *)
(* a key is a UUID, the builds that read it have the library.              *)
BoundAs(rust) ==
  CASE rust \in {"i64", "i32", "i16"} -> "i64" [] rust \in {"f64", "f32"} -> "f64"
    [] OTHER -> rust
ComparableKeys ==
  \A o \in Orders : \A k \in DOMAIN o :
    LET type == TypeOf[o[k].column]
    IN  /\ \A rust \in Decodes[type] :
             \/ BoundAs(rust) \in Compares[type]
             \/ rust \in {"String", "bytes"} /\ "uuid" \in Decodes[type]
             \/ rust = "bytes" /\ "String" \in Decodes[type]
        /\ "uuid" \in Decodes[type] => \A b \in Builds : Serves(b, o) => HasUuid(b)

(* The inductive invariant, in three parts.                                *)
Latest  == pages[Len(pages)]
LastRow == Latest.rows[Len(Latest.rows)].row

InOrder(rs, o) ==
  \A j, k \in DOMAIN rs : j < k => rs[j].id # rs[k].id /\ ~Precedes(o, rs[k].row, rs[j].row)

StandsAfter(cursor, o, row) ==
  /\ ToOrderByClause(cursor) = o
  /\ \A k \in DOMAIN cursor : Bound(cursor[k].value) = row[cursor[k].order.column]

(* A page that another may follow has rows, and the client's token stands  *)
(* after the last of them.                                                 *)
TokenStands ==
  IF pages = << >> THEN token = EmptyToken
  ELSE phase # "done" =>
         /\ Latest.rows # << >>
         /\ token.cursor # << >> /\ token = Encode(token.cursor)
         /\ StandsAfter(token.cursor, Latest.sort, LastRow)

(* What the handler read lies beyond that row, in the same ordering.       *)
RowsBeyond ==
  Fetched =>
    /\ InOrder(rows, sort)
    /\ pages # << >> => /\ sort = Latest.sort
                       /\ \A k \in DOMAIN rows : Precedes(sort, LastRow, rows[k].row)

PageCut ==
  phase = "responded" =>
    /\ page.rows = Kept(rows, size)
    /\ IF IsLast(rows, size) THEN page.cursor = << >>
       ELSE StandsAfter(page.cursor, sort, LastKept)

PagesInOrder ==
  /\ OrderedOnce
  /\ \A p \in DOMAIN pages : InOrder(pages[p].rows, pages[p].sort)
  /\ \A p \in DOMAIN pages : p < Len(pages) => pages[p].rows # << >>

Paged == TypeOK /\ TokenStands /\ RowsBeyond /\ PageCut /\ PagesInOrder

(* What became of the rows nobody touches: received, tied with the end of  *)
(* a page, or not yet reached.                                             *)
NotReached(id) == pages # << >> => ~Precedes(Latest.sort, table[id], LastRow)
Accounted ==
  \A id \in stable : Received(id) \/ SkippedByTie(id) \/ (phase # "done" /\ NotReached(id))

(* The handler missed none of them but for the LIMIT.                      *)
OnHand(id)  == \E k \in DOMAIN rows : rows[k].id = id
CutOff(row) ==
  Len(rows) = Limit(size) /\ \A k \in DOMAIN rows : ~Precedes(sort, row, rows[k].row)
RowsComplete ==
  Fetched =>
    /\ \A k \in DOMAIN rows : rows[k].id \in stable => rows[k].row = table[rows[k].id]
    /\ \A id \in stable :
         (pages # << >> => Precedes(sort, LastRow, table[id])) => OnHand(id) \/ CutOff(table[id])

(* While nobody writes, the rows at hand are the table's, and one of them  *)
(* is left for the token's page.                                           *)
RowsCurrent ==
  Fetched /\ calm => \A k \in DOMAIN rows : /\ rows[k].id \in DOMAIN table
                                          /\ rows[k].row = table[rows[k].id]
RowsRemain ==
  phase # "done" /\ token # EmptyToken /\ quiet =>
    \E id \in DOMAIN table :
      \/ After(token.cursor, table[id])
      \/ (TiesWithLast(Latest, id) /\ ~OnPage(Latest, id))

Thorough == Accounted /\ RowsComplete /\ RowsCurrent /\ RowsRemain

(* The rows, as written, that are in the table, on their way or received:  *)
(* a write makes one, a query or a response none.                          *)
Versions ==
  {[id |-> id, row |-> table[id]] : id \in DOMAIN table}
    \cup {rows[k] : k \in DOMAIN rows}
    \cup {pages[d[1]].rows[d[2]] : d \in Deliveries}
Versioned == IsFiniteSet(Versions) /\ Cardinality(Versions) <= Cardinality(RowIds) + writes

(* Every cursor is read off a row of the table, by a build that could.     *)
ReadOff(cursor) ==
  \E o \in Orders, row \in AllCells, b \in Builds :
    Readable(New(o), Shown, row, b) /\ cursor = AfterRow(New(o), Shown, row, b)
Issued ==
  /\ Fetched => build \in Builds
  /\ \A c \in {token.cursor, page.cursor} : c = << >> \/ ReadOff(c)
=============================================================================
