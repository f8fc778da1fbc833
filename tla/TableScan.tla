------------------------------- MODULE TableScan ------------------------------
(***************************************************************************)
(* What paging promises: a scan of a changing table in one ordering, whose *)
(* next page is cut from the rows strictly beyond the last one delivered.  *)
(* There are no tokens, boundaries, checksums, limits or extra rows here:  *)
(* TraversalRefinement says that a Cursor and a Pager implement it.        *)
(***************************************************************************)
EXTENDS Naturals, Sequences, FiniteSets

CONSTANTS
  RowIds, Cells(_), Tables, Orders, Sizes,
  Precedes(_, _, _)   \* the database's ORDER BY

VARIABLES
  table,      \* the rows by primary key
  size,       \* the most rows a page may have
  offered,    \* a page on its way to the client, or Nothing
  delivered   \* the pages the client has

vars == <<table, size, offered, delivered>>

Page(sort, rows, more) == [sort |-> sort, rows |-> rows, more |-> more]
Nothing == Page(<< >>, << >>, TRUE)

Init ==
  /\ table \in Tables /\ size \in Sizes
  /\ offered = Nothing /\ delivered = << >>

(* Anyone may change any row at any time.                                  *)
Write ==
  /\ \E id \in RowIds :
       \/ \E row \in Cells(id) :
            table' = [x \in DOMAIN table \cup {id} |-> IF x = id THEN row ELSE table[x]]
       \/ table' = [x \in DOMAIN table \ {id} |-> table[x]]
  /\ UNCHANGED <<size, offered, delivered>>

(* The last row delivered: only the last page may be empty.                *)
Latest  == delivered[Len(delivered)]
LastRow == Latest.rows[Len(Latest.rows)].row

Ahead(sort) ==
  {id \in DOMAIN table : delivered = << >> \/ Precedes(sort, LastRow, table[id])}
Ordered(ids, sort) ==
  \A j, k \in DOMAIN ids : j < k =>
    ids[j] # ids[k] /\ ~Precedes(sort, table[ids[k]], table[ids[j]])
Scans(sort) ==
  LET n == Cardinality(Ahead(sort))
  IN  {ids \in [1..n -> Ahead(sort)] : Ordered(ids, sort)}

(* The first `size` of the rows ahead, and whether there are more.         *)
Offer ==
  /\ offered = Nothing
  /\ delivered # << >> => Latest.more
  /\ \E sort \in Orders :
       /\ delivered # << >> => sort = Latest.sort
       /\ \E ids \in Scans(sort) :
            LET kept == SubSeq(ids, 1, IF Len(ids) < size THEN Len(ids) ELSE size)
            IN  offered' = Page(sort, [k \in DOMAIN kept |->
                                         [id |-> kept[k], row |-> table[kept[k]]]],
                                Len(ids) > size)
  /\ UNCHANGED <<table, size, delivered>>

(* The page gets lost, or it arrives.                                      *)
Withdraw ==
  /\ offered # Nothing /\ offered' = Nothing
  /\ UNCHANGED <<table, size, delivered>>
Deliver ==
  /\ offered # Nothing /\ offered' = Nothing
  /\ delivered' = Append(delivered, offered)
  /\ UNCHANGED <<table, size>>

Next == Write \/ Offer \/ Withdraw \/ Deliver
Spec == Init /\ [][Next]_vars
=============================================================================
