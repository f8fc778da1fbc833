-------------------------- MODULE TraversalRefinement -------------------------
(* Traversal implements TableScan: what a client receives is a scan of the *)
(* table, whatever its tokens, the builds that serve it and the handler's  *)
(* queries look like.                                                      *)
EXTENDS Traversal

(* The page the handler is about to return: on offer from the moment its   *)
(* rows are read, until it is received or lost.                            *)
OnOffer ==
  CASE phase = "fetched"   -> [sort |-> sort, rows |-> Kept(rows, size),
                               more |-> ~IsLast(rows, size)]
    [] phase = "responded" -> [sort |-> sort, rows |-> page.rows,
                               more |-> ~IsEmptyCursor(page.cursor)]
    [] OTHER               -> [sort |-> << >>, rows |-> << >>, more |-> TRUE]

(* A page was followed by another one, unless the client has its last.     *)
Delivered ==
  [p \in DOMAIN pages |->
     [sort |-> pages[p].sort, rows |-> pages[p].rows,
      more |-> p < Len(pages) \/ phase # "done"]]

Scan == INSTANCE TableScan WITH
  size <- PageSize(size), Sizes <- {PageSize(s) : s \in Sizes},
  offered <- OnOffer, delivered <- Delivered

(* Every behaviour of a traversal is a scan: each page is the next rows    *)
(* strictly beyond the last row delivered, as the table was when they were *)
(* read, the first page without another is the last, and a changed sort,   *)
(* an edited token or a refused query moves nothing.                       *)
ImplementsScan == Scan!Spec
=============================================================================
