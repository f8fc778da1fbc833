---------------------------- MODULE TraversalClaims ---------------------------
(* What the README says of paging, where the code does something else.     *)
EXTENDS MCTraversal

(* README.md:269: "A key can be any column a `Value` holds", and a Value   *)
(* holds null: a traversal of a table nobody writes to, in a unique        *)
(* ordering, delivers every row.                                           *)
AnyColumnIsAKey == phase = "done" => \A id \in stable : Received(id)

(* execute.rs:372: "Every row once, in order" -- of a table nobody writes  *)
(* to, in a unique ordering by a column that a Value holds.                *)
EveryRowOnce ==
  \A p, q \in DOMAIN pages : p < q =>
    \A j \in DOMAIN pages[p].rows : ~OnPage(pages[q], pages[p].rows[j].id)
=============================================================================
