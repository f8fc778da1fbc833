--------------------------- MODULE MCQueryComposer ---------------------------
(* Small instances of QueryComposer for TLC.                               *)
EXTENDS ComposerRefinement

(* Sort keys, as model values.                                             *)
CONSTANTS id, rank

S(name) == [kind |-> "slot", number |-> 0, name |-> name]
N(n)    == [kind |-> "number", number |-> n]
Q       == [kind |-> "question", number |-> 0]
T       == [kind |-> "text", number |-> 0]

Clause(text, bound) == [text |-> text, bound |-> bound]
Cut(keys, set)      == [keys |-> keys, set |-> set]

ById     == <<id>>
ByRankId == <<rank, id>>

(* PostgreSQL base queries: $2 ahead of the slot and $1 repeated after it, *)
(* two where slots, a slot nobody knows next to a ? operator, and a query  *)
(* sorted statically, with no slot at all for an ordering.                 *)
NumberedBases == {
  <<N(2), S("where"), N(1), S("order_by"), N(1)>>,
  <<S("where"), T, S("where"), S("order_by")>>,
  <<T, S("unknown"), Q, N(1), S("order_by")>>,
  <<S("where"), N(1)>> }

(* ?-style base queries: the README's layout, where the slot precedes the  *)
(* base query's own ?s; two where slots; a rejected $1; no slots.          *)
QuestionBases == {
  <<S("where"), Q, S("order_by"), Q>>,
  <<Q, S("where"), T, S("where"), S("order_by")>>,
  <<N(1), S("where")>>,
  <<S("unknown"), Q, S("order_by")>>,
  <<S("where"), T>> }

(* No text; text without a placeholder; one value named twice; two values  *)
(* named in reverse.                                                       *)
GoodClauses == {
  Clause(<< >>, 0), Clause(<<T>>, 0), Clause(<<N(1), N(1)>>, 1), Clause(<<N(2), N(1)>>, 2) }

(* Next to these, a $0 and a value too many.                               *)
MixedClauses == GoodClauses \cup {Clause(<<N(0)>>, 0), Clause(<<N(1)>>, 2)}

MCOrders  == {<< >>, ById, ByRankId}
MCCursors == {Cut(<< >>, FALSE), Cut(ById, TRUE), Cut(ByRankId, TRUE), Cut(ById, FALSE)}
=============================================================================
