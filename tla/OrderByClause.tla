----------------------------- MODULE OrderByClause -----------------------------
(***************************************************************************)
(* OrderByClause (clauses/order.rs).  An order_by text is a sequence of    *)
(* terms, a term a sequence of words, a word the sequence of its segments  *)
(* between dots.  A blank text is no term at all.                          *)
(***************************************************************************)
EXTENDS Naturals, Sequences

(* Segments that spell [A-Za-z_][A-Za-z0-9_]*, and the direction words.    *)
CONSTANT Segments
Directions == {<<"asc">>, <<"desc">>}

IsIdentifier(word) == \A k \in DOMAIN word : word[k] \in Segments

OrderKey(column, direction) == [column |-> column, direction |-> direction]

(* OrderByClause::parse, of one term; the first term to fail fails all.    *)
TermParses(term) ==
  /\ Len(term) \in 1..2
  /\ IsIdentifier(term[1])
  /\ Len(term) = 2 => term[2] \in Directions
TermKey(term) == OrderKey(term[1], IF Len(term) = 2 THEN term[2] ELSE <<"asc">>)

OrderingParses(text)  == \A k \in DOMAIN text : TermParses(text[k])
ParseOrdering(text)   == [k \in DOMAIN text |-> TermKey(text[k])]

(* OrderByClause::resolve.                                                 *)
OrderingOffered(keys, columns) == \A k \in DOMAIN keys : keys[k].column \in DOMAIN columns
RenameKeys(keys, columns) ==
  [k \in DOMAIN keys |-> OrderKey(columns[keys[k].column], keys[k].direction)]

(* OrderByClause::then, asc and desc.                                      *)
Then(keys, other) == keys \o other
=============================================================================
