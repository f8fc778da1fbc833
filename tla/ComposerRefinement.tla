-------------------------- MODULE ComposerRefinement --------------------------
(* QueryComposer implements Composition: whatever the pipeline numbers,    *)
(* shifts and renders, the caller sees one step from a finished builder to *)
(* the result the abstract specification names.                            *)
EXTENDS QueryComposer, SequencesExt

(* What the driver binds to the statement's placeholders, left to right.   *)
BoundValues ==
  IF Numbered
  THEN FlattenSeq([k \in DOMAIN out |->
         IF IsNumber(out[k]) THEN <<rendered[out[k].number].means>> ELSE << >>])
  ELSE [k \in DOMAIN rendered |-> rendered[k].means]

(* What a text's tokens of one kind were written for, left to right.       *)
Meanings(sql, kind) ==
  FlattenSeq([k \in DOMAIN sql |-> IF sql[k].kind = kind THEN <<sql[k].means>> ELSE << >>])

SortedBy == Meanings(out, "key")

Observed ==
  IF outcome = "ok" THEN [outcome |-> "ok", values |-> BoundValues, keys |-> SortedBy]
  ELSE [outcome |-> outcome]

Promise == INSTANCE Composition WITH
  bound <- Len(arguments), clauses <- authored, result <- Observed

(* Every behaviour of the composer is one of the abstract specification:   *)
(* the steps of the pipeline are invisible, errors come in the documented  *)
(* order, and an accepted statement binds and sorts as its parts said.     *)
ImplementsComposition == Promise!Spec
-----------------------------------------------------------------------------
(* The inductive strengthening of the refinement: how much of what the     *)
(* statement is to bind and to sort by the loops have gathered so far.     *)

Leading(s, k) == [j \in 1..k |-> s[j]]

(* The fragments say what the clauses' authors wrote, and there is text in *)
(* one where there is text in the other; compose_where has joined the      *)
(* first of them, and to_where_clause written the first branches.          *)
Fragmented == [w \in DOMAIN where_by |-> Meanings(where_by[w].sql, "number")]
JoinedSoFar     == IF pc # "where" THEN 0 ELSE IF i > Len(where_by) THEN Len(where_by) ELSE i - 1

ClausesKept ==
  /\ FlattenSeq(Fragmented) = FlattenSeq(Promise!AllNamed)
  /\ (\E w \in DOMAIN where_by : where_by[w].sql # << >>)
       <=> (\E a \in DOMAIN authored : authored[a].text # << >>)
ClausesJoined ==
  Gathering =>
    /\ Meanings(acc.sql, "number") = FlattenSeq(Leading(Fragmented, JoinedSoFar))
    /\ acc.sql # << >> <=> \E w \in 1..JoinedSoFar : where_by[w].sql # << >>
BranchesWritten ==
  Gathering =>
    /\ Meanings(boundary, "number") =
         FlattenSeq([b \in 1..Branches |-> [j \in 1..b |-> <<AuthorCursor, j>>]])
    /\ boundary # << >> <=> Branches > 0

(* compose_order_by has joined the first orderings, then has the result.   *)
OrderingKept ==
  /\ pc \in {"build", "base"} => ordering = << >>
  /\ pc = "order" => i <= Len(order_by) + 1 /\ ordering = FlattenSeq(Leading(order_by, i - 1))
  /\ pc = "where" \/ Splicing => ordering = Promise!Ordering /\ ~OrderingDisagrees

(* Behind them, the statement binds and sorts by what the tokens of the    *)
(* base query read so far stand for, and every check passed holds still.   *)
Read == IF pc = "splice" THEN i - 1 ELSE Len(base)
StatementKept ==
  Splicing =>
    /\ Meanings(acc.sql, "number") = Promise!Conditions
    /\ acc.sql # << >> <=> Promise!HasConditions
    /\ Read <= Len(base)
    /\ Meanings(out, "number") = FlattenSeq(Leading(Promise!AllStand, Read))
    /\ Meanings(out, "key") = FlattenSeq(Leading(Promise!AllSort, Read))
    /\ cursor.keys # << >> => cursor.set
    /\ pc # "splice" => ~WhereHasNoSlot /\ ~OrderByHasNoSlot

(* The rendered ?s are the numbers passed.                                 *)
MarksKept ==
  WellFormed /\ ~Numbered /\ Rendering =>
    LET passed == IF pc = "render" THEN i - 1 ELSE Len(out)
    IN  passed <= Len(out) /\ marks = Meanings(Leading(out, passed), "number")

(* What is gathered is what was promised.                                  *)
PromiseKept ==
  ClausesKept /\ ClausesJoined /\ BranchesWritten /\ OrderingKept /\ StatementKept /\ MarksKept
=============================================================================
