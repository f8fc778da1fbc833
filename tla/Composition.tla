----------------------------- MODULE Composition ------------------------------
(***************************************************************************)
(* What QueryComposer promises, with no numbering in it: compose() either  *)
(* returns the first error that applies, or a statement in which every     *)
(* placeholder, read from left to right, stands for the value its author   *)
(* wrote there, if the clauses' authors have numbered them right.          *)
(*                                                                         *)
(* QueryComposer numbers, combines, shifts, splices and renders back to    *)
(* get there; ComposerRefinement says that it does.                        *)
(***************************************************************************)
EXTENDS Naturals, Sequences, FiniteSets, SequencesExt

CONSTANTS Numbered, Bases, Clauses, Orders, Cursors, MaxArguments, MaxWheres, MaxOrders

VARIABLES
  base,       \* the base query
  bound,      \* how many arguments are bound to it
  clauses,    \* the clauses pushed, in order
  order_by,   \* the orderings pushed, in order
  cursor,     \* the cursor, or no keys
  result      \* "pending", an error, or what the statement binds and sorts by

vars == <<base, bound, clauses, order_by, cursor, result>>

Init ==
  /\ base \in Bases
  /\ bound = 0 /\ clauses = << >> /\ order_by = << >>
  /\ cursor = [keys |-> << >>, set |-> FALSE]
  /\ result = [outcome |-> "pending"]

Pending == result.outcome = "pending"

Bind ==
  /\ Pending /\ bound < MaxArguments
  /\ bound' = bound + 1
  /\ UNCHANGED <<base, clauses, order_by, cursor, result>>

WithCursor ==
  /\ Pending
  /\ \E c \in Cursors :
       cursor' = IF c.keys = << >> THEN [keys |-> << >>, set |-> FALSE] ELSE c
  /\ UNCHANGED <<base, bound, clauses, order_by, result>>

PushWhere ==
  /\ Pending
  /\ \E c \in Clauses :
       \/ clauses' = Append(clauses, c)
       \/ \E d \in Clauses : clauses' = clauses \o <<c, d>>
  /\ Len(clauses') <= MaxWheres
  /\ UNCHANGED <<base, bound, order_by, cursor, result>>

PushOrderBy ==
  /\ Pending /\ Len(order_by) < MaxOrders
  /\ \E o \in Orders : order_by' = Append(order_by, o)
  /\ UNCHANGED <<base, bound, clauses, cursor, result>>

-----------------------------------------------------------------------------
(* The values a text's placeholders stand for, in the order they appear.   *)
Named(text, author) ==
  FlattenSeq([k \in DOMAIN text |->
    IF text[k].kind = "number" THEN << <<author, text[k].number>> >> ELSE << >>])

Questions(k) == Cardinality({j \in 1..k : base[j].kind = "question"})
BaseNumbers  == {base[k].number : k \in {j \in DOMAIN base : base[j].kind = "number"}}
References   == IF Numbered THEN Max(BaseNumbers \cup {0}) ELSE Questions(Len(base))

AllNamed   == [a \in DOMAIN clauses |-> Named(clauses[a].text, a + 1)]
Positioned == [b \in DOMAIN cursor.keys |-> [j \in 1..b |-> <<1, j>>]]
Conditions == FlattenSeq(AllNamed) \o FlattenSeq(Positioned)
HasConditions ==
  cursor.keys # << >> \/ \E a \in DOMAIN clauses : clauses[a].text # << >>

Pushed   == FlattenSeq(order_by)
Ordering == IF order_by = << >> THEN cursor.keys ELSE Pushed
HasSlot(name) == \E k \in DOMAIN base : base[k].kind = "slot" /\ base[k].name = name

Slot(t, name) == t.kind = "slot" /\ t.name = name
Stands(k) ==
  CASE Slot(base[k], "where")                 -> Conditions
    [] base[k].kind = "number"                -> << <<0, base[k].number>> >>
    [] base[k].kind = "question" /\ ~Numbered -> << <<0, Questions(k)>> >>
    [] OTHER                                  -> << >>

AllStand == [k \in DOMAIN base |-> Stands(k)]
AllSort  == [k \in DOMAIN base |-> IF Slot(base[k], "order_by") THEN Ordering ELSE << >>]
Statement ==
  [outcome |-> "ok", values |-> FlattenSeq(AllStand), keys |-> FlattenSeq(AllSort)]

(* What can be wrong, in the order compose() looks for it.                 *)
Fault(holds, name) == [holds |-> holds, name |-> name]
Faults == <<
  Fault(~Numbered /\ BaseNumbers # {}, "UnsupportedPlaceholder"),
  Fault(References # bound, "BindMismatch"),
  Fault(order_by # << >> /\ cursor.keys # << >> /\ Pushed # cursor.keys, "CursorMismatch"),
  Fault(cursor.keys # << >> /\ ~cursor.set, "Panic"),
  Fault(HasConditions /\ ~HasSlot("where"), "MissingWhereSlot"),
  Fault(Pushed # << >> /\ ~HasSlot("order_by"), "MissingOrderBySlot") >>

Found   == {f \in DOMAIN Faults : Faults[f].holds}
Verdict == IF Found = {} THEN Statement ELSE [outcome |-> Faults[Min(Found)].name]

(* Nothing is promised where a dialect with numbers meets a base query     *)
(* that names a $0, nor of a statement that was pushed a clause which does *)
(* not name each of its values, the last one included, and no other.       *)
WellNumbered(c) ==
  LET names == {c.text[k].number : k \in {j \in DOMAIN c.text : c.text[j].kind = "number"}}
  IN  /\ names \subseteq 1..c.bound /\ Max(names \cup {0}) = c.bound
      /\ Numbered \/ \A k \in DOMAIN c.text : c.text[k].kind # "question"

Compose ==
  /\ Pending
  /\ IF /\ Numbered => 0 \notin BaseNumbers
        /\ \A a \in DOMAIN clauses : WellNumbered(clauses[a])
     THEN result' = Verdict
     ELSE result'.outcome # "pending"
  /\ UNCHANGED <<base, bound, clauses, order_by, cursor>>

Next == Bind \/ WithCursor \/ PushWhere \/ PushOrderBy \/ Compose
Spec == Init /\ [][Next]_vars
=============================================================================
