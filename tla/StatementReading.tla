--------------------------- MODULE StatementReading ---------------------------
(***************************************************************************)
(* compose() reads a text twice.  Before splicing, each part is read on    *)
(* its own: the base query by its dialect's rules, to find its             *)
(* placeholders and its slot (composer.rs:252), a fragment by the          *)
(* standard's, to shift its placeholders (where.rs:131).  The finished     *)
(* statement is then read whole, by the dialect's rules, to check the      *)
(* numbering and to render it (composer.rs:339, 368).                      *)
(*                                                                         *)
(* Here the two readings go over a statement side by side: base query up   *)
(* to a where slot, fragment, rest of the base query.                      *)
(***************************************************************************)
EXTENDS QueryLexer

CONSTANTS
  Syntaxes,   \* dialects: records of Quoting's flags
  Befores,    \* base queries up to a where slot, as lexemes
  Afters,     \* base queries after it
  Fragments   \* the texts of WHERE clauses

ASSUME ReadingAssumption ==
  /\ Syntaxes \subseteq {Postgres, MySql, Sqlite}
  /\ Befores \subseteq Seq(Lexemes) /\ Afters \subseteq Seq(Lexemes)
  /\ Fragments \subseteq Seq(Lexemes)

VARIABLES
  syntax,     \* the dialect
  before, fragment, after,
  part,       \* the part the readers are in: its name, or "done"
  pos,        \* the next lexeme of that part
  whole,      \* the mode of the reading of the whole statement
  base,       \* the mode of the base query's own reading
  alone,      \* the mode of the fragment's own reading
  misread     \* history: the lexemes reported by one reading and not the other

texts == <<syntax, before, fragment, after>>
vars  == <<syntax, before, fragment, after, part, pos, whole, base, alone, misread>>

Init ==
  /\ syntax \in Syntaxes
  /\ before \in Befores /\ fragment \in Fragments /\ after \in Afters
  /\ part = "before" /\ pos = 1
  /\ whole = Code /\ base = Code /\ alone = Code
  /\ misread = {}

Differs(own, x) == IF Reports(own, x) = Reports(whole, x) THEN {} ELSE {<<part, pos>>}

ReadBase(text) ==
  /\ pos <= Len(text)
  /\ whole' = Step(syntax, whole, text[pos]) /\ base' = Step(syntax, base, text[pos])
  /\ misread' = misread \cup Differs(base, text[pos])
  /\ pos' = pos + 1
  /\ UNCHANGED <<texts, part, alone>>

ReadBefore == part = "before" /\ ReadBase(before)
ReadAfter  == part = "after" /\ ReadBase(after)

ReadFragment ==
  /\ part = "fragment" /\ pos <= Len(fragment)
  /\ whole' = Step(syntax, whole, fragment[pos])
  /\ alone' = Step(Standard, alone, fragment[pos])
  /\ misread' = misread \cup Differs(alone, fragment[pos])
  /\ pos' = pos + 1
  /\ UNCHANGED <<texts, part, base>>

Enter(next) == part' = next /\ pos' = 1

(* A slot the base query's reading reports is replaced by the fragment,    *)
(* between parentheses and with the connective behind it ...               *)
AnySlot == TRUE                                        \* mutant: in literals and comments too
SlotFound == Reports(base, Lexeme("slot", 0))

Splice ==
  /\ part = "before" /\ pos > Len(before) /\ SlotFound
  /\ whole' = Step(syntax, whole, Text)
  /\ Enter("fragment")
  /\ UNCHANGED <<texts, base, alone, misread>>

LeaveFragment ==
  /\ part = "fragment" /\ pos > Len(fragment)
  /\ whole' = Step(syntax, whole, Text)
  /\ Enter("after")
  /\ UNCHANGED <<texts, base, alone, misread>>

(* ... and one in a literal or a comment is not a slot: MissingSlot.       *)
NoSlot ==
  /\ part = "before" /\ pos > Len(before) /\ ~SlotFound
  /\ Enter("done")
  /\ UNCHANGED <<texts, whole, base, alone, misread>>

Finish ==
  /\ part = "after" /\ pos > Len(after)
  /\ Enter("done")
  /\ UNCHANGED <<texts, whole, base, alone, misread>>

Next == ReadBefore \/ Splice \/ NoSlot \/ ReadFragment \/ LeaveFragment \/ ReadAfter \/ Finish
Spec == Init /\ [][Next]_vars
-----------------------------------------------------------------------------
(* Properties.                                                             *)

Modes == [kind : Quotes \cup {"code", "bracket", "dashes", "open", "tag"}, n : Nat]

(* Type correctness: every reading is inside of something it can be in.    *)
TypeOK ==
  /\ syntax \in Syntaxes
  /\ before \in Befores /\ fragment \in Fragments /\ after \in Afters
  /\ part \in {"before", "fragment", "after", "done"} /\ pos \in Nat \ {0}
  /\ whole \in Modes /\ base \in Modes /\ alone \in Modes
  /\ misread \subseteq {"before", "fragment", "after"} \X Nat

(* A spelling the dialect has and the standard has not.                    *)
OnlyInDialect(k) ==
  \/ fragment[k].kind \in Openers(syntax) \ Openers(Standard)
  \/ fragment[k].kind = "backslash" /\ syntax.backslash

(* A comment opened, or a slot, before an earlier comment is closed.       *)
InOpenComment(k) ==
  \E j \in 1..(k - 1) :
    /\ fragment[j].kind = "open"
    /\ \A l \in (j + 1)..(k - 1) : fragment[l].kind # "close"
NestsHere(k) == syntax.nested /\ fragment[k].kind \in {"open", "slot"} /\ InOpenComment(k)

Plain == \A k \in DOMAIN fragment : ~OnlyInDialect(k) /\ ~NestsHere(k)

(* A fragment in plain spelling, which closes what it opens, leaves every  *)
(* reading as it was: the placeholders and slots compose() counts, shifts  *)
(* and renders in the whole statement are those its parts were read to     *)
(* have, whichever dialect reads them and whatever surrounds the slot.     *)
ReadsAsWritten ==
  Plain /\ (part \in {"after", "done"} => alone = Code) => misread = {}

-----------------------------------------------------------------------------
(* The inductive strengthening of ReadsAsWritten: the readings that report *)
(* a part are inside of the same thing, a comment the fragment's reading   *)
(* is in was opened there, and the slot was met in code.                   *)
StandardModes ==
  {Mode(kind, 0) : kind \in {"code", "string", "identifier", "dashes"}} \cup {Mode("open", 1)}

InStep ==
  /\ part = "before" => whole = base /\ alone = Code
  /\ part = "fragment" => base = Code
  /\ part = "fragment" /\ Plain => whole = alone
  /\ part = "fragment" /\ alone.kind = "open" => InOpenComment(pos)
  /\ part \in {"after", "done"} /\ Plain /\ alone = Code => whole = base

Lockstep == TypeOK /\ alone \in StandardModes /\ InStep /\ ReadsAsWritten
=============================================================================
