------------------------ MODULE StatementReading_proofs -----------------------
(***************************************************************************)
(* Whatever the base query, the fragment and the dialect: a plain fragment *)
(* that closes what it opens is read in the finished statement as it was   *)
(* read alone.                                                             *)
(***************************************************************************)
EXTENDS StatementReading, TLAPS

(* A syntax says yes or no to each way of quoting.                         *)
LEMMA SyntaxFlags ==
  ASSUME NEW s \in {Postgres, MySql, Sqlite, Standard}
  PROVE  /\ s.dollar \in BOOLEAN /\ s.nested \in BOOLEAN /\ s.hash \in BOOLEAN
         /\ s.backtick \in BOOLEAN /\ s.bracket \in BOOLEAN /\ s.backslash \in BOOLEAN
<1>1. CASE s = Postgres
  BY <1>1 DEF Postgres
<1>2. CASE s = MySql
  BY <1>2 DEF MySql
<1>3. CASE s = Sqlite
  BY <1>3 DEF Sqlite
<1>4. CASE s = Standard
  BY <1>4 DEF Standard
<1> QED
  BY <1>1, <1>2, <1>3, <1>4

(* Step keeps to modes.                                                    *)
LEMMA StepModes ==
  ASSUME NEW s \in {Postgres, MySql, Sqlite, Standard}, NEW m \in Modes, NEW x \in Lexemes
  PROVE  Step(s, m, x) \in Modes
<1>1. x.n \in Nat /\ m.n \in Nat /\ m.kind \in Quotes \cup {"code", "bracket", "dashes", "open", "tag"}
  BY DEF Modes, Lexemes
<1>2. Code \in Modes
  BY DEF Code, Mode, Modes
<1>3. CASE m.kind = "code"
  <2>1. ASSUME x.kind \in Openers(s)  PROVE Opened(x) \in Modes
    <3>1. x.kind \in {"string", "identifier", "dashes", "open", "backtick", "bracket", "hash", "tag"}
      BY <2>1 DEF Openers
    <3> QED
      BY <1>1, <3>1 DEF Opened, Mode, Modes, Quotes
  <2>2. Step(s, m, x) = IF x.kind \in Openers(s) THEN Opened(x) ELSE Code
    BY <1>3 DEF Step, InCode, Quotes
  <2> QED
    BY <1>2, <2>1, <2>2
<1>4. CASE m.kind \in Quotes
  <2>1. Step(s, m, x) = InQuotes(s, m, x)
    BY <1>4 DEF Step, Quotes
  <2>2. Mode(m.kind, 0) \in Modes /\ Mode(m.kind, 1) \in Modes
    BY <1>4 DEF Mode, Modes
  <2> QED
    BY <1>2, <2>1, <2>2 DEF InQuotes
<1>5. CASE m.kind = "open"
  <2>1. Step(s, m, x) = InComment(s, m, x)
    BY <1>5 DEF Step, Quotes
  <2>2. Mode("open", m.n + 1) \in Modes
    BY <1>1 DEF Mode, Modes
  <2>3. m.n > 1 => Mode("open", m.n - 1) \in Modes
    BY <1>1 DEF Mode, Modes
  <2> QED
    BY <1>2, <2>1, <2>2, <2>3 DEF InComment
<1>6. CASE m.kind \in {"bracket", "dashes", "tag"}
  <2>1. Step(s, m, x) = IF Closes(m, x) THEN Code ELSE m
    BY <1>6 DEF Step, Quotes
  <2> QED
    BY <1>2, <2>1
<1> QED
  BY <1>1, <1>3, <1>4, <1>5, <1>6

(* The standard's reader never leaves the modes every dialect has.         *)
LEMMA StandardStep ==
  ASSUME NEW m \in StandardModes, NEW x \in Lexemes
  PROVE  Step(Standard, m, x) \in StandardModes
<1>1. Openers(Standard) = {"string", "identifier", "dashes", "open"}
  BY DEF Openers, Standard
<1>2. ~Standard.backslash /\ ~Standard.nested
  BY DEF Standard
<1>3. CASE m = Code
  BY <1>1, <1>3 DEF Step, InCode, Opened, Code, Mode, Quotes, StandardModes
<1>4. CASE m = Mode("open", 1)
  BY <1>2, <1>4 DEF Step, InComment, Code, Mode, StandardModes, Quotes
<1>5. CASE m = Mode("dashes", 0)
  BY <1>5 DEF Step, Closes, Code, Mode, StandardModes, Quotes
<1>6. CASE m \in {Mode("string", 0), Mode("identifier", 0)}
  BY <1>2, <1>6 DEF Step, InQuotes, Escapes, Code, Mode, StandardModes, Quotes
<1> QED
  BY <1>3, <1>4, <1>5, <1>6 DEF StandardModes, Code

(* In those modes a dialect reads as the standard, short of the lexemes    *)
(* only it knows and of a comment within a comment.                        *)
LEMMA StepAlike ==
  ASSUME NEW s \in {Postgres, MySql, Sqlite}, NEW m \in StandardModes, NEW x \in Lexemes,
         x.kind \notin Openers(s) \ Openers(Standard),
         ~(x.kind = "backslash" /\ s.backslash),
         ~(s.nested /\ x.kind \in {"open", "slot"} /\ m.kind = "open")
  PROVE  Step(s, m, x) = Step(Standard, m, x)
<1>1. Openers(Standard) = {"string", "identifier", "dashes", "open"}
  BY DEF Openers, Standard
<1>2. Openers(Standard) \subseteq Openers(s)
  BY <1>1 DEF Openers
<1>3. ~Standard.backslash /\ ~Standard.nested
  BY DEF Standard
<1>4. CASE m = Code
  BY <1>2, <1>4 DEF Step, InCode, Code, Mode, Quotes
<1>5. CASE m = Mode("open", 1)
  <2>1. Step(s, m, x) = InComment(s, m, x) /\ Step(Standard, m, x) = InComment(Standard, m, x)
    BY <1>5 DEF Step, Mode, Quotes
  <2>2. m.kind = "open" /\ m.n = 1
    BY <1>5 DEF Mode
  <2> QED
    BY <1>3, <2>1, <2>2, SyntaxFlags DEF InComment
<1>6. CASE m = Mode("dashes", 0)
  BY <1>6 DEF Step, Mode, Quotes
<1>7. CASE m \in {Mode("string", 0), Mode("identifier", 0)}
  <2>1. Step(s, m, x) = InQuotes(s, m, x) /\ Step(Standard, m, x) = InQuotes(Standard, m, x)
    BY <1>7 DEF Step, Mode, Quotes
  <2>2. ~Escapes(s, m, x) /\ ~Escapes(Standard, m, x)
    BY <1>3 DEF Escapes
  <2> QED
    BY <2>1, <2>2 DEF InQuotes
<1> QED
  BY <1>4, <1>5, <1>6, <1>7 DEF StandardModes, Code

(* A text that means nothing to a dialect leaves it in code.               *)
LEMMA TextInCode ==
  ASSUME NEW s \in {Postgres, MySql, Sqlite}
  PROVE  Text \in Lexemes /\ Step(s, Code, Text) = Code
<1>1. Text.kind = "text" /\ Text.kind \notin Openers(s)
  BY DEF Text, Lexeme, Openers
<1>2. Text \in Lexemes
  BY DEF Text, Lexeme, Lexemes
<1> QED
  BY <1>1, <1>2 DEF Step, InCode, Code, Mode, Quotes

-----------------------------------------------------------------------------
(* An opened comment stays open past any lexeme but a close.               *)
LEMMA CommentStaysOpen ==
  ASSUME NEW k \in Nat \ {0}, InOpenComment(k), fragment[k].kind # "close"
  PROVE  InOpenComment(k + 1)
<1>1. PICK j \in 1..(k - 1) : /\ fragment[j].kind = "open"
                              /\ \A l \in (j + 1)..(k - 1) : fragment[l].kind # "close"
  BY DEF InOpenComment
<1>2. j \in 1..((k + 1) - 1) /\ \A l \in (j + 1)..((k + 1) - 1) : fragment[l].kind # "close"
  BY <1>1
<1> QED
  BY <1>1, <1>2 DEF InOpenComment

(* Behind a lexeme that opens a comment, a comment has been opened.        *)
LEMMA CommentOpens ==
  ASSUME NEW k \in Nat \ {0}, fragment[k].kind = "open"
  PROVE  InOpenComment(k + 1)
<1>1. k \in 1..((k + 1) - 1) /\ \A l \in (k + 1)..((k + 1) - 1) : fragment[l].kind # "close"
  OBVIOUS
<1> QED
  BY <1>1 DEF InOpenComment

(* The standard's reader is inside of a comment only after it was opened,  *)
(* and leaves it at a close or a slot.                                     *)
LEMMA StandardComment ==
  ASSUME NEW m \in StandardModes, NEW x \in Lexemes, Step(Standard, m, x).kind = "open"
  PROVE  \/ x.kind = "open"
         \/ m.kind = "open" /\ x.kind # "close"
<1>1. Openers(Standard) = {"string", "identifier", "dashes", "open"}
  BY DEF Openers, Standard
<1>2. ~Standard.backslash /\ ~Standard.nested
  BY DEF Standard
<1>3. CASE m = Code
  BY <1>1, <1>3 DEF Step, InCode, Opened, Code, Mode, Quotes
<1>4. CASE m = Mode("open", 1)
  BY <1>2, <1>4 DEF Step, InComment, Code, Mode, Quotes
<1>5. CASE m = Mode("dashes", 0)
  BY <1>5 DEF Step, Closes, Code, Mode, Quotes
<1>6. CASE m \in {Mode("string", 0), Mode("identifier", 0)}
  BY <1>2, <1>6 DEF Step, InQuotes, Escapes, Code, Mode, Quotes
<1> QED
  BY <1>3, <1>4, <1>5, <1>6 DEF StandardModes, Code

-----------------------------------------------------------------------------
(* Code is a mode of every dialect's reader.                               *)
LEMMA CodeModes == Code \in Modes /\ Code \in StandardModes
BY DEF Code, Mode, Modes, StandardModes

(* All readers start in code.                                              *)
LEMMA LockstepInit == Init => Lockstep
<1> SUFFICES ASSUME Init PROVE Lockstep
  OBVIOUS
<1>1. TypeOK
  BY CodeModes DEF Init, TypeOK
<1>2. InStep
  BY DEF Init, InStep
<1> QED
  BY <1>1, <1>2, CodeModes DEF Init, Lockstep, ReadsAsWritten

(* The texts never change, so neither does what is plain of them.          *)
LEMMA TextsKept ==
  ASSUME UNCHANGED texts
  PROVE  /\ Plain' = Plain
         /\ \A k : InOpenComment(k)' <=> InOpenComment(k)
BY DEF texts, Plain, OnlyInDialect, NestsHere, InOpenComment

(* Every step keeps the types.                                             *)
LEMMA TypeNext ==
  ASSUME TypeOK, Next
  PROVE  TypeOK'
<1> USE ReadingAssumption
<1>1. syntax \in {Postgres, MySql, Sqlite, Standard} /\ Standard \in {Postgres, MySql, Sqlite, Standard}
  BY DEF TypeOK
<1>2. before \in Seq(Lexemes) /\ fragment \in Seq(Lexemes) /\ after \in Seq(Lexemes)
  BY DEF TypeOK
<1>3. Step(syntax, whole, Text) \in Modes
  BY <1>1, StepModes, TextInCode DEF TypeOK
<1>4. ASSUME NEW text \in Seq(Lexemes), ReadBase(text), part # "done"
      PROVE  TypeOK'
  <2>1. pos \in 1..Len(text) /\ text[pos] \in Lexemes
    BY <1>4 DEF ReadBase, TypeOK
  <2>2. Step(syntax, whole, text[pos]) \in Modes /\ Step(syntax, base, text[pos]) \in Modes
    BY <1>1, <2>1, StepModes DEF TypeOK
  <2>3. <<part, pos>> \in {"before", "fragment", "after"} \X Nat
    BY <1>4 DEF TypeOK
  <2>4. misread' \subseteq {"before", "fragment", "after"} \X Nat
    BY <1>4, <2>3 DEF ReadBase, Differs, TypeOK
  <2> QED
    BY <1>4, <2>1, <2>2, <2>4 DEF ReadBase, texts, TypeOK
<1>5. CASE ReadBefore
  BY <1>2, <1>4, <1>5 DEF ReadBefore
<1>6. CASE ReadAfter
  BY <1>2, <1>4, <1>6 DEF ReadAfter
<1>7. CASE ReadFragment
  <2>1. pos \in 1..Len(fragment) /\ fragment[pos] \in Lexemes
    BY <1>2, <1>7 DEF ReadFragment, TypeOK
  <2>2. Step(syntax, whole, fragment[pos]) \in Modes /\ Step(Standard, alone, fragment[pos]) \in Modes
    BY <1>1, <2>1, StepModes DEF TypeOK
  <2>3. <<part, pos>> \in {"before", "fragment", "after"} \X Nat
    BY <1>7 DEF ReadFragment, TypeOK
  <2>4. misread' \subseteq {"before", "fragment", "after"} \X Nat
    BY <1>7, <2>3 DEF ReadFragment, Differs, TypeOK
  <2> QED
    BY <1>7, <2>1, <2>2, <2>4 DEF ReadFragment, texts, TypeOK
<1>8. CASE Splice \/ LeaveFragment
  BY <1>3, <1>8 DEF Splice, LeaveFragment, Enter, texts, TypeOK
<1>9. CASE NoSlot \/ Finish
  BY <1>9 DEF NoSlot, Finish, Enter, texts, TypeOK
<1> QED
  BY <1>5, <1>6, <1>7, <1>8, <1>9 DEF Next

(* Two readings in the same mode stay in it and report the same.           *)
LEMMA SameMode ==
  ASSUME NEW own, NEW x, own = whole
  PROVE  Differs(own, x) = {} /\ Step(syntax, own, x) = Step(syntax, whole, x)
BY DEF Differs

(* Lockstep is inductive.                                                  *)
LEMMA LockstepNext == Lockstep /\ [Next]_vars => Lockstep'
<1> SUFFICES ASSUME Lockstep, [Next]_vars PROVE Lockstep'
  OBVIOUS
<1> USE ReadingAssumption DEF Lockstep
<1>1. CASE UNCHANGED vars
  BY <1>1 DEF vars, TypeOK, InStep, ReadsAsWritten, Plain, OnlyInDialect, NestsHere,
              InOpenComment
<1>2. CASE Next
  <2>1. TypeOK'
    BY <1>2, TypeNext
  <2>2. syntax \in {Postgres, MySql, Sqlite} /\ fragment \in Seq(Lexemes)
    BY DEF TypeOK
  <2>3. UNCHANGED texts
    BY <1>2 DEF Next, ReadBefore, ReadAfter, ReadBase, Splice, NoSlot, ReadFragment,
                LeaveFragment, Finish
  <2>4. Plain' = Plain /\ \A k : InOpenComment(k)' <=> InOpenComment(k)
    BY <2>3, TextsKept
  <2>5. CASE ReadBefore
    <3>1. part = "before" /\ UNCHANGED <<part, alone>> /\ whole = base
      BY <2>5 DEF ReadBefore, ReadBase, InStep
    <3>2. base' = whole' /\ misread' = misread
      BY <2>5, <3>1, SameMode DEF ReadBefore, ReadBase
    <3> QED
      BY <2>1, <2>4, <3>1, <3>2 DEF InStep, ReadsAsWritten
  <2>6. CASE ReadAfter
    <3>1. part = "after" /\ UNCHANGED <<part, alone>>
      BY <2>6 DEF ReadAfter, ReadBase
    <3>2. Plain /\ alone = Code => base' = whole' /\ misread' = misread
      BY <2>6, <3>1, SameMode DEF ReadAfter, ReadBase, InStep
    <3> QED
      BY <2>1, <2>4, <3>1, <3>2 DEF InStep, ReadsAsWritten
  <2>7. CASE ReadFragment
    <3> DEFINE x == fragment[pos]
    <3>1. /\ part = "fragment" /\ UNCHANGED <<part, base>> /\ pos' = pos + 1
          /\ pos \in DOMAIN fragment /\ x \in Lexemes
          /\ whole' = Step(syntax, whole, x) /\ alone' = Step(Standard, alone, x)
          /\ misread' = misread \cup Differs(alone, x)
      BY <2>2, <2>7 DEF ReadFragment, TypeOK
    <3>2. alone' \in StandardModes
      BY <3>1, StandardStep
    <3>3. ASSUME Plain  PROVE whole' = alone' /\ misread' = misread
      <4>1. /\ x.kind \notin Openers(syntax) \ Openers(Standard)
            /\ ~(x.kind = "backslash" /\ syntax.backslash)
            /\ ~NestsHere(pos)
        BY <3>1, <3>3 DEF Plain, OnlyInDialect
      <4>2. ~(syntax.nested /\ x.kind \in {"open", "slot"} /\ alone.kind = "open")
        BY <3>1, <4>1 DEF NestsHere, InStep
      <4>3. Step(syntax, alone, x) = Step(Standard, alone, x)
        BY <2>2, <3>1, <4>1, <4>2, StepAlike
      <4>4. whole = alone
        BY <3>1, <3>3 DEF InStep
      <4> QED
        BY <3>1, <4>3, <4>4, SameMode
    <3>4. ASSUME alone'.kind = "open"  PROVE InOpenComment(pos')
      <4>1. pos \in Nat \ {0}
        BY DEF TypeOK
      <4>2. CASE x.kind = "open"
        BY <3>1, <4>1, <4>2, CommentOpens
      <4>3. CASE alone.kind = "open" /\ x.kind # "close"
        <5>1. InOpenComment(pos)
          BY <3>1, <4>3 DEF InStep
        <5> QED
          BY <3>1, <4>1, <4>3, <5>1, CommentStaysOpen
      <4> QED
        BY <3>1, <3>4, <4>2, <4>3, StandardComment
    <3>5. alone'.kind = "open" => InOpenComment(pos)'
      BY <2>3, <3>4 DEF InOpenComment, texts
    <3> HIDE DEF x
    <3> QED
      BY <2>1, <2>4, <3>1, <3>2, <3>3, <3>5 DEF InStep, ReadsAsWritten
  <2>8. CASE Splice
    <3>1. base = Code /\ whole = base /\ alone = Code
      BY <2>8 DEF Splice, SlotFound, Reports, InStep
    <3>2. part' = "fragment" /\ UNCHANGED <<base, alone, misread>> /\ whole' = Code
      BY <2>2, <2>8, <3>1, TextInCode DEF Splice, Enter
    <3>3. misread = {} \/ ~Plain
      BY <2>8 DEF Splice, ReadsAsWritten
    <3>4. Code.kind # "open"
      BY DEF Code, Mode
    <3> QED
      BY <2>1, <2>4, <3>1, <3>2, <3>3, <3>4 DEF InStep, ReadsAsWritten
  <2>9. CASE LeaveFragment
    <3>1. part = "fragment" /\ part' = "after" /\ UNCHANGED <<base, alone, misread>>
          /\ whole' = Step(syntax, whole, Text)
      BY <2>9 DEF LeaveFragment, Enter
    <3>2. Plain /\ alone = Code => whole' = Code /\ base = Code
      BY <2>2, <3>1, TextInCode DEF InStep
    <3> QED
      BY <2>1, <2>4, <3>1, <3>2 DEF InStep, ReadsAsWritten
  <2>10. CASE NoSlot \/ Finish
    <3>1. /\ part \in {"before", "after"} /\ part' = "done"
          /\ UNCHANGED <<whole, base, alone, misread>>
      BY <2>10 DEF NoSlot, Finish, Enter
    <3>2. part = "before" => whole = base /\ alone = Code
      BY DEF InStep
    <3> QED
      BY <2>1, <2>4, <3>1, <3>2 DEF InStep, ReadsAsWritten
  <2> QED
    BY <1>2, <2>5, <2>6, <2>7, <2>8, <2>9, <2>10 DEF Next
<1> QED
  BY <1>1, <1>2

(* The two readings of every part stay in step: inside of the same string, *)
(* comment or code, wherever the fragment is written in plain spelling.    *)
THEOREM LockstepHolds == Spec => []Lockstep
<1> QED
  BY LockstepInit, LockstepNext, PTL DEF Spec

(* The placeholders compose() counts, shifts and renders in a statement    *)
(* are those its parts were read to have, for texts of every length.       *)
THEOREM ReadsAsWrittenHolds == Spec => []ReadsAsWritten
<1>1. Lockstep => ReadsAsWritten
  BY DEF Lockstep
<1> QED
  BY <1>1, LockstepHolds, PTL
=============================================================================
