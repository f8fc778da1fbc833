---------------------------- MODULE QueryComposer ----------------------------
(***************************************************************************)
(* QueryComposer (composer.rs): a builder takes a base query's arguments,  *)
(* WHERE clauses, orderings and a cursor in any order; compose() consumes  *)
(* it and splices them into one statement, or returns the first error met. *)
(*                                                                         *)
(* compose() is a pipeline that reads the builder's fields and never       *)
(* writes them; each of its loops is one step per iteration here, so every *)
(* early return keeps its place and every prefix of a loop is a state.     *)
(***************************************************************************)
EXTENDS WhereClause

CONSTANTS
  Numbered,      \* QuerySyntax::placeholder.is_number(): PostgreSQL, or a ?-style dialect
  Bases,         \* base queries: sequences of $N, ?, text and slot tokens
  Clauses,       \* WHERE clauses a caller may push, as their authors write them
  Keys,          \* sort keys: a column and a direction, which compose() only compares
  Orders,        \* orderings a caller may push: sequences of keys
  Cursors,       \* cursors a caller may set: [keys, set]
  MaxArguments,  \* bound on bind/bind_value calls
  MaxWheres,     \* bound on authored clauses
  MaxOrders      \* bound on push_order_by calls

BaseTokens == ClauseTokens \cup [kind : {"slot"}, number : {0}, name : STRING]

(* What Rust's types and the scanner guarantee of a caller's inputs.       *)
ASSUME InputsAssumption ==
  /\ Numbered \in BOOLEAN
  /\ Bases \subseteq Seq(BaseTokens)
  /\ Clauses \subseteq [text : ClauseTexts, bound : Nat]
  /\ Orders \subseteq Seq(Keys)
  /\ Cursors \subseteq [keys : Seq(Keys), set : BOOLEAN]
  /\ MaxArguments \in Nat /\ MaxWheres \in Nat /\ MaxOrders \in Nat

VARIABLES
  base,       \* QueryComposer::sql, scanned
  arguments,  \* QueryComposer::arguments: [opaque, means]
  where_by,   \* QueryComposer::where_by: fragments
  order_by,   \* QueryComposer::order_by: sequences of keys
  cursor,     \* QueryComposer::cursor: NoCursor, or keys with or without values
  authored,   \* history: the clauses behind where_by, as written
  pc,         \* which part of compose() runs next
  i,          \* the running loop's next index
  ordering,   \* compose_order_by's accumulator, then its result
  boundary,   \* Cursor::to_where_clause's text so far
  acc,        \* compose_where's accumulator, then its result
  out,        \* compose()'s `sql`: the numbered statement so far
  question,   \* compose()'s `question`: base ?s numbered so far
  spliced,    \* slot names met: spliced_where, spliced_order_by
  taken,      \* render's pool: the indices left None by slot.take()
  marks,      \* the rendered text's ?s: what each was written for
  rendered,   \* QueryStatement::arguments
  outcome     \* compose()'s result

builder  == <<base, arguments, where_by, order_by, cursor, authored>>
pipeline == <<i, ordering, boundary, acc, out, question, spliced, taken, marks, rendered>>
vars     == <<base, arguments, where_by, order_by, cursor, authored, pc, i, ordering,
              boundary, acc, out, question, spliced, taken, marks, rendered, outcome>>

Author0      == 0    \* the base query's author
AuthorCursor == 1    \* the cursor; pushed clauses are authors 2, 3, ...
NoCursor     == [keys |-> << >>, set |-> FALSE]

-----------------------------------------------------------------------------
(* The builder.                                                            *)

Init ==
  /\ base \in Bases
  /\ arguments = << >> /\ where_by = << >> /\ order_by = << >>
  /\ cursor = NoCursor /\ authored = << >>
  /\ pc = "build" /\ i = 1
  /\ ordering = << >> /\ boundary = << >> /\ acc = EmptyClause
  /\ out = << >> /\ question = 0 /\ spliced = {}
  /\ taken = {} /\ marks = << >> /\ rendered = << >>
  /\ outcome = "pending"

PushArgument(opaque) ==
  /\ pc = "build" /\ Len(arguments) < MaxArguments
  /\ arguments' = Append(arguments,
                    [opaque |-> opaque, means |-> <<Author0, Len(arguments) + 1>>])
  /\ UNCHANGED <<base, where_by, order_by, cursor, authored, pc, pipeline, outcome>>

Bind      == PushArgument(TRUE)
BindValue == PushArgument(FALSE)

(* A second cursor replaces the first; the empty one is no cursor.         *)
WithCursor(c) ==
  /\ pc = "build"
  /\ cursor' = IF c.keys = << >> THEN NoCursor ELSE c
  /\ UNCHANGED <<base, arguments, where_by, order_by, authored, pc, pipeline, outcome>>

PushWhere(c) ==
  /\ pc = "build" /\ Len(authored) < MaxWheres
  /\ authored' = Append(authored, c)
  /\ where_by' = Append(where_by, Author(c, Len(authored) + 2))
  /\ UNCHANGED <<base, arguments, order_by, cursor, pc, pipeline, outcome>>

(* push_where(c.or(d)): the caller combines two clauses before pushing.    *)
PushEither(c, d) ==
  /\ pc = "build" /\ Len(authored) + 1 < MaxWheres
  /\ authored' = authored \o <<c, d>>
  /\ where_by' = Append(where_by, Combine(Author(c, Len(authored) + 2),
                                          Author(d, Len(authored) + 3)))
  /\ UNCHANGED <<base, arguments, order_by, cursor, pc, pipeline, outcome>>

PushOrderBy(o) ==
  /\ pc = "build" /\ Len(order_by) < MaxOrders
  /\ order_by' = Append(order_by, o)
  /\ UNCHANGED <<base, arguments, where_by, cursor, authored, pc, pipeline, outcome>>

Compose ==
  /\ pc = "build"
  /\ pc' = "base"
  /\ UNCHANGED <<builder, pipeline, outcome>>

Build ==
  \/ Bind
  \/ BindValue
  \/ \E c \in Cursors : WithCursor(c)
  \/ \E c \in Clauses : PushWhere(c)
  \/ \E c, d \in Clauses : PushEither(c, d)
  \/ \E o \in Orders : PushOrderBy(o)
  \/ Compose

-----------------------------------------------------------------------------
(* compose().                                                              *)

(* Every return: the builder is consumed and the outcome is final.         *)
ReturnNothing(result) == pc' = "done" /\ UNCHANGED outcome  \* mutant: the result is lost
Return(result) == pc' = "done" /\ outcome' = result

Fail(error) ==
  /\ Return(error)
  /\ UNCHANGED <<builder, pipeline>>

Placeholders == CountPlaceholders(base, Numbered)

UnsupportedBase == ~Numbered /\ Numbers(base) # {}

RejectUnsupported == pc = "base" /\ UnsupportedBase /\ Fail("UnsupportedPlaceholder")

RejectBase ==
  /\ pc = "base" /\ ~UnsupportedBase /\ Placeholders # Len(arguments)
  /\ Fail("BindMismatch")

AcceptBase ==
  /\ pc = "base" /\ ~UnsupportedBase /\ Placeholders = Len(arguments)
  /\ pc' = "order" /\ i' = 1
  /\ UNCHANGED <<builder, ordering, boundary, acc, out, question, spliced, taken,
                 marks, rendered, outcome>>

(* compose_order_by: reduce(OrderByClause::then), one push at a time.      *)
ThenOrderBy ==
  /\ pc = "order" /\ i <= Len(order_by)
  /\ ordering' = ordering \o order_by[i] /\ i' = i + 1
  /\ UNCHANGED <<builder, pc, boundary, acc, out, question, spliced, taken,
                 marks, rendered, outcome>>

(* Some(cursor), Some(order_by): the two have to name the same ordering.   *)
OrderingUnchecked ==                                   \* mutant: a prefix will do
  order_by # << >> /\ cursor.keys # << >> /\ Len(cursor.keys) > Len(ordering)
OrderingDisagrees ==
  order_by # << >> /\ cursor.keys # << >> /\ cursor.keys # ordering

RejectCursor ==
  /\ pc = "order" /\ i > Len(order_by) /\ OrderingDisagrees
  /\ Fail("CursorMismatch")

AcceptOrdering ==
  /\ pc = "order" /\ i > Len(order_by) /\ ~OrderingDisagrees
  /\ ordering' = IF order_by = << >> THEN cursor.keys ELSE ordering
  /\ pc' = "where" /\ i' = 1
  /\ UNCHANGED <<builder, boundary, acc, out, question, spliced, taken, marks,
                 rendered, outcome>>

(* compose_where: reduce(WhereClause::and) over the pushed clauses ...     *)
AndClause ==
  /\ pc = "where" /\ i <= Len(where_by)
  /\ acc' = Combine(acc, where_by[i]) /\ i' = i + 1
  /\ UNCHANGED <<builder, pc, ordering, boundary, out, question, spliced, taken,
                 marks, rendered, outcome>>

(* ... then the cursor's clause.  Branch b of its OR equates the keys      *)
(* before b and passes key b, so it refers to values 1..b.                 *)
BranchSkewed(b) ==                                     \* mutant: the last key's number is off
  [j \in 1..b |-> Token("number", IF j = b /\ b > 1 THEN j - 1 ELSE j, <<AuthorCursor, j>>)]
Branch(b) == [j \in 1..b |-> Token("number", j, <<AuthorCursor, j>>)]

BoundaryBranch ==
  /\ pc = "where" /\ i > Len(where_by) /\ i <= Len(where_by) + Len(cursor.keys)
  /\ boundary' = boundary \o Branch(i - Len(where_by)) /\ i' = i + 1
  /\ UNCHANGED <<builder, pc, ordering, acc, out, question, spliced, taken, marks,
                 rendered, outcome>>

WheresRead == pc = "where" /\ i > Len(where_by) + Len(cursor.keys)

(* to_where_clause's expect() on a key without a value.                    *)
PanicOnUnsetCursor ==
  /\ WheresRead /\ cursor.keys # << >> /\ ~cursor.set
  /\ Fail("Panic")

CursorClause ==
  Fragment(boundary, [j \in 1..Len(cursor.keys) |-> <<AuthorCursor, j>>])

FinishWhere ==
  /\ WheresRead /\ (cursor.keys = << >> \/ cursor.set)
  /\ acc' = Shift(Combine(acc, CursorClause), Placeholders)
  /\ pc' = "splice" /\ i' = 1
  /\ UNCHANGED <<builder, ordering, boundary, out, question, spliced, taken, marks,
                 rendered, outcome>>
-----------------------------------------------------------------------------
(* The loop over the base query's tokens.                                  *)

OrderingText == [k \in DOMAIN ordering |-> Token("key", 0, ordering[k])]

IsSlot(t) == t.kind = "slot"

Spliced(name) ==
  CASE name = "where"    -> acc.sql
    [] name = "order_by" -> OrderingText
    [] OTHER             -> << >>

(* A slot, whose name is either known or drops it.  The connective that    *)
(* follows the name is kept or dropped with the fragment.                  *)
SpliceSlot ==
  /\ pc = "splice" /\ i <= Len(base) /\ IsSlot(base[i])
  /\ out' = out \o Spliced(base[i].name)
  /\ spliced' = spliced \cup ({base[i].name} \cap {"where", "order_by"})
  /\ i' = i + 1
  /\ UNCHANGED <<builder, pc, ordering, boundary, acc, question, taken, marks,
                 rendered, outcome>>

(* A ? of a ?-style dialect is numbered in textual order.                  *)
SameQuestion == 1                                      \* mutant: the counter stands still
QuestionNumber == question + 1

NumberQuestion ==
  /\ pc = "splice" /\ i <= Len(base) /\ ~Numbered /\ IsQuestion(base[i])
  /\ question' = QuestionNumber
  /\ out' = Append(out, Token("number", QuestionNumber,
                              <<Author0, Cardinality(QuestionsUpTo(base, i))>>))
  /\ i' = i + 1
  /\ UNCHANGED <<builder, pc, ordering, boundary, acc, spliced, taken, marks,
                 rendered, outcome>>

(* The rest is left alone: text, $N, and PostgreSQL's ? operator.          *)
CopyToken ==
  /\ pc = "splice" /\ i <= Len(base) /\ ~IsSlot(base[i])
  /\ Numbered \/ ~IsQuestion(base[i])
  /\ out' = Append(out, Token(base[i].kind, base[i].number, <<Author0, base[i].number>>))
  /\ i' = i + 1
  /\ UNCHANGED <<builder, pc, ordering, boundary, acc, question, spliced, taken, marks,
                 rendered, outcome>>

-----------------------------------------------------------------------------
(* The checks over the whole statement.                                    *)

BaseScanned == pc = "splice" /\ i > Len(base)

WhereNeverMissing == FALSE                             \* mutant: the check is gone
WhereHasNoSlot == ~IsEmpty(acc) /\ "where" \notin spliced

(* Only for an ordering the caller pushed: a cursor's own is already what  *)
(* a statically sorted base query sorts by.                                *)
OrderByHasNoSlot ==
  ordering # << >> /\ order_by # << >> /\ "order_by" \notin spliced

RejectMissingWhere ==
  BaseScanned /\ WhereHasNoSlot /\ Fail("MissingWhereSlot")

RejectMissingOrderBy ==
  BaseScanned /\ ~WhereHasNoSlot /\ OrderByHasNoSlot /\ Fail("MissingOrderBySlot")

SlotsFound == BaseScanned /\ ~WhereHasNoSlot /\ ~OrderByHasNoSlot

(* `arguments`, extended by the fragments' values.                         *)
FromValues(values) == [j \in DOMAIN values |-> [opaque |-> FALSE, means |-> values[j]]]
ValuesFirst == FromValues(acc.values) \o arguments       \* mutant: swapped order
Pool == arguments \o FromValues(acc.values)

(* A fragment whose numbering does not match its values, caught again over *)
(* the whole statement.                                                    *)
StatementMismatch == MaxPlaceholderNumber(out) # Len(Pool)

RejectStatement ==
  /\ SlotsFound /\ StatementMismatch
  /\ Fail("BindMismatch")

FinishNumbered ==
  /\ SlotsFound /\ ~StatementMismatch /\ Numbered
  /\ rendered' = Pool
  /\ Return("ok")
  /\ UNCHANGED <<builder, i, ordering, boundary, acc, out, question, spliced, taken, marks>>

-----------------------------------------------------------------------------
(* render_question_placeholders: the numbering is turned back into ?s.     *)

StartRender ==
  /\ SlotsFound /\ ~StatementMismatch /\ ~Numbered
  /\ pc' = "render" /\ i' = 1
  /\ UNCHANGED <<builder, ordering, boundary, acc, out, question, spliced, taken,
                 marks, rendered, outcome>>

(* pool.get_mut(number - 1) finds an argument nobody took.                 *)
EverAvailable(n) == n \in 1..Len(Pool)                  \* mutant: nothing is taken
Available(n) == n \in 1..Len(Pool) /\ n \notin taken

(* A scalar goes back into the pool; an opaque bind cannot be cloned.      *)
RenderReference ==
  /\ pc = "render" /\ i <= Len(out) /\ IsNumber(out[i]) /\ Available(out[i].number)
  /\ rendered' = Append(rendered, Pool[out[i].number])
  /\ taken' = IF Pool[out[i].number].opaque THEN taken \cup {out[i].number} ELSE taken
  /\ marks' = Append(marks, out[i].means)
  /\ i' = i + 1
  /\ UNCHANGED <<builder, pc, ordering, boundary, acc, out, question, spliced, outcome>>

RejectReference ==
  /\ pc = "render" /\ i <= Len(out) /\ IsNumber(out[i]) /\ ~Available(out[i].number)
  /\ Fail("BindMismatch")

(* Everything else is copied, a raw ? of a fragment with it.               *)
CopyRendered ==
  /\ pc = "render" /\ i <= Len(out) /\ ~IsNumber(out[i])
  /\ marks' = IF IsQuestion(out[i]) THEN Append(marks, out[i].means) ELSE marks
  /\ i' = i + 1
  /\ UNCHANGED <<builder, pc, ordering, boundary, acc, out, question, spliced, taken,
                 rendered, outcome>>

FinishRender ==
  /\ pc = "render" /\ i > Len(out)
  /\ Return("ok")
  /\ UNCHANGED <<builder, pipeline>>

Composing ==
  \/ RejectUnsupported \/ RejectBase \/ AcceptBase
  \/ ThenOrderBy \/ RejectCursor \/ AcceptOrdering
  \/ AndClause \/ BoundaryBranch \/ PanicOnUnsetCursor \/ FinishWhere
  \/ SpliceSlot \/ NumberQuestion \/ CopyToken
  \/ RejectMissingWhere \/ RejectMissingOrderBy \/ RejectStatement \/ FinishNumbered
  \/ StartRender \/ RenderReference \/ RejectReference \/ CopyRendered \/ FinishRender

Next == Build \/ Composing

Spec == Init /\ [][Next]_vars
-----------------------------------------------------------------------------
(* Properties.                                                             *)

KeyTokens == [kind : {"key"}, number : {0}, means : Keys]
Text      == Seq(Tokens(Values) \cup KeyTokens)
Arguments == Seq([opaque : BOOLEAN, means : Values])

Phases   == {"build", "base", "order", "where", "splice", "render", "done"}
Errors   == {"UnsupportedPlaceholder", "BindMismatch", "CursorMismatch",
             "MissingWhereSlot", "MissingOrderBySlot", "Panic"}

(* Type correctness; a result is known exactly when compose has returned.  *)
TypeOK ==
  /\ base \in Bases
  /\ arguments \in Arguments
  /\ where_by \in Seq(Fragments)
  /\ order_by \in Seq(Seq(Keys))
  /\ cursor \in Cursors \cup {NoCursor}
  /\ authored \in Seq(Clauses)
  /\ pc \in Phases
  /\ i \in Nat \ {0}
  /\ ordering \in Seq(Keys)
  /\ boundary \in Seq(Tokens(Values))
  /\ acc \in Fragments
  /\ out \in Text
  /\ question \in Nat
  /\ spliced \subseteq {"where", "order_by"}
  /\ taken \subseteq Nat
  /\ marks \in Seq(Values)
  /\ rendered \in Arguments
  /\ outcome \in Errors \cup {"pending", "ok"}
  /\ (pc = "done") <=> (outcome # "pending")

(* The numbering every author is responsible for: $1 and up in the base    *)
(* query, and clauses whose numbers and values correspond.                 *)
WellFormed ==
  /\ \A k \in DOMAIN base : IsNumber(base[k]) => base[k].number > 0
  /\ \A a \in DOMAIN authored : WellFormedClause(authored[a], Numbered)

(* Every placeholder of a composed statement is bound to the value its     *)
(* author wrote it for, whatever was combined, shifted, spliced ahead of   *)
(* it or rendered back to ?: by number where placeholders are numbered, by *)
(* position where they are not.                                            *)
BindFidelity ==
  outcome = "ok" /\ WellFormed =>
    IF Numbered
    THEN \A k \in DOMAIN out :
           IsNumber(out[k]) =>
             /\ out[k].number \in DOMAIN rendered
             /\ rendered[out[k].number].means = out[k].means
    ELSE /\ Len(marks) = Len(rendered)
         /\ \A k \in DOMAIN marks : rendered[k].means = marks[k]

(* The tokens of the statement that author a wrote, and the base's slots.  *)
WrittenBy(a) == {k \in DOMAIN out : out[k].kind # "key" /\ out[k].means[1] = a}
Slots(name)  == {k \in DOMAIN base : IsSlot(base[k]) /\ base[k].name = name}

(* compose never drops or repeats a condition: every pushed clause, and    *)
(* the cursor's, stands whole in every where slot of the statement, and    *)
(* there is one -- even when clauses are empty, combined by the caller, or *)
(* misnumbered.                                                            *)
ConditionsInEverySlot ==
  outcome = "ok" =>
    /\ cursor.keys # << >> \/ (\E a \in DOMAIN authored : authored[a].text # << >>) =>
         Slots("where") # {}
    /\ \A a \in DOMAIN authored :
         Cardinality(WrittenBy(a + 1)) =
           Len(authored[a].text) * Cardinality(Slots("where"))
    /\ LET n == Len(cursor.keys)
       IN  2 * Cardinality(WrittenBy(AuthorCursor)) =
             n * (n + 1) * Cardinality(Slots("where"))

(* A statement paged by a cursor is sorted as the cursor was cut: whatever *)
(* ordering the caller pushes, the one spliced is the cursor's, once per   *)
(* order_by slot and never with extra tie-breakers.  The statement's key   *)
(* in place c * n + j is the j-th of the cursor's n.                       *)
KeysUpTo(k) == {j \in 1..k : out[j].kind = "key"}
SpliceCursorOrdering ==
  outcome = "ok" /\ cursor.keys # << >> =>
    LET n     == Len(cursor.keys)
        slots == Cardinality(Slots("order_by"))
    IN  /\ Cardinality(KeysUpTo(Len(out))) = slots * n
        /\ \A k \in KeysUpTo(Len(out)) : \E c \in 0..slots, j \in 1..n :
             Cardinality(KeysUpTo(k)) = c * n + j /\ out[k].means = cursor.keys[j]

(* Rendering to ? copies scalars but never an opaque bind: each argument   *)
(* of the base query reaches the driver exactly once.                      *)
BaseArgumentsOnce ==
  outcome = "ok" /\ ~Numbered /\ WellFormed =>
    \A a \in DOMAIN arguments :
      Cardinality({k \in DOMAIN rendered : rendered[k].means = <<Author0, a>>}) = 1

(* An opaque bind reaches the driver at most once, whatever the numbering  *)
(* of a fragment refers to: it cannot be cloned.                           *)
OpaqueBoundOnce ==
  ~Numbered =>
    \A a \in DOMAIN arguments :
      arguments[a].opaque =>
        Cardinality({k \in DOMAIN rendered : rendered[k].means = <<Author0, a>>}) <= 1

(* A query whose parts fit always composes: with matching arguments, an    *)
(* agreeing ordering, a positioned cursor and slots for what was pushed,   *)
(* none of compose's later checks can fail.                                *)
NoSpuriousError ==
  /\ pc = "done" /\ WellFormed
  /\ ~UnsupportedBase /\ Placeholders = Len(arguments)
  /\ ~OrderingDisagrees
  /\ cursor.keys # << >> => cursor.set
  /\ Slots("where") # {} /\ Slots("order_by") # {}
  => outcome = "ok"
-----------------------------------------------------------------------------
(* The inductive strengthening of BindFidelity.                            *)

NoQuestions(sql) == ~Numbered => QuestionFree(sql)

(* Every number of the text is the index of the argument it is meant for.  *)
Resolves(sql) ==
  \A k \in DOMAIN sql :
    IsNumber(sql[k]) =>
      /\ sql[k].number \in DOMAIN Pool
      /\ Pool[sql[k].number].means = sql[k].means

(* The cursor's branches written so far.                                   *)
Branches == IF pc = "where" /\ i > Len(where_by) THEN i - 1 - Len(where_by) ELSE 0

ArgumentsOk == \A j \in DOMAIN arguments : arguments[j].means = <<Author0, j>>

Gathering == pc \in {"build", "base", "order", "where"}
Splicing  == pc \in {"splice", "render"} \/ outcome = "ok"

BoundaryOk ==
  /\ Branches <= Len(cursor.keys)
  /\ Branches = 0 => boundary = << >>
  /\ \A k \in DOMAIN boundary :
       /\ IsNumber(boundary[k])
       /\ boundary[k].number \in 1..Branches
       /\ boundary[k].means = <<AuthorCursor, boundary[k].number>>
  /\ Branches > 0 => \E k \in DOMAIN boundary : boundary[k].number = Branches

GatheringOk ==
  /\ \A w \in DOMAIN where_by : FragmentOk(where_by[w]) /\ NoQuestions(where_by[w].sql)
  /\ Gathering =>
       /\ FragmentOk(acc) /\ NoQuestions(acc.sql)
       /\ BoundaryOk
       /\ out = << >> /\ marks = << >> /\ rendered = << >> /\ question = 0

BaseOk ==
  pc \in {"order", "where", "splice", "render"} \/ outcome = "ok" =>
    ~UnsupportedBase /\ Placeholders = Len(arguments)

SplicingOk ==
  Splicing =>
    /\ pc = "render" => ~Numbered
    /\ Resolves(acc.sql) /\ NoQuestions(acc.sql)
    /\ Resolves(out) /\ NoQuestions(out)
    /\ pc = "splice" /\ ~Numbered => question = Cardinality(QuestionsUpTo(base, i - 1))
    /\ pc = "splice" => marks = << >> /\ rendered = << >>
    /\ outcome = "ok" /\ Numbered => rendered = Pool
    /\ ~Numbered =>
         /\ Len(marks) = Len(rendered)
         /\ \A k \in DOMAIN marks : rendered[k].means = marks[k]

IInv ==
  /\ TypeOK
  /\ ArgumentsOk
  /\ BaseOk
  /\ WellFormed => GatheringOk /\ SplicingOk
-----------------------------------------------------------------------------
(* The inductive strengthening of the properties that count: where an      *)
(* author's tokens, and the sort keys, are while compose() runs.           *)

(* How many of the first k, and of all, elements of a list are in S.       *)
CountUpTo(s, S, k) == Cardinality({j \in 1..k : s[j] \in S})
Occurrences(s, S)  == CountUpTo(s, S, Len(s))

TokensBy(a) == {t \in Tokens(Values) : t.kind # "key" /\ t.means[1] = a}
SortKeys    == {t \in Tokens(Values) \cup KeyTokens : t.kind = "key"}

(* The authors of pushed clauses, and what a text of theirs consists of.   *)
Pushers == 2..(Len(authored) + 1)
WrittenFor(sql, authors) ==
  \A k \in DOMAIN sql : sql[k].kind # "key" /\ sql[k].means[1] \in authors

Foreign(values) == \A j \in DOMAIN values : values[j][1] # Author0

(* Texts and values are signed by those who wrote them, never by the base  *)
(* query's author ...                                                      *)
FragmentsSigned ==
  \A w \in DOMAIN where_by :
    WrittenFor(where_by[w].sql, Pushers) /\ Foreign(where_by[w].values)
ClauseSigned ==
  /\ WrittenFor(acc.sql, Pushers \cup (IF Gathering THEN {} ELSE {AuthorCursor}))
  /\ Foreign(acc.values)

(* ... the cursor's clause grows by whole branches, and nothing is spliced *)
(* before every part is gathered.                                          *)
BoundarySigned ==
  /\ WrittenFor(boundary, {AuthorCursor})
  /\ Gathering => /\ Branches \in 0..Len(cursor.keys)
                  /\ 2 * Len(boundary) = Branches * (Branches + 1)
NothingSpliced ==
  /\ Gathering => out = << >> /\ spliced = {} /\ question = 0
  /\ Gathering \/ pc = "splice" => taken = {} /\ marks = << >> /\ rendered = << >>

Signed == FragmentsSigned /\ ClauseSigned /\ BoundarySigned /\ NothingSpliced

(* The slots the loop over the base query's tokens has met.                *)
Met(name) == {k \in Slots(name) : pc = "splice" => k < i}

(* The text's sort keys are those of the ordering, in order, m times.      *)
InRuns(sql, m, keys) ==
  /\ Occurrences(sql, SortKeys) = m * Len(keys)
  /\ \A k \in DOMAIN sql : sql[k] \in SortKeys =>
       \E c \in 0..m, j \in 1..Len(keys) :
         CountUpTo(sql, SortKeys, k) = c * Len(keys) + j /\ sql[k].means = keys[j]

(* The statement has the ordering once per slot met, and with a cursor the *)
(* ordering is the cursor's.                                               *)
Sorted ==
  /\ (pc = "where" \/ Splicing) /\ cursor.keys # << >> => ordering = cursor.keys
  /\ Splicing => InRuns(out, Cardinality(Met("order_by")), ordering)

(* Every clause stands whole in one fragment; once that one is read, it    *)
(* stands whole in the combined clause, and then in every slot met.        *)
CombinedIn(w) == pc = "where" /\ w < i

Whole(a, w) ==
  /\ \A v \in DOMAIN where_by :
       Occurrences(where_by[v].sql, TokensBy(a + 1)) =
         IF v = w THEN Len(authored[a].text) ELSE 0
  /\ Gathering => Occurrences(acc.sql, TokensBy(a + 1)) =
                    IF CombinedIn(w) THEN Len(authored[a].text) ELSE 0

Placed ==
  /\ \A a \in DOMAIN authored : \E w \in DOMAIN where_by : Whole(a, w)
  /\ Splicing =>
       /\ \A a \in DOMAIN authored :
            Occurrences(acc.sql, TokensBy(a + 1)) = Len(authored[a].text)
       /\ 2 * Occurrences(acc.sql, TokensBy(AuthorCursor)) =
            Len(cursor.keys) * (Len(cursor.keys) + 1)
       /\ \A a \in Pushers \cup {AuthorCursor} :
            Occurrences(out, TokensBy(a)) =
              Cardinality(Met("where")) * Occurrences(acc.sql, TokensBy(a))
       /\ spliced = {name \in {"where", "order_by"} : Met(name) # {}}
  /\ pc = "render" \/ outcome = "ok" => ~WhereHasNoSlot
-----------------------------------------------------------------------------
(* The inductive strengthening of the properties about rendering back to   *)
(* ?: the numbers of a text that stand for a value, and its arguments.     *)
References(v) == {t \in Tokens(Values) : IsNumber(t) /\ t.means = v}
BoundTo(v)    == {x \in [opaque : BOOLEAN, means : Values] : x.means = v}

Rendering == pc = "render" \/ outcome = "ok"

(* An index is left None exactly when its opaque bind has been handed on.  *)
TakenOnce ==
  /\ \A n \in taken : n \in DOMAIN arguments /\ arguments[n].opaque
  /\ ~Numbered => \A a \in DOMAIN arguments : arguments[a].opaque =>
       Occurrences(rendered, BoundTo(<<Author0, a>>)) = IF a \in taken THEN 1 ELSE 0

(* The ?s numbered so far stand for the first arguments, one for one, and  *)
(* the render loop binds one argument per number it has passed.            *)
BaseReferenced ==
  WellFormed /\ ~Numbered =>
    /\ pc = "splice" => i <= Len(base) + 1
    /\ Splicing => \A a \in DOMAIN arguments :
         Occurrences(out, References(<<Author0, a>>)) = IF a <= question THEN 1 ELSE 0
    /\ Rendering =>
         /\ question = Len(arguments)
         /\ i <= Len(out) + 1
         /\ outcome = "ok" => i = Len(out) + 1
         /\ \A a \in DOMAIN arguments :
              Occurrences(rendered, BoundTo(<<Author0, a>>)) =
                CountUpTo(out, References(<<Author0, a>>), i - 1)

(* Where the statement's arguments end, it has a number: of the clause's   *)
(* last value, or of the base query's last placeholder.                    *)
LastReferenced ==
  WellFormed /\ Splicing =>
    /\ acc.values # << >> => Len(Pool) \in Numbers(acc.sql)
    /\ Met("where") # {} => Numbers(acc.sql) \subseteq Numbers(out)
    /\ \A k \in DOMAIN base :
         IsNumber(base[k]) /\ (pc = "splice" => k < i) => base[k].number \in Numbers(out)
    /\ ~Numbered /\ question > 0 => question \in Numbers(out)
=============================================================================
