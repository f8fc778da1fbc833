# A specification of sqlx-query

TLA+ models of `sqlx-query` and `sqlx-query-cel`, TLC configurations that check
them on small instances, and TLAPS proofs of what matters most for every
instance. Source paths below are relative to `src/crates/sqlx-query/src/`
unless they start with `cel/` (`src/crates/sqlx-query-cel/src/`).

## The system

The crates add a client's filter, sort and page to a SQL query somebody wrote.
Nothing in them is concurrent and nothing is stored: a request handler calls
them from start to end. What is hard is elsewhere:

- **Numbering.** A statement is put together from parts whose authors number
  their placeholders on their own, is shifted, spliced, and for `?`-style
  dialects rendered back into positional form. One shift off, and every value
  behind it lands in somebody else's condition.
- **Reading text twice.** A fragment is read by one dialect's rules when it is
  numbered, and by another's once it stands in the statement.
- **Order of calls.** Builder methods come in any order, any number of times.
- **Paging.** The only state between two requests is a token in the client's
  hands. Between them others write, responses get lost, sorts change, and the
  next request may go to a build with other features.
- **Types.** A boundary is read off a row without knowing its column's type, and
  bound again by what was guessed.

### Inventory

| Component | State | Operations | What makes it correct |
| --- | --- | --- | --- |
| Composer (`composer.rs`) | base query, arguments, clauses, orderings, cursor | `bind`, `bind_value`, `with_cursor`, `push_where`, `push_order_by`, `compose`, `build` | values reach the placeholders they were written for; no condition is lost; a cursor's ordering wins; errors are right and in order |
| WHERE clause (`clauses/where.rs`) | text, values | `new`, `bind_value`, `and`, `or`, `shift` | combining keeps numbers and values in step |
| Lexer (`lexer.rs`), dialects (`dialect.rs`) | none | scan, count, maximum, shift | finds the placeholders and slots the database will find |
| Cursor, pager (`clauses/pager.rs`) | keys and boundary values; page size | `new`, `parse`, `encode`, `after`, `after_row`, `to_where_clause`, `limit`, `next_page` | a traversal delivers every row once, in order, and ends |
| ORDER BY clause (`clauses/order.rs`) | keys | `parse`, `resolve`, `asc`, `desc`, `then` | only offered columns; client text is identifiers only |
| CEL filter (`cel/filter.rs`) | the parsed tree | `parse`, `resolve`, `to_where_clause` | the condition means what the filter said; only offered columns; never panics |
| Arguments, values (`argument.rs`, `value.rs`) | a value | `get_value`, `produces`, encode | an opaque bind is used once; a boundary read off a row is accepted by its column, and stands where the row stands |
| Driver glue (`build`, `bind_to`) | none | hands text and arguments to sqlx | every `?` gets the argument in its place |

They interact by plain calls and by value: a filter converts into a WHERE clause,
a parsed ordering becomes a cursor, the pager's cursor goes to the composer
(which asks it for a clause and an ordering), the fetched rows go to the pager,
whose page carries the next cursor, which goes to the client as a token and
comes back. There are no callbacks, threads, locks or timers.

`PROJECT.json` lists each hazard at its line with the properties that watch it.

## The modules

| Module | What it models |
| --- | --- |
| `WhereClause` | text as tokens, counting and shifting placeholders, `and`/`or`/`shift` |
| `QueryComposer` | the builder, and `compose()` as a pipeline: one step per loop iteration, one action per early return |
| `Composition` | the abstract specification: what `compose()` promises, with no numbering in it |
| `ComposerRefinement` | the mapping under which the composer implements `Composition` |
| `QueryLexer` | the scanner as a reader of lexemes, the four quoting tables |
| `StatementReading` | the parts' own readings beside the reading of the finished statement |
| `RowValues` | `value.rs`: reading a cell by label and candidate types, and what its value is bound as |
| `Pager` | cursors, tokens and pages, and the database's view of a boundary |
| `Traversal` | a client, handlers of several builds and concurrent writers paging through a table |
| `TableScan` | the abstract specification: what paging promises, with no tokens, boundaries or limits in it |
| `TraversalRefinement` | `Traversal`, and the mapping under which it implements `TableScan` |
| `FilterClause` | validating, renaming and rendering a CEL tree |
| `OrderByClause` | parsing and resolving an ordering |
| `SqlCondition` | external: how a database reads a condition by precedence, and a row's three-valued verdict on it |
| `StatementText` | the finished statement as text, with the parentheses and connectives `QueryComposer` leaves out, and `build()` |
| `ClientRequest` | a handler from a client's texts to the query the driver is given |
| `MC*` | constants for TLC |
| `*Claims` | what comments or the README say where the code does something else |
| `QueryComposer_proofs`, `BindFidelity_proofs`, `Placement_proofs`, `Rendering_proofs`, `ComposerRefinement_proofs`, `StatementReading_proofs`, `Traversal_proofs` | theorems, their lemmas and proofs |
| `WhereClause_proofs` | lemmas those rest on: fragments in step with their values |

How state and actions correspond to the code:

- **`QueryComposer`.** `base`, `arguments`, `where_by`, `order_by`, `cursor` are
  the struct's fields; `ordering`, `boundary`, `acc`, `out`, `question`,
  `spliced`, `taken`, `rendered` are the locals of `compose` and of the functions
  it calls. `pc` says which of them runs, `i` is the loop's index. `authored` and
  `marks`, and every token's `means`, are histories: no guard reads them.
  `means` is `<<author, n>>`, the author's own n-th value, which is what lets
  `BindFidelity` say "the value it was written for". Builder calls are
  interleaved freely until `Compose`.
- **`StatementReading`.** `base` and `alone` are the modes of the two `scan`s
  over the parts, `whole` of the one over the statement, `misread` the lexemes on
  which they disagree. A lexeme is what some dialect gives a meaning to; a
  doubled quote is two lexemes, the second of which continues the run.
- **`RowValues`.** A cell is an integer or NULL; a timestamp counts ticks, of
  which a microsecond holds `TicksPerMicro`. A build is its set of features.
  `TypeOf`, `Decodes` and `Compares` are the drivers and the database: which Rust
  types a column decodes as, and which it compares with. A UUID decodes as text
  and as bytes too and compares with neither, the case value.rs:395-397 is written
  for. `Candidates` is the code's order.
- **`Traversal`.** `Fetch` is parse, compose and query, `CutPage` and `FailPage`
  are `next_page`, `Receive` the client. `Put` and `Delete` are other
  connections, `Resort` and `Lose` and an edited token the client and its line.
  A query reads one snapshot. `build` is picked anew for every request. A token
  that was changed on the way does not parse (pager.rs:158); that a changed token
  could keep its CRC is left out.
- **`TraversalRefinement`.** A page is on offer from the moment its rows are read
  until it is received or lost; `table` and the received pages are the table and
  the pages of the scan, all the rest is invisible.
- **`ClientRequest`.** One action per call, `pc` the next one. A resolution may
  be left out or repeated, because the crates leave it to the caller. `Build` is
  `QueryComposer::new`, `push_where`, `push_order_by` if the handler wants it,
  `with_cursor` and `build`, on the whole text at once: `QueryComposer` has the
  same steps one by one. `OnlyOffered` is about the filter's clause and the client's
  ordering before the handler adds its own; `StatementOffered` about all columns of
  the finished statement, those of a token included, whose keys nobody resolves
  again. Of a handler that takes a token and pushes no ordering it says nothing: the
  statement is then sorted as the token says (composer.rs:440-447). `pushed` is the
  composer's `order_by`.
- **`StatementText` and `QueryComposer`** model `compose()` twice, on purpose. The
  one knows whom a number was written for and forgets the words between; the
  other has the words, so that the database's reading of the whole is compared
  with what each part's author wrote.

## The runs

| Run | Question | Bounds |
| --- | --- | --- |
| `compose_numbered` | PostgreSQL style: types, `BindFidelity`, `SpliceCursorOrdering`, `ConditionsInEverySlot`, `NoSpuriousError`, the inductive invariants `Sorted`, `Placed` and `PromiseKept`, refinement of `Composition` | 4 base queries, 4 clauses, 4 cursors, 3 orderings, 2 calls of each kind |
| `compose_question` | `?` style: the inductive invariants `IInv`, `TakenOnce`, `BaseReferenced`, `LastReferenced` and `PromiseKept`, `BindFidelity`, `BaseArgumentsOnce`, `OpaqueBoundOnce`, refinement | 5 base queries, 6 clauses, 2 of them misnumbered, the rest the same |
| `reading` | `Lockstep` (inductive), `ReadsAsWritten` | fragments of up to 4 lexemes, 4 openings of a base query, 3 dialects |
| `requests` | `ReadsAsMeant`, `OnlyOffered`, `StatementOffered`, `NumberedInOrder`, `NeverPanics`, `StatementReads`, `BoundarySelects` | every call over 11 leaves, a selection of filters of three levels; 3 filters with 7 orderings and 7 positions; 2 allow-lists, 5 base queries of both styles, 4 cells |
| `traverse_writes` | `OrderedOnce`, `StableRowsDelivered`, `NextPageHasRows`, types, the inductive invariants `Paged` and `Thorough`, refinement of `TableScan` | 3 orderings, one that ties; 3 rows of two dates, 2 writes, 2 faults, sizes 0 and 2, one build |
| `traverse_ends` | the same properties of the pages, `BoundaryAccepted`, `DeliveriesBounded` and `TraversalEnds` | 2 more orderings, by a column the rows do not carry and by one no `Value` holds; 1 write, 1 fault, two builds, one without libraries |
| `misnumbered_fragment`, `unset_cursor`, `traverse_null`, `truncated_boundary`, `fragment_spellings`, `parentheses` | one claim each, which the code does not keep | the smallest instance that shows it |

Why the bounds are enough to be interesting: two clauses, combined by the caller
or by the composer, two arguments and two keys are the least with which a shift
by count and a shift by maximum, a swapped order or a repeated branch differ; a
clause whose numbers run backwards and one that names a value twice are among
them, and so is a base query whose slot precedes its own placeholders. Three
rows in pages of one and two give a traversal of up to four requests with a
boundary inside of a tie; two dates, one before the epoch and both on a whole
microsecond, make the ties, and an `o.id` and a `c.id` of one label the wrong
cell to read. Two keys in opposite directions over cells of three values and
NULL have every row of `BoundarySelects` on, before and behind each boundary.
The base queries hold an `OR` ahead of the slot, a slot ahead of its own `?`s, an
unknown slot and none at all. Four lexemes are enough to open, nest, slot and
close; for more there is the proof. `MaxWrites`, `MaxFaults`, `MaxArguments`,
`MaxWheres`, `MaxOrders` and `TicksPerMicro` are the named bounds.

Deadlock is not checked anywhere: a composer is consumed by `compose()`, a
traversal stops at its last page, a reading at the end of its text, a request
when it is built or refused.

### Fairness

Only `Traversal` needs any. The composer's loops run over finite vectors, so that
`compose()` returns is no property of the models. `WF(Handle)` is the page loop
(tests/execute.rs:346-367): a client that keeps asking and a handler that
answers. A query the database refuses is no step of `Traversal`. Where two builds
serve, the fairness therefore includes that a client does not meet, for ever, only
builds whose binding of its boundary is refused. That it never stops meeting
builds which cannot read a key of its sort is not assumed away: `TraversalEnds`
excepts it. Nothing is assumed of writers or faults; they are
bounded, so `TraversalEnds` does not say that a reader outruns somebody who
inserts ahead of it forever.

### Findings

- `parentheses`: the operand of `== null`, and the left side of `in`, are
  rendered without parentheses, against cel/filter.rs:26-28. `!a == null` is
  read as `a IS NOT NULL`.
- `fragment_spellings`: dialect.rs:43-46 names only PostgreSQL spellings as the
  cost of reading fragments by the standard's rules; MySQL's and SQLite's have it
  too.
- `misnumbered_fragment`: two fragments whose miscounts cancel out pass the check
  that composer.rs:335-338 says catches them.
- `unset_cursor`: the "unreachable" panic of pager.rs:263-265 is one
  `with_cursor(Cursor::new(..))` away.
- `traverse_null`: README.md:269 offers any column a `Value` holds as a key; rows
  around a NULL are lost.
- `truncated_boundary`: execute.rs:372 has every row once. A timestamp is read as
  microseconds; SQLite may store a finer one, the boundary is then short of the
  row it was read from, and the next page begins with that row. A page of one row
  repeats for ever. `chrono` rounds down and `time` towards the epoch, so before
  1970 the latter skips rows instead.

Not counted as a finding, because no run violates it: value.rs:152-157 says the
integer stand-in of a timestamp "is never reached" in a build without a date
library. A token minted by a build that has one reaches it, as the comment on
`UuidRepr` (value.rs:188-192) says of UUIDs. In `traverse_ends` a strict database
refuses such a request and nothing is lost. A database that compares an integer
with a date anyway is left out; there the page would be wrong without an error.

## What is proved

Proofs are for every value of the constants, under each module's `ASSUME`, which
says no more than what Rust's types and the scanner guarantee of the inputs.

### The composer

Invariants are proved one on top of the other; all but `Signed`, and `Issued` and
`Versioned` of the traversal, are properties of a run as well.
`BindFidelity`, `BaseArgumentsOnce` and `NoSpuriousError` are about fragments
whose numbering is in step with their values (`WellFormed`); the others hold
whatever a fragment's numbers say.

- **`TypeCorrect`**: `Spec => []TypeOK`. One step per action; the lemmas of
  `WhereClause_proofs` give the type of a combined, shifted or authored fragment.
- **`BindFidelityHolds`** (`BindFidelity_proofs`): `Spec => []BindFidelity`.
  `BindFidelity` speaks of finished statements and is not inductive. `IInv` adds,
  under `WellFormed`, what holds half way:
  every collected fragment is in step with its values (`FragmentOk`: each number
  is the index of the value it is meant for, and the highest number is the number
  of values, which is what makes shifting by the maximum and appending by count
  the same); the boundary's numbers stay below the branch being written; after
  the shift every number of the clause resolves in the pool of all arguments;
  `question` is the number of `?`s read; and `marks` and `rendered` grow together.
  The key lemma is `CombineOk`: `Combine` keeps `FragmentOk`. It rests on the
  maximum of a text existing at all (`LeastNatural`, `ListBounded`), which is
  proved from the induction of the naturals over sets, not over an operator.
- **`SpliceCursorOrderingHolds`** (`Placement_proofs`). `SpliceCursorOrdering` is
  about a finished statement. `Sorted` says of a statement under construction
  that its sort keys are the ordering's, in order, once per `order_by` slot the
  loop has met: the k-th sort key is counted, not searched for. `Signed` says who
  wrote which token, so that a key can only come from an ordering.
- **`ConditionsInEverySlotHolds`**. `Placed` follows every pushed clause on its
  way: whole in one fragment of the builder, whole in the combined clause, whole
  in each `where` slot met, and nowhere else; the cursor's clause grows branch by
  branch to n(n+1)/2 tokens. The property counts tokens by their author, so the
  lemmas, at the end of `QueryComposer_proofs`, are about counting: a count of a
  concatenation is the sum, shifting and combining lose and repeat nobody's token.
- **`OpaqueBoundOnceHolds`** (`Rendering_proofs`), from `TakenOnce`: an index of
  the pool is empty exactly when its opaque bind has been handed on.
- **`BaseArgumentsOnceHolds`**, from `BaseReferenced`: the `?`s numbered so far
  are one for one the first arguments, and the render loop has bound one argument
  per number behind it.
- **`NoSpuriousErrorHolds`**: a query whose parts fit composes. All of the above
  meet here. `IInv` and `Signed` bound every number of the statement,
  `LastReferenced` says that the last argument has one (so the comparison of
  composer.rs:340 holds), `Placed` and `BaseReferenced` that an opaque argument is
  referenced once and `TakenOnce` that it is then still there, which leaves
  `RejectReference` without a state.
- **`ImplementsCompositionHolds`** (`ComposerRefinement_proofs`): the composer
  implements `Composition`. A builder call is a step of it, the return of
  `compose()` is its `Compose`, and everything between is a stutter. What has to be
  known at the return is `PromiseKept` (`PromiseKeptHolds`), which follows each part
  through the loops: the clauses joined so far name what their authors wrote
  (`ClausesJoined`), the branches written are the cursor's first
  (`BranchesWritten`), the orderings joined are the first pushed (`OrderingKept`),
  the statement stands for what the tokens read stand for (`StatementKept`), and the
  rendered `?`s are the numbers passed (`MarksKept`). Each says that the pipeline
  holds a leading part of a sequence `Composition` names whole, so an iteration
  appends one member to both. That a `FlattenSeq` with one more member is the
  shorter one and that member is proved from its recursive function, by the
  induction of the naturals over sets. An error is the first fault of
  `Composition`'s list: the actions test in the list's order, and the invariant
  keeps the tests that were passed true until the return. `IInv` turns the numbers
  bound into the values meant, and the invariants behind `NoSpuriousErrorHolds` rule
  out the two later errors, which `Composition` does not have.

  `Composition` promises nothing of a statement with a clause that misnumbers its
  values, which the code does not promise to detect (`misnumbered_fragment`), nor of
  a numbered dialect's base query that names `$0`, which refers to no argument and
  which the code does not look for.

### The reader

- **`LockstepHolds`**, **`ReadsAsWrittenHolds`** (`StatementReading_proofs`).
  `Lockstep` says that the two readings of the running part are in the same mode,
  that the standard's reader is inside of a comment only after the fragment opened
  one, and that a slot was met in code. `StepAlike` is the heart: away from
  spellings only one dialect has, and from a comment in a comment, every
  dialect's step is the standard's.

### The traversal

All in `Traversal_proofs`, for every table, ordering, page size, number of
builds, and for any writes and faults.

- **`TraversalTypeCorrect`**: among the types, that no token has a key without a
  value, on which the panic of pager.rs:263-265 depends.
- **`OrderedOnceHolds`**, from `Paged`: a token stands after the last row of the
  page it came with (`TokenStands`), what a handler has read lies strictly beyond
  that row in the same ordering (`RowsBeyond`), a page is a prefix of what was read
  (`PageCut`). `SelectedBeyond` is the lemma the code depends on: what the
  expanded condition of pager.rs selects is what the ordering puts behind the
  boundary. The rest is that `Precedes` is a strict weak order (`Transitive`,
  `Asymmetric`, `TieAlike`, each from the first key in which two rows differ).
- **`StableRowsDeliveredHolds`**, **`NextPageHasRowsHolds`**, from `Thorough`: a row
  nobody touched has been received, ties with the end of a page, or is not reached
  (`Accounted`), and a handler missed none of the latter but those its `LIMIT` cut
  off (`RowsComplete`). The converse lemma `BeyondSelected` needs keys that are not
  NULL.
- **`ImplementsScanHolds`**: `Traversal` implements `TableScan`, by one lemma per
  action. The delicate one is `ScanFetch`: what the `LIMIT` of one more row than the
  page returns is enough to cut the page `TableScan` offers and to know whether
  another follows.
- **`BoundaryAcceptedHolds`**, from `Issued`: every cursor was read off a row by a
  build that could. A value is bound as the first candidate type its column decodes
  as; `CandidateOrder` says that a UUID is tried before text and bytes, and text
  before bytes.
- **`DeliveriesBoundedHolds`**, from `Versioned`: a client receives no more rows
  than could be there at first and were written since. Only a write makes a row
  version, a query and a response copy them (`VersionedNext`); and no version is
  received twice (`DeliveriesDiffer`), because it would have to precede itself.
- **`PagesBoundedHolds`**: nor more pages than that and one, because every page
  another follows has a row on it. It bounds the page loop without fairness; that
  the loop is not stuck is `TraversalEnds`, which TLC checks.

Their hypotheses are named operators of `Traversal`, conditions on the constants
and not on the states:

| Hypothesis | It says | Without it |
| --- | --- | --- |
| `ExactBoundaries` | a key's own column is the first under its label, and timestamps are whole microseconds | `truncated_boundary`, a row twice |
| `SolidKeys` | orderings have a key and keys are never NULL | `traverse_null`, rows lost |
| `ComparableKeys` | what a column decodes as compares with it, but for a UUID read as text or bytes and text read as bytes; a build that reads a UUID key has the library | a refused query: true of the drivers' types that value.rs lists |

`OrderedOnce` and the bounds need the first only, the others of the scan the first two,
`BoundaryAccepted` all three. The instances of `traverse_writes` satisfy all of
them, those of `traverse_ends` too.

Proving also found `CASE`s of the model whose guards overlap, which TLC decides by
order and the logic does not: a comparison of two NULLs, a NULL timestamp, and
those of three renderers. They are `IF`s now.

### Only model-checked

- Liveness, `TraversalEnds`: out of the provers' reach. What needs no fairness of
  it is `PagesBoundedHolds`.
- Everything in `ClientRequest`: its properties are about trees, whose rendering
  and reading need `RECURSIVE`, and about the grammar that reads them back.

## What is not modelled

- The drivers' encodings, and what sqlx does with a built query.
- A timestamp outside of its library's range, and the clamp to `i64`; a float's
  loss of precision.
- A key on the second of two columns with one label, which is read off the
  first (value.rs:351): the instances keep the key's own column ahead. The code
  documents the lookup by label and promises nothing for such a query.
- Characters: multibyte text, numbers beyond `usize`, a digit behind a `?`, a
  suffix of a slot that holds a placeholder. Tokens stand apart.
- Tokens' bytes: postcard, base64, CRC.
- CEL's own parser. Among the comparisons `<` stands for the four, among the
  arithmetic `+` and `*` for the five. The databases' grammars differ on a
  comparison ahead of `IN`; `ReadsAsMeant` leaves such filters out, with empty
  lists and tests of a condition for null or membership, the subject of
  `parentheses`. What a NULL in a list or in an ordered comparison selects is
  SQL's matter.
- `clauses/mod.rs`, which holds re-exports only. Of the integration tests the
  page loop is modelled, the one part that is a program.

## The plan

Done: composer and clauses, their abstract specification and refinement, the
scanner's two readings, values, pager and traversal with their abstract
specification and refinement, filter and ordering, the finished statement's
reading. Proved: every safety invariant of the composer, the reader and the
traversal, and the refinements of `Composition` and `TableScan`.

Left: the parts of `ClientRequest` that do not depend on the tree,
`NumberedInOrder` and `OnlyOffered` for orderings, in a module without
`RECURSIVE`.
