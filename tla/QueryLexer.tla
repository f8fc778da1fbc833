------------------------------ MODULE QueryLexer ------------------------------
(***************************************************************************)
(* QueryLexer::scan (lexer.rs), as a reader that takes a text lexeme by    *)
(* lexeme and keeps what it is inside of; and the dialects' rules          *)
(* (dialect.rs).                                                           *)
(*                                                                         *)
(* A lexeme is what some dialect gives a meaning to: a quote or a comment  *)
(* delimiter, $tag$, a placeholder, a whole slot; everything else is       *)
(* "text".  A doubled quote is two lexemes: the second opens a run that    *)
(* continues the first.  `n` tells tags and numbers apart.                 *)
(***************************************************************************)
EXTENDS Naturals, Sequences

Quotes  == {"string", "identifier", "backtick"}
Lexemes ==
  [kind : Quotes \cup {"bracket", "endbracket", "dashes", "hash", "newline", "open", "close",
                       "backslash", "tag", "number", "question", "slot", "text"},
   n : Nat]
Lexeme(kind, n) == [kind |-> kind, n |-> n]
Text == Lexeme("text", 0)

(* Quoting, per dialect.                                                   *)
StandardNested == [dollar |-> FALSE, nested |-> TRUE, hash |-> FALSE, backtick |-> FALSE,
                   bracket |-> FALSE, backslash |-> FALSE]   \* mutant: comments nest
Standard == [dollar |-> FALSE, nested |-> FALSE, hash |-> FALSE, backtick |-> FALSE,
             bracket |-> FALSE, backslash |-> FALSE]
Postgres == [dollar |-> TRUE, nested |-> TRUE, hash |-> FALSE, backtick |-> FALSE,
             bracket |-> FALSE, backslash |-> FALSE]
MySql    == [dollar |-> FALSE, nested |-> FALSE, hash |-> TRUE, backtick |-> TRUE,
             bracket |-> FALSE, backslash |-> TRUE]
Sqlite   == [dollar |-> FALSE, nested |-> FALSE, hash |-> FALSE, backtick |-> TRUE,
             bracket |-> TRUE, backslash |-> FALSE]

-----------------------------------------------------------------------------
(* What the reader is inside of, named for the lexeme that opened it:      *)
(* '...', "...", `...`, [...], -- or # to the newline, /*...*/, $tag$.  `n`*)
(* is a comment's depth, a body's tag, or 1 where a backslash waits for    *)
(* what it escapes.                                                        *)
Mode(kind, n) == [kind |-> kind, n |-> n]
Code == Mode("code", 0)

Openers(syntax) ==
  {"string", "identifier", "dashes", "open"}
    \cup (IF syntax.backtick THEN {"backtick"} ELSE {})
    \cup (IF syntax.bracket THEN {"bracket"} ELSE {})
    \cup (IF syntax.hash THEN {"hash"} ELSE {})
    \cup (IF syntax.dollar THEN {"tag"} ELSE {})

Opened(x) ==
  CASE x.kind = "hash" -> Mode("dashes", 0)
    [] x.kind = "open" -> Mode("open", 1)
    [] x.kind = "tag"  -> Mode("tag", x.n)
    [] OTHER           -> Mode(x.kind, 0)

InCode(syntax, x) == IF x.kind \in Openers(syntax) THEN Opened(x) ELSE Code

(* skip_quoted: no backslash escapes in backticks.                         *)
Escapes(syntax, mode, x) == x.kind = "backslash" /\ syntax.backslash /\ mode.kind # "backtick"
InQuotes(syntax, mode, x) ==
  IF mode.n = 1 THEN Mode(mode.kind, 0)
  ELSE IF Escapes(syntax, mode, x) THEN Mode(mode.kind, 1)
  ELSE IF x.kind = mode.kind THEN Code ELSE mode

(* skip_block_comment: a slot opens and closes a comment of its own.       *)
InComment(syntax, mode, x) ==
  CASE x.kind = "open" /\ syntax.nested  -> Mode("open", mode.n + 1)
    [] x.kind = "close"                  -> IF mode.n > 1 THEN Mode("open", mode.n - 1) ELSE Code
    [] x.kind = "slot" /\ ~syntax.nested -> Code
    [] OTHER                             -> mode

(* skip_bracketed, skip_line_comment, skip_dollar_quoted.                  *)
Closes(mode, x) ==
  \/ mode.kind = "bracket" /\ x.kind = "endbracket"
  \/ mode.kind = "dashes" /\ x.kind = "newline"
  \/ mode.kind = "tag" /\ x.kind = "tag" /\ x.n = mode.n

(* The reader's step; what is never closed swallows the rest of the text.  *)
Step(syntax, mode, x) ==
  CASE mode.kind = "code"   -> InCode(syntax, x)
    [] mode.kind \in Quotes -> InQuotes(syntax, mode, x)
    [] mode.kind = "open"   -> InComment(syntax, mode, x)
    [] OTHER                -> IF Closes(mode, x) THEN Code ELSE mode

(* What scan reports: placeholders and slots outside everything else.      *)
Reports(mode, x) == mode = Code /\ x.kind \in {"number", "question", "slot"}
=============================================================================
