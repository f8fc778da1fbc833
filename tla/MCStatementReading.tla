-------------------------- MODULE MCStatementReading --------------------------
(* Small instances of StatementReading for TLC.                            *)
EXTENDS StatementReading, SequencesExt

L(kind) == Lexeme(kind, 0)

Dialects == {Postgres, MySql, Sqlite}

(* A slot in code, in a string, behind an escaped quote, in a comment.     *)
MCBefores == {
  << L("question") >>,
  << L("string"), L("number") >>,
  << L("string"), L("backslash"), L("string"), L("question") >>,
  << L("open"), L("open"), L("close"), L("number") >> }

MCAfters == { << L("number"), L("string"), L("question"), L("string") >> }

(* Fragments of what every dialect reads alike, except that comments may   *)
(* nest; and of what the standard's rules read as text and a dialect may   *)
(* not.                                                                    *)
MCFragments == BoundedSeq({L("string"), L("open"), L("close"), L("dashes"), L("newline"),
                           L("number"), L("slot")}, 4)
               \cup BoundedSeq({L("string"), L("backslash"), L("backtick"), L("bracket"),
                                L("endbracket"), L("hash"), L("tag"), L("number")}, 3)

(* dialect.rs:43: reading a fragment by the standard's rules has its cost  *)
(* "at the edges of the supersets: a hand-written fragment that dollar-    *)
(* quotes a `$1`, or nests a block comment around one, gets it shifted.    *)
(* Both are PostgreSQL-only spellings": MySQL and SQLite read a fragment's *)
(* placeholders as it was read to shift them.                              *)
OnlyPostgresDiffers ==
  syntax # Postgres /\ part = "fragment" => misread = {}
=============================================================================
