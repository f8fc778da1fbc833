--------------------------- MODULE ComposerClaims -----------------------------
(* What the comments of the code say of compose(), where the code does     *)
(* something else.                                                         *)
EXTENDS MCQueryComposer

(* Two clauses whose miscounts cancel out: one has a value too many, one   *)
(* too few.                                                                *)
CompensatingClauses == {Clause(<<N(1)>>, 2), Clause(<<N(1), N(2)>>, 1)}
NoOrders            == {<< >>}
NoCursors           == {Cut(<< >>, FALSE)}
UnsetCursors        == {Cut(ById, FALSE)}

(* composer.rs:335: the check over the whole statement "catches a hand-    *)
(* written fragment whose own numbering doesn't match the values it        *)
(* carries".                                                               *)
MisnumberedFragmentCaught ==
  outcome = "ok" =>
    \A a \in DOMAIN authored : WellFormedClause(authored[a], Numbered)

(* pager.rs:263: a key without a value is "unreachable through this type's *)
(* public API", so composing a statement never panics.                     *)
ComposeNeverPanics == outcome # "Panic"
=============================================================================
