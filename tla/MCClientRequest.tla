---------------------------- MODULE MCClientRequest ----------------------------
(* Small instances of ClientRequest for TLC.                               *)
EXTENDS ClientRequest

A == Ident(<<"a">>)
B == Ident(<<"b">>)
VRank == Select(Ident(<<"v">>), "rank", FALSE)
One == Literal("int", "1")
NullLiteral == Literal("null", "null")
Stamp == Literal("string", "timestamp")

(* Fields offered and not, a presence test, literals with and without a    *)
(* reading, constructors called right and wrong.                           *)
Leaves ==
  {A, B, VRank, Select(VRank, "x", TRUE), One, NullLiteral, Literal("u64", "big"), Other,
   Call("timestamp", << >>, <<Stamp>>), Call("uuid", << >>, <<Stamp>>),
   Call("timestamp", <<A>>, <<Stamp>>)}

Binary == {"&&", "==", "+"}
Calls(left, right) ==
  {Call(op, << >>, <<x, y>>) : op \in Binary \cup {"||"}, x \in left, y \in right}
  \cup {Call(op, << >>, <<x>>) : op \in {"!", "neg"}, x \in left}
  \cup {Call("!=", << >>, <<NullLiteral, x>>) : x \in left}
  \cup {Call("in", << >>, <<x, y>>) : x \in left, y \in {List(<<One, A>>), List(<< >>), B}}
  \cup {Call(method, <<x>>, <<y>>) : method \in {"startsWith", "size"}, x \in left,
                                     y \in {Stamp, One}}

Conditions == Calls({A, VRank, NullLiteral, One}, {One, NullLiteral, B})
Both == {Call(op, << >>, <<B, One>>) : op \in {"==", "||"}}
MCFilters ==
  Leaves \cup Calls(Leaves, Leaves)
    \cup Calls(Conditions, {One, NullLiteral} \cup Both)
    \cup Calls({A}, Conditions) \cup Calls({Call("!", << >>, <<x>>) : x \in Conditions}, {NullLiteral})

MCSegments  == {"a", "b", "v", "rank", "asc", "desc"}
Orderings ==
  {<< >>, << <<<<"a">>>> >>, << <<<<"v", "rank">>, <<"desc">>>> , <<<<"a">>>> >>,
   << <<<<"b">>, <<"up">>>> >>, << <<<<"(select(1))">>>> >>, << << >>, << >> >>}
MCOffers ==
  {[name \in {<<"a">>, <<"v", "rank">>} |-> IF name = <<"a">> THEN <<"v", "rank">> ELSE <<"score">>],
   [name \in {<<"a">>, <<"b">>, <<"v", "rank">>} |-> name]}
MCTieBreaks == {<< >>, << OrderKey(<<"lower(id)">>, <<"asc">>) >>}

Ints(ns) == [k \in DOMAIN ns |-> Paging!Value("Int", ns[k])]
NullInt  == <<Paging!NullValue>>
RankDown == OrderKey(<<"v", "rank">>, <<"desc">>)
AUp      == OrderKey(<<"a">>, <<"asc">>)
Positions ==
  {Start, At(Ints(<<1>>)), At(Ints(<<2, 1>>)), At(Ints(<<2, 1, 2>>)), At(Ints(<<2>>) \o NullInt),
   AfterToken(<<RankDown, AUp>>, Ints(<<1, 2>>)), AfterToken(<<AUp>>, NullInt)}

(* Every filter in one ordering, and a few in every ordering and position. *)
Request(f, o, p) == [filter |-> f, order_by |-> o, position |-> p]
Either == Call("||", << >>, <<Call("==", << >>, <<A, One>>), Call("==", << >>, <<VRank, One>>)>>)
MCRequests ==
  {Request(f, << <<<<"a">>>> >>, Start) : f \in MCFilters}
  \cup {Request(f, o, p) : f \in {Blank, Either, B}, o \in Orderings, p \in Positions}

(* The README's base query; one with two alternatives, the slot in the     *)
(* second; and one without slots.  Each numbered, and with ?s.             *)
Compares(name, placeholder) ==
  <<Token("column", 0, <<name>>)>> \o Symbol("==") \o <<placeholder>>
Sorting(limit) ==
  Symbol("order by") \o <<Slot("order_by", ","), Token("key", 0, OrderKey(<<"id">>, <<"asc">>))>>
    \o Symbol("limit") \o <<limit>>
Numbered(n) == Token("number", n, << >>)
Question    == Token("question", 0, << >>)

Listing(tenant, limit) ==
  <<Slot("where", "&&")>> \o Compares("tenant", tenant) \o Sorting(limit)
Shared(own, tenant) ==
  Compares("owner", own) \o Symbol("||") \o <<Slot("where", "&&"), Slot("unknown", "&&")>>
    \o Compares("tenant", tenant) \o Symbol("order by") \o <<Slot("order_by", "")>>
MCBases ==
  {BaseQuery(TRUE, Listing(Numbered(1), Numbered(2)), <<"acme", "limit">>),
   BaseQuery(FALSE, Listing(Question, Question), <<"acme", "limit">>),
   BaseQuery(TRUE, Shared(Numbered(1), Numbered(1)), <<"acme">>),
   BaseQuery(FALSE, Shared(Question, Question), <<"owner", "acme">>),
   BaseQuery(TRUE, Compares("tenant", Numbered(1)), <<"acme">>)}
MCCells == {1, 2, 3, Null}

(* filter.rs:26-28: "A binary expression always parenthesizes both sides   *)
(* rather than tracking operator precedence -- more parentheses than       *)
(* strictly necessary, but no precedence table to get wrong": the database *)
(* reads every rendered filter as it was meant, `in []` aside.             *)
NoPrecedenceToGetWrong ==
  Rendered /\ ~(\E k \in 1..(Len(where_by.sql) - 2) :
                  where_by.sql[k].kind = "in" /\ where_by.sql[k + 2].kind = ")")
    => Reading(where_by) = Meaning(filter)
=============================================================================
