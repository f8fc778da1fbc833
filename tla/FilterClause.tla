----------------------------- MODULE FilterClause -----------------------------
(***************************************************************************)
(* A client's filter, parsed by CEL, as a WHERE clause (sqlx-query-cel's   *)
(* filter.rs).  A field's name is the sequence of its dotted segments.     *)
(***************************************************************************)
EXTENDS SqlCondition, SequencesExt

(* CEL's tree.  "other" is what has no reading: maps, comprehensions ...   *)
Ident(name)                  == [kind |-> "ident", name |-> name]
Select(operand, field, test) ==
  [kind |-> "select", operand |-> operand, field |-> field, test |-> test]
Literal(type, text)          == [kind |-> "literal", type |-> type, text |-> text]
Call(func, target, args)     ==
  [kind |-> "call", func |-> func, target |-> target, args |-> args]
List(elements)               == [kind |-> "list", elements |-> elements]
Other                        == [kind |-> "other"]
IsNull(node)                 == node.kind = "literal" /\ node.type = "null"
IsString(node)               == node.kind = "literal" /\ node.type = "string"

-----------------------------------------------------------------------------
(* FilterClause::field_name and rename: every field is replaced by the     *)
(* column it stands for, a method's receiver included.                     *)
RECURSIVE FieldName(_), Fields(_), Rename(_, _)
NoName == << >>
FieldName(node) ==
  CASE node.kind = "ident" -> node.name
    [] node.kind = "select" /\ ~node.test ->
         LET name == FieldName(node.operand)
         IN IF name = NoName THEN NoName ELSE Append(name, node.field)
    [] OTHER -> NoName

ArgumentsOnly(node) ==                                 \* mutant: not a method's receiver
  CASE node.kind = "call" -> node.args
    [] node.kind = "list" -> node.elements
    [] OTHER -> << >>
Parts(node) ==
  CASE node.kind = "call" -> node.target \o node.args
    [] node.kind = "list" -> node.elements
    [] OTHER -> << >>

(* The fields rename looks up; one the allow-list has not is an error.     *)
Fields(node) ==
  IF FieldName(node) # NoName THEN {FieldName(node)}
  ELSE UNION {Fields(part) : part \in ToSet(Parts(node))}

Rename(node, columns) ==
  LET RenameAll(nodes) == [k \in DOMAIN nodes |-> Rename(nodes[k], columns)] IN
  IF FieldName(node) \in DOMAIN columns THEN Ident(columns[FieldName(node)])
  ELSE CASE node.kind = "call" -> Call(node.func, RenameAll(node.target), RenameAll(node.args))
         [] node.kind = "list" -> List(RenameAll(node.elements))
         [] OTHER -> node

-----------------------------------------------------------------------------
(* FilterClause::render: text, and the values of its placeholders after    *)
(* those already collected; or an error.                                   *)
Fails(error)        == [ok |-> FALSE, error |-> error]
Texts(sqls, values) == [ok |-> TRUE, sqls |-> sqls, values |-> values]
Symbol(kind)        == <<Token(kind, 0, << >>)>>
Paren(sql)          == Symbol("(") \o sql \o Symbol(")")

PlaceholderBefore(values) == Len(values)               \* mutant: numbered before it is pushed
Placeholder(values)       == Len(values) + 1
Bind(value, values) ==
  Texts(<< <<Token("number", Placeholder(values), << >>)>> >>, Append(values, value))

(* A LIKE pattern is the method and the text it takes literally.           *)
Value(type, text) == <<type, text>>
Methods      == {"startsWith", "endsWith", "contains"}
Constructors == {"timestamp", "uuid"}
OneString(node) == Len(node.args) = 1 /\ IsString(node.args[1])

(* FilterClause::literal: no bytes, and no integer beyond i64.             *)
RenderLiteral(node, values) ==
  IF node.type \in {"bytes", "u64"} THEN Fails("Unsupported")
  ELSE Bind(Value(node.type, node.text), values)

(* timestamp("..."), uuid("..."): of text spelled like one.                *)
RenderConstructor(node, values) ==
  IF node.target # << >> \/ ~OneString(node) THEN Fails("Unsupported")
  ELSE IF node.args[1].text # node.func THEN Fails("InvalidLiteral")
  ELSE Bind(Value(node.func, node.args[1].text), values)

RenderField(node, values) ==
  IF FieldName(node) = NoName THEN Fails("Unsupported")
  ELSE Texts(<< <<Token("column", 0, FieldName(node))>> >>, values)

IsField(node) == node.kind \in {"ident", "select"}
RenderLike(node, values) ==
  IF Len(node.target) = 1 /\ IsField(node.target[1]) /\ OneString(node)
  THEN LET field   == RenderField(node.target[1], values)
           pattern == Bind(Value(node.func, node.args[1].text), values)
       IN IF ~field.ok THEN field
          ELSE Texts(<<Paren(field.sqls[1]) \o Symbol("like") \o pattern.sqls[1]>>, pattern.values)
  ELSE Fails("Unsupported")

PrefixedBare(op, sql)     == Symbol(op) \o sql          \* mutant: no parentheses
Prefixed(op, sql)         == Symbol(op) \o Paren(sql)
RenderBinary(left, op, right) == Paren(left) \o Symbol(op) \o Paren(right)
RenderInList(needle, items) ==
  needle \o Symbol("in") \o Symbol("(")
    \o FlattenSeq([k \in DOMAIN items |-> IF k = 1 THEN items[k] ELSE Symbol(",") \o items[k]])
    \o Symbol(")")

(* What is rendered of a call, in order, and how it is put together.       *)
NullCompared(node) ==
  node.func \in {"==", "!="} /\ (IsNull(node.args[1]) # IsNull(node.args[2]))
Compared(node) == IF IsNull(node.args[1]) THEN node.args[2] ELSE node.args[1]
Operands(node) ==
  CASE node.func = "in"  -> <<node.args[1]>> \o node.args[2].elements
    [] NullCompared(node) -> <<Compared(node)>>
    [] OTHER             -> node.args
Written(node, sqls) ==
  CASE node.func = "in"             -> RenderInList(sqls[1], Tail(sqls))
    [] NullCompared(node)           -> sqls[1] \o Symbol(IF node.func = "==" THEN "is null"
                                                         ELSE "is not null")
    [] node.func \in {"!", "neg"}   -> Prefixed(node.func, sqls[1])
    [] OTHER                        -> RenderBinary(sqls[1], node.func, sqls[2])

Operators == {"&&", "||", "!", "neg", "in"} \cup Comparisons \cup Arithmetic
HasReading(node) == node.func = "in" => node.args[2].kind = "list"

RECURSIVE Render(_, _)
RenderAll(nodes, values) ==
  FoldLeft(LAMBDA done, node :
             IF ~done.ok THEN done
             ELSE LET r == Render(node, done.values)
                  IN IF r.ok THEN Texts(Append(done.sqls, r.sqls[1]), r.values) ELSE r,
           Texts(<< >>, values), nodes)

RenderCall(node, values) ==
  CASE node.func \in Operators /\ HasReading(node) ->
         LET r == RenderAll(Operands(node), values)
         IN IF r.ok THEN Texts(<<Written(node, r.sqls)>>, r.values) ELSE r
    [] node.func \in Methods      -> RenderLike(node, values)
    [] node.func \in Constructors -> RenderConstructor(node, values)
    [] OTHER                      -> Fails("Unsupported")

Render(node, values) ==
  CASE node.kind = "call"    -> RenderCall(node, values)
    [] node.kind = "literal" -> RenderLiteral(node, values)
    [] IsField(node)         -> RenderField(node, values)
    [] OTHER                 -> Fails("Unsupported")

(* FilterClause::validate.                                                 *)
NotValidated(node) == TRUE                             \* mutant: parse checks nothing
Validates(node)    == Render(node, << >>).ok
=============================================================================
