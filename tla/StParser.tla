------------------------------ MODULE StParser ------------------------------
(***************************************************************************)
(* The front end of the Structured Text compiler: the grammar st.pest and  *)
(* the conversion of its parse tree in frontend/parser.rs, as one          *)
(* recursive-descent parser.  A source text is a sequence of tokens, a     *)
(* token a pair of its kind ("w" word, "s" symbol, "n" number) and its     *)
(* text or value.  pest has no reserved words: an identifier is any word,  *)
(* and what keeps END_IF from being a variable is that no statement starts *)
(* with a word that is neither followed by ":=" nor by "(".                *)
(*                                                                         *)
(* Left out: the spelling of tokens (case, comments, the digits of a       *)
(* number), real, string and time literals, and source spans.  The grammar *)
(* has no tokens of its own: its keywords also match the beginning of a    *)
(* longer word ("notify" is read as NOT ify).  A text of the model has no  *)
(* such word but TIME_OF_DAY and DATE_AND_TIME, which are type names.      *)
(***************************************************************************)
EXTENDS Integers, Sequences

(* A keyword or symbol stands at i: the whole token, never a part of one.  *)
At(t, i, x) == i <= Len(t) /\ t[i] \in {<<"w", x>>, <<"s", x>>}
IsWord(t, i) == i <= Len(t) /\ t[i][1] = "w"
IsNum(t, i) == i <= Len(t) /\ t[i][1] = "n"
Text(t, i) == t[i][2]

(* What a rule returns: its tree and the position after it, or nothing.    *)
Fail == [ok |-> FALSE]
Ok(tree, i) == [ok |-> TRUE, tree |-> tree, at |-> i]

(* Only these words stand for something in an expression.                  *)
BoolWords == {"TRUE", "FALSE"}
UnaryWords == {"NOT", "-"}

(* The chain of binary levels, loosest first: each is one grammar rule     *)
(* (or_expr ... power_expr) and one parse function.                        *)
LevelsEqual == << {"OR"}, {"XOR"}, {"AND", "&"},
                  {"=", "<>", "<", "<=", ">", ">="},
                  {"+", "-", "*", "/", "MOD"}, {"**"} >>
Levels == << {"OR"}, {"XOR"}, {"AND", "&"},
             {"=", "<>", "<", "<=", ">", ">="},
             {"+", "-"}, {"*", "/", "MOD"}, {"**"} >>

(* Both spellings of the conjunction are the same operator.                *)
Binary(left, op, right) ==
  [e |-> "binary", left |-> left, op |-> IF op = "&" THEN "AND" ELSE op, right |-> right]

(* All the rules that read themselves, directly or not, are alternatives   *)
(* of one recursive operator: the rule's name, what it has read so far,    *)
(* the text and the position (pest's Rule).                                *)
RECURSIVE Rule(_, _, _, _)
Expr(t, i) == Rule("expression", 1, t, i)
List(t, i) == Rule("statement_list", <<>>, t, i)
TypeAt(t, i) == Rule("data_type", <<>>, t, i)

Level(t, l, i) ==
  IF l > Len(Levels)
  THEN Rule("unary_expr", <<>>, t, i)
  ELSE LET first == Rule("expression", l + 1, t, i)
       IN IF first.ok THEN Rule("operators", <<l, first.tree>>, t, first.at) ELSE Fail

(* (op operand)*: each further operand takes the tree so far as its left.  *)
Chain(t, l, left, i) ==
  LET right == Rule("expression", l + 1, t, i + 1)
  IN IF (\E op \in Levels[l] : At(t, i, op)) /\ right.ok
     THEN Rule("operators", <<l, Binary(left, Text(t, i), right.tree)>>, t, right.at)
     ELSE Ok(left, i)

Unary(t, i) ==
  IF \E op \in UnaryWords : At(t, i, op)
  THEN LET operand == Rule("primary_expr", <<>>, t, i + 1)
       IN IF operand.ok
          THEN Ok([e |-> "unary", op |-> Text(t, i), operand |-> operand.tree], operand.at)
          ELSE Fail
  ELSE Rule("primary_expr", <<>>, t, i)

(* argument ("," argument)*, a name before ":=" being dropped.             *)
Arguments(t, i, args) ==
  LET start == IF IsWord(t, i) /\ At(t, i + 1, ":=") THEN i + 2 ELSE i
      value == Expr(t, start)
  IN CASE ~value.ok -> IF args = <<>> THEN Ok(args, i) ELSE Fail
       [] value.ok /\ At(t, value.at, ",") ->
            Rule("argument_list", Append(args, value.tree), t, value.at + 1)
       [] OTHER -> Ok(Append(args, value.tree), value.at)

Call(t, i) ==
  LET args == Rule("argument_list", <<>>, t, i + 2)
  IN IF IsWord(t, i) /\ At(t, i + 1, "(") /\ args.ok /\ At(t, args.at, ")")
     THEN Ok([e |-> "call", name |-> Text(t, i), args |-> args.tree], args.at + 1)
     ELSE Fail

Suffixes(t, base, i) ==
  LET index == Expr(t, i + 1)
  IN CASE At(t, i, "[") /\ index.ok /\ At(t, index.at, "]") ->
            Rule("suffixes", [e |-> "index", array |-> base, index |-> index.tree], t, index.at + 1)
       [] At(t, i, ".") /\ IsWord(t, i + 1) ->
            Rule("suffixes", [e |-> "field", object |-> base, field |-> Text(t, i + 1)], t, i + 2)
       [] OTHER -> Ok(base, i)

Variable(t, i) ==
  IF IsWord(t, i) THEN Rule("suffixes", [e |-> "var", name |-> Text(t, i)], t, i + 1) ELSE Fail

Primary(t, i) ==
  LET inner == Expr(t, i + 1)
      call == Call(t, i)
  IN CASE At(t, i, "(") -> IF inner.ok /\ At(t, inner.at, ")")
                           THEN Ok([e |-> "paren", inner |-> inner.tree], inner.at + 1)
                           ELSE Fail
       [] call.ok -> call
       [] IsNum(t, i) -> Ok([e |-> "int", n |-> Text(t, i)], i + 1)
       [] \E b \in BoolWords : At(t, i, b) -> Ok([e |-> "bool", b |-> Text(t, i) = "TRUE"], i + 1)
       [] OTHER -> Variable(t, i)

-----------------------------------------------------------------------------
(* Statements.  Every rule that is a repetition succeeds, on the part of   *)
(* the text it could read.                                                 *)
(* statement = (...) ";"?: the semicolon is optional; a lone one is an     *)
(* empty statement.                                                        *)
Statements(t, i, list) ==
  LET one == Rule("statement", <<>>, t, i)
  IN IF one.ok
     THEN Rule("statement_list", Append(list, one.tree), t,
               IF At(t, one.at, ";") THEN one.at + 1 ELSE one.at)
     ELSE Ok(list, i)

Assignment(t, i) ==
  LET target == Variable(t, i)
      value == Expr(t, target.at + 1)
  IN IF target.ok /\ At(t, target.at, ":=") /\ value.ok
     THEN Ok([s |-> "assign", target |-> target.tree, value |-> value.tree], value.at)
     ELSE Fail

Elsifs(t, i, list) ==
  LET cond == Expr(t, i + 1)
      body == List(t, cond.at + 1)
  IN IF At(t, i, "ELSIF") /\ cond.ok /\ At(t, cond.at, "THEN")
     THEN Rule("elsif_branches", Append(list, [cond |-> cond.tree, body |-> body.tree]), t, body.at)
     ELSE Ok(list, i)

(* An else branch, as a sequence of at most one statement list.            *)
ElseBranch(t, i) ==
  LET body == List(t, i + 1)
  IN IF At(t, i, "ELSE") THEN Ok(<<body.tree>>, body.at) ELSE Ok(<<>>, i)

If(t, i) ==
  LET cond == Expr(t, i + 1)
      then == List(t, cond.at + 1)
      elsifs == Rule("elsif_branches", <<>>, t, then.at)
      else == ElseBranch(t, elsifs.at)
  IN IF At(t, i, "IF") /\ cond.ok /\ At(t, cond.at, "THEN") /\ At(t, else.at, "END_IF")
     THEN Ok([s |-> "if", cond |-> cond.tree, then |-> then.tree,
              elsifs |-> elsifs.tree, else |-> else.tree], else.at + 1)
     ELSE Fail

(* case_value ("," case_value)*; a range is a pair, a value a singleton.   *)
CaseValues(t, i, list) ==
  LET first == Expr(t, i)
      last == Expr(t, first.at + 1)
      ranged == first.ok /\ At(t, first.at, "..") /\ last.ok
      value == IF ranged THEN <<first.tree, last.tree>> ELSE <<first.tree>>
      next == IF ranged THEN last.at ELSE first.at
  IN CASE ~first.ok -> Fail
       [] first.ok /\ At(t, next, ",") -> Rule("case_value_list", Append(list, value), t, next + 1)
       [] OTHER -> Ok(Append(list, value), next)

Branches(t, i, list) ==
  LET values == Rule("case_value_list", <<>>, t, i)
      body == List(t, values.at + 1)
  IN IF values.ok /\ At(t, values.at, ":")
     THEN Rule("case_branches", Append(list, [values |-> values.tree, body |-> body.tree]), t, body.at)
     ELSE Ok(list, i)

Case(t, i) ==
  LET selector == Expr(t, i + 1)
      branches == Rule("case_branches", <<>>, t, selector.at + 1)
      else == ElseBranch(t, branches.at)
  IN IF /\ At(t, i, "CASE") /\ selector.ok /\ At(t, selector.at, "OF")
        /\ branches.tree # <<>> /\ At(t, else.at, "END_CASE")
     THEN Ok([s |-> "case", selector |-> selector.tree, branches |-> branches.tree,
              else |-> else.tree], else.at + 1)
     ELSE Fail

(* BY is optional: a sequence of at most one expression.                   *)
For(t, i) ==
  LET from == Expr(t, i + 3)
      to == Expr(t, from.at + 1)
      step == Expr(t, to.at + 1)
      by == IF At(t, to.at, "BY") /\ step.ok THEN Ok(<<step.tree>>, step.at) ELSE Ok(<<>>, to.at)
      body == List(t, by.at + 1)
  IN IF /\ At(t, i, "FOR") /\ IsWord(t, i + 1) /\ At(t, i + 2, ":=") /\ from.ok
        /\ At(t, from.at, "TO") /\ to.ok /\ At(t, by.at, "DO") /\ At(t, body.at, "END_FOR")
     THEN Ok([s |-> "for", variable |-> Text(t, i + 1), from |-> from.tree, to |-> to.tree,
              by |-> by.tree, body |-> body.tree], body.at + 1)
     ELSE Fail

While(t, i) ==
  LET cond == Expr(t, i + 1)
      body == List(t, cond.at + 1)
  IN IF At(t, i, "WHILE") /\ cond.ok /\ At(t, cond.at, "DO") /\ At(t, body.at, "END_WHILE")
     THEN Ok([s |-> "while", cond |-> cond.tree, body |-> body.tree], body.at + 1)
     ELSE Fail

Repeat(t, i) ==
  LET body == List(t, i + 1)
      until == Expr(t, body.at + 1)
  IN IF At(t, i, "REPEAT") /\ At(t, body.at, "UNTIL") /\ until.ok /\ At(t, until.at, "END_REPEAT")
     THEN Ok([s |-> "repeat", body |-> body.tree, until |-> until.tree], until.at + 1)
     ELSE Fail

(* RETURN expression?: any word that follows is taken as the expression.   *)
Return(t, i) ==
  LET value == Expr(t, i + 1)
  IN IF ~At(t, i, "RETURN") THEN Fail
     ELSE IF value.ok THEN Ok([s |-> "return", value |-> <<value.tree>>], value.at)
     ELSE Ok([s |-> "return", value |-> <<>>], i + 1)

CallStatement(t, i) ==
  LET call == Call(t, i)
  IN IF call.ok THEN Ok([s |-> "call", name |-> call.tree.name, args |-> call.tree.args], call.at)
     ELSE Fail

(* The alternatives in the grammar's order; the first that succeeds wins.  *)
Statement(t, i) ==
  LET assignment == Assignment(t, i)  if == If(t, i)          case == Case(t, i)
      for == For(t, i)                while == While(t, i)    repeat == Repeat(t, i)
      return == Return(t, i)          call == CallStatement(t, i)
  IN CASE assignment.ok -> assignment
       [] ~assignment.ok /\ if.ok -> if
       [] ~assignment.ok /\ case.ok -> case
       [] ~assignment.ok /\ for.ok -> for
       [] ~assignment.ok /\ while.ok -> while
       [] ~assignment.ok /\ repeat.ok -> repeat
       [] ~assignment.ok /\ At(t, i, "EXIT") -> Ok([s |-> "exit"], i + 1)
       [] ~assignment.ok /\ At(t, i, "CONTINUE") -> Ok([s |-> "continue"], i + 1)
       [] ~assignment.ok /\ return.ok -> return
       [] ~assignment.ok /\ call.ok -> call
       [] At(t, i, ";") -> Ok([s |-> "empty"], i + 1)
       [] OTHER -> Fail

-----------------------------------------------------------------------------
(* Declarations and program organisation units.                            *)
Elementary == {"BOOL", "SINT", "INT", "DINT", "LINT", "USINT", "UINT", "UDINT", "ULINT", "REAL",
               "LREAL", "TIME", "DATE", "TOD", "DT", "BYTE", "WORD", "DWORD", "LWORD"}
(* TIME and DATE are tried first, and leave the rest of these over.        *)
CutShort == {"TIME_OF_DAY", "DATE_AND_TIME"}
Strings == {"STRING", "WSTRING"}
BlockKinds == {"VAR", "VAR_INPUT", "VAR_OUTPUT", "VAR_IN_OUT", "VAR_EXTERNAL", "VAR_GLOBAL", "VAR_TEMP"}
Modifiers == {"RETAIN", "CONSTANT"}

(* A constant bound: a number, or the negation of one (expr_to_i64).       *)
RECURSIVE IsConst(_), Const(_)
IsConst(x) == x.e = "int" \/ (x.e = "unary" /\ x.op = "-" /\ IsConst(x.operand))
Const(x) == IF x.e = "int" THEN x.n ELSE -Const(x.operand)

(* The name of a string type leaves no trace in the parse tree: with a     *)
(* length the length is taken for the name and refused, without one both   *)
(* names mean a STRING.                                                    *)
DataType(t, i) ==
  LET lower == Expr(t, i + 2)
      upper == Expr(t, lower.at + 1)
      of == TypeAt(t, upper.at + 2)
  IN CASE At(t, i, "ARRAY") ->
            IF /\ At(t, i + 1, "[") /\ lower.ok /\ At(t, lower.at, "..") /\ upper.ok
               /\ At(t, upper.at, "]") /\ At(t, upper.at + 1, "OF") /\ of.ok
               /\ IsConst(lower.tree) /\ IsConst(upper.tree)
            THEN Ok([k |-> "ARRAY", lower |-> Const(lower.tree), upper |-> Const(upper.tree),
                     of |-> of.tree], of.at)
            ELSE Fail
       [] IsWord(t, i) /\ Text(t, i) \in Strings ->
            IF At(t, i + 1, "[") THEN Fail ELSE Ok([k |-> "STRING"], i + 1)
       [] IsWord(t, i) /\ Text(t, i) \in Elementary -> Ok([k |-> Text(t, i)], i + 1)
       [] IsWord(t, i) /\ Text(t, i) \notin Elementary \cup Strings \cup CutShort \cup {"ARRAY"} ->
            Ok([k |-> "NAMED", name |-> Text(t, i)], i + 1)
       [] OTHER -> Fail

Names(t, i, names) ==
  CASE ~IsWord(t, i) -> Fail
    [] IsWord(t, i) /\ At(t, i + 1, ",") ->
         Rule("identifier_list", Append(names, Text(t, i)), t, i + 2)
    [] OTHER -> Ok(Append(names, Text(t, i)), i + 1)

(* One declaration per name of the list; an initial value is read and      *)
(* kept in the tree, where nothing looks at it again.                      *)
Declarations(t, i, decls) ==
  LET names == Rule("identifier_list", <<>>, t, i)
      type == TypeAt(t, names.at + 1)
      value == Expr(t, type.at + 1)
      end == IF At(t, type.at, ":=") /\ value.ok THEN value.at ELSE type.at
  IN IF names.ok /\ At(t, names.at, ":") /\ type.ok /\ At(t, end, ";")
     THEN Rule("var_decls",
            decls \o [j \in 1..Len(names.tree) |-> [name |-> names.tree[j], type |-> type.tree]],
            t, end + 1)
     ELSE Ok(decls, i)

RECURSIVE SkipModifiers(_, _)
SkipModifiers(t, i) ==
  IF \E m \in Modifiers : At(t, i, m) THEN SkipModifiers(t, i + 1) ELSE i

(* The declarations of all the variable blocks, each with its block's kind.*)
Blocks(t, i, decls) ==
  LET block == Rule("var_decls", <<>>, t, SkipModifiers(t, i + 1))
      kinded == [j \in 1..Len(block.tree) |->
                   [name |-> block.tree[j].name, type |-> block.tree[j].type, kind |-> Text(t, i)]]
  IN IF (\E k \in BlockKinds : At(t, i, k)) /\ At(t, block.at, "END_VAR")
     THEN Rule("var_blocks", decls \o kinded, t, block.at + 1)
     ELSE Ok(decls, i)

(* PROGRAM, FUNCTION_BLOCK and FUNCTION; only the last has a result type.  *)
Unit(t, i, word, end) ==
  LET type == IF word = "FUNCTION" THEN TypeAt(t, i + 3) ELSE Ok([k |-> "BOOL"], i + 2)
      vars == Rule("var_blocks", <<>>, t, type.at)
      body == List(t, vars.at)
  IN IF /\ At(t, i, word) /\ IsWord(t, i + 1)
        /\ word = "FUNCTION" => (At(t, i + 2, ":") /\ type.ok)
        /\ At(t, body.at, end)
     THEN Ok([unit |-> word, name |-> Text(t, i + 1), type |-> type.tree, vars |-> vars.tree,
              body |-> body.tree], body.at + 1)
     ELSE Fail

Units(t, i, units) ==
  LET program == Unit(t, i, "PROGRAM", "END_PROGRAM")
      block == Unit(t, i, "FUNCTION_BLOCK", "END_FUNCTION_BLOCK")
      function == Unit(t, i, "FUNCTION", "END_FUNCTION")
  IN CASE program.ok -> Rule("pous", Append(units, program.tree), t, program.at)
       [] block.ok -> Rule("pous", Append(units, block.tree), t, block.at)
       [] function.ok -> Rule("pous", Append(units, function.tree), t, function.at)
       [] i = Len(t) + 1 -> Ok(units, i)
       [] OTHER -> Fail

Rule(rule, x, t, i) ==
  CASE rule = "expression" -> Level(t, x, i)
    [] rule = "operators" -> Chain(t, x[1], x[2], i)
    [] rule = "unary_expr" -> Unary(t, i)
    [] rule = "primary_expr" -> Primary(t, i)
    [] rule = "argument_list" -> Arguments(t, i, x)
    [] rule = "suffixes" -> Suffixes(t, x, i)
    [] rule = "statement" -> Statement(t, i)
    [] rule = "statement_list" -> Statements(t, i, x)
    [] rule = "elsif_branches" -> Elsifs(t, i, x)
    [] rule = "case_branches" -> Branches(t, i, x)
    [] rule = "case_value_list" -> CaseValues(t, i, x)
    [] rule = "data_type" -> DataType(t, i)
    [] rule = "identifier_list" -> Names(t, i, x)
    [] rule = "var_decls" -> Declarations(t, i, x)
    [] rule = "var_blocks" -> Blocks(t, i, x)
    [] rule = "pous" -> Units(t, i, x)

(* parse(): the whole text or an error.                                    *)
ParseUnits(t) == Rule("pous", <<>>, t, 1)
=============================================================================
