---------------------------- MODULE StReference -----------------------------
(***************************************************************************)
(* What Structured Text means, independently of the compiler: how a        *)
(* program is written down (with the operator precedence of the language,  *)
(* parentheses only where they are needed), which programs are well typed, *)
(* and what one call of a program does to its variables.  A program is the *)
(* tree that StParser builds, without parentheses.                         *)
(*                                                                         *)
(* Values are integers, a BOOL is 0 or 1.  Arithmetic is that of 32-bit    *)
(* words (64-bit for LINT), and an assignment keeps what fits its variable.*)
(* Fuel bounds the recursion; a program that runs out of it has no meaning.*)
(***************************************************************************)
EXTENDS Integers, Sequences, FiniteSets, TLC

CONSTANTS Cell,     \* the values of a byte
          Hosts     \* what the host functions return

LOCAL INSTANCE SequencesExt

\* ---- Expressions and statements, by name ----
Lit(n) == [e |-> "int", n |-> n]
Bool(b) == [e |-> "bool", b |-> b]
Var(name) == [e |-> "var", name |-> name]
Elem(name, index) == [e |-> "index", array |-> Var(name), index |-> index]
Bin(left, op, right) == [e |-> "binary", left |-> left, op |-> op, right |-> right]
Un(op, x) == [e |-> "unary", op |-> op, operand |-> x]
Host(name, args) == [e |-> "call", name |-> name, args |-> args]

Assign(target, value) == [s |-> "assign", target |-> target, value |-> value]
IfThen(cond, then, elsifs, else) ==
  [s |-> "if", cond |-> cond, then |-> then, elsifs |-> elsifs, else |-> else]
ForDo(v, from, to, by, body) ==
  [s |-> "for", variable |-> v, from |-> from, to |-> to, by |-> by, body |-> body]
WhileDo(cond, body) == [s |-> "while", cond |-> cond, body |-> body]
RepeatUntil(body, until) == [s |-> "repeat", body |-> body, until |-> until]
CaseOf(selector, branches, else) ==
  [s |-> "case", selector |-> selector, branches |-> branches, else |-> else]
ExitLoop == [s |-> "exit"]
ReturnNow == [s |-> "return", value |-> <<>>]
Perform(name, args) == [s |-> "call", name |-> name, args |-> args]
Nothing == [s |-> "empty"]

Decl(name, type) == [name |-> name, type |-> type, kind |-> "VAR"]
Elementary(k) == [k |-> k]
ArrayOf(n, k) == [k |-> "ARRAY", lower |-> 0, upper |-> n - 1, of |-> Elementary(k)]
Program(vars, body) ==
  [unit |-> "PROGRAM", name |-> "Main", type |-> Elementary("BOOL"), vars |-> vars, body |-> body]
Function(name, k, vars, body) ==
  [unit |-> "FUNCTION", name |-> name, type |-> Elementary(k), vars |-> vars, body |-> body]

-----------------------------------------------------------------------------
(* The text of a program.                                                  *)
W(x) == << <<"w", x>> >>
S(x) == << <<"s", x>> >>
N(x) == << <<"n", x>> >>

Strength(op) ==
  CASE op = "OR" -> 1 [] op = "XOR" -> 2 [] op = "AND" -> 3
    [] op \in {"=", "<>", "<", "<=", ">", ">="} -> 4
    [] op \in {"+", "-"} -> 5 [] op \in {"*", "/", "MOD"} -> 6 [] op = "**" -> 7
IsWordOp(op) == op \in {"OR", "XOR", "AND", "MOD", "NOT"}
OpText(op) == IF IsWordOp(op) THEN W(op) ELSE S(op)

RECURSIVE ExprText(_, _), ArgsText(_)
\* The text of x where operators of at least this strength need no parentheses.
ExprText(x, strength) ==
  LET Wrapped(own, text) == IF own < strength THEN S("(") \o text \o S(")") ELSE text
  IN CASE x.e = "int" -> N(x.n)
       [] x.e = "bool" -> W(IF x.b THEN "TRUE" ELSE "FALSE")
       [] x.e = "var" -> W(x.name)
       [] x.e = "index" -> ExprText(x.array, 9) \o S("[") \o ExprText(x.index, 0) \o S("]")
       [] x.e = "unary" -> Wrapped(8, OpText(x.op) \o ExprText(x.operand, 9))
       [] x.e = "binary" -> Wrapped(Strength(x.op), ExprText(x.left, Strength(x.op)) \o OpText(x.op)
                                                    \o ExprText(x.right, Strength(x.op) + 1))
       [] x.e = "call" -> W(x.name) \o S("(") \o ArgsText(x.args) \o S(")")

ArgsText(args) ==
  IF args = <<>> THEN <<>>
  ELSE ExprText(Head(args), 0) \o (IF Len(args) > 1 THEN S(",") ELSE <<>>) \o ArgsText(Tail(args))

RECURSIVE StmtText(_)
ListText(list) == FlattenSeq([i \in 1..Len(list) |-> StmtText(list[i])])
ElseText(else) == IF else = <<>> THEN <<>> ELSE W("ELSE") \o ListText(else[1])
ValuesText(values) ==
  FlattenSeq([j \in 1..Len(values) |->
    (IF j > 1 THEN S(",") ELSE <<>>) \o ExprText(values[j][1], 0)
    \o (IF Len(values[j]) = 2 THEN S("..") \o ExprText(values[j][2], 0) ELSE <<>>)])

StmtText(x) ==
  LET E(y) == ExprText(y, 0)
  IN CASE x.s = "assign" -> E(x.target) \o S(":=") \o E(x.value) \o S(";")
       [] x.s = "if" ->
            W("IF") \o E(x.cond) \o W("THEN") \o ListText(x.then)
            \o FlattenSeq([i \in 1..Len(x.elsifs) |->
                 W("ELSIF") \o E(x.elsifs[i].cond) \o W("THEN") \o ListText(x.elsifs[i].body)])
            \o ElseText(x.else) \o W("END_IF") \o S(";")
       [] x.s = "case" ->
            W("CASE") \o E(x.selector) \o W("OF")
            \o FlattenSeq([i \in 1..Len(x.branches) |->
                 ValuesText(x.branches[i].values) \o S(":") \o ListText(x.branches[i].body)])
            \o ElseText(x.else) \o W("END_CASE") \o S(";")
       [] x.s = "for" ->
            W("FOR") \o W(x.variable) \o S(":=") \o E(x.from) \o W("TO") \o E(x.to)
            \o (IF x.by = <<>> THEN <<>> ELSE W("BY") \o E(x.by[1]))
            \o W("DO") \o ListText(x.body) \o W("END_FOR") \o S(";")
       [] x.s = "while" -> W("WHILE") \o E(x.cond) \o W("DO") \o ListText(x.body) \o W("END_WHILE") \o S(";")
       [] x.s = "repeat" ->
            W("REPEAT") \o ListText(x.body) \o W("UNTIL") \o E(x.until) \o W("END_REPEAT") \o S(";")
       [] x.s = "exit" -> W("EXIT") \o S(";")
       [] x.s = "return" -> W("RETURN") \o S(";")
       [] x.s = "call" -> W(x.name) \o S("(") \o ArgsText(x.args) \o S(")") \o S(";")
       [] x.s = "empty" -> S(";")

TypeText(type) ==
  IF type.k = "ARRAY"
  THEN W("ARRAY") \o S("[") \o N(type.lower) \o S("..") \o N(type.upper) \o S("]") \o W("OF") \o W(type.of.k)
  ELSE W(type.k)

UnitText(u) ==
  W(u.unit) \o W(u.name) \o (IF u.unit = "FUNCTION" THEN S(":") \o TypeText(u.type) ELSE <<>>)
  \o (IF u.vars = <<>> THEN <<>> ELSE W("VAR"))
  \o FlattenSeq([i \in 1..Len(u.vars) |->
                   W(u.vars[i].name) \o S(":") \o TypeText(u.vars[i].type) \o S(";")])
  \o (IF u.vars = <<>> THEN <<>> ELSE W("END_VAR"))
  \o ListText(u.body)
  \o W(CASE u.unit = "PROGRAM" -> "END_PROGRAM" [] u.unit = "FUNCTION" -> "END_FUNCTION"
         [] OTHER -> "END_FUNCTION_BLOCK")

SourceText(units) == FlattenSeq([i \in 1..Len(units) |-> UnitText(units[i])])

-----------------------------------------------------------------------------
(* Meaning.  A state is the variables' values (an array's is a function    *)
(* from its indices), and how the last statement ended.                    *)
Bytes(k) == CASE k \in {"BOOL", "SINT"} -> 1 [] k = "INT" -> 2 [] k = "DINT" -> 4 [] k = "LINT" -> 8
Signed(v, bytes) ==
  LET half == (Cell ^ bytes) \div 2 IN ((v + half) % (2 * half)) - half
Truth(b) == IF b THEN 1 ELSE 0
Quotient(a, b) ==
  LET abs(x) == IF x < 0 THEN -x ELSE x
  IN IF (a < 0) = (b < 0) THEN abs(a) \div abs(b) ELSE -(abs(a) \div abs(b))

TypeIn(vars, name) == vars[CHOOSE i \in 1..Len(vars) : vars[i].name = name].type

RECURSIVE IsWide(_, _), Value(_, _, _)
\* LINT expressions are those with a LINT variable or an operand beyond 32 bits.
IsWide(x, vars) ==
  CASE x.e = "int" -> x.n # Signed(x.n, 4)
    [] x.e = "var" -> TypeIn(vars, x.name).k = "LINT"
    [] x.e = "binary" -> x.op \in {"+", "-", "*", "/"} /\ IsWide(x.left, vars)
    [] OTHER -> FALSE

Value(x, env, vars) ==
  LET V(y) == Value(y, env, vars)
      bytes == IF IsWide(x, vars) THEN 8 ELSE 4
      a == V(x.left)
      b == V(x.right)
  IN CASE x.e = "int" -> x.n
       [] x.e = "bool" -> Truth(x.b)
       [] x.e = "var" -> env[x.name]
       [] x.e = "index" -> env[x.array.name][V(x.index)]
       [] x.e = "call" -> Hosts[IF x.args = <<>> THEN 0 ELSE V(x.args[1])]
       [] x.e = "unary" -> 1 - V(x.operand)
       [] x.e = "binary" ->
            CASE x.op = "+" -> Signed(a + b, bytes)
              [] x.op = "-" -> Signed(a - b, bytes)
              [] x.op = "*" -> Signed(a * b, bytes)
              [] x.op = "/" -> Quotient(a, b)
              [] x.op = "MOD" -> a - b * Quotient(a, b)
              [] x.op = "=" -> Truth(a = b)
              [] x.op = "<>" -> Truth(a # b)
              [] x.op = "<" -> Truth(a < b)
              [] x.op = "<=" -> Truth(a <= b)
              [] x.op = ">" -> Truth(a > b)
              [] x.op = ">=" -> Truth(a >= b)
              [] x.op = "AND" -> Truth(a = 1 /\ b = 1)
              [] x.op = "OR" -> Truth(a = 1 \/ b = 1)
              [] x.op = "XOR" -> Truth(a # b)

State(env, end) == [env |-> env, end |-> end]

RECURSIVE Run(_, _, _, _), While(_, _, _, _, _, _), Choose(_, _, _, _, _)
\* Executes a list; only "next" lets the following statement run.
Run(list, st, vars, fuel) ==
  IF list = <<>> \/ st.end # "next" THEN st
  ELSE
  LET x == Head(list)
      V(y) == Value(y, st.env, vars)
      Kept(name, value) == Signed(value, Bytes(TypeIn(vars, name).k))
      KeptElem(name, value) == Signed(value, Bytes(TypeIn(vars, name).of.k))
      Set(name, value) == State([st.env EXCEPT ![name] = Kept(name, value)], "next")
      always == Bool(TRUE)
      after ==
        CASE x.s = "assign" ->
               IF x.target.e = "var" THEN Set(x.target.name, V(x.value))
               ELSE State([st.env EXCEPT ![x.target.array.name][V(x.target.index)] =
                             KeptElem(x.target.array.name, V(x.value))], "next")
          [] x.s = "if" ->
               Choose(<<[cond |-> x.cond, body |-> x.then]>> \o x.elsifs, x.else, st, vars, fuel)
          [] x.s = "case" ->
               LET chosen == {i \in 1..Len(x.branches) : \E j \in 1..Len(x.branches[i].values) :
                                 x.branches[i].values[j][1].n = V(x.selector)}
                   first == CHOOSE i \in chosen : \A j \in chosen : i <= j
               IN IF chosen # {} THEN Run(x.branches[first].body, st, vars, fuel)
                  ELSE IF x.else # <<>> THEN Run(x.else[1], st, vars, fuel) ELSE st
          [] x.s = "for" ->
               While(Bin(Var(x.variable), "<=", x.to), x.body,
                     <<Assign(Var(x.variable),
                              Bin(Var(x.variable), "+", IF x.by = <<>> THEN Lit(1) ELSE x.by[1]))>>,
                     Set(x.variable, V(x.from)), vars, fuel)
          [] x.s = "while" -> While(x.cond, x.body, <<>>, st, vars, fuel)
          [] x.s = "repeat" ->
               LET once == Run(x.body, st, vars, fuel)
               IN IF once.end # "next" THEN State(once.env, IF once.end = "exit" THEN "next" ELSE once.end)
                  ELSE While(Un("NOT", x.until), x.body, <<>>, once, vars, fuel)
          [] x.s = "exit" -> State(st.env, "exit")
          [] x.s = "return" -> State(st.env, "return")
          [] OTHER -> st
  IN Run(Tail(list), after, vars, fuel)

Choose(alternatives, else, st, vars, fuel) ==
  IF alternatives = <<>>
  THEN IF else = <<>> THEN st ELSE Run(else[1], st, vars, fuel)
  ELSE IF Value(Head(alternatives).cond, st.env, vars) = 1
       THEN Run(Head(alternatives).body, st, vars, fuel)
       ELSE Choose(Tail(alternatives), else, st, vars, fuel)

\* EXIT ends the innermost loop, and only that one.
While(cond, body, step, st, vars, fuel) ==
  IF fuel = 0 THEN State(st.env, "endless")
  ELSE IF Value(cond, st.env, vars) = 0 THEN st
  ELSE LET once == Run(body, st, vars, fuel)
       IN CASE once.end = "exit" -> State(once.env, "next")
            [] once.end = "next" -> While(cond, body, step, Run(step, once, vars, fuel), vars, fuel - 1)
            [] OTHER -> once

Zero(type) == IF type.k = "ARRAY" THEN [i \in type.lower..type.upper |-> 0] ELSE 0

InitialEnv(vars) ==
  [name \in {vars[i].name : i \in 1..Len(vars)} |-> Zero(TypeIn(vars, name))]

\* The variables of a program after so many calls of it.
RECURSIVE After(_, _, _)
After(program, calls, fuel) ==
  IF calls = 0 THEN State(InitialEnv(program.vars), "next")
  ELSE LET before == After(program, calls - 1, fuel)
       IN IF before.end = "endless" THEN before
          ELSE Run(program.body, State(before.env, "next"), program.vars, fuel)
=============================================================================
