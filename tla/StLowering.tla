----------------------------- MODULE StLowering -----------------------------
(***************************************************************************)
(* The back end of the Structured Text compiler: ir.rs (typed tree to      *)
(* stack instructions) and codegen.rs (instructions to a Wasm module).     *)
(*                                                                         *)
(* An instruction is [op, w, n, arg]: its operation, the width in bytes of *)
(* the values it works on (4 is i32, 8 is i64), the bytes a load or store  *)
(* touches, and its immediate: a constant, an address, a label depth, a    *)
(* local, or the name of a function.                                       *)
(*                                                                         *)
(* Left out: REAL and LREAL code (the f32 and f64 instructions), and the   *)
(* shift and bit-string operators, which no source text can produce.       *)
(***************************************************************************)
EXTENDS StTypes

Instr(op, w, n, arg) == [op |-> op, w |-> w, n |-> n, arg |-> arg]
Op(op, w) == Instr(op, w, 0, 0)
Const32(v) == Instr("const", 4, 0, v)
Branch(op, depth) == Instr(op, 0, 0, depth)
Control(op) == Instr(op, 0, 0, 0)

(* A constant is cut to 32 bits (`as i32`).                                *)
Cut(v, bytes) == ((v + HalfRange(bytes)) % (Base ^ bytes)) - HalfRange(bytes)

(* emit_load, emit_store: the class of the type decides; narrow integers   *)
(* are sign-extended whatever their sign.                                  *)
ValueWidth(type) == IF type.k \in {"LINT", "ULINT", "LWORD", "TIME"} THEN 8 ELSE 4
Load(type, offset) == Instr("load", ValueWidth(type), Stored(type.k), offset)
Store(type) == Instr("store", ValueWidth(type), Stored(type.k), 0)

(* emit_binary_op: only the four arithmetic operators look at the width,   *)
(* and power leaves a constant behind.                                     *)
Wide(type) == IF type.k \in {"LINT", "ULINT", "TIME"} THEN 8 ELSE 4
BinaryOpNarrow(op, type) == IF op = "**" THEN Const32(1) ELSE Op(op, 4)
BinaryOp(op, type) ==
  IF op = "**" THEN Const32(1)
  ELSE Op(op, IF op \in {"+", "-", "*", "/"} THEN Wide(type) ELSE 4)

(* emit_unary_op: "negate" is value - 0; NOT is an exclusive or with one.  *)
UnaryOp(op) ==
  IF op = "-" THEN << Const32(0), Op("-", 4) >> ELSE << Const32(1), Op("XOR", 4) >>

LiteralNarrow(n) == Const32(n)
Literal(n) == IF InRange(n, 4) THEN Const32(n) ELSE Instr("const", 8, 0, n)

CallOf(name, sigs) == Instr(IF sigs[name].user THEN "calluser" ELSE "callhost", 0, 0, name)

(* lower_expr and push_address.                                            *)
RECURSIVE ExprCode(_, _, _), Address(_, _, _), ArgumentsCode(_, _, _)
ArgumentsCode(args, symbols, sigs) ==
  IF args = <<>> THEN <<>>
  ELSE ExprCode(Head(args), symbols, sigs) \o ArgumentsCode(Tail(args), symbols, sigs)

(* base + index * element_size: the lower bound is not subtracted.         *)
ElementAddressByIndex(x, symbols, sigs) ==
  Address(x.array, symbols, sigs) \o ExprCode(x.index, symbols, sigs) \o << Op("+", 4) >>
ElementAddress(x, symbols, sigs) ==
  Address(x.array, symbols, sigs) \o ExprCode(x.index, symbols, sigs)
  \o << Const32(Size(TypeOf(x, symbols, sigs))), Op("*", 4), Op("+", 4) >>

Address(x, symbols, sigs) ==
  CASE x.e = "var" -> << Const32(symbols[x.name].offset) >>
    [] x.e = "index" -> ElementAddress(x, symbols, sigs)
    [] OTHER -> << Const32(0) >>

ExprCode(x, symbols, sigs) ==
  LET E(y) == ExprCode(y, symbols, sigs)
      T(y) == TypeOf(y, symbols, sigs)
  IN CASE x.e = "int" -> << Literal(x.n) >>
       [] x.e = "bool" -> << Const32(IF x.b THEN 1 ELSE 0) >>
       [] x.e = "var" -> << Const32(0), Load(T(x), symbols[x.name].offset) >>
       [] x.e = "index" -> Append(ElementAddress(x, symbols, sigs), Load(T(x), 0))
       [] x.e = "field" -> Append(Address(x.object, symbols, sigs), Load(T(x), 0))
       [] x.e = "binary" -> Append(E(x.left) \o E(x.right), BinaryOp(x.op, T(x.left)))
       [] x.e = "unary" -> E(x.operand) \o UnaryOp(x.op)
       [] x.e = "call" -> Append(ArgumentsCode(x.args, symbols, sigs), CallOf(x.name, sigs))
       [] x.e = "paren" -> E(x.inner)

-----------------------------------------------------------------------------
(* Statements: code for one given the number of enclosing loops            *)
(* (loop_depth) and the temporaries already taken; the result is the code  *)
(* and the temporaries taken after it.                                     *)
Ends(k) == [i \in 1..k |-> Control("end")]
Code(code, locals) == [code |-> code, locals |-> locals]

(* The comparisons of one CASE branch: selector = v1 or selector = v2 ...  *)
RECURSIVE Matches(_, _, _)
Matches(values, local, j) ==
  IF j > Len(values) THEN <<>>
  ELSE << Instr("local.get", 4, 0, local), Const32(Cut(values[j][1].n, 4)), Op("=", 4) >>
       \o (IF j > 1 THEN << Op("OR", 4) >> ELSE <<>>)
       \o Matches(values, local, j + 1)

(* The exit test of each loop; label 1 is the block around it.             *)
UnlessSo(cond) == cond \o << Op("eqz", 4), Branch("br_if", 1) >>
IfSo(cond) == cond \o << Branch("br_if", 1) >>
Loop(test, body, after) ==
  << Control("block"), Control("loop") >> \o test \o body \o after
  \o << Branch("br", 0), Control("end"), Control("end") >>

(* The loop variable is handled as a 32-bit word at its offset.            *)
ForVariable(offset) == << Const32(0), Instr("load", 4, 4, offset) >>
ForStore(offset, value) == << Const32(0) >> \o value \o << Instr("store", 4, 4, offset) >>
ForStepOnly(offset, step) == ForStore(offset, step)
ForStep(offset, step) == ForStore(offset, ForVariable(offset) \o step \o << Op("+", 4) >>)

(* EXIT branches to the label loop_depth levels out, CONTINUE to label 0;  *)
(* neither counts the IF labels in between.                                *)
Exit(depth) == << Branch("br", depth) >>
Continue == << Branch("br", 0) >>

RECURSIVE StmtCode(_, _, _, _, _), ListCode(_, _, _, _, _), ElsifCode(_, _, _, _, _),
          BranchCode(_, _, _, _, _, _)

ListCode(list, depth, locals, symbols, sigs) ==
  IF list = <<>> THEN Code(<<>>, locals)
  ELSE LET first == StmtCode(Head(list), depth, locals, symbols, sigs)
           rest == ListCode(Tail(list), depth, first.locals, symbols, sigs)
       IN Code(first.code \o rest.code, rest.locals)

(* The ELSIF chain: an Else and a nested If for each.                      *)
ElsifCode(elsifs, depth, locals, symbols, sigs) ==
  IF elsifs = <<>> THEN Code(<<>>, locals)
  ELSE LET body == ListCode(Head(elsifs).body, depth, locals, symbols, sigs)
           rest == ElsifCode(Tail(elsifs), depth, body.locals, symbols, sigs)
       IN Code(<< Control("else") >> \o ExprCode(Head(elsifs).cond, symbols, sigs)
               \o << Control("if") >> \o body.code \o rest.code, rest.locals)

ElseCode(else, depth, locals, symbols, sigs) ==
  IF else = <<>> THEN Code(<<>>, locals)
  ELSE LET body == ListCode(else[1], depth, locals, symbols, sigs)
       IN Code(<< Control("else") >> \o body.code, body.locals)

(* The CASE chain over the branches, each but the last closed by an Else.  *)
BranchCode(branches, local, depth, locals, symbols, sigs) ==
  IF branches = <<>> THEN Code(<<>>, locals)
  ELSE LET body == ListCode(Head(branches).body, depth, locals, symbols, sigs)
           rest == BranchCode(Tail(branches), local, depth, body.locals, symbols, sigs)
       IN Code(Matches(Head(branches).values, local, 1) \o << Control("if") >> \o body.code
               \o (IF Tail(branches) = <<>> THEN <<>> ELSE << Control("else") >>) \o rest.code,
               rest.locals)

IfCode(stmt, depth, locals, symbols, sigs) ==
  LET then == ListCode(stmt.then, depth, locals, symbols, sigs)
      elsifs == ElsifCode(stmt.elsifs, depth, then.locals, symbols, sigs)
      else == ElseCode(stmt.else, depth, elsifs.locals, symbols, sigs)
  IN Code(ExprCode(stmt.cond, symbols, sigs) \o << Control("if") >> \o then.code
          \o elsifs.code \o else.code \o Ends(1 + Len(stmt.elsifs)), else.locals)

CaseCode(stmt, depth, locals, symbols, sigs) ==
  LET branches == BranchCode(stmt.branches, locals, depth, locals + 1, symbols, sigs)
      else == ElseCode(stmt.else, depth, branches.locals, symbols, sigs)
  IN Code(ExprCode(stmt.selector, symbols, sigs) \o << Instr("local.set", 4, 0, locals) >>
          \o branches.code \o else.code \o Ends(Len(stmt.branches)), else.locals)

ForCode(stmt, depth, locals, symbols, sigs) ==
  LET offset == symbols[stmt.variable].offset
      E(x) == ExprCode(x, symbols, sigs)
      body == ListCode(stmt.body, depth + 1, locals, symbols, sigs)
      step == IF stmt.by = <<>> THEN << Const32(1) >> ELSE E(stmt.by[1])
  IN Code(ForStore(offset, E(stmt.from))
          \o Loop(IfSo(ForVariable(offset) \o E(stmt.to) \o << Op(">", 4) >>), body.code,
                  ForStep(offset, step)),
          body.locals)

StmtCode(stmt, depth, locals, symbols, sigs) ==
  LET E(x) == ExprCode(x, symbols, sigs)
      body == ListCode(stmt.body, depth + 1, locals, symbols, sigs)
  IN CASE stmt.s = "assign" ->
            Code(Address(stmt.target, symbols, sigs) \o E(stmt.value)
                 \o << Store(TypeOf(stmt.target, symbols, sigs)) >>, locals)
       [] stmt.s = "if" -> IfCode(stmt, depth, locals, symbols, sigs)
       [] stmt.s = "case" -> CaseCode(stmt, depth, locals, symbols, sigs)
       [] stmt.s = "for" -> ForCode(stmt, depth, locals, symbols, sigs)
       [] stmt.s = "while" -> Code(Loop(UnlessSo(E(stmt.cond)), body.code, <<>>), body.locals)
       [] stmt.s = "repeat" -> Code(Loop(<<>>, body.code, IfSo(E(stmt.until))), body.locals)
       [] stmt.s = "exit" -> Code(Exit(depth), locals)
       [] stmt.s = "continue" -> Code(Continue, locals)
       [] stmt.s = "return" ->
            Code((IF stmt.value = <<>> THEN <<>> ELSE E(stmt.value[1])) \o << Control("return") >>, locals)
       [] stmt.s = "call" ->
            Code(ArgumentsCode(stmt.args, symbols, sigs)
                 \o << CallOf(stmt.name, sigs), Control("drop") >>, locals)
       [] stmt.s = "empty" -> Code(<<>>, locals)

(* lower(): one function per unit, in order; PROGRAMs are named "step".    *)
LowerUnits(units) ==
  [i \in 1..Len(units) |->
     LET body == ListCode(units[i].body, 0, 0, Scope(units[i]), Signatures(units))
     IN [name |-> IF units[i].unit = "PROGRAM" THEN "step" ELSE units[i].name,
         step |-> units[i].unit = "PROGRAM", locals |-> body.locals, body |-> body.code]]

-----------------------------------------------------------------------------
(* codegen.rs: imports first, then the functions in order, every one of    *)
(* them of type () -> (); calls are resolved to an index by name, the last *)
(* function of a name winning.                                             *)
HostIndex(name) == (CHOOSE i \in 1..Len(HostFunctions) : HostFunctions[i] = name) - 1

UserIndex(functions, name) ==
  LET Named == {i \in 1..Len(functions) : functions[i].name = name}
  IN Len(HostFunctions) + (CHOOSE i \in Named : \A j \in Named : j <= i) - 1

Resolve(functions, instr) ==
  CASE instr.op = "callhost" -> Instr("call", 0, 0, HostIndex(instr.arg))
    [] instr.op = "calluser" -> Instr("call", 0, 0, UserIndex(functions, instr.arg))
    [] OTHER -> instr

(* Each PROGRAM is exported under its index in the function index space.   *)
Exports(functions) ==
  {Len(HostFunctions) + i - 1 : i \in {j \in 1..Len(functions) : functions[j].step}}

EmitModule(functions) ==
  [code |-> [i \in 1..Len(functions) |->
               [locals |-> functions[i].locals,
                body |-> [j \in 1..Len(functions[i].body) |->
                            Resolve(functions, functions[i].body[j])]
                         \o << Control("end") >>]],
   step |-> Exports(functions)]
=============================================================================
