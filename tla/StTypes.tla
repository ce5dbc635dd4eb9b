------------------------------ MODULE StTypes -------------------------------
(***************************************************************************)
(* The type checker of the Structured Text compiler (typechecker.rs, and   *)
(* the type tables of frontend/ast.rs): storage layout, expression types,  *)
(* and which programs are accepted.  The typed tree of the code is the     *)
(* parse tree together with the symbol table: a type or an offset is       *)
(* looked up where the code reads it from the typed node.                  *)
(*                                                                         *)
(* A byte holds Base values instead of 256, so that a 32-bit word has      *)
(* Base^4 of them; sizes and offsets are in bytes, as in the code.         *)
(* AppBase is the offset of the first variable (0x100 in the code).        *)
(***************************************************************************)
EXTENDS StLayout, TLC, Functions

CONSTANTS Base, AppBase

ASSUME BaseAssumption == Base \in Nat /\ Base > 1 /\ Base % 2 = 0
ASSUME AppBaseAssumption == AppBase \in Nat

Type(k) == [k |-> k]
Error == Type("error")

Numeric == {"SINT", "INT", "DINT", "LINT", "USINT", "UINT", "UDINT", "ULINT", "REAL", "LREAL"}

(* size_bytes() knows no size of a named type or a STRING, nor of an array *)
(* of them: each of these, the whole array too, is given 4 bytes.          *)
RECURSIVE HasSize(_), Size(_)
HasSize(type) == IF type.k = "ARRAY" THEN HasSize(type.of) ELSE type.k \in Scalars
Size(type) ==
  CASE type.k = "ARRAY" /\ HasSize(type) -> (type.upper - type.lower + 1) * Size(type.of)
    [] type.k = "ARRAY" /\ ~HasSize(type) -> 4
    [] OTHER -> ScalarSize(type.k)

-----------------------------------------------------------------------------
(* The symbol table of a unit: its declarations, and for a function its    *)
(* name, which is the result variable and is placed first and unaligned.   *)
Scope(unit) ==
  LET names == [n \in 1..Len(unit.vars) |-> unit.vars[n].name]
      sizes == [n \in 1..Len(unit.vars) |-> Size(unit.vars[n].type)]
      result == IF unit.unit = "FUNCTION"
                THEN unit.name :> [type |-> unit.type, offset |-> AppBase]
                ELSE <<>>
      start == IF unit.unit = "FUNCTION" THEN AppBase + Size(unit.type) ELSE AppBase
      offsets == Offsets(start, names, sizes)
  IN [name \in DOMAIN offsets |->
        [type |-> unit.vars[LastOf(names, name)].type, offset |-> offsets[name]]] @@ result

(* The functions a call may name: the five host imports, in their import   *)
(* order, and every FUNCTION and FUNCTION_BLOCK of the text.               *)
HostFunctions == <<"read_di", "write_do", "read_ai", "write_ao", "get_cycle_time">>

HostResult(name) == IF name \in {"write_do", "write_ao"} THEN Type("BOOL") ELSE Type("INT")

Signatures(units) ==
  LET Callable == {i \in 1..Len(units) : units[i].unit # "PROGRAM"}
      Names == {units[i].name : i \in Callable}
      Last(name) == CHOOSE i \in Callable :
                      units[i].name = name /\ \A j \in Callable : units[j].name = name => j <= i
  IN [name \in Names |-> [type |-> units[Last(name)].type, user |-> TRUE]]
     @@ [name \in Range(HostFunctions) |-> [type |-> HostResult(name), user |-> FALSE]]

-----------------------------------------------------------------------------
(* Expression types; Error is the checker's Err.                           *)
HalfRange(bytes) == (Base ^ bytes) \div 2
InRange(n, bytes) == n >= -HalfRange(bytes) /\ n < HalfRange(bytes)

(* A literal has the narrowest signed type that holds it.                  *)
LiteralType(n) ==
  CASE InRange(n, 1) -> Type("SINT")
    [] ~InRange(n, 1) /\ InRange(n, 2) -> Type("INT")
    [] ~InRange(n, 2) /\ InRange(n, 4) -> Type("DINT")
    [] OTHER -> Type("LINT")

Promote(left, right) ==
  LET Either(k) == Type(k) \in {left, right}
  IN CASE Either("LREAL") -> Type("LREAL")
       [] ~Either("LREAL") /\ Either("REAL") -> Type("REAL")
       [] ~Either("LREAL") /\ ~Either("REAL") /\ Either("LINT") -> Type("LINT")
       [] ~Either("LREAL") /\ ~Either("REAL") /\ ~Either("LINT") /\ Either("DINT") -> Type("DINT")
       [] OTHER -> Type("INT")

Comparisons == {"=", "<>", "<", "<=", ">", ">="}
Logical == {"AND", "OR", "XOR"}

ResultTypeUnchecked(left, op, right) ==
  CASE op \in Comparisons \cup Logical -> Type("BOOL")
    [] OTHER -> Promote(left, right)
ResultType(left, op, right) ==
  CASE op \in Comparisons -> Type("BOOL")
    [] op \in Logical -> IF left = Type("BOOL") /\ right = Type("BOOL") THEN Type("BOOL") ELSE Error
    [] OTHER -> Promote(left, right)

RECURSIVE TypeOf(_, _, _)
TypeOf(x, symbols, sigs) ==
  LET T(y) == TypeOf(y, symbols, sigs)
  IN CASE x.e = "int" -> LiteralType(x.n)
       [] x.e = "bool" -> Type("BOOL")
       [] x.e = "var" -> IF x.name \in DOMAIN symbols THEN symbols[x.name].type ELSE Error
       [] x.e = "index" -> IF T(x.array).k = "ARRAY" /\ T(x.index) # Error
                           THEN T(x.array).of ELSE Error
       [] x.e = "field" -> IF T(x.object) # Error THEN Type("INT") ELSE Error
       [] x.e = "binary" -> IF Error \in {T(x.left), T(x.right)} THEN Error
                            ELSE ResultType(T(x.left), x.op, T(x.right))
       [] x.e = "unary" -> IF x.op = "NOT" /\ T(x.operand) # Type("BOOL") THEN Error
                           ELSE T(x.operand)
       [] x.e = "call" -> IF x.name \in DOMAIN sigs /\ \A i \in 1..Len(x.args) : T(x.args[i]) # Error
                          THEN sigs[x.name].type ELSE Error
       [] x.e = "paren" -> T(x.inner)

Assignable(target, source) ==
  target # Error /\ source # Error
  /\ (target = source \/ (target.k \in Numeric /\ source.k \in Numeric))

(* check_statement: TRUE when it returns Ok.                               *)
RECURSIVE Accepts(_, _, _)
Accepts(stmt, symbols, sigs) ==
  LET T(x) == TypeOf(x, symbols, sigs)
      All(list) == \A i \in 1..Len(list) : Accepts(list[i], symbols, sigs)
      AllTyped(list) == \A i \in 1..Len(list) : T(list[i]) # Error
      IsBool(x) == T(x) = Type("BOOL")
      AllElse(list) == \A i \in 1..Len(list) : All(list[i])
  IN CASE stmt.s = "assign" -> Assignable(T(stmt.target), T(stmt.value))
       [] stmt.s = "if" ->
            /\ IsBool(stmt.cond) /\ All(stmt.then) /\ AllElse(stmt.else)
            /\ \A i \in 1..Len(stmt.elsifs) : IsBool(stmt.elsifs[i].cond) /\ All(stmt.elsifs[i].body)
       [] stmt.s = "for" ->
            /\ stmt.variable \in DOMAIN symbols
            /\ T(stmt.from) # Error /\ T(stmt.to) # Error /\ AllTyped(stmt.by) /\ All(stmt.body)
       [] stmt.s = "while" -> IsBool(stmt.cond) /\ All(stmt.body)
       [] stmt.s = "repeat" -> All(stmt.body) /\ IsBool(stmt.until)
       [] stmt.s = "case" ->
            /\ T(stmt.selector) # Error /\ AllElse(stmt.else)
            /\ \A i \in 1..Len(stmt.branches) :
                 /\ All(stmt.branches[i].body)
                 /\ \A j \in 1..Len(stmt.branches[i].values) :
                      Len(stmt.branches[i].values[j]) = 1 /\ stmt.branches[i].values[j][1].e = "int"
       [] stmt.s = "return" -> AllTyped(stmt.value)
       [] stmt.s = "call" -> stmt.name \in DOMAIN sigs /\ AllTyped(stmt.args)
       [] OTHER -> TRUE

(* check(): every unit against its own scope and all the signatures.       *)
AcceptsUnits(units) ==
  \A i \in 1..Len(units) : \A j \in 1..Len(units[i].body) :
    Accepts(units[i].body[j], Scope(units[i]), Signatures(units))
=============================================================================
