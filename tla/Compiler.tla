------------------------------ MODULE Compiler ------------------------------
(***************************************************************************)
(* From Structured Text to a running program: the four stages of           *)
(* Compiler::compile_st_to_wasm (lib.rs), and a Wasm engine that calls the *)
(* exported step function on the result, Cycles times on one memory.       *)
(*                                                                         *)
(* The engine is external.  It executes one instruction per step and is    *)
(* "stuck" where the operands, the labels or the stack at the end of a     *)
(* block are not what a validating engine demands; it refuses a module     *)
(* that exports step more than once.  A call of a function of the module   *)
(* is such a place too: every function has type () -> (), and the caller   *)
(* always wants a result, to use it or to drop it.                         *)
(***************************************************************************)
EXTENDS StParser, StLowering, FiniteSetsExt, Bitwise

CONSTANTS
  Sources,    \* the texts that may be given to the compiler
  MemSize,    \* bytes of linear memory
  Inputs,     \* what read_di, read_ai and get_cycle_time return, by argument
  Cycles      \* calls of step

ASSUME MemSizeAssumption == MemSize \in Nat /\ MemSize > AppBase
ASSUME CyclesAssumption == Cycles \in Nat

VARIABLES
  source,     \* the text
  stage,      \* what has been done with it
  ast, ir, wasm,
  memory, pc, stack, labels, locals, cycle   \* the engine

compilerVars == <<source, ast, ir, wasm>>
frameVars == <<pc, stack, labels, locals>>
vars == <<source, stage, ast, ir, wasm, memory, pc, stack, labels, locals, cycle>>

Stages == {"text", "parsed", "checked", "lowered", "emitted", "running", "idle",
           "rejected", "trapped", "stuck"}

Init ==
  /\ source \in Sources
  /\ stage = "text"
  /\ ast = <<>> /\ ir = <<>> /\ wasm = <<>>
  /\ memory = [a \in 0..(MemSize - 1) |-> 0]
  /\ pc = 0 /\ stack = <<>> /\ labels = <<>> /\ locals = <<>> /\ cycle = 0

-----------------------------------------------------------------------------
(* compile_st_to_wasm: each stage works on the result of the one before.   *)
engineVars == <<memory, pc, stack, labels, locals, cycle>>

Parse ==
  /\ stage = "text"
  /\ LET parsed == ParseUnits(source)
     IN IF parsed.ok THEN ast' = parsed.tree /\ stage' = "parsed"
        ELSE stage' = "rejected" /\ UNCHANGED ast
  /\ UNCHANGED <<source, ir, wasm>> /\ UNCHANGED engineVars

TypeCheck ==
  /\ stage = "parsed"
  /\ stage' = IF AcceptsUnits(ast) THEN "checked" ELSE "rejected"
  /\ UNCHANGED compilerVars /\ UNCHANGED engineVars

GenerateIr ==
  /\ stage = "checked"
  /\ ir' = LowerUnits(ast)
  /\ stage' = "lowered"
  /\ UNCHANGED <<source, ast, wasm>> /\ UNCHANGED engineVars

GenerateWasm ==
  /\ stage = "lowered"
  /\ wasm' = EmitModule(ir)
  /\ stage' = "emitted"
  /\ UNCHANGED <<source, ast, ir>> /\ UNCHANGED engineVars

-----------------------------------------------------------------------------
(* The engine.  A value on the stack is a pair of its width and its value; *)
(* a label remembers the instruction that opened it and the height of the  *)
(* stack there.                                                            *)
Function == wasm.code[(CHOOSE i \in wasm.step : TRUE) - Len(HostFunctions) + 1]
Body == Function.body
Current == Body[pc]

ArithmeticOps == {"+", "-", "*", "/", "MOD"}
BinaryOps == ArithmeticOps \cup Comparisons \cup Logical

(* The widths of the operands an instruction takes, top of stack last.     *)
Takes(instr) ==
  CASE instr.op \in {"load", "local.set", "eqz", "br_if", "if"} -> <<4>>
    [] instr.op = "store" -> <<4, instr.w>>
    [] instr.op \in BinaryOps -> <<instr.w, instr.w>>
    [] instr.op = "call" -> (CASE instr.arg \in {0, 2} -> <<4>>
                               [] instr.arg \in {1, 3} -> <<4, 4>>
                               [] OTHER -> <<>>)
    [] OTHER -> <<>>

Floor == IF labels = <<>> THEN 0 ELSE labels[Len(labels)].height

HasOperands(instr) ==
  LET k == Len(Takes(instr))
  IN /\ Len(stack) - Floor >= k
     /\ \A j \in 1..k : stack[Len(stack) - k + j][1] = Takes(instr)[j]

(* Labels 0, 1, ... are counted from the innermost; the last is the        *)
(* function's own.                                                         *)
Well(instr) ==
  /\ HasOperands(instr)
  /\ instr.op \in {"end", "else"} => Len(stack) = Floor
  /\ instr.op \in {"br", "br_if"} => instr.arg <= Len(labels)
  /\ instr.op = "drop" => Len(stack) > Floor
  /\ instr.op = "call" => instr.arg < Len(HostFunctions)

Popped(instr) == SubSeq(stack, 1, Len(stack) - Len(Takes(instr)))
Operand(instr, j) == stack[Len(stack) - Len(Takes(instr)) + j][2]

Truncate(a, b) ==
  LET Abs(x) == IF x < 0 THEN -x ELSE x
      q == Abs(a) \div Abs(b)
  IN IF (a < 0) = (b < 0) THEN q ELSE -q

Bit(b) == IF b THEN 1 ELSE 0

Arithmetic(op, a, b, w) ==
  LET u == a % (Base ^ w)
      v == b % (Base ^ w)
  IN CASE op = "+" -> Cut(a + b, w)
       [] op = "-" -> Cut(a - b, w)
       [] op = "*" -> Cut(a * b, w)
       [] op = "/" -> Cut(Truncate(a, b), w)
       [] op = "MOD" -> a - b * Truncate(a, b)
       [] op = "=" -> Bit(a = b)
       [] op = "<>" -> Bit(a # b)
       [] op = "<" -> Bit(a < b)
       [] op = "<=" -> Bit(a <= b)
       [] op = ">" -> Bit(a > b)
       [] op = ">=" -> Bit(a >= b)
       [] op = "AND" -> Cut(u & v, w)
       [] op = "OR" -> Cut(u | v, w)
       [] op = "XOR" -> Cut(u ^^ v, w)

Address32(instr) == (Operand(instr, 1) % (Base ^ 4)) + instr.arg

Traps(instr) ==
  \/ instr.op \in {"load", "store"} /\ Address32(instr) + instr.n > MemSize
  \/ /\ instr.op \in {"/", "MOD"}
     /\ \/ Operand(instr, 2) = 0
        \/ instr.op = "/" /\ Operand(instr, 1) = -HalfRange(instr.w) /\ Operand(instr, 2) = -1

RECURSIVE Word(_, _)
Word(a, n) == IF n = 0 THEN 0 ELSE memory[a] + Base * Word(a + 1, n - 1)

ResultWidth(instr) ==
  CASE instr.op \in {"const", "load"} \cup ArithmeticOps -> instr.w
    [] OTHER -> 4

Result(instr) ==
  CASE instr.op = "const" -> instr.arg
    [] instr.op = "local.get" -> locals[instr.arg + 1]
    [] instr.op = "load" -> Cut(Word(Address32(instr), instr.n), instr.n)
    [] instr.op = "eqz" -> Bit(Operand(instr, 1) = 0)
    [] instr.op = "call" -> Inputs[IF instr.arg = 4 THEN 0 ELSE Operand(instr, 1)]
    [] OTHER -> Arithmetic(instr.op, Operand(instr, 1), Operand(instr, 2), instr.w)

(* The end of the block opened at i, and the Else of the If opened at i    *)
(* (or its end).                                                           *)
RECURSIVE Closing(_, _, _)
Closing(i, nested, stopAtElse) ==
  CASE Body[i].op \in {"block", "loop", "if"} -> Closing(i + 1, nested + 1, stopAtElse)
    [] Body[i].op = "end" /\ nested > 0 -> Closing(i + 1, nested - 1, stopAtElse)
    [] Body[i].op = "end" /\ nested = 0 -> i
    [] stopAtElse /\ Body[i].op = "else" /\ nested = 0 -> i
    [] OTHER -> Closing(i + 1, nested, stopAtElse)

EndOf(i) == Closing(i + 1, 0, FALSE)
ElseOf(i) == Closing(i + 1, 0, TRUE)

Ready(ops) == stage = "running" /\ Current.op \in ops /\ Well(Current) /\ ~Traps(Current)
machineKept == <<source, ast, ir, wasm, stage, cycle>>

(* Instructions that push a value.                                         *)
Values == {"const", "local.get", "load", "eqz", "call"} \cup BinaryOps
Compute ==
  /\ Ready(Values)
  /\ stack' = IF Current.op = "call" /\ Current.arg \in {1, 3} THEN Popped(Current)
              ELSE Append(Popped(Current), <<ResultWidth(Current), Result(Current)>>)
  /\ pc' = pc + 1
  /\ UNCHANGED <<labels, locals, memory>> /\ UNCHANGED machineKept

StoreWord ==
  /\ Ready({"store"})
  /\ LET a == Address32(Current)
         v == Operand(Current, 2) % (Base ^ Current.n)
     IN memory' = [x \in DOMAIN memory |->
                     IF x \in a..(a + Current.n - 1) THEN (v \div Base ^ (x - a)) % Base
                     ELSE memory[x]]
  /\ stack' = Popped(Current)
  /\ pc' = pc + 1
  /\ UNCHANGED <<labels, locals>> /\ UNCHANGED machineKept

SetLocal ==
  /\ Ready({"local.set"})
  /\ locals' = [locals EXCEPT ![Current.arg + 1] = Operand(Current, 1)]
  /\ stack' = Popped(Current)
  /\ pc' = pc + 1
  /\ UNCHANGED <<labels, memory>> /\ UNCHANGED machineKept

Discard ==
  /\ Ready({"drop"})
  /\ stack' = SubSeq(stack, 1, Len(stack) - 1)
  /\ pc' = pc + 1
  /\ UNCHANGED <<labels, locals, memory>> /\ UNCHANGED machineKept

OpenBlock ==
  /\ Ready({"block", "loop", "if"})
  /\ LET taken == Current.op # "if" \/ Operand(Current, 1) # 0
         at == IF taken THEN pc ELSE ElseOf(pc)
         label == [at |-> pc, height |-> Len(Popped(Current))]
     IN /\ pc' = at + 1
        /\ labels' = IF taken \/ Body[at].op = "else" THEN Append(labels, label) ELSE labels
  /\ stack' = Popped(Current)
  /\ UNCHANGED <<locals, memory>> /\ UNCHANGED machineKept

(* The end of a block, or of its first half.                               *)
CloseBlock ==
  /\ Ready({"end", "else"})
  /\ labels # <<>>
  /\ pc' = EndOf(labels[Len(labels)].at) + 1
  /\ labels' = SubSeq(labels, 1, Len(labels) - 1)
  /\ UNCHANGED <<stack, locals, memory>> /\ UNCHANGED machineKept

(* A branch that leaves its label, and one back to the start of a loop.    *)
Jumps == Current.op = "br_if" => Operand(Current, 1) # 0
Target == labels[Len(labels) - Current.arg]

Jump ==
  /\ Ready({"br", "br_if"})
  /\ Jumps => Current.arg < Len(labels)
  /\ IF ~Jumps
     THEN pc' = pc + 1 /\ stack' = Popped(Current) /\ UNCHANGED labels
     ELSE LET back == Body[Target.at].op = "loop"
          IN /\ pc' = IF back THEN Target.at + 1 ELSE EndOf(Target.at) + 1
             /\ labels' = SubSeq(labels, 1, Len(labels) - Current.arg - Bit(~back))
             /\ stack' = SubSeq(stack, 1, Target.height)
  /\ UNCHANGED <<locals, memory>> /\ UNCHANGED machineKept

(* Back to the host: the end of the function, a return, or a branch to     *)
(* the function's label.                                                   *)
Leaves ==
  \/ Ready({"return"})
  \/ Ready({"end"}) /\ labels = <<>>
  \/ Ready({"br", "br_if"}) /\ Jumps /\ Current.arg = Len(labels)

Finish ==
  /\ stage = "running" /\ Leaves
  /\ stage' = "idle"
  /\ pc' = 0 /\ stack' = <<>> /\ labels' = <<>> /\ locals' = <<>>
  /\ UNCHANGED <<memory, cycle>> /\ UNCHANGED compilerVars

(* The host calls step; its locals start at zero, the memory is the one    *)
(* the last call left.                                                     *)
CallStep ==
  /\ stage \in {"emitted", "idle"}
  /\ cycle < Cycles
  /\ Cardinality(wasm.step) = 1
  /\ stage' = "running"
  /\ pc' = 1 /\ stack' = <<>> /\ labels' = <<>>
  /\ locals' = [i \in 1..Function.locals |-> 0]
  /\ cycle' = cycle + 1
  /\ UNCHANGED memory /\ UNCHANGED compilerVars

(* Where the engine gives up: a trap of the program, or a module that a    *)
(* validating engine would not have taken.                                 *)
Stopped ==
  CASE stage = "emitted" /\ Cardinality(wasm.step) # 1 -> "stuck"
    [] stage = "running" /\ ~Well(Current) -> "stuck"
    [] stage = "running" /\ Well(Current) /\ Traps(Current) -> "trapped"
    [] OTHER -> stage

Stop ==
  /\ stage' = Stopped
  /\ stage' # stage
  /\ UNCHANGED compilerVars /\ UNCHANGED engineVars

Compile == Parse \/ TypeCheck \/ GenerateIr \/ GenerateWasm
Engine ==
  \/ Compute \/ StoreWord \/ SetLocal \/ Discard \/ OpenBlock \/ CloseBlock \/ Jump \/ Finish
  \/ CallStep \/ Stop

Over ==
  \/ stage \in {"rejected", "trapped", "stuck"}
  \/ stage \in {"emitted", "idle"} /\ cycle = Cycles

(* Nothing left to do.                                                     *)
Rest == Over /\ UNCHANGED vars

Next == Compile \/ Engine \/ Rest

(* The engine does not stop by itself.                                     *)
Spec == Init /\ [][Next]_vars /\ WF_vars(Engine)
=============================================================================
