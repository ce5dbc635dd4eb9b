----------------------------- MODULE MCCompiler -----------------------------
(***************************************************************************)
(* The compiler on the programs of MCPrograms, against their meaning.      *)
(***************************************************************************)
EXTENDS Compiler

P == INSTANCE MCPrograms WITH Cell <- Base, Hosts <- Inputs

MCBase == 4
MCAppBase == 2
MCMemSize == 40
MCInputs == [x \in -8..7 |-> (x + 1) % 3]
MCFuel == 12

\* The programs, by their text; computed once.
Good == P!Texts(P!WellTyped)
Bad == P!Texts(P!Mistyped)
Leaving == P!Texts(P!Exits)
Written == Leaving @@ Bad @@ Good
GoodSources == DOMAIN Good \cup DOMAIN Bad \cup P!Broken
ExitSources == DOMAIN Leaving

-----------------------------------------------------------------------------
Main == ast[CHOOSE i \in DOMAIN ast : ast[i].unit = "PROGRAM"]
Symbols == Scope(Main)
MainWritten == LET units == Written[source] IN units[CHOOSE i \in DOMAIN units : units[i].unit = "PROGRAM"]

Extent(name) == Symbols[name].offset .. (Symbols[name].offset + Size(Symbols[name].type) - 1)
Assembled == stage \in {"emitted", "running", "idle", "trapped", "stuck"}

TypeOK ==
  /\ stage \in Stages
  /\ DOMAIN memory = 0..(MemSize - 1) /\ \A x \in DOMAIN memory : memory[x] \in 0..(Base - 1)
  /\ cycle \in 0..Cycles
  /\ stage = "running" => pc \in 1..Len(Body)
  /\ \A k \in DOMAIN stack : stack[k][1] \in {4, 8} /\ InRange(stack[k][2], stack[k][1])
  /\ \A k \in DOMAIN labels : labels[k].height \in 0..Len(stack) /\ labels[k].at < pc

\* The tree without its parentheses.
RECURSIVE Bare(_), BareList(_)
BareExprs(list) == [k \in DOMAIN list |-> Bare(list[k])]
Bare(x) ==
  CASE x.e = "paren" -> Bare(x.inner)
    [] x.e = "binary" -> [x EXCEPT !.left = Bare(x.left), !.right = Bare(x.right)]
    [] x.e = "unary" -> [x EXCEPT !.operand = Bare(x.operand)]
    [] x.e = "index" -> [x EXCEPT !.array = Bare(x.array), !.index = Bare(x.index)]
    [] x.e = "call" -> [x EXCEPT !.args = BareExprs(x.args)]
    [] OTHER -> x
BareStmt(x) ==
  CASE x.s = "assign" -> [x EXCEPT !.target = Bare(x.target), !.value = Bare(x.value)]
    [] x.s = "if" -> [x EXCEPT !.cond = Bare(x.cond), !.then = BareList(x.then),
                        !.elsifs = [k \in DOMAIN x.elsifs |->
                                      [cond |-> Bare(x.elsifs[k].cond), body |-> BareList(x.elsifs[k].body)]],
                        !.else = [k \in DOMAIN x.else |-> BareList(x.else[k])]]
    [] x.s = "case" -> [x EXCEPT !.selector = Bare(x.selector),
                          !.branches = [k \in DOMAIN x.branches |->
                                          [values |-> [m \in DOMAIN x.branches[k].values |->
                                                         BareExprs(x.branches[k].values[m])],
                                           body |-> BareList(x.branches[k].body)]],
                          !.else = [k \in DOMAIN x.else |-> BareList(x.else[k])]]
    [] x.s = "for" -> [x EXCEPT !.from = Bare(x.from), !.to = Bare(x.to), !.by = BareExprs(x.by),
                         !.body = BareList(x.body)]
    [] x.s = "while" -> [x EXCEPT !.cond = Bare(x.cond), !.body = BareList(x.body)]
    [] x.s = "repeat" -> [x EXCEPT !.body = BareList(x.body), !.until = Bare(x.until)]
    [] x.s \in {"call"} -> [x EXCEPT !.args = BareExprs(x.args)]
    [] OTHER -> x
BareList(list) == [k \in DOMAIN list |-> BareStmt(list[k])]

\* The parser reads back the program that was written, whatever its operators
\* and its nesting (frontend/parser.rs: one function per precedence level).
ParsedAsWritten ==
  stage = "parsed" =>
    [k \in DOMAIN ast |-> [ast[k] EXCEPT !.body = BareList(ast[k].body)]] = Written[source]

\* Exactly the broken texts and the mistyped programs are refused, each by the
\* stage that has to (typechecker.rs, the Err of check_statement and check_expr).
RefusesMistyped ==
  /\ stage = "rejected" => source \in DOMAIN Bad \cup P!Broken
  /\ stage = "parsed" => source \notin P!Broken
  /\ Assembled => source \notin DOMAIN Bad

\* What frontend/parser.rs and typechecker.rs hand to the code generator.
FrontEndIsRight == ParsedAsWritten /\ RefusesMistyped

\* Code of an accepted program never leaves the engine with operands of the
\* wrong width, a label that does not exist or a block that does not balance.
NeverStuck == stage # "stuck"

\* When a call of step is over, every variable has the value that the program,
\* read as Structured Text, gives it: over all calls so far.
WordOf(at, bytes) ==
  LET RECURSIVE Sum(_)
      Sum(k) == IF k = bytes THEN 0 ELSE memory[at + k] + Base * Sum(k + 1)
  IN Sum(0)
ValueAt(at, type) == P!Signed(WordOf(at, Size(type)) % (Base ^ Size(type)), Size(type))
ComputesMeaning ==
  stage = "idle" =>
    LET meant == P!After(MainWritten, cycle, MCFuel)
    IN /\ meant.end # "endless"
       /\ \A name \in DOMAIN Symbols :
            LET entry == Symbols[name]
            IN IF entry.type.k = "ARRAY"
               THEN \A k \in 0..entry.type.upper :
                      ValueAt(entry.offset + k * Size(entry.type.of), entry.type.of) = meant.env[name][k]
               ELSE ValueAt(entry.offset, entry.type) = meant.env[name]

\* The code does what was written, and does it to the end.
CodeIsRight == TypeOK /\ NeverStuck /\ ComputesMeaning

\* The same of the programs that leave a loop with EXIT from within an IF or an
\* inner loop (ir.rs:448, "branch to end of innermost loop").
ExitLeavesInnermost == ComputesMeaning

\* A store changes bytes of one variable, and of no other.
StoresInOneVariable ==
  [][LET changed == {x \in DOMAIN memory : memory'[x] # memory[x]}
     IN changed # {} => Cardinality({name \in DOMAIN Symbols : Extent(name) \cap changed # {}}) = 1
                        /\ \E name \in DOMAIN Symbols : changed \subseteq Extent(name)]_vars

\* Every call of step returns: the loops of these programs count to their bound.
StepsReturn == stage = "running" ~> stage \in {"idle", "trapped"}
=============================================================================
