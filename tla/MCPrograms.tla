---------------------------- MODULE MCPrograms ------------------------------
(***************************************************************************)
(* The programs the compiler is checked on.  Their declarations mix the    *)
(* sizes so that the layout has gaps, and an array whose size is not a     *)
(* power of two.                                                           *)
(***************************************************************************)
EXTENDS StReference

E(k) == Elementary(k)
Vars == << Decl("a", E("SINT")), Decl("n", E("INT")), Decl("r", ArrayOf(3, "SINT")),
           Decl("b", E("BOOL")), Decl("q", ArrayOf(2, "INT")), Decl("i", E("DINT")), Decl("j", E("DINT")), Decl("d", E("DINT")) >>
WideVars == << Decl("b", E("BOOL")), Decl("s", E("STRING")), Decl("w", E("LINT")), Decl("n", E("INT")),
               Decl("t", E("DATE")), Decl("v", E("LINT")) >>

a == Var("a")  b == Var("b")  d == Var("d")  i == Var("i")  j == Var("j")  n == Var("n")
w == Var("w")  v == Var("v")
Plus(x, y) == Bin(x, "+", y)

\* Expressions in which the precedence and the grouping of the operators show.
Numbers == {
  Bin(Bin(n, "-", d), "-", Lit(3)),
  Bin(n, "-", Bin(d, "-", Lit(3))),
  Bin(Lit(7), "-", Bin(n, "*", Bin(d, "+", Lit(2)))),
  Bin(Bin(d, "/", Lit(2)), "*", Bin(Lit(9), "MOD", Lit(4))),
  Plus(Host("read_di", <<Lit(0)>>), Bin(Host("get_cycle_time", <<>>), "*", Elem("r", Bin(Lit(1), "+", Lit(1))))),
  Plus(Bin(Lit(100), "+", Lit(27)), d) }

Conditions == {
  Bin(Bin(n, "<", Lit(2)), "AND", Un("NOT", b)),
  Bin(b, "OR", Bin(Bin(n, "=", Lit(1)), "AND", Bin(d, "<>", Lit(0)))),
  Bin(Bin(b, "XOR", Bin(n, ">", Lit(0))), "OR", Bin(d, "<=", Lit(1))) }

Simple == {
  <<Assign(n, Plus(n, Lit(1)))>>,
  <<Assign(a, n), Assign(d, Plus(Bin(d, "*", Lit(3)), Lit(1)))>>,
  <<Assign(Elem("r", Lit(2)), n), Nothing, Assign(b, Bin(Elem("r", Lit(2)), ">=", Elem("r", Lit(0))))>> }

Cases(s, t) ==
  CaseOf(n, <<[values |-> <<<<Lit(0)>>, <<Lit(2)>>>>, body |-> s],
              [values |-> <<<<Lit(1)>>>>, body |-> t]>>, <<<<Assign(n, Lit(0))>>>>)
Compounds(s, t) == {
  IfThen(Bin(n, "=", Lit(1)), s, <<[cond |-> Bin(d, ">", Lit(4)), body |-> t]>>, <<<<Assign(b, Bool(TRUE))>>>>),
  IfThen(Bin(n, "<", Lit(2)), t, <<>>, <<>>),
  Cases(s, t) }
\* Loops that count in i or j, up and down the sizes of their bodies.
Loops(s, x) == {
  ForDo(x, Lit(0), Lit(2), <<Lit(2)>>, s),
  WhileDo(Bin(Var(x), "<", Lit(2)), s \o <<Assign(Var(x), Plus(Var(x), Lit(1)))>>),
  RepeatUntil(<<Assign(Var(x), Plus(Var(x), Lit(1)))>> \o s, Bin(Var(x), ">", Lit(1))) }

s1 == <<Assign(n, Plus(n, Lit(1)))>>
s2 == <<Assign(Elem("q", Lit(1)), Plus(Elem("q", Lit(1)), n)), Assign(Elem("q", Lit(0)), Lit(2))>>

\* Straight lines, nested choices, a loop around everything, a loop in a loop,
\* and code after a RETURN or an EXIT that may be taken.
Bodies ==
  {<<Assign(d, x)>> : x \in Numbers} \cup {<<Assign(b, x)>> : x \in Conditions}
  \cup {<<c>> : c \in UNION {Compounds(s, t) : s \in Simple \cup {s2}, t \in Simple}}
  \cup {<<c>> \o s2 : c \in UNION {Compounds(<<k>>, s1) : k \in Compounds(s2, s1)}}
  \cup {<<l>> : l \in UNION {Loops(s, "i") : s \in Simple \cup {<<k>> : k \in Compounds(s1, s2)}}}
  \cup {<<l>> : l \in Loops(s2 \o <<ExitLoop>>, "i")}
  \cup {<<l>> : l \in UNION {Loops(<<Assign(j, Lit(0)), k>> \o s1, "i") : k \in Loops(s2, "j")}}
  \cup {<<IfThen(b, s1, <<>>, <<<<l>>>>), Assign(b, Bool(TRUE))>> : l \in Loops(s2, "j")}
  \cup {<<c, Cases(s1, <<ReturnNow>>), Assign(d, Plus(d, Lit(1)))>> : c \in Compounds(<<Cases(s1, s2)>>, s2)}
  \cup {<<Perform("read_di", <<n>>), Assign(j, Plus(n, Lit(2))),
          ForDo("i", n, j, <<>>, <<IfThen(b, s1, <<>>, <<s2>>)>>)>>}

\* It traps in its first call.
Trapping == <<Assign(d, Bin(Lit(3), "/", Bin(n, "-", n)))>>

WideBodies == {
  <<Assign(w, Lit(200)), Assign(v, Bin(Plus(w, Lit(300)), "*", Lit(150))), Assign(n, Bin(Lit(0), "-", Lit(3)))>>,
  <<Assign(v, Plus(v, Lit(130))), Assign(w, Bin(Bin(v, "*", Lit(200)), "/", v)), Assign(b, Bool(TRUE))>> }

WellTyped ==
  {<<Program(Vars, s1 \o body)>> : body \in Bodies \cup {Trapping}}
  \cup {<<Function("F", "INT", <<Decl("d", E("DINT"))>>, <<Assign(Var("F"), d)>>),
          Program(WideVars, body)>> : body \in WideBodies}

\* Programs a checker must refuse, each for one reason.
Mistyped ==
  {<<Program(Vars, <<x>>)>> : x \in {
     Assign(b, n), Assign(n, b), Assign(Var("zz"), n), Assign(n, Elem("n", Lit(0))),
     Assign(b, Bin(b, "AND", n)), Assign(b, Un("NOT", n)),
     Assign(n, Host("no_such", <<>>)), Perform("no_such", <<>>),
     IfThen(n, s1, <<>>, <<>>), IfThen(b, s1, <<[cond |-> n, body |-> s1]>>, <<>>),
     IfThen(b, s1, <<>>, <<<<Assign(n, b)>>>>),
     WhileDo(n, s1), RepeatUntil(s1, n), ForDo("zz", Lit(0), Lit(1), <<>>, s1),
     ForDo("i", Lit(0), Lit(1), <<Var("zz")>>, s1),
     CaseOf(n, <<[values |-> <<<<n>>>>, body |-> s1]>>, <<>>),
     CaseOf(n, <<[values |-> <<<<Lit(0), Lit(2)>>>>, body |-> s1]>>, <<>>)}}
  \cup {<<Program(WideVars, <<Assign(b, Bin(Bin(w, "+", w), "AND", b))>>)>>}

\* Programs in which EXIT stands below an IF, or in the inner of two loops.
Exits ==
  {<<Program(Vars, s1 \o body)>> : body \in {
     <<ForDo("i", Lit(0), Lit(2), <<>>,
         <<IfThen(Bin(i, "=", Lit(1)), <<Assign(i, Lit(5)), ExitLoop>>, <<>>, <<>>), Assign(d, Plus(d, Lit(1)))>>)>>,
     <<WhileDo(Bin(d, "<", Lit(3)), <<Assign(d, Plus(d, Lit(1))),
         IfThen(Bin(d, "=", Lit(1)), <<ExitLoop>>, <<>>, <<>>)>>)>>,
     <<ForDo("i", Lit(0), Lit(1), <<>>,
         <<WhileDo(Bin(d, "<", Lit(3)), <<Assign(d, Plus(d, Lit(1))), ExitLoop>>)>> \o s1)>>}}

Texts(programs) == [t \in {SourceText(p) : p \in programs} |-> CHOOSE p \in programs : SourceText(p) = t]

\* Texts from which a keyword has been left out, or with a type that is cut short.
Whole == SourceText(<<Program(Vars, <<IfThen(b, s1, <<>>, <<s2>>), ForDo("i", Lit(0), Lit(1), <<>>, s1)>>)>>)
Broken ==
  {SelectSeq(Whole, LAMBDA token : token # <<"w", keyword>>) :
     keyword \in {"PROGRAM", "END_PROGRAM", "END_VAR", "THEN", "END_IF", "TO", "END_FOR"}}
  \cup {SourceText(<<Program(<<Decl("n", E("INT")), Decl("t", E(k))>>, s1)>>) : k \in {"TIME_OF_DAY", "DATE_AND_TIME"}}
=============================================================================
