------------------------------- MODULE Engines -------------------------------
(***************************************************************************)
(* The bytecode machine against what the rest of the front end says of a   *)
(* program: the meaning the tree interpreter gives it, what the checker    *)
(* promises, the compile-time depths of the compiler, the control-flow     *)
(* graph of the source analysis.                                           *)
(***************************************************************************)
EXTENDS BCVerifier

Checks == INSTANCE Checker
Compiler == INSTANCE BCCompiler
Tree == INSTANCE TreeInterpreter
Graph == INSTANCE ControlFlow

Interpreted(pg, values) ==
  With(Tree!run(pg, values), LAMBDA r :
    [sig |-> r.sig, v |-> r.v, out |-> r.m.out])

\* A graph as the marks of the statements that may follow one another: <<>> is
\* before the first one, <<<<>>>> the end of the body.
MarkOf(n) ==
  CASE n = Graph!Entry -> <<>> [] n = Graph!Exit -> <<<<>>>> [] OTHER -> <<n[2]>>
Flow(g) ==
  UNION {{<<MarkOf(n), MarkOf(x)>> : x \in Graph!Followers(g, n)} :
           n \in {e[1] : e \in g.edges}}
Graphs(functions) ==
  [n \in DOMAIN functions |->
     With(Graph!build(functions[n].body), LAMBDA g : [flow |-> Flow(g), dead |-> g.dead])]

\* The views that the entries of a function lead to.  An instruction that is not
\* sound leads nowhere.
RECURSIVE Explore(_, _, _, _)
Explore(r, f, known, fresh) ==
  IF fresh = {} THEN known
  ELSE With(known \cup fresh, LAMBDA seen :
       With(UNION {IF Sound(r, f, a) THEN Steps(r.code[f].code[a.ip], a) ELSE {} :
                     a \in fresh} \ seen, LAMBDA next :
         Explore(r, f, seen, next)))
Views(r) ==
  [f \in DOMAIN r.code |-> With(Entries(r, f), LAMBDA es : Explore(r, f, {}, es))]

\* What the front end makes of a program: a run for every input, which also
\* says what the tree interpreter does with it and how control may flow.
FrontEnd(pg) ==
  With(Compiler!funcs(pg), LAMBDA functions :
  With([code |-> Compiler!compile(pg, functions), graph |-> Graphs(functions)], LAMBDA made :
  With(Views(made), LAMBDA views :
    [i \in DOMAIN pg.inputs |->
       [code |-> made.code, graph |-> made.graph, views |-> views,
        input |-> pg.inputs[i], tree |-> Interpreted(pg, pg.inputs[i])]])))

\* The checker refuses the others.
RunsOf(programs) ==
  With(programs, LAMBDA pgs :
    With([i \in DOMAIN pgs |-> IF Checks!check(pgs[i]) THEN FrontEnd(pgs[i]) ELSE <<>>]
           \o <<>>,
         FlattenSeq))

tree == run.tree

-----------------------------------------------------------------------------
\* The machine does what the tree interpreter does: the same events in the
\* same order and the same end, and it gets there.  (Compiler, machine and
\* interpreter are separate programs that have to agree.)
Observed == INSTANCE Meaning WITH
  events <- tree.out, result <- [sig |-> tree.sig, v |-> tree.v],
  shown <- out, outcome <- status
AgreesWithTree == Observed!Spec

\* The trap behind a match that the checker calls exhaustive, or behind a
\* let-else block that it says does not end, is never reached.
NeverFallsThrough == IsRunning => Ins.op # "TRAP_MATCH"

=============================================================================
