----------------------------- MODULE ControlFlow -----------------------------
(***************************************************************************)
(* The control-flow graph that src/lang/analysis_cfg.py builds of a        *)
(* function's body for the source analysis.                                *)
(*                                                                         *)
(* A node is <<kind, path>>: "at" for the statement with that path, "merge"*)
(* for the point behind a statement where ways meet, "entry" and "exit".   *)
(* Labels and source text are left out.  A statement gives the edges it    *)
(* adds, out, the nodes the next statement follows, dead, the statements   *)
(* reported as unreachable, and broke, whether a break left the loop.      *)
(***************************************************************************)
EXTENDS Sequences, SequencesExt

Entry == <<"entry", <<>>>>
Exit == <<"exit", <<>>>>
AtNode(path) == <<"at", path>>
Merge(path) == <<"merge", path>>

\* F of a value that is evaluated once.
With(v, F(_)) == CHOOSE y \in {F(x) : x \in {v}} : TRUE

Flow(edges, out, dead, broke) ==
  [edges |-> edges, out |-> out, dead |-> dead, broke |-> broke]
connect(frontier, n) == {<<x, n>> : x \in frontier}
\* The ways in outs meet behind the statement, if there are any.
Join(outs, path) == IF outs = {} THEN {} ELSE {Merge(path)}
NoLoop == [inside |-> FALSE, brk |-> Exit, cont |-> Exit]
Loop(brk, cont) == [inside |-> TRUE, brk |-> brk, cont |-> cont]

RECURSIVE stmt(_, _, _, _)

\* Only the first statement that nothing leads to is reported, and those
\* behind it that come right after a statement that does not end.
block(ss, path, frontier, loop) ==
  FoldLeft(LAMBDA before, i : With(before, LAMBDA acc :
             With(stmt(ss[i], Append(path, i), acc.out, loop), LAMBDA s :
               Flow(acc.edges \cup s.edges, s.out,
                    acc.dead \cup s.dead
                      \cup (IF acc.out = {} THEN {Append(path, i)} ELSE {}),
                    acc.broke \/ s.broke))),
           Flow({}, frontier, {}, FALSE), [i \in DOMAIN ss |-> i])

\* Several blocks that start behind the node of the statement, side by side;
\* F makes a flow of what they give together.
Branches(bodies, path, frontier, loop, F(_)) ==
  With({block(bodies[i], Append(path, i), {AtNode(path)}, loop) : i \in DOMAIN bodies},
       LAMBDA flows :
         F(Flow(connect(frontier, AtNode(path)) \cup UNION {f.edges : f \in flows},
                UNION {f.out : f \in flows}, UNION {f.dead : f \in flows},
                \E f \in flows : f.broke)))

\* if and match: the ways out of the branches meet.
stmt_branches(bodies, path, frontier, loop) ==
  Branches(bodies, path, frontier, loop, LAMBDA b :
    Flow(b.edges \cup connect(b.out, Merge(path)), Join(b.out, path), b.dead, b.broke))

\* while and for-in: the test may always fail.
stmt_loop(s, path, frontier) ==
  Branches(<<s.body>>, path, frontier, Loop(Merge(path), AtNode(path)), LAMBDA b :
    Flow(b.edges \cup {<<AtNode(path), Merge(path)>>} \cup connect(b.out, AtNode(path)),
         {Merge(path)}, b.dead, FALSE))

\* Where a round of a for loop ends: its step, if it has one, else its test.
\* (mutant: continue skips the step)
round_end_test(s, path) == AtNode(path)
round_end(s, path) == IF s.step = <<>> THEN AtNode(path) ELSE AtNode(path \o <<3, 1>>)

\* Nothing follows a loop that has no condition and no break.
\* (mutant: only a condition ends the loop)
may_end_condition(s, broke) == s.c # <<>>
may_end(s, broke) == s.c # <<>> \/ broke

stmt_for(s, path, frontier) ==
  LET d == AtNode(path)
      init == {AtNode(path \o <<0, i>>) : i \in DOMAIN s.init}
      steps == {AtNode(path \o <<3, i>>) : i \in DOMAIN s.step}
      next == round_end(s, path)
  IN  Branches(<<s.body>>, path, IF init = {} THEN frontier ELSE init,
               Loop(Merge(path), next), LAMBDA b :
        Flow(UNION {connect(frontier, n) : n \in init}
               \cup (IF s.c = <<>> THEN {} ELSE {<<d, Merge(path)>>})
               \cup b.edges \cup connect(b.out, next) \cup connect(steps, d),
             IF may_end(s, b.broke) THEN {Merge(path)} ELSE {}, b.dead, FALSE))

stmt_letelse(s, path, frontier, loop) ==
  Branches(<<s.els>>, path, frontier, loop, LAMBDA b :
    Flow(b.edges \cup {<<AtNode(path), Merge(path)>>} \cup connect(b.out, Merge(path)),
         {Merge(path)}, b.dead, b.broke))

\* Where a statement that leaves its block goes.
Target(s, loop) ==
  CASE s.k \in {"return", "trap"}            -> {Exit}
    [] s.k = "break" /\ loop.inside          -> {loop.brk}
    [] s.k = "continue" /\ loop.inside       -> {loop.cont}
    [] OTHER                                 -> {}

stmt(s, path, frontier, loop) ==
  CASE s.k = "if"                  -> stmt_branches(<<s.body, s.els>>, path, frontier, loop)
    [] s.k \in {"while", "forin"}  -> stmt_loop(s, path, frontier)
    [] s.k = "for"                 -> stmt_for(s, path, frontier)
    [] s.k = "match"               ->
         stmt_branches([i \in DOMAIN s.arms |-> s.arms[i].body], path, frontier, loop)
    [] s.k = "letelse"             -> stmt_letelse(s, path, frontier, loop)
    [] OTHER ->
         LET n == AtNode(path)
             leaves == s.k \in {"return", "trap", "break", "continue"}
         IN  Flow(connect(frontier, n) \cup {<<n, t>> : t \in Target(s, loop)},
                  IF leaves THEN {} ELSE {n}, {}, s.k = "break" /\ loop.inside)

build(body) ==
  With(block(body, <<>>, {Entry}, NoLoop), LAMBDA b :
    [edges |-> b.edges \cup connect(b.out, Exit), dead |-> b.dead])

-----------------------------------------------------------------------------
\* The nodes other than merges that follow n in a graph.
RECURSIVE Followers(_, _)
Followers(graph, n) ==
  UNION {IF e[2][1] = "merge" THEN Followers(graph, e[2]) ELSE {e[2]} :
           e \in {x \in graph.edges : x[1] = n}}

=============================================================================
