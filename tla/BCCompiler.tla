------------------------------ MODULE BCCompiler ------------------------------
(***************************************************************************)
(* The compiler of src/lang/bytecode.py from checked programs to stack     *)
(* bytecode.                                                               *)
(*                                                                         *)
(* A jump holds the distance to its target where the code, patched when    *)
(* the target is known, holds its address.  break and continue are emitted *)
(* as BREAK and CONTINUE and become jumps when their loop is complete, as  *)
(* the lists of jumps to patch that the code keeps for every loop.         *)
(*                                                                         *)
(* c is the compile-time context: d is scope_depth; bd and cd the depths   *)
(* that break and continue of the innermost loop unwind to; h the number   *)
(* of operands the statement has on the stack, which the code does not     *)
(* count.  Every instruction keeps the d and h it is emitted under, and    *)
(* the first one of a statement the path of the statement as its mark.     *)
(***************************************************************************)
EXTENDS LangValues, FiniteSets, TLC

At(op, arg, c) == [op |-> op, arg |-> arg, d |-> c.d, h |-> c.h, mark |-> <<>>]
Operands(c, n) == [c EXCEPT !.h = @ + n]
Deeper(c, n) == [c EXCEPT !.d = @ + n]
Mark(code, path) == [code EXCEPT ![1].mark = <<path>>]

-----------------------------------------------------------------------------
(* Anonymous functions, numbered in the order in which they begin; within is  *)
(* the one around it, 0 for none                                              *)

RECURSIVE Around(_, _)
Around(pg, i) == IF i = 0 THEN {} ELSE {i} \cup Around(pg, pg.anons[i].within)

\* The code counts the functions that are complete when this one begins.
anon_name(pg, i) == "$anon" \o ToString(Cardinality((1..i) \ Around(pg, i)))
anon_names(pg) == {anon_name(pg, i) : i \in DOMAIN pg.anons}

\* What ends up under a name: the function that was completed last, which is
\* the outermost one.
funcs(pg) ==
  pg.fns @@ [n \in anon_names(pg) |->
               pg.anons[CHOOSE i \in DOMAIN pg.anons :
                          /\ anon_name(pg, i) = n
                          /\ \A j \in DOMAIN pg.anons : anon_name(pg, j) = n => i <= j]]

-----------------------------------------------------------------------------
(* Expressions leave one operand, places one place *)

\* A structural query: it emits nothing.  onref says that the checker gave the
\* base of the field a reference type.
RECURSIVE can_place(_)
can_place(e) ==
  \/ e.k \in {"qname", "index"}
  \/ e.k = "unary" /\ e.op = "*"
  \/ e.k = "field" /\ (can_place(e.e) \/ e.onref)

RECURSIVE expr(_, _, _), place(_, _, _)

exprs(pg, es, c) ==
  FlattenSeq([i \in DOMAIN es |-> expr(pg, es[i], Operands(c, i - 1))])

\* es, then one instruction on their values.
Apply(pg, es, op, arg, c) == exprs(pg, es, c) \o <<At(op, arg, Operands(c, Len(es)))>>

place(pg, e, c) ==
  LET c1 == Operands(c, 1)
      Fields(q) == [i \in DOMAIN q |-> At("FIELD_PLACE", q[i], c1)]
  IN  CASE e.k = "qname" -> <<At("LOCAL_PLACE", e.q[1], c)>> \o Fields(Tail(e.q))
        [] e.k = "index" -> Apply(pg, <<e.l, e.r>>, "INDEX_PLACE", <<>>, c)
        [] e.k = "unary" -> Apply(pg, <<e.e>>, "DEREF_PLACE", <<>>, c)
        [] e.k = "field" ->
             IF can_place(e.e) THEN place(pg, e.e, c) \o Fields(<<e.f>>)
             ELSE Apply(pg, <<e.e>>, "VALUE_FIELD_PLACE", e.f, c)

expr_qname(pg, q, c) ==
  IF Len(q) = 1 /\ q[1] \in DOMAIN pg.consts THEN <<At("PUSH", pg.consts[q[1]], c)>>
  ELSE IF Len(q) = 1 /\ q[1] \in DOMAIN pg.fns THEN <<At("PUSH_FUNC", q[1], c)>>
  ELSE IF q[1] = "host" THEN <<At("HOST_MEMBER", q[2], c)>>
  ELSE <<At("LOAD", q[1], c)>>
         \o [i \in 1..(Len(q) - 1) |-> At("GET_FIELD", q[i + 1], Operands(c, 1))]

\* The right operand of && and || is jumped over with the left one kept.
expr_binary(pg, e, c) ==
  LET c1 == Operands(c, 1)
      right == expr(pg, e.r, c)
      keep == IF e.op = "&&" THEN "JUMP_IF_FALSE_KEEP" ELSE "JUMP_IF_TRUE_KEEP"
  IN  IF e.op \in {"&&", "||"}
      THEN expr(pg, e.l, c)
             \o <<At(keep, Len(right) + 2, c1), At("POP", <<>>, c1)>> \o right
      ELSE Apply(pg, <<e.l, e.r>>, "BIN", <<e.op, e.ty>>, c)

Builtin == [len |-> "LEN", push |-> "ARRAY_PUSH", pop |-> "ARRAY_POP", splice |-> "ARRAY_SPLICE"]

expr_call(pg, e, c) ==
  LET q == IF e.cal.k = "qname" THEN e.cal.q ELSE <<"", "">>
  IN  IF Len(q) = 1 /\ q[1] \in DOMAIN Builtin THEN Apply(pg, e.es, Builtin[q[1]], <<>>, c)
      ELSE IF Len(q) = 1 /\ q[1] \in DOMAIN pg.fns
           THEN Apply(pg, e.es, "CALL_NAMED", <<q[1], Len(e.es)>>, c)
      ELSE Apply(pg, <<e.cal>> \o e.es, "CALL_VALUE", Len(e.es), c)

expr(pg, e, c) ==
  CASE e.k = "lit"       -> <<At(IF e.v = Unit THEN "PUSH_UNIT" ELSE "PUSH", e.v, c)>>
    [] e.k = "int"       -> <<At("PUSH_INT", <<e.n, e.ty>>, c)>>
    [] e.k = "some"      -> Apply(pg, <<e.e>>, "MAKE_SOME", <<>>, c)
    [] e.k = "array"     -> Apply(pg, e.es, "MAKE_ARRAY", Len(e.es), c)
    [] e.k = "repeat"    -> Apply(pg, <<e.l, e.r>>, "MAKE_REPEAT", <<>>, c)
    [] e.k = "qname"     -> expr_qname(pg, e.q, c)
    [] e.k = "unary"     ->
         IF e.op = "*" THEN Apply(pg, <<e.e>>, "DEREF", <<>>, c)
         ELSE Apply(pg, <<e.e>>, "UNARY", <<e.op, e.ty>>, c)
    [] e.k = "is"        ->
         Apply(pg, <<e.e>>, "TRY_PATTERN", e.p, c)
           \o <<At("PATTERN_TO_BOOL", <<>>, Operands(c, 1))>>
    [] e.k = "binary"    -> expr_binary(pg, e, c)
    [] e.k = "cast"      -> Apply(pg, <<e.e>>, "CAST", e.ty, c)
    [] e.k = "new"       -> Apply(pg, <<e.e>>, "NEW", <<>>, c)
    [] e.k = "index"     -> Apply(pg, <<e.l, e.r>>, "INDEX", <<>>, c)
    [] e.k = "field"     -> Apply(pg, <<e.e>>, "GET_FIELD", e.f, c)
    [] e.k = "structlit" -> Apply(pg, e.es, "MAKE_STRUCT", e.names, c)
    [] e.k = "variant"   -> Apply(pg, e.es, "MAKE_ENUM", <<e.en, e.vn, Len(e.es)>>, c)
    [] e.k = "call"      -> expr_call(pg, e, c)
    [] e.k = "anonfn"    -> <<At("PUSH_FUNC", anon_name(pg, e.f), c)>>

\* Leaves a truth value, and the bindings of the pattern pending.
condition(pg, e, c) ==
  IF e.k = "is" THEN expr(pg, e, c)
  ELSE expr(pg, e, c) \o <<At("NO_BINDINGS", <<>>, Operands(c, 1))>>

-----------------------------------------------------------------------------
(* Statements *)

RECURSIVE stmt(_, _, _, _)

block(pg, ss, path, c) ==
  FlattenSeq([i \in DOMAIN ss |-> stmt(pg, ss[i], Append(path, i), c)])

\* A block in a scope of its own; op opens it, SCOPE_EXIT ends it.
Scope(pg, op, ss, path, c) ==
  <<At(op, <<>>, c)>> \o block(pg, ss, path, Deeper(c, 1))
    \o <<At("SCOPE_EXIT", <<>>, Deeper(c, 1))>>

\* (mutant: a jump out of a loop leaves its scopes)
unwind_nothing(c, depth) == <<>>
emit_unwind(c, depth) ==
  IF c.d = depth THEN <<>> ELSE <<At("UNWIND", c.d - depth, c)>>
Leave(op, c, depth) ==
  emit_unwind(c, depth) \o <<At(op, <<>>, [c EXCEPT !.d = depth])>>

\* The jumps out of a loop's body get the end of the loop and the place where
\* the next round starts as targets.
Patch(code, end, cont) ==
  [i \in DOMAIN code |->
     CASE code[i].op = "BREAK"    -> [code[i] EXCEPT !.op = "JUMP", !.arg = end - i]
       [] code[i].op = "CONTINUE" -> [code[i] EXCEPT !.op = "JUMP", !.arg = cont - i]
       [] OTHER                   -> code[i]]

\* (mutant: a compound assignment finds its place twice)
stmt_assign_twice(pg, s, c) ==
  LET c1 == Operands(c, 1)
      c2 == Operands(c, 2)
  IN  place(pg, s.l, c)
        \o (IF s.op = "=" THEN expr(pg, s.r, c1)
            ELSE place(pg, s.l, c1) \o <<At("LOAD_PLACE", <<>>, c2)>>
                   \o expr(pg, s.r, c2) \o <<At("BIN", <<s.op, s.ty>>, Operands(c, 3))>>)
        \o <<At("STORE_PLACE", <<>>, c2)>>
stmt_assign(pg, s, c) ==
  LET c1 == Operands(c, 1)
      c2 == Operands(c, 2)
  IN  place(pg, s.l, c)
        \o (IF s.op = "=" THEN expr(pg, s.r, c1)
            ELSE <<At("DUP", <<>>, c1), At("LOAD_PLACE", <<>>, c2)>>
                   \o expr(pg, s.r, c2) \o <<At("BIN", <<s.op, s.ty>>, Operands(c, 3))>>)
        \o <<At("STORE_PLACE", <<>>, c2)>>

stmt_if(pg, s, path, c) ==
  LET yes == Scope(pg, "SCOPE_ENTER_BINDINGS", s.body, Append(path, 1), c)
      no == Scope(pg, "SCOPE_ENTER", s.els, Append(path, 2), c)
  IN  Mark(condition(pg, s.c, c), path)
        \o <<At("JUMP_IF_FALSE", Len(yes) + 2, Operands(c, 1))>> \o yes
        \o <<At("JUMP", Len(no) + 2, c), At("DROP_BINDINGS", <<>>, c)>> \o no

stmt_while(pg, s, path, c) ==
  LET test == Mark(condition(pg, s.c, c), path)
      body == Scope(pg, "SCOPE_ENTER_BINDINGS", s.body, Append(path, 1),
                    [c EXCEPT !.bd = c.d, !.cd = c.d])
      cont == Len(test) + Len(body) + 2
  IN  Patch(test \o <<At("JUMP_IF_FALSE", Len(body) + 2, Operands(c, 1))>> \o body
              \o <<At("JUMP", 1 - cont, c), At("DROP_BINDINGS", <<>>, c)>>,
            cont + 2, cont)

stmt_for(pg, s, path, c) ==
  LET c1 == Deeper(c, 1)
      init == <<At("SCOPE_ENTER", <<>>, c)>> \o block(pg, s.init, Append(path, 0), c1)
      body == Scope(pg, "SCOPE_ENTER", s.body, Append(path, 1),
                    [c1 EXCEPT !.bd = c.d, !.cd = c1.d])
      step == block(pg, s.step, Append(path, 3), c1)
      test == IF s.c = <<>> THEN <<>>
              ELSE condition(pg, s.c[1], c1)
                     \o <<At("JUMP_IF_FALSE", Len(body) + Len(step) + 2, Operands(c1, 1))>>
      round == Mark(test \o body, path)
      cont == Len(init) + Len(round) + 1
      cleanup == IF s.c = <<>> THEN <<>> ELSE <<At("DROP_BINDINGS", <<>>, c1)>>
  IN  Patch(init \o round \o step \o <<At("JUMP", -Len(round \o step), c1)>>
              \o cleanup \o <<At("SCOPE_EXIT", <<>>, c1)>>,
            cont + Len(step) + Len(cleanup) + 2, cont)

\* The array and the index are hidden locals; av and iv differ between loops
\* that are nested.
stmt_forin(pg, s, path, c) ==
  LET c1 == Deeper(c, 1)
      c2 == Deeper(c, 2)
      av == "$arr" \o ToString(c.d)
      iv == "$i" \o ToString(c.d)
      init == <<At("SCOPE_ENTER", <<>>, c)>> \o expr(pg, s.e, c1)
                \o <<At("DECL", av, Operands(c1, 1)), At("PUSH_INT", <<0, "u">>, c1),
                     At("DECL", iv, Operands(c1, 1))>>
      test == Mark(<<At("LOAD", iv, c1), At("LOAD", av, Operands(c1, 1)),
                     At("LEN", <<>>, Operands(c1, 2)), At("BIN", <<"<", "u">>, Operands(c1, 2))>>,
                   path)
      body == <<At("SCOPE_ENTER", <<>>, c1), At("LOAD", av, c2), At("LOAD", iv, Operands(c2, 1)),
                At("INDEX", <<>>, Operands(c2, 2)), At("DECL", s.x, Operands(c2, 1))>>
                \o block(pg, s.body, Append(path, 1), [c2 EXCEPT !.bd = c.d, !.cd = c1.d])
                \o <<At("SCOPE_EXIT", <<>>, c2)>>
      cont == Len(init) + Len(test) + Len(body) + 2
  IN  Patch(init \o test \o <<At("JUMP_IF_FALSE", Len(body) + 3, Operands(c1, 1))>> \o body
              \o <<At("LOCAL_INC_U64", iv, c1), At("JUMP", -(Len(test) + Len(body) + 2), c1),
                   At("SCOPE_EXIT", <<>>, c1)>>,
            cont + 3, cont)

\* The arms from the i-th on, and the trap behind the last one.
RECURSIVE MatchArms(_, _, _, _, _)
MatchArms(pg, s, i, path, c) ==
  IF i > Len(s.arms) THEN <<At("TRAP_MATCH", <<>>, c)>>
  ELSE LET body == Scope(pg, "SCOPE_ENTER_BINDINGS", s.arms[i].body, Append(path, i), c)
           rest == MatchArms(pg, s, i + 1, path, c)
       IN  <<At("LOAD_MATCH_VALUE", <<>>, c), At("TRY_PATTERN", s.arms[i].p, Operands(c, 1)),
             At("JUMP_IF_NO_MATCH", Len(body) + 2, Operands(c, 1))>>
             \o body \o <<At("JUMP", Len(rest) + 1, c)>> \o rest

stmt_match(pg, s, path, c) ==
  Mark(Apply(pg, <<s.e>>, "SAVE_MATCH_VALUE", <<>>, c), path)
    \o MatchArms(pg, s, 1, path, c) \o <<At("CLEAR_MATCH_VALUE", <<>>, c)>>

stmt_letelse(pg, s, path, c) ==
  LET c1 == Operands(c, 1)
      else == Scope(pg, "SCOPE_ENTER", s.els, Append(path, 1), c)
  IN  Mark(Apply(pg, <<s.e>>, "SAVE_MATCH_VALUE", <<>>, c), path)
        \o <<At("LOAD_MATCH_VALUE", <<>>, c), At("TRY_PATTERN", s.p, c1),
             At("CLEAR_MATCH_VALUE", <<>>, c1), At("JUMP_IF_NO_MATCH", 3, c1),
             At("MERGE_BINDINGS", <<>>, c), At("JUMP", Len(else) + 2, c)>>
        \o else \o <<At("TRAP_MATCH", <<>>, c)>>

stmt(pg, s, path, c) ==
  CASE s.k = "var"      -> Mark(Apply(pg, <<s.e>>, "DECL", s.x, c), path)
    [] s.k = "assign"   -> Mark(stmt_assign(pg, s, c), path)
    [] s.k = "exprstmt" -> Mark(Apply(pg, <<s.e>>, "POP", <<>>, c), path)
    [] s.k = "return"   ->
         Mark((IF s.es = <<>> THEN <<At("PUSH_UNIT", Unit, c)>> ELSE expr(pg, s.es[1], c))
                \o <<At("RET", <<>>, Operands(c, 1))>>, path)
    [] s.k = "trap"     -> Mark(<<At("TRAP", <<>>, c)>>, path)
    [] s.k = "break"    -> Mark(Leave("BREAK", c, c.bd), path)
    [] s.k = "continue" -> Mark(Leave("CONTINUE", c, c.cd), path)
    [] s.k = "if"       -> stmt_if(pg, s, path, c)
    [] s.k = "while"    -> stmt_while(pg, s, path, c)
    [] s.k = "for"      -> stmt_for(pg, s, path, c)
    [] s.k = "forin"    -> stmt_forin(pg, s, path, c)
    [] s.k = "match"    -> stmt_match(pg, s, path, c)
    [] s.k = "letelse"  -> stmt_letelse(pg, s, path, c)

\* The path <<>> marks the end of a function's body.
compile_fn(pg, f) ==
  LET c == [d |-> 1, h |-> 0, bd |-> 0, cd |-> 0]
  IN  [params |-> f.params, ret |-> f.ret,
       code |-> block(pg, f.body, <<>>, c)
                  \o Mark(<<At("PUSH_UNIT", Unit, c), At("RET", <<>>, Operands(c, 1))>>, <<>>)]

compile(pg, functions) == [n \in DOMAIN functions |-> compile_fn(pg, functions[n])]

=============================================================================
