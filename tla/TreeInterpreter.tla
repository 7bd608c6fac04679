-------------------------- MODULE TreeInterpreter --------------------------
(***************************************************************************)
(* The tree interpreter of src/lang/core.py: what a program means.         *)
(*                                                                         *)
(* eval, place and stmt give [sig, v, m]; sig is "ok" or the signal the    *)
(* code raises ("trap", "return", "break", "continue").                    *)
(*                                                                         *)
(* The scopes are one stack for all functions, as in the code: a name is   *)
(* looked up through the callers' scopes too.                              *)
(***************************************************************************)
EXTENDS LangValues, TLC

Push(scope, m) == [m EXCEPT !.scopes = Append(@, scope)]
\* try: ... finally: the scopes pushed since are popped, whatever was raised.
PopTo(m, r) == [r EXCEPT !.m.scopes = SubSeq(@, 1, Len(m.scopes))]
DeclareHere(x, v, m) ==
  [m EXCEPT !.scopes[Len(m.scopes)] = Declare(@, x, v)]

-----------------------------------------------------------------------------
(* pg is the program: fns and consts by name, the anonymous functions by number *)

RECURSIVE eval(_, _, _), evals(_, _, _), place(_, _, _), stmt(_, _, _), block(_, _, _)

\* The operands, from left to right.
evals(pg, es, m) ==
  IF es = <<>> THEN Ok(<<>>, m)
  ELSE Then(eval(pg, Head(es), m), LAMBDA v, m1 :
         Then(evals(pg, Tail(es), m1), LAMBDA vs, m2 : Ok(<<v>> \o vs, m2)))

block(pg, ss, m) ==
  IF ss = <<>> THEN Ok(Unit, m)
  ELSE Then(stmt(pg, Head(ss), m), LAMBDA v, m1 : block(pg, Tail(ss), m1))

\* A body runs in a scope of its own, opened with the given bindings.
Scoped(pg, scope, ss, m) == PopTo(m, block(pg, ss, Push(scope, m)))

call(pg, f, args, m) ==
  Then(copy_values(args, m), LAMBDA vs, m1 :
    With(Scoped(pg, Dict(f.params, vs), f.body, m1), LAMBDA r :
      CASE r.sig = "return" -> copy_value(r.v, r.m)
        [] r.sig = "ok"     -> Ok(Unit, r.m)
        [] OTHER            -> r))

\* The function that a value names.
Function(pg, f) == IF f.k = "fn" THEN pg.fns[f.f] ELSE pg.anons[f.f]

call_value(pg, f, args, m) ==
  CASE f.k \in {"fn", "anon"} -> call(pg, Function(pg, f), args, m)
    [] f.k = "host"           -> HostCall(f.h, args, m)
    [] OTHER                  -> Trap(m)

-----------------------------------------------------------------------------
(* Expressions *)

qvalue(pg, e, m) ==
  LET q == e.q
      at == Owner(q[1], m.scopes)
  IN  IF at # 0
      THEN copy_value(FoldLeft(LAMBDA v, f : Field(v, f, m), m.scopes[at][q[1]], Tail(q)), m)
      ELSE CASE q[1] \in DOMAIN pg.consts -> Ok(pg.consts[q[1]], m)
             [] q[1] \in DOMAIN pg.fns    -> Ok(FnVal(q[1]), m)
             [] q[1] = "host"             -> Ok(HostFnVal(q[2]), m)
             [] OTHER                     -> Trap(m)

builtin(n, vs, m) ==
  CASE n = "len"    -> Ok(IntVal(Len(Items(vs[1], m))), m)
    [] n = "push"   -> array_push(vs[1], vs[2], m)
    [] n = "pop"    -> array_pop(vs[1], m)
    [] n = "splice" -> array_splice(vs[1], vs[2], vs[3], vs[4], m)

\* What is called: a function by its name, or the value of an expression.
callee(pg, e, m) ==
  IF e.k = "qname" /\ Len(e.q) = 1 /\ e.q[1] \in DOMAIN pg.fns THEN Ok(FnVal(e.q[1]), m)
  ELSE eval(pg, e, m)

eval_call(pg, e, m) ==
  IF e.cal.k = "qname" /\ e.cal.q[1] \in {"len", "push", "pop", "splice"}
  THEN Then(evals(pg, e.es, m), LAMBDA vs, m1 : builtin(e.cal.q[1], vs, m1))
  ELSE Then(callee(pg, e.cal, m), LAMBDA f, m1 :
         Then(evals(pg, e.es, m1), LAMBDA vs, m2 : call_value(pg, f, vs, m2)))

\* The right operand of && and || runs only if the left one leaves it open.
eval_binary(pg, e, m) ==
  Then(eval(pg, e.l, m), LAMBDA a, m1 :
    IF e.op \in {"&&", "||"}
    THEN IF a.b = (e.op = "&&") THEN eval(pg, e.r, m1) ELSE Ok(a, m1)
    ELSE Then(eval(pg, e.r, m1), LAMBDA b, m2 : scalar_value(e.op, a, b, e.ty, m2)))

eval(pg, e, m) ==
  CASE e.k = "lit"    -> Ok(e.v, m)
    [] e.k = "int"    -> Ok(IntVal(wrap_int(e.n, e.ty)), m)
    [] e.k = "some"   ->
         Then(eval(pg, e.e, m), LAMBDA v, m1 :
           Then(copy_value(v, m1), LAMBDA c, m2 : Ok(SomeVal(c), m2)))
    [] e.k = "qname"  -> qvalue(pg, e, m)
    [] e.k = "array"  -> Then(evals(pg, e.es, m), alloc_array)
    [] e.k = "repeat" ->
         Then(evals(pg, <<e.l, e.r>>, m), LAMBDA vs, m1 :
           alloc_array([i \in 1..vs[2].n |-> vs[1]], m1))
    [] e.k = "unary"  ->
         Then(eval(pg, e.e, m), LAMBDA v, m1 :
           IF e.op = "*" THEN copy_value(m1.heap[v.id].value, m1)
           ELSE Ok(unary_value(e.op, v, e.ty), m1))
    [] e.k = "is"     ->
         Then(eval(pg, e.e, m), LAMBDA v, m1 :
           Then(match(e.p, v, m1), LAMBDA b, m2 : Ok(Bool(b # <<>>), m2)))
    [] e.k = "binary" -> eval_binary(pg, e, m)
    [] e.k = "cast"   ->
         Then(eval(pg, e.e, m), LAMBDA v, m1 : Ok(IntVal(wrap_int(v.n, e.ty)), m1))
    [] e.k = "new"    -> Then(eval(pg, e.e, m), alloc_ref)
    [] e.k = "index"  ->
         Then(evals(pg, <<e.l, e.r>>, m), LAMBDA vs, m1 : array_index(vs[1], vs[2], m1))
    [] e.k = "field"  ->
         Then(place(pg, e, m), LAMBDA p, m1 : Then(PlaceGet(p, m1), copy_value))
    [] e.k = "structlit" ->
         Then(evals(pg, e.es, m), LAMBDA vs, m1 : NewStruct(e.names, vs, m1))
    [] e.k = "variant" ->
         Then(evals(pg, e.es, m), LAMBDA vs, m1 : NewEnum(e.en, e.vn, vs, m1))
    [] e.k = "call"   -> eval_call(pg, e, m)
    [] e.k = "anonfn" -> Ok(AnonFnVal(e.f), m)

-----------------------------------------------------------------------------
(* Places *)

\* A dotted name: the struct that holds the last field is found at once.
place_qname(q, m) ==
  LET at == Owner(q[1], m.scopes)
      cur == FoldLeft(LAMBDA v, f : Field(v, f, m), m.scopes[at][q[1]], SubSeq(q, 2, Len(q) - 1))
  IN  IF at = 0 THEN Trap(m)
      ELSE IF Len(q) = 1 THEN Ok(LocalAt(at, q[1]), m)
      ELSE Ok(FieldIn(Target(cur, m), Last(q)), m)

\* A field of a base that is a place is resolved when it is used.  If finding
\* or reading the base traps, whatever the reason, the code evaluates the base
\* again, as an ordinary expression, in the state the failed attempt left.
place_field(pg, e, m) ==
  With(Then(place(pg, e.e, m), LAMBDA p, m1 :
         Then(PlaceGet(p, m1), LAMBDA v, m2 :
           Ok(FieldAt(p, e.f), m2))), LAMBDA found :
    IF found.sig = "ok" THEN found
    ELSE Then(eval(pg, e.e, found.m), LAMBDA v, m1 :
           Ok(FieldIn(Target(v, m1), e.f), m1)))

place(pg, e, m) ==
  CASE e.k = "qname" -> place_qname(e.q, m)
    [] e.k = "index" ->
         Then(evals(pg, <<e.l, e.r>>, m), LAMBDA vs, m1 :
           IF InBounds(vs[1], vs[2], m1)
           THEN Ok(CellOf(vs[1], vs[2]), m1) ELSE Trap(m1))
    [] e.k = "unary" ->
         Then(eval(pg, e.e, m), LAMBDA r, m1 : Ok(Referent(r), m1))
    [] e.k = "field" -> place_field(pg, e, m)
    [] OTHER -> Trap(m)

-----------------------------------------------------------------------------
(* Statements *)

assign(pg, s, m) ==
  Then(place(pg, s.l, m), LAMBDA p, m1 :
    Then(PlaceGet(p, m1), LAMBDA old, m2 :
      Then(eval(pg, s.r, m2), LAMBDA x, m3 :
        Then(IF s.op = "=" THEN Ok(x, m3) ELSE scalar_value(s.op, old, x, s.ty, m3),
             LAMBDA nv, m4 :
               Then(copy_value(nv, m4), LAMBDA c, m5 : PlaceSet(p, c, m5))))))

\* The value is <<bindings>> if the condition holds, <<>> if not.
cond(pg, c, m) ==
  Then(eval(pg, IF c.k = "is" THEN c.e ELSE c, m), LAMBDA v, m1 :
    IF c.k = "is" THEN match(c.p, v, m1) ELSE Ok(IF v.b THEN <<NoBindings>> ELSE <<>>, m1))

\* After a body: continue and a normal end go on, break leaves the loop.
AfterBody(result, GoOn(_)) ==
  With(result, LAMBDA r :
    CASE r.sig \in {"ok", "continue"} -> GoOn(r.m)
      [] r.sig = "break"              -> Ok(Unit, r.m)
      [] OTHER                        -> r)

RECURSIVE loop_while(_, _, _), loop_for(_, _, _), loop_forin(_, _, _, _, _)
loop_while(pg, s, m) ==
  Then(cond(pg, s.c, m), LAMBDA b, m1 :
    IF b = <<>> THEN Ok(Unit, m1)
    ELSE AfterBody(Scoped(pg, b[1], s.body, m1), LAMBDA m2 : loop_while(pg, s, m2)))

loop_for(pg, s, m) ==
  Then(IF s.c = <<>> THEN Ok(<<NoBindings>>, m) ELSE cond(pg, s.c[1], m), LAMBDA b, m1 :
    IF b = <<>> THEN Ok(Unit, m1)
    ELSE AfterBody(Scoped(pg, NoBindings, s.body, m1), LAMBDA m2 :
           Then(block(pg, s.step, m2), LAMBDA v, m3 : loop_for(pg, s, m3))))

\* The length is read again in every round: the body may change the array.
loop_forin(pg, s, a, i, m) ==
  IF i = Len(Items(a, m)) \/ i > Len(Items(a, m)) THEN Ok(Unit, m)
  ELSE Then(copy_value(Items(a, m)[i + 1], m), LAMBDA x, m1 :
         AfterBody(Scoped(pg, Declare(NoBindings, s.x, x), s.body, m1), LAMBDA m2 :
           loop_forin(pg, s, a, i + 1, m2)))

\* The bindings and the body of the first arm that matches, or <<>>.
first_match(arms, v, m) ==
  FoldLeft(LAMBDA r, arm : Then(r, LAMBDA done, m1 :
             IF done # <<>> THEN Ok(done, m1)
             ELSE Then(match(arm.p, v, m1), LAMBDA b, m2 :
                    Ok(IF b = <<>> THEN <<>> ELSE <<b[1], arm.body>>, m2))),
           Ok(<<>>, m), arms)

exec_match(pg, s, m) ==
  Then(eval(pg, s.e, m), LAMBDA v, m1 :
    Then(first_match(s.arms, v, m1), LAMBDA chosen, m2 :
      IF chosen = <<>> THEN Trap(m2) ELSE Scoped(pg, chosen[1], chosen[2], m2)))

exec_letelse(pg, s, m) ==
  Then(eval(pg, s.e, m), LAMBDA v, m1 :
    Then(match(s.p, v, m1), LAMBDA b, m2 :
      IF b # <<>> THEN Ok(Unit, [m2 EXCEPT !.scopes[Len(m2.scopes)] = Merge(@, b[1])])
      ELSE Then(Scoped(pg, NoBindings, s.els, m2), LAMBDA u, m3 : Trap(m3))))

stmt(pg, s, m) ==
  CASE s.k = "var" ->
         Then(eval(pg, s.e, m), LAMBDA v, m1 :
           Then(copy_value(v, m1), LAMBDA c, m2 : Ok(Unit, DeclareHere(s.x, c, m2))))
    [] s.k = "assign"   -> assign(pg, s, m)
    [] s.k = "exprstmt" -> Then(eval(pg, s.e, m), LAMBDA v, m1 : Ok(Unit, m1))
    [] s.k = "if" ->
         Then(cond(pg, s.c, m), LAMBDA b, m1 :
           IF b # <<>> THEN Scoped(pg, b[1], s.body, m1)
           ELSE Scoped(pg, NoBindings, s.els, m1))
    [] s.k = "while" -> loop_while(pg, s, m)
    [] s.k = "for" ->
         PopTo(m, Then(block(pg, s.init, Push(NoBindings, m)), LAMBDA v, m1 :
                    loop_for(pg, s, m1)))
    [] s.k = "forin" ->
         Then(eval(pg, s.e, m), LAMBDA a, m1 : loop_forin(pg, s, a, 0, m1))
    [] s.k = "match"   -> exec_match(pg, s, m)
    [] s.k = "letelse" -> exec_letelse(pg, s, m)
    [] s.k = "return" ->
         IF s.es = <<>> THEN Result("return", Unit, m)
         ELSE Then(eval(pg, s.es[1], m), LAMBDA v, m1 : Result("return", v, m1))
    [] s.k \in {"break", "continue", "trap"} -> Result(s.k, Unit, m)

EmptyMemory(input) ==
  [heap |-> <<>>, scopes |-> <<>>, out |-> <<>>, input |-> input, pos |-> 0]
run(pg, input) == call_value(pg, FnVal("main"), <<>>, EmptyMemory(input))

=============================================================================
