------------------------------- MODULE Checker -------------------------------
(***************************************************************************)
(* What the checker of src/lang/core.py decides about names, loops and the *)
(* flow of control.  Types are left out: they are given with the program   *)
(* where a decision needs one (the subject of a match, the result of a     *)
(* function).                                                              *)
(*                                                                         *)
(* An environment is [ok, scopes, reserved, loop, ret]: ok turns FALSE     *)
(* where the code raises an error; scopes are the sets of names bound;     *)
(* reserved are names a local may not take; loop counts the loops around.  *)
(***************************************************************************)
EXTENDS Naturals, Sequences, FiniteSets, SequencesExt

Builtins == {"len", "push", "pop", "splice"}
TopNames(pg) == DOMAIN pg.fns \cup DOMAIN pg.consts \cup {"host"}

Req(env, cond) == [env EXCEPT !.ok = @ /\ cond]
push(env) == [env EXCEPT !.scopes = Append(@, {})]
pop(env) == [env EXCEPT !.scopes = Front(@)]
Bound(env) == UNION ToSet(env.scopes)

\* (mutant: only the innermost scope is looked at)
bind_hiding(pg, n, env) ==
  [Req(env, n # "_" /\ n \notin TopNames(pg) \cup Builtins \cup Last(env.scopes))
     EXCEPT !.scopes[Len(env.scopes)] = @ \cup {n}]
\* No shadowing: neither a top-level name nor any name of an outer scope.
bind(pg, n, env) ==
  [Req(env, n # "_" /\ n \notin TopNames(pg) \cup Builtins \cup env.reserved \cup Bound(env))
     EXCEPT !.scopes[Len(env.scopes)] = @ \cup {n}]
bindings(pg, names, env) == FoldLeft(LAMBDA e, n : bind(pg, n, e), env, SetToSeq(names))

-----------------------------------------------------------------------------
(* Where control can go *)

\* (mutant: only a break that is not inside another statement counts)
breaks_directly(ss) == \E i \in DOMAIN ss : ss[i].k = "break"

RECURSIVE contains_break(_), stmt_diverges(_), stmt_returns(_)

\* A break inside an inner loop belongs to that loop.
contains_break(ss) ==
  \E i \in DOMAIN ss :
    CASE ss[i].k = "break"   -> TRUE
      [] ss[i].k = "if"      -> contains_break(ss[i].body) \/ contains_break(ss[i].els)
      [] ss[i].k = "match"   -> \E j \in DOMAIN ss[i].arms : contains_break(ss[i].arms[j].body)
      [] ss[i].k = "letelse" -> contains_break(ss[i].els)
      [] OTHER               -> FALSE

block_diverges(ss) == \E i \in DOMAIN ss : stmt_diverges(ss[i])
stmt_diverges(s) ==
  \/ s.k \in {"return", "break", "continue", "trap"}
  \/ s.k = "if" /\ s.els # <<>> /\ block_diverges(s.body) /\ block_diverges(s.els)

block_returns(ss) == \E i \in DOMAIN ss : stmt_returns(ss[i])
stmt_returns(s) ==
  \/ s.k \in {"return", "trap"}
  \/ s.k = "if" /\ s.els # <<>> /\ block_returns(s.body) /\ block_returns(s.els)
  \/ /\ s.k = "match"
     /\ s.arms # <<>>
     /\ \A j \in DOMAIN s.arms : block_returns(s.arms[j].body)
  \/ /\ s.k = "while"
     /\ s.c.k = "lit" /\ s.c.v.k = "bool" /\ s.c.v.b
     /\ ~contains_break(s.body)

-----------------------------------------------------------------------------
(* Patterns: the names they bind and the key that tells arms apart *)

payload_ok(p) == p.k \in {"p_wild", "p_bind"}
Binds(p) == IF p.k = "p_bind" THEN {p.x} ELSE {}
\* The patterns of the payload; none written stands for wildcards.
Payload(p) == CASE p.k = "p_some" -> <<p.p>> [] p.k = "p_name" -> p.subs [] OTHER -> <<>>

pattern(p) ==
  LET parts == Payload(p)
  IN  [ok |-> /\ \A i \in DOMAIN parts : payload_ok(parts[i])
              /\ \A i, j \in DOMAIN parts : i # j => Binds(parts[i]) \cap Binds(parts[j]) = {},
       binds |-> Binds(p) \cup UNION {Binds(parts[i]) : i \in DOMAIN parts},
       key |-> CASE p.k \in {"p_wild", "p_bind"} -> "_"
                 [] p.k = "p_lit"  -> p.key
                 [] p.k = "p_some" -> "some"
                 [] p.k = "p_name" -> p.vn]

\* (mutant: an optional is taken for covered by some)
exhaustive_some(pg, ty, keys) == ty = "opt" /\ "some" \in keys
\* An open domain, as the integers, has no set of keys that is enough.
check_exhaustive(pg, ty, keys) ==
  CASE ty = "unit"            -> "()" \in keys
    [] ty = "bool"            -> {"true", "false"} \subseteq keys
    [] ty = "opt"             -> {"none", "some"} \subseteq keys
    [] ty \in DOMAIN pg.enums -> pg.enums[ty] \subseteq keys
    [] OTHER                  -> FALSE

-----------------------------------------------------------------------------
(* Expressions and places: TRUE if every name in them is known *)

RECURSIVE expr(_, _, _), place(_, _, _), stmt(_, _, _)

block(pg, ss, env) == FoldLeft(LAMBDA e, s : stmt(pg, s, e), env, ss)

\* A body is checked in a scope of its own that starts with some bindings.
Scoped(pg, names, ss, env) == pop(block(pg, ss, bindings(pg, names, push(env))))

qname_expr(pg, q, env) ==
  \/ q[1] \in Bound(env)
  \/ Len(q) = 1 /\ q[1] \in DOMAIN pg.fns \cup DOMAIN pg.consts
  \/ q[1] = "host"

\* An anonymous function sees no local from outside, and may not hide one.
anon_type(pg, f, env) ==
  LET inner == [ok |-> TRUE, scopes |-> <<{}>>, reserved |-> env.reserved \cup Bound(env),
                loop |-> 0, ret |-> f.ret]
      bound == FoldLeft(LAMBDA e, n : bind(pg, n, e), inner, f.params)
  IN  block(pg, f.body, bound).ok /\ (f.ret = "unit" \/ block_returns(f.body))

expr(pg, e, env) ==
  CASE e.k \in {"lit", "int"} -> TRUE
    [] e.k = "qname"  -> qname_expr(pg, e.q, env)
    [] e.k \in {"some", "unary", "cast", "new", "field"} -> expr(pg, e.e, env)
    [] e.k = "is"     ->
         expr(pg, e.e, env) /\ LET p == pattern(e.p) IN p.ok /\ p.binds = {}
    [] e.k \in {"binary", "index", "repeat"} -> expr(pg, e.l, env) /\ expr(pg, e.r, env)
    [] e.k \in {"array", "structlit", "variant"} -> \A i \in DOMAIN e.es : expr(pg, e.es[i], env)
    [] e.k = "call"   ->
         /\ \/ e.cal.k = "qname" /\ Len(e.cal.q) = 1 /\ e.cal.q[1] \in Builtins
            \/ expr(pg, e.cal, env)
         /\ \A i \in DOMAIN e.es : expr(pg, e.es[i], env)
    [] e.k = "anonfn" -> anon_type(pg, pg.anons[e.f], env)

\* onref says that the base of a field has a reference type.
place(pg, e, env) ==
  CASE e.k = "qname" -> e.q[1] \in Bound(env)
    [] e.k = "index" -> expr(pg, e, env)
    [] e.k = "unary" -> e.op = "*" /\ expr(pg, e.e, env)
    [] e.k = "field" -> place(pg, e.e, env) \/ (e.onref /\ expr(pg, e.e, env))
    [] OTHER         -> FALSE

\* The names a condition binds where it holds.
ConditionBinds(c) == IF c.k = "is" THEN pattern(c.p).binds ELSE {}
condition(pg, c, env) ==
  IF c.k = "is" THEN expr(pg, c.e, env) /\ pattern(c.p).ok ELSE expr(pg, c, env)

-----------------------------------------------------------------------------
(* Statements *)

\* The body of a loop, in an environment that is left as it was found.
InLoop(env, Body(_)) == [Body([env EXCEPT !.loop = @ + 1]) EXCEPT !.loop = env.loop]

stmt_for(pg, s, env) ==
  InLoop(push(env), LAMBDA e :
    LET e1 == block(pg, s.init, e)
        e2 == IF s.c = <<>> THEN e1
              ELSE Req(e1, condition(pg, s.c[1], e1) /\ ConditionBinds(s.c[1]) = {})
    IN  Scoped(pg, {}, s.body, block(pg, s.step, e2)))

stmt_match(pg, s, env) ==
  LET pats == [i \in DOMAIN s.arms |-> pattern(s.arms[i].p)]
      keys == {pats[i].key : i \in DOMAIN pats}
      env1 == Req(env, /\ expr(pg, s.e, env)
                       /\ \A i \in DOMAIN pats : pats[i].ok
                       /\ \A i, j \in DOMAIN pats :
                            i # j /\ pats[i].key = pats[j].key => pats[i].key = "_"
                       /\ "_" \in keys \/ check_exhaustive(pg, s.ty, keys))
  IN  FoldLeft(LAMBDA e, i : Scoped(pg, pats[i].binds, s.arms[i].body, e),
               env1, [i \in DOMAIN s.arms |-> i])

\* The names bound on success are not known in the else block, which must not
\* fall through.
stmt_letelse(pg, s, env) ==
  LET p == pattern(s.p)
      env1 == Req(env, /\ s.els # <<>> /\ block_diverges(s.els)
                       /\ expr(pg, s.e, env)
                       /\ p.ok /\ p.key \in {"some", "none"})
  IN  bindings(pg, p.binds, Scoped(pg, {}, s.els, env1))

stmt(pg, s, env) ==
  CASE s.k = "var"      -> bind(pg, s.x, Req(env, expr(pg, s.e, env)))
    [] s.k = "assign"   -> Req(env, place(pg, s.l, env) /\ expr(pg, s.r, env))
    [] s.k = "exprstmt" -> Req(env, s.e.k = "call" /\ expr(pg, s.e, env))
    [] s.k = "if"       ->
         Scoped(pg, {}, s.els,
           Scoped(pg, ConditionBinds(s.c), s.body, Req(env, condition(pg, s.c, env))))
    [] s.k = "while"    ->
         InLoop(Req(env, condition(pg, s.c, env)), LAMBDA e :
           Scoped(pg, ConditionBinds(s.c), s.body, e))
    [] s.k = "for"      -> pop(stmt_for(pg, s, env))
    [] s.k = "forin"    ->
         InLoop(Req(env, expr(pg, s.e, env)), LAMBDA e : Scoped(pg, {s.x}, s.body, e))
    [] s.k = "match"    -> stmt_match(pg, s, env)
    [] s.k = "letelse"  -> stmt_letelse(pg, s, env)
    [] s.k = "return"   ->
         Req(env, IF s.es = <<>> THEN env.ret = "unit" ELSE expr(pg, s.es[1], env))
    [] s.k \in {"break", "continue"} -> Req(env, env.loop > 0)
    [] s.k = "trap"     -> env

check_fn(pg, f) ==
  LET env == [ok |-> TRUE, scopes |-> <<{}>>, reserved |-> {}, loop |-> 0, ret |-> f.ret]
      bound == FoldLeft(LAMBDA e, n : bind(pg, n, e), env, f.params)
  IN  block(pg, f.body, bound).ok /\ (f.ret = "unit" \/ block_returns(f.body))

check(pg) == \A n \in DOMAIN pg.fns : check_fn(pg, pg.fns[n])

=============================================================================
