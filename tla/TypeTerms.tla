------------------------------ MODULE TypeTerms ------------------------------
(***************************************************************************)
(* What src/lang/core.py does along the structure of a type: substitute,   *)
(* unify, and the walk of validate_layouts, which Generics takes as        *)
(* constants.                                                              *)
(***************************************************************************)
EXTENDS Generics

RECURSIVE substitute(_, _), unify(_, _, _), walk(_, _, _, _)

substitute(t, m) == substitute_by(substitute, t, m)

\* After a failure only the result of a function type is still looked at.
unify(p, t, s) ==
  CASE p.k = "param" ->
         IF p.n \in DOMAIN s.m /\ s.m[p.n] # t THEN [s EXCEPT !.ok = FALSE]
         ELSE [s EXCEPT !.m = [g \in DOMAIN @ \cup {p.n} |-> IF g = p.n THEN t ELSE @[g]]]
    [] p.k # "param" /\ (p.k # t.k \/ p.n # t.n \/ Len(p.args) # Len(t.args)) ->
         [s EXCEPT !.ok = FALSE]
    [] p.k = "fn" /\ p.k = t.k /\ Len(p.args) = Len(t.args) ->
         LET s1 == unify_by(unify, Front(p.args), Front(t.args), s)
             s2 == unify(Last(p.args), Last(t.args), [s1 EXCEPT !.ok = TRUE])
         IN  [s2 EXCEPT !.ok = @ /\ s1.ok]
    [] OTHER -> unify_by(unify, p.args, t.args, s)

\* (mutant: the type arguments of a wrapper are not followed)
parts_unsubstituted(decl, t) == [params |-> Nothing, parts |-> decl.parts]
\* The parts of a declared type and the map of its parameters.
parts_of(decl, t) == [params |-> dict(decl.gps, t.args), parts |-> decl.parts]

\* References, arrays and functions are stored elsewhere, an optional is not;
\* a declaration that comes again on its own path has no finite size.
walk(pg, t0, env, path) ==
  LET t == substitute(t0, env)
  IN  CASE t.k = "opt" -> walk(pg, t.args[1], env, path)
        [] t.k = "name" /\ t.n \in DOMAIN pg.types ->
             LET p == parts_of(pg.types[t.n], t)
             IN  /\ t.n \notin path
                 /\ \A i \in DOMAIN p.parts : walk(pg, p.parts[i], p.params, path \cup {t.n})
        [] OTHER -> TRUE

=============================================================================
