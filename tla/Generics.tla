------------------------------ MODULE Generics ------------------------------
(***************************************************************************)
(* What the checker of src/lang/core.py decides about generic declarations:*)
(* whether every value has a finite layout, which type arguments a call    *)
(* gets, and which recursion of generic functions it refuses.              *)
(*                                                                         *)
(* A program is [types, fns]: a type declaration is [gps, parts], the      *)
(* parts being the types of the fields, or of the payloads of all the      *)
(* variants; a function is [gps, params, ret, calls]; a call is [k, f,     *)
(* args, expected, targs] with the types of the arguments, the expected    *)
(* result, if any, and the type arguments if they are written.  Names are  *)
(* resolved, []T and const []T are one type, and the context in which a    *)
(* literal is typed is left out.                                           *)
(***************************************************************************)
EXTENDS Naturals, Sequences, FiniteSets, SequencesExt

\* What the checker does along the structure of a type: substitute, unify and
\* walk.  TypeTerms defines them as the code does.
CONSTANTS Substitute(_, _), Unify(_, _, _), Walk(_, _, _, _)

\* Ty, name_ty, tparam, opt, ref, arr and fnty; the arguments of a function
\* type are its parameters and, last, its result.
Ty(k, n, args) == [k |-> k, n |-> n, args |-> args]
name_ty(n, args) == Ty("name", n, args)
tparam(n) == Ty("param", n, <<>>)
opt(t) == Ty("opt", "", <<t>>)
ref(t) == Ty("ref", "", <<t>>)
arr(t) == Ty("array", "", <<t>>)
fnty(params, ret) == Ty("fn", "", Append(params, ret))

\* dict(zip(gps, ts)).
dict(gps, ts) == [g \in ToSet(gps) |-> ts[CHOOSE i \in DOMAIN gps : gps[i] = g]]
Nothing == [g \in {} |-> {}]

\* substitute, which goes on into the arguments of a type by S.
substitute_by(S(_, _), t, m) ==
  IF t.k = "param" THEN IF t.n \in DOMAIN m THEN m[t.n] ELSE t
  ELSE [t EXCEPT !.args = [i \in DOMAIN t.args |-> S(t.args[i], m)]]

validate_layouts(pg) ==
  \A n \in DOMAIN pg.types : \A i \in DOMAIN pg.types[n].parts :
    Walk(pg, pg.types[n].parts[i], Nothing, {n})

-----------------------------------------------------------------------------
(* Calls *)

\* The arguments have the types of the parameters, and the result is the one
\* that is expected.
Fits(fn, m, c) ==
  /\ \A i \in DOMAIN fn.params : c.args[i] = Substitute(fn.params[i], m)
  /\ c.expected # <<>> => c.expected[1] = Substitute(fn.ret, m)

\* unify of two sequences in a state [ok, m]: m collects what the parameters
\* stand for; after a failure nothing more is looked at.
unify_by(U(_, _, _), ps, ts, s) ==
  FoldLeft(LAMBDA acc, i : IF acc.ok THEN U(ps[i], ts[i], acc) ELSE acc,
           s, [i \in DOMAIN ps |-> i])

\* What the parameters of fn stand for in a call: first what the expected
\* result says, whether it fits or not, then what the arguments say.
inferred(fn, c) ==
  LET start == IF c.expected = <<>> THEN Nothing
               ELSE Unify(fn.ret, c.expected[1], [ok |-> TRUE, m |-> Nothing]).m
  IN  unify_by(Unify, fn.params, c.args, [ok |-> TRUE, m |-> start])

\* (mutant: a recursive call may change the parameters)
preserves_any(gps, m) == TRUE
\* The rule for a generic function that calls itself.
preserves(gps, m) == \A i \in DOMAIN gps : m[gps[i]] = tparam(gps[i])

\* (mutant: arguments of ordinary functions are not compared)
instantiate_unchecked(fn, c, recursive) ==
  IF fn.gps = <<>> THEN TRUE
  ELSE LET s == inferred(fn, c)
       IN  /\ s.ok /\ DOMAIN s.m = ToSet(fn.gps)
           /\ Fits(fn, s.m, c)
           /\ recursive => preserves(fn.gps, s.m)

instantiate_call(fn, c, recursive) ==
  IF fn.gps = <<>> THEN Fits(fn, Nothing, c)
  ELSE LET s == inferred(fn, c)
       IN  /\ s.ok /\ DOMAIN s.m = ToSet(fn.gps)
           /\ Fits(fn, s.m, c)
           /\ recursive => preserves(fn.gps, s.m)

\* A call with the type arguments written out.
generic_call(fn, c) ==
  DOMAIN c.targs = DOMAIN fn.gps /\ Fits(fn, dict(fn.gps, c.targs), c)

call_ok(pg, caller, c) ==
  /\ c.f \in DOMAIN pg.fns
  /\ LET fn == pg.fns[c.f]
     IN  /\ DOMAIN c.args = DOMAIN fn.params
         /\ IF c.k = "call" THEN instantiate_call(fn, c, c.f = caller) ELSE generic_call(fn, c)

\* generic_args of the call: the types its parameters stand for.
generic_args(pg, c) ==
  LET fn == pg.fns[c.f]
  IN  IF c.k = "call" THEN [i \in DOMAIN fn.gps |-> inferred(fn, c).m[fn.gps[i]]] ELSE c.targs

-----------------------------------------------------------------------------
(* check_generic_recursion: no two generic functions reach each other over *)
(* calls whose type arguments are inferred.                                *)

generic(pg) == {n \in DOMAIN pg.fns : pg.fns[n].gps # <<>>}

\* edges[n].
edges(pg, n) ==
  {m \in generic(pg) : \E i \in DOMAIN pg.fns[n].calls :
                         pg.fns[n].calls[i].k = "call" /\ pg.fns[n].calls[i].f = m}

\* m is on a way along edges from n: in every set that holds the ends of n's
\* edges and is closed under edges.
reaches(pg, n, m) ==
  \A S \in SUBSET generic(pg) :
    edges(pg, n) \subseteq S /\ (\A k \in S : edges(pg, k) \subseteq S) => m \in S

\* n and m are in one strongly connected component.
component(pg, n, m) == reaches(pg, n, m) /\ reaches(pg, m, n)

check_generic_recursion(pg) ==
  \A n, m \in generic(pg) : n # m => ~component(pg, n, m)

\* Checker.checked, as far as it is about generics; no name is twice among
\* the parameters of a function.
checked(pg) ==
  /\ \A n \in DOMAIN pg.fns : IsInjective(pg.fns[n].gps)
  /\ validate_layouts(pg)
  /\ check_generic_recursion(pg)
  /\ \A n \in DOMAIN pg.fns : \A i \in DOMAIN pg.fns[n].calls : call_ok(pg, n, pg.fns[n].calls[i])

=============================================================================
