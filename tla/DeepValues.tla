----------------------------- MODULE DeepValues -----------------------------
(***************************************************************************)
(* What src/lang/core.py does along the structure of a value or a pattern: *)
(* the copy in depth and the match, which LangValues takes as constants.   *)
(***************************************************************************)
EXTENDS LangValues

Copied(vs, heap) == [vs |-> vs, heap |-> heap]
\* Fold an operator on a value and a heap over values, left to right.
Each(F(_, _), vs, h) ==
  FoldLeft(LAMBDA done, v : With(done, LAMBDA d : With(F(v, d.heap), LAMBDA c :
             Copied(d.vs \o c.vs, c.heap))),
           Copied(<<>>, h), vs)

\* Arrays, references and functions are handles and stay as they are.
RECURSIVE deep_copy(_, _)
deep_copy(v, h) ==
  CASE v.k = "some" ->
         With(deep_copy(v.v, h), LAMBDA c : Copied(<<SomeVal(c.vs[1])>>, c.heap))
    [] v.k = "struct" ->
         With(Each(deep_copy, h[v.id].vals, h), LAMBDA c :
           Copied(<<Obj("struct", Len(c.heap) + 1)>>,
                  Append(c.heap, [h[v.id] EXCEPT !.vals = c.vs])))
    [] v.k = "enum" ->
         With(Each(deep_copy, v.payload, h), LAMBDA c :
           Copied(<<[v EXCEPT !.payload = c.vs]>>, c.heap))
    [] OTHER -> Copied(<<v>>, h)
deep_copies(vs, h) == Each(deep_copy, vs, h)

Matched(ok, bind, heap) == [ok |-> ok, bind |-> bind, heap |-> heap]

RECURSIVE deep_match(_, _, _)
deep_match(p, v, h) ==
  CASE p.k = "p_wild" -> Matched(TRUE, NoBindings, h)
    [] p.k = "p_bind" ->
         With(deep_copy(v, h), LAMBDA c :
           Matched(TRUE, Declare(NoBindings, p.x, c.vs[1]), c.heap))
    [] p.k = "p_lit" -> Matched(v = p.v, NoBindings, h)
    [] p.k = "p_some" ->
         IF v.k = "some" THEN deep_match(p.p, v.v, h) ELSE Matched(FALSE, NoBindings, h)
    [] p.k = "p_name" ->
         IF ~(v.k = "enum" /\ v.en = p.en /\ v.vn = p.vn) THEN Matched(FALSE, NoBindings, h)
         ELSE FoldLeft(LAMBDA before, i : With(before, LAMBDA out :
                         IF ~out.ok THEN out
                         ELSE With(deep_match(p.subs[i], v.payload[i], out.heap), LAMBDA r :
                                Matched(r.ok, Merge(out.bind, r.bind), r.heap))),
                       Matched(TRUE, NoBindings, h), [i \in DOMAIN p.subs |-> i])

RECURSIVE bound_names(_)
bound_names(p) ==
  CASE p.k = "p_bind" -> {p.x}
    [] p.k = "p_some" -> bound_names(p.p)
    [] p.k = "p_name" -> UNION {bound_names(p.subs[i]) : i \in DOMAIN p.subs}
    [] OTHER          -> {}

=============================================================================
