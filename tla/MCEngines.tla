------------------------------ MODULE MCEngines ------------------------------
(***************************************************************************)
(* The programs that TLC runs on both engines.                             *)
(***************************************************************************)
EXTENDS Engines, DeepValues

\* Abstract syntax.
I(n) == [k |-> "int", n |-> n, ty |-> "i"]
U(n) == [k |-> "int", n |-> n, ty |-> "u"]
L(v) == [k |-> "lit", v |-> v]
V(x) == [k |-> "qname", q |-> <<x>>]
Dotted(q) == [k |-> "qname", q |-> q]
Call_(cal, es) == [k |-> "call", cal |-> cal, es |-> es]
F(f, es) == Call_(V(f), es)
Read == Call_(Dotted(<<"host", "read">>), <<>>)
Do(e) == [k |-> "exprstmt", e |-> e]
Emit(e) == Do(Call_(Dotted(<<"host", "emit">>), <<e>>))
Is(e, p) == [k |-> "is", e |-> e, p |-> p]
Op(op, l, r) == [k |-> "binary", op |-> op, l |-> l, r |-> r, ty |-> "i"]
Var(x, e) == [k |-> "var", x |-> x, e |-> e]
Set(l, op, r) == [k |-> "assign", l |-> l, op |-> op, r |-> r, ty |-> "i"]
If(c, yes, no) == [k |-> "if", c |-> c, body |-> yes, els |-> no]
While(c, body) == [k |-> "while", c |-> c, body |-> body]
For(init, c, step, body) ==
  [k |-> "for", init |-> init, c |-> c, step |-> step, body |-> body]
ForIn(x, e, body) == [k |-> "forin", x |-> x, e |-> e, body |-> body]
Match(e, ty, arms) == [k |-> "match", e |-> e, ty |-> ty, arms |-> arms]
Arm(p, body) == [p |-> p, body |-> body]
LetElse(p, e, els) == [k |-> "letelse", p |-> p, e |-> e, els |-> els]
Return_(e) == [k |-> "return", es |-> <<e>>]
Leave_(k) == [k |-> k]
Wild == [k |-> "p_wild"]
B(x) == [k |-> "p_bind", x |-> x]
PSome(p) == [k |-> "p_some", p |-> p]
PLit(v, key) == [k |-> "p_lit", v |-> v, key |-> key]
PNone == PLit(None, "none")
Arr(es) == [k |-> "array", es |-> es]
Some(e) == [k |-> "some", e |-> e]
Repeat(l, r) == [k |-> "repeat", l |-> l, r |-> r]
Un(op, e) == [k |-> "unary", op |-> op, e |-> e, ty |-> "i"]
At0(l, r) == [k |-> "index", l |-> l, r |-> r]
Dot(e, f) == [k |-> "field", e |-> e, f |-> f, onref |-> FALSE]
Arrow(e, f) == [k |-> "field", e |-> e, f |-> f, onref |-> TRUE]
Struct(names, es) == [k |-> "structlit", names |-> names, es |-> es]
Variant(vn, es) == [k |-> "variant", en |-> "E", vn |-> vn, es |-> es]
PName(vn, subs) == [k |-> "p_name", en |-> "E", vn |-> vn, subs |-> subs]
New_(e) == [k |-> "new", e |-> e]
Cast_(e, ty) == [k |-> "cast", e |-> e, ty |-> ty]
Anon(i) == [k |-> "anonfn", f |-> i]

Fn(params, ret, body) == [params |-> params, ret |-> ret, body |-> body]
AnonFn(params, ret, body, within) ==
  [params |-> params, ret |-> ret, body |-> body, within |-> within]
Asked == Op("==", Read, I(1))
\* The sequences of n zeros and ones.
Bits(n) == [i \in 1..2^n |-> [b \in 1..n |-> IntVal((i \div 2^(b - 1)) % 2)]]
T(y) == Struct(<<"y">>, <<y>>)
S(x, y) == Struct(<<"x", "t">>, <<x, T(y)>>)

\* The functions that programs are made with.
Library ==
  \* some(1) or none, an enum, as the input says
  "pick" :> Fn(<<>>, "val", <<If(Asked, <<Return_(Some(I(1)))>>, <<>>), Return_(L(None))>>) @@
  "make" :> Fn(<<>>, "val", <<If(Asked, <<Return_(Variant("p", <<I(2)>>))>>,
                                        <<Return_(Variant("q", <<>>))>>)>>) @@
  \* its last argument, after a change to what the first one refers to
  "same" :> Fn(<<"b">>, "val", <<Return_(V("b"))>>) @@
  "popped" :> Fn(<<"b", "z">>, "val", <<Do(F("pop", <<V("b")>>)), Return_(V("z"))>>) @@
  "pushed" :> Fn(<<"b", "z">>, "val", <<Do(F("push", <<V("b"), S(I(0), I(0))>>)),
                                        Return_(V("z"))>>) @@
  "cleared" :> Fn(<<"b", "z">>, "val",
                  <<Do(F("splice", <<V("b"), U(0), F("len", <<V("b")>>), Arr(<<>>)>>)),
                    Return_(V("z"))>>) @@
  "bumped" :> Fn(<<"c", "z">>, "val", <<Set(Dot(Un("*", V("c")), "x"), "+", I(1)),
                                        Return_(V("z"))>>) @@
  "swapped" :> Fn(<<"c", "z">>, "val", <<Set(Un("*", V("c")), "=", S(I(0), I(0))),
                                         Return_(V("z"))>>) @@
  \* the first element asked for, out of a loop
  "first" :> Fn(<<"b">>, "val", <<ForIn("x", V("b"), <<If(Asked, <<Return_(V("x"))>>, <<>>)>>),
                                  Return_(I(0))>>) @@
  "sum" :> Fn(<<"n">>, "val", <<If(Op("<=", V("n"), I(0)), <<Return_(Read)>>, <<>>),
                                Return_(Op("+", F("sum", <<Op("-", V("n"), I(1))>>), V("n")))>>) @@
  "twice" :> Fn(<<"g">>, "val", <<Return_(Op("*", F("g", <<I(1)>>), F("g", <<I(2)>>)))>>) @@
  "tell" :> Fn(<<"x">>, "unit", <<Match(V("x"), "opt",
                  <<Arm(PSome(B("w")), <<Emit(V("w"))>>), Arm(Wild, <<Emit(I(0))>>)>>)>>)

\* A program with those of these names.
ProgWith(names, anons, main, inputs) ==
  [fns |-> ("main" :> Fn(<<>>, "val", main) @@ Restrict(Library, names)), anons |-> anons,
   consts |-> ("three" :> IntVal(3)), enums |-> ("E" :> {"p", "q"}), inputs |-> inputs]
Prog(names, main, inputs) == ProgWith(names, <<>>, main, inputs)
\* All that Make makes of the elements of a sequence.
All(Make(_), s) ==
  With(s, LAMBDA t : With([i \in DOMAIN t |-> With(t[i], Make)] \o <<>>, FlattenSeq))
\* Several mains, each with the result 0.
Progs(names, bodies, inputs) ==
  All(LAMBDA body : <<Prog(names, body \o <<Return_(I(0))>>, inputs)>>, bodies)
Pairs(G(_, _), s, t) == All(LAMBDA x : All(LAMBDA y : <<G(x, y)>>, t), s)

-----------------------------------------------------------------------------
\* Every way out of every construct inside every loop.
Jumps == <<<<Leave_("break")>>, <<Leave_("continue")>>, <<Return_(I(3))>>,
           <<Leave_("trap")>>, <<Emit(I(3))>>>>
Inside(jump) ==
  <<jump,
    <<If(Asked, jump, <<Emit(I(2))>>)>>,
    <<Match(F("pick", <<>>), "opt", <<Arm(PSome(B("w")), jump), Arm(PNone, <<>>)>>)>>,
    <<LetElse(PSome(B("w")), F("pick", <<>>), jump), Emit(V("w"))>>,
    <<While(Asked, jump)>>,
    <<ForIn("y", Arr(<<I(0), I(1)>>), jump), Emit(I(2))>>>>
Loops(body) ==
  <<While(Asked, body),
    While(Is(F("pick", <<>>), PSome(B("v"))), <<Emit(V("v"))>> \o body),
    For(<<Var("i", I(0))>>, <<Asked>>, <<Set(V("i"), "+", I(1))>>, body),
    For(<<>>, <<>>, <<>>, <<If(Asked, <<>>, <<Leave_("break")>>)>> \o body),
    ForIn("x", Arr(<<I(1), I(2)>>), body)>>
JumpPrograms ==
  All(LAMBDA jump : All(LAMBDA inside : All(LAMBDA loop :
        <<Prog({"pick"}, <<Var("n", I(1)), loop, Emit(V("n")), Return_(V("n"))>>, Bits(3))>>,
      Loops(inside \o <<Emit(I(1))>>)), Inside(jump)), Jumps)

-----------------------------------------------------------------------------
\* Every kind of place, assigned what a call gives that changes the structure
\* the place is in.  An effect in the index of a field's base and a dotted
\* name through a reference that the right-hand side replaces are left out.
Places ==
  <<Dotted(<<"s", "x">>), Dotted(<<"s", "t", "y">>), V("n"),
    Dot(At0(V("a"), U(1)), "x"), Dot(Dot(At0(V("a"), U(1)), "t"), "y"),
    Dot(At0(V("a"), U(2)), "x"), Dot(At0(Repeat(V("s"), U(1)), U(0)), "x"),
    Dot(Un("*", V("r")), "x"), Arrow(F("same", <<V("r")>>), "x"),
    Dot(Dot(Un("*", V("r")), "t"), "y"), At0(V("b"), Read)>>
Givers ==
  <<I(2), Read, F("popped", <<V("a"), I(2)>>), F("pushed", <<V("a"), I(2)>>),
    F("cleared", <<V("a"), I(2)>>), F("bumped", <<V("r"), I(2)>>),
    F("swapped", <<V("r"), I(2)>>), F("popped", <<V("b"), I(2)>>)>>
Assignments == Pairs(LAMBDA p, g : <<Set(p, "=", g)>>, Places, Givers)
                 \o Pairs(LAMBDA p, g : <<Set(p, "-", g)>>, Places, SubSeq(Givers, 2, 5))
                 \o <<<<Set(Un("*", V("r")), "=", V("s")), Set(Dotted(<<"s", "x">>), "=", I(0))>>,
                      <<Set(At0(V("a"), U(0)), "=", At0(V("a"), U(1)))>>,
                      <<Set(Dotted(<<"r", "x">>), "=", F("bumped", <<V("r"), I(2)>>))>>,
                      <<Set(Dotted(<<"s", "t">>), "=", Dotted(<<"s", "t">>))>>>>
PlacePrograms ==
  Progs({"same", "popped", "pushed", "cleared", "bumped", "swapped"}, All(LAMBDA assignment :
          <<<<Var("s", S(I(1), I(2))), Var("n", I(1)), Var("b", Arr(<<I(1), I(2)>>)),
              Var("a", Repeat(V("s"), U(2))), Var("r", New_(V("s")))>> \o assignment
            \o <<Emit(V("n")), Emit(Dotted(<<"s", "x">>)), Emit(Dot(Un("*", V("r")), "x")),
                 Emit(F("len", <<V("a")>>)), Emit(Dot(At0(V("a"), U(1)), "x"))>>>>,
          Assignments), Bits(2))

-----------------------------------------------------------------------------
\* Matches, conditions and let-else within arms and bodies of one another,
\* and behind calls that match themselves.
Uses ==
  <<<<Emit(V("v"))>>,
    <<Do(F("tell", <<F("pick", <<>>)>>)), Emit(V("v"))>>,
    <<Match(F("pick", <<>>), "opt", <<Arm(PSome(Wild), <<Emit(V("v"))>>), Arm(PNone, <<>>)>>),
      Emit(V("v"))>>,
    <<If(Is(F("pick", <<>>), PSome(B("w"))), <<Emit(Op("+", V("v"), V("w")))>>, <<>>)>>,
    <<LetElse(PSome(B("w")), F("pick", <<>>), <<Return_(V("v"))>>), Emit(V("w"))>>,
    <<Emit(V("v")), While(Is(F("pick", <<>>), PSome(Wild)), <<Emit(V("v"))>>)>>>>
Takers(use) ==
  <<<<Match(F("make", <<>>), "E", <<Arm(PName("p", <<B("v")>>), use), Arm(PName("q", <<>>), <<>>)>>)>>,
    <<Match(F("make", <<>>), "E", <<Arm(PName("q", <<>>), <<Emit(I(1))>>), Arm(PName("p", <<B("v")>>), use)>>)>>,
    <<Match(Read, "i64", <<Arm(PLit(IntVal(1), "1"), <<>>), Arm(B("v"), use)>>)>>,
    <<If(Is(F("pick", <<>>), PSome(B("v"))), use, <<Do(F("tell", <<L(None)>>))>>)>>,
    <<LetElse(PSome(B("v")), F("pick", <<>>), <<Leave_("trap")>>)>> \o use>>
MatchPrograms == Progs({"pick", "make", "tell"}, All(Takers, Uses), Bits(4))

-----------------------------------------------------------------------------
\* Calls, with operands waiting behind them, and the evaluation order.
Calls ==
  <<<<Emit(Op("+", F("first", <<Arr(<<I(1), I(2)>>)>>), F("first", <<Arr(<<I(3), Read>>)>>)))>>,
    <<Emit(F("sum", <<I(2)>>)), Emit(F("sum", <<Read>>))>>,
    <<Var("e", Dotted(<<"host", "emit">>)), Do(Call_(V("e"), <<V("three")>>))>>,
    <<Do(Call_(V("same"), <<L(Unit)>>)), Emit(F("pop", <<Arr(<<>>)>>))>>,
    <<Emit(Op("&&", Asked, Op("||", Asked, Asked))), Emit(Op("||", Asked, Un("!", Asked)))>>,
    <<Emit(Op("/", I(3), Read)), Emit(Un("-", Cast_(Un("~", Read), "u")))>>,
    <<Emit(Op("==", Is(F("pick", <<>>), PNone), Is(F("make", <<>>), PName("q", <<>>)))),
      Emit(Dot(At0(Repeat(S(I(1), Read), U(2)), U(1)), "x"))>>,
    <<Var("r", New_(I(1))), Emit(Un("*", V("r"))),
      Emit(At0(Arr(<<I(1), I(2)>>), Read)), Emit(Dot(S(Read, I(1)), "x"))>>>>
\* Functions without names, one after the other.
Three == AnonFn(<<"y">>, "val", <<If(Asked, <<Return_(V("y"))>>, <<Return_(V("three"))>>)>>, 0)
Less == AnonFn(<<"z">>, "val", <<Return_(Op("-", V("z"), I(1)))>>, 0)
Unnamed ==
  <<ProgWith({"sum", "twice"}, <<Three, Less>>,
      <<Var("f", Anon(1)), Emit(F("twice", <<V("f")>>)), Emit(F("twice", <<V("sum")>>)),
        Set(V("f"), "=", Anon(2)), Emit(F("twice", <<V("f")>>)), Return_(I(0))>>, Bits(4)),
    ProgWith({}, <<Three>>, <<Var("f", Anon(1)), Var("y", I(1)), Return_(I(0))>>, Bits(1)),
    ProgWith({}, <<Three>>, <<Var("y", I(1)), Var("f", Anon(1)), Return_(I(0))>>, Bits(1))>>
CallPrograms == Progs({"first", "sum", "same", "pick", "make"}, Calls, Bits(4)) \o Unnamed

-----------------------------------------------------------------------------
\* Bodies that the checker refuses, or accepts after a look at every path.
Doubtful ==
  <<<<Emit(V("n"))>>,
    <<If(Asked, <<Var("n", I(1))>>, <<>>), Emit(V("n"))>>,
    <<Var("n", I(1)), If(Asked, <<Var("n", I(2))>>, <<>>)>>,
    <<ForIn("n", Arr(<<I(1)>>), <<LetElse(PSome(B("n")), F("pick", <<>>), <<Leave_("break")>>)>>)>>,
    <<If(Is(F("pick", <<>>), PSome(B("n"))), <<>>, <<Emit(V("n"))>>)>>,
    <<LetElse(PSome(B("n")), F("pick", <<>>), <<Emit(V("n")), Return_(I(0))>>)>>,
    <<LetElse(PSome(B("n")), F("pick", <<>>), <<If(Asked, <<Leave_("trap")>>, <<>>)>>)>>,
    <<Leave_("break")>>, <<Leave_("continue")>>,
    <<Match(F("make", <<>>), "E", <<Arm(PName("p", <<B("n")>>), <<>>)>>)>>,
    <<Match(F("pick", <<>>), "opt", <<Arm(PSome(B("n")), <<>>)>>)>>,
    <<Match(F("pick", <<>>), "opt", <<Arm(PSome(B("n")), <<>>), Arm(PSome(Wild), <<>>), Arm(PNone, <<>>)>>)>>,
    <<Match(Read, "i64", <<Arm(PLit(IntVal(0), "0"), <<>>), Arm(PLit(IntVal(1), "1"), <<>>)>>)>>,
    <<Set(F("same", <<I(1)>>), "=", I(2))>>>>
\* Bodies of a function that has to give a value.
Endings ==
  <<<<>>, <<If(Asked, <<Return_(I(1))>>, <<>>)>>,
    <<If(Asked, <<Return_(I(1))>>, <<Leave_("trap")>>)>>,
    <<While(L(Bool(TRUE)), <<If(Asked, <<Return_(I(1))>>, <<>>)>>)>>,
    <<While(L(Bool(TRUE)), <<If(Asked, <<Leave_("break")>>, <<Return_(I(1))>>)>>)>>,
    <<While(L(Bool(TRUE)), <<ForIn("x", Arr(<<Read>>), <<Leave_("break")>>), Return_(I(1))>>)>>,
    <<Match(F("pick", <<>>), "opt", <<Arm(PSome(B("w")), <<Return_(V("w"))>>), Arm(PNone, <<>>)>>)>>,
    <<Match(F("pick", <<>>), "opt", <<Arm(PSome(B("w")), <<Return_(V("w"))>>), Arm(Wild, <<Leave_("trap")>>)>>)>>,
    <<Return_(I(1)), Emit(I(1)), Emit(I(2))>>,
    <<While(Asked, <<Leave_("continue"), Emit(I(1))>>), Return_(I(1))>>,
    <<For(<<>>, <<>>, <<>>, <<Emit(Read)>>), Return_(I(1))>>>>
CheckedPrograms ==
  Progs(DOMAIN Library, Doubtful, Bits(2))
    \o All(LAMBDA body : <<Prog({"pick"}, body, Bits(2))>>, Endings)

-----------------------------------------------------------------------------
\* A function without a name inside another one.
Inner == AnonFn(<<"z">>, "val", <<Return_(Op("+", V("z"), I(1)))>>, 1)
Outer == AnonFn(<<"y">>, "val",
                <<Var("g", Anon(2)), Emit(Read), Return_(F("g", <<V("y")>>))>>, 0)
Nested ==
  <<ProgWith({}, <<Outer, Inner>>, <<Var("f", Anon(1)), Return_(F("f", <<I(1)>>))>>, Bits(2))>>

-----------------------------------------------------------------------------
\* A definition without parameters is evaluated once, what a constant stands
\* for whenever it is used.
Runs ==
  All(RunsOf, <<JumpPrograms, PlacePrograms, MatchPrograms, CallPrograms, CheckedPrograms>>)
MCLoaded == Runs

NestedRuns == RunsOf(Nested)
MCNested == NestedRuns

=============================================================================
