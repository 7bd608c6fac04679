------------------------------ MODULE Instances ------------------------------
(***************************************************************************)
(* What a native implementation that copies generic code for each use does *)
(* with a program the checker accepts: it lays out values, part by part,   *)
(* and makes instances of functions, call by call.  chain is the sequence  *)
(* of instances that calls lead through, from the last function without    *)
(* type parameters on; nest goes from a type to a part of its value, to a  *)
(* part of that, and so on.                                                *)
(***************************************************************************)
EXTENDS Generics

CONSTANTS Accepted,    \* programs, with the types they make values of (uses)
          MaxChain,    \* bound of chain
          MaxNest      \* bound of nest

ASSUME InstancesAssumption ==
  /\ MaxChain \in Nat /\ MaxNest \in Nat
  /\ \A p \in Accepted : /\ checked(p)
                         /\ "main" \in DOMAIN p.fns /\ p.fns["main"].gps = <<>>
                         /\ \A n \in DOMAIN p.fns : p.fns[n].gps \in Seq(STRING)

VARIABLES pg,          \* the program
          chain,       \* instances [f, targs]
          nest         \* types

vars == <<pg, chain, nest>>

Instance(f, targs) == [f |-> f, targs |-> targs]

Init == /\ pg \in Accepted
        /\ chain = <<Instance("main", <<>>)>>
        /\ \E t \in pg.uses : nest = <<t>>

\* What the type parameters stand for in an instance.
Stands(ins) == dict(pg.fns[ins.f].gps, ins.targs)
Called(ins, c) == LET targs == generic_args(pg, c)
                  IN  Instance(c.f, [i \in DOMAIN targs |-> Substitute(targs[i], Stands(ins))])

\* The instance a call of the last one needs, if it is another one.
Instantiate == /\ Len(chain) < MaxChain
               /\ LET ins == Last(chain) IN
                  \E i \in DOMAIN pg.fns[ins.f].calls :
                    LET next == Called(ins, pg.fns[ins.f].calls[i])
                    IN  /\ next # ins
                        /\ chain' = IF next.targs = <<>> THEN <<next>> ELSE Append(chain, next)
               /\ UNCHANGED <<pg, nest>>

\* The types of the parts that a value of type t holds in itself.
Parts(t) == CASE t.k = "opt" -> {t.args[1]}
              [] t.k = "name" /\ t.n \in DOMAIN pg.types ->
                   LET d == pg.types[t.n]
                   IN  {Substitute(d.parts[i], dict(d.gps, t.args)) : i \in DOMAIN d.parts}
              [] OTHER -> {}

LayOut == /\ Len(nest) < MaxNest
          /\ \E t \in Parts(Last(nest)) : nest' = Append(nest, t)
          /\ UNCHANGED <<pg, chain>>

Next == Instantiate \/ LayOut

Spec == Init /\ [][Next]_vars

-----------------------------------------------------------------------------
\* Every value has a finite layout: from any type the program uses, whatever
\* its arguments, the parts of parts come to an end.  (validate_layouts looks
\* at declarations with their parameters left open.)
LayoutsEnd == Len(nest) < MaxNest

\* Calls from one generic function to another leave their type arguments to
\* inference.
Inferred == \A n \in generic(pg) : \A i \in DOMAIN pg.fns[n].calls :
              pg.fns[n].calls[i].f \in generic(pg) => pg.fns[n].calls[i].k = "call"

\* Finitely many instances are enough for inferred calls: generic functions
\* never lead back to a function with other type arguments, unless a function
\* without parameters comes between.
InstancesApart == Inferred => \A i, j \in DOMAIN chain : chain[i].f = chain[j].f => i = j

\* The rule the documents state for every recursive generic call, whether its
\* type arguments are inferred or written: it keeps them (run explicit).
RecursionKeeps == \A i, j \in DOMAIN chain : chain[i].f = chain[j].f => chain[i] = chain[j]

\* A body checked with its parameters left open is well typed in every
\* instance: the types of the arguments of a call are the ones the instance
\* it leads to expects, and its result is what the caller expects.
InstancesTyped ==
  LET ins == Last(chain)
  IN  \A i \in DOMAIN pg.fns[ins.f].calls :
        LET c == pg.fns[ins.f].calls[i]
            fn == pg.fns[c.f]
            next == Called(ins, c)
        IN  /\ \A j \in DOMAIN c.args :
                 Substitute(c.args[j], Stands(ins)) = Substitute(fn.params[j], Stands(next))
            /\ c.expected # <<>> =>
                 Substitute(c.expected[1], Stands(ins)) = Substitute(fn.ret, Stands(next))

=============================================================================
