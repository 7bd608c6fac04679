-------------------------- MODULE Instances_proofs --------------------------
(***************************************************************************)
(* Theorems about Instances: for all programs that the checker accepts,    *)
(* whatever their types, inferred calls need finitely many instances, and  *)
(* each of them is well typed.                                             *)
(*                                                                         *)
(* The type terms of a program are finite trees.  Induction over a tree is *)
(* the choice of a smallest counterexample among its nodes.                *)
(***************************************************************************)
EXTENDS Instances, SequenceTheorems, TLAPS

\* S holds types together with their arguments, and nothing in it contains
\* itself: among any of them is one that has no argument among them.
Nodes(S) ==
  /\ \A t \in S : t = Ty(t.k, t.n, t.args) /\ \A i \in DOMAIN t.args : t.args[i] \in S
  /\ \A Q \in SUBSET S : Q # {} => \E t \in Q : \A i \in DOMAIN t.args : t.args[i] \notin Q

IsType(t) == \E S : Nodes(S) /\ t \in S
\* A type whose parameters are among names (resolve_ty).
IsTypeOver(t, names) ==
  \E S : Nodes(S) /\ t \in S /\ \A u \in S : u.k = "param" => u.n \in names

\* Substitute is what the recursion of substitute defines, on every type.
SubstituteRecurs ==
  \A t, m : IsType(t) => Substitute(t, m) = substitute_by(Substitute, t, m)

\* The names in the types of a function are its parameters.
Resolved(fn) ==
  /\ \A i \in DOMAIN fn.params : IsTypeOver(fn.params[i], ToSet(fn.gps))
  /\ IsTypeOver(fn.ret, ToSet(fn.gps))
  /\ \A i \in DOMAIN fn.calls :
       /\ \A j \in DOMAIN fn.calls[i].args : IsType(fn.calls[i].args[j])
       /\ fn.calls[i].expected # <<>> => IsType(fn.calls[i].expected[1])

ProgramsResolved == \A p \in Accepted : \A n \in DOMAIN p.fns : Resolved(p.fns[n])

-----------------------------------------------------------------------------
(* Substitution.                                                           *)

LEMMA AtParameter ==
  ASSUME SubstituteRecurs, NEW t, IsType(t), t.k = "param", NEW m, t.n \in DOMAIN m
  PROVE  Substitute(t, m) = m[t.n]
BY DEF SubstituteRecurs, substitute_by

LEMMA AtOther ==
  ASSUME SubstituteRecurs, NEW t, IsType(t), t.k # "param", NEW m
  PROVE  Substitute(t, m) = [t EXCEPT !.args = [i \in DOMAIN t.args |-> Substitute(t.args[i], m)]]
BY DEF SubstituteRecurs, substitute_by

\* Substitution in what a map gives.
After(m, s) == [g \in DOMAIN m |-> Substitute(m[g], s)]

\* To substitute twice is to substitute once by the composed map, if the first
\* map says what every parameter of the type stands for.
LEMMA Composition ==
  ASSUME SubstituteRecurs, NEW m, NEW s, NEW t, IsTypeOver(t, DOMAIN m), IsType(Substitute(t, m))
  PROVE  Substitute(Substitute(t, m), s) = Substitute(t, After(m, s))
<1>1. PICK S : Nodes(S) /\ t \in S /\ \A u \in S : u.k = "param" => u.n \in DOMAIN m
  BY DEF IsTypeOver
<1>2. PICK R : Nodes(R) /\ Substitute(t, m) \in R
  BY DEF IsType
<1> DEFINE Q == {u \in S : /\ Substitute(u, m) \in R
                           /\ Substitute(Substitute(u, m), s) # Substitute(u, After(m, s))}
<1>3. SUFFICES ASSUME Q # {} PROVE FALSE
  BY <1>1, <1>2
<1>4. PICK u \in Q : \A i \in DOMAIN u.args : u.args[i] \notin Q
  <2> HIDE DEF Q
  <2>1. Q \in SUBSET S
    BY DEF Q
  <2> QED
    BY <1>1, <1>3, <2>1 DEF Nodes
<1>5. u \in S /\ Substitute(u, m) \in R
      /\ Substitute(Substitute(u, m), s) # Substitute(u, After(m, s))
  OBVIOUS
<1>6. IsType(u) /\ IsType(Substitute(u, m))
  BY <1>1, <1>2, <1>5 DEF IsType
<1>7. CASE u.k = "param"
  <2>1. u.n \in DOMAIN m /\ DOMAIN After(m, s) = DOMAIN m
    BY <1>1, <1>5, <1>7 DEF After
  <2>2. Substitute(u, m) = m[u.n] /\ Substitute(u, After(m, s)) = After(m, s)[u.n]
    BY <1>6, <1>7, <2>1, AtParameter
  <2>3. After(m, s)[u.n] = Substitute(m[u.n], s)
    BY <2>1 DEF After
  <2> QED
    BY <1>5, <2>2, <2>3
<1>8. CASE u.k # "param"
  <2> DEFINE v == Substitute(u, m)
             as == [i \in DOMAIN u.args |-> Substitute(u.args[i], m)]
             bs == [i \in DOMAIN u.args |-> Substitute(u.args[i], After(m, s))]
  <2>1. u = Ty(u.k, u.n, u.args) /\ \A i \in DOMAIN u.args : u.args[i] \in S
    BY <1>1, <1>5 DEF Nodes
  <2>2. v = [u EXCEPT !.args = as]
    BY <1>6, <1>8, AtOther
  <2>3. v.k = u.k /\ v.n = u.n /\ v.args = as
    BY <2>1, <2>2 DEF Ty
  <2>4. Substitute(v, s) = [v EXCEPT !.args = [i \in DOMAIN v.args |-> Substitute(v.args[i], s)]]
    BY <1>6, <1>8, <2>3, AtOther
  <2>5. ASSUME NEW i \in DOMAIN u.args
        PROVE  Substitute(as[i], s) = bs[i]
    <3>1. Substitute(u.args[i], m) \in R
      <4>1. v.args[i] \in R
        BY <1>2, <1>5, <2>3 DEF Nodes
      <4> QED
        BY <4>1, <2>3
    <3>2. u.args[i] \in S \ Q
      BY <2>1, <1>4
    <3> QED
      BY <3>1, <3>2
  <2>6. [i \in DOMAIN v.args |-> Substitute(v.args[i], s)] = bs
    BY <2>3, <2>5
  <2>7. Substitute(u, After(m, s)) = [u EXCEPT !.args = bs]
    BY <1>6, <1>8, AtOther
  <2>8. [v EXCEPT !.args = bs] = [u EXCEPT !.args = bs]
    BY <2>1, <2>2
  <2> QED
    BY <1>5, <2>4, <2>6, <2>7, <2>8
<1> QED
  BY <1>7, <1>8

LEMMA ParameterIsType ==
  ASSUME NEW n
  PROVE  IsType(tparam(n))
<1> DEFINE S == {tparam(n)}
<1>1. tparam(n).k = "param" /\ tparam(n).n = n /\ tparam(n).args = <<>>
  BY DEF tparam, Ty
<1>2. DOMAIN tparam(n).args = {}
  BY <1>1
<1>3. Nodes(S)
  <2>1. \A t \in S : t = Ty(t.k, t.n, t.args) /\ \A i \in DOMAIN t.args : t.args[i] \in S
    BY <1>1, <1>2 DEF tparam
  <2>2. \A Q \in SUBSET S : Q # {} => \E t \in Q : \A i \in DOMAIN t.args : t.args[i] \notin Q
    BY <1>2
  <2> QED
    BY <2>1, <2>2 DEF Nodes
<1> QED
  BY <1>3 DEF IsType

-----------------------------------------------------------------------------
(* Calls and the instances they need.                                      *)

\* A program that the checker accepts.
CheckedProgram(p) == /\ checked(p)
                     /\ \A n \in DOMAIN p.fns : p.fns[n].gps \in Seq(STRING)

\* A dictionary is a function on its keys.
LEMMA DictIs ==
  ASSUME NEW gps, NEW ts
  PROVE  /\ DOMAIN dict(gps, ts) = ToSet(gps)
         /\ dict(gps, ts) = [g \in ToSet(gps) |-> dict(gps, ts)[g]]
<1> DEFINE value(g) == ts[CHOOSE i \in DOMAIN gps : gps[i] = g]
           d == dict(gps, ts)
<1>1. d = [g \in ToSet(gps) |-> value(g)]
  BY DEF dict
<1> HIDE DEF value, d
<1>2. DOMAIN d = ToSet(gps) /\ \A g \in ToSet(gps) : d[g] = value(g)
  BY <1>1
<1>3. [g \in ToSet(gps) |-> d[g]] = [g \in ToSet(gps) |-> value(g)]
  BY <1>2
<1> QED
  BY <1>1, <1>2, <1>3 DEF d

\* Under the key of a parameter is its type argument.
LEMMA DictOf ==
  ASSUME NEW gps \in Seq(STRING), IsInjective(gps), NEW ts, NEW i \in DOMAIN gps
  PROVE  dict(gps, ts)[gps[i]] = ts[i] /\ gps[i] \in ToSet(gps) /\ DOMAIN dict(gps, ts) = ToSet(gps)
<1> DEFINE j == CHOOSE k \in DOMAIN gps : gps[k] = gps[i]
<1>1. j \in DOMAIN gps /\ gps[j] = gps[i]
  OBVIOUS
<1>2. j = i
  BY <1>1 DEF IsInjective
<1>3. gps[i] \in ToSet(gps)
  BY DEF ToSet
<1> QED
  BY <1>2, <1>3 DEF dict

\* An instance has a type argument for each parameter.
Shaped(p, ins) ==
  /\ ins = Instance(ins.f, ins.targs)
  /\ ins.f \in DOMAIN p.fns
  /\ ins.targs = [j \in DOMAIN p.fns[ins.f].gps |-> ins.targs[j]]

\* What the checker knows of a call: its parameters stand for the types m, the
\* types of arguments and result are those of the function under m, and m
\* keeps the parameters where a function calls itself.
MapOf(p, n, c, m) ==
  LET fn == p.fns[c.f]
  IN  /\ DOMAIN m = ToSet(fn.gps)
      /\ DOMAIN generic_args(p, c) = DOMAIN fn.gps
      /\ \A i \in DOMAIN fn.gps : generic_args(p, c)[i] = m[fn.gps[i]]
      /\ Fits(fn, m, c)
      /\ c.k = "call" /\ c.f = n => preserves(fn.gps, m)

LEMMA CallMap ==
  ASSUME NEW p, CheckedProgram(p), NEW n \in DOMAIN p.fns, NEW i \in DOMAIN p.fns[n].calls
  PROVE  LET c == p.fns[n].calls[i]
         IN  /\ c.f \in DOMAIN p.fns /\ DOMAIN c.args = DOMAIN p.fns[c.f].params
             /\ \E m : MapOf(p, n, c, m)
<1> DEFINE c == p.fns[n].calls[i]
           fn == p.fns[c.f]
<1>1. /\ c.f \in DOMAIN p.fns /\ DOMAIN c.args = DOMAIN fn.params
      /\ IF c.k = "call" THEN instantiate_call(fn, c, c.f = n) ELSE generic_call(fn, c)
  BY DEF CheckedProgram, checked, call_ok
<1>2. fn.gps \in Seq(STRING) /\ IsInjective(fn.gps)
  BY <1>1 DEF CheckedProgram, checked
<1>3. CASE c.k = "call" /\ fn.gps = <<>>
  <2>1. Fits(fn, Nothing, c)
    BY <1>1, <1>3 DEF instantiate_call
  <2>2. ToSet(fn.gps) = {} /\ DOMAIN fn.gps = {} /\ DOMAIN Nothing = {}
    BY <1>3 DEF ToSet, Nothing
  <2>3. DOMAIN generic_args(p, c) = DOMAIN fn.gps
    BY <1>3 DEF generic_args
  <2>4. MapOf(p, n, c, Nothing)
    BY <2>1, <2>2, <2>3 DEF MapOf, preserves
  <2> QED
    BY <1>1, <2>4
<1>4. CASE c.k = "call" /\ fn.gps # <<>>
  <2> DEFINE m == inferred(fn, c).m
  <2>1. DOMAIN m = ToSet(fn.gps) /\ Fits(fn, m, c) /\ (c.f = n => preserves(fn.gps, m))
    BY <1>1, <1>4 DEF instantiate_call
  <2>2. generic_args(p, c) = [j \in DOMAIN fn.gps |-> m[fn.gps[j]]]
    BY <1>4 DEF generic_args
  <2> HIDE DEF m
  <2>3. MapOf(p, n, c, m)
    BY <2>1, <2>2 DEF MapOf
  <2> QED
    BY <1>1, <2>3
<1>5. CASE c.k # "call"
  <2> DEFINE m == dict(fn.gps, c.targs)
  <2>1. DOMAIN c.targs = DOMAIN fn.gps /\ Fits(fn, m, c)
    BY <1>1, <1>5 DEF generic_call
  <2>2. generic_args(p, c) = c.targs
    BY <1>5 DEF generic_args
  <2>3. DOMAIN m = ToSet(fn.gps)
    BY DictIs
  <2>4. \A j \in DOMAIN fn.gps : m[fn.gps[j]] = c.targs[j]
    <3>1. PICK gps, ts : gps = fn.gps /\ ts = c.targs
      OBVIOUS
    <3>2. gps \in Seq(STRING) /\ IsInjective(gps)
      BY <1>2, <3>1
    <3>3. ASSUME NEW j \in DOMAIN gps
          PROVE  dict(gps, ts)[gps[j]] = ts[j]
      BY <3>2, DictOf
    <3> QED
      BY <3>1, <3>3
  <2> HIDE DEF m
  <2>5. MapOf(p, n, c, m)
    BY <1>5, <2>1, <2>2, <2>3, <2>4 DEF MapOf
  <2> QED
    BY <1>1, <2>5
<1> QED
  BY <1>3, <1>4, <1>5

\* What the parameters of the called function stand for, in its instance.
LEMMA StandsAfter ==
  ASSUME CheckedProgram(pg), NEW ins, ins.f \in DOMAIN pg.fns, NEW c, c.f \in DOMAIN pg.fns,
         NEW m, MapOf(pg, ins.f, c, m)
  PROVE  Stands(Called(ins, c)) = After(m, Stands(ins))
<1> DEFINE gps == pg.fns[c.f].gps
           ts == [i \in DOMAIN gps |-> Substitute(m[gps[i]], Stands(ins))]
<1>1. gps \in Seq(STRING) /\ IsInjective(gps)
  BY DEF CheckedProgram, checked
<1>2. Called(ins, c) = Instance(c.f, ts)
  BY DEF Called, MapOf
<1>3. Stands(Called(ins, c)) = dict(gps, ts)
  BY <1>2 DEF Stands, Instance
<1>4. DOMAIN m = ToSet(gps)
  BY DEF MapOf
<1>5. ASSUME NEW g \in ToSet(gps)
      PROVE  dict(gps, ts)[g] = Substitute(m[g], Stands(ins))
  <2>1. PICK i \in DOMAIN gps : gps[i] = g
    BY <1>1, <1>5 DEF ToSet
  <2>2. dict(gps, ts)[gps[i]] = ts[i]
    BY <1>1, DictOf
  <2> QED
    BY <2>1, <2>2
<1> DEFINE d == dict(gps, ts)
<1>6. d = [g \in ToSet(gps) |-> d[g]]
  BY DictIs
<1> HIDE DEF d
<1>7. d = [g \in ToSet(gps) |-> Substitute(m[g], Stands(ins))]
  BY <1>5, <1>6 DEF d
<1> QED
  BY <1>3, <1>4, <1>7 DEF After, d

\* An inferred call of a generic function by itself needs no other instance.
LEMMA SelfCall ==
  ASSUME SubstituteRecurs, CheckedProgram(pg), NEW ins, Shaped(pg, ins),
         NEW c, c.f = ins.f, c.k = "call", NEW m, MapOf(pg, ins.f, c, m)
  PROVE  Called(ins, c) = ins
<1> DEFINE gps == pg.fns[ins.f].gps
           as == generic_args(pg, c)
           ts == [i \in DOMAIN as |-> Substitute(as[i], Stands(ins))]
<1>1. gps \in Seq(STRING) /\ IsInjective(gps)
  BY DEF CheckedProgram, checked, Shaped
<1>2. Called(ins, c) = Instance(ins.f, ts)
  BY DEF Called
<1>3. DOMAIN as = DOMAIN gps /\ \A i \in DOMAIN gps : as[i] = tparam(gps[i])
  BY DEF MapOf, preserves
<1>4. ASSUME NEW i \in DOMAIN gps
      PROVE  Substitute(tparam(gps[i]), Stands(ins)) = ins.targs[i]
  <2>1. /\ Stands(ins)[gps[i]] = ins.targs[i] /\ gps[i] \in DOMAIN Stands(ins)
    BY <1>1, DictOf DEF Stands
  <2>2. tparam(gps[i]).k = "param" /\ tparam(gps[i]).n = gps[i]
    BY DEF tparam, Ty
  <2> QED
    BY <2>1, <2>2, AtParameter, ParameterIsType
<1> HIDE DEF as
<1>5. ts = [i \in DOMAIN gps |-> ins.targs[i]]
  BY <1>3, <1>4
<1> QED
  BY <1>2, <1>5 DEF Shaped

-----------------------------------------------------------------------------
(* The invariant.                                                          *)

IsSequence(s) == \E X : s \in Seq(X)

\* Only the first function of the chain has no parameters.
ChainOK ==
  /\ pg \in Accepted
  /\ chain # <<>> /\ IsSequence(chain)
  /\ \A i \in DOMAIN chain : Shaped(pg, chain[i]) /\ (chain[i].f \in generic(pg) <=> i > 1)

\* From a generic function of the chain, calls lead to every later one.
Linked == Inferred => \A i, j \in DOMAIN chain :
            1 < i /\ i < j => reaches(pg, chain[i].f, chain[j].f)

IInv == ChainOK /\ Linked /\ InstancesApart

LEMMA AcceptedChecked ==
  ASSUME ChainOK
  PROVE  CheckedProgram(pg)
BY InstancesAssumption DEF ChainOK, CheckedProgram

LEMMA LastOfChain ==
  ASSUME ChainOK
  PROVE  /\ Len(chain) \in Nat \ {0} /\ DOMAIN chain = 1..Len(chain)
         /\ Last(chain) = chain[Len(chain)] /\ Len(chain) \in DOMAIN chain
<1>1. PICK X : chain \in Seq(X) /\ chain # <<>>
  BY DEF ChainOK, IsSequence
<1> QED
  BY <1>1 DEF Last

LEMMA InitInv == Init => IInv
<1> SUFFICES ASSUME Init PROVE IInv
  OBVIOUS
<1> DEFINE m == Instance("main", <<>>)
<1>1. chain = <<m>> /\ pg \in Accepted /\ DOMAIN chain = {1} /\ chain[1] = m /\ chain \in Seq({m})
  BY DEF Init
<1>9. IsSequence(chain) /\ chain # <<>>
  BY <1>1 DEF IsSequence
<1>2. m.f = "main" /\ m.targs = <<>>
  BY DEF Instance
<1>3. "main" \in DOMAIN pg.fns /\ pg.fns["main"].gps = <<>>
  BY <1>1, InstancesAssumption
<1>4. <<>> = [j \in DOMAIN pg.fns["main"].gps |-> <<>>[j]]
  BY <1>3
<1>5. "main" \notin generic(pg)
  BY <1>3 DEF generic
<1>6. Shaped(pg, m)
  <2> HIDE DEF m
  <2> QED
    BY <1>2, <1>3, <1>4 DEF Shaped, m
<1> HIDE DEF m
<1>7. ChainOK
  BY <1>1, <1>2, <1>5, <1>6, <1>9 DEF ChainOK
<1>8. Linked /\ InstancesApart
  BY <1>1 DEF Linked, InstancesApart
<1> QED
  BY <1>7, <1>8 DEF IInv

\* The instance that a call of the last one needs.
LEMMA CalledShape ==
  ASSUME ChainOK, NEW i \in DOMAIN pg.fns[Last(chain).f].calls
  PROVE  LET c == pg.fns[Last(chain).f].calls[i]
             next == Called(Last(chain), c)
         IN  /\ next.f = c.f /\ c.f \in DOMAIN pg.fns
             /\ Shaped(pg, next)
             /\ next.f \in generic(pg) <=> next.targs # <<>>
             /\ \E m : MapOf(pg, Last(chain).f, c, m)
<1> DEFINE ins == Last(chain)
           c == pg.fns[ins.f].calls[i]
           next == Called(ins, c)
<1>1. CheckedProgram(pg) /\ ins.f \in DOMAIN pg.fns
  BY AcceptedChecked, LastOfChain DEF ChainOK, Shaped
<1>2. c.f \in DOMAIN pg.fns /\ \E m : MapOf(pg, ins.f, c, m)
  BY <1>1, CallMap
<1> DEFINE gps == pg.fns[c.f].gps
           as == generic_args(pg, c)
           ts == [j \in DOMAIN as |-> Substitute(as[j], Stands(ins))]
<1>3. DOMAIN as = DOMAIN gps
  BY <1>2 DEF MapOf
<1>4. next = Instance(c.f, ts)
  BY DEF Called
<1>5. next.f = c.f /\ next.targs = ts
  <2> HIDE DEF next, ts, c
  <2> QED
    BY <1>4 DEF Instance
<1>6. ts = [j \in DOMAIN gps |-> ts[j]] /\ DOMAIN ts = DOMAIN gps
  <2> HIDE DEF as
  <2> QED
    BY <1>3
<1>7. gps \in Seq(STRING)
  BY <1>1, <1>2 DEF CheckedProgram
<1>8. gps = <<>> <=> DOMAIN gps = {}
  <2> HIDE DEF gps
  <2>1. DOMAIN gps = 1..Len(gps) /\ Len(gps) \in Nat
    BY <1>7
  <2>2. gps = <<>> <=> Len(gps) = 0
    BY <1>7, EmptySeq
  <2>3. PICK k \in Nat : k = Len(gps)
    BY <2>1
  <2>4. 1..k = {} <=> k = 0
    <3>1. k # 0 => 1 \in 1..k
      BY <2>3
    <3>2. 1..0 = {}
      OBVIOUS
    <3> QED
      BY <3>1, <3>2
  <2>5. DOMAIN gps = 1..k
    BY <2>1, <2>3
  <2>6. gps = <<>> <=> k = 0
    BY <2>2, <2>3
  <2> QED
    BY <2>4, <2>5, <2>6, Zenon
<1>9. ts = <<>> <=> DOMAIN ts = {}
  <2> HIDE DEF ts
  <2>1. DOMAIN ts = {} => ts = [j \in {} |-> ts[j]]
    BY <1>6
  <2>2. <<>> = [j \in {} |-> ts[j]]
    OBVIOUS
  <2> QED
    BY <2>1, <2>2
<1>10. c.f \in generic(pg) <=> gps # <<>>
  BY <1>2 DEF generic
<1> HIDE DEF next, ts
<1>11. Shaped(pg, next)
  BY <1>2, <1>4, <1>5, <1>6 DEF Shaped
<1>12. next.f \in generic(pg) <=> next.targs # <<>>
  BY <1>5, <1>6, <1>8, <1>9, <1>10
<1> QED
  BY <1>2, <1>5, <1>11, <1>12 DEF next

-----------------------------------------------------------------------------
(* Generic functions that calls lead to.                                   *)

LEMMA EdgeReaches ==
  ASSUME NEW p, NEW a, NEW b \in edges(p, a)
  PROVE  reaches(p, a, b)
BY DEF reaches

LEMMA ReachesOn ==
  ASSUME NEW p, NEW a, NEW b, reaches(p, a, b), NEW c \in edges(p, b)
  PROVE  reaches(p, a, c)
BY DEF reaches

LEMMA CallEdge ==
  ASSUME Inferred, NEW n \in generic(pg), NEW i \in DOMAIN pg.fns[n].calls,
         pg.fns[n].calls[i].f \in generic(pg)
  PROVE  pg.fns[n].calls[i].k = "call" /\ pg.fns[n].calls[i].f \in edges(pg, n)
BY DEF Inferred, edges

LEMMA InstantiateInv ==
  ASSUME SubstituteRecurs, IInv, Instantiate
  PROVE  IInv'
<1> DEFINE ins == Last(chain)
           n == Len(chain)
<1>1. ChainOK /\ Linked /\ InstancesApart /\ pg' = pg
  BY DEF IInv, Instantiate
<1>2. n \in Nat \ {0} /\ DOMAIN chain = 1..n /\ ins = chain[n] /\ n \in DOMAIN chain
  BY <1>1, LastOfChain
<1>3. PICK i \in DOMAIN pg.fns[ins.f].calls :
        LET next == Called(ins, pg.fns[ins.f].calls[i])
        IN  /\ next # ins
            /\ chain' = IF next.targs = <<>> THEN <<next>> ELSE Append(chain, next)
  BY DEF Instantiate
<1> DEFINE c == pg.fns[ins.f].calls[i]
           next == Called(ins, c)
<1>4. /\ next.f = c.f /\ c.f \in DOMAIN pg.fns
      /\ Shaped(pg, next)
      /\ next.f \in generic(pg) <=> next.targs # <<>>
      /\ \E m : MapOf(pg, ins.f, c, m)
  BY <1>1, CalledShape
<1>5. next # ins /\ chain' = IF next.targs = <<>> THEN <<next>> ELSE Append(chain, next)
  BY <1>3
<1>6. CheckedProgram(pg) /\ Shaped(pg, ins) /\ pg \in Accepted
  BY <1>1, <1>2, AcceptedChecked DEF ChainOK
<1>7. c.k = "call" /\ c.f = ins.f => next = ins
  BY <1>4, <1>6, SelfCall
<1>8. PICK X : chain \in Seq(X)
  BY <1>1 DEF ChainOK, IsSequence
<1> HIDE DEF next, c
<1>9. CASE next.targs = <<>>
  <2>1. chain' = <<next>> /\ DOMAIN chain' = {1} /\ chain'[1] = next /\ chain' \in Seq({next})
    BY <1>5, <1>9
  <2>2. next.f \notin generic(pg)
    BY <1>4, <1>9
  <2>3. (IsSequence(chain) /\ chain # <<>>)'
    BY <2>1 DEF IsSequence
  <2>5. ChainOK'
    BY <1>1, <1>4, <1>6, <2>1, <2>2, <2>3 DEF ChainOK
  <2>4. Linked' /\ InstancesApart'
    BY <2>1 DEF Linked, InstancesApart
  <2> QED
    BY <2>4, <2>5 DEF IInv
<1>10. CASE next.targs # <<>>
  <2>1. /\ chain' = Append(chain, next) /\ Len(chain') = n + 1 /\ DOMAIN chain' = 1..(n + 1)
        /\ chain'[n + 1] = next /\ \A k \in 1..n : chain'[k] = chain[k]
    BY <1>2, <1>5, <1>8, <1>10
  <2>2. (IsSequence(chain) /\ chain # <<>>)'
    <3>1. chain' \in Seq(X \cup {next}) /\ chain' # <<>>
      BY <1>8, <2>1
    <3> QED
      BY <3>1 DEF IsSequence
  <2>3. next.f \in generic(pg)
    BY <1>4, <1>10
  <2>4. ChainOK'
    <3>1. ASSUME NEW k \in DOMAIN chain'
          PROVE  Shaped(pg, chain'[k]) /\ (chain'[k].f \in generic(pg) <=> k > 1)
      <4>1. CASE k = n + 1
        BY <1>2, <1>4, <2>1, <2>3, <4>1
      <4>2. CASE k \in 1..n
        BY <1>1, <1>2, <2>1, <4>2 DEF ChainOK
      <4> QED
        BY <1>2, <2>1, <3>1, <4>1, <4>2
    <3> QED
      BY <1>1, <1>6, <2>2, <3>1 DEF ChainOK
  <2>5. Inferred' = Inferred
    BY <1>1 DEF Inferred
  <2>6. ASSUME Inferred, ins.f \in generic(pg)
        PROVE  c.k = "call" /\ next.f \in edges(pg, ins.f)
    BY <1>4, <2>3, <2>6, CallEdge DEF c
  <2>7. Linked'
    <3> SUFFICES ASSUME Inferred, NEW a \in 1..(n + 1), NEW b \in 1..(n + 1), 1 < a, a < b
                 PROVE  reaches(pg, chain'[a].f, chain'[b].f)
      BY <1>1, <2>1, <2>5 DEF Linked
    <3>1. a \in 1..n /\ chain'[a] = chain[a] /\ a \in DOMAIN chain
      BY <1>2, <2>1
    <3>2. CASE b # n + 1
      <4>1. b \in 1..n /\ chain'[b] = chain[b]
        BY <1>2, <2>1, <3>2
      <4> QED
        BY <1>1, <1>2, <3>1, <4>1 DEF Linked
    <3>3. CASE b = n + 1
      <4>1. ins.f \in generic(pg)
        <5>1. n > 1
          BY <1>2, <3>1
        <5> QED
          BY <1>1, <1>2, <5>1 DEF ChainOK
      <4>2. CASE a = n
        BY <1>2, <2>1, <2>6, <3>1, <3>3, <4>1, <4>2, EdgeReaches
      <4>3. CASE a # n
        <5>1. reaches(pg, chain[a].f, ins.f)
          BY <1>1, <1>2, <3>1, <4>3 DEF Linked
        <5> QED
          BY <2>1, <2>6, <3>1, <3>3, <4>1, <5>1, ReachesOn
      <4> QED
        BY <4>2, <4>3
    <3> QED
      BY <3>2, <3>3
  <2>8. ASSUME Inferred, NEW a \in 1..n, chain[a].f = next.f
        PROVE  FALSE
    <3>1. chain[a].f \in generic(pg) /\ a > 1
      BY <1>1, <1>2, <2>3, <2>8 DEF ChainOK
    <3>2. ins.f \in generic(pg)
      <4>1. n > 1
        BY <1>2, <2>8, <3>1
      <4> QED
        BY <1>1, <1>2, <4>1 DEF ChainOK
    <3>3. c.k = "call" /\ next.f \in edges(pg, ins.f)
      BY <2>6, <2>8, <3>2
    <3>4. CASE a = n
      <4>1. c.f = ins.f
        BY <1>2, <1>4, <2>8, <3>4
      <4> QED
        BY <1>5, <1>7, <3>3, <4>1
    <3>5. CASE a # n
      <4>1. reaches(pg, chain[a].f, ins.f)
        <5>1. a \in DOMAIN chain /\ n \in DOMAIN chain /\ 1 < a /\ a < n
          <6>1. n \in Nat /\ a \in Nat /\ a <= n /\ a > 1
            BY <1>2, <2>8, <3>1
          <6>2. 1 < a /\ a < n
            BY <3>5, <6>1
          <6> QED
            BY <1>2, <2>8, <6>2
        <5>2. \A x, y \in DOMAIN chain : 1 < x /\ x < y => reaches(pg, chain[x].f, chain[y].f)
          BY <1>1, <2>8, Zenon DEF Linked
        <5>3. reaches(pg, chain[a].f, chain[n].f)
          BY <5>1, <5>2
        <5> QED
          BY <1>2, <5>3
      <4>2. reaches(pg, ins.f, chain[a].f)
        BY <2>8, <3>3, EdgeReaches
      <4>3. chain[a].f = ins.f
        BY <1>6, <3>1, <3>2, <4>1, <4>2 DEF CheckedProgram, checked, check_generic_recursion, component
      <4> QED
        BY <1>1, <1>2, <2>8, <3>5, <4>3 DEF InstancesApart
    <3> QED
      BY <3>4, <3>5
  <2>9. InstancesApart'
    <3> SUFFICES ASSUME Inferred, NEW a \in 1..(n + 1), NEW b \in 1..(n + 1), chain'[a].f = chain'[b].f
                 PROVE  a = b
      BY <2>1, <2>5 DEF InstancesApart
    <3>1. CASE a \in 1..n /\ b \in 1..n
      BY <1>1, <1>2, <2>1, <3>1 DEF InstancesApart
    <3>2. CASE a = n + 1 /\ b \in 1..n
      BY <2>1, <2>8, <3>2
    <3>3. CASE b = n + 1 /\ a \in 1..n
      BY <2>1, <2>8, <3>3
    <3> QED
      BY <1>2, <3>1, <3>2, <3>3
  <2> QED
    BY <2>4, <2>7, <2>9 DEF IInv
<1> QED
  BY <1>9, <1>10

LEMMA NextInv ==
  ASSUME SubstituteRecurs, IInv, [Next]_vars
  PROVE  IInv'
<1>1. CASE Instantiate
  BY <1>1, InstantiateInv
<1>2. CASE LayOut
  BY <1>2 DEF LayOut, IInv, ChainOK, Linked, InstancesApart, Inferred
<1>3. CASE UNCHANGED vars
  BY <1>3 DEF vars, IInv, ChainOK, Linked, InstancesApart, Inferred
<1> QED
  BY <1>1, <1>2, <1>3 DEF Next

\* The invariant behind InstancesApart, for whatever programs the checker
\* accepts (instantiate_call, check_generic_recursion).
THEOREM Invariant ==
  ASSUME SubstituteRecurs
  PROVE  Spec => []IInv
<1>1. Init => IInv
  BY InitInv
<1>2. IInv /\ [Next]_vars => IInv'
  BY NextInv
<1> QED
  BY <1>1, <1>2, PTL DEF Spec

\* Inferred calls need finitely many instances: no chain of calls between
\* generic functions comes back to a function with other type arguments.
THEOREM InstancesApartHolds ==
  ASSUME SubstituteRecurs
  PROVE  Spec => []InstancesApart
<1>1. IInv => InstancesApart
  BY DEF IInv
<1> QED
  BY <1>1, Invariant, PTL

-----------------------------------------------------------------------------
(* Instances are well typed.                                               *)

LEMMA CallTyped ==
  ASSUME SubstituteRecurs, ProgramsResolved, ChainOK, NEW i \in DOMAIN pg.fns[Last(chain).f].calls
  PROVE  LET ins == Last(chain)
             c == pg.fns[ins.f].calls[i]
             fn == pg.fns[c.f]
             next == Called(ins, c)
         IN  /\ \A j \in DOMAIN c.args :
                  Substitute(c.args[j], Stands(ins)) = Substitute(fn.params[j], Stands(next))
             /\ c.expected # <<>> =>
                  Substitute(c.expected[1], Stands(ins)) = Substitute(fn.ret, Stands(next))
<1> DEFINE ins == Last(chain)
           c == pg.fns[ins.f].calls[i]
           fn == pg.fns[c.f]
           s == Stands(ins)
<1>1. CheckedProgram(pg) /\ ins.f \in DOMAIN pg.fns /\ pg \in Accepted
  BY AcceptedChecked, LastOfChain DEF ChainOK, Shaped
<1>2. c.f \in DOMAIN pg.fns /\ DOMAIN c.args = DOMAIN fn.params
  BY <1>1, CallMap
<1>3. PICK m : MapOf(pg, ins.f, c, m)
  BY <1>1, CallMap
<1>4. Stands(Called(ins, c)) = After(m, s)
  BY <1>1, <1>2, <1>3, StandsAfter
<1>5. DOMAIN m = ToSet(fn.gps) /\ Fits(fn, m, c)
  BY <1>3 DEF MapOf
<1>6. Resolved(pg.fns[ins.f]) /\ Resolved(fn)
  BY <1>1, <1>2 DEF ProgramsResolved
<1>7. ASSUME NEW j \in DOMAIN c.args
      PROVE  Substitute(c.args[j], s) = Substitute(fn.params[j], After(m, s))
  <2>1. j \in DOMAIN fn.params /\ c.args[j] = Substitute(fn.params[j], m)
    BY <1>2, <1>5 DEF Fits
  <2>2. IsType(c.args[j]) /\ IsTypeOver(fn.params[j], DOMAIN m)
    BY <1>5, <1>6, <2>1 DEF Resolved
  <2> QED
    BY <2>1, <2>2, Composition
<1>8. ASSUME c.expected # <<>>
      PROVE  Substitute(c.expected[1], s) = Substitute(fn.ret, After(m, s))
  <2>1. c.expected[1] = Substitute(fn.ret, m)
    BY <1>5, <1>8 DEF Fits
  <2>2. IsType(c.expected[1]) /\ IsTypeOver(fn.ret, DOMAIN m)
    BY <1>5, <1>6, <1>8 DEF Resolved
  <2> QED
    BY <2>1, <2>2, Composition
<1> QED
  BY <1>4, <1>7, <1>8

\* A body that the checker accepts with its parameters left open is well typed
\* in every instance (instantiate_call, generic_call).
THEOREM InstancesTypedHolds ==
  ASSUME SubstituteRecurs, ProgramsResolved
  PROVE  Spec => []InstancesTyped
<1>1. IInv => InstancesTyped
  <2> SUFFICES ASSUME IInv PROVE InstancesTyped
    OBVIOUS
  <2> QED
    BY CallTyped DEF IInv, InstancesTyped
<1> QED
  BY <1>1, Invariant, PTL

=============================================================================
