---------------------------- MODULE MCInstances ----------------------------
(***************************************************************************)
(* Small programs with generic types and functions, for TLC.               *)
(***************************************************************************)
EXTENDS Instances, TypeTerms

T == tparam("T")
U == tparam("U")
Prim == name_ty("u8", <<>>)
N == name_ty("N", <<>>)
A(t) == name_ty("A", <<t>>)
B(t) == name_ty("B", <<t>>)

-----------------------------------------------------------------------------
\* Two generic types with a part or two, and one without parameters.  (Types
\* whose parameters have one name can send walk round in circles: an optional
\* is substituted twice.)
PartsOfA == {<<T>>, <<opt(T)>>, <<A(T)>>, <<ref(A(A(T)))>>, <<B(T)>>, <<opt(B(arr(T)))>>, <<B(ref(A(T)))>>,
             <<T, B(opt(T))>>, <<arr(T), opt(A(arr(T)))>>, <<fnty(<<T>>, A(T)), N>>}
PartsOfB == {<<U>>, <<opt(U)>>, <<opt(A(U))>>, <<A(opt(U))>>, <<A(A(U))>>, <<U, opt(U)>>, <<Prim, arr(B(U))>>}
PartsOfN == {<<Prim>>, <<A(N)>>, <<A(ref(N))>>, <<opt(N)>>, <<B(opt(N)), Prim>>, <<A(B(Prim))>>}
Uses == {N, A(Prim), A(A(A(Prim))), B(A(opt(B(N))))}

Data(parts) == [n \in {"A", "B", "N"} |->
                  [gps |-> CASE n = "A" -> <<"T">> [] n = "B" -> <<"U">> [] n = "N" -> <<>>,
                   parts |-> parts[n]]]
Main(calls) == [gps |-> <<>>, params |-> <<>>, ret |-> Prim, calls |-> calls]
TypePrograms ==
  {[types |-> Data([n \in {"A", "B", "N"} |-> CASE n = "A" -> a [] n = "B" -> b [] n = "N" -> c]),
    fns |-> [n \in {"main"} |-> Main(<<>>)], uses |-> Uses] :
      a \in PartsOfA, b \in PartsOfB, c \in PartsOfN}

-----------------------------------------------------------------------------
\* Two generic functions and one without parameters that call each other.
Call(f, args, expected) ==
  [k |-> "call", f |-> f, args |-> args, expected |-> expected, targs |-> <<>>]
Fn(gps, params, ret, calls) == [gps |-> gps, params |-> params, ret |-> ret, calls |-> calls]
Explicit(f, targs, args) ==
  [k |-> "generic_call", f |-> f, args |-> args, expected |-> <<>>, targs |-> targs]

\* Calls in f[T], in g[T, U], in h.
CallsOfF == {<<>>, <<Call("f", <<T>>, <<>>)>>, <<Call("f", <<arr(T)>>, <<>>)>>, <<Call("g", <<T, T>>, <<>>)>>,
             <<Call("g", <<arr(T), T>>, <<T>>)>>, <<Call("h", <<T>>, <<>>)>>, <<Call("h", <<Prim>>, <<>>)>>,
             <<Call("f", <<opt(T)>>, <<>>), Call("g", <<opt(T), Prim>>, <<opt(T)>>)>>,
             <<Explicit("f", <<opt(T)>>, <<opt(T)>>)>>, <<Explicit("g", <<T, arr(T)>>, <<T, arr(T)>>)>>}
CallsOfG == {<<>>, <<Call("g", <<T, U>>, <<>>)>>, <<Call("g", <<U, T>>, <<>>)>>, <<Call("f", <<U>>, <<>>)>>,
             <<Call("f", <<T>>, <<>>), Call("g", <<T, U>>, <<T>>)>>, <<Call("f", <<ref(U)>>, <<>>)>>,
             <<Call("h", <<U>>, <<>>)>>}
CallsOfH == {<<>>, <<Call("f", <<Prim>>, <<>>)>>, <<Call("f", <<opt(Prim)>>, <<>>)>>, <<Call("f", <<arr(Prim)>>, <<>>)>>,
             <<Call("g", <<Prim, Prim>>, <<Prim>>)>>, <<Call("h", <<Prim>>, <<>>)>>}
CallsOfMain == {<<Call("f", <<Prim>>, <<>>), Call("g", <<opt(Prim), Prim>>, <<>>)>>,
                <<Explicit("f", <<opt(Prim)>>, <<opt(Prim)>>), Explicit("g", <<Prim, Prim>>, <<Prim, Prim>>)>>,
                <<Call("f", <<opt(Prim)>>, <<>>), Explicit("g", <<Prim>>, <<Prim, Prim>>)>>,
                <<Call("h", <<Prim>>, <<>>)>>}
ParamsOfF == {T, opt(T)}

FnPrograms ==
  {[types |-> [n \in {} |-> {}],
    fns |-> [n \in {"main", "f", "g", "h"} |->
               CASE n = "main" -> Main(m)
                 [] n = "f" -> Fn(<<"T">>, <<p>>, Prim, cf)
                 [] n = "g" -> Fn(<<"T", "U">>, <<T, U>>, T, cg)
                 [] n = "h" -> Fn(<<>>, <<Prim>>, Prim, ch)],
    uses |-> {Prim}] :
      m \in CallsOfMain, p \in ParamsOfF, cf \in CallsOfF, cg \in CallsOfG, ch \in CallsOfH}

\* The checker refuses the others.
MCAccepted == {program \in TypePrograms \cup FnPrograms : checked(program)}

=============================================================================
