----------------------------- MODULE LangValues -----------------------------
(***************************************************************************)
(* The run-time values of src/lang/core.py: scalars, optionals and enums   *)
(* are values; structs, arrays and reference cells are objects with an     *)
(* identity, which a place may hold on to.  Both engines share them.       *)
(*                                                                         *)
(* A memory is a record: the heap is the sequence of the objects made so   *)
(* far, the scopes are the dictionaries of locals, out is what was given   *)
(* to the host's emit, input and pos are the values its read returns.      *)
(* The operators take a memory and give [sig, v, m]: whether the code      *)
(* returns or traps, the value, and the memory it leaves.                  *)
(*                                                                         *)
(* Integers have Width bits: type "u" stands for the unsigned ones, "i"    *)
(* for the signed ones.  Floats are left out; a string is an array.        *)
(* The host offers emit and read; what is emitted is what a run shows.  A  *)
(* host call traps when the input is used up or MaxOut values were emitted *)
(***************************************************************************)
EXTENDS Integers, Sequences, SequencesExt

CONSTANTS
  Width, MaxOut,
  Copies(_, _),        \* copies of values: [vs, heap], the heap with the new objects
  Matches(_, _, _),    \* a pattern on a value: [ok, bind, heap]
  Names(_)             \* the names a pattern binds
ASSUME WidthAssumption == Width \in Nat \ {0, 1}
ASSUME MaxOutAssumption == MaxOut \in Nat

Unit == [k |-> "unit"]
None == [k |-> "none"]
Bool(b) == [k |-> "bool", b |-> b]
IntVal(n) == [k |-> "int", n |-> n]
SomeVal(v) == [k |-> "some", v |-> v]
EnumVal(en, vn, payload) == [k |-> "enum", en |-> en, vn |-> vn, payload |-> payload]
FnVal(f) == [k |-> "fn", f |-> f]
AnonFnVal(i) == [k |-> "anon", f |-> i]
HostFnVal(h) == [k |-> "host", h |-> h]
Obj(kind, id) == [k |-> kind, id |-> id]

\* What an evaluation gives: "ok" with a value, or the signal that is raised.
Result(sig, v, m) == [sig |-> sig, v |-> v, m |-> m]
Ok(v, m) == Result("ok", v, m)
Trap(m) == Result("trap", Unit, m)
\* F of a value that is evaluated once.  (TLC evaluates an argument and a
\* definition in a LET as often as they are used.)
With(r, F(_)) == CHOOSE y \in {F(x) : x \in {r}} : TRUE
\* Go on with the value unless a signal was raised.
Then(r, F(_, _)) == With(r, LAMBDA x : IF x.sig = "ok" THEN F(x.v, x.m) ELSE x)

-----------------------------------------------------------------------------
(* Scalars *)

wrap_int(n, t) ==
  LET m == 2 ^ Width
      w == n % m
  IN  IF t = "i" /\ w >= m \div 2 THEN w - m ELSE w

\* Division truncates towards zero.
Quotient(a, b) ==
  LET abs(x) == IF x < 0 THEN -x ELSE x
      q == abs(a) \div abs(b)
  IN  IF (a < 0) # (b < 0) THEN -q ELSE q

Comparison(op, a, b) ==
  CASE op = "==" -> a = b
    [] op = "!=" -> a # b
    [] op = "<"  -> a.n < b.n
    [] op = "<=" -> a.n <= b.n
    [] op = ">"  -> a.n > b.n
    [] op = ">=" -> a.n >= b.n

Arithmetic(op, x, y) ==
  CASE op = "+"  -> x + y
    [] op = "-"  -> x - y
    [] op = "*"  -> x * y
    [] op = "/"  -> Quotient(x, y)
    [] op = "%"  -> x - Quotient(x, y) * y
    [] op = "<<" -> x * 2 ^ y
    [] op = ">>" -> x \div 2 ^ y

\* t is the type of the left operand.
scalar_value(op, a, b, t, m) ==
  IF op \in {"==", "!=", "<", "<=", ">", ">="} THEN Ok(Bool(Comparison(op, a, b)), m)
  ELSE IF \/ op \in {"/", "%"} /\ b.n = 0
          \/ op \in {"<<", ">>"} /\ b.n \notin 0..(Width - 1)
       THEN Trap(m)
       ELSE Ok(IntVal(wrap_int(Arithmetic(op, a.n, b.n), t)), m)

unary_value(op, v, t) ==
  CASE op = "!" -> Bool(~v.b)
    [] op = "~" -> IntVal(wrap_int(-v.n - 1, t))
    [] op = "-" -> IntVal(wrap_int(-v.n, t))

-----------------------------------------------------------------------------
(* Objects *)

New(m, kind, object) ==
  Ok(Obj(kind, Len(m.heap) + 1), [m EXCEPT !.heap = Append(@, object)])

\* Aggregates are copied in depth, wherever a value is stored.
copy_values(vs, m) ==
  With(Copies(vs, m.heap), LAMBDA c : Ok(c.vs, [m EXCEPT !.heap = c.heap]))
copy_value(v, m) == Then(copy_values(<<v>>, m), LAMBDA vs, m1 : Ok(vs[1], m1))

alloc_ref(v, m) ==
  Then(copy_value(v, m), LAMBDA c, m1 : New(m1, "ref", [value |-> c]))
alloc_array(vs, m) ==
  Then(copy_values(vs, m), LAMBDA cs, m1 : New(m1, "array", [items |-> cs]))
NewStruct(names, vs, m) ==
  Then(copy_values(vs, m), LAMBDA cs, m1 :
    New(m1, "struct", [names |-> names, vals |-> cs]))
NewEnum(en, vn, vs, m) ==
  Then(copy_values(vs, m), LAMBDA cs, m1 : Ok(EnumVal(en, vn, cs), m1))

Items(a, m) == m.heap[a.id].items
SetItems(a, items, m) == [m EXCEPT !.heap[a.id].items = items]
InBounds(a, i, m) == i.n \in 0..(Len(Items(a, m)) - 1)

\* The struct a field is looked up in: a reference stands for its referent.
Target(v, m) == IF v.k = "ref" THEN m.heap[v.id].value ELSE v
FieldIndex(object, f) == CHOOSE i \in DOMAIN object.names : object.names[i] = f
Field(v, f, m) ==
  LET object == m.heap[Target(v, m).id] IN object.vals[FieldIndex(object, f)]
SetField(v, f, x, m) ==
  LET id == Target(v, m).id
  IN  [m EXCEPT !.heap[id].vals[FieldIndex(m.heap[id], f)] = x]

array_push(a, v, m) ==
  Then(copy_value(v, m), LAMBDA c, m1 :
    Ok(Unit, SetItems(a, Append(Items(a, m1), c), m1)))
array_pop(a, m) ==
  LET xs == Items(a, m)
  IN  IF xs = <<>> THEN Trap(m) ELSE copy_value(Last(xs), SetItems(a, Front(xs), m))
array_splice(a, start, end, repl, m) ==
  IF ~(0 <= start.n /\ start.n <= end.n /\ end.n <= Len(Items(a, m))) THEN Trap(m)
  ELSE Then(copy_values(Items(repl, m), m), LAMBDA snap, m1 :
         Ok(Unit, SetItems(a, LET xs == Items(a, m1)
                              IN  SubSeq(xs, 1, start.n) \o snap
                                    \o SubSeq(xs, end.n + 1, Len(xs)), m1)))
array_index(a, i, m) ==
  IF InBounds(a, i, m) THEN copy_value(Items(a, m)[i.n + 1], m) ELSE Trap(m)

\* emit or read.
HostCall(h, args, m) ==
  IF h = "emit"
  THEN IF Len(m.out) = MaxOut THEN Trap(m)
       ELSE Ok(Unit, [m EXCEPT !.out = Append(@, args[1])])
  ELSE IF m.pos = Len(m.input) THEN Trap(m)
       ELSE Ok(m.input[m.pos + 1], [m EXCEPT !.pos = @ + 1])

-----------------------------------------------------------------------------
(* Scopes: dictionaries of locals, the innermost one last *)

NoBindings == [x \in {} |-> Unit]
\* The innermost scope that binds x, 0 if none does.
Owner(x, scopes) ==
  LET at == {i \in DOMAIN scopes : x \in DOMAIN scopes[i]}
  IN  IF at = {} THEN 0 ELSE CHOOSE i \in at : \A j \in at : j <= i
Declare(scope, x, v) == [y \in DOMAIN scope \cup {x} |-> IF y = x THEN v ELSE scope[y]]
Merge(scope, bind) ==
  [x \in DOMAIN scope \cup DOMAIN bind |->
     IF x \in DOMAIN bind THEN bind[x] ELSE scope[x]]
Dict(names, vs) == [x \in ToSet(names) |-> vs[CHOOSE i \in DOMAIN names : names[i] = x]]

-----------------------------------------------------------------------------
(* Places: closures that read and write one cell.  A place has a base, a  *)
(* local, a cell of an array, a referent or a field of a struct, and the   *)
(* fields that are looked up from there whenever it is used.               *)

LocalAt(at, x) == [k |-> "local", at |-> at, x |-> x, fields |-> <<>>]
CellOf(a, i) == [k |-> "cell", a |-> a, i |-> i, fields |-> <<>>]
Referent(r) == [k |-> "deref", r |-> r, fields |-> <<>>]
FieldIn(base, f) == [k |-> "of", base |-> base, f |-> f, fields |-> <<>>]
FieldAt(p, f) == [p EXCEPT !.fields = Append(@, f)]

BaseGet(p, m) ==
  CASE p.k = "local" -> Ok(m.scopes[p.at][p.x], m)
    [] p.k = "cell"  ->
         IF InBounds(p.a, p.i, m) THEN Ok(Items(p.a, m)[p.i.n + 1], m) ELSE Trap(m)
    [] p.k = "deref" -> Ok(m.heap[p.r.id].value, m)
    [] OTHER         -> Ok(Field(p.base, p.f, m), m)
FieldsOf(base, fields, m) == FoldLeft(LAMBDA v, f : Field(v, f, m), base, fields)
PlaceGet(p, m) ==
  Then(BaseGet(p, m), LAMBDA b, m1 : Ok(FieldsOf(b, p.fields, m1), m1))

BaseSet(p, v, m) ==
  CASE p.k = "local" -> Ok(Unit, [m EXCEPT !.scopes[p.at][p.x] = v])
    [] p.k = "cell"  ->
         IF InBounds(p.a, p.i, m)
         THEN Ok(Unit, SetItems(p.a, [Items(p.a, m) EXCEPT ![p.i.n + 1] = v], m))
         ELSE Trap(m)
    [] p.k = "deref" -> Ok(Unit, [m EXCEPT !.heap[p.r.id].value = v])
    [] OTHER         -> Ok(Unit, SetField(p.base, p.f, v, m))
PlaceSet(p, v, m) ==
  IF p.fields = <<>> THEN BaseSet(p, v, m)
  ELSE Then(PlaceGet([p EXCEPT !.fields = Front(@)], m), LAMBDA b, m1 :
         Ok(Unit, SetField(b, Last(p.fields), v, m1)))

-----------------------------------------------------------------------------
(* Patterns: the value is <<bindings>>, or <<>> when there is no match *)

match(p, v, m) ==
  With(Matches(p, v, m.heap), LAMBDA r :
    Ok(IF r.ok THEN <<[x \in Names(p) |-> r.bind[x]]>> ELSE <<>>,
       [m EXCEPT !.heap = r.heap]))

=============================================================================
