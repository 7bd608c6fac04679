-------------------------- MODULE BCVerifier_proofs --------------------------
(***************************************************************************)
(* Proofs about BCVerifier: the stack machine keeps every promise of       *)
(* compiled code, for all code that passes the check, all inputs, and      *)
(* whatever copies of values and matches of patterns give.                 *)
(*                                                                         *)
(* The machine is simulated by the views: the one of the frame that runs   *)
(* is among the views of its function, and so is the one each caller will  *)
(* have when its call returns.  An instruction takes the former to one of  *)
(* Steps, which leads to no view outside.                                  *)
(***************************************************************************)
EXTENDS BCVerifier, SequenceTheorems, WellFoundedInduction, TLAPS

-----------------------------------------------------------------------------
(* The inductive invariant.                                                *)

IsSeq(s) == \E S : s \in Seq(S)
Shape(scopes) == [i \in 1 .. Len(scopes) |-> DOMAIN scopes[i]]
BindOf(pend) == IF pend = <<>> THEN <<>> ELSE <<DOMAIN pend[1]>>
FrameView(fr, height, bind, top) ==
  View(fr.ip, Shape(fr.scopes), height - fr.base, bind, top, fr.last)

IsFrame(fr) ==
  fr = [f |-> fr.f, ip |-> fr.ip, scopes |-> fr.scopes, base |-> fr.base, last |-> fr.last]
FrameOK(fr) ==
  IsFrame(fr) /\ fr.f \in DOMAIN code /\ IsSeq(fr.scopes) /\ fr.base \in Nat

\* What the view says of the topmost operand is so.
Tells(top) ==
  /\ top = "match" => Operand(1).bind = pending_bind
  /\ top = "found" => Operand(1) = Bool(pending_bind # <<>>)
  /\ top = "true" => Operand(1) = Bool(TRUE)
TopOK ==
  \E top : Tells(top) /\ FrameView(Top, Len(stack), BindOf(pending_bind), top)
                           \in run.views[Top.f]
\* The view a caller will have when the call above it gives a value.
CallerOK(k) ==
  \A b \in Quiet : FrameView(frames[k], frames[k + 1].base + 1, b, "any")
                     \in run.views[frames[k].f]

PendingOK ==
  pending_bind = <<>> \/ \E b : pending_bind = <<b>> /\ b = [x \in DOMAIN b |-> b[x]]
HostOK == pos \in 0 .. Len(input) /\ IsSeq(out) /\ Len(out) <= MaxOut
StatusOK ==
  /\ status.sig \in {"running", "ok", "trap", "error"}
  /\ IsRunning <=> frames # <<>>
FramesOK ==
  /\ IsSeq(frames)
  /\ \A k \in 1 .. Len(frames) : FrameOK(frames[k])
  /\ \A j, k \in 1 .. Len(frames) : j <= k => frames[j].base <= frames[k].base

Inv ==
  /\ StatusOK /\ FramesOK /\ IsSeq(stack) /\ PendingOK /\ HostOK
  /\ \A k \in 1 .. Len(frames) - 1 : CallerOK(k)
  /\ frames # <<>> => TopOK

-----------------------------------------------------------------------------
(* Sequences of any elements.                                              *)

LEMMA AppendSeq ==
  ASSUME NEW s, IsSeq(s), NEW x
  PROVE  /\ IsSeq(Append(s, x)) /\ Len(s) \in Nat /\ Len(Append(s, x)) = Len(s) + 1
         /\ \A i \in 1 .. Len(s) + 1 : Append(s, x)[i] = IF i <= Len(s) THEN s[i] ELSE x
<1>1. PICK S : s \in Seq(S)
  BY DEF IsSeq
<1>2. s \in Seq(S \cup {x})
  BY <1>1, SeqMonotonic
<1> QED
  BY <1>2, AppendProperties DEF IsSeq

LEMMA PrefixSeq ==
  ASSUME NEW s, IsSeq(s), NEW n \in 0 .. Len(s)
  PROVE  /\ IsSeq(SubSeq(s, 1, n)) /\ Len(s) \in Nat /\ Len(SubSeq(s, 1, n)) = n
         /\ \A i \in 1 .. n : SubSeq(s, 1, n)[i] = s[i]
<1>1. PICK S : s \in Seq(S)
  BY DEF IsSeq
<1>2. Len(s) \in Nat /\ n \in Nat /\ \A i \in 1 .. n : s[i] \in S
  BY <1>1
<1>3. /\ SubSeq(s, 1, n) \in Seq(S)
      /\ Len(SubSeq(s, 1, n)) = (IF 1 <= n THEN n - 1 + 1 ELSE 0)
      /\ \A i \in 1 .. n - 1 + 1 : SubSeq(s, 1, n)[i] = s[1 + i - 1]
  BY <1>2, SubSeqProperties
<1> QED
  BY <1>2, <1>3 DEF IsSeq

LEMMA JoinSeq ==
  ASSUME NEW s, NEW t, IsSeq(s), IsSeq(t)
  PROVE  /\ IsSeq(s \o t) /\ Len(s \o t) = Len(s) + Len(t)
         /\ Len(s) \in Nat /\ Len(t) \in Nat
         /\ \A i \in 1 .. Len(s) + Len(t) :
              (s \o t)[i] = IF i <= Len(s) THEN s[i] ELSE t[i - Len(s)]
<1>1. PICK S, T : s \in Seq(S) /\ t \in Seq(T)
  BY DEF IsSeq
<1>2. s \in Seq(S \cup T) /\ t \in Seq(S \cup T)
  BY <1>1, SeqMonotonic
<1> QED
  BY <1>2, ConcatProperties DEF IsSeq

Changed(s, n, x) == [s EXCEPT ![n] = x]
LEMMA ChangeSeq ==
  ASSUME NEW s, IsSeq(s), NEW n \in 1 .. Len(s), NEW x
  PROVE  /\ IsSeq(Changed(s, n, x)) /\ Len(Changed(s, n, x)) = Len(s)
         /\ \A i \in 1 .. Len(s) : Changed(s, n, x)[i] = IF i = n THEN x ELSE s[i]
<1>1. PICK S : s \in Seq(S)
  BY DEF IsSeq
<1>2. s \in Seq(S \cup {x})
  BY <1>1, SeqMonotonic
<1>3. x \in S \cup {x} /\ n \in 1 .. Len(s)
  OBVIOUS
<1> QED
  BY <1>2, <1>3, ExceptSeq DEF IsSeq, Changed

LEMMA ShortSeq ==
  /\ IsSeq(<<>>) /\ Len(<<>>) = 0
  /\ \A x : IsSeq(<<x>>) /\ Len(<<x>>) = 1 /\ <<x>>[1] = x
<1>1. <<>> \in Seq({}) /\ \A x : <<x>> \in Seq({x})
  OBVIOUS
<1> QED
  BY <1>1 DEF IsSeq

LEMMA EqualSeqs ==
  ASSUME NEW s, NEW t, IsSeq(s), IsSeq(t), Len(s) = Len(t),
         \A i \in 1 .. Len(s) : s[i] = t[i]
  PROVE  s = t
<1>1. PICK S, T : s \in Seq(S) /\ t \in Seq(T)
  BY DEF IsSeq
<1>2. s \in Seq(S \cup T) /\ t \in Seq(S \cup T)
  BY <1>1, SeqMonotonic
<1> QED
  BY <1>2, SeqEqual

-----------------------------------------------------------------------------
(* Shapes of scopes.                                                       *)

LEMMA ShapeSeq ==
  ASSUME NEW s, IsSeq(s)
  PROVE  /\ IsSeq(Shape(s)) /\ Len(Shape(s)) = Len(s) /\ Len(s) \in Nat
         /\ \A i \in 1 .. Len(s) : Shape(s)[i] = DOMAIN s[i]
<1>1. PICK S : s \in Seq(S)
  BY DEF IsSeq
<1>2. Len(s) \in Nat
  BY <1>1
<1>3. PICK T : T = {DOMAIN s[i] : i \in 1 .. Len(s)}
  OBVIOUS
<1>4. Shape(s) \in [1 .. Len(s) -> T]
  BY <1>3 DEF Shape
<1>5. Shape(s) \in Seq(T)
  BY <1>2, <1>4, SeqDef
<1> QED
  <2>1. IsSeq(Shape(s)) /\ Len(Shape(s)) = Len(s)
    BY <1>2, <1>4, <1>5, LenProperties DEF IsSeq
  <2>2. \A i \in 1 .. Len(s) : Shape(s)[i] = DOMAIN s[i]
    BY DEF Shape
  <2> QED
    BY <1>2, <2>1, <2>2

LEMMA ShapeIs ==
  ASSUME NEW s, IsSeq(s), NEW q, IsSeq(q), Len(q) = Len(s),
         \A i \in 1 .. Len(s) : q[i] = DOMAIN s[i]
  PROVE  Shape(s) = q
BY ShapeSeq, EqualSeqs

LEMMA ShapeAppend ==
  ASSUME NEW s, IsSeq(s), NEW x
  PROVE  Shape(Append(s, x)) = Append(Shape(s), DOMAIN x)
<1>1. PICK t, q : t = Append(s, x) /\ q = Append(Shape(s), DOMAIN x)
  OBVIOUS
<1>2. /\ IsSeq(t) /\ Len(t) = Len(s) + 1 /\ Len(s) \in Nat
      /\ \A i \in 1 .. Len(s) + 1 : t[i] = IF i <= Len(s) THEN s[i] ELSE x
  BY <1>1, AppendSeq
<1>3. /\ IsSeq(Shape(s)) /\ Len(Shape(s)) = Len(s)
      /\ \A i \in 1 .. Len(s) : Shape(s)[i] = DOMAIN s[i]
  BY ShapeSeq
<1>4. /\ IsSeq(q) /\ Len(q) = Len(s) + 1
      /\ \A i \in 1 .. Len(s) + 1 : q[i] = IF i <= Len(s) THEN Shape(s)[i] ELSE DOMAIN x
  BY <1>1, <1>3, AppendSeq
<1>5. \A i \in 1 .. Len(t) : q[i] = DOMAIN t[i]
  BY <1>2, <1>3, <1>4
<1> QED
  BY <1>1, <1>2, <1>4, <1>5, ShapeIs

LEMMA ShapePrefix ==
  ASSUME NEW s, IsSeq(s), NEW n \in 0 .. Len(s)
  PROVE  Shape(SubSeq(s, 1, Len(s) - n)) = Without(Shape(s), n)
<1>1. PICK t, q, m : t = SubSeq(s, 1, m) /\ q = SubSeq(Shape(s), 1, m) /\ m = Len(s) - n
  OBVIOUS
<1>2. /\ IsSeq(Shape(s)) /\ Len(Shape(s)) = Len(s) /\ Len(s) \in Nat
      /\ \A i \in 1 .. Len(s) : Shape(s)[i] = DOMAIN s[i]
  BY ShapeSeq
<1>3. m \in 0 .. Len(s)
  BY <1>1, <1>2
<1>4. IsSeq(t) /\ Len(t) = m /\ \A i \in 1 .. m : t[i] = s[i]
  BY <1>1, <1>3, PrefixSeq
<1>5. IsSeq(q) /\ Len(q) = m /\ \A i \in 1 .. m : q[i] = Shape(s)[i]
  BY <1>1, <1>2, <1>3, PrefixSeq
<1>6. \A i \in 1 .. Len(t) : q[i] = DOMAIN t[i]
  BY <1>2, <1>3, <1>4, <1>5
<1>7. Shape(t) = q
  BY <1>4, <1>5, <1>6, ShapeIs
<1> QED
  BY <1>1, <1>2, <1>7 DEF Without

\* A value written over a local leaves all names bound.
Written(s, at, x, v) == [s EXCEPT ![at][x] = v]
LEMMA ShapeWritten ==
  ASSUME NEW s, IsSeq(s), NEW at, NEW x, NEW v
  PROVE  /\ IsSeq(Written(s, at, x, v))
         /\ Shape(Written(s, at, x, v)) = Shape(s)
<1>1. PICK S : s \in Seq(S)
  BY DEF IsSeq
<1>2. PICK t : t = Written(s, at, x, v)
  OBVIOUS
<1>3. DOMAIN s = 1 .. Len(s) /\ Len(s) \in Nat /\ \A i \in 1 .. Len(s) : s[i] \in S
  BY <1>1
<1>4. /\ t = [i \in 1 .. Len(s) |-> t[i]]
      /\ \A i \in 1 .. Len(s) : DOMAIN t[i] = DOMAIN s[i]
  BY <1>2, <1>3 DEF Written
<1>5. PICK T : T = {t[i] : i \in 1 .. Len(s)}
  OBVIOUS
<1>6. t \in [1 .. Len(s) -> T]
  BY <1>4, <1>5
<1>7. t \in Seq(T) /\ Len(t) = Len(s)
  <2>1. t \in Seq(T)
    BY <1>3, <1>6, SeqDef
  <2> QED
    BY <1>3, <1>6, <2>1, LenProperties
<1>8. Shape(t) = Shape(s)
  BY <1>4, <1>7 DEF Shape
<1> QED
  BY <1>2, <1>7, <1>8 DEF IsSeq

\* The innermost scope gets more names.
LEMMA ShapeBound ==
  ASSUME NEW s, IsSeq(s), Len(s) > 0, NEW x, NEW more,
         DOMAIN x = DOMAIN s[Len(s)] \cup more
  PROVE  /\ Len(s) \in 1 .. Len(s)
         /\ IsSeq(Changed(s, Len(s), x))
         /\ Shape(Changed(s, Len(s), x)) = Bind(Shape(s), more)
<1>1. PICK n, t, d, q : /\ n = Len(s) /\ t = Changed(s, n, x)
                        /\ d = Shape(s)[n] \cup more /\ q = Changed(Shape(s), n, d)
  OBVIOUS
<1>2. /\ IsSeq(Shape(s)) /\ Len(Shape(s)) = n /\ n \in Nat
      /\ \A i \in 1 .. n : Shape(s)[i] = DOMAIN s[i]
  BY <1>1, ShapeSeq
<1>3. n \in 1 .. n
  BY <1>1, <1>2
<1>4. /\ IsSeq(t) /\ Len(t) = n
      /\ \A i \in 1 .. n : t[i] = IF i = n THEN x ELSE s[i]
  BY <1>1, <1>3, ChangeSeq
<1>5. /\ IsSeq(q) /\ Len(q) = n
      /\ \A i \in 1 .. n : q[i] = IF i = n THEN d ELSE Shape(s)[i]
  BY <1>1, <1>2, <1>3, ChangeSeq
<1>6. ASSUME NEW i \in 1 .. n
      PROVE  q[i] = DOMAIN t[i]
  <2>1. CASE i = n
    <3>1. q[i] = d /\ t[i] = x
      BY <1>4, <1>5, <2>1
    <3>2. d = DOMAIN s[n] \cup more
      BY <1>1, <1>2, <1>3
    <3> QED
      BY <1>1, <3>1, <3>2
  <2>2. CASE i # n
    BY <1>2, <1>4, <1>5, <2>2
  <2> QED
    BY <2>1, <2>2
<1>7. Shape(t) = q
  BY <1>4, <1>5, <1>6, ShapeIs
<1>8. q = Bind(Shape(s), more)
  BY <1>1, <1>2 DEF Bind, Changed
<1> QED
  BY <1>1, <1>3, <1>4, <1>7, <1>8

-----------------------------------------------------------------------------
(* What the operations on values leave of a memory.                        *)

IsMem(m) == DOMAIN m = {"heap", "scopes", "out", "input", "pos"}
Rest(m) == <<m.scopes, m.out, m.input, m.pos>>
\* They return or trap, and change nothing but the heap.
Kept(r, m) == r.sig \in {"ok", "trap"} /\ IsMem(r.m) /\ Rest(r.m) = Rest(m)
Returns(r, m) == Kept(r, m) /\ r.sig = "ok"

LEMMA MemoryIs == IsMem(Memory)
BY DEF IsMem, Memory

LEMMA OkKept ==
  ASSUME NEW v, NEW m, IsMem(m)
  PROVE  Returns(Ok(v, m), m) /\ Kept(Trap(m), m) /\ Ok(v, m).m = m /\ Ok(v, m).v = v
BY DEF Returns, Kept, Ok, Trap, Result

LEMMA ReturnsKept ==
  ASSUME NEW r, NEW m, Returns(r, m)
  PROVE  Kept(r, m) /\ IsMem(r.m) /\ r.sig = "ok"
BY DEF Returns, Kept

LEMMA KeptLater ==
  ASSUME NEW r, NEW s, NEW m, Kept(r, m), Kept(s, r.m)
  PROVE  Kept(s, m)
BY DEF Kept

LEMMA NewHeap ==
  ASSUME NEW m, IsMem(m), NEW h, NEW v
  PROVE  Returns(Ok(v, [m EXCEPT !.heap = h]), m)
BY DEF Returns, Kept, IsMem, Rest, Ok, Result

LEMMA CopiesKept ==
  ASSUME NEW vs, NEW m, IsMem(m)
  PROVE  Returns(copy_values(vs, m), m)
<1>1. PICK c : c = Copies(vs, m.heap)
  OBVIOUS
<1>2. copy_values(vs, m) = Ok(c.vs, [m EXCEPT !.heap = c.heap])
  BY <1>1 DEF copy_values, With
<1> QED
  BY <1>2, NewHeap

LEMMA CopyKept ==
  ASSUME NEW v, NEW m, IsMem(m)
  PROVE  Returns(copy_value(v, m), m)
<1>1. PICK r : r = copy_values(<<v>>, m)
  OBVIOUS
<1>2. Returns(r, m)
  BY <1>1, CopiesKept
<1>3. r.sig = "ok" /\ IsMem(r.m)
  BY <1>2 DEF Returns, Kept
<1>4. copy_value(v, m) = Ok(r.v[1], r.m)
  BY <1>1, <1>3 DEF copy_value, Then, With
<1>5. copy_value(v, m).m = r.m /\ copy_value(v, m).sig = "ok"
  BY <1>4 DEF Ok, Result
<1> QED
  BY <1>2, <1>5 DEF Returns, Kept

LEMMA NewKept ==
  ASSUME NEW m, IsMem(m), NEW kind, NEW object
  PROVE  Returns(New(m, kind, object), m)
BY NewHeap DEF New

LEMMA AllocRefKept ==
  ASSUME NEW v, NEW m, IsMem(m)
  PROVE  Kept(alloc_ref(v, m), m)
<1>1. PICK r : r = copy_value(v, m)
  OBVIOUS
<1>2. Returns(r, m)
  BY <1>1, CopyKept
<1>3. Kept(r, m) /\ IsMem(r.m) /\ r.sig = "ok"
  BY <1>2, ReturnsKept
<1>4. alloc_ref(v, m) = New(r.m, "ref", [value |-> r.v])
  BY <1>1, <1>3 DEF alloc_ref, Then, With
<1> QED
  BY <1>3, <1>4, NewKept, ReturnsKept, KeptLater

LEMMA AggregatesKept ==
  ASSUME NEW vs, NEW m, IsMem(m), NEW names, NEW en, NEW vn
  PROVE  /\ Kept(alloc_array(vs, m), m)
         /\ Kept(NewStruct(names, vs, m), m)
         /\ Kept(NewEnum(en, vn, vs, m), m)
<1>1. PICK r : r = copy_values(vs, m)
  OBVIOUS
<1>2. Returns(r, m)
  BY <1>1, CopiesKept
<1>3. Kept(r, m) /\ IsMem(r.m) /\ r.sig = "ok"
  BY <1>2, ReturnsKept
<1>4. alloc_array(vs, m) = New(r.m, "array", [items |-> r.v])
  BY <1>1, <1>3 DEF alloc_array, Then, With
<1>5. NewStruct(names, vs, m) = New(r.m, "struct", [names |-> names, vals |-> r.v])
  BY <1>1, <1>3 DEF NewStruct, Then, With
<1>6. NewEnum(en, vn, vs, m) = Ok(EnumVal(en, vn, r.v), r.m)
  BY <1>1, <1>3 DEF NewEnum, Then, With
<1>7. Kept(alloc_array(vs, m), m)
  BY <1>3, <1>4, NewKept, ReturnsKept, KeptLater
<1>8. Kept(NewStruct(names, vs, m), m)
  BY <1>3, <1>5, NewKept, ReturnsKept, KeptLater
<1>9. Kept(NewEnum(en, vn, vs, m), m)
  BY <1>3, <1>6, OkKept, ReturnsKept, KeptLater
<1> QED
  BY <1>7, <1>8, <1>9

LEMMA SetItemsKept ==
  ASSUME NEW a, NEW items, NEW m, IsMem(m), NEW v
  PROVE  Returns(Ok(v, SetItems(a, items, m)), m) /\ IsMem(SetItems(a, items, m))
<1>1. SetItems(a, items, m) = [m EXCEPT !.heap = [@ EXCEPT ![a.id].items = items]]
  BY DEF SetItems
<1>2. Returns(Ok(v, SetItems(a, items, m)), m)
  BY <1>1, NewHeap
<1> QED
  BY <1>2 DEF Returns, Kept, Ok, Result

LEMMA ArraysKept ==
  ASSUME NEW a, NEW v, NEW i, NEW m, IsMem(m)
  PROVE  /\ Kept(array_push(a, v, m), m)
         /\ Kept(array_pop(a, m), m)
         /\ Kept(array_index(a, i, m), m)
<1>1. Kept(array_push(a, v, m), m)
  <2>1. PICK r : r = copy_value(v, m)
    OBVIOUS
  <2>2. Returns(r, m)
    BY <2>1, CopyKept
  <2>3. Kept(r, m) /\ IsMem(r.m) /\ r.sig = "ok"
    BY <2>2, ReturnsKept
  <2>4. array_push(a, v, m) = Ok(Unit, SetItems(a, Append(Items(a, r.m), r.v), r.m))
    BY <2>1, <2>3 DEF array_push, Then, With
  <2> QED
    BY <2>3, <2>4, SetItemsKept, ReturnsKept, KeptLater
<1>2. Kept(array_pop(a, m), m)
  <2>1. PICK m1 : m1 = SetItems(a, Front(Items(a, m)), m)
    OBVIOUS
  <2>2. IsMem(m1) /\ Returns(Ok(Unit, m1), m)
    BY <2>1, SetItemsKept
  <2>3. Kept(copy_value(Last(Items(a, m)), m1), m1) /\ Kept(Ok(Unit, m1), m)
        /\ Ok(Unit, m1).m = m1
    BY <2>2, CopyKept, ReturnsKept, OkKept
  <2>4. Kept(copy_value(Last(Items(a, m)), m1), m)
    BY <2>3, KeptLater
  <2> QED
    BY <2>1, <2>4, OkKept DEF array_pop
<1>3. Kept(array_index(a, i, m), m)
  BY CopyKept, ReturnsKept, OkKept DEF array_index
<1> QED
  BY <1>1, <1>2, <1>3

LEMMA SpliceKept ==
  ASSUME NEW a, NEW start, NEW end, NEW repl, NEW m, IsMem(m)
  PROVE  Kept(array_splice(a, start, end, repl, m), m)
<1>1. PICK r : r = copy_values(Items(repl, m), m)
  OBVIOUS
<1>2. Returns(r, m)
  BY <1>1, CopiesKept
<1>3. Kept(r, m) /\ IsMem(r.m) /\ r.sig = "ok"
  BY <1>2, ReturnsKept
<1>4. PICK xs, items : /\ xs = Items(a, r.m)
                       /\ items = SubSeq(xs, 1, start.n) \o r.v
                                    \o SubSeq(xs, end.n + 1, Len(xs))
  OBVIOUS
<1>5. \/ array_splice(a, start, end, repl, m) = Trap(m)
      \/ array_splice(a, start, end, repl, m) = Ok(Unit, SetItems(a, items, r.m))
  BY <1>1, <1>3, <1>4 DEF array_splice, Then, With
<1> QED
  BY <1>3, <1>5, SetItemsKept, ReturnsKept, KeptLater, OkKept

LEMMA ScalarKept ==
  ASSUME NEW op, NEW x, NEW y, NEW t, NEW m, IsMem(m)
  PROVE  Kept(scalar_value(op, x, y, t, m), m)
<1>1. \/ scalar_value(op, x, y, t, m) = Trap(m)
      \/ \E v : scalar_value(op, x, y, t, m) = Ok(v, m)
  BY DEF scalar_value
<1> QED
  BY <1>1, OkKept, ReturnsKept

LEMMA PlaceGetKept ==
  ASSUME NEW p, NEW m, IsMem(m)
  PROVE  Kept(PlaceGet(p, m), m)
<1>1. PICK r : r = BaseGet(p, m)
  OBVIOUS
<1>2. r = Trap(m) \/ \E v : r = Ok(v, m)
  BY <1>1 DEF BaseGet
<1>3. Kept(r, m) /\ r.sig \in {"ok", "trap"}
  BY <1>2, OkKept, ReturnsKept DEF Kept
<1>4. PICK v : v = FieldsOf(r.v, p.fields, r.m)
  OBVIOUS
<1>5. PlaceGet(p, m) = r \/ PlaceGet(p, m) = Ok(v, r.m)
  BY <1>1, <1>4 DEF PlaceGet, Then, With
<1>6. IsMem(r.m)
  BY <1>3 DEF Kept
<1> QED
  BY <1>3, <1>5, <1>6, OkKept, ReturnsKept, KeptLater

\* What an instruction may make of the scopes and the host: the names that
\* are bound, and an output within its bounds.
HostFine(o, n) == n \in 0 .. Len(input) /\ IsSeq(o) /\ Len(o) <= MaxOut
Fine(r, names) ==
  /\ r.sig \in {"ok", "trap"}
  /\ IsSeq(r.m.scopes) /\ Shape(r.m.scopes) = names
  /\ HostFine(r.m.out, r.m.pos)

LEMMA KeptFine ==
  ASSUME NEW r, NEW m, Kept(r, m), IsSeq(m.scopes), HostFine(m.out, m.pos)
  PROVE  Fine(r, Shape(m.scopes))
BY DEF Kept, Rest, Fine

LEMMA BaseSetFine ==
  ASSUME NEW p, NEW v, NEW m, IsMem(m), IsSeq(m.scopes), HostFine(m.out, m.pos)
  PROVE  Fine(BaseSet(p, v, m), Shape(m.scopes))
<1>1. CASE p.k = "local"
  <2>1. PICK s : s = Written(m.scopes, p.at, p.x, v)
    OBVIOUS
  <2>2. IsSeq(s) /\ Shape(s) = Shape(m.scopes)
    BY <2>1, ShapeWritten
  <2>3. BaseSet(p, v, m) = Ok(Unit, [m EXCEPT !.scopes = s])
    BY <1>1, <2>1 DEF BaseSet, Written
  <2> QED
    BY <2>2, <2>3 DEF Fine, IsMem, Ok, Result
<1>2. CASE p.k # "local"
  <2>1. \/ BaseSet(p, v, m) = Trap(m)
        \/ \E h : BaseSet(p, v, m) = Ok(Unit, [m EXCEPT !.heap = h])
    <3>1. PICK f, id : /\ id = Target(p.base, m).id
                       /\ f = FieldIndex(m.heap[id], p.f)
      OBVIOUS
    <3>2. SetField(p.base, p.f, v, m) = [m EXCEPT !.heap = [@ EXCEPT ![id].vals[f] = v]]
      BY <3>1 DEF SetField
    <3>3. SetItems(p.a, [Items(p.a, m) EXCEPT ![p.i.n + 1] = v], m)
            = [m EXCEPT !.heap = [@ EXCEPT ![p.a.id].items =
                                    [Items(p.a, m) EXCEPT ![p.i.n + 1] = v]]]
      BY DEF SetItems
    <3> QED
      BY <1>2, <3>2, <3>3 DEF BaseSet
  <2>2. CASE BaseSet(p, v, m) = Trap(m)
    BY <2>2, OkKept, KeptFine
  <2>3. ASSUME NEW h, BaseSet(p, v, m) = Ok(Unit, [m EXCEPT !.heap = h])
        PROVE  Fine(BaseSet(p, v, m), Shape(m.scopes))
    BY <2>3, NewHeap, ReturnsKept, KeptFine
  <2> QED
    BY <2>1, <2>2, <2>3
<1> QED
  BY <1>1, <1>2

LEMMA PlaceSetFine ==
  ASSUME NEW p, NEW v, NEW m, IsMem(m), IsSeq(m.scopes), HostFine(m.out, m.pos)
  PROVE  Fine(PlaceSet(p, v, m), Shape(m.scopes))
<1>1. CASE p.fields = <<>>
  BY <1>1, BaseSetFine DEF PlaceSet
<1>2. CASE p.fields # <<>>
  <2>1. PICK r : r = PlaceGet([p EXCEPT !.fields = Front(@)], m)
    OBVIOUS
  <2>2. Kept(r, m)
    BY <2>1, PlaceGetKept
  <2>3. PICK id, f : id = Target(r.v, r.m).id /\ f = FieldIndex(r.m.heap[id], Last(p.fields))
    OBVIOUS
  <2>4. PICK h : h = [r.m.heap EXCEPT ![id].vals[f] = v]
    OBVIOUS
  <2>5. \/ PlaceSet(p, v, m) = r
        \/ PlaceSet(p, v, m) = Ok(Unit, SetField(r.v, Last(p.fields), v, r.m))
    BY <1>2, <2>1 DEF PlaceSet, Then, With
  <2>6. SetField(r.v, Last(p.fields), v, r.m) = [r.m EXCEPT !.heap = h]
    BY <2>3, <2>4 DEF SetField
  <2>7. IsMem(r.m)
    BY <2>2 DEF Kept
  <2>8. Kept(PlaceSet(p, v, m), m)
    BY <2>2, <2>5, <2>6, <2>7, NewHeap, ReturnsKept, KeptLater
  <2> QED
    BY <2>8, KeptFine
<1> QED
  BY <1>1, <1>2

LEMMA HostCallFine ==
  ASSUME NEW h, NEW args, IsSeq(Top.scopes), HostFine(out, pos)
  PROVE  Fine(HostCall(h, args, Memory), Shape(Top.scopes))
<1>1. CASE HostCall(h, args, Memory) = Trap(Memory)
  BY <1>1, MemoryIs, OkKept, KeptFine DEF Memory
<1>2. CASE h = "emit" /\ Len(out) # MaxOut
  <2>1. PICK o : o = Append(out, args[1])
    OBVIOUS
  <2>2. IsSeq(o) /\ Len(o) = Len(out) + 1 /\ Len(out) \in Nat
    BY <2>1, AppendSeq DEF HostFine
  <2>3. HostFine(o, pos)
    BY <1>2, <2>2, MaxOutAssumption DEF HostFine
  <2>4. HostCall(h, args, Memory) = Ok(Unit, [Memory EXCEPT !.out = o])
    BY <1>2, <2>1 DEF HostCall, Memory
  <2> QED
    BY <2>3, <2>4 DEF Fine, Ok, Result, Memory
<1>3. CASE h # "emit" /\ pos # Len(input)
  <2>1. HostFine(out, pos + 1)
    BY <1>3 DEF HostFine
  <2>2. HostCall(h, args, Memory) = Ok(input[pos + 1], [Memory EXCEPT !.pos = pos + 1])
    BY <1>3 DEF HostCall, Memory
  <2> QED
    BY <2>1, <2>2 DEF Fine, Ok, Result, Memory
<1> QED
  BY <1>1, <1>2, <1>3 DEF HostCall, Memory

-----------------------------------------------------------------------------
(* The instruction that runs, and the view it is met with.                 *)

Here(a, top) ==
  /\ Tells(top)
  /\ a = FrameView(Top, Len(stack), BindOf(pending_bind), top)
  /\ Sound(run, Top.f, a)
  /\ a \in run.views[Top.f] /\ Steps(Ins, a) \subseteq run.views[Top.f]

LEMMA TopFrame ==
  ASSUME Inv, frames # <<>>
  PROVE  /\ Len(frames) \in Nat /\ Len(frames) \in 1 .. Len(frames)
         /\ FrameOK(Top) /\ IsSeq(frames) /\ IsSeq(stack) /\ Len(stack) \in Nat
<1>1. PICK S, T : frames \in Seq(S) /\ stack \in Seq(T)
  BY DEF Inv, FramesOK, IsSeq
<1>2. Len(frames) \in Nat /\ Len(frames) \in 1 .. Len(frames) /\ Len(stack) \in Nat
  BY <1>1
<1> QED
  BY <1>2 DEF Inv, FramesOK, Top

LEMMA Where ==
  ASSUME Inv, Verified(run), frames # <<>>
  PROVE  \E a, top : Here(a, top)
<1>1. PICK top : Tells(top) /\ FrameView(Top, Len(stack), BindOf(pending_bind), top)
                                 \in run.views[Top.f]
  BY DEF Inv, TopOK
<1>2. PICK a : a = FrameView(Top, Len(stack), BindOf(pending_bind), top)
  OBVIOUS
<1>3. Top.f \in DOMAIN run.code
  BY TopFrame DEF FrameOK, code
<1>4. Sound(run, Top.f, a) /\ Steps(run.code[Top.f].code[a.ip], a) \subseteq run.views[Top.f]
  BY <1>1, <1>2, <1>3 DEF Verified
<1>5. Ins = run.code[Top.f].code[a.ip]
  BY <1>2 DEF Ins, code, FrameView, View
<1> QED
  BY <1>1, <1>2, <1>4, <1>5 DEF Here

LEMMA HereFacts ==
  ASSUME Inv, frames # <<>>, NEW a, NEW top, Here(a, top)
  PROVE  /\ a.ip = Top.ip /\ a.names = Shape(Top.scopes) /\ a.h = Len(stack) - Top.base
         /\ a.bind = BindOf(pending_bind) /\ a.top = top /\ a.last = Top.last
         /\ Len(a.names) = Len(Top.scopes) /\ Top.base \in Nat
         /\ Takes(Ins) \in 0 .. Len(stack) /\ Takes(Ins) \in 0 .. a.h
         /\ Top.base <= Len(stack)
<1>1. /\ a.ip = Top.ip /\ a.names = Shape(Top.scopes) /\ a.h = Len(stack) - Top.base
      /\ a.bind = BindOf(pending_bind) /\ a.top = top /\ a.last = Top.last
  BY DEF Here, FrameView, View
<1>2. Ins = run.code[Top.f].code[a.ip]
  BY <1>1 DEF Ins, code
<1>3. a.h \in Nat /\ Takes(Ins) \in 0 .. a.h
  BY <1>2 DEF Here, Sound
<1>4. IsSeq(Top.scopes) /\ Top.base \in Nat /\ Len(stack) \in Nat
  BY TopFrame DEF FrameOK
<1> QED
  BY <1>1, <1>3, <1>4, ShapeSeq

\* The operands an instruction takes off the stack.
LEMMA DropSeq ==
  ASSUME IsSeq(stack), NEW n \in 0 .. Len(stack)
  PROVE  /\ IsSeq(Drop(n)) /\ Len(Drop(n)) = Len(stack) - n /\ Len(stack) \in Nat
         /\ n = 0 => Drop(n) = stack
<1>1. PICK m, q : m = Len(stack) - n /\ q = SubSeq(stack, 1, m)
  OBVIOUS
<1>2. PICK S : stack \in Seq(S)
  BY DEF IsSeq
<1>3. m \in 0 .. Len(stack) /\ Len(stack) \in Nat
  BY <1>1, <1>2
<1>4. IsSeq(q) /\ Len(q) = m /\ \A i \in 1 .. m : q[i] = stack[i]
  BY <1>1, <1>3, PrefixSeq
<1>5. n = 0 => q = stack
  <2>1. n = 0 => m = Len(stack)
    BY <1>1, <1>3
  <2> QED
    BY <1>4, <2>1, EqualSeqs
<1> QED
  BY <1>1, <1>3, <1>4, <1>5 DEF Drop

-----------------------------------------------------------------------------
(* A step within a frame: the call it belongs to goes on, with another     *)
(* view of the same function.                                              *)

LEMMA WithinFrame ==
  ASSUME Inv, frames # <<>>, NEW fr,
         frames' = Changed(frames, Len(frames), fr),
         fr.f = Top.f, fr.base = Top.base, FrameOK(fr),
         IsSeq(stack'), PendingOK', HostFine(out', pos'),
         UNCHANGED <<run, status>>,
         NEW top, Tells(top)',
         FrameView(fr, Len(stack'), BindOf(pending_bind'), top) \in run.views[fr.f]
  PROVE  Inv'
<1>1. run' = run /\ code' = code /\ input' = input
  BY DEF code, input
<1>2. PICK n : n = Len(frames)
  OBVIOUS
<1>3. n \in Nat /\ n \in 1 .. n /\ IsSeq(frames)
  BY <1>2, TopFrame
<1>4. /\ IsSeq(frames') /\ Len(frames') = n
      /\ \A i \in 1 .. n : frames'[i] = IF i = n THEN fr ELSE frames[i]
  BY <1>2, <1>3, ChangeSeq
<1>5. Top' = fr /\ frames' # <<>>
  BY <1>3, <1>4 DEF Top
<1>6. \A i \in 1 .. n : frames'[i].base = frames[i].base /\ frames'[i].f = frames[i].f
  BY <1>2, <1>4 DEF Top
<1>7. StatusOK'
  BY <1>5 DEF Inv, StatusOK, IsRunning
<1>8. FramesOK'
  <2>1. \A i \in 1 .. n : FrameOK(frames'[i])
    BY <1>2, <1>4 DEF Inv, FramesOK
  <2>2. \A i \in 1 .. n : FrameOK(frames[i])'
    BY <1>1, <2>1 DEF FrameOK, IsFrame
  <2>3. \A j, k \in 1 .. n : j <= k => frames'[j].base <= frames'[k].base
    BY <1>2, <1>6 DEF Inv, FramesOK
  <2> QED
    BY <1>4, <2>2, <2>3 DEF FramesOK
<1>9. \A k \in 1 .. n - 1 : CallerOK(k)'
  <2> TAKE k \in 1 .. n - 1
  <2>1. k \in 1 .. n /\ k + 1 \in 1 .. n /\ k # n
    BY <1>3
  <2>2. CallerOK(k)
    BY <1>2 DEF Inv
  <2> QED
    BY <1>1, <1>4, <1>6, <2>1, <2>2 DEF CallerOK
<1>10. TopOK'
  BY <1>1, <1>5 DEF TopOK
<1> QED
  BY <1>1, <1>4, <1>7, <1>8, <1>9, <1>10 DEF Inv, HostOK, HostFine

LEMMA MovedFrame ==
  ASSUME FrameOK(Top), NEW scopes, IsSeq(scopes), NEW by
  PROVE  /\ Moved(scopes, by) = [f |-> Top.f, ip |-> Top.ip + by, scopes |-> scopes,
                                 base |-> Top.base, last |-> Remember]
         /\ FrameOK(Moved(scopes, by))
<1>1. PICK fr : fr = Moved(scopes, by)
  OBVIOUS
<1>2. fr = [f |-> Top.f, ip |-> Top.ip + by, scopes |-> scopes,
            base |-> Top.base, last |-> Remember]
  BY <1>1 DEF Moved, FrameOK, IsFrame
<1>3. FrameOK(fr)
  BY <1>2 DEF FrameOK, IsFrame
<1> QED
  BY <1>1, <1>2, <1>3

\* The step of an instruction, by what it makes of the view.
LEMMA Advance ==
  ASSUME Inv, frames # <<>>, NEW a, NEW t, Here(a, t), NEW scopes, NEW by, NEW top,
         Frame(scopes, by), IsSeq(scopes), IsSeq(stack'),
         Len(stack') = Len(stack) - Takes(Ins) + Leaves(Ins),
         PendingOK', HostFine(out', pos'), UNCHANGED <<run, status>>, Tells(top)',
         To(Ins, a, by, Shape(scopes), BindOf(pending_bind'), top) \in Steps(Ins, a)
  PROVE  Inv'
<1>1. PICK fr : fr = Moved(scopes, by)
  OBVIOUS
<1>2. FrameOK(Top) /\ Len(stack) \in Nat
  BY TopFrame
<1>3. /\ fr = [f |-> Top.f, ip |-> Top.ip + by, scopes |-> scopes,
               base |-> Top.base, last |-> Remember]
      /\ FrameOK(fr)
  BY <1>1, <1>2, MovedFrame
<1>4. frames' = Changed(frames, Len(frames), fr)
  BY <1>1 DEF Frame, Changed
<1>5. /\ a.ip = Top.ip /\ a.h = Len(stack) - Top.base /\ a.last = Top.last
      /\ Top.base \in Nat /\ Takes(Ins) \in 0 .. a.h
  BY HereFacts
<1>6. Leaves(Ins) \in {0, 1}
  BY DEF Leaves
<1>7. Len(stack') - Top.base = a.h - Takes(Ins) + Leaves(Ins)
  BY <1>2, <1>5, <1>6
<1>8. FrameView(fr, Len(stack'), BindOf(pending_bind'), top)
        = To(Ins, a, by, Shape(scopes), BindOf(pending_bind'), top)
  BY <1>3, <1>5, <1>7 DEF FrameView, To, View, Remember
<1>9. FrameView(fr, Len(stack'), BindOf(pending_bind'), top) \in run.views[fr.f]
  BY <1>3, <1>8 DEF Here
<1>10. fr.f = Top.f /\ fr.base = Top.base
  BY <1>3
<1> QED
  BY <1>3, <1>4, <1>9, <1>10, WithinFrame

-----------------------------------------------------------------------------
(* The kinds of instructions.                                              *)

\* An exception ends the run.
LEMMA AbortInv ==
  ASSUME Inv, frames # <<>>, NEW sig \in {"trap", "error"}, NEW m, NEW n \in 0 .. Len(stack),
         HostFine(m.out, m.pos), Abort(sig, m, n)
  PROVE  Inv'
<1>1. IsSeq(stack) /\ IsSeq(Drop(n))
  BY TopFrame, DropSeq
<1>2. frames' = <<>> /\ status'.sig = sig /\ stack' = Drop(n) /\ out' = m.out /\ pos' = m.pos
      /\ run' = run /\ pending_bind' = pending_bind
  BY DEF Abort, SameSlots
<1>3. input' = input
  BY <1>2 DEF input
<1>4. Len(frames') = 0 /\ IsSeq(frames')
  BY <1>2, ShortSeq
<1>5. StatusOK' /\ FramesOK' /\ HostOK'
  BY <1>2, <1>3, <1>4 DEF StatusOK, IsRunning, FramesOK, HostOK, HostFine
<1> QED
  BY <1>1, <1>2, <1>4, <1>5 DEF Inv, PendingOK

\* One that makes a value, of which the view says no more than that it is there.
LEMMA ValueInv ==
  ASSUME Inv, frames # <<>>, NEW a, NEW t, Here(a, t), NEW r, NEW n, n = Takes(Ins),
         Value(r, n), Leaves(Ins) = 1, Fine(r, a.names),
         On(Ins, a, a.names, a.bind) \in Steps(Ins, a)
  PROVE  Inv'
<1>1. n \in 0 .. Len(stack) /\ a.bind = BindOf(pending_bind) /\ IsSeq(stack)
  BY HereFacts, TopFrame
<1>2. CASE r.sig = "trap"
  <2>1. Abort("trap", r.m, n)
    BY <1>2 DEF Value, Effect, Raise
  <2> QED
    BY <1>1, <2>1, AbortInv DEF Fine
<1>3. CASE r.sig # "trap"
  <2>1. /\ Frame(r.m.scopes, 1) /\ stack' = Drop(n) \o <<r.v>>
        /\ out' = r.m.out /\ pos' = r.m.pos
        /\ run' = run /\ status' = status /\ pending_bind' = pending_bind
    BY <1>3 DEF Value, Effect, SameSlots
  <2>2. IsSeq(Drop(n)) /\ Len(Drop(n)) = Len(stack) - n
    BY <1>1, DropSeq
  <2>3. IsSeq(<<r.v>>) /\ Len(<<r.v>>) = 1
    BY ShortSeq
  <2>4. IsSeq(stack') /\ Len(stack') = Len(stack) - n + 1
    BY <2>1, <2>2, <2>3, JoinSeq
  <2>5. Tells("any")' /\ PendingOK'
    BY <2>1 DEF Tells, Inv, PendingOK
  <2>6. To(Ins, a, 1, Shape(r.m.scopes), BindOf(pending_bind'), "any") \in Steps(Ins, a)
    BY <1>1, <2>1 DEF On, Fine
  <2>7. IsSeq(r.m.scopes) /\ HostFine(out', pos')
    BY <2>1 DEF Fine
  <2> QED
    BY <2>1, <2>4, <2>5, <2>6, <2>7, Advance
<1> QED
  BY <1>2, <1>3

LEMMA NoValueInv ==
  ASSUME Inv, frames # <<>>, NEW a, NEW t, Here(a, t), NEW r, NEW n, n = Takes(Ins),
         NoValue(r, n), Leaves(Ins) = 0, NEW names, Fine(r, names),
         On(Ins, a, names, a.bind) \in Steps(Ins, a)
  PROVE  Inv'
<1>1. n \in 0 .. Len(stack) /\ a.bind = BindOf(pending_bind) /\ IsSeq(stack)
  BY HereFacts, TopFrame
<1>2. CASE r.sig = "trap"
  <2>1. Abort("trap", r.m, n)
    BY <1>2 DEF NoValue, Effect, Raise
  <2> QED
    BY <1>1, <2>1, AbortInv DEF Fine
<1>3. CASE r.sig # "trap"
  <2>1. /\ Frame(r.m.scopes, 1) /\ stack' = Drop(n) \o <<>>
        /\ out' = r.m.out /\ pos' = r.m.pos
        /\ run' = run /\ status' = status /\ pending_bind' = pending_bind
    BY <1>3 DEF NoValue, Effect, SameSlots
  <2>2. IsSeq(Drop(n)) /\ Len(Drop(n)) = Len(stack) - n
    BY <1>1, DropSeq
  <2>3. IsSeq(stack') /\ Len(stack') = Len(stack) - n + 0
    BY <2>1, <2>2, ShortSeq, JoinSeq
  <2>4. Tells("any")' /\ PendingOK'
    BY <2>1 DEF Tells, Inv, PendingOK
  <2>5. To(Ins, a, 1, Shape(r.m.scopes), BindOf(pending_bind'), "any") \in Steps(Ins, a)
    BY <1>1, <2>1 DEF On, Fine
  <2>6. IsSeq(r.m.scopes) /\ HostFine(out', pos')
    BY <2>1 DEF Fine
  <2> QED
    BY <2>1, <2>3, <2>4, <2>5, <2>6, Advance
<1> QED
  BY <1>2, <1>3

\* One that jumps.
LEMMA ControlInv ==
  ASSUME Inv, frames # <<>>, NEW a, NEW t, Here(a, t), NEW n, n = Takes(Ins), Leaves(Ins) = 0,
         NEW by, NEW scopes, NEW bind, Control(n, by, scopes, bind), IsSeq(scopes),
         bind = pending_bind \/ bind = <<>> \/ bind = <<NoBindings>>,
         To(Ins, a, by, Shape(scopes), BindOf(bind), "any") \in Steps(Ins, a)
  PROVE  Inv'
<1>1. n \in 0 .. Len(stack) /\ IsSeq(stack)
  BY HereFacts, TopFrame
<1>2. /\ Frame(scopes, by) /\ stack' = Drop(n) /\ pending_bind' = bind
      /\ out' = out /\ pos' = pos /\ run' = run /\ status' = status
  BY DEF Control
<1>3. IsSeq(stack') /\ Len(stack') = Len(stack) - n /\ Len(stack) \in Nat
  BY <1>1, <1>2, DropSeq
<1>4. Len(stack') = Len(stack) - Takes(Ins) + Leaves(Ins)
  BY <1>1, <1>3
<1>5. PendingOK'
  <2>1. NoBindings = [x \in DOMAIN NoBindings |-> NoBindings[x]]
    BY DEF NoBindings
  <2> QED
    BY <1>2, <2>1 DEF Inv, PendingOK
<1>6. Tells("any")' /\ HostFine(out', pos')
  BY <1>2 DEF Tells, Inv, HostOK, HostFine
<1> QED
  BY <1>2, <1>3, <1>4, <1>5, <1>6, Advance

-----------------------------------------------------------------------------
(* Instructions that make a value, and change nothing else but the heap.   *)

Plain ==
  {"PUSH_UNIT", "PUSH_INT", "PUSH_FUNC", "HOST_MEMBER",
   "MAKE_ARRAY", "MAKE_REPEAT", "MAKE_STRUCT", "MAKE_ENUM", "NEW",
   "UNARY", "BIN", "CAST", "DUP", "GET_FIELD", "DEREF", "INDEX", "LEN",
   "ARRAY_PUSH", "ARRAY_POP", "ARRAY_SPLICE", "FIELD_PLACE",
   "VALUE_FIELD_PLACE", "DEREF_PLACE", "LOAD_MATCH_VALUE", "MAKE_SOME",
   "LOAD", "LOCAL_PLACE", "INDEX_PLACE", "LOAD_PLACE"}

LEMMA Fetched ==
  ASSUME Inv, NEW op, Fetch(op)
  PROVE  frames # <<>> /\ Ins.op = op
BY DEF Inv, StatusOK, IsRunning, Fetch, Running

LEMMA PlainStep ==
  ASSUME NEW ins, ins.op \in Plain, NEW a
  PROVE  Steps(ins, a) = {On(ins, a, a.names, a.bind)} /\ Leaves(ins) = 1
<1>1. Steps(ins, a) = {On(ins, a, a.names, a.bind)}
  BY DEF Plain, Steps, Calling
<1>2. Leaves(ins) = 1
  BY DEF Plain, Leaves, Silent
<1> QED
  BY <1>1, <1>2

LEMMA MemoryFine ==
  ASSUME Inv, frames # <<>>, NEW r, Kept(r, Memory)
  PROVE  Fine(r, Shape(Top.scopes))
<1>1. IsSeq(Top.scopes) /\ HostFine(out, pos)
  BY TopFrame DEF FrameOK, Inv, HostOK, HostFine
<1> QED
  BY <1>1, KeptFine DEF Memory

LEMMA PlainInv ==
  ASSUME Inv, Verified(run), NEW op \in Plain, Fetch(op),
         NEW r, Kept(r, Memory), NEW n, n = Takes(Ins), Value(r, n)
  PROVE  Inv'
<1>1. frames # <<>> /\ Ins.op = op
  BY Fetched
<1>2. PICK a, t : Here(a, t)
  BY <1>1, Where
<1>3. Fine(r, a.names)
  BY <1>1, <1>2, HereFacts, MemoryFine
<1>4. Steps(Ins, a) = {On(Ins, a, a.names, a.bind)} /\ Leaves(Ins) = 1
  BY <1>1, PlainStep
<1> QED
  BY <1>1, <1>2, <1>3, <1>4, ValueInv

LEMMA PlainActions ==
  ASSUME Inv, Verified(run),
         PushUnit \/ PushInt \/ PushFunc \/ HostMember \/
         MakeArray \/ MakeRepeat \/ MakeStruct \/ MakeEnum \/ NewRef
         \/ Unary \/ Bin \/ Cast \/ Dup \/ GetField \/ Deref \/ Index
         \/ Length \/ ArrayPush \/ ArrayPop \/ ArraySplice \/
         FieldPlace \/ ValueFieldPlace \/ DerefPlace \/ LoadMatchValue
  PROVE  Inv'
<1> USE DEF Plain
<1>1. CASE PushUnit
  <2>1. PICK r : r = Ok(Unit, Memory)
    OBVIOUS
  <2>2. Fetch("PUSH_UNIT") /\ Value(r, 0)
    BY <1>1, <2>1 DEF PushUnit
  <2>3. Kept(r, Memory)
    BY <2>1, MemoryIs, OkKept, ReturnsKept
  <2>4. Takes(Ins) = 0
    BY <2>2, Fetched DEF Takes
  <2> QED
    BY <2>2, <2>3, <2>4, PlainInv
<1>3. CASE PushInt
  <2>1. PICK r : r = Ok(IntVal(wrap_int(Ins.arg[1], Ins.arg[2])), Memory)
    OBVIOUS
  <2>2. Fetch("PUSH_INT") /\ Value(r, 0)
    BY <1>3, <2>1 DEF PushInt
  <2>3. Kept(r, Memory)
    BY <2>1, MemoryIs, OkKept, ReturnsKept
  <2>4. Takes(Ins) = 0
    BY <2>2, Fetched DEF Takes
  <2> QED
    BY <2>2, <2>3, <2>4, PlainInv
<1>4. CASE PushFunc
  <2>1. PICK r : r = Ok(FnVal(Ins.arg), Memory)
    OBVIOUS
  <2>2. Fetch("PUSH_FUNC") /\ Value(r, 0)
    BY <1>4, <2>1 DEF PushFunc
  <2>3. Kept(r, Memory)
    BY <2>1, MemoryIs, OkKept, ReturnsKept
  <2>4. Takes(Ins) = 0
    BY <2>2, Fetched DEF Takes
  <2> QED
    BY <2>2, <2>3, <2>4, PlainInv
<1>5. CASE HostMember
  <2>1. PICK r : r = Ok(HostFnVal(Ins.arg), Memory)
    OBVIOUS
  <2>2. Fetch("HOST_MEMBER") /\ Value(r, 0)
    BY <1>5, <2>1 DEF HostMember
  <2>3. Kept(r, Memory)
    BY <2>1, MemoryIs, OkKept, ReturnsKept
  <2>4. Takes(Ins) = 0
    BY <2>2, Fetched DEF Takes
  <2> QED
    BY <2>2, <2>3, <2>4, PlainInv
<1>6. CASE MakeArray
  <2>1. PICK r, n : r = alloc_array(Last_n(Ins.arg), Memory) /\ n = Ins.arg
    OBVIOUS
  <2>2. Fetch("MAKE_ARRAY") /\ Value(r, n)
    BY <1>6, <2>1 DEF MakeArray
  <2>3. Kept(r, Memory)
    BY <2>1, MemoryIs, AggregatesKept
  <2>4. Takes(Ins) = n
    BY <2>1, <2>2, Fetched DEF Takes
  <2> QED
    BY <2>2, <2>3, <2>4, PlainInv
<1>7. CASE MakeRepeat
  <2>1. PICK r : r = alloc_array([i \in 1..Operand(1).n |-> Operand(2)], Memory)
    OBVIOUS
  <2>2. Fetch("MAKE_REPEAT") /\ Value(r, 2)
    BY <1>7, <2>1 DEF MakeRepeat
  <2>3. Kept(r, Memory)
    BY <2>1, MemoryIs, AggregatesKept
  <2>4. Takes(Ins) = 2
    BY <2>2, Fetched DEF Takes
  <2> QED
    BY <2>2, <2>3, <2>4, PlainInv
<1>8. CASE MakeStruct
  <2>1. PICK r, n : r = NewStruct(Ins.arg, Last_n(Len(Ins.arg)), Memory) /\ n = Len(Ins.arg)
    OBVIOUS
  <2>2. Fetch("MAKE_STRUCT") /\ Value(r, n)
    BY <1>8, <2>1 DEF MakeStruct
  <2>3. Kept(r, Memory)
    BY <2>1, MemoryIs, AggregatesKept
  <2>4. Takes(Ins) = n
    BY <2>1, <2>2, Fetched DEF Takes
  <2> QED
    BY <2>2, <2>3, <2>4, PlainInv
<1>9. CASE MakeEnum
  <2>1. PICK r, n : r = NewEnum(Ins.arg[1], Ins.arg[2], Last_n(Ins.arg[3]), Memory) /\ n = Ins.arg[3]
    OBVIOUS
  <2>2. Fetch("MAKE_ENUM") /\ Value(r, n)
    BY <1>9, <2>1 DEF MakeEnum
  <2>3. Kept(r, Memory)
    BY <2>1, MemoryIs, AggregatesKept
  <2>4. Takes(Ins) = n
    BY <2>1, <2>2, Fetched DEF Takes
  <2> QED
    BY <2>2, <2>3, <2>4, PlainInv
<1>10. CASE NewRef
  <2>1. PICK r : r = alloc_ref(Operand(1), Memory)
    OBVIOUS
  <2>2. Fetch("NEW") /\ Value(r, 1)
    BY <1>10, <2>1 DEF NewRef
  <2>3. Kept(r, Memory)
    BY <2>1, MemoryIs, AllocRefKept
  <2>4. Takes(Ins) = 1
    BY <2>2, Fetched DEF Takes
  <2> QED
    BY <2>2, <2>3, <2>4, PlainInv
<1>11. CASE Unary
  <2>1. PICK r : r = Ok(unary_value(Ins.arg[1], Operand(1), Ins.arg[2]), Memory)
    OBVIOUS
  <2>2. Fetch("UNARY") /\ Value(r, 1)
    BY <1>11, <2>1 DEF Unary
  <2>3. Kept(r, Memory)
    BY <2>1, MemoryIs, OkKept, ReturnsKept
  <2>4. Takes(Ins) = 1
    BY <2>2, Fetched DEF Takes
  <2> QED
    BY <2>2, <2>3, <2>4, PlainInv
<1>12. CASE Bin
  <2>1. PICK r : r = scalar_value(Ins.arg[1], Operand(2), Operand(1), Ins.arg[2], Memory)
    OBVIOUS
  <2>2. Fetch("BIN") /\ Value(r, 2)
    BY <1>12, <2>1 DEF Bin
  <2>3. Kept(r, Memory)
    BY <2>1, MemoryIs, ScalarKept
  <2>4. Takes(Ins) = 2
    BY <2>2, Fetched DEF Takes
  <2> QED
    BY <2>2, <2>3, <2>4, PlainInv
<1>13. CASE Cast
  <2>1. PICK r : r = Ok(IntVal(wrap_int(Operand(1).n, Ins.arg)), Memory)
    OBVIOUS
  <2>2. Fetch("CAST") /\ Value(r, 1)
    BY <1>13, <2>1 DEF Cast
  <2>3. Kept(r, Memory)
    BY <2>1, MemoryIs, OkKept, ReturnsKept
  <2>4. Takes(Ins) = 1
    BY <2>2, Fetched DEF Takes
  <2> QED
    BY <2>2, <2>3, <2>4, PlainInv
<1>14. CASE Dup
  <2>1. PICK r : r = Ok(Operand(1), Memory)
    OBVIOUS
  <2>2. Fetch("DUP") /\ Value(r, 0)
    BY <1>14, <2>1 DEF Dup
  <2>3. Kept(r, Memory)
    BY <2>1, MemoryIs, OkKept, ReturnsKept
  <2>4. Takes(Ins) = 0
    BY <2>2, Fetched DEF Takes
  <2> QED
    BY <2>2, <2>3, <2>4, PlainInv
<1>15. CASE GetField
  <2>1. PICK r : r = copy_value(Field(Operand(1), Ins.arg, Memory), Memory)
    OBVIOUS
  <2>2. Fetch("GET_FIELD") /\ Value(r, 1)
    BY <1>15, <2>1 DEF GetField
  <2>3. Kept(r, Memory)
    BY <2>1, MemoryIs, CopyKept, ReturnsKept
  <2>4. Takes(Ins) = 1
    BY <2>2, Fetched DEF Takes
  <2> QED
    BY <2>2, <2>3, <2>4, PlainInv
<1>16. CASE Deref
  <2>1. PICK r : r = copy_value(heap[Operand(1).id].value, Memory)
    OBVIOUS
  <2>2. Fetch("DEREF") /\ Value(r, 1)
    BY <1>16, <2>1 DEF Deref
  <2>3. Kept(r, Memory)
    BY <2>1, MemoryIs, CopyKept, ReturnsKept
  <2>4. Takes(Ins) = 1
    BY <2>2, Fetched DEF Takes
  <2> QED
    BY <2>2, <2>3, <2>4, PlainInv
<1>17. CASE Index
  <2>1. PICK r : r = array_index(Operand(2), Operand(1), Memory)
    OBVIOUS
  <2>2. Fetch("INDEX") /\ Value(r, 2)
    BY <1>17, <2>1 DEF Index
  <2>3. Kept(r, Memory)
    BY <2>1, MemoryIs, ArraysKept
  <2>4. Takes(Ins) = 2
    BY <2>2, Fetched DEF Takes
  <2> QED
    BY <2>2, <2>3, <2>4, PlainInv
<1>18. CASE Length
  <2>1. PICK r : r = Ok(IntVal(Len(Items(Operand(1), Memory))), Memory)
    OBVIOUS
  <2>2. Fetch("LEN") /\ Value(r, 1)
    BY <1>18, <2>1 DEF Length
  <2>3. Kept(r, Memory)
    BY <2>1, MemoryIs, OkKept, ReturnsKept
  <2>4. Takes(Ins) = 1
    BY <2>2, Fetched DEF Takes
  <2> QED
    BY <2>2, <2>3, <2>4, PlainInv
<1>19. CASE ArrayPush
  <2>1. PICK r : r = array_push(Operand(2), Operand(1), Memory)
    OBVIOUS
  <2>2. Fetch("ARRAY_PUSH") /\ Value(r, 2)
    BY <1>19, <2>1 DEF ArrayPush
  <2>3. Kept(r, Memory)
    BY <2>1, MemoryIs, ArraysKept
  <2>4. Takes(Ins) = 2
    BY <2>2, Fetched DEF Takes
  <2> QED
    BY <2>2, <2>3, <2>4, PlainInv
<1>20. CASE ArrayPop
  <2>1. PICK r : r = array_pop(Operand(1), Memory)
    OBVIOUS
  <2>2. Fetch("ARRAY_POP") /\ Value(r, 1)
    BY <1>20, <2>1 DEF ArrayPop
  <2>3. Kept(r, Memory)
    BY <2>1, MemoryIs, ArraysKept
  <2>4. Takes(Ins) = 1
    BY <2>2, Fetched DEF Takes
  <2> QED
    BY <2>2, <2>3, <2>4, PlainInv
<1>21. CASE ArraySplice
  <2>1. PICK r : r = array_splice(Operand(4), Operand(3), Operand(2), Operand(1), Memory)
    OBVIOUS
  <2>2. Fetch("ARRAY_SPLICE") /\ Value(r, 4)
    BY <1>21, <2>1 DEF ArraySplice
  <2>3. Kept(r, Memory)
    BY <2>1, MemoryIs, SpliceKept
  <2>4. Takes(Ins) = 4
    BY <2>2, Fetched DEF Takes
  <2> QED
    BY <2>2, <2>3, <2>4, PlainInv
<1>22. CASE FieldPlace
  <2>1. PICK r : r = Ok(FieldAt(Operand(1), Ins.arg), Memory)
    OBVIOUS
  <2>2. Fetch("FIELD_PLACE") /\ Value(r, 1)
    BY <1>22, <2>1 DEF FieldPlace
  <2>3. Kept(r, Memory)
    BY <2>1, MemoryIs, OkKept, ReturnsKept
  <2>4. Takes(Ins) = 1
    BY <2>2, Fetched DEF Takes
  <2> QED
    BY <2>2, <2>3, <2>4, PlainInv
<1>23. CASE ValueFieldPlace
  <2>1. PICK r : r = Ok(FieldIn(Target(Operand(1), Memory), Ins.arg), Memory)
    OBVIOUS
  <2>2. Fetch("VALUE_FIELD_PLACE") /\ Value(r, 1)
    BY <1>23, <2>1 DEF ValueFieldPlace
  <2>3. Kept(r, Memory)
    BY <2>1, MemoryIs, OkKept, ReturnsKept
  <2>4. Takes(Ins) = 1
    BY <2>2, Fetched DEF Takes
  <2> QED
    BY <2>2, <2>3, <2>4, PlainInv
<1>24. CASE DerefPlace
  <2>1. PICK r : r = Ok(Referent(Operand(1)), Memory)
    OBVIOUS
  <2>2. Fetch("DEREF_PLACE") /\ Value(r, 1)
    BY <1>24, <2>1 DEF DerefPlace
  <2>3. Kept(r, Memory)
    BY <2>1, MemoryIs, OkKept, ReturnsKept
  <2>4. Takes(Ins) = 1
    BY <2>2, Fetched DEF Takes
  <2> QED
    BY <2>2, <2>3, <2>4, PlainInv
<1>25. CASE LoadMatchValue
  <2>1. PICK r : r = copy_value(match_value, Memory)
    OBVIOUS
  <2>2. Fetch("LOAD_MATCH_VALUE") /\ Value(r, 0)
    BY <1>25, <2>1 DEF LoadMatchValue
  <2>3. Kept(r, Memory)
    BY <2>1, MemoryIs, CopyKept, ReturnsKept
  <2>4. Takes(Ins) = 0
    BY <2>2, Fetched DEF Takes
  <2> QED
    BY <2>2, <2>3, <2>4, PlainInv
<1> QED
  BY <1>1, <1>3, <1>4, <1>5, <1>6, <1>7, <1>8, <1>9, <1>10, <1>11, <1>12, <1>13,
     <1>14, <1>15, <1>16, <1>17, <1>18, <1>19, <1>20, <1>21, <1>22, <1>23, <1>24, <1>25

LEMMA MoreValues ==
  ASSUME Inv, Verified(run), MakeSome \/ Load \/ LocalPlace \/ IndexPlace \/ LoadPlace
  PROVE  Inv'
<1> USE DEF Plain
<1>1. CASE MakeSome
  <2>1. PICK r : r = copy_value(Operand(1), Memory)
    OBVIOUS
  <2>2. Kept(r, Memory) /\ IsMem(r.m) /\ r.sig = "ok"
    BY <2>1, MemoryIs, CopyKept, ReturnsKept
  <2>3. Fetch("MAKE_SOME") /\ Value(Ok(SomeVal(r.v), r.m), 1)
    BY <1>1, <2>1, <2>2 DEF MakeSome, Then, With
  <2>4. Kept(Ok(SomeVal(r.v), r.m), Memory)
    BY <2>2, OkKept, ReturnsKept, KeptLater
  <2>5. Takes(Ins) = 1
    BY <2>3, Fetched DEF Takes
  <2> QED
    BY <2>3, <2>4, <2>5, PlainInv
<1>2. CASE Load
  <2>1. PICK r : r = Lookup(Ins.arg, LAMBDA at : copy_value(Top.scopes[at][Ins.arg], Memory))
    OBVIOUS
  <2>2. r = Trap(Memory) \/ \E v : r = copy_value(v, Memory)
    BY <2>1 DEF Lookup
  <2>3. Kept(r, Memory)
    BY <2>2, MemoryIs, OkKept, CopyKept, ReturnsKept
  <2>4. Fetch("LOAD") /\ Value(r, 0)
    BY <1>2, <2>1 DEF Load
  <2>5. Takes(Ins) = 0
    BY <2>4, Fetched DEF Takes
  <2> QED
    BY <2>3, <2>4, <2>5, PlainInv
<1>3. CASE LocalPlace
  <2>1. PICK r : r = Lookup(Ins.arg, LAMBDA at : Ok(LocalAt(at, Ins.arg), Memory))
    OBVIOUS
  <2>2. r = Trap(Memory) \/ \E v : r = Ok(v, Memory)
    BY <2>1 DEF Lookup
  <2>3. Kept(r, Memory)
    BY <2>2, MemoryIs, OkKept, ReturnsKept
  <2>4. Fetch("LOCAL_PLACE") /\ Value(r, 0)
    BY <1>3, <2>1 DEF LocalPlace
  <2>5. Takes(Ins) = 0
    BY <2>4, Fetched DEF Takes
  <2> QED
    BY <2>3, <2>4, <2>5, PlainInv
<1>4. CASE IndexPlace
  <2>1. PICK r : r = IF InBounds(Operand(2), Operand(1), Memory)
                    THEN Ok(CellOf(Operand(2), Operand(1)), Memory) ELSE Trap(Memory)
    OBVIOUS
  <2>2. Fetch("INDEX_PLACE") /\ Value(r, 2)
    BY <1>4, <2>1 DEF IndexPlace
  <2>3. Kept(r, Memory)
    BY <2>1, MemoryIs, OkKept, ReturnsKept
  <2>4. Takes(Ins) = 2
    BY <2>2, Fetched DEF Takes
  <2> QED
    BY <2>2, <2>3, <2>4, PlainInv
<1>5. CASE LoadPlace
  <2>1. PICK g, r : /\ g = PlaceGet(Operand(1), Memory)
                    /\ r = IF g.sig = "ok" THEN copy_value(g.v, g.m) ELSE g
    OBVIOUS
  <2>2. Kept(g, Memory) /\ IsMem(g.m)
    BY <2>1, MemoryIs, PlaceGetKept DEF Kept
  <2>3. Kept(r, Memory)
    BY <2>1, <2>2, CopyKept, ReturnsKept, KeptLater
  <2>4. Fetch("LOAD_PLACE") /\ Value(r, 1)
    BY <1>5, <2>1 DEF LoadPlace, Then, With
  <2>5. Takes(Ins) = 1
    BY <2>4, Fetched DEF Takes
  <2> QED
    BY <2>3, <2>4, <2>5, PlainInv
<1> QED
  BY <1>1, <1>2, <1>3, <1>4, <1>5

-----------------------------------------------------------------------------
(* Instructions that give no value.                                        *)

\* What the check says of the instruction that runs.
LEMMA HereSound ==
  ASSUME Inv, frames # <<>>, NEW a, NEW t, Here(a, t)
  PROVE  /\ Ins.op = "RET" => a.h = 1
         /\ Ins.op \in {"DECL", "SCOPE_EXIT", "MERGE_BINDINGS"} => Len(Top.scopes) > 0
         /\ Ins.op = "UNWIND" => Ins.arg \in 0 .. Len(Top.scopes)
         /\ Ins.op \in Calling \cup {"RET"} => a.bind \in Quiet
         /\ Ins.op = "CALL_NAMED" => Ins.arg[1] \in DOMAIN code
<1>1. Ins = run.code[Top.f].code[a.ip] /\ Len(a.names) = Len(Top.scopes)
  BY HereFacts DEF Ins, code
<1> QED
  BY <1>1 DEF Here, Sound, code

LEMMA KeptScopes ==
  ASSUME Inv, frames # <<>>, NEW r, Returns(r, Memory)
  PROVE  /\ r.sig = "ok" /\ IsMem(r.m) /\ r.m.scopes = Top.scopes /\ IsSeq(r.m.scopes)
         /\ HostFine(r.m.out, r.m.pos)
BY TopFrame DEF Returns, Kept, Rest, Memory, FrameOK, Inv, HostOK, HostFine

LEMMA NoValueActions ==
  ASSUME Inv, Verified(run), Pop \/ Decl \/ LocalInc \/ StorePlace
  PROVE  Inv'
<1>1. CASE Pop
  <2>1. Fetch("POP") /\ NoValue(Ok(Unit, Memory), 1)
    BY <1>1 DEF Pop
  <2>2. frames # <<>> /\ Ins.op = "POP"
    BY <2>1, Fetched
  <2>3. PICK a, t : Here(a, t)
    BY <2>2, Where
  <2>4. Fine(Ok(Unit, Memory), a.names)
    BY <2>2, <2>3, MemoryIs, OkKept, ReturnsKept, HereFacts, MemoryFine
  <2>5. Takes(Ins) = 1 /\ Leaves(Ins) = 0
    BY <2>2 DEF Takes, Leaves, Silent
  <2>6. Steps(Ins, a) = {On(Ins, a, a.names, a.bind)}
    BY <2>2 DEF Steps, Calling
  <2> QED
    BY <2>1, <2>2, <2>3, <2>4, <2>5, <2>6, NoValueInv
<1>2. CASE Decl
  <2>1. PICK r : r = copy_value(Operand(1), Memory)
    OBVIOUS
  <2>2. Fetch("DECL")
    BY <1>2 DEF Decl
  <2>3. frames # <<>> /\ Ins.op = "DECL"
    BY <2>2, Fetched
  <2>4. PICK a, t : Here(a, t)
    BY <2>3, Where
  <2>5. /\ r.sig = "ok" /\ IsMem(r.m) /\ r.m.scopes = Top.scopes /\ IsSeq(r.m.scopes)
        /\ HostFine(r.m.out, r.m.pos)
    BY <2>1, <2>3, MemoryIs, CopyKept, KeptScopes
  <2>6. PICK n, x, s, m :
          /\ n = Len(r.m.scopes) /\ x = Declare(r.m.scopes[n], Ins.arg, r.v)
          /\ s = Changed(r.m.scopes, n, x) /\ m = [r.m EXCEPT !.scopes = s]
    OBVIOUS
  <2>7. NoValue(Ok(Unit, m), 1)
    <3>1. m = [r.m EXCEPT !.scopes[Len(r.m.scopes)] = Declare(@, Ins.arg, r.v)]
      BY <2>6 DEF Changed
    <3> QED
      BY <1>2, <2>1, <2>5, <3>1 DEF Decl, Then, With
  <2>8. n > 0 /\ DOMAIN x = DOMAIN r.m.scopes[n] \cup {Ins.arg}
    BY <2>3, <2>4, <2>5, <2>6, HereSound DEF Declare
  <2>9. IsSeq(s) /\ Shape(s) = Bind(a.names, {Ins.arg})
    BY <2>3, <2>4, <2>5, <2>6, <2>8, ShapeBound, HereFacts
  <2>10. Fine(Ok(Unit, m), Bind(a.names, {Ins.arg}))
    BY <2>5, <2>6, <2>9 DEF Fine, Ok, Result, IsMem
  <2>11. Takes(Ins) = 1 /\ Leaves(Ins) = 0
    BY <2>3 DEF Takes, Leaves, Silent
  <2>12. Steps(Ins, a) = {On(Ins, a, Bind(a.names, {Ins.arg}), a.bind)}
    BY <2>3 DEF Steps, Calling
  <2> QED
    BY <2>3, <2>4, <2>7, <2>10, <2>11, <2>12, NoValueInv
<1>3. CASE LocalInc
  <2>1. Fetch("LOCAL_INC_U64")
    BY <1>3 DEF LocalInc
  <2>2. frames # <<>> /\ Ins.op = "LOCAL_INC_U64"
    BY <2>1, Fetched
  <2>3. PICK a, t : Here(a, t)
    BY <2>2, Where
  <2>4. PICK at, s, m :
          /\ at = Owner(Ins.arg, Top.scopes)
          /\ s = Written(Top.scopes, at, Ins.arg,
                         IntVal(wrap_int(Top.scopes[at][Ins.arg].n + 1, "u")))
          /\ m = [Memory EXCEPT !.scopes = s]
    OBVIOUS
  <2>5. PICK r : r = IF at = 0 THEN Trap(Memory) ELSE Ok(Unit, m)
    OBVIOUS
  <2>6. NoValue(r, 0)
    <3>1. m = [Memory EXCEPT !.scopes[at][Ins.arg] = IntVal(wrap_int(@.n + 1, "u"))]
      BY <2>4 DEF Written, Memory
    <3> QED
      BY <1>3, <2>4, <2>5, <3>1 DEF LocalInc, Lookup
  <2>7. IsSeq(Top.scopes) /\ HostFine(out, pos)
    BY <2>2, TopFrame DEF FrameOK, Inv, HostOK, HostFine
  <2>8. IsSeq(s) /\ Shape(s) = Shape(Top.scopes)
    BY <2>4, <2>7, ShapeWritten
  <2>9. Fine(Ok(Unit, m), a.names)
    BY <2>2, <2>3, <2>4, <2>7, <2>8, HereFacts DEF Fine, Ok, Result, Memory
  <2>10. Fine(r, a.names)
    BY <2>2, <2>3, <2>5, <2>9, MemoryIs, OkKept, MemoryFine, HereFacts
  <2>11. Takes(Ins) = 0 /\ Leaves(Ins) = 0
    BY <2>2 DEF Takes, Leaves, Silent
  <2>12. Steps(Ins, a) = {On(Ins, a, a.names, a.bind)}
    BY <2>2 DEF Steps, Calling
  <2> QED
    BY <2>2, <2>3, <2>6, <2>10, <2>11, <2>12, NoValueInv
<1>4. CASE StorePlace
  <2>1. PICK r, w : /\ r = copy_value(Operand(1), Memory)
                    /\ w = PlaceSet(Operand(2), r.v, r.m)
    OBVIOUS
  <2>2. Fetch("STORE_PLACE")
    BY <1>4 DEF StorePlace
  <2>3. frames # <<>> /\ Ins.op = "STORE_PLACE"
    BY <2>2, Fetched
  <2>4. PICK a, t : Here(a, t)
    BY <2>3, Where
  <2>5. /\ r.sig = "ok" /\ IsMem(r.m) /\ r.m.scopes = Top.scopes /\ IsSeq(r.m.scopes)
        /\ HostFine(r.m.out, r.m.pos)
    BY <2>1, <2>3, MemoryIs, CopyKept, KeptScopes
  <2>6. NoValue(w, 2)
    BY <1>4, <2>1, <2>5 DEF StorePlace, Then, With
  <2>7. Fine(w, a.names)
    BY <2>1, <2>3, <2>4, <2>5, PlaceSetFine, HereFacts
  <2>8. Takes(Ins) = 2 /\ Leaves(Ins) = 0
    BY <2>3 DEF Takes, Leaves, Silent
  <2>9. Steps(Ins, a) = {On(Ins, a, a.names, a.bind)}
    BY <2>3 DEF Steps, Calling
  <2> QED
    BY <2>3, <2>4, <2>6, <2>7, <2>8, <2>9, NoValueInv
<1> QED
  BY <1>1, <1>2, <1>3, <1>4

-----------------------------------------------------------------------------
(* Scopes and jumps.                                                       *)

\* Replacing the innermost scope.
LEMMA LastChanged ==
  ASSUME NEW s, IsSeq(s), Len(s) > 0, NEW x
  PROVE  Append(SubSeq(s, 1, Len(s) - 1), x) = Changed(s, Len(s), x)
<1>1. PICK n, p, q, c : /\ n = Len(s) /\ p = SubSeq(s, 1, n - 1)
                        /\ q = Append(p, x) /\ c = Changed(s, n, x)
  OBVIOUS
<1>2. PICK S : s \in Seq(S)
  BY DEF IsSeq
<1>3. n \in Nat /\ n \in 1 .. n /\ n - 1 \in 0 .. n
  BY <1>1, <1>2
<1>4. IsSeq(p) /\ Len(p) = n - 1 /\ \A i \in 1 .. n - 1 : p[i] = s[i]
  BY <1>1, <1>3, PrefixSeq
<1>5. /\ IsSeq(q) /\ Len(q) = n
      /\ \A i \in 1 .. n : q[i] = IF i <= n - 1 THEN p[i] ELSE x
  <2>1. /\ IsSeq(q) /\ Len(q) = Len(p) + 1
        /\ \A i \in 1 .. Len(p) + 1 : q[i] = IF i <= Len(p) THEN p[i] ELSE x
    BY <1>1, <1>4, AppendSeq
  <2> QED
    BY <1>3, <1>4, <2>1
<1>6. /\ IsSeq(c) /\ Len(c) = n
      /\ \A i \in 1 .. n : c[i] = IF i = n THEN x ELSE s[i]
  BY <1>1, <1>3, ChangeSeq
<1>7. \A i \in 1 .. n : q[i] = c[i]
  BY <1>3, <1>4, <1>5, <1>6
<1>8. q = c
  BY <1>5, <1>6, <1>7, EqualSeqs
<1> QED
  BY <1>1, <1>8

LEMMA ControlFacts ==
  ASSUME Inv, frames # <<>>, NEW a, NEW t, Here(a, t)
  PROVE  /\ IsSeq(Top.scopes) /\ a.names = Shape(Top.scopes)
         /\ a.bind = BindOf(pending_bind)
         /\ DOMAIN Waiting = NamesIn(a.bind)
         /\ DOMAIN NoBindings = {} /\ BindOf(<<>>) = <<>> /\ BindOf(<<NoBindings>>) = <<{}>>
<1>1. IsSeq(Top.scopes) /\ a.names = Shape(Top.scopes) /\ a.bind = BindOf(pending_bind)
  BY TopFrame, HereFacts DEF FrameOK
<1>2. DOMAIN NoBindings = {}
  BY DEF NoBindings
<1>3. BindOf(<<>>) = <<>> /\ BindOf(<<NoBindings>>) = <<{}>>
  BY <1>2 DEF BindOf
<1>4. DOMAIN Waiting = NamesIn(a.bind)
  <2>1. CASE pending_bind = <<>>
    BY <1>1, <1>2, <2>1 DEF Waiting, NamesIn, BindOf
  <2>2. CASE pending_bind # <<>>
    BY <1>1, <2>2 DEF Waiting, NamesIn, BindOf
  <2> QED
    BY <2>1, <2>2
<1> QED
  BY <1>1, <1>2, <1>3, <1>4

\* An instruction that says there are no bindings leaves a literal true where it is.
LEMMA NoBindingsInv ==
  ASSUME Inv, Verified(run), NoBindingsHere
  PROVE  Inv'
<1>1. Fetch("NO_BINDINGS") /\ Control(0, 1, Top.scopes, <<NoBindings>>)
  BY DEF NoBindingsHere
<1>2. frames # <<>> /\ Ins.op = "NO_BINDINGS"
  BY <1>1, Fetched
<1>3. PICK a, t : Here(a, t)
  BY <1>2, Where
<1>4. PICK top : top = IF a.top = "true" THEN "true" ELSE "any"
  OBVIOUS
<1>5. /\ Takes(Ins) = 0 /\ Leaves(Ins) = 0
      /\ Steps(Ins, a) = {To(Ins, a, 1, a.names, <<{}>>, top)}
  BY <1>2, <1>4 DEF Takes, Leaves, Silent, Steps, Calling
<1>6. /\ 0 \in 0 .. Len(stack) /\ IsSeq(stack) /\ Len(stack) \in Nat /\ a.top = t
  BY <1>2, <1>3, HereFacts, TopFrame
<1>7. /\ Frame(Top.scopes, 1) /\ stack' = Drop(0) /\ pending_bind' = <<NoBindings>>
      /\ out' = out /\ pos' = pos /\ run' = run /\ status' = status
  BY <1>1 DEF Control
<1>8. IsSeq(stack') /\ Len(stack') = Len(stack) - 0 /\ stack' = stack
  BY <1>6, <1>7, DropSeq
<1>9. Len(stack') = Len(stack) - Takes(Ins) + Leaves(Ins)
  BY <1>5, <1>6, <1>8
<1>10. /\ IsSeq(Top.scopes) /\ a.names = Shape(Top.scopes)
       /\ BindOf(<<NoBindings>>) = <<{}>>
  BY <1>2, <1>3, ControlFacts
<1>11. Tells(top)'
  <2>1. top \in {"true", "any"}
    BY <1>4
  <2>2. top = "true" => Operand(1) = Bool(TRUE)
    BY <1>3, <1>4, <1>6 DEF Here, Tells
  <2> QED
    BY <1>8, <2>1, <2>2 DEF Tells, Operand
<1>12. PendingOK'
  <2>1. NoBindings = [x \in DOMAIN NoBindings |-> NoBindings[x]]
    BY DEF NoBindings
  <2> QED
    BY <1>7, <2>1 DEF PendingOK
<1>13. HostFine(out', pos')
  BY <1>7 DEF Inv, HostOK, HostFine
<1>14. To(Ins, a, 1, Shape(Top.scopes), BindOf(pending_bind'), top) \in Steps(Ins, a)
  BY <1>5, <1>7, <1>10
<1> QED
  BY <1>2, <1>3, <1>7, <1>8, <1>9, <1>10, <1>11, <1>12, <1>13, <1>14, Advance

LEMMA ScopeActions ==
  ASSUME Inv, Verified(run),
         ScopeEnter \/ ScopeEnterBindings \/ ScopeExit \/ Unwind
         \/ NoBindingsHere \/ DropBindings \/ MergeBindings
  PROVE  Inv'
<1>1. PICK op : op \in {"SCOPE_ENTER", "SCOPE_ENTER_BINDINGS", "SCOPE_EXIT", "UNWIND",
                        "NO_BINDINGS", "DROP_BINDINGS", "MERGE_BINDINGS"} /\ Fetch(op)
  BY DEF ScopeEnter, ScopeEnterBindings, ScopeExit, Unwind,
         NoBindingsHere, DropBindings, MergeBindings
<1>2. frames # <<>> /\ Ins.op = op
  BY <1>1, Fetched
<1>3. Takes(Ins) = 0 /\ Leaves(Ins) = 0
  BY <1>1, <1>2 DEF Takes, Leaves, Silent
<1>4. PICK a, t : Here(a, t)
  BY <1>2, Where
<1>5. /\ IsSeq(Top.scopes) /\ a.names = Shape(Top.scopes)
      /\ a.bind = BindOf(pending_bind)
      /\ DOMAIN Waiting = NamesIn(a.bind)
      /\ DOMAIN NoBindings = {} /\ BindOf(<<>>) = <<>> /\ BindOf(<<NoBindings>>) = <<{}>>
  BY <1>2, <1>4, ControlFacts
\* It is enough to say what becomes of the scopes and the bindings.
<1>6. ASSUME NEW scopes, NEW bind, Control(0, 1, scopes, bind), IsSeq(scopes),
             bind = pending_bind \/ bind = <<>> \/ bind = <<NoBindings>>,
             On(Ins, a, Shape(scopes), BindOf(bind)) \in Steps(Ins, a)
      PROVE  Inv'
  BY <1>2, <1>3, <1>4, <1>6, ControlInv DEF On
<1>7. CASE ScopeEnter
  <2>1. PICK s : s = Append(Top.scopes, NoBindings)
    OBVIOUS
  <2>2. IsSeq(s) /\ Shape(s) = Append(a.names, {})
    BY <1>5, <2>1, AppendSeq, ShapeAppend
  <2>3. Ins.op = "SCOPE_ENTER" /\ Control(0, 1, s, pending_bind)
    BY <1>7, <2>1 DEF ScopeEnter, Fetch
  <2>4. Steps(Ins, a) = {On(Ins, a, Append(a.names, {}), a.bind)}
    BY <2>3 DEF Steps, Calling
  <2> QED
    BY <1>5, <1>6, <2>2, <2>3, <2>4
<1>8. CASE ScopeEnterBindings
  <2>1. PICK s : s = Append(Top.scopes, Waiting)
    OBVIOUS
  <2>2. IsSeq(s) /\ Shape(s) = Append(a.names, NamesIn(a.bind))
    BY <1>5, <2>1, AppendSeq, ShapeAppend
  <2>3. Ins.op = "SCOPE_ENTER_BINDINGS" /\ Control(0, 1, s, <<>>)
    BY <1>8, <2>1 DEF ScopeEnterBindings, Fetch
  <2>4. Steps(Ins, a) = {On(Ins, a, Append(a.names, NamesIn(a.bind)), <<>>)}
    BY <2>3 DEF Steps, Calling
  <2> QED
    BY <1>5, <1>6, <2>2, <2>3, <2>4
<1>9. ASSUME NEW n \in 0 .. Len(Top.scopes), Control(0, 1, Scopes_but(n), pending_bind),
             On(Ins, a, Without(a.names, n), a.bind) \in Steps(Ins, a)
      PROVE  Inv'
  <2>1. PICK s, k : s = Scopes_but(n) /\ k = Len(Top.scopes) - n
    OBVIOUS
  <2>2. Shape(s) = Without(a.names, n)
    BY <1>5, <1>9, <2>1, ShapePrefix DEF Scopes_but
  <2>3. IsSeq(s)
    <3>1. k \in 0 .. Len(Top.scopes)
      BY <1>5, <1>9, <2>1, ShapeSeq
    <3> QED
      BY <1>5, <2>1, <3>1, PrefixSeq DEF Scopes_but
  <2> QED
    BY <1>5, <1>6, <1>9, <2>1, <2>2, <2>3
<1>10. CASE ScopeExit
  <2>1. Ins.op = "SCOPE_EXIT" /\ Control(0, 1, Scopes_but(1), pending_bind)
    BY <1>10 DEF ScopeExit, Fetch
  <2>2. 1 \in 0 .. Len(Top.scopes)
    BY <1>2, <1>4, <1>5, <2>1, HereSound, ShapeSeq
  <2>3. Steps(Ins, a) = {On(Ins, a, Without(a.names, 1), a.bind)}
    BY <2>1 DEF Steps, Calling
  <2> QED
    BY <1>9, <2>1, <2>2, <2>3
<1>11. CASE Unwind
  <2>1. Ins.op = "UNWIND" /\ Control(0, 1, Scopes_but(Ins.arg), pending_bind)
    BY <1>11 DEF Unwind, Fetch
  <2>2. Ins.arg \in 0 .. Len(Top.scopes)
    BY <1>2, <1>4, <2>1, HereSound
  <2>3. Steps(Ins, a) = {On(Ins, a, Without(a.names, Ins.arg), a.bind)}
    BY <2>1 DEF Steps, Calling
  <2> QED
    BY <1>9, <2>1, <2>2, <2>3
<1>12. CASE NoBindingsHere
  BY <1>12, NoBindingsInv
<1>13. CASE DropBindings
  <2>1. Ins.op = "DROP_BINDINGS" /\ Control(0, 1, Top.scopes, <<>>)
    BY <1>13 DEF DropBindings, Fetch
  <2>2. Steps(Ins, a) = {On(Ins, a, a.names, <<>>)}
    BY <2>1 DEF Steps, Calling
  <2> QED
    BY <1>5, <1>6, <2>1, <2>2
<1>14. CASE MergeBindings
  <2>1. PICK n, x, s : /\ n = Len(Top.scopes) /\ x = Merge(Last(Top.scopes), Waiting)
                       /\ s = Changed(Top.scopes, n, x)
    OBVIOUS
  <2>2. Ins.op = "MERGE_BINDINGS" /\ Control(0, 1, Append(Scopes_but(1), x), <<>>)
    BY <1>14, <2>1 DEF MergeBindings, Fetch
  <2>3. n > 0
    BY <1>2, <1>4, <2>1, <2>2, HereSound
  <2>4. Append(Scopes_but(1), x) = s
    BY <1>5, <2>1, <2>3, LastChanged DEF Scopes_but
  <2>5. DOMAIN x = DOMAIN Top.scopes[n] \cup NamesIn(a.bind)
    BY <1>5, <2>1 DEF Merge, Last
  <2>6. IsSeq(s) /\ Shape(s) = Bind(a.names, NamesIn(a.bind))
    BY <1>5, <2>1, <2>3, <2>5, ShapeBound
  <2>7. Steps(Ins, a) = {On(Ins, a, Bind(a.names, NamesIn(a.bind)), <<>>)}
    BY <2>2 DEF Steps, Calling
  <2> QED
    BY <1>5, <1>6, <2>2, <2>4, <2>6, <2>7
<1> QED
  BY <1>7, <1>8, <1>10, <1>11, <1>12, <1>13, <1>14

LEMMA JumpActions ==
  ASSUME Inv, Verified(run),
         JumpTo \/ JumpIfFalse \/ JumpIfFalseKeep \/ JumpIfTrueKeep \/ JumpIfNoMatch
  PROVE  Inv'
<1>1. PICK op : op \in {"JUMP", "JUMP_IF_FALSE", "JUMP_IF_FALSE_KEEP",
                        "JUMP_IF_TRUE_KEEP", "JUMP_IF_NO_MATCH"} /\ Fetch(op)
  BY DEF JumpTo, JumpIfFalse, JumpIfFalseKeep, JumpIfTrueKeep, JumpIfNoMatch
<1>2. frames # <<>> /\ Ins.op = op
  BY <1>1, Fetched
<1>3. Leaves(Ins) = 0
  BY <1>1, <1>2 DEF Leaves, Silent
<1>4. PICK a, t : Here(a, t)
  BY <1>2, Where
<1>5. IsSeq(Top.scopes) /\ a.names = Shape(Top.scopes) /\ a.bind = BindOf(pending_bind)
      /\ a.top = t
  BY <1>2, <1>4, ControlFacts, HereFacts
\* It is enough that the way taken is one of those of the view.
<1>6. ASSUME NEW taken \in BOOLEAN, NEW n, n = Takes(Ins),
             Jump(n, IF taken THEN Ins.arg ELSE 1),
             Branched(Ins, a, taken) \in Steps(Ins, a)
      PROVE  Inv'
  <2>1. PICK by : by = IF taken THEN Ins.arg ELSE 1
    OBVIOUS
  <2>2. Control(n, by, Top.scopes, pending_bind)
    BY <1>6, <2>1 DEF Jump
  <2>3. To(Ins, a, by, Shape(Top.scopes), BindOf(pending_bind), "any") \in Steps(Ins, a)
    BY <1>5, <1>6, <2>1 DEF Branched
  <2> QED
    BY <1>2, <1>3, <1>4, <1>5, <1>6, <2>2, <2>3, ControlInv
<1>7. ASSUME NEW n, n = Takes(Ins), NEW taken, Branch(taken, n),
             Branches(Ins, a) \subseteq Steps(Ins, a)
      PROVE  Inv'
  <2>1. CASE taken
    BY <1>6, <1>7, <2>1 DEF Branch, Branches
  <2>2. CASE ~taken
    BY <1>6, <1>7, <2>2 DEF Branch, Branches
  <2> QED
    BY <2>1, <2>2
<1>8. CASE JumpTo
  <2>1. Ins.op = "JUMP" /\ Jump(0, Ins.arg)
    BY <1>8 DEF JumpTo, Fetch
  <2>2. Takes(Ins) = 0
    BY <2>1 DEF Takes
  <2>3. Steps(Ins, a) = {Branched(Ins, a, TRUE)}
    BY <2>1 DEF Steps, Calling
  <2> QED
    BY <1>6, <2>1, <2>2, <2>3
<1>9. CASE JumpIfFalseKeep
  <2>1. Ins.op = "JUMP_IF_FALSE_KEEP" /\ Branch(~Operand(1).b, 0)
    BY <1>9 DEF JumpIfFalseKeep, Fetch
  <2>2. Takes(Ins) = 0
    BY <2>1 DEF Takes
  <2>3. Steps(Ins, a) = Branches(Ins, a)
    BY <2>1 DEF Steps, Calling
  <2> QED
    BY <1>7, <2>1, <2>2, <2>3
<1>10. CASE JumpIfTrueKeep
  <2>1. Ins.op = "JUMP_IF_TRUE_KEEP" /\ Branch(Operand(1).b, 0)
    BY <1>10 DEF JumpIfTrueKeep, Fetch
  <2>2. Takes(Ins) = 0
    BY <2>1 DEF Takes
  <2>3. Steps(Ins, a) = Branches(Ins, a)
    BY <2>1 DEF Steps, Calling
  <2> QED
    BY <1>7, <2>1, <2>2, <2>3
<1>11. (a.bind = <<>>) = (pending_bind = <<>>)
  BY <1>5 DEF BindOf
<1>12. CASE JumpIfFalse
  <2>1. Ins.op = "JUMP_IF_FALSE" /\ Branch(~Operand(1).b, 1)
    BY <1>12 DEF JumpIfFalse, Fetch
  <2>2. Takes(Ins) = 1
    BY <2>1 DEF Takes
  <2>3. Steps(Ins, a) = Tested(Ins, a)
    BY <2>1 DEF Steps, Calling
  <2>4. CASE t = "found"
    <3>1. Operand(1).b = (pending_bind # <<>>)
      BY <1>4, <2>4 DEF Here, Tells, Bool
    <3>2. Jump(1, IF a.bind = <<>> THEN Ins.arg ELSE 1)
      BY <1>11, <2>1, <3>1 DEF Branch
    <3>3. Branched(Ins, a, a.bind = <<>>) \in Steps(Ins, a)
      BY <1>5, <2>3, <2>4 DEF Tested, Ways
    <3> QED
      BY <1>6, <2>2, <3>2, <3>3
  <2>5. CASE t = "true"
    <3>1. Operand(1).b = TRUE
      BY <1>4, <2>5 DEF Here, Tells, Bool
    <3>2. Jump(1, IF FALSE THEN Ins.arg ELSE 1)
      BY <2>1, <3>1 DEF Branch
    <3>3. Branched(Ins, a, FALSE) \in Steps(Ins, a)
      BY <1>5, <2>3, <2>5 DEF Tested
    <3> QED
      BY <1>6, <2>2, <3>2, <3>3
  <2>6. CASE t \notin {"found", "true"}
    <3>1. Steps(Ins, a) = Branches(Ins, a)
      BY <1>5, <2>3, <2>6 DEF Tested, Ways
    <3> QED
      BY <1>7, <2>1, <2>2, <3>1
  <2> QED
    BY <2>4, <2>5, <2>6
<1>13. CASE JumpIfNoMatch
  <2>1. Ins.op = "JUMP_IF_NO_MATCH" /\ Branch(Operand(1).bind = <<>>, 1)
    BY <1>13 DEF JumpIfNoMatch, Fetch
  <2>2. Takes(Ins) = 1
    BY <2>1 DEF Takes
  <2>3. Steps(Ins, a) = Ways(Ins, a, "match")
    BY <2>1 DEF Steps, Calling
  <2>4. CASE t = "match"
    <3>1. Operand(1).bind = pending_bind
      BY <1>4, <2>4 DEF Here, Tells
    <3>2. Jump(1, IF a.bind = <<>> THEN Ins.arg ELSE 1)
      BY <1>11, <2>1, <3>1 DEF Branch
    <3>3. Branched(Ins, a, a.bind = <<>>) \in Steps(Ins, a)
      BY <1>5, <2>3, <2>4 DEF Ways
    <3> QED
      BY <1>6, <2>2, <3>2, <3>3
  <2>5. CASE t # "match"
    <3>1. Steps(Ins, a) = Branches(Ins, a)
      BY <1>5, <2>3, <2>5 DEF Ways
    <3> QED
      BY <1>7, <2>1, <2>2, <3>1
  <2> QED
    BY <2>4, <2>5
<1> QED
  BY <1>8, <1>9, <1>10, <1>12, <1>13

-----------------------------------------------------------------------------
(* Matches.                                                                *)

\* What is on top of the stack when an operand is pushed.
LEMMA Pushed ==
  ASSUME NEW s, IsSeq(s), NEW x
  PROVE  /\ IsSeq(s \o <<x>>) /\ Len(s \o <<x>>) = Len(s) + 1
         /\ (s \o <<x>>)[Len(s \o <<x>>) + 1 - 1] = x
<1>1. PICK y, q : y = <<x>> /\ q = s \o <<x>>
  OBVIOUS
<1>2. IsSeq(y) /\ Len(y) = 1 /\ y[1] = x
  BY <1>1, ShortSeq
<1>3. /\ IsSeq(q) /\ Len(q) = Len(s) + 1 /\ Len(s) \in Nat
      /\ \A i \in 1 .. Len(s) + 1 : q[i] = IF i <= Len(s) THEN s[i] ELSE y[i - Len(s)]
  BY <1>1, <1>2, JoinSeq
<1>4. q[Len(q) + 1 - 1] = y[1]
  BY <1>3
<1> QED
  BY <1>1, <1>2, <1>3, <1>4

LEMMA MatchValueActions ==
  ASSUME Inv, Verified(run), SaveMatchValue \/ ClearMatchValue
  PROVE  Inv'
<1>1. PICK op, n, v : /\ <<op, n>> \in {<<"SAVE_MATCH_VALUE", 1>>, <<"CLEAR_MATCH_VALUE", 0>>}
                      /\ Fetch(op) /\ SetMatchValue(v, n)
  BY DEF SaveMatchValue, ClearMatchValue
<1>2. frames # <<>> /\ Ins.op = op
  BY <1>1, Fetched
<1>3. PICK a, t : Here(a, t)
  BY <1>2, Where
<1>4. Takes(Ins) = n /\ Leaves(Ins) = 0
  BY <1>1, <1>2 DEF Takes, Leaves, Silent
<1>5. n \in 0 .. Len(stack) /\ IsSeq(stack) /\ Len(stack) \in Nat /\ a.top = t
  BY <1>2, <1>3, <1>4, HereFacts, TopFrame
<1>6. /\ Frame(Top.scopes, 1) /\ stack' = Drop(n) /\ pending_bind' = pending_bind
      /\ out' = out /\ pos' = pos /\ run' = run /\ status' = status
  BY <1>1 DEF SetMatchValue
<1>7. /\ IsSeq(stack') /\ Len(stack') = Len(stack) - Takes(Ins) + Leaves(Ins)
      /\ n = 0 => stack' = stack
  BY <1>4, <1>5, <1>6, DropSeq
<1>8. IsSeq(Top.scopes) /\ a.names = Shape(Top.scopes) /\ a.bind = BindOf(pending_bind)
  BY <1>2, <1>3, ControlFacts
<1>9. PICK top : /\ Tells(top)'
                 /\ To(Ins, a, 1, a.names, a.bind, top) \in Steps(Ins, a)
  <2>1. CASE op = "SAVE_MATCH_VALUE"
    <3>1. Steps(Ins, a) = {On(Ins, a, a.names, a.bind)}
      BY <1>2, <2>1 DEF Steps, Calling
    <3> QED
      BY <3>1 DEF On, Tells
  <2>2. CASE op = "CLEAR_MATCH_VALUE"
    <3>1. Steps(Ins, a) = {To(Ins, a, 1, a.names, a.bind, a.top)}
      BY <1>2, <2>2 DEF Steps, Calling
    <3>2. stack' = stack
      BY <1>1, <1>7, <2>2
    <3>3. Tells(t)'
      BY <1>3, <1>6, <3>2 DEF Here, Tells, Operand
    <3> QED
      BY <1>5, <3>1, <3>3
  <2> QED
    BY <1>1, <2>1, <2>2
<1>10. PendingOK' /\ HostFine(out', pos')
  BY <1>6 DEF Inv, PendingOK, HostOK, HostFine
<1> QED
  BY <1>2, <1>3, <1>6, <1>7, <1>8, <1>9, <1>10, Advance

\* A match gives the bindings of the names of the pattern, or nothing.
Outcome(o, names) ==
  \/ o = <<>>
  \/ \E b : o = <<b>> /\ DOMAIN b = names /\ b = [x \in DOMAIN b |-> b[x]]
LEMMA MatchIs ==
  ASSUME NEW p, NEW v, NEW m
  PROVE  Outcome(match(p, v, m).v, Names(p))
<1> PICK r : r = Matches(p, v, m.heap)
  OBVIOUS
<1> PICK N : N = Names(p)
  OBVIOUS
<1>1. PICK b, h : b = [x \in N |-> r.bind[x]] /\ h = [m EXCEPT !.heap = r.heap]
  OBVIOUS
<1>2. match(p, v, m) = Ok(IF r.ok THEN <<b>> ELSE <<>>, h)
  BY <1>1 DEF match, With
<1>3. match(p, v, m).v = IF r.ok THEN <<b>> ELSE <<>>
  BY <1>2 DEF Ok, Result
<1>4. DOMAIN b = N /\ b = [x \in N |-> b[x]]
  BY <1>1
<1>5. DOMAIN b = Names(p) /\ b = [x \in DOMAIN b |-> b[x]]
  BY <1>4
<1> QED
  BY <1>3, <1>5 DEF Outcome

LEMMA TryPatternInv ==
  ASSUME Inv, Verified(run), TryPattern
  PROVE  Inv'
<1>1. PICK r : r = match(Ins.arg, Operand(1), Memory)
  OBVIOUS
<1> PICK x : x = [k |-> "match", bind |-> r.v]
  OBVIOUS
<1>2. /\ Fetch("TRY_PATTERN") /\ Frame(Top.scopes, 1)
      /\ x.bind = r.v /\ stack' = Append(Drop(1), x) /\ pending_bind' = r.v
      /\ out' = out /\ pos' = pos /\ run' = run /\ status' = status
  BY <1>1 DEF TryPattern
<1>3. frames # <<>> /\ Ins.op = "TRY_PATTERN"
  BY <1>2, Fetched
<1>4. PICK a, t : Here(a, t)
  BY <1>3, Where
<1>5. Takes(Ins) = 1 /\ Leaves(Ins) = 1 /\ Steps(Ins, a) = Tried(Ins, a)
  BY <1>3 DEF Takes, Leaves, Silent, Steps, Calling
<1>6. 1 \in 0 .. Len(stack) /\ IsSeq(stack) /\ Len(stack) \in Nat
  BY <1>3, <1>4, <1>5, HereFacts, TopFrame
<1>7. IsSeq(Drop(1)) /\ Len(Drop(1)) = Len(stack) - 1
  BY <1>6, DropSeq
<1>8. IsSeq(stack') /\ Len(stack') = Len(Drop(1)) + 1 /\ stack'[Len(stack') + 1 - 1] = x
  <2>1. PICK d, q : d = Drop(1) /\ q = stack'
    OBVIOUS
  <2>2. IsSeq(d) /\ q = Append(d, x)
    BY <1>2, <1>7, <2>1
  <2>3. /\ IsSeq(q) /\ Len(q) = Len(d) + 1 /\ Len(d) \in Nat
        /\ \A i \in 1 .. Len(d) + 1 : q[i] = IF i <= Len(d) THEN d[i] ELSE x
    BY <2>2, AppendSeq
  <2>4. q[Len(q) + 1 - 1] = x
    BY <2>3
  <2> QED
    BY <2>1, <2>3, <2>4
<1>9. Tells("match")'
  BY <1>2, <1>8 DEF Tells, Operand
<1>10. Outcome(r.v, Names(Ins.arg))
  BY <1>1, MatchIs
<1>11. PendingOK' /\ BindOf(pending_bind') \in {<<>>, <<Names(Ins.arg)>>}
  BY <1>2, <1>10 DEF Outcome, PendingOK, BindOf
<1>12. To(Ins, a, 1, a.names, BindOf(pending_bind'), "match") \in Steps(Ins, a)
  BY <1>5, <1>11 DEF Tried
<1>13. Len(stack') = Len(stack) - Takes(Ins) + Leaves(Ins)
  BY <1>5, <1>6, <1>7, <1>8
<1>14. IsSeq(Top.scopes) /\ a.names = Shape(Top.scopes)
  BY <1>3, <1>4, ControlFacts
<1>15. HostFine(out', pos')
  BY <1>2 DEF Inv, HostOK, HostFine
<1> QED
  BY <1>2, <1>3, <1>4, <1>8, <1>9, <1>11, <1>12, <1>13, <1>14, <1>15, Advance

LEMMA PatternToBoolInv ==
  ASSUME Inv, Verified(run), PatternToBool
  PROVE  Inv'
<1>1. PICK v, found : /\ v = Bool(found) /\ found \in BOOLEAN
                      /\ found = (Operand(1).bind # <<>>)
  OBVIOUS
<1>2. Fetch("PATTERN_TO_BOOL") /\ Value(Ok(v, Memory), 1)
  BY <1>1 DEF PatternToBool
<1>3. frames # <<>> /\ Ins.op = "PATTERN_TO_BOOL"
  BY <1>2, Fetched
<1>4. PICK a, t : Here(a, t)
  BY <1>3, Where
<1>5. PICK top : top = IF a.top = "match" THEN "found" ELSE "any"
  OBVIOUS
<1>6. /\ Takes(Ins) = 1 /\ Leaves(Ins) = 1
      /\ Steps(Ins, a) = {To(Ins, a, 1, a.names, a.bind, top)}
  BY <1>3, <1>5 DEF Takes, Leaves, Silent, Steps, Calling
<1>7. 1 \in 0 .. Len(stack) /\ IsSeq(stack) /\ Len(stack) \in Nat /\ a.top = t
  BY <1>3, <1>4, <1>6, HereFacts, TopFrame
<1>8. /\ Frame(Top.scopes, 1) /\ stack' = Drop(1) \o <<v>>
      /\ pending_bind' = pending_bind
      /\ out' = out /\ pos' = pos /\ run' = run /\ status' = status
  BY <1>2 DEF Value, Effect, SameSlots, Ok, Result, Memory
<1>9. IsSeq(Drop(1)) /\ Len(Drop(1)) = Len(stack) - 1
  BY <1>7, DropSeq
<1>10. IsSeq(stack') /\ Len(stack') = Len(Drop(1)) + 1 /\ stack'[Len(stack') + 1 - 1] = v
  BY <1>8, <1>9, Pushed
<1>11. Tells(top)'
  <2>1. CASE t = "match"
    <3>1. Operand(1).bind = pending_bind
      BY <1>4, <2>1 DEF Here, Tells
    <3>2. v = Bool(pending_bind # <<>>)
      BY <1>1, <3>1 DEF Bool
    <3>3. top = "found"
      BY <1>5, <1>7, <2>1
    <3> QED
      BY <1>8, <1>10, <3>2, <3>3 DEF Tells, Operand
  <2>2. CASE t # "match"
    BY <1>5, <1>7, <2>2 DEF Tells
  <2> QED
    BY <2>1, <2>2
<1>12. /\ IsSeq(Top.scopes) /\ a.names = Shape(Top.scopes) /\ a.bind = BindOf(pending_bind)
       /\ PendingOK' /\ HostFine(out', pos')
  BY <1>3, <1>4, <1>8, ControlFacts DEF Inv, PendingOK, HostOK, HostFine
<1>13. To(Ins, a, 1, Shape(Top.scopes), BindOf(pending_bind'), top) \in Steps(Ins, a)
  BY <1>6, <1>8, <1>12
<1>14. Len(stack') = Len(stack) - Takes(Ins) + Leaves(Ins)
  BY <1>6, <1>7, <1>9, <1>10
<1> QED
  BY <1>3, <1>4, <1>8, <1>10, <1>11, <1>12, <1>13, <1>14, Advance

LEMMA PushConstInv ==
  ASSUME Inv, Verified(run), PushConst
  PROVE  Inv'
<1>1. PICK v : v = Ins.arg
  OBVIOUS
<1>2. Fetch("PUSH") /\ Value(Ok(v, Memory), 0)
  BY <1>1 DEF PushConst
<1>3. frames # <<>> /\ Ins.op = "PUSH"
  BY <1>2, Fetched
<1>4. PICK a, t : Here(a, t)
  BY <1>3, Where
<1>5. PICK top : top = IF v = Bool(TRUE) THEN "true" ELSE "any"
  OBVIOUS
<1>6. /\ Takes(Ins) = 0 /\ Leaves(Ins) = 1
      /\ Steps(Ins, a) = {To(Ins, a, 1, a.names, a.bind, top)}
  BY <1>1, <1>3, <1>5 DEF Takes, Leaves, Silent, Steps, Calling
<1>7. 0 \in 0 .. Len(stack) /\ IsSeq(stack) /\ Len(stack) \in Nat
  BY <1>3, TopFrame
<1>8. /\ Frame(Top.scopes, 1) /\ stack' = Drop(0) \o <<v>>
      /\ pending_bind' = pending_bind
      /\ out' = out /\ pos' = pos /\ run' = run /\ status' = status
  BY <1>2 DEF Value, Effect, SameSlots, Ok, Result, Memory
<1>9. IsSeq(Drop(0)) /\ Len(Drop(0)) = Len(stack) - 0
  BY <1>7, DropSeq
<1>10. IsSeq(stack') /\ Len(stack') = Len(Drop(0)) + 1 /\ stack'[Len(stack') + 1 - 1] = v
  BY <1>8, <1>9, Pushed
<1>11. Tells(top)'
  <2>1. top = "true" => v = Bool(TRUE)
    BY <1>5
  <2>2. top \in {"true", "any"}
    BY <1>5
  <2> QED
    BY <1>10, <2>1, <2>2 DEF Tells, Operand
<1>12. /\ IsSeq(Top.scopes) /\ a.names = Shape(Top.scopes) /\ a.bind = BindOf(pending_bind)
       /\ PendingOK' /\ HostFine(out', pos')
  BY <1>3, <1>4, <1>8, ControlFacts DEF Inv, PendingOK, HostOK, HostFine
<1>13. To(Ins, a, 1, Shape(Top.scopes), BindOf(pending_bind'), top) \in Steps(Ins, a)
  BY <1>6, <1>8, <1>12
<1>14. Len(stack') = Len(stack) - Takes(Ins) + Leaves(Ins)
  BY <1>6, <1>7, <1>9, <1>10
<1> QED
  BY <1>3, <1>4, <1>8, <1>10, <1>11, <1>12, <1>13, <1>14, Advance

LEMMA TrapInv ==
  ASSUME Inv, Verified(run), TrapNow
  PROVE  Inv'
<1>1. PICK op : op \in {"TRAP", "TRAP_MATCH"} /\ Fetch(op) /\ Abort("trap", Memory, 0)
  BY DEF TrapNow, Raise
<1>2. frames # <<>>
  BY <1>1, Fetched
<1>3. 0 \in 0 .. Len(stack)
  BY <1>2, TopFrame
<1>4. HostFine(Memory.out, Memory.pos)
  BY DEF Inv, HostOK, HostFine, Memory
<1> QED
  BY <1>1, <1>2, <1>3, <1>4, AbortInv

-----------------------------------------------------------------------------
(* Calls.                                                                  *)

\* The frame and the view a call starts with.
Entered(f, vs, base) == NewFrame(f, Dict(code[f].params, vs), base)
LEMMA EntryView ==
  ASSUME Verified(run), NEW f \in DOMAIN code, NEW vs, NEW base \in Nat, NEW b \in Quiet
  PROVE  /\ Entered(f, vs, base).f = f /\ Entered(f, vs, base).base = base
         /\ FrameOK(Entered(f, vs, base))
         /\ FrameView(Entered(f, vs, base), base, b, "any") \in run.views[f]
<1> PICK fr : fr = Entered(f, vs, base)
  OBVIOUS
<1>1. PICK d, s : d = Dict(code[f].params, vs) /\ s = <<d>>
  OBVIOUS
<1>2. fr = [f |-> f, ip |-> 1, scopes |-> s, base |-> base, last |-> <<>>]
  BY <1>1 DEF Entered, NewFrame
<1>3. DOMAIN d = ToSet(code[f].params)
  BY <1>1 DEF Dict
<1>4. IsSeq(s) /\ Len(s) = 1 /\ s[1] = d
  BY <1>1, ShortSeq
<1>5. Shape(s) = <<ToSet(code[f].params)>>
  <2>1. PICK N, q : N = ToSet(code[f].params) /\ q = <<N>>
    OBVIOUS
  <2>2. IsSeq(q) /\ Len(q) = 1 /\ q[1] = N
    BY <2>1, ShortSeq
  <2>3. \A i \in 1 .. Len(s) : q[i] = DOMAIN s[i]
    BY <1>3, <1>4, <2>1, <2>2
  <2>4. Shape(s) = q
    BY <1>4, <2>2, <2>3, ShapeIs
  <2> QED
    BY <2>1, <2>4
<1>6. fr.f = f /\ fr.base = base /\ FrameOK(fr)
  BY <1>2, <1>4 DEF FrameOK, IsFrame
<1>7. FrameView(fr, base, b, "any") = View(1, <<ToSet(code[f].params)>>, 0, b, "any", <<>>)
  BY <1>2, <1>5 DEF FrameView, View
<1>8. FrameView(fr, base, b, "any") \in Entries(run, f)
  BY <1>7 DEF Entries, code
<1>9. Entries(run, f) \subseteq run.views[f]
  BY DEF Verified, code
<1> QED
  BY <1>6, <1>8, <1>9

LEMMA CallInv ==
  ASSUME Inv, Verified(run), frames # <<>>, NEW a, NEW t, Here(a, t), Ins.op \in Calling,
         NEW f, NEW args, NEW n, n = Takes(Ins), Call(f, args, n)
  PROVE  Inv'
<1>1. /\ n \in 0 .. Len(stack) /\ n \in 0 .. a.h /\ IsSeq(stack) /\ Len(stack) \in Nat
      /\ a.h = Len(stack) - Top.base /\ Top.base \in Nat
      /\ a.ip = Top.ip /\ a.last = Top.last /\ a.names = Shape(Top.scopes)
      /\ a.bind = BindOf(pending_bind) /\ a.bind \in Quiet
  BY HereFacts, HereSound, TopFrame
<1>2. CASE f \notin DOMAIN code
  <2>1. Abort("error", Memory, n)
    BY <1>2 DEF Call
  <2>2. HostFine(Memory.out, Memory.pos)
    BY DEF Inv, HostOK, HostFine, Memory
  <2> QED
    BY <1>1, <2>1, <2>2, AbortInv
<1>3. CASE f \in DOMAIN code
  <2>1. PICK N, fr, base, vs :
          /\ N = Len(frames) /\ fr = Moved(Top.scopes, 1) /\ base = Len(stack) - n
          /\ vs = copy_values(args, Memory).v
    OBVIOUS
  <2>2. PICK new, mid : new = Entered(f, vs, base) /\ mid = Changed(frames, N, fr)
    OBVIOUS
  <2>3. /\ frames' = Append(mid, new) /\ stack' = Drop(n)
        /\ out' = out /\ pos' = pos /\ status' = status
        /\ run' = run /\ pending_bind' = pending_bind
    BY <1>3, <2>1, <2>2 DEF Call, SameSlots, Changed, Entered
  <2>4. run' = run /\ code' = code /\ input' = input
    BY <2>3 DEF code, input
  <2>5. N \in Nat /\ N \in 1 .. N /\ IsSeq(frames) /\ FrameOK(Top)
    BY <2>1, TopFrame
  <2>6. /\ IsSeq(mid) /\ Len(mid) = N
        /\ \A i \in 1 .. N : mid[i] = IF i = N THEN fr ELSE frames[i]
    BY <2>1, <2>2, <2>5, ChangeSeq
  <2>7. /\ IsSeq(frames') /\ Len(frames') = N + 1
        /\ \A i \in 1 .. N + 1 : frames'[i] = IF i <= N THEN mid[i] ELSE new
    BY <2>3, <2>6, AppendSeq
  <2>8. frames'[N] = fr /\ frames'[N + 1] = new /\ Top' = new /\ frames' # <<>>
    BY <2>5, <2>6, <2>7 DEF Top
  <2>9. \A i \in 1 .. N : i # N => frames'[i] = frames[i]
    BY <2>5, <2>6, <2>7
  <2>10. /\ fr = [f |-> Top.f, ip |-> Top.ip + 1, scopes |-> Top.scopes,
                  base |-> Top.base, last |-> Remember]
         /\ FrameOK(fr)
    BY <2>1, <2>5, MovedFrame DEF FrameOK
  <2>11. base \in Nat /\ Top.base <= base
    BY <1>1, <2>1
  <2>12. /\ new.f = f /\ new.base = base /\ FrameOK(new)
         /\ FrameView(new, base, a.bind, "any") \in run.views[f]
    <3>1. PICK b : b = a.bind
      OBVIOUS
    <3>2. b \in Quiet /\ base \in Nat /\ f \in DOMAIN code
      BY <1>1, <1>3, <2>11, <3>1
    <3>3. /\ new.f = f /\ new.base = base /\ FrameOK(new)
          /\ FrameView(new, base, b, "any") \in run.views[f]
      BY <2>2, <3>2, EntryView
    <3> QED
      BY <3>1, <3>3
  <2>13. \A i \in 1 .. N : frames'[i].base = frames[i].base /\ frames[i].base <= Top.base
    BY <2>1, <2>5, <2>8, <2>9, <2>10 DEF Inv, FramesOK, Top
  <2>14. FramesOK'
    <3>1. \A i \in 1 .. N + 1 : FrameOK(frames'[i])
      <4> TAKE i \in 1 .. N + 1
      <4>1. i = N + 1 \/ i = N \/ (i \in 1 .. N /\ i # N)
        BY <2>5
      <4>2. \A j \in 1 .. N : FrameOK(frames[j])
        BY <2>1 DEF Inv, FramesOK
      <4> QED
        BY <2>8, <2>9, <2>10, <2>12, <4>1, <4>2
    <3>2. \A i \in 1 .. N + 1 : FrameOK(frames[i])'
      BY <2>4, <3>1 DEF FrameOK, IsFrame
    <3>3. \A j, k \in 1 .. N + 1 : j <= k => frames'[j].base <= frames'[k].base
      <4> SUFFICES ASSUME NEW j \in 1 .. N + 1, NEW k \in 1 .. N + 1, j <= k
                   PROVE  frames'[j].base <= frames'[k].base
        OBVIOUS
      <4>1. CASE k # N + 1
        <5>1. j \in 1 .. N /\ k \in 1 .. N
          BY <2>5, <4>1
        <5>2. frames[j].base <= frames[k].base
          BY <2>1, <5>1 DEF Inv, FramesOK
        <5> QED
          BY <2>13, <5>1, <5>2
      <4>2. CASE k = N + 1 /\ j # N + 1
        <5>1. j \in 1 .. N
          BY <2>5, <4>2
        <5>2. frames[j].base \in Nat
          BY <2>1, <5>1 DEF Inv, FramesOK, FrameOK
        <5>3. frames'[j].base \in Nat /\ frames'[j].base <= Top.base
          BY <2>13, <5>1, <5>2
        <5> QED
          BY <1>1, <2>8, <2>11, <2>12, <4>2, <5>3
      <4>3. CASE k = N + 1 /\ j = N + 1
        BY <2>8, <2>11, <2>12, <4>3
      <4> QED
        BY <4>1, <4>2, <4>3
    <3> QED
      BY <2>7, <3>2, <3>3 DEF FramesOK
  <2>15. IsSeq(stack') /\ Len(stack') = base
    BY <1>1, <2>1, <2>3, DropSeq
  <2>16. TopOK'
    <3>1. FrameView(new, Len(stack'), BindOf(pending_bind'), "any") \in run.views[new.f]
      BY <1>1, <2>3, <2>12, <2>15
    <3> QED
      BY <2>4, <2>8, <3>1 DEF TopOK, Tells
  <2>17. \A k \in 1 .. N : CallerOK(k)'
    <3> TAKE k \in 1 .. N
    <3>1. CASE k # N
      <4>1. k + 1 \in 1 .. N /\ k \in 1 .. N - 1
        BY <2>5, <3>1
      <4>2. CallerOK(k)
        BY <2>1, <4>1 DEF Inv
      <4> QED
        BY <2>4, <2>9, <2>13, <3>1, <4>1, <4>2 DEF CallerOK
    <3>2. CASE k = N
      <4>1. Leaves(Ins) = 1 /\ Steps(Ins, a) = Called(Ins, a)
        BY DEF Leaves, Silent, Steps, Calling
      <4>2. (base + 1) - Top.base = a.h - Takes(Ins) + Leaves(Ins)
        BY <1>1, <2>1, <4>1
      <4>3. \A b : FrameView(fr, base + 1, b, "any") = On(Ins, a, a.names, b)
        <5>1. PICK h : h = (base + 1) - Top.base
          OBVIOUS
        <5>2. \A b : FrameView(fr, base + 1, b, "any")
                       = View(a.ip + 1, a.names, h, b, "any", Remember)
          <6>1. /\ fr.ip = a.ip + 1 /\ Shape(fr.scopes) = a.names
                /\ (base + 1) - fr.base = h /\ fr.last = Remember
            BY <1>1, <2>10, <5>1
          <6> QED
            BY <6>1, Zenon DEF FrameView
        <5>3. h = a.h - Takes(Ins) + Leaves(Ins)
          BY <4>2, <5>1
        <5>4. (IF Ins.mark = <<>> THEN a.last ELSE Ins.mark) = Remember
          BY <1>1 DEF Remember
        <5>5. \A b : On(Ins, a, a.names, b)
                       = View(a.ip + 1, a.names, h, b, "any", Remember)
          BY <5>3, <5>4, Zenon DEF On, To
        <5> QED
          BY <5>2, <5>5
      <4>4. \A b \in Quiet : FrameView(fr, base + 1, b, "any") \in run.views[Top.f]
        BY <4>1, <4>3 DEF Called, Here
      <4> QED
        BY <2>4, <2>8, <2>10, <2>12, <3>2, <4>4 DEF CallerOK
    <3> QED
      BY <3>1, <3>2
  <2>18. StatusOK' /\ PendingOK' /\ HostOK'
    BY <2>3, <2>4, <2>8 DEF Inv, StatusOK, IsRunning, PendingOK, HostOK
  <2>19. Len(frames') - 1 = N
    BY <2>5, <2>7
  <2> QED
    BY <2>3, <2>14, <2>15, <2>16, <2>17, <2>18, <2>19 DEF Inv
<1> QED
  BY <1>2, <1>3

LEMMA CallActions ==
  ASSUME Inv, Verified(run), CallNamed \/ CallValue
  PROVE  Inv'
<1>1. CASE CallNamed
  <2>1. PICK n, vs : n = Ins.arg[2] /\ vs = Last_n(n)
    OBVIOUS
  <2>2. Fetch("CALL_NAMED") /\ Call(Ins.arg[1], vs, n)
    BY <1>1, <2>1 DEF CallNamed
  <2>3. frames # <<>> /\ Ins.op = "CALL_NAMED"
    BY <2>2, Fetched
  <2>4. PICK a, t : Here(a, t)
    BY <2>3, Where
  <2>5. n = Takes(Ins) /\ Ins.op \in Calling
    BY <2>1, <2>3 DEF Takes, Calling
  <2> QED
    BY <2>2, <2>3, <2>4, <2>5, CallInv
<1>2. CASE CallValue
  <2>1. PICK n, f, vs : /\ n = Ins.arg + 1 /\ f = Operand(Ins.arg + 1)
                        /\ vs = Last_n(Ins.arg)
    OBVIOUS
  <2>2. /\ Fetch("CALL_VALUE")
        /\ \/ Call(f.f, vs, n)
           \/ Value(HostCall(f.h, vs, Memory), n)
           \/ Abort("trap", Memory, n)
    BY <1>2, <2>1 DEF CallValue, Raise
  <2>3. frames # <<>> /\ Ins.op = "CALL_VALUE"
    BY <2>2, Fetched
  <2>4. PICK a, t : Here(a, t)
    BY <2>3, Where
  <2>5. n = Takes(Ins) /\ Ins.op \in Calling /\ Leaves(Ins) = 1
    BY <2>1, <2>3 DEF Takes, Calling, Leaves, Silent
  <2>6. n \in 0 .. Len(stack) /\ a.names = Shape(Top.scopes) /\ a.bind \in Quiet
    BY <2>3, <2>4, <2>5, HereFacts, HereSound
  <2>7. IsSeq(Top.scopes) /\ HostFine(out, pos)
    BY <2>3, TopFrame DEF FrameOK, Inv, HostOK, HostFine
  <2>8. CASE Call(f.f, vs, n)
    BY <2>3, <2>4, <2>5, <2>8, CallInv
  <2>9. CASE Value(HostCall(f.h, vs, Memory), n)
    <3>1. PICK r : r = HostCall(f.h, vs, Memory)
      OBVIOUS
    <3>2. Fine(r, a.names)
      BY <2>6, <2>7, <3>1, HostCallFine
    <3>3. Steps(Ins, a) = Called(Ins, a)
      BY <2>3 DEF Steps, Calling
    <3>4. On(Ins, a, a.names, a.bind) \in Steps(Ins, a)
      BY <2>6, <3>3 DEF Called
    <3> QED
      BY <2>3, <2>4, <2>5, <2>9, <3>1, <3>2, <3>4, ValueInv
  <2>10. CASE Abort("trap", Memory, n)
    <3>1. HostFine(Memory.out, Memory.pos)
      BY <2>7 DEF Memory
    <3> QED
      BY <2>3, <2>6, <2>10, <3>1, AbortInv
  <2> QED
    BY <2>2, <2>8, <2>9, <2>10
<1> QED
  BY <1>1, <1>2

\* A return gives the value to the caller, in the view that was kept for it.
LEMMA ReturnInv ==
  ASSUME Inv, Verified(run), Return
  PROVE  Inv'
<1>1. PICK N, v, d : /\ N = Len(frames) /\ v = copy_value(Operand(1), Memory).v
                     /\ d = Drop(1)
  OBVIOUS
<1>2. /\ Fetch("RET") /\ frames' = SubSeq(frames, 1, N - 1)
      /\ stack' = (IF N = 1 THEN d ELSE Append(d, v))
      /\ status' = (IF N = 1 THEN [sig |-> "ok", v |-> v] ELSE status)
      /\ out' = out /\ pos' = pos /\ run' = run /\ pending_bind' = pending_bind
  BY <1>1 DEF Return, SameSlots, Front
<1>3. frames # <<>> /\ Ins.op = "RET"
  BY <1>2, Fetched
<1>4. PICK a, t : Here(a, t)
  BY <1>3, Where
<1>5. Takes(Ins) = 1
  BY <1>3 DEF Takes
<1>6. /\ 1 \in 0 .. Len(stack) /\ IsSeq(stack) /\ Len(stack) \in Nat /\ Top.base \in Nat
      /\ Len(stack) - Top.base = 1 /\ BindOf(pending_bind) \in Quiet
  BY <1>3, <1>4, <1>5, HereFacts, HereSound, TopFrame
<1>7. IsSeq(d) /\ Len(d) = Len(stack) - 1
  BY <1>1, <1>6, DropSeq
<1>8. N \in Nat /\ N \in 1 .. N /\ IsSeq(frames)
  BY <1>1, <1>3, TopFrame
<1>9. /\ IsSeq(frames') /\ Len(frames') = N - 1
      /\ \A i \in 1 .. N - 1 : frames'[i] = frames[i]
  <2>1. N - 1 \in 0 .. Len(frames)
    BY <1>1, <1>8
  <2> QED
    BY <1>2, <1>8, <2>1, PrefixSeq
<1>10. run' = run /\ code' = code /\ input' = input
  BY <1>2 DEF code, input
<1>11. FramesOK'
  <2>1. \A i \in 1 .. N - 1 : FrameOK(frames'[i])
    BY <1>1, <1>8, <1>9 DEF Inv, FramesOK
  <2>2. \A i \in 1 .. N - 1 : FrameOK(frames[i])'
    BY <1>10, <2>1 DEF FrameOK, IsFrame
  <2>3. \A j, k \in 1 .. N - 1 : j <= k => frames'[j].base <= frames'[k].base
    BY <1>1, <1>8, <1>9 DEF Inv, FramesOK
  <2> QED
    BY <1>9, <2>2, <2>3 DEF FramesOK
<1>12. \A k \in 1 .. Len(frames') - 1 : CallerOK(k)'
  <2> SUFFICES ASSUME NEW k \in 1 .. N - 1 - 1
               PROVE  CallerOK(k)'
    BY <1>9
  <2>1. k \in 1 .. N - 1 /\ k + 1 \in 1 .. N - 1
    BY <1>8
  <2>2. CallerOK(k)
    BY <1>1, <2>1 DEF Inv
  <2> QED
    BY <1>9, <1>10, <2>1, <2>2 DEF CallerOK
<1>13. PendingOK' /\ HostOK'
  BY <1>2, <1>10 DEF Inv, PendingOK, HostOK
<1>14. CASE N = 1
  <2>1. frames' = <<>>
    BY <1>9, <1>14, ShortSeq, EqualSeqs
  <2>2. IsSeq(stack') /\ StatusOK'
    BY <1>2, <1>7, <1>14, <2>1 DEF StatusOK, IsRunning
  <2> QED
    BY <1>2, <1>11, <1>12, <1>13, <2>1, <2>2 DEF Inv
<1>15. CASE N # 1
  <2>1. stack' = Append(d, v) /\ status' = status
    BY <1>2, <1>15
  <2>2. IsSeq(stack') /\ Len(stack') = Len(d) + 1
    BY <1>7, <2>1, AppendSeq
  <2>3. N - 1 \in 1 .. N - 1 /\ (N - 1) + 1 = N /\ N - 1 \in 1 .. N
    BY <1>8, <1>15
  <2>4. frames' # <<>> /\ Top' = frames[N - 1]
    BY <1>9, <2>3 DEF Top
  <2>5. CallerOK(N - 1)
    BY <1>1, <2>3 DEF Inv
  <2>6. Len(stack') = Top.base + 1
    BY <1>6, <1>7, <2>2
  <2>7. FrameView(frames[N - 1], Len(stack'), BindOf(pending_bind'), "any")
          \in run.views[frames[N - 1].f]
    BY <1>1, <1>2, <1>6, <2>3, <2>5, <2>6 DEF CallerOK, Top
  <2>8. TopOK'
    BY <1>10, <2>4, <2>7 DEF TopOK, Tells
  <2>9. StatusOK'
    BY <1>3, <2>1, <2>4 DEF Inv, StatusOK, IsRunning
  <2> QED
    BY <1>2, <1>11, <1>12, <1>13, <2>2, <2>8, <2>9 DEF Inv
<1> QED
  BY <1>14, <1>15

-----------------------------------------------------------------------------
(* The invariant holds of every run of code that passes the check.         *)

LEMMA InitInv ==
  ASSUME Init, Verified(run)
  PROVE  Inv
<1>1. PICK fr : fr = NewFrame("main", NoBindings, 0)
  OBVIOUS
<1>2. /\ \E i \in DOMAIN Loaded : run = Loaded[i]
      /\ frames = <<fr>> /\ stack = <<>> /\ pending_bind = <<>>
      /\ out = <<>> /\ pos = 0 /\ status.sig = "running"
  BY <1>1 DEF Init, Running
<1>3. IsSeq(frames) /\ Len(frames) = 1 /\ frames[1] = fr /\ Top = fr /\ frames # <<>>
  BY <1>2, ShortSeq DEF Top
<1>4. IsSeq(stack) /\ Len(stack) = 0 /\ IsSeq(out) /\ Len(out) = 0
  BY <1>2, ShortSeq
<1>5. PICK s : s = <<NoBindings>>
  OBVIOUS
<1>6. IsSeq(s) /\ Len(s) = 1 /\ s[1] = NoBindings
  BY <1>5, ShortSeq
<1>7. fr = [f |-> "main", ip |-> 1, scopes |-> s, base |-> 0, last |-> <<>>]
  BY <1>1, <1>5 DEF NewFrame
<1>8. "main" \in DOMAIN code /\ code["main"].params = <<>>
  BY DEF Verified, code
<1>9. FrameOK(fr)
  BY <1>6, <1>7, <1>8 DEF FrameOK, IsFrame
<1>10. Shape(s) = <<{}>>
  <2>1. PICK q : q = <<{}>>
    OBVIOUS
  <2>2. IsSeq(q) /\ Len(q) = 1 /\ q[1] = {}
    BY <2>1, ShortSeq
  <2>3. DOMAIN NoBindings = {}
    BY DEF NoBindings
  <2>4. \A i \in 1 .. Len(s) : q[i] = DOMAIN s[i]
    BY <1>6, <2>2, <2>3
  <2>5. Shape(s) = q
    BY <1>6, <2>2, <2>4, ShapeIs
  <2> QED
    BY <2>1, <2>5
<1>11. TopOK
  <2>1. ToSet(code["main"].params) = {}
    <3>1. \A i \in DOMAIN <<>> : FALSE
      OBVIOUS
    <3> QED
      BY <1>8, <3>1 DEF ToSet
  <2>2. View(1, <<{}>>, 0, <<>>, "any", <<>>) \in Entries(run, "main")
    BY <2>1 DEF Entries, Quiet, code
  <2>3. Entries(run, "main") \subseteq run.views["main"]
    BY <1>8 DEF Verified, code
  <2>4. FrameView(fr, Len(stack), BindOf(pending_bind), "any")
          = View(1, <<{}>>, 0, <<>>, "any", <<>>)
    <3>1. BindOf(pending_bind) = <<>> /\ Len(stack) - 0 = 0
      BY <1>2, <1>4 DEF BindOf
    <3>2. fr.ip = 1 /\ fr.scopes = s /\ fr.base = 0 /\ fr.last = <<>>
      BY <1>7
    <3> QED
      BY <1>10, <3>1, <3>2, Zenon DEF FrameView
  <2>5. Tells("any")
    BY DEF Tells
  <2>6. FrameView(Top, Len(stack), BindOf(pending_bind), "any") \in run.views[Top.f]
    BY <1>3, <1>7, <2>2, <2>3, <2>4
  <2> QED
    BY <2>5, <2>6 DEF TopOK
<1>12. HostOK
  <2>1. input \in Seq(ToSet(input))
    BY <1>2, LoadedAssumption DEF input
  <2>2. Len(input) \in Nat
    BY <2>1
  <2> QED
    BY <1>2, <1>4, <2>2, MaxOutAssumption DEF HostOK
<1>13. StatusOK /\ FramesOK /\ PendingOK
  BY <1>2, <1>3, <1>7, <1>9 DEF StatusOK, IsRunning, FramesOK, PendingOK
<1> QED
  BY <1>2, <1>3, <1>4, <1>11, <1>12, <1>13 DEF Inv

LEMMA NextInv ==
  ASSUME Inv, Verified(run), Next
  PROVE  Inv'
BY PlainActions, PushConstInv, MoreValues, NoValueActions, ScopeActions, JumpActions,
   MatchValueActions, TryPatternInv, PatternToBoolInv, TrapInv, CallActions, ReturnInv
   DEF Next

LEMMA StepsSame ==
  ASSUME NEW r, NEW n, Value(r, n) \/ NoValue(r, n)
  PROVE  run' = run
BY DEF Value, NoValue, Effect, Raise, Abort, SameSlots

LEMMA SameRun ==
  ASSUME [Next]_vars
  PROVE  run' = run
<1>1. ASSUME PushUnit \/ PushConst \/ PushInt \/ PushFunc \/ HostMember
             \/ MakeArray \/ MakeRepeat \/ MakeStruct \/ MakeEnum \/ NewRef
             \/ Unary \/ Bin \/ Cast \/ Dup \/ Pop
      PROVE  run' = run
  BY <1>1, StepsSame DEF PushUnit, PushConst, PushInt, PushFunc, HostMember,
     MakeArray, MakeRepeat, MakeStruct, MakeEnum, NewRef, Unary, Bin, Cast, Dup, Pop
<1>2. ASSUME GetField \/ Deref \/ Index \/ Length \/ ArrayPush \/ ArrayPop \/ ArraySplice
             \/ FieldPlace \/ ValueFieldPlace \/ IndexPlace \/ DerefPlace
             \/ LoadMatchValue \/ PatternToBool
      PROVE  run' = run
  BY <1>2, StepsSame DEF GetField, Deref, Index, Length, ArrayPush, ArrayPop,
     ArraySplice,
     FieldPlace, ValueFieldPlace, IndexPlace, DerefPlace, LoadMatchValue, PatternToBool
<1>3. ASSUME MakeSome \/ Decl \/ Load \/ LocalInc \/ LocalPlace \/ LoadPlace \/ StorePlace
      PROVE  run' = run
  BY <1>3, StepsSame DEF MakeSome, Decl, Load, LocalInc, LocalPlace, LoadPlace,
     StorePlace
<1>4. ASSUME ScopeEnter \/ ScopeEnterBindings \/ ScopeExit \/ Unwind
             \/ NoBindingsHere \/ DropBindings \/ MergeBindings
      PROVE  run' = run
  BY <1>4 DEF ScopeEnter, ScopeEnterBindings, ScopeExit, Unwind,
     NoBindingsHere, DropBindings, MergeBindings, Control
<1>5. ASSUME JumpTo \/ JumpIfFalse \/ JumpIfFalseKeep \/ JumpIfTrueKeep \/ JumpIfNoMatch
      PROVE  run' = run
  BY <1>5 DEF JumpTo, JumpIfFalse, JumpIfFalseKeep, JumpIfTrueKeep, JumpIfNoMatch,
     Branch, Jump, Control
<1>6. ASSUME SaveMatchValue \/ ClearMatchValue \/ TryPattern \/ TrapNow \/ Return
      PROVE  run' = run
  BY <1>6 DEF SaveMatchValue, ClearMatchValue, SetMatchValue, TryPattern, TrapNow,
     Raise,
     Abort, Return, SameSlots
<1>7. ASSUME CallNamed \/ CallValue
      PROVE  run' = run
  <2>1. ASSUME NEW f, NEW args, NEW n, Call(f, args, n)
        PROVE  run' = run
    BY <2>1 DEF Call, Abort, SameSlots
  <2> QED
    BY <1>7, <2>1, StepsSame DEF CallNamed, CallValue, Raise, Abort, SameSlots
<1> QED
  BY <1>1, <1>2, <1>3, <1>4, <1>5, <1>6, <1>7 DEF Next, vars

-----------------------------------------------------------------------------
(* What the invariant says.                                                *)

\* The operands of a frame end here.
Height(k) == IF k = Len(frames) THEN Len(stack) ELSE frames[k + 1].base + 1

LEMMA FrameSound ==
  ASSUME Inv, Verified(run), NEW k \in 1 .. Len(frames)
  PROVE  /\ \E b, top : Sound(run, frames[k].f, FrameView(frames[k], Height(k), b, top))
         /\ FrameOK(frames[k])
<1>1. FrameOK(frames[k])
  BY DEF Inv, FramesOK
<1>2. \E b, top : FrameView(frames[k], Height(k), b, top) \in run.views[frames[k].f]
  <2>1. CASE k = Len(frames)
    <3>1. frames # <<>>
      BY <2>1, ShortSeq
    <3> QED
      BY <2>1, <3>1 DEF Inv, TopOK, Top, Height
  <2>2. CASE k # Len(frames)
    <3>1. frames # <<>>
      BY <2>2, ShortSeq
    <3>2. k \in 1 .. Len(frames) - 1
      BY <2>2, <3>1, TopFrame
    <3>3. CallerOK(k) /\ <<>> \in Quiet
      BY <3>2 DEF Inv, Quiet
    <3> QED
      BY <2>2, <3>3 DEF CallerOK, Height
  <2> QED
    BY <2>1, <2>2
<1> QED
  BY <1>1, <1>2 DEF Verified, FrameOK, code

LEMMA FramePromises ==
  ASSUME Inv, Verified(run), NEW k \in 1 .. Len(frames)
  PROVE  /\ frames[k].ip \in DOMAIN code[frames[k].f].code
         /\ Len(frames[k].scopes) = At_(frames[k]).d
         /\ Height(k) - frames[k].base = At_(frames[k]).h
         /\ Height(k) - frames[k].base \in Nat
         /\ \A i, j \in 1 .. Len(frames[k].scopes) :
              i # j => DOMAIN frames[k].scopes[i] \cap DOMAIN frames[k].scopes[j] = {}
<1>1. PICK b, top : Sound(run, frames[k].f, FrameView(frames[k], Height(k), b, top))
  BY FrameSound
<1>2. PICK a : a = FrameView(frames[k], Height(k), b, top)
  OBVIOUS
<1>3. /\ a.ip = frames[k].ip /\ a.names = Shape(frames[k].scopes)
      /\ a.h = Height(k) - frames[k].base
  BY <1>2 DEF FrameView, View
<1>4. IsSeq(frames[k].scopes)
  BY FrameSound DEF FrameOK
<1>5. /\ Len(a.names) = Len(frames[k].scopes)
      /\ \A i \in 1 .. Len(frames[k].scopes) : a.names[i] = DOMAIN frames[k].scopes[i]
  BY <1>3, <1>4, ShapeSeq
<1>6. At_(frames[k]) = run.code[frames[k].f].code[a.ip]
  BY <1>3 DEF At_, code
<1>7. /\ a.ip \in DOMAIN run.code[frames[k].f].code
      /\ Len(a.names) = At_(frames[k]).d /\ a.h = At_(frames[k]).h /\ a.h \in Nat
      /\ \A i, j \in 1 .. Len(a.names) : i # j => a.names[i] \cap a.names[j] = {}
  BY <1>1, <1>2, <1>6 DEF Sound
<1> QED
  BY <1>3, <1>5, <1>7 DEF code

LEMMA InvTypes ==
  ASSUME Inv, Verified(run)
  PROVE  TypeOK
<1>1. DOMAIN frames = 1 .. Len(frames) /\ Len(frames) \in Nat /\ Len(stack) \in Nat
  <2>1. PICK S, T : frames \in Seq(S) /\ stack \in Seq(T)
    BY DEF Inv, FramesOK, IsSeq
  <2> QED
    BY <2>1
<1>2. ASSUME NEW k \in 1 .. Len(frames)
      PROVE  /\ frames[k].f \in DOMAIN code
             /\ frames[k].ip \in DOMAIN code[frames[k].f].code
             /\ frames[k].base \in 0 .. Len(stack)
  <2>1. frames[k].f \in DOMAIN code /\ frames[k].base \in Nat
    BY FrameSound DEF FrameOK
  <2>2. PICK n : n = Len(frames)
    OBVIOUS
  <2>3. n \in 1 .. n
    BY <1>1, <2>2
  <2>4. frames[n].base \in Nat /\ frames[k].base <= frames[n].base
    BY <1>1, <2>2, <2>3 DEF Inv, FramesOK, FrameOK
  <2>5. Height(n) - frames[n].base \in Nat /\ Height(n) = Len(stack)
    BY <2>2, <2>3, FramePromises DEF Height
  <2> QED
    BY <1>1, <2>1, <2>4, <2>5, FramePromises
<1>3. Len(pending_bind) <= 1
  <2>1. Len(pending_bind) \in {0, 1}
    BY ShortSeq, Zenon DEF Inv, PendingOK
  <2> QED
    BY <2>1
<1>4. StatusOK /\ HostOK
  BY DEF Inv
<1> QED
  BY <1>1, <1>2, <1>3, <1>4 DEF TypeOK, StatusOK, HostOK

LEMMA InvDepths ==
  ASSUME Inv, Verified(run)
  PROVE  DepthsAsCompiled
<1>1. DOMAIN frames = 1 .. Len(frames) /\ Len(frames) \in Nat /\ Len(stack) \in Nat
  <2>1. PICK S, T : frames \in Seq(S) /\ stack \in Seq(T)
    BY DEF Inv, FramesOK, IsSeq
  <2> QED
    BY <2>1
<1>2. ASSUME NEW k \in 1 .. Len(frames)
      PROVE  /\ Len(frames[k].scopes) = At_(frames[k]).d
             /\ Height(k) = frames[k].base + At_(frames[k]).h
  <2>1. Len(frames[k].scopes) = At_(frames[k]).d
        /\ Height(k) - frames[k].base = At_(frames[k]).h
    BY FramePromises
  <2>2. frames[k].base \in Nat
    BY FrameSound DEF FrameOK
  <2>3. Height(k) \in Nat
    <3>1. CASE k = Len(frames)
      BY <1>1, <3>1 DEF Height
    <3>2. CASE k # Len(frames)
      <4>1. k + 1 \in 1 .. Len(frames)
        <5>1. PICK n : n = Len(frames)
          OBVIOUS
        <5>2. n \in Nat /\ k \in 1 .. n /\ k # n
          BY <1>1, <3>2, <5>1
        <5> QED
          BY <5>1, <5>2
      <4>2. \A i \in 1 .. Len(frames) : frames[i].base \in Nat
        BY FrameSound DEF FrameOK
      <4> QED
        BY <3>2, <4>1, <4>2 DEF Height
    <3> QED
      BY <3>1, <3>2
  <2> QED
    BY <2>1, <2>2, <2>3
<1> QED
  BY <1>1, <1>2 DEF DepthsAsCompiled, Height

LEMMA InvNoShadow ==
  ASSUME Inv, Verified(run)
  PROVE  NoShadow
<1>1. DOMAIN frames = 1 .. Len(frames)
  <2>1. PICK S : frames \in Seq(S)
    BY DEF Inv, FramesOK, IsSeq
  <2> QED
    BY <2>1
<1>2. ASSUME NEW k \in 1 .. Len(frames)
      PROVE  DOMAIN frames[k].scopes = 1 .. Len(frames[k].scopes)
  <2>1. PICK S : frames[k].scopes \in Seq(S)
    BY FrameSound DEF FrameOK, IsSeq
  <2> QED
    BY <2>1
<1> QED
  BY <1>1, <1>2, FramePromises DEF NoShadow

\* The innermost scope that binds a name exists if one does.
LEMMA GreatestIn ==
  ASSUME NEW n \in Nat, NEW T, T \subseteq 1 .. n, T # {}
  PROVE  \E i \in T : \A j \in T : j <= i
<1>1. PICK D : D = {n - i : i \in T}
  OBVIOUS
<1>2. D \subseteq Nat /\ D # {}
  <2>1. \A i \in T : n - i \in Nat
    OBVIOUS
  <2> QED
    BY <1>1, <2>1
<1>3. PICK R : R = {ss \in Nat \X Nat : ss[1] < ss[2]}
  OBVIOUS
<1>4. IsWellFoundedOn(R, Nat)
  BY <1>3, NatLessThanWellFounded, Zenon DEF OpToRel
<1>5. PICK d \in D : \A e \in D : ~ (<<e, d>> \in R)
  BY <1>2, <1>4, WFMin
<1>6. \A e \in D : ~ (e < d)
  BY <1>2, <1>3, <1>5
<1>7. PICK i \in T : d = n - i
  BY <1>1
<1>8. ASSUME NEW j \in T PROVE j <= i
  <2>1. n - j \in D
    BY <1>1
  <2> QED
    BY <1>6, <1>7, <2>1
<1> QED
  BY <1>8

LEMMA OwnerFound ==
  ASSUME NEW s, IsSeq(s), NEW x, NEW i \in 1 .. Len(s), x \in DOMAIN s[i]
  PROVE  Owner(x, s) # 0
<1>1. PICK n : n = Len(s)
  OBVIOUS
<1>2. n \in Nat /\ DOMAIN s = 1 .. n
  <2>1. PICK S : s \in Seq(S)
    BY DEF IsSeq
  <2> QED
    BY <1>1, <2>1
<1>3. PICK T : T = {j \in DOMAIN s : x \in DOMAIN s[j]}
  OBVIOUS
<1>4. T \subseteq 1 .. n /\ T # {}
  BY <1>1, <1>2, <1>3
<1>5. \E k \in T : \A j \in T : j <= k
  BY <1>2, <1>4, GreatestIn
<1>6. Owner(x, s) = CHOOSE k \in T : \A j \in T : j <= k
  BY <1>3, <1>4 DEF Owner
<1>7. Owner(x, s) \in T
  BY <1>5, <1>6
<1> QED
  BY <1>4, <1>7

LEMMA InvRunning ==
  ASSUME Inv, Verified(run), IsRunning
  PROVE  NamesBound /\ NoStrayBindings /\ FollowsGraph /\ UnreachableNeverRuns
         /\ FunctionsReturn
<1>1. frames # <<>>
  BY DEF Inv, StatusOK
<1>2. PICK a, t : Here(a, t)
  BY <1>1, Where
<1>3. /\ a.ip = Top.ip /\ a.names = Shape(Top.scopes) /\ a.last = Top.last
      /\ a.bind = BindOf(pending_bind) /\ Len(a.names) = Len(Top.scopes)
  BY <1>1, <1>2, HereFacts
<1>4. Ins = run.code[Top.f].code[a.ip]
  BY <1>3 DEF Ins, code
<1>5. /\ Ins.op \in Local => \E i \in 1 .. Len(a.names) : Ins.arg \in a.names[i]
      /\ Ins.mark # <<>> =>
           /\ a.bind \in Quiet /\ <<a.last, Ins.mark>> \in run.graph[Top.f].flow
           /\ Ins.mark[1] \notin run.graph[Top.f].dead
      /\ Ins.mark = EndMark => code[Top.f].ret = "unit"
  BY <1>2, <1>4 DEF Here, Sound, code
<1>6. NamesBound
  <2> SUFFICES ASSUME Ins.op \in Local PROVE Owner(Ins.arg, Top.scopes) # 0
    BY DEF NamesBound
  <2>1. IsSeq(Top.scopes)
    BY <1>1, TopFrame DEF FrameOK
  <2>2. PICK i \in 1 .. Len(Top.scopes) : Ins.arg \in a.names[i]
    BY <1>3, <1>5
  <2>3. Ins.arg \in DOMAIN Top.scopes[i]
    BY <1>3, <2>1, <2>2, ShapeSeq
  <2> QED
    BY <2>1, <2>3, OwnerFound
<1>7. NoStrayBindings
  <2> SUFFICES ASSUME Ins.mark # <<>>, pending_bind # <<>>
               PROVE  pending_bind[1] = NoBindings
    BY DEF NoStrayBindings
  <2>1. PICK b : pending_bind = <<b>> /\ b = [x \in DOMAIN b |-> b[x]]
    BY DEF Inv, PendingOK
  <2>2. <<DOMAIN b>> \in Quiet
    BY <1>3, <1>5, <2>1 DEF BindOf
  <2>3. DOMAIN b = {}
    BY <2>2 DEF Quiet
  <2>4. b = NoBindings
    BY <2>1, <2>3 DEF NoBindings
  <2> QED
    BY <2>1, <2>4
<1> QED
  BY <1>3, <1>5, <1>6, <1>7 DEF FollowsGraph, UnreachableNeverRuns, FunctionsReturn, graph

LEMMA InvPromises ==
  ASSUME Inv, Verified(run)
  PROVE  /\ TypeOK /\ DepthsAsCompiled /\ NoShadow
         /\ NamesBound /\ NoStrayBindings /\ FollowsGraph /\ UnreachableNeverRuns
         /\ FunctionsReturn
BY InvTypes, InvDepths, InvNoShadow, InvRunning
   DEF NamesBound, NoStrayBindings, FollowsGraph, UnreachableNeverRuns, FunctionsReturn

-----------------------------------------------------------------------------
(* The promises.                                                           *)

LEMMA InvStutter ==
  ASSUME Inv, UNCHANGED vars
  PROVE  Inv'
<1>1. run' = run /\ code' = code /\ input' = input /\ Top' = Top /\ Operand(1)' = Operand(1)
  BY DEF vars, code, input, Top, Operand
<1>2. StatusOK' /\ PendingOK' /\ HostOK' /\ FramesOK'
  BY <1>1 DEF vars, Inv, StatusOK, IsRunning, PendingOK, HostOK, FramesOK, FrameOK
<1>3. frames # <<>> => TopOK'
  BY <1>1 DEF vars, Inv, TopOK, Tells
<1>4. \A k \in 1 .. Len(frames) - 1 : CallerOK(k)'
  BY <1>1 DEF vars, Inv, CallerOK
<1> QED
  BY <1>2, <1>3, <1>4 DEF vars, Inv

\* Code that passes the check keeps its promises as long as it runs.
Safe == Inv /\ Verified(run)

\* The invariant holds from the start, and every step keeps it (the instructions
\* of bytecode.py, BCVM.loop): the simulation of the machine by the views.
THEOREM InvariantHolds == Spec /\ CodeVerified => []Safe
<1>1. Init /\ CodeVerified => Safe
  <2> SUFFICES ASSUME Init, CodeVerified PROVE Safe
    OBVIOUS
  <2>1. Verified(run)
    BY DEF Init, CodeVerified
  <2> QED
    BY <2>1, InitInv DEF Safe
<1>2. Safe /\ [Next]_vars => Safe'
  <2> SUFFICES ASSUME Safe, [Next]_vars PROVE Safe'
    OBVIOUS
  <2>1. run' = run
    BY SameRun
  <2>2. CASE Next
    BY <2>1, <2>2, NextInv DEF Safe
  <2>3. CASE UNCHANGED vars
    BY <2>1, <2>3, InvStutter DEF Safe
  <2> QED
    BY <2>2, <2>3
<1> QED
  BY <1>1, <1>2, PTL DEF Spec

\* The machine stays in its states: a frame stands at an instruction of its
\* function, above its share of the stack, and the output is within its bound
\* (bytecode.py, BCVM.call and BCVM.loop).
THEOREM TypeOKHolds == Spec /\ CodeVerified => []TypeOK
<1>1. Safe => TypeOK
  BY InvPromises DEF Safe
<1> QED
  BY <1>1, InvariantHolds, PTL

\* However control came to an instruction of any compiled program, its frame has
\* the scopes and operands the compiler counted there: no break, continue, return
\* or failed match leaves one behind (bytecode.py,
\* BCCompiler.emit_unwind).
THEOREM DepthsAsCompiledHolds == Spec /\ CodeVerified => []DepthsAsCompiled
<1>1. Safe => DepthsAsCompiled
  BY InvPromises DEF Safe
<1> QED
  BY <1>1, InvariantHolds, PTL

\* A LOAD, LOCAL_PLACE or LOCAL_INC_U64 finds its name bound, in every frame and
\* after every jump: the "unknown local" of bytecode.py, BCVM.lookup and
\* BCVM.local_place, is never raised.
THEOREM NamesBoundHolds == Spec /\ CodeVerified => []NamesBound
<1>1. Safe => NamesBound
  BY InvPromises DEF Safe
<1> QED
  BY <1>1, InvariantHolds, PTL

\* No name is bound twice in the scopes of a call, whichever bindings a pattern
\* left for the scope that takes them (bytecode.py, SCOPE_ENTER_BINDINGS
\* and MERGE_BINDINGS of BCVM.loop).
THEOREM NoShadowHolds == Spec /\ CodeVerified => []NoShadow
<1>1. Safe => NoShadow
  BY InvPromises DEF Safe
<1> QED
  BY <1>1, InvariantHolds, PTL

\* Bindings that a pattern found are taken or dropped before the next statement
\* starts, on every path (bytecode.py, BCVM.pending_bind).
THEOREM NoStrayBindingsHolds == Spec /\ CodeVerified => []NoStrayBindings
<1>1. Safe => NoStrayBindings
  BY InvPromises DEF Safe
<1> QED
  BY <1>1, InvariantHolds, PTL

\* A run goes from statement to statement only along the edges of the control-flow
\* graph that the analysis built from the source (analysis_cfg.py, CFGBuilder, against
\* bytecode.py).
THEOREM FollowsGraphHolds == Spec /\ CodeVerified => []FollowsGraph
<1>1. Safe => FollowsGraph
  BY InvPromises DEF Safe
<1> QED
  BY <1>1, InvariantHolds, PTL

\* A statement the analysis reports as unreachable never starts, in any run on any
\* input (analysis_cfg.py, CFGBuilder.connect, against bytecode.py).
THEOREM UnreachableNeverRunsHolds == Spec /\ CodeVerified => []UnreachableNeverRuns
<1>1. Safe => UnreachableNeverRuns
  BY InvPromises DEF Safe
<1> QED
  BY <1>1, InvariantHolds, PTL

\* A function with a result never runs off the end of its body, where
\* BCCompiler.compile_fn emits a return of unit for every function: what
\* Checker.block_returns concludes from the source holds of the code, on all inputs.
THEOREM FunctionsReturnHolds == Spec /\ CodeVerified => []FunctionsReturn
<1>1. Safe => FunctionsReturn
  BY InvPromises DEF Safe
<1> QED
  BY <1>1, InvariantHolds, PTL

=============================================================================
