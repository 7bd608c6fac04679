---------------------------- MODULE VMHeap_proofs ----------------------------
(***************************************************************************)
(* Proofs about VMHeap: the VM's state keeps its shape, no pointer         *)
(* dangles, every usable place denotes an existing cell, and the embedding *)
(* boundary leaves a clean VM, for any heap, any code and any bounds.      *)
(***************************************************************************)
EXTENDS VMHeap, SequenceTheorems, FiniteSetTheorems, TLAPS

-----------------------------------------------------------------------------
(* The inductive invariant, its parts stated of any heap h.                *)

\* A heap is closed under its own pointers, and a reference has its cell.
HeapOK(h) ==
  /\ DOMAIN h \subseteq Obj
  /\ h \in [DOMAIN h -> Object(DOMAIN h)]
  /\ \A o \in DOMAIN h : h[o].kind = "REF" => 1 \in DOMAIN h[o].items

\* Instructions only let a heap grow; structs and references keep their cells.
Keeps(h, g) ==
  \A o \in DOMAIN h :
    /\ o \in DOMAIN g
    /\ g[o].kind = h[o].kind
    /\ h[o].kind # "ARRAY" => DOMAIN g[o].items = DOMAIN h[o].items

\* Scopes are nested, and so are the frames' parts of the operand stack; a
\* local that is not active, which the collector skips, holds no object.
ScopesOK(fr) ==
  /\ \A k \in DOMAIN fr.scopes : fr.scopes[k] <= Len(fr.decl)
  /\ \A j, k \in DOMAIN fr.scopes : j <= k => fr.scopes[j] <= fr.scopes[k]
  /\ \A s \in Slot \ fr.active : fr.loc[s] \in Imm
BasesOK(frs, n) ==
  /\ \A k \in DOMAIN frs : frs[k].base <= n
  /\ \A j, k \in DOMAIN frs : j <= k => frs[j].base <= frs[k].base
FramesOK(h, frs) ==
  /\ frs \in Seq(Frame(DOMAIN h))
  /\ \A k \in DOMAIN frs : ScopesOK(frs[k])

\* A place on the stack at i points to a struct's or a reference's cell, to
\* an array, or to a local of the frame whose part of the stack i is in.
LocalOK(frs, i, p) ==
  /\ p.fr \in DOMAIN frs /\ p.ix \in frs[p.fr].active
  /\ frs[p.fr].base < i
  /\ p.fr < Len(frs) => i <= frs[p.fr + 1].base
PlaceOK(h, frs, i, e) ==
  e.tag = "P" =>
    /\ e.own # NoObj => /\ h[e.own].kind \in {"STRUCT", "REF"}
                        /\ e.ix \in DOMAIN h[e.own].items
    /\ e.arr # NoObj => h[e.arr].kind = "ARRAY"
    /\ e.root # NoObj => e.arr # NoObj /\ e.own # NoObj
    /\ e.own = NoObj /\ e.arr = NoObj => LocalOK(frs, i, e)
StackOK(h, frs, st) ==
  /\ st \in Seq(Entry(DOMAIN h))
  /\ \A i \in DOMAIN st : PlaceOK(h, frs, i, st[i])

RestOK(h, pend, m) ==
  /\ pend \in Seq(Binding(DOMAIN h))
  /\ m \in Val(DOMAIN h) \cup {NoMatch}

Clean(frs, st, pend, m) ==
  frs = <<>> /\ st = <<>> /\ pend = <<>> /\ m = NoMatch

ModeOK ==
  /\ mode \in {"idle", "exec", "gc", "closed"}
  /\ armed \in BOOLEAN
  /\ threshold \in Nat
  /\ mode \in {"exec", "gc"} => frames # <<>>
  /\ mode \in {"idle", "closed"} => Clean(frames, stack, pending, match)

IInv ==
  /\ ModeOK
  /\ HeapOK(heap)
  /\ FramesOK(heap, frames)
  /\ BasesOK(frames, Len(stack))
  /\ StackOK(heap, frames, stack)
  /\ RestOK(heap, pending, match)

-----------------------------------------------------------------------------
(* Growing a heap, copying.                                                *)

\* A function on 1 .. n is a sequence of length n.
LEMMA FunIsSeq ==
  ASSUME NEW S, NEW n \in Nat, NEW s \in [1 .. n -> S]
  PROVE  s \in Seq(S) /\ Len(s) = n
OBVIOUS

\* What is typed over a set of addresses is typed over a larger one.
LEMMA Wider ==
  ASSUME NEW H, NEW K, H \subseteq K
  PROVE  /\ Val(H) \subseteq Val(K)
         /\ Entry(H) \subseteq Entry(K)
         /\ Frame(H) \subseteq Frame(K)
         /\ Binding(H) \subseteq Binding(K)
         /\ Seq(Val(H)) \subseteq Seq(Val(K))
         /\ Seq(Entry(H)) \subseteq Seq(Entry(K))
         /\ Seq(Frame(H)) \subseteq Seq(Frame(K))
         /\ Seq(Binding(H)) \subseteq Seq(Binding(K))
         /\ Object(H) \subseteq Object(K)
<1>1. Val(H) \subseteq Val(K)
  BY DEF Val
<1>2. Entry(H) \subseteq Entry(K)
  BY <1>1 DEF Entry, ValEntry, PlaceEntry
<1>3. Frame(H) \subseteq Frame(K)
  BY <1>1 DEF Frame
<1>4. Binding(H) \subseteq Binding(K)
  BY <1>1 DEF Binding
<1>5. Seq(Val(H)) \subseteq Seq(Val(K))
  BY <1>1, SeqMonotonic
<1>6. Object(H) \subseteq Object(K)
  BY <1>5 DEF Object
<1> QED
  BY <1>1, <1>2, <1>3, <1>4, <1>5, <1>6, SeqMonotonic

\* value_copy gives fresh objects: the old ones stay as they are, the copies
\* hold live or fresh objects, and so does every copied value.
LEMMA Copying ==
  ASSUME HeapOK(heap), NEW S, S \subseteq Val(Live), NEW xs \in Seq(S),
         NEW f \in Copies(xs)
  PROVE  /\ Range(f) \subseteq Obj \ Live
         /\ DOMAIN WithCopies(f) = Live \cup Range(f)
         /\ \A o \in Live : WithCopies(f)[o] = heap[o]
         /\ HeapOK(WithCopies(f))
         /\ Keeps(heap, WithCopies(f))
         /\ \A i \in DOMAIN xs : \A v \in Val(Live) :
              CopyVal(f, i, v) \in Val(DOMAIN WithCopies(f))
         /\ CopyVals(f, xs) \in Seq(Val(DOMAIN WithCopies(f)))
         /\ Len(CopyVals(f, xs)) = Len(xs)
<1> DEFINE H == Live \cup Range(f)
<1>1. f \in [CopyDom(xs) -> Obj \ Live]
  BY DEF Copies
<1>2. Range(f) \subseteq Obj \ Live
  BY <1>1 DEF Range
<1>3. /\ DOMAIN CopyHeap(f) = Range(f)
      /\ DOMAIN WithCopies(f) = H
  BY DEF WithCopies, CopyHeap, Live
<1>4. \A o \in Live : WithCopies(f)[o] = heap[o]
  BY DEF WithCopies, Live
<1>5. \A n \in Range(f) : WithCopies(f)[n] = CopyHeap(f)[n]
  BY <1>2, <1>3 DEF WithCopies, Live
<1>6. \A i : \A v \in Val(Live) : CopyVal(f, i, v) \in Val(H)
  BY <1>1 DEF CopyVal, Val, Range
<1>7. \A n \in Range(f) : /\ CopyHeap(f)[n] \in Object(H)
                          /\ CopyHeap(f)[n].kind # "REF"
  <2> SUFFICES ASSUME NEW n \in Range(f)
               PROVE  CopyHeap(f)[n] \in Object(H) /\ CopyHeap(f)[n].kind # "REF"
    OBVIOUS
  <2> DEFINE d == CHOOSE d \in DOMAIN f : f[d] = n
  <2>1. d \in DOMAIN f
    BY DEF Range
  <2>2. /\ d[2] \in Live /\ heap[d[2]].kind \in {"STRUCT", "ENUM"}
    <3>1. d \in CopyDom(xs)
      BY <1>1, <2>1
    <3>2. PICK i \in DOMAIN xs : d \in {i} \X Tree(xs[i])
      BY <3>1, Zenon DEF CopyDom
    <3>3. d[2] \in Tree(xs[i])
      BY <3>2
    <3>4. d[2] \in OfKind({"STRUCT", "ENUM"})
      BY <3>3, Zenon DEF Tree, Closure
    <3> QED BY <3>4, Zenon DEF OfKind
  <2>3. heap[d[2]] \in Object(Live)
    BY <2>2 DEF HeapOK, Live
  <2>4. Items(d[2]) \in Seq(Val(Live))
    BY <2>3 DEF Items, Object
  <2> DEFINE its == [k \in DOMAIN Items(d[2]) |-> CopyVal(f, d[1], Items(d[2])[k])]
  <2>5. its \in Seq(Val(H))
    <3>1. \A k \in 1 .. Len(Items(d[2])) : Items(d[2])[k] \in Val(Live)
      BY <2>4, ElementOfSeq
    <3>2. DOMAIN Items(d[2]) = 1 .. Len(Items(d[2])) /\ Len(Items(d[2])) \in Nat
      BY <2>4, LenProperties
    <3>3. \A k \in 1 .. Len(Items(d[2])) :
            CopyVal(f, d[1], Items(d[2])[k]) \in Val(H)
      BY <3>1, <1>6
    <3> QED
      BY <3>2, <3>3, FunIsSeq
  <2>6. CopyHeap(f)[n] = [kind |-> heap[d[2]].kind, items |-> its]
    BY DEF CopyHeap
  <2> QED
    BY <2>2, <2>3, <2>5, <2>6 DEF Object
<1>8. WithCopies(f) \in [H -> Object(H)]
  <2>1. \A o \in Live : WithCopies(f)[o] \in Object(H)
    BY <1>4, Wider DEF HeapOK, Live
  <2>2. \A o \in H : WithCopies(f)[o] \in Object(H)
    BY <1>5, <1>7, <2>1
  <2> QED
    BY <2>2, <1>3 DEF WithCopies
<1>9. HeapOK(WithCopies(f))
  BY <1>2, <1>3, <1>4, <1>5, <1>7, <1>8 DEF HeapOK, Live
<1>10. Keeps(heap, WithCopies(f))
  BY <1>3, <1>4 DEF Keeps, Live
<1>11. /\ CopyVals(f, xs) \in Seq(Val(H))
       /\ Len(CopyVals(f, xs)) = Len(xs)
  <2>1. \A i \in 1 .. Len(xs) : xs[i] \in Val(Live)
    BY ElementOfSeq
  <2>2. DOMAIN xs = 1 .. Len(xs) /\ Len(xs) \in Nat
    BY LenProperties
  <2>3. \A i \in 1 .. Len(xs) : CopyVal(f, i, xs[i]) \in Val(H)
    BY <2>1, <1>6
  <2>4. CopyVals(f, xs) = [i \in 1 .. Len(xs) |-> CopyVal(f, i, xs[i])]
    BY <2>2 DEF CopyVals
  <2>5. CopyVals(f, xs) \in Seq(Val(H))
    BY <2>2, <2>3, <2>4, FunIsSeq
  <2>6. DOMAIN CopyVals(f, xs) = 1 .. Len(xs)
    BY <2>4
  <2> QED
    BY <2>2, <2>5, <2>6, LenProperties
<1> QED
  BY <1>2, <1>3, <1>4, <1>6, <1>9, <1>10, <1>11

\* One more object, whose items are over the grown heap.
LEMMA Adding ==
  ASSUME NEW h, HeapOK(h), NEW o \in Obj \ DOMAIN h, NEW kind \in AllKinds,
         NEW items \in Seq(Val(DOMAIN h)), kind = "REF" => 1 \in DOMAIN items
  PROVE  LET g == Add(h, o, [kind |-> kind, items |-> items])
         IN  HeapOK(g) /\ Keeps(h, g) /\ DOMAIN g = DOMAIN h \cup {o}
<1> DEFINE g == Add(h, o, [kind |-> kind, items |-> items])
<1> DEFINE H == DOMAIN h \cup {o}
<1>1. DOMAIN g = H
  BY DEF Add
<1>2. /\ \A p \in DOMAIN h : g[p] = h[p]
      /\ g[o] = [kind |-> kind, items |-> items]
  BY DEF Add
<1>3. \A p \in DOMAIN h : g[p] \in Object(H)
  BY <1>2, Wider DEF HeapOK
<1>4. g[o] \in Object(H)
  <2>1. items \in Seq(Val(H))
    BY Wider
  <2> QED
    BY <1>2, <2>1 DEF Object
<1>5. g \in [H -> Object(H)]
  BY <1>1, <1>3, <1>4 DEF Add
<1>6. HeapOK(g)
  <2>1. g[o].kind = "REF" => 1 \in DOMAIN g[o].items
    BY <1>2
  <2>2. \A p \in H : g[p].kind = "REF" => 1 \in DOMAIN g[p].items
    BY <1>2, <2>1 DEF HeapOK
  <2>3. H \subseteq Obj
    BY DEF HeapOK
  <2> HIDE DEF g
  <2> QED
    BY <1>1, <1>5, <2>2, <2>3 DEF HeapOK
<1>7. Keeps(h, g)
  BY <1>1, <1>2 DEF Keeps
<1> QED
  BY <1>1, <1>6, <1>7

\* An object gets other items: any number if it is an array, as many as it
\* had otherwise.
LEMMA Updating ==
  ASSUME NEW h, HeapOK(h), NEW o \in DOMAIN h, NEW items \in Seq(Val(DOMAIN h)),
         h[o].kind # "ARRAY" => DOMAIN items = DOMAIN h[o].items
  PROVE  LET g == [h EXCEPT ![o].items = items]
         IN  HeapOK(g) /\ Keeps(h, g) /\ DOMAIN g = DOMAIN h
<1> DEFINE g == [h EXCEPT ![o].items = items]
<1>1. DOMAIN g = DOMAIN h /\ h[o] \in Object(DOMAIN h)
  BY DEF HeapOK
<1>2. /\ g[o] = [h[o] EXCEPT !.items = items]
      /\ \A p \in DOMAIN h : p # o => g[p] = h[p]
  BY DEF HeapOK
<1>3. /\ g[o].kind = h[o].kind
      /\ g[o].items = items
      /\ g[o] \in Object(DOMAIN h)
  BY <1>1, <1>2 DEF Object
<1>4. g \in [DOMAIN h -> Object(DOMAIN h)]
  BY <1>1, <1>2, <1>3 DEF HeapOK
<1>5. HeapOK(g)
  <2>1. g[o].kind = "REF" => 1 \in DOMAIN g[o].items
    BY <1>3 DEF HeapOK
  <2>2. \A p \in DOMAIN h : g[p].kind = "REF" => 1 \in DOMAIN g[p].items
    BY <1>2, <2>1 DEF HeapOK
  <2>3. DOMAIN h \subseteq Obj
    BY DEF HeapOK
  <2> HIDE DEF g
  <2> QED
    BY <1>1, <1>4, <2>2, <2>3 DEF HeapOK
<1>6. Keeps(h, g)
  BY <1>1, <1>2, <1>3 DEF Keeps
<1> QED
  BY <1>1, <1>5, <1>6

\* What points into a heap still points into the grown heap.
LEMMA Growing ==
  ASSUME NEW h, NEW g, HeapOK(h), Keeps(h, g)
  PROVE  /\ DOMAIN h \subseteq DOMAIN g
         /\ \A frs : FramesOK(h, frs) => FramesOK(g, frs)
         /\ \A frs, st : StackOK(h, frs, st) => StackOK(g, frs, st)
         /\ \A pend, m : RestOK(h, pend, m) => RestOK(g, pend, m)
<1>1. DOMAIN h \subseteq DOMAIN g
  BY DEF Keeps
<1>2. ASSUME NEW frs, FramesOK(h, frs)
      PROVE  FramesOK(g, frs)
  BY <1>1, <1>2, Wider DEF FramesOK
<1>3. ASSUME NEW frs, NEW st, StackOK(h, frs, st)
      PROVE  StackOK(g, frs, st)
  <2>1. st \in Seq(Entry(DOMAIN g))
    BY <1>1, <1>3, Wider DEF StackOK
  <2>2. ASSUME NEW i \in DOMAIN st
        PROVE  PlaceOK(g, frs, i, st[i])
    <3>1. st[i] \in Entry(DOMAIN h) /\ PlaceOK(h, frs, i, st[i])
      BY <1>3, <2>2, ElementOfSeq, LenProperties DEF StackOK
    <3>2. CASE st[i].tag = "P"
      <4>1. st[i] \in PlaceEntry(DOMAIN h)
        BY <3>1, <3>2 DEF Entry, ValEntry
      <4>2. /\ st[i].own \in DOMAIN h \cup {NoObj}
            /\ st[i].arr \in DOMAIN h \cup {NoObj}
        BY <4>1 DEF PlaceEntry
      <4> QED
        BY <3>1, <3>2, <4>2 DEF PlaceOK, Keeps
    <3>3. CASE st[i].tag # "P"
      BY <3>3 DEF PlaceOK
    <3> QED
      BY <3>2, <3>3
  <2> QED
    BY <2>1, <2>2 DEF StackOK
<1>4. ASSUME NEW pend, NEW m, RestOK(h, pend, m)
      PROVE  RestOK(g, pend, m)
  BY <1>1, <1>4, Wider DEF RestOK
<1> QED
  BY <1>1, <1>2, <1>3, <1>4

\* Dropping operands, and pushing one.
LEMMA Cutting ==
  ASSUME NEW h, NEW frs, NEW st, StackOK(h, frs, st), NEW n \in 0 .. Len(st)
  PROVE  /\ StackOK(h, frs, SubSeq(st, 1, n))
         /\ Len(SubSeq(st, 1, n)) = n
<1>1. /\ st \in Seq(Entry(DOMAIN h))
      /\ Len(st) \in Nat /\ DOMAIN st = 1 .. Len(st)
      /\ \A i \in 1 .. Len(st) : st[i] \in Entry(DOMAIN h)
  BY ElementOfSeq, LenProperties DEF StackOK
<1> DEFINE cut == SubSeq(st, 1, n)
<1>2. /\ cut \in Seq(Entry(DOMAIN h)) /\ Len(cut) = n
      /\ \A i \in 1 .. n : cut[i] = st[i]
  BY <1>1, SubSeqProperties
<1>3. DOMAIN cut = 1 .. n
  BY <1>2, LenProperties
<1>4. \A i \in 1 .. n : i \in DOMAIN st
  BY <1>1
<1> QED
  BY <1>2, <1>3, <1>4 DEF StackOK

LEMMA Pushing ==
  ASSUME NEW h, NEW frs, NEW st, StackOK(h, frs, st), NEW e \in Entry(DOMAIN h),
         PlaceOK(h, frs, Len(st) + 1, e)
  PROVE  /\ StackOK(h, frs, Append(st, e))
         /\ Len(Append(st, e)) = Len(st) + 1
<1>1. /\ st \in Seq(Entry(DOMAIN h))
      /\ Len(st) \in Nat /\ DOMAIN st = 1 .. Len(st)
  BY LenProperties DEF StackOK
<1>2. /\ Append(st, e) \in Seq(Entry(DOMAIN h))
      /\ Len(Append(st, e)) = Len(st) + 1
      /\ \A i \in 1 .. Len(st) : Append(st, e)[i] = st[i]
      /\ Append(st, e)[Len(st) + 1] = e
  BY <1>1, AppendProperties
<1>3. DOMAIN Append(st, e) = 1 .. Len(st) + 1
  BY <1>1, <1>2, LenProperties
<1>4. \A i \in 1 .. Len(st) + 1 : i \in 1 .. Len(st) \/ i = Len(st) + 1
  BY <1>1
<1> QED
  BY <1>1, <1>2, <1>3, <1>4 DEF StackOK

-----------------------------------------------------------------------------
(* Steps of a frame that leave the frames as they are.                     *)

LEMMA Running ==
  ASSUME IInv, mode \in {"exec", "gc"}
  PROVE  /\ Len(stack) \in Nat /\ DOMAIN stack = 1 .. Len(stack)
         /\ \A i \in 1 .. Len(stack) : stack[i] \in Entry(Live)
         /\ Top \in Nat \ {0} /\ DOMAIN frames = 1 .. Top
         /\ \A k \in 1 .. Top : frames[k] \in Frame(Live) /\ ScopesOK(frames[k])
         /\ Cur \in Frame(Live)
         /\ Cur.base \in Nat /\ Cur.base <= Len(stack)
         /\ Live \subseteq Obj
<1>1. /\ Len(stack) \in Nat /\ DOMAIN stack = 1 .. Len(stack)
      /\ \A i \in 1 .. Len(stack) : stack[i] \in Entry(Live)
  BY LenProperties, ElementOfSeq DEF IInv, StackOK, Live
<1>2. frames \in Seq(Frame(Live)) /\ frames # <<>>
  BY DEF IInv, ModeOK, FramesOK, Live
<1>3. Top \in Nat \ {0} /\ DOMAIN frames = 1 .. Top
  BY <1>2, EmptySeq, LenProperties DEF Top
<1>4. \A k \in 1 .. Top : frames[k] \in Frame(Live) /\ ScopesOK(frames[k])
  BY <1>2, <1>3, ElementOfSeq DEF IInv, FramesOK, Top
<1>5. Cur \in Frame(Live) /\ Cur.base \in Nat /\ Cur.base <= Len(stack)
  BY <1>3, <1>4 DEF Cur, Frame, IInv, BasesOK
<1> QED
  BY <1>1, <1>3, <1>4, <1>5 DEF IInv, HeapOK, Live

\* n operands are n values over the live objects.
LEMMA Arguments ==
  ASSUME IInv, NEW n \in Nat, Operands(n)
  PROVE  /\ mode = "exec" /\ n <= Len(stack) - Cur.base
         /\ Args(n) \in Seq(Val(Live)) /\ Len(Args(n)) = n
         /\ \A i \in 1 .. n : Args(n)[i] \in Val(Live)
         /\ n >= 1 => Arg \in Val(Live)
<1>1. mode = "exec" /\ n <= Len(stack) - Cur.base
  BY Running DEF Operands
<1>2. \A i \in 1 .. n : stack[Len(stack) - n + i].v \in Val(Live)
  <2> SUFFICES ASSUME NEW i \in 1 .. n
               PROVE  stack[Len(stack) - n + i].v \in Val(Live)
    OBVIOUS
  <2>1. Len(stack) - n + i \in 1 .. Len(stack)
    BY <1>1, Running
  <2>2. stack[Len(stack) - n + i] \in Entry(Live)
    BY <1>1, <2>1, Running
  <2>3. stack[Len(stack) - n + i].tag = "V"
    BY DEF Operands
  <2> QED
    BY <2>2, <2>3 DEF Entry, ValEntry, PlaceEntry
<1>3. Args(n) \in [1 .. n -> Val(Live)]
  BY <1>2 DEF Args
<1>4. Args(n) \in Seq(Val(Live)) /\ Len(Args(n)) = n
  BY <1>3, FunIsSeq
<1>5. ASSUME n >= 1
      PROVE  Arg \in Val(Live)
  <2>1. Len(stack) - n + n = Len(stack)
    BY <1>1, Running
  <2> QED
    BY <1>2, <1>5, <2>1 DEF Arg
<1> QED
  BY <1>1, <1>3, <1>4, <1>5

\* A step that replaces what the frame has on the stack and grows the heap.
LEMMA RigidStep ==
  ASSUME IInv, mode = "exec",
         HeapOK(heap'), Keeps(heap, heap'),
         StackOK(heap', frames, stack'), Cur.base <= Len(stack'),
         RestOK(heap', pending', match'),
         Settle, UNCHANGED <<armed, threshold, frames>>
  PROVE  IInv'
<1>1. FramesOK(heap', frames')
  BY Growing DEF IInv
<1>2. /\ Len(stack') \in Nat
      /\ \A k \in DOMAIN frames : frames[k].base \in Nat /\ frames[k].base <= Cur.base
  <2>1. \A k \in DOMAIN frames : k <= Top /\ Top \in DOMAIN frames
    BY Running
  <2>2. \A k \in DOMAIN frames : frames[k].base <= Cur.base
    BY <2>1 DEF Cur, IInv, BasesOK
  <2>3. \A k \in DOMAIN frames : frames[k].base \in Nat
    BY Running DEF Frame
  <2> QED
    BY <2>2, <2>3, LenProperties DEF StackOK
<1>3. BasesOK(frames', Len(stack'))
  <2>1. \A k \in DOMAIN frames : frames[k].base <= Len(stack')
    BY <1>2, Running
  <2> QED
    BY <2>1 DEF IInv, BasesOK
<1>4. StackOK(heap', frames', stack')
  OBVIOUS
<1>5. ModeOK'
  BY DEF ModeOK, IInv, Settle
<1> QED
  BY <1>1, <1>3, <1>4, <1>5 DEF IInv

\* The usual form: n operands give way to the entry e.
LEMMA PushStep ==
  ASSUME IInv, mode = "exec", NEW n \in Nat, n <= Len(stack) - Cur.base,
         HeapOK(heap'), Keeps(heap, heap'),
         NEW e \in Entry(DOMAIN heap'),
         PlaceOK(heap', frames, Len(stack) - n + 1, e),
         Push(n, e), RestOK(heap', pending', match'),
         Settle, UNCHANGED <<armed, threshold, frames>>
  PROVE  IInv'
<1>1. StackOK(heap', frames, stack)
  BY Growing DEF IInv
<1>2. Len(stack) - n \in 0 .. Len(stack)
  BY Running
<1>3. StackOK(heap', frames, Rest(n)) /\ Len(Rest(n)) = Len(stack) - n
  BY <1>1, <1>2, Cutting DEF Rest
<1>4. StackOK(heap', frames, stack') /\ Len(stack') = Len(stack) - n + 1
  BY <1>3, Pushing DEF Push
<1>5. Cur.base <= Len(stack')
  BY <1>4, Running
<1> QED
  BY <1>4, <1>5, RigidStep

\* Or to a value.
LEMMA ReplaceStep ==
  ASSUME IInv, mode = "exec", NEW n \in Nat, n <= Len(stack) - Cur.base,
         HeapOK(heap'), Keeps(heap, heap'),
         NEW v \in Val(DOMAIN heap'),
         Replace(n, v), RestOK(heap', pending', match'),
         Settle, UNCHANGED <<armed, threshold, frames>>
  PROVE  IInv'
<1>1. V(v) \in Entry(DOMAIN heap') /\ V(v).tag = "V"
  BY DEF V, Entry, ValEntry
<1>2. PlaceOK(heap', frames, Len(stack) - n + 1, V(v))
  BY <1>1 DEF PlaceOK
<1> QED
  BY <1>1, <1>2, PushStep DEF Replace

\* The heap, the bindings and the match value when nothing was allocated.
LEMMA SameHeap ==
  ASSUME IInv, UNCHANGED heap
  PROVE  HeapOK(heap') /\ Keeps(heap, heap')
BY DEF IInv, Keeps

LEMMA SameRest ==
  ASSUME IInv, Keeps(heap, heap'), UNCHANGED <<pending, match>>
  PROVE  RestOK(heap', pending', match')
BY Growing DEF IInv

\* Instructions that push a copy of a value.
LEMMA CopyStep ==
  ASSUME IInv, mode = "exec", NEW n \in Nat, n <= Len(stack) - Cur.base,
         NEW v \in Val(Live), PushCopy(n, v)
  PROVE  IInv'
<1>1. PICK f \in Copies(<<v>>) :
        /\ heap' = WithCopies(f)
        /\ Replace(n, CopyVal(f, 1, v))
        /\ Settle /\ Rigid
  BY DEF PushCopy
<1>2. <<v>> \in Seq(Val(Live)) /\ DOMAIN <<v>> = {1}
  OBVIOUS
<1>3. /\ HeapOK(heap') /\ Keeps(heap, heap')
      /\ CopyVal(f, 1, v) \in Val(DOMAIN heap')
  BY <1>1, <1>2, Copying DEF IInv
<1> QED
  BY <1>1, <1>3, ReplaceStep, SameRest DEF Rigid

-----------------------------------------------------------------------------
(* Instructions on values.                                                 *)

LEMMA KeepsTransitive ==
  ASSUME NEW g, NEW h, NEW k, Keeps(g, h), Keeps(h, k)
  PROVE  Keeps(g, k)
BY DEF Keeps

LEMMA ItemsOK ==
  ASSUME IInv, NEW o \in Live
  PROVE  /\ Items(o) \in Seq(Val(Live))
         /\ Len(Items(o)) \in Nat /\ DOMAIN Items(o) = 1 .. Len(Items(o))
         /\ \A i \in DOMAIN Items(o) : Items(o)[i] \in Val(Live)
         /\ heap[o].kind \in AllKinds
         /\ heap[o].kind = "REF" => 1 \in DOMAIN Items(o)
<1>1. heap[o] \in Object(Live)
  BY DEF IInv, HeapOK, Live
<1>2. Items(o) \in Seq(Val(Live)) /\ heap[o].kind \in AllKinds
  BY <1>1 DEF Object, Items
<1>3. heap[o].kind = "REF" => 1 \in DOMAIN Items(o)
  BY DEF IInv, HeapOK, Live, Items
<1> QED
  BY <1>2, <1>3, LenProperties, ElementOfSeq

LEMMA ComputeStep ==
  ASSUME IInv, NEW n \in Nat, Compute(n)
  PROVE  IInv'
<1>1. PICK u \in Imm : Replace(n, u)
  BY DEF Compute
<1>2. u \in Val(DOMAIN heap')
  BY DEF Val
<1> QED
  BY <1>1, <1>2, Arguments, SameHeap, SameRest, ReplaceStep DEF Compute, Rigid

LEMMA PopStep ==
  ASSUME IInv, Pop
  PROVE  IInv'
<1>1. mode = "exec" /\ 1 <= Len(stack) - Cur.base
  BY Arguments DEF Pop
<1>2. Len(stack) - 1 \in 0 .. Len(stack)
  BY <1>1, Running
<1>3. StackOK(heap, frames, Rest(1)) /\ Len(Rest(1)) = Len(stack) - 1
  BY <1>2, Cutting DEF Rest, IInv
<1>4. Cur.base <= Len(stack')
  BY <1>1, <1>3, Running DEF Pop
<1> QED
  BY <1>1, <1>3, <1>4, SameHeap, SameRest, RigidStep DEF Pop, Rigid

LEMMA JumpStep ==
  ASSUME IInv, Jump
  PROVE  IInv'
<1>1. StackOK(heap, frames, stack) /\ Cur.base <= Len(stack)
  BY Running DEF Jump, IInv
<1> QED
  BY <1>1, SameHeap, SameRest, RigidStep DEF Jump, Rigid

\* A new object whose items are copies of the values xs, for n operands.
LEMMA NewStep ==
  ASSUME IInv, mode = "exec", NEW n \in Nat, n <= Len(stack) - Cur.base,
         NEW xs \in Seq(Val(Live)), NEW f \in Copies(xs), NEW o \in Fresh(f),
         NEW kind \in AllKinds, kind = "REF" => Len(xs) = 1,
         heap' = Add(WithCopies(f), o, [kind |-> kind, items |-> CopyVals(f, xs)]),
         Replace(n, o), Settle, Rigid
  PROVE  IInv'
<1> DEFINE h == WithCopies(f)
<1>1. /\ HeapOK(h) /\ Keeps(heap, h)
      /\ CopyVals(f, xs) \in Seq(Val(DOMAIN h))
      /\ Len(CopyVals(f, xs)) = Len(xs)
      /\ DOMAIN h = Live \cup Range(f)
  BY Copying DEF IInv
<1>2. o \in Obj \ DOMAIN h
  BY <1>1 DEF Fresh
<1>3. kind = "REF" => 1 \in DOMAIN CopyVals(f, xs)
  BY <1>1, LenProperties
<1>4. /\ HeapOK(heap') /\ Keeps(h, heap')
      /\ DOMAIN heap' = DOMAIN h \cup {o}
  <2> HIDE DEF h
  <2> QED
    BY <1>1, <1>2, <1>3, Adding DEF h
<1>5. Keeps(heap, heap')
  BY <1>1, <1>4, KeepsTransitive
<1>6. o \in Val(DOMAIN heap')
  BY <1>4 DEF Val
<1> QED
  BY <1>4, <1>5, <1>6, SameRest, ReplaceStep DEF Rigid

LEMMA MakeStep ==
  ASSUME IInv, NEW kind \in Kinds, NEW n \in Nat, Make(kind, n)
  PROVE  IInv'
<1>1. PICK f \in Copies(Args(n)) : \E o \in Fresh(f) :
        /\ heap' = Add(WithCopies(f), o, [kind |-> kind, items |-> CopyVals(f, Args(n))])
        /\ Replace(n, o)
  BY DEF Make
<1>2. PICK o \in Fresh(f) :
        /\ heap' = Add(WithCopies(f), o, [kind |-> kind, items |-> CopyVals(f, Args(n))])
        /\ Replace(n, o)
  BY <1>1
<1>3. kind \in AllKinds
  BY NamesAssumption
<1>4. kind = "REF" => Len(Args(n)) = 1
  BY Arguments DEF Make
<1> QED
  BY <1>2, <1>3, <1>4, Arguments, NewStep DEF Make

LEMMA MakeRepeatStep ==
  ASSUME IInv, NEW n \in Nat, MakeRepeat(n)
  PROVE  IInv'
<1> DEFINE xs == [i \in 1 .. n |-> Args(2)[1]]
<1>1. PICK f \in Copies(xs) : \E o \in Fresh(f) :
        /\ heap' = Add(WithCopies(f), o, [kind |-> "ARRAY", items |-> CopyVals(f, xs)])
        /\ Replace(2, o)
  BY DEF MakeRepeat
<1>2. PICK o \in Fresh(f) :
        /\ heap' = Add(WithCopies(f), o, [kind |-> "ARRAY", items |-> CopyVals(f, xs)])
        /\ Replace(2, o)
  BY <1>1
<1>3. mode = "exec" /\ 2 <= Len(stack) - Cur.base /\ Args(2)[1] \in Val(Live)
  BY Arguments DEF MakeRepeat
<1>4. xs \in Seq(Val(Live))
  BY <1>3, FunIsSeq
<1>5. Settle /\ Rigid /\ "ARRAY" \in AllKinds
  BY DEF MakeRepeat, AllKinds
<1> HIDE DEF xs
<1> QED
  BY <1>2, <1>3, <1>4, <1>5, NewStep

LEMMA BytesOK ==
  ASSUME NEW n \in Nat, NEW H
  PROVE  [i \in 1 .. n |-> Unit] \in Seq(Val(H))
<1>1. [i \in 1 .. n |-> Unit] \in [1 .. n -> Val(H)]
  BY NamesAssumption DEF Val
<1> QED
  BY <1>1, FunIsSeq

LEMMA MakeBytesStep ==
  ASSUME IInv, NEW n \in Nat, MakeBytes(n)
  PROVE  IInv'
<1>1. PICK o \in Obj \ Live : heap' = Add(heap, o, Bytes(n)) /\ Replace(0, o)
  BY DEF MakeBytes
<1>2. mode = "exec" /\ 0 <= Len(stack) - Cur.base
  BY Arguments DEF MakeBytes
<1>3. HeapOK(heap') /\ Keeps(heap, heap') /\ DOMAIN heap' = Live \cup {o}
  BY <1>1, BytesOK, Adding DEF IInv, Bytes, AllKinds, Live
<1>4. o \in Val(DOMAIN heap')
  BY <1>3 DEF Val
<1> QED
  BY <1>1, <1>2, <1>3, <1>4, SameRest, ReplaceStep DEF MakeBytes, Rigid

LEMMA LoadStep ==
  ASSUME IInv, NEW s \in Slot, Load(s)
  PROVE  IInv'
<1>1. mode = "exec" /\ 0 <= Len(stack) - Cur.base
  BY Arguments DEF Load
<1>2. Cur.loc[s] \in Val(Live)
  BY <1>1, Running DEF Frame
<1> QED
  BY <1>1, <1>2, CopyStep DEF Load

LEMMA IndexStep ==
  ASSUME IInv, NEW i \in Nat, Index(i)
  PROVE  IInv'
<1>1. mode = "exec" /\ 2 <= Len(stack) - Cur.base
  BY Arguments DEF Index
<1>2. Items(Args(2)[1])[i] \in Val(Live)
  BY ItemsOK DEF Index, IsObj
<1> QED
  BY <1>1, <1>2, CopyStep DEF Index

LEMMA FieldOwnerOK ==
  ASSUME IInv, NEW v, NEW i, HasField(v, i)
  PROVE  /\ FieldOwner(v) \in Live /\ heap[FieldOwner(v)].kind = "STRUCT"
         /\ i \in DOMAIN Items(FieldOwner(v))
         /\ Items(FieldOwner(v))[i] \in Val(Live)
<1>1. /\ FieldOwner(v) \in Live /\ heap[FieldOwner(v)].kind = "STRUCT"
      /\ i \in DOMAIN Items(FieldOwner(v))
  BY DEF HasField, IsObj
<1> QED
  BY <1>1, ItemsOK

LEMMA GetFieldStep ==
  ASSUME IInv, NEW i \in Nat, GetField(i)
  PROVE  IInv'
<1>1. mode = "exec" /\ 1 <= Len(stack) - Cur.base
  BY Arguments DEF GetField
<1> QED
  BY <1>1, FieldOwnerOK, CopyStep DEF GetField

LEMMA DerefStep ==
  ASSUME IInv, Deref
  PROVE  IInv'
<1>1. mode = "exec" /\ 1 <= Len(stack) - Cur.base
  BY Arguments DEF Deref
<1>2. Items(Arg)[1] \in Val(Live)
  BY ItemsOK DEF Deref, IsObj
<1> QED
  BY <1>1, <1>2, CopyStep DEF Deref

-----------------------------------------------------------------------------
(* Instructions on places.                                                 *)

\* What a place on the stack is known to point to.
LEMMA PlacesOK ==
  ASSUME IInv, mode \in {"exec", "gc"}, NEW i \in 1 .. Len(stack), stack[i].tag = "P"
  PROVE  /\ stack[i] \in PlaceEntry(Live)
         /\ PlaceOK(heap, frames, i, stack[i])
<1>1. stack[i] \in Entry(Live) /\ i \in DOMAIN stack
  BY Running
<1> QED
  BY <1>1 DEF Entry, ValEntry, IInv, StackOK

\* A usable place denotes a cell, and the cell holds a value.
LEMMA ReadOK ==
  ASSUME IInv, mode \in {"exec", "gc"}, NEW i \in 1 .. Len(stack), stack[i].tag = "P",
         Usable(stack[i])
  PROVE  LET p == stack[i]
         IN  /\ CellOwner(p) = NoObj =>
                  /\ LocalOK(frames, i, p)
                  /\ p.fr \in 1 .. Top /\ p.ix \in Slot /\ CellIx(p) = p.ix
             /\ CellOwner(p) # NoObj =>
                  /\ CellOwner(p) \in Live
                  /\ heap[CellOwner(p)].kind \in {"STRUCT", "REF", "ARRAY"}
                  /\ CellIx(p) \in DOMAIN Items(CellOwner(p))
             /\ Read(p) \in Val(Live)
<1> DEFINE p == stack[i]
<1>1. p \in PlaceEntry(Live) /\ PlaceOK(heap, frames, i, p) /\ p.tag = "P"
  BY PlacesOK
<1>2. /\ p.own \in Live \cup {NoObj} /\ p.arr \in Live \cup {NoObj}
      /\ p.root \in Live \cup {NoObj}
  BY <1>1 DEF PlaceEntry
<1> HIDE DEF p
<1>3. CASE p.arr # NoObj /\ p.root = NoObj
  <2>1. CellOwner(p) = p.arr /\ CellIx(p) = p.idx
    BY <1>3 DEF CellOwner, CellIx
  <2>2. p.arr \in Live /\ p.arr # NoObj /\ heap[p.arr].kind = "ARRAY"
    BY <1>1, <1>2, <1>3 DEF PlaceOK
  <2>3. p.idx \in DOMAIN Items(p.arr)
    BY <1>3 DEF Usable, InBounds, p
  <2>4. Read(p) \in Val(Live)
    BY <2>1, <2>2, <2>3, ItemsOK DEF Read
  <2> QED
    BY <2>1, <2>2, <2>3, <2>4 DEF p
<1>4. CASE ~(p.arr # NoObj /\ p.root = NoObj) /\ p.own # NoObj
  <2>1. CellOwner(p) = p.own /\ CellIx(p) = p.ix
    BY <1>4 DEF CellOwner, CellIx
  <2>2. /\ p.own \in Live /\ heap[p.own].kind \in {"STRUCT", "REF"}
        /\ p.ix \in DOMAIN Items(p.own)
    BY <1>1, <1>2, <1>4 DEF PlaceOK, Items
  <2>3. Read(p) \in Val(Live)
    BY <1>4, <2>1, <2>2, ItemsOK DEF Read
  <2> QED
    BY <1>4, <2>1, <2>2, <2>3 DEF p
<1>5. CASE ~(p.arr # NoObj /\ p.root = NoObj) /\ p.own = NoObj
  <2>1. CellOwner(p) = NoObj /\ CellIx(p) = p.ix
    BY <1>5 DEF CellOwner, CellIx
  <2>2. p.arr = NoObj
    BY <1>1, <1>5 DEF PlaceOK
  <2>3. LocalOK(frames, i, p)
    BY <1>1, <1>5, <2>2 DEF PlaceOK
  <2>4. p.fr \in 1 .. Top /\ frames[p.fr] \in Frame(Live)
    BY <2>3, Running DEF LocalOK
  <2>5. p.ix \in Slot /\ frames[p.fr].loc[p.ix] \in Val(Live)
    BY <2>3, <2>4 DEF LocalOK, Frame
  <2>6. Read(p) \in Val(Live)
    BY <2>1, <2>5 DEF Read
  <2> QED
    BY <2>1, <2>3, <2>4, <2>5, <2>6 DEF p
<1> QED
  BY <1>3, <1>4, <1>5

\* A place pushed on an unchanged heap.
LEMMA PlaceStep ==
  ASSUME IInv, mode = "exec", NEW n \in Nat, n <= Len(stack) - Cur.base,
         NEW e \in PlaceEntry(Live),
         PlaceOK(heap, frames, Len(stack) - n + 1, e),
         Push(n, e), UNCHANGED heap, Settle, Rigid
  PROVE  IInv'
<1>1. e \in Entry(DOMAIN heap')
  BY DEF Entry, Live
<1> QED
  BY <1>1, SameHeap, SameRest, PushStep DEF Rigid

LEMMA LocalPlaceStep ==
  ASSUME IInv, NEW s \in Slot, LocalPlace(s)
  PROVE  IInv'
<1> DEFINE e == [tag |-> "P", own |-> NoObj, fr |-> Top, ix |-> s,
                 arr |-> NoObj, idx |-> 0, root |-> NoObj, via |-> NoObj]
<1>1. mode = "exec" /\ 0 <= Len(stack) - Cur.base
  BY Arguments DEF LocalPlace
<1>2. e \in PlaceEntry(Live)
  BY <1>1, Running DEF PlaceEntry, Slot
<1>3. LocalOK(frames, Len(stack) - 0 + 1, e)
  BY <1>1, Running DEF LocalOK, LocalPlace, Cur, Top
<1>4. PlaceOK(heap, frames, Len(stack) - 0 + 1, e)
  BY <1>3 DEF PlaceOK
<1>5. Push(0, e) /\ UNCHANGED heap /\ Settle /\ Rigid
  BY DEF LocalPlace
<1> HIDE DEF e
<1> QED
  BY <1>1, <1>2, <1>4, <1>5, PlaceStep

LEMMA DerefPlaceStep ==
  ASSUME IInv, DerefPlace
  PROVE  IInv'
<1> DEFINE e == [tag |-> "P", own |-> Arg, fr |-> 0, ix |-> 1,
                 arr |-> NoObj, idx |-> 0, root |-> NoObj, via |-> NoObj]
<1>1. mode = "exec" /\ 1 <= Len(stack) - Cur.base
  BY Arguments DEF DerefPlace
<1>2. Arg \in Live /\ heap[Arg].kind = "REF" /\ 1 \in DOMAIN heap[Arg].items
  BY ItemsOK DEF DerefPlace, IsObj, Items
<1>3. e \in PlaceEntry(Live)
  BY <1>2 DEF PlaceEntry
<1>4. PlaceOK(heap, frames, Len(stack) - 1 + 1, e)
  BY <1>1, <1>2, Running, NamesAssumption DEF PlaceOK
<1>5. Push(1, e) /\ UNCHANGED heap /\ Settle /\ Rigid
  BY DEF DerefPlace
<1> HIDE DEF e
<1> QED
  BY <1>1, <1>3, <1>4, <1>5, PlaceStep

LEMMA IndexPlaceStep ==
  ASSUME IInv, NEW i \in Nat, IndexPlace(i)
  PROVE  IInv'
<1> DEFINE e == [tag |-> "P", own |-> NoObj, fr |-> 0, ix |-> 0,
                 arr |-> Args(2)[1], idx |-> i, root |-> NoObj, via |-> NoObj]
<1>1. mode = "exec" /\ 2 <= Len(stack) - Cur.base
  BY Arguments DEF IndexPlace
<1>2. Args(2)[1] \in Live /\ heap[Args(2)[1]].kind = "ARRAY"
  BY DEF IndexPlace, IsObj
<1>3. e \in PlaceEntry(Live)
  BY <1>2 DEF PlaceEntry
<1>4. Args(2)[1] # NoObj
  BY <1>1, <1>2, Running, NamesAssumption
<1>5. PlaceOK(heap, frames, Len(stack) - 2 + 1, e)
  BY <1>2, <1>4 DEF PlaceOK
<1>6. Push(2, e) /\ UNCHANGED heap /\ Settle /\ Rigid
  BY DEF IndexPlace
<1> HIDE DEF e
<1> QED
  BY <1>1, <1>3, <1>5, <1>6, PlaceStep

LEMMA ValueFieldPlaceStep ==
  ASSUME IInv, NEW i \in Nat, ValueFieldPlace(i)
  PROVE  IInv'
<1> DEFINE e == [tag |-> "P", own |-> FieldOwner(Arg), fr |-> 0, ix |-> i,
                 arr |-> NoObj, idx |-> 0, root |-> NoObj,
                 via |-> IF IsObj(Arg, "REF") THEN Arg ELSE NoObj]
<1>1. mode = "exec" /\ 1 <= Len(stack) - Cur.base
  BY Arguments DEF ValueFieldPlace
<1>2. /\ FieldOwner(Arg) \in Live /\ heap[FieldOwner(Arg)].kind = "STRUCT"
      /\ i \in DOMAIN heap[FieldOwner(Arg)].items
  BY FieldOwnerOK DEF ValueFieldPlace, Items
<1>3. e \in PlaceEntry(Live)
  BY <1>1, <1>2, Running DEF PlaceEntry, IsObj
<1>4. FieldOwner(Arg) # NoObj
  BY <1>1, <1>2, Running, NamesAssumption
<1>5. PlaceOK(heap, frames, Len(stack) - 1 + 1, e)
  BY <1>2, <1>4 DEF PlaceOK
<1>6. Push(1, e) /\ UNCHANGED heap /\ Settle /\ Rigid
  BY DEF ValueFieldPlace
<1> HIDE DEF e
<1> QED
  BY <1>1, <1>3, <1>5, <1>6, PlaceStep

LEMMA FieldPlaceStep ==
  ASSUME IInv, NEW i \in Nat, FieldPlace(i)
  PROVE  IInv'
<1> DEFINE p == stack[Len(stack)]
<1> DEFINE b == Read(p)
<1> DEFINE e == FieldOf(p, b, i)
<1>1. mode = "exec" /\ 1 <= Len(stack) - Cur.base
  BY Running DEF FieldPlace, TopPlace
<1>2. Len(stack) \in 1 .. Len(stack) /\ p.tag = "P" /\ Usable(p) /\ HasField(b, i)
  BY <1>1, Running DEF FieldPlace, TopPlace
<1>3. p \in PlaceEntry(Live) /\ PlaceOK(heap, frames, Len(stack), p)
  BY <1>1, <1>2, PlacesOK
<1>4. b \in Val(Live)
  BY <1>1, <1>2, ReadOK
<1>5. /\ FieldOwner(b) \in Live /\ heap[FieldOwner(b)].kind = "STRUCT"
      /\ i \in DOMAIN heap[FieldOwner(b)].items
  BY <1>2, FieldOwnerOK DEF Items
<1>6. b \in Live
  BY <1>5 DEF FieldOwner, IsObj
<1>7. NoObj \notin Live
  BY <1>1, Running, NamesAssumption
<1>8. Push(1, e) /\ UNCHANGED heap /\ Settle /\ Rigid
  BY DEF FieldPlace
<1> HIDE DEF p, b
<1>9. e \in PlaceEntry(Live)
  <2>1. /\ p.arr \in Live \cup {NoObj} /\ p.idx \in Nat
        /\ p.root \in Live \cup {NoObj}
    BY <1>3 DEF PlaceEntry
  <2> QED
    BY <1>1, <1>5, <1>6, <2>1, Running DEF PlaceEntry, FieldOf, IsObj
<1>10. PlaceOK(heap, frames, Len(stack) - 1 + 1, e)
  <2>1. p.arr # NoObj => heap[p.arr].kind = "ARRAY"
    BY <1>2, <1>3 DEF PlaceOK
  <2>2. p.root # NoObj => p.arr # NoObj
    BY <1>2, <1>3 DEF PlaceOK
  <2>3. FieldOwner(b) # NoObj
    BY <1>5, <1>7
  <2> QED
    BY <1>5, <2>1, <2>2, <2>3 DEF PlaceOK, FieldOf
<1> HIDE DEF e
<1> QED
  BY <1>1, <1>8, <1>9, <1>10, PlaceStep

LEMMA DupStep ==
  ASSUME IInv, Dup
  PROVE  IInv'
<1> DEFINE p == stack[Len(stack)]
<1>1. mode = "exec" /\ 1 <= Len(stack) - Cur.base
  BY Running DEF Dup, TopPlace
<1>2. Len(stack) \in 1 .. Len(stack) /\ p.tag = "P"
  BY <1>1, Running DEF Dup, TopPlace
<1>3. p \in PlaceEntry(Live) /\ PlaceOK(heap, frames, Len(stack), p)
  BY <1>1, <1>2, PlacesOK
<1>4. PlaceOK(heap, frames, Len(stack) - 0 + 1, p)
  <2>1. ASSUME LocalOK(frames, Len(stack), p)
        PROVE  LocalOK(frames, Len(stack) + 1, p)
    <3>1. p.fr \in 1 .. Top /\ p.fr < Top => p.fr + 1 \in 1 .. Top
      BY <1>1, <2>1, Running DEF LocalOK
    <3>2. frames[p.fr].base \in Nat /\ frames[p.fr].base < Len(stack) + 1
      BY <1>1, <2>1, <3>1, Running DEF LocalOK, Frame
    <3>3. ~(p.fr < Top)
      <4> SUFFICES ASSUME p.fr < Top PROVE FALSE
        OBVIOUS
      <4>1. frames[p.fr + 1].base <= Cur.base /\ frames[p.fr + 1].base \in Nat
        BY <1>1, <2>1, <3>1, Running, SMTT(60) DEF LocalOK, IInv, BasesOK, Cur, Frame
      <4>2. Len(stack) <= frames[p.fr + 1].base
        BY <2>1 DEF LocalOK, Top
      <4> QED
        BY <1>1, <4>1, <4>2, Running
    <3> QED
      BY <2>1, <3>2, <3>3 DEF LocalOK, Top
  <2> QED
    BY <1>1, <1>2, <1>3, <2>1, Running DEF PlaceOK
<1>5. Push(0, p) /\ UNCHANGED heap /\ Settle /\ Rigid
  BY DEF Dup
<1>6. 0 <= Len(stack) - Cur.base
  BY <1>1, Running
<1> QED
  BY <1>1, <1>3, <1>4, <1>5, <1>6, PlaceStep

LEMMA LoadPlaceStep ==
  ASSUME IInv, LoadPlace
  PROVE  IInv'
<1>1. mode = "exec" /\ 1 <= Len(stack) - Cur.base
  BY Running DEF LoadPlace, TopPlace
<1>2. Len(stack) \in 1 .. Len(stack)
  BY <1>1, Running
<1>3. Read(stack[Len(stack)]) \in Val(Live)
  BY <1>1, <1>2, ReadOK DEF LoadPlace, TopPlace
<1> QED
  BY <1>1, <1>3, CopyStep DEF LoadPlace

-----------------------------------------------------------------------------
(* Instructions that change a frame.                                       *)

\* Frame k becomes fr: it keeps its locals active, or it is the innermost one
\* and has nothing on the stack.
LEMMA FrameStep ==
  ASSUME IInv, mode = "exec", NEW k \in 1 .. Top, NEW fr \in Frame(DOMAIN heap'),
         ScopesOK(fr), fr.base = frames[k].base,
         frames[k].active \subseteq fr.active \/ (k = Top /\ Len(stack') = Cur.base),
         frames' = [frames EXCEPT ![k] = fr],
         HeapOK(heap'), Keeps(heap, heap'),
         StackOK(heap', frames, stack'), Cur.base <= Len(stack'),
         RestOK(heap', pending', match'),
         Settle, UNCHANGED <<armed, threshold>>
  PROVE  IInv'
<1>1. FramesOK(heap', frames)
  BY Growing DEF IInv
<1>2. /\ frames' \in Seq(Frame(DOMAIN heap'))
      /\ Len(frames') = Len(frames) /\ DOMAIN frames' = DOMAIN frames
      /\ \A j \in DOMAIN frames : frames'[j] = IF j = k THEN fr ELSE frames[j]
  <2>1. frames \in Seq(Frame(DOMAIN heap')) /\ k \in 1 .. Len(frames)
    BY <1>1 DEF FramesOK, Top
  <2>2. DOMAIN frames = 1 .. Len(frames)
    BY <2>1, LenProperties
  <2> QED
    BY <2>1, <2>2, ExceptSeq, LenProperties
<1>3. FramesOK(heap', frames')
  BY <1>1, <1>2 DEF FramesOK
<1>4. \A j \in DOMAIN frames : frames'[j].base = frames[j].base
  BY <1>2
<1>5. /\ Len(stack') \in Nat
      /\ \A j \in DOMAIN frames : frames[j].base \in Nat /\ frames[j].base <= Len(stack')
  <2>1. Len(stack') \in Nat
    BY LenProperties DEF StackOK
  <2>2. \A j \in DOMAIN frames : j <= Top /\ Top \in DOMAIN frames
    BY Running
  <2>3. \A j \in DOMAIN frames : frames[j].base <= Cur.base
    BY <2>2 DEF Cur, IInv, BasesOK
  <2>4. \A j \in DOMAIN frames : frames[j].base \in Nat
    BY Running, SMTT(60) DEF Frame
  <2> QED
    BY <2>1, <2>3, <2>4, Running
<1>6. BasesOK(frames', Len(stack'))
  BY <1>2, <1>4, <1>5 DEF IInv, BasesOK
<1>7. StackOK(heap', frames', stack')
  <2> SUFFICES ASSUME NEW i \in DOMAIN stack', stack'[i].tag = "P",
                      LocalOK(frames, i, stack'[i])
               PROVE  LocalOK(frames', i, stack'[i])
    BY DEF StackOK, PlaceOK
  <2> DEFINE p == stack'[i]
  <2>1. p.fr \in 1 .. Top /\ p.ix \in frames[p.fr].active
    BY Running DEF LocalOK
  <2>2. i \in Nat /\ i <= Len(stack')
    BY <1>5, LenProperties DEF StackOK
  <2>3. ASSUME p.fr = k
        PROVE  p.ix \in fr.active
    <3>1. CASE frames[k].active \subseteq fr.active
      BY <2>1, <2>3, <3>1
    <3>2. CASE k = Top /\ Len(stack') = Cur.base
      BY <2>2, <2>3, <3>2, Running DEF LocalOK, Cur
    <3> QED
      BY <3>1, <3>2
  <2>4. p.ix \in frames'[p.fr].active
    BY <1>2, <2>1, <2>3, Running
  <2>5. p.fr < Top => p.fr + 1 \in DOMAIN frames
    BY <2>1, Running
  <2> QED
    BY <1>2, <1>4, <2>1, <2>4, <2>5 DEF LocalOK, Top
<1>8. ModeOK'
  <2>1. frames' # <<>>
    BY <1>2, Running
  <2> QED
    BY <2>1 DEF ModeOK, IInv, Settle
<1> QED
  BY <1>3, <1>6, <1>7, <1>8 DEF IInv

LEMMA StorePlaceStep ==
  ASSUME IInv, StorePlace
  PROVE  IInv'
<1> DEFINE p == stack[Len(stack) - 1]
<1>1. /\ mode = "exec" /\ 2 <= Len(stack) - Cur.base /\ Arg \in Val(Live)
      /\ Len(stack) - 1 \in 1 .. Len(stack) /\ Len(stack) - 2 \in 0 .. Len(stack)
      /\ p.tag = "P" /\ Usable(p)
  <2>1. mode = "exec" /\ Arg \in Val(Live)
    BY Arguments DEF StorePlace
  <2>2. p.tag = "P" /\ Usable(p) /\ Len(stack) > Cur.base + 1
    BY DEF StorePlace
  <2> QED
    BY <2>1, <2>2, Running
<1>2. PICK f \in Copies(<<Arg>>) :
        LET w == CopyVal(f, 1, Arg)
        IN  IF CellOwner(p) = NoObj
            THEN /\ heap' = WithCopies(f)
                 /\ frames' = [frames EXCEPT ![p.fr].loc[p.ix] = w]
            ELSE /\ heap' = [WithCopies(f) EXCEPT
                               ![CellOwner(p)].items[CellIx(p)] = w]
                 /\ UNCHANGED frames
  BY DEF StorePlace
<1> DEFINE w == CopyVal(f, 1, Arg)
<1> DEFINE h == WithCopies(f)
<1>3. /\ HeapOK(h) /\ Keeps(heap, h) /\ w \in Val(DOMAIN h)
      /\ \A o \in Live : h[o] = heap[o]
  <2>1. <<Arg>> \in Seq(Val(Live)) /\ DOMAIN <<Arg>> = {1}
    BY <1>1
  <2> QED
    BY <1>1, <2>1, Copying DEF IInv
<1>4. stack' = Rest(2) /\ Settle /\ UNCHANGED <<armed, threshold, pending, match>>
  BY DEF StorePlace
<1>5. /\ CellOwner(p) = NoObj =>
           LocalOK(frames, Len(stack) - 1, p) /\ p.fr \in 1 .. Top /\ p.ix \in Slot
      /\ CellOwner(p) # NoObj =>
           CellOwner(p) \in Live /\ CellIx(p) \in DOMAIN Items(CellOwner(p))
  BY <1>1, ReadOK
<1>6. StackOK(heap, frames, stack') /\ Len(stack') = Len(stack) - 2
  BY <1>1, <1>4, Cutting, ZenonT(120) DEF Rest, IInv
<1>7. Cur.base <= Len(stack')
  BY <1>1, <1>6, Running
<1> HIDE DEF p, w, h
<1>8. CASE CellOwner(p) = NoObj
  <2>1. heap' = h /\ frames' = [frames EXCEPT ![p.fr].loc[p.ix] = w]
    BY <1>2, <1>8 DEF w, h
  <2> DEFINE fr == [frames[p.fr] EXCEPT !.loc[p.ix] = w]
  <2>2. p.fr \in 1 .. Top /\ p.ix \in Slot /\ frames[p.fr] \in Frame(DOMAIN heap')
    BY <1>1, <1>3, <1>5, <1>8, <2>1, Running, Growing, Wider DEF IInv, Live
  <2>3. frames' = [frames EXCEPT ![p.fr] = fr]
    BY <2>1
  <2>4. /\ fr \in Frame(DOMAIN heap') /\ fr.base = frames[p.fr].base
        /\ fr.active = frames[p.fr].active
        /\ fr.scopes = frames[p.fr].scopes /\ fr.decl = frames[p.fr].decl
        /\ \A s \in Slot \ {p.ix} : fr.loc[s] = frames[p.fr].loc[s]
    BY <1>3, <2>1, <2>2 DEF Frame
  <2>5. ScopesOK(fr)
    BY <1>1, <1>5, <1>8, <2>2, <2>4, Running DEF ScopesOK, LocalOK
  <2>6. StackOK(heap', frames, stack')
    BY <1>3, <1>6, <2>1, Growing DEF IInv
  <2> HIDE DEF fr
  <2> QED
    BY <1>1, <1>3, <1>4, <1>7, <2>1, <2>2, <2>3, <2>4, <2>5, <2>6, SameRest, FrameStep
<1>9. CASE CellOwner(p) # NoObj
  <2> DEFINE o == CellOwner(p)
  <2>1. /\ heap' = [h EXCEPT ![o].items[CellIx(p)] = w]
        /\ UNCHANGED frames
    BY <1>2, <1>9 DEF w, h
  <2> DEFINE items == [h[o].items EXCEPT ![CellIx(p)] = w]
  <2>2. o \in Live /\ o \in DOMAIN h /\ CellIx(p) \in DOMAIN h[o].items
    BY <1>3, <1>5, <1>9 DEF Keeps, Live, Items
  <2>3. heap' = [h EXCEPT ![o].items = items]
    BY <2>1
  <2>4. h[o].items \in Seq(Val(DOMAIN h))
    BY <1>3, <2>2 DEF HeapOK, Object
  <2>5. items \in Seq(Val(DOMAIN h)) /\ DOMAIN items = DOMAIN h[o].items
    BY <1>3, <2>2, <2>4, ExceptSeq, LenProperties
  <2>6. HeapOK(heap') /\ Keeps(h, heap')
    <3> HIDE DEF items, o
    <3> QED
      BY <1>3, <2>2, <2>3, <2>5, Updating
  <2>7. Keeps(heap, heap')
    BY <1>3, <2>6, KeepsTransitive
  <2>8. StackOK(heap', frames, stack')
    BY <1>6, <2>7, Growing DEF IInv
  <2> QED
    BY <1>1, <1>4, <1>7, <2>1, <2>6, <2>7, <2>8, SameRest, RigidStep
<1> QED
  BY <1>8, <1>9

-----------------------------------------------------------------------------
(* Instructions on arrays.                                                 *)

\* Array a gets the items its, over the heap h that holds the copies made;
\* n operands give way to the value v.
LEMMA ResizeStep ==
  ASSUME IInv, mode = "exec", NEW n \in Nat, n <= Len(stack) - Cur.base,
         NEW h, HeapOK(h), Keeps(heap, h), NEW a \in Live, IsObj(a, "ARRAY"),
         NEW its \in Seq(Val(DOMAIN h)), NEW v \in Val(DOMAIN h),
         heap' = [h EXCEPT ![a].items = its],
         Replace(n, v), Settle, Rigid
  PROVE  IInv'
<1>1. a \in DOMAIN h /\ h[a].kind = "ARRAY"
  BY DEF Keeps, IsObj, Live
<1>2. HeapOK(heap') /\ Keeps(h, heap') /\ DOMAIN heap' = DOMAIN h
  BY <1>1, Updating
<1>3. Keeps(heap, heap')
  BY <1>2, KeepsTransitive
<1> QED
  BY <1>2, <1>3, SameRest, ReplaceStep DEF Rigid

LEMMA ArrayPushStep ==
  ASSUME IInv, ArrayPush
  PROVE  IInv'
<1> DEFINE a == Args(2)[1]
<1>1. /\ mode = "exec" /\ 2 <= Len(stack) - Cur.base /\ Arg \in Val(Live)
      /\ a \in Live /\ IsObj(a, "ARRAY")
  BY Arguments DEF ArrayPush, IsObj
<1>2. PICK f \in Copies(<<Arg>>) :
        heap' = [WithCopies(f) EXCEPT ![a].items = Append(@, CopyVal(f, 1, Arg))]
  BY DEF ArrayPush
<1> DEFINE h == WithCopies(f)
<1> DEFINE its == Append(h[a].items, CopyVal(f, 1, Arg))
<1>3. /\ HeapOK(h) /\ Keeps(heap, h) /\ CopyVal(f, 1, Arg) \in Val(DOMAIN h)
  <2>1. <<Arg>> \in Seq(Val(Live)) /\ DOMAIN <<Arg>> = {1}
    BY <1>1
  <2> QED
    BY <1>1, <2>1, Copying DEF IInv
<1>4. heap' = [h EXCEPT ![a].items = its]
  BY <1>2
<1>5. Replace(2, Unit) /\ Settle /\ Rigid
  BY DEF ArrayPush
<1> HIDE DEF a, h
<1>6. its \in Seq(Val(DOMAIN h)) /\ Unit \in Val(DOMAIN h)
  BY <1>1, <1>3, NamesAssumption, AppendProperties DEF HeapOK, Object, Keeps, Live, Val
<1> HIDE DEF its
<1> QED
  BY <1>1, <1>3, <1>4, <1>5, <1>6, ResizeStep

LEMMA ArrayPopStep ==
  ASSUME IInv, ArrayPop
  PROVE  IInv'
<1> DEFINE n == Len(Items(Arg))
<1>1. /\ mode = "exec" /\ 1 <= Len(stack) - Cur.base
      /\ Arg \in Live /\ IsObj(Arg, "ARRAY") /\ Items(Arg) # <<>>
  BY Arguments DEF ArrayPop, IsObj
<1>2. /\ Items(Arg) \in Seq(Val(Live)) /\ n \in Nat \ {0}
      /\ Items(Arg)[n] \in Val(Live)
  BY <1>1, ItemsOK, EmptySeq
<1>3. PICK f \in Copies(<<Items(Arg)[n]>>) :
        /\ heap' = [WithCopies(f) EXCEPT ![Arg].items = SubSeq(@, 1, n - 1)]
        /\ Replace(1, CopyVal(f, 1, Items(Arg)[n]))
  BY DEF ArrayPop
<1> DEFINE h == WithCopies(f)
<1> DEFINE its == SubSeq(h[Arg].items, 1, n - 1)
<1>4. /\ HeapOK(h) /\ Keeps(heap, h)
      /\ CopyVal(f, 1, Items(Arg)[n]) \in Val(DOMAIN h)
      /\ h[Arg] = heap[Arg]
  <2>1. <<Items(Arg)[n]>> \in Seq(Val(Live)) /\ DOMAIN <<Items(Arg)[n]>> = {1}
    BY <1>2
  <2> QED
    BY <1>1, <1>2, <2>1, Copying DEF IInv
<1>5. heap' = [h EXCEPT ![Arg].items = its]
  BY <1>3
<1>6. Settle /\ Rigid
  BY DEF ArrayPop
<1>7. its \in Seq(Val(DOMAIN h))
  <2>1. h[Arg].items = Items(Arg)
    BY <1>4 DEF Items
  <2>2. Items(Arg) \in Seq(Val(DOMAIN h))
    BY <1>2, <1>4, Growing, Wider DEF Live, IInv
  <2> HIDE DEF h
  <2> QED
    BY <1>2, <2>1, <2>2, SubSeqProperties
<1>8. Replace(1, CopyVal(f, 1, Items(Arg)[n]))
  BY <1>3
<1> HIDE DEF its, h, n
<1> QED
  BY <1>1, <1>4, <1>5, <1>6, <1>7, <1>8, ResizeStep

LEMMA ArraySpliceStep ==
  ASSUME IInv, NEW first \in Nat, NEW last \in Nat, ArraySplice(first, last)
  PROVE  IInv'
<1> DEFINE a == Args(4)[1]
<1> DEFINE r == Args(4)[4]
<1>1. /\ mode = "exec" /\ 4 <= Len(stack) - Cur.base
      /\ a \in Live /\ IsObj(a, "ARRAY") /\ r \in Live
      /\ first <= last /\ last <= Len(Items(a))
  BY Arguments DEF ArraySplice, IsObj
<1>2. PICK f \in Copies(Items(r)) :
        heap' = [WithCopies(f) EXCEPT ![a].items =
                   SubSeq(@, 1, first) \o CopyVals(f, Items(r))
                     \o SubSeq(@, last + 1, Len(@))]
  BY DEF ArraySplice
<1> DEFINE h == WithCopies(f)
<1> DEFINE old == h[a].items
<1> DEFINE its == SubSeq(old, 1, first) \o CopyVals(f, Items(r))
                    \o SubSeq(old, last + 1, Len(old))
<1>3. /\ HeapOK(h) /\ Keeps(heap, h) /\ CopyVals(f, Items(r)) \in Seq(Val(DOMAIN h))
      /\ h[a] = heap[a]
  BY <1>1, ItemsOK, Copying DEF IInv
<1>4. heap' = [h EXCEPT ![a].items = its]
  BY <1>2
<1>5. Replace(4, Unit) /\ Settle /\ Rigid
  BY DEF ArraySplice
<1>6. its \in Seq(Val(DOMAIN h))
  <2>1. old = Items(a)
    BY <1>3 DEF Items
  <2>2. old \in Seq(Val(DOMAIN h)) /\ Len(old) \in Nat /\ last <= Len(old)
    BY <1>1, <1>3, <2>1, ItemsOK, Growing, Wider DEF Live, IInv
  <2> HIDE DEF h, old
  <2>3. SubSeq(old, 1, first) \in Seq(Val(DOMAIN h))
    BY <1>1, <2>2, SubSeqProperties
  <2>4. SubSeq(old, last + 1, Len(old)) \in Seq(Val(DOMAIN h))
    BY <1>1, <2>2, SubSeqProperties
  <2>5. SubSeq(old, 1, first) \o CopyVals(f, Items(r)) \in Seq(Val(DOMAIN h))
    BY <1>3, <2>3, ConcatProperties
  <2> QED
    BY <2>4, <2>5, ConcatProperties
<1>7. Unit \in Val(DOMAIN h)
  BY NamesAssumption DEF Val
<1> HIDE DEF its, h, a
<1> QED
  BY <1>1, <1>3, <1>4, <1>5, <1>6, <1>7, ResizeStep

-----------------------------------------------------------------------------
(* Scopes, bindings and the match value.                                   *)

\* frame_decl keeps what a frame has, and declares the slots of bs.
LEMMA DeclareOK ==
  ASSUME NEW H, NEW fr \in Frame(H), ScopesOK(fr), NEW bs \in Seq(Binding(H))
  PROVE  /\ Declare(fr, bs) \in Frame(H) /\ ScopesOK(Declare(fr, bs))
         /\ Declare(fr, bs).base = fr.base
         /\ fr.active \subseteq Declare(fr, bs).active
<1>1. /\ Len(bs) \in Nat /\ DOMAIN bs = 1 .. Len(bs)
      /\ \A i \in DOMAIN bs : bs[i] \in Binding(H)
  BY LenProperties, ElementOfSeq
<1> DEFINE loc == [s \in Slot |->
                     IF \E i \in DOMAIN bs : bs[i].slot = s
                     THEN (CHOOSE b \in Range(bs) : b.slot = s).val
                     ELSE fr.loc[s]]
<1> DEFINE slots == [i \in DOMAIN bs |-> bs[i].slot]
<1>2. loc \in [Slot -> Val(H)]
  <2> SUFFICES ASSUME NEW s \in Slot PROVE loc[s] \in Val(H)
    OBVIOUS
  <2>1. CASE \E i \in DOMAIN bs : bs[i].slot = s
    <3>1. \E b \in Range(bs) : b.slot = s
      BY <2>1 DEF Range
    <3>2. (CHOOSE b \in Range(bs) : b.slot = s) \in Binding(H)
      BY <1>1, <3>1 DEF Range
    <3> QED
      BY <2>1, <3>2 DEF Binding
  <2>2. CASE ~ \E i \in DOMAIN bs : bs[i].slot = s
    BY <2>2 DEF Frame
  <2> QED
    BY <2>1, <2>2
<1>3. slots \in Seq(Slot)
  <2>1. slots = [i \in 1 .. Len(bs) |-> bs[i].slot]
    BY <1>1
  <2>2. slots \in [1 .. Len(bs) -> Slot]
    BY <1>1, <2>1 DEF Binding
  <2> QED
    BY <1>1, <2>2, FunIsSeq
<1>4. {bs[i].slot : i \in DOMAIN bs} \subseteq Slot
  BY <1>1 DEF Binding
<1> HIDE DEF loc, slots
<1>5. /\ fr.decl \o slots \in Seq(Slot)
      /\ Len(fr.decl) <= Len(fr.decl \o slots)
      /\ Len(fr.decl) \in Nat /\ Len(fr.decl \o slots) \in Nat
  BY <1>3, ConcatProperties, LenProperties DEF Frame
<1> DEFINE d == Declare(fr, bs)
<1>6. d = [fr EXCEPT !.loc = loc, !.active = @ \cup {bs[i].slot : i \in DOMAIN bs},
                     !.decl = @ \o slots]
  BY DEF Declare, loc, slots
<1> HIDE DEF d
<1>7. /\ d \in Frame(H) /\ d.base = fr.base /\ d.scopes = fr.scopes
      /\ d.decl = fr.decl \o slots /\ fr.active \subseteq d.active
      /\ d.loc = loc /\ d.active = fr.active \cup {bs[i].slot : i \in DOMAIN bs}
  BY <1>2, <1>4, <1>5, <1>6 DEF Frame
<1>8. ScopesOK(d)
  <2>1. \A k \in DOMAIN fr.scopes : fr.scopes[k] \in Nat
    BY ElementOfSeq, LenProperties DEF Frame
  <2>2. \A s \in Slot \ d.active : d.loc[s] \in Imm
    BY <1>7 DEF ScopesOK, loc
  <2> QED
    BY <1>5, <1>7, <2>1, <2>2 DEF ScopesOK
<1> QED
  BY <1>7, <1>8 DEF d

\* frame_scope_enter.
LEMMA EnterOK ==
  ASSUME NEW H, NEW fr \in Frame(H), ScopesOK(fr)
  PROVE  /\ Enter(fr) \in Frame(H) /\ ScopesOK(Enter(fr))
         /\ Enter(fr).base = fr.base /\ Enter(fr).active = fr.active
<1> DEFINE n == Len(fr.scopes)
<1> DEFINE d == Len(fr.decl)
<1>1. /\ fr.scopes \in Seq(Nat) /\ n \in Nat /\ DOMAIN fr.scopes = 1 .. n
      /\ d \in Nat
      /\ \A k \in 1 .. n : fr.scopes[k] \in Nat /\ fr.scopes[k] <= d
  BY ElementOfSeq, LenProperties DEF Frame, ScopesOK
<1> DEFINE sc == Append(fr.scopes, d)
<1>2. /\ sc \in Seq(Nat) /\ Len(sc) = n + 1
      /\ \A k \in 1 .. n : sc[k] = fr.scopes[k]
      /\ sc[n + 1] = d
  BY <1>1, AppendProperties
<1>3. DOMAIN sc = 1 .. n + 1
  BY <1>1, <1>2, LenProperties
<1>4. Enter(fr) = [fr EXCEPT !.scopes = sc]
  BY DEF Enter
<1> HIDE DEF sc
<1>5. /\ Enter(fr) \in Frame(H) /\ Enter(fr).scopes = sc
      /\ Enter(fr).base = fr.base /\ Enter(fr).active = fr.active
      /\ Enter(fr).decl = fr.decl /\ Enter(fr).loc = fr.loc
  BY <1>2, <1>4 DEF Frame
<1>6. \A k \in 1 .. n + 1 : k \in 1 .. n \/ k = n + 1
  BY <1>1
<1>7. \A k \in DOMAIN sc : sc[k] <= d
  BY <1>1, <1>2, <1>3, <1>6
<1>8. \A j, k \in DOMAIN sc : j <= k => sc[j] <= sc[k]
  <2> SUFFICES ASSUME NEW j \in DOMAIN sc, NEW k \in DOMAIN sc, j <= k
               PROVE  sc[j] <= sc[k]
    OBVIOUS
  <2>1. CASE k = n + 1
    BY <1>2, <1>7, <2>1
  <2>2. CASE k \in 1 .. n
    <3>1. j \in 1 .. n
      BY <1>1, <1>3, <2>2
    <3> QED
      BY <1>1, <1>2, <2>2, <3>1 DEF ScopesOK
  <2> QED
    BY <1>3, <1>6, <2>1, <2>2
<1> QED
  BY <1>5, <1>7, <1>8 DEF ScopesOK

\* frame_scope_exit, any number of times that leaves the function's own scope.
LEMMA LeaveOK ==
  ASSUME NEW H, NEW fr \in Frame(H), ScopesOK(fr),
         NEW n \in Nat \ {0}, n < Len(fr.scopes)
  PROVE  /\ Leave(fr, n) \in Frame(H) /\ ScopesOK(Leave(fr, n))
         /\ Leave(fr, n).base = fr.base
<1> DEFINE m == Len(fr.scopes) - n
<1> DEFINE b == fr.scopes[Len(fr.scopes) - n + 1]
<1> DEFINE gone == {fr.decl[i] : i \in (b + 1) .. Len(fr.decl)}
<1>1. /\ fr.scopes \in Seq(Nat) /\ Len(fr.scopes) \in Nat
      /\ DOMAIN fr.scopes = 1 .. Len(fr.scopes)
      /\ fr.decl \in Seq(Slot) /\ Len(fr.decl) \in Nat
      /\ \A k \in 1 .. Len(fr.scopes) : fr.scopes[k] \in Nat
      /\ \A k \in 1 .. Len(fr.scopes) : fr.scopes[k] <= Len(fr.decl)
  BY ElementOfSeq, LenProperties DEF Frame, ScopesOK
<1>2. m \in 1 .. Len(fr.scopes) /\ m + 1 \in 1 .. Len(fr.scopes)
  BY <1>1
<1>3. b = fr.scopes[m + 1] /\ b \in 0 .. Len(fr.decl)
  BY <1>1, <1>2
<1> DEFINE sc == SubSeq(fr.scopes, 1, m)
<1> DEFINE dc == SubSeq(fr.decl, 1, b)
<1>4. /\ sc \in Seq(Nat) /\ Len(sc) = m
      /\ \A k \in 1 .. m : sc[k] = fr.scopes[k]
  BY <1>1, <1>2, SubSeqProperties
<1>5. dc \in Seq(Slot) /\ Len(dc) = b
  BY <1>1, <1>3, SubSeqProperties, SMTT(60)
<1>6. DOMAIN sc = 1 .. m
  BY <1>4, LenProperties
<1> DEFINE loc == [s \in Slot |-> IF s \in gone THEN Unit ELSE fr.loc[s]]
<1>7. Leave(fr, n) = [fr EXCEPT !.loc = loc, !.active = @ \ gone,
                                !.decl = dc, !.scopes = sc]
  BY DEF Leave
<1>8. loc \in [Slot -> Val(H)] /\ fr.active \ gone \in SUBSET Slot
  <2>1. Unit \in Val(H)
    BY NamesAssumption DEF Val
  <2> HIDE DEF gone
  <2> QED
    BY <2>1 DEF Frame
<1> HIDE DEF sc, dc, m, b, gone, loc
<1>9. /\ Leave(fr, n) \in Frame(H) /\ Leave(fr, n).base = fr.base
      /\ Leave(fr, n).scopes = sc /\ Leave(fr, n).decl = dc
      /\ Leave(fr, n).loc = loc /\ Leave(fr, n).active = fr.active \ gone
  BY <1>4, <1>5, <1>7, <1>8 DEF Frame
<1>10. \A k \in 1 .. m : k \in DOMAIN fr.scopes /\ k <= m + 1
  BY <1>1, <1>2
<1>11. \A k \in DOMAIN sc : sc[k] <= b
  BY <1>1, <1>2, <1>3, <1>4, <1>6, <1>10 DEF ScopesOK
<1>12. \A j, k \in DOMAIN sc : j <= k => sc[j] <= sc[k]
  BY <1>4, <1>6, <1>10 DEF ScopesOK
<1>13. \A s \in Slot \ Leave(fr, n).active : Leave(fr, n).loc[s] \in Imm
  BY <1>9, NamesAssumption DEF ScopesOK, loc
<1> QED
  BY <1>5, <1>9, <1>11, <1>12, <1>13 DEF ScopesOK

\* The current frame seen over a grown heap.
LEMMA CurOK ==
  ASSUME IInv, mode = "exec", Keeps(heap, heap')
  PROVE  /\ Cur \in Frame(DOMAIN heap') /\ ScopesOK(Cur)
         /\ Top \in 1 .. Top /\ Cur = frames[Top]
<1>1. Cur \in Frame(Live) /\ ScopesOK(Cur) /\ Top \in 1 .. Top /\ Cur = frames[Top]
  BY Running DEF Cur
<1>2. Live \subseteq DOMAIN heap'
  BY DEF Keeps, Live
<1> QED
  BY <1>1, <1>2, Wider

LEMMA DeclStep ==
  ASSUME IInv, NEW s \in Slot, Decl(s)
  PROVE  IInv'
<1>1. mode = "exec" /\ 1 <= Len(stack) - Cur.base /\ Arg \in Val(Live)
  BY Arguments DEF Decl, Statement
<1>2. PICK f \in Copies(<<Arg>>) :
        /\ heap' = WithCopies(f)
        /\ SetCur(Declare(Cur, <<[slot |-> s, val |-> CopyVal(f, 1, Arg)]>>))
  BY DEF Decl
<1> DEFINE bs == <<[slot |-> s, val |-> CopyVal(f, 1, Arg)]>>
<1>3. HeapOK(heap') /\ Keeps(heap, heap') /\ CopyVal(f, 1, Arg) \in Val(DOMAIN heap')
  <2>1. <<Arg>> \in Seq(Val(Live)) /\ DOMAIN <<Arg>> = {1}
    BY <1>1
  <2> QED
    BY <1>1, <1>2, <2>1, Copying DEF IInv
<1>4. bs \in Seq(Binding(DOMAIN heap'))
  BY <1>3 DEF Binding
<1>5. frames' = [frames EXCEPT ![Top] = Declare(Cur, bs)]
  BY <1>2 DEF SetCur
<1>6. Settle /\ UNCHANGED <<armed, threshold, pending, match>> /\ stack' = Rest(1)
  BY DEF Decl
<1>7. StackOK(heap', frames, stack') /\ Cur.base <= Len(stack')
  <2>1. Len(stack) - 1 \in 0 .. Len(stack)
    BY <1>1, Running
  <2>2. StackOK(heap, frames, stack') /\ Len(stack') = Len(stack) - 1
    BY <1>6, <2>1, Cutting, ZenonT(120) DEF Rest, IInv
  <2> QED
    BY <1>1, <1>3, <2>2, Growing, Running DEF IInv
<1> HIDE DEF bs
<1> DEFINE fr == Declare(Cur, bs)
<1>8. /\ fr \in Frame(DOMAIN heap') /\ ScopesOK(fr) /\ fr.base = frames[Top].base
      /\ frames[Top].active \subseteq fr.active /\ Top \in 1 .. Top
  BY <1>1, <1>3, <1>4, CurOK, DeclareOK
<1> HIDE DEF fr
<1> QED
  BY <1>1, <1>3, <1>5, <1>6, <1>7, <1>8, SameRest, FrameStep DEF fr

LEMMA TakeBindingsStep ==
  ASSUME IInv, mode = "exec", NEW old,
         \A H : Cur \in Frame(H) /\ ScopesOK(Cur) =>
                  /\ old \in Frame(H) /\ ScopesOK(old)
                  /\ old.base = Cur.base /\ old.active = Cur.active,
         TakeBindings(old)
  PROVE  IInv'
<1> DEFINE vs == [i \in DOMAIN pending |-> pending[i].val]
<1>1. PICK f \in Copies(vs) :
        /\ heap' = WithCopies(f)
        /\ SetCur(Declare(old, [i \in DOMAIN pending |->
                   [slot |-> pending[i].slot, val |-> CopyVals(f, vs)[i]]]))
  BY DEF TakeBindings
<1> DEFINE bs == [i \in DOMAIN pending |->
                    [slot |-> pending[i].slot, val |-> CopyVals(f, vs)[i]]]
<1>2. /\ Len(pending) \in Nat /\ DOMAIN pending = 1 .. Len(pending)
      /\ \A i \in 1 .. Len(pending) : pending[i] \in Binding(Live)
  BY LenProperties, ElementOfSeq DEF IInv, RestOK, Live
<1>3. vs \in Seq(Val(Live)) /\ Len(vs) = Len(pending)
  <2>1. vs \in [1 .. Len(pending) -> Val(Live)]
    BY <1>2 DEF Binding
  <2> QED
    BY <1>2, <2>1, FunIsSeq
<1>4. /\ HeapOK(heap') /\ Keeps(heap, heap')
      /\ CopyVals(f, vs) \in Seq(Val(DOMAIN heap'))
      /\ Len(CopyVals(f, vs)) = Len(pending)
  <2> HIDE DEF vs
  <2> QED
    BY <1>1, <1>3, Copying DEF IInv
<1>5. bs \in Seq(Binding(DOMAIN heap'))
  <2> HIDE DEF vs
  <2>1. \A i \in 1 .. Len(pending) : CopyVals(f, vs)[i] \in Val(DOMAIN heap')
    BY <1>4, ElementOfSeq
  <2>2. bs \in [1 .. Len(pending) -> Binding(DOMAIN heap')]
    BY <1>2, <2>1 DEF Binding
  <2> QED
    BY <1>2, <2>2, FunIsSeq
<1>6. frames' = [frames EXCEPT ![Top] = Declare(old, bs)]
  BY <1>1 DEF SetCur
<1>7. /\ pending' = <<>> /\ Settle /\ UNCHANGED <<armed, threshold, stack, match>>
  BY DEF TakeBindings
<1>8. StackOK(heap', frames, stack') /\ Cur.base <= Len(stack')
  BY <1>4, <1>7, Growing, Running DEF IInv
<1>9. RestOK(heap', pending', match')
  BY <1>4, <1>7, Growing DEF IInv, RestOK
<1> HIDE DEF bs, vs
<1> DEFINE fr == Declare(old, bs)
<1>10. /\ fr \in Frame(DOMAIN heap') /\ ScopesOK(fr) /\ fr.base = frames[Top].base
       /\ frames[Top].active \subseteq fr.active /\ Top \in 1 .. Top
  BY <1>4, <1>5, CurOK, DeclareOK
<1> HIDE DEF fr
<1> QED
  BY <1>4, <1>6, <1>7, <1>8, <1>9, <1>10, FrameStep DEF fr

LEMMA EnterBindingsStep ==
  ASSUME IInv, EnterBindings
  PROVE  IInv'
<1>1. mode = "exec" /\ TakeBindings(Enter(Cur))
  BY DEF EnterBindings, Statement, Operands
<1> QED
  BY <1>1, EnterOK, TakeBindingsStep

LEMMA MergeBindingsStep ==
  ASSUME IInv, MergeBindings
  PROVE  IInv'
<1>1. mode = "exec" /\ TakeBindings(Cur)
  BY DEF MergeBindings, Statement, Operands
<1> QED
  BY <1>1, TakeBindingsStep

\* Steps that only touch the bindings or the match value.
LEMMA RestStep ==
  ASSUME IInv, mode = "exec", RestOK(heap, pending', match'), Settle,
         UNCHANGED <<armed, heap, threshold, stack, frames>>
  PROVE  IInv'
<1>1. StackOK(heap, frames, stack) /\ Cur.base <= Len(stack)
  BY Running DEF IInv
<1> QED
  BY <1>1, SameHeap, RigidStep

LEMMA DropBindingsStep ==
  ASSUME IInv, DropBindings
  PROVE  IInv'
<1>1. RestOK(heap, pending', match')
  BY DEF DropBindings, IInv, RestOK
<1> QED
  BY <1>1, RestStep DEF DropBindings

LEMMA ClearMatchStep ==
  ASSUME IInv, ClearMatch
  PROVE  IInv'
<1>1. RestOK(heap, pending', match')
  BY DEF ClearMatch, IInv, RestOK
<1> QED
  BY <1>1, RestStep DEF ClearMatch

LEMMA SaveMatchStep ==
  ASSUME IInv, SaveMatch
  PROVE  IInv'
<1>1. mode = "exec" /\ 1 <= Len(stack) - Cur.base /\ Arg \in Val(Live)
  BY Arguments DEF SaveMatch, Statement
<1>2. Len(stack) - 1 \in 0 .. Len(stack)
  BY <1>1, Running
<1>3. StackOK(heap, frames, stack') /\ Len(stack') = Len(stack) - 1
  BY <1>2, Cutting, ZenonT(120) DEF Rest, SaveMatch, IInv
<1>4. RestOK(heap', pending', match') /\ Cur.base <= Len(stack')
  BY <1>1, <1>3, Running DEF SaveMatch, IInv, RestOK, Live
<1> QED
  BY <1>1, <1>3, <1>4, SameHeap, RigidStep DEF SaveMatch

LEMMA LoadMatchStep ==
  ASSUME IInv, LoadMatch
  PROVE  IInv'
<1>1. mode = "exec" /\ 0 <= Len(stack) - Cur.base
  BY Arguments DEF LoadMatch, Statement
<1>2. (IF match = NoMatch THEN Unit ELSE match) \in Val(Live)
  BY NamesAssumption DEF IInv, RestOK, Live, Val
<1> QED
  BY <1>1, <1>2, CopyStep DEF LoadMatch

LEMMA LocalIncStep ==
  ASSUME IInv, NEW s \in Slot, LocalInc(s)
  PROVE  IInv'
<1>1. PICK u \in Imm : frames' = [frames EXCEPT ![Top].loc[s] = u]
  BY DEF LocalInc
<1>2. /\ mode = "exec" /\ Settle
      /\ UNCHANGED <<armed, heap, threshold, stack, pending, match>>
  BY DEF LocalInc, Operands
<1>3. HeapOK(heap') /\ Keeps(heap, heap') /\ RestOK(heap', pending', match')
  BY <1>2, SameHeap, SameRest
<1>4. StackOK(heap', frames, stack') /\ Cur.base <= Len(stack')
  BY <1>2, Running DEF IInv
<1> DEFINE fr == [frames[Top] EXCEPT !.loc[s] = u]
<1>5. Cur \in Frame(DOMAIN heap') /\ ScopesOK(Cur) /\ Top \in 1 .. Top /\ Cur = frames[Top]
  BY <1>2, <1>3, CurOK
<1>6. /\ fr \in Frame(DOMAIN heap') /\ fr.base = frames[Top].base
      /\ fr.active = frames[Top].active
      /\ fr.scopes = frames[Top].scopes /\ fr.decl = frames[Top].decl
      /\ \A t \in Slot \ {s} : fr.loc[t] = frames[Top].loc[t]
      /\ fr.loc[s] = u
  BY <1>5 DEF Frame, Val
<1>7. ScopesOK(fr)
  BY <1>5, <1>6 DEF ScopesOK
<1>8. frames' = [frames EXCEPT ![Top] = fr]
  BY <1>1
<1> HIDE DEF fr
<1> QED
  BY <1>2, <1>3, <1>4, <1>5, <1>6, <1>7, <1>8, FrameStep

LEMMA ScopeEnterStep ==
  ASSUME IInv, ScopeEnter
  PROVE  IInv'
<1>1. /\ mode = "exec" /\ frames' = [frames EXCEPT ![Top] = Enter(Cur)]
      /\ Settle /\ UNCHANGED <<armed, heap, threshold, stack, pending, match>>
  BY DEF ScopeEnter, Statement, Operands, SetCur
<1>2. HeapOK(heap') /\ Keeps(heap, heap') /\ RestOK(heap', pending', match')
  BY <1>1, SameHeap, SameRest
<1>3. StackOK(heap', frames, stack') /\ Cur.base <= Len(stack')
  BY <1>1, Running DEF IInv
<1>4. /\ Enter(Cur) \in Frame(DOMAIN heap') /\ ScopesOK(Enter(Cur))
      /\ Enter(Cur).base = frames[Top].base /\ Top \in 1 .. Top
      /\ frames[Top].active \subseteq Enter(Cur).active
  BY <1>1, <1>2, CurOK, EnterOK
<1> QED
  BY <1>1, <1>2, <1>3, <1>4, FrameStep

LEMMA ScopeExitStep ==
  ASSUME IInv, NEW n \in Nat \ {0}, ScopeExit(n)
  PROVE  IInv'
<1>1. /\ mode = "exec" /\ frames' = [frames EXCEPT ![Top] = Leave(Cur, n)]
      /\ Len(Cur.scopes) > n /\ Len(stack) = Cur.base + 0
      /\ Settle /\ UNCHANGED <<armed, heap, threshold, stack, pending, match>>
  BY DEF ScopeExit, Statement, Operands, SetCur
<1>2. HeapOK(heap') /\ Keeps(heap, heap') /\ RestOK(heap', pending', match')
  BY <1>1, SameHeap, SameRest
<1>3. /\ StackOK(heap', frames, stack') /\ Cur.base <= Len(stack')
      /\ Len(stack') = Cur.base
  BY <1>1, Running DEF IInv
<1>4. n < Len(Cur.scopes)
  BY <1>1, Running, LenProperties DEF Frame
<1>5. /\ Leave(Cur, n) \in Frame(DOMAIN heap') /\ ScopesOK(Leave(Cur, n))
      /\ Leave(Cur, n).base = frames[Top].base /\ Top \in 1 .. Top
  BY <1>1, <1>2, <1>4, CurOK, LeaveOK
<1> QED
  BY <1>1, <1>2, <1>3, <1>5, FrameStep

\* What a pattern can bind is a value over the live objects.
LEMMA PartsOK ==
  ASSUME IInv, NEW v \in Val(Live)
  PROVE  Parts(v) \subseteq Val(Live)
<1>1. ASSUME NEW o \in Closure(OfKind({"ENUM"}), {v})
      PROVE  Range(Items(o)) \subseteq Val(Live)
  <2>1. o \in Live
    BY DEF Closure, OfKind
  <2> QED
    BY <2>1, ItemsOK DEF Range
<1> QED
  BY <1>1 DEF Parts

LEMMA TryPatternStep ==
  ASSUME IInv, NEW n \in Nat, TryPattern(n)
  PROVE  IInv'
<1>1. mode = "exec" /\ 1 <= Len(stack) - Cur.base /\ Arg \in Val(Live)
  BY Arguments DEF TryPattern
<1>2. PICK ps \in [1 .. n -> Parts(Arg)], ss \in [1 .. n -> Slot \ Cur.active] :
        \E f \in Copies(ps) :
          /\ heap' = WithCopies(f)
          /\ pending' = [i \in 1 .. n |-> [slot |-> ss[i], val |-> CopyVals(f, ps)[i]]]
  BY DEF TryPattern
<1>3. PICK f \in Copies(ps) :
        /\ heap' = WithCopies(f)
        /\ pending' = [i \in 1 .. n |-> [slot |-> ss[i], val |-> CopyVals(f, ps)[i]]]
  BY <1>2
<1>4. ps \in Seq(Val(Live)) /\ Len(ps) = n
  <2>1. ps \in [1 .. n -> Val(Live)]
    BY <1>1, <1>2, PartsOK
  <2> QED
    BY <2>1, FunIsSeq
<1>5. /\ HeapOK(heap') /\ Keeps(heap, heap')
      /\ CopyVals(f, ps) \in Seq(Val(DOMAIN heap')) /\ Len(CopyVals(f, ps)) = n
  BY <1>3, <1>4, Copying DEF IInv
<1>6. pending' \in Seq(Binding(DOMAIN heap'))
  <2>1. \A i \in 1 .. n : CopyVals(f, ps)[i] \in Val(DOMAIN heap')
    BY <1>5, ElementOfSeq
  <2>2. \A i \in 1 .. n : ss[i] \in Slot
    BY <1>2
  <2>3. pending' \in [1 .. n -> Binding(DOMAIN heap')]
    BY <1>3, <2>1, <2>2 DEF Binding
  <2> QED
    BY <2>3, FunIsSeq
<1>7. Replace(1, Unit) /\ Settle /\ UNCHANGED <<armed, threshold, frames, match>>
  BY DEF TryPattern
<1>8. RestOK(heap', pending', match')
  BY <1>5, <1>6, <1>7, Growing DEF IInv, RestOK
<1>9. Unit \in Val(DOMAIN heap')
  BY NamesAssumption DEF Val
<1> QED
  BY <1>1, <1>5, <1>7, <1>8, <1>9, ReplaceStep

-----------------------------------------------------------------------------
(* Calls and returns.                                                      *)

LEMMA NewFrameOK ==
  ASSUME NEW H, NEW args \in Seq(Val(H)), Len(args) <= NSlots, NEW base \in Nat
  PROVE  /\ NewFrame(args, base) \in Frame(H) /\ ScopesOK(NewFrame(args, base))
         /\ NewFrame(args, base).base = base
<1> DEFINE fr == NewFrame(args, base)
<1>1. /\ Len(args) \in Nat
      /\ \A i \in 1 .. Len(args) : args[i] \in Val(H)
  BY LenProperties, ElementOfSeq
<1>2. Unit \in Val(H) /\ Unit \in Imm
  BY NamesAssumption DEF Val
<1>3. fr.loc \in [Slot -> Val(H)] /\ fr.active \in SUBSET Slot
  BY <1>1, <1>2, BoundsAssumption DEF NewFrame, Slot
<1>4. fr.decl = <<>> /\ fr.scopes = <<0>> /\ fr.base = base /\ fr.active = 1 .. Len(args)
  BY DEF NewFrame
<1>5. fr.decl \in Seq(Slot) /\ fr.scopes \in Seq(Nat)
  BY <1>4
<1>6. fr \in Frame(H)
  <2>1. fr = [loc |-> fr.loc, active |-> fr.active, decl |-> fr.decl,
              scopes |-> fr.scopes, base |-> fr.base]
    BY DEF NewFrame
  <2> HIDE DEF fr
  <2> QED
    BY <1>3, <1>4, <1>5, <2>1 DEF Frame
<1>7. \A s \in Slot \ fr.active : fr.loc[s] \in Imm
  BY <1>1, <1>2 DEF NewFrame, Slot
<1>8. ScopesOK(fr)
  <2>1. Len(fr.decl) = 0
    BY <1>4
  <2>2. \A k \in DOMAIN fr.scopes : fr.scopes[k] = 0
    BY <1>4
  <2> HIDE DEF fr
  <2> QED
    BY <1>7, <2>1, <2>2 DEF ScopesOK
<1> QED
  BY <1>4, <1>6, <1>8

LEMMA CallStep ==
  ASSUME IInv, NEW n \in 0 .. NSlots, NEW k \in {0, 1}, Call(n, k)
  PROVE  IInv'
<1>0. n \in Nat /\ n + k \in Nat
  BY BoundsAssumption
<1>1. mode = "exec" /\ n + k <= Len(stack) - Cur.base
  BY <1>0, Arguments DEF Call
<1>2. Args(n) \in Seq(Val(Live)) /\ Len(Args(n)) = n
  <2>1. Operands(n)
    <3>1. Operands(n + k)
      BY DEF Call
    <3>2. ASSUME NEW i \in 1 .. n
          PROVE  stack[Len(stack) - n + i].tag = "V"
      <4>1. /\ k + i \in 1 .. n + k
            /\ Len(stack) - (n + k) + (k + i) = Len(stack) - n + i
        BY <1>0, <1>1, Running
      <4>2. stack[Len(stack) - (n + k) + (k + i)].tag = "V"
        BY <3>1, <4>1 DEF Operands
      <4> QED
        BY <4>1, <4>2
    <3> QED
      BY <1>0, <1>1, <3>2, Running DEF Operands
  <2> QED
    BY <1>0, <2>1, Arguments
<1> DEFINE base == CalleeBase(n + k)
<1>3. PICK f \in Copies(Args(n)) :
        /\ heap' = WithCopies(f)
        /\ frames' = Append(frames, NewFrame(CopyVals(f, Args(n)), base))
  BY DEF Call
<1> DEFINE fr == NewFrame(CopyVals(f, Args(n)), base)
<1>4. /\ HeapOK(heap') /\ Keeps(heap, heap')
      /\ CopyVals(f, Args(n)) \in Seq(Val(DOMAIN heap'))
      /\ Len(CopyVals(f, Args(n))) = n
  BY <1>2, <1>3, Copying DEF IInv
<1>5. /\ stack' = Rest(n + k)
      /\ UNCHANGED <<mode, armed, threshold, pending, match>>
  BY DEF Call
<1>6. base \in 0 .. Len(stack) /\ Cur.base <= base /\ Len(stack) - (n + k) = base
  BY <1>0, <1>1, Running DEF CalleeBase
<1>7. fr \in Frame(DOMAIN heap') /\ ScopesOK(fr) /\ fr.base = base
  BY <1>4, <1>6, NewFrameOK, BoundsAssumption
<1> HIDE DEF fr, base
<1>8. /\ FramesOK(heap', frames) /\ StackOK(heap', frames, stack)
  BY <1>4, Growing DEF IInv
<1>9. /\ frames' \in Seq(Frame(DOMAIN heap')) /\ Len(frames') = Top + 1
      /\ \A j \in 1 .. Top : frames'[j] = frames[j]
      /\ frames'[Top + 1] = fr
      /\ DOMAIN frames' = 1 .. Top + 1
  <2>1. frames' = Append(frames, fr)
    BY <1>3 DEF fr, base
  <2> QED
    BY <1>1, <1>7, <1>8, <2>1, AppendProperties, LenProperties DEF FramesOK, Top
<1>10. \A j \in 1 .. Top + 1 : j \in 1 .. Top \/ j = Top + 1
  BY <1>1, Running
<1>11. FramesOK(heap', frames')
  BY <1>1, <1>7, <1>9, <1>10, Running DEF FramesOK, IInv
<1>12. StackOK(heap', frames, stack') /\ Len(stack') = base
  BY <1>5, <1>6, <1>8, Cutting DEF Rest
<1>13. \A j \in 1 .. Top : frames[j].base \in Nat /\ frames[j].base <= base
  <2>1. \A j \in 1 .. Top : frames[j].base \in Nat /\ frames[j].base <= Cur.base
    <3>1. \A j \in 1 .. Top : j \in DOMAIN frames /\ Top \in DOMAIN frames /\ j <= Top
      BY <1>1, Running
    <3> QED
      BY <1>1, <3>1, Running DEF Cur, IInv, BasesOK, Frame
  <2> QED
    BY <1>1, <1>6, <2>1, Running
<1>14. BasesOK(frames', Len(stack'))
  <2>1. \A j \in DOMAIN frames' : frames'[j].base <= base
    BY <1>6, <1>7, <1>9, <1>10, <1>13
  <2>2. \A i, j \in DOMAIN frames' : i <= j => frames'[i].base <= frames'[j].base
    <3> SUFFICES ASSUME NEW i \in DOMAIN frames', NEW j \in DOMAIN frames', i <= j
                 PROVE  frames'[i].base <= frames'[j].base
      OBVIOUS
    <3>1. CASE j = Top + 1
      BY <1>7, <1>9, <2>1, <3>1
    <3>2. CASE j \in 1 .. Top
      <4>1. i \in 1 .. Top
        BY <1>1, <1>9, <3>2, Running
      <4> QED
        BY <1>1, <1>9, <3>2, <4>1, Running DEF IInv, BasesOK
    <3> QED
      BY <1>9, <1>10, <3>1, <3>2
  <2> QED
    BY <1>12, <2>1, <2>2 DEF BasesOK
<1>15. StackOK(heap', frames', stack')
  <2> SUFFICES ASSUME NEW i \in DOMAIN stack', stack'[i].tag = "P",
                      LocalOK(frames, i, stack'[i])
               PROVE  LocalOK(frames', i, stack'[i])
    BY <1>12 DEF StackOK, PlaceOK
  <2> DEFINE p == stack'[i]
  <2>1. i \in 1 .. base
    BY <1>12, LenProperties DEF StackOK
  <2>2. p.fr \in 1 .. Top
    BY <1>1, Running DEF LocalOK
  <2>3. p.fr + 1 \in 1 .. Top + 1 /\ p.fr \in DOMAIN frames'
    BY <1>1, <1>9, <2>2, Running
  <2>4. i <= frames'[p.fr + 1].base
    <3>1. CASE p.fr = Top
      BY <1>6, <1>7, <1>9, <2>1, <3>1
    <3>2. CASE p.fr # Top
      <4>1. p.fr + 1 \in 1 .. Top /\ p.fr < Top
        BY <1>1, <2>2, <3>2, Running
      <4> QED
        BY <1>9, <4>1 DEF LocalOK, Top
    <3> QED
      BY <3>1, <3>2
  <2> QED
    BY <1>9, <2>2, <2>3, <2>4 DEF LocalOK
<1>16. RestOK(heap', pending', match')
  BY <1>4, <1>5, SameRest
<1>17. ModeOK'
  <2>1. frames' # <<>>
    BY <1>1, <1>9, Running
  <2> QED
    BY <1>1, <1>5, <2>1 DEF ModeOK, IInv
<1> QED
  BY <1>4, <1>11, <1>14, <1>15, <1>16, <1>17 DEF IInv

LEMMA ReturnStep ==
  ASSUME IInv, Return
  PROVE  IInv'
<1>1. /\ mode = "exec" /\ 1 <= Len(stack) - Cur.base /\ Arg \in Val(Live)
      /\ Top > 1
  BY Arguments DEF Return
<1>2. PICK f \in Copies(<<Arg>>) :
        /\ heap' = WithCopies(f)
        /\ stack' = Append(SubSeq(stack, 1, Cur.base), V(CopyVal(f, 1, Arg)))
  BY DEF Return
<1> DEFINE v == CopyVal(f, 1, Arg)
<1> DEFINE cut == SubSeq(stack, 1, Cur.base)
<1>3. HeapOK(heap') /\ Keeps(heap, heap') /\ v \in Val(DOMAIN heap')
  <2>1. <<Arg>> \in Seq(Val(Live)) /\ DOMAIN <<Arg>> = {1}
    BY <1>1
  <2> QED
    BY <1>1, <1>2, <2>1, Copying DEF IInv
<1> HIDE DEF v
<1>4. /\ frames' = SubSeq(frames, 1, Top - 1) /\ Settle
      /\ UNCHANGED <<armed, threshold, pending, match>>
      /\ stack' = Append(cut, V(v))
  BY <1>2 DEF Return, v
<1>5. /\ FramesOK(heap', frames) /\ StackOK(heap', frames, stack)
  BY <1>3, Growing DEF IInv
<1>6. Cur.base \in 0 .. Len(stack) /\ Top - 1 \in 1 .. Top /\ Top \in 1 .. Top
  BY <1>1, Running
<1>7. StackOK(heap', frames, cut) /\ Len(cut) = Cur.base
  BY <1>5, <1>6, Cutting
<1>8. /\ frames' \in Seq(Frame(DOMAIN heap')) /\ Len(frames') = Top - 1
      /\ DOMAIN frames' = 1 .. Top - 1
      /\ \A j \in 1 .. Top - 1 : frames'[j] = frames[j] /\ j \in 1 .. Top /\ j < Top
  BY <1>1, <1>4, <1>5, <1>6, Running, SubSeqProperties, LenProperties DEF FramesOK, Top
<1>9. FramesOK(heap', frames')
  BY <1>1, <1>5, <1>8, Running DEF FramesOK
<1> HIDE DEF cut
<1>10. StackOK(heap', frames', cut)
  <2> SUFFICES ASSUME NEW i \in DOMAIN cut, cut[i].tag = "P",
                      LocalOK(frames, i, cut[i])
               PROVE  LocalOK(frames', i, cut[i])
    BY <1>7 DEF StackOK, PlaceOK
  <2> DEFINE p == cut[i]
  <2>1. i \in 1 .. Cur.base
    BY <1>7, LenProperties DEF StackOK
  <2>2. p.fr \in 1 .. Top
    BY <1>1, Running DEF LocalOK
  <2>3. p.fr # Top
    BY <1>1, <2>1, Running DEF LocalOK, Cur
  <2>4. p.fr \in 1 .. Top - 1 /\ p.fr < Top
    BY <1>1, <2>2, <2>3, Running
  <2>5. p.fr < Top - 1 => p.fr + 1 \in 1 .. Top - 1
    BY <1>1, <2>4, Running
  <2> QED
    BY <1>8, <2>4, <2>5 DEF LocalOK, Top
<1>11. V(v) \in Entry(DOMAIN heap') /\ V(v).tag = "V"
  BY <1>3 DEF V, Entry, ValEntry
<1>12. StackOK(heap', frames', stack') /\ Len(stack') = Cur.base + 1
  <2>1. PlaceOK(heap', frames', Len(cut) + 1, V(v))
    BY <1>11 DEF PlaceOK
  <2> QED
    BY <1>4, <1>7, <1>10, <1>11, <2>1, Pushing
<1>13. BasesOK(frames', Len(stack'))
  <2>1. \A j \in 1 .. Top - 1 : frames[j].base \in Nat /\ frames[j].base <= Cur.base
    BY <1>1, <1>6, <1>8, Running, SMTT(60) DEF Cur, IInv, BasesOK, Frame
  <2>2. \A j \in 1 .. Top - 1 : frames[j].base <= Cur.base + 1
    BY <1>6, <2>1
  <2>3. \A j \in DOMAIN frames' : frames'[j].base <= Len(stack')
    BY <1>8, <1>12, <2>2
  <2>4. \A j \in DOMAIN frames' : j \in DOMAIN frames /\ frames'[j] = frames[j]
    BY <1>1, <1>8, Running
  <2>5. \A i, j \in DOMAIN frames' : i <= j => frames'[i].base <= frames'[j].base
    BY <2>4 DEF IInv, BasesOK
  <2> QED
    BY <2>3, <2>5 DEF BasesOK
<1>14. RestOK(heap', pending', match')
  BY <1>3, <1>4, SameRest
<1>15. ModeOK'
  <2>1. frames' # <<>>
    BY <1>6, <1>8
  <2> QED
    BY <1>4, <2>1 DEF ModeOK, IInv, Settle
<1> QED
  BY <1>3, <1>9, <1>12, <1>13, <1>14, <1>15 DEF IInv

LEMMA HostCallStep ==
  ASSUME IInv, NEW n \in Nat, HostCall(n)
  PROVE  IInv'
<1>1. /\ mode = "exec" /\ n + 1 \in Nat /\ n + 1 <= Len(stack) - Cur.base
      /\ Settle /\ Rigid
  BY Arguments DEF HostCall
<1>2. MaxLen \in Nat
  BY BoundsAssumption
<1>3. CASE UNCHANGED heap /\ Replace(n + 1, Unit)
  <2>1. Unit \in Val(DOMAIN heap')
    BY NamesAssumption DEF Val
  <2> QED
    BY <1>1, <1>3, <2>1, SameHeap, SameRest, ReplaceStep DEF Rigid
<1>4. ASSUME NEW b \in Obj \ Live, heap' = Add(heap, b, Bytes(MaxLen)), Replace(n + 1, b)
      PROVE  IInv'
  <2>1. HeapOK(heap') /\ Keeps(heap, heap') /\ DOMAIN heap' = Live \cup {b}
    BY <1>2, <1>4, BytesOK, Adding DEF IInv, Bytes, AllKinds, Live
  <2>2. b \in Val(DOMAIN heap')
    BY <2>1 DEF Val
  <2> QED
    BY <1>1, <1>4, <2>1, <2>2, SameRest, ReplaceStep DEF Rigid
<1>5. ASSUME NEW b \in Obj \ Live, NEW o \in Obj \ (Live \cup {b}),
             NEW kind \in {"ENUM", "ARRAY"},
             heap' = Add(Add(heap, b, Bytes(MaxLen)), o, [kind |-> kind, items |-> <<b>>]),
             Replace(n + 1, o)
      PROVE  IInv'
  <2> DEFINE h == Add(heap, b, Bytes(MaxLen))
  <2>1. HeapOK(h) /\ Keeps(heap, h) /\ DOMAIN h = Live \cup {b}
    BY <1>2, BytesOK, Adding DEF IInv, Bytes, AllKinds, Live
  <2>2. <<b>> \in Seq(Val(DOMAIN h)) /\ o \in Obj \ DOMAIN h
    BY <2>1 DEF Val
  <2>3. HeapOK(heap') /\ Keeps(h, heap') /\ DOMAIN heap' = DOMAIN h \cup {o}
    <3>1. heap' = Add(h, o, [kind |-> kind, items |-> <<b>>])
      BY <1>5
    <3>2. kind \in AllKinds /\ kind # "REF"
      BY DEF AllKinds
    <3> HIDE DEF h
    <3> QED
      BY <2>1, <2>2, <3>1, <3>2, Adding, ZenonT(120)
  <2>4. Keeps(heap, heap') /\ o \in Val(DOMAIN heap')
    BY <2>1, <2>3, KeepsTransitive DEF Val
  <2> QED
    BY <1>1, <1>5, <2>3, <2>4, SameRest, ReplaceStep DEF Rigid
<1> QED
  BY <1>3, <1>4, <1>5 DEF HostCall

-----------------------------------------------------------------------------
(* The collector.                                                          *)

\* What the collector reaches holds its roots and is closed: an item of a
\* reached object is reached, if it is an object at all.
LEMMA ReachClosed ==
  ASSUME NEW R
  PROVE  /\ Reach(R) \subseteq Live
         /\ R \cap Live \subseteq Reach(R)
         /\ \A o \in Reach(R) : Refs(o) \subseteq Reach(R)
<1>1. Reach(R) \subseteq Live /\ R \cap Live \subseteq Reach(R)
  BY DEF Reach, Closure
<1>2. ASSUME NEW o \in Reach(R), NEW q \in Refs(o)
      PROVE  q \in Reach(R)
  <2>1. q \in Live /\ o \in Live
    BY DEF Refs, Reach, Closure
  <2>2. ASSUME NEW S \in SUBSET Live, R \cap Live \subseteq S,
               \A p \in S : Refs(p) \cap Live \subseteq S
        PROVE  q \in S
    <3>1. o \in S
      BY <2>2 DEF Reach, Closure
    <3> QED
      BY <2>1, <2>2, <3>1
  <2> QED
    BY <2>1, <2>2 DEF Reach, Closure
<1> QED
  BY <1>1, <1>2

\* The roots are complete.
LEMMA RootsComplete ==
  /\ \A i \in DOMAIN stack : EntryRefs(stack[i]) \subseteq Roots
  /\ \A k \in DOMAIN frames : \A s \in frames[k].active : frames[k].loc[s] \in Roots
  /\ \A i \in DOMAIN pending : pending[i].val \in Roots
  /\ match \in Roots
<1>1. Roots = StackRefs(stack) \cup LocalRefs(frames) \cup PendingRefs(pending) \cup {match}
  BY DEF Roots, RootSet
<1>2. \A i \in DOMAIN stack : EntryRefs(stack[i]) \subseteq StackRefs(stack)
  BY DEF StackRefs
<1>3. \A k \in DOMAIN frames : \A s \in frames[k].active :
        frames[k].loc[s] \in LocalRefs(frames)
  <2> SUFFICES ASSUME NEW k \in DOMAIN frames, NEW s \in frames[k].active
               PROVE  frames[k].loc[s] \in LocalRefs(frames)
    OBVIOUS
  <2>1. frames[k].loc[s] \in {frames[k].loc[t] : t \in frames[k].active}
    OBVIOUS
  <2> QED
    BY <2>1 DEF LocalRefs
<1>4. \A i \in DOMAIN pending : pending[i].val \in PendingRefs(pending)
  BY DEF PendingRefs
<1> QED
  BY <1>1, <1>2, <1>3, <1>4

\* The collector keeps the state over what it keeps of the heap.
LEMMA GcMaybeStep ==
  ASSUME IInv, GcMaybe
  PROVE  IInv'
<1> DEFINE K == Reach(Roots)
<1>1. /\ heap' = [o \in K |-> heap[o]]
      /\ threshold' = 2 * Cardinality(K) + GcSlack
      /\ mode = "gc" /\ mode' = "exec"
      /\ UNCHANGED <<armed, stack, frames, pending, match>>
  BY DEF GcMaybe, Collect
<1>2. /\ K \subseteq Live /\ Live \subseteq Obj
      /\ Roots \cap Live \subseteq K
      /\ \A o \in K : Refs(o) \subseteq K
  BY <1>1, ReachClosed, Running
<1> HIDE DEF K
<1>3. DOMAIN heap' = K /\ \A o \in K : heap'[o] = heap[o]
  BY <1>1
<1>4. \A v \in Val(Live) : v \in Roots => v \in Val(K)
  BY <1>2 DEF Val
<1>5. HeapOK(heap')
  <2>1. ASSUME NEW o \in K
        PROVE  heap[o] \in Object(K)
    <3>1. o \in Live /\ heap[o] \in Object(Live)
      BY <1>2, <2>1 DEF IInv, HeapOK, Live
    <3>2. \A i \in 1 .. Len(Items(o)) : Items(o)[i] \in Val(K)
      <4>1. ASSUME NEW i \in DOMAIN Items(o)
            PROVE  Items(o)[i] \in Val(K)
        <5>1. Items(o)[i] \in Val(Live)
          BY <3>1, ItemsOK
        <5>2. Items(o)[i] \in Live => Items(o)[i] \in Refs(o)
          BY DEF Refs
        <5> QED
          BY <1>2, <5>1, <5>2 DEF Val
      <4> QED
        BY <3>1, <4>1, ItemsOK
    <3>3. Items(o) \in Seq(Val(K))
      <4>1. Items(o) \in [1 .. Len(Items(o)) -> Val(K)]
        BY <3>1, <3>2, ItemsOK
      <4> QED
        BY <3>1, <4>1, ItemsOK, FunIsSeq
    <3> QED
      BY <3>1, <3>3 DEF Object, Items
  <2>2. heap' \in [K -> Object(K)]
    BY <1>1, <2>1
  <2>3. \A o \in K : heap'[o].kind = "REF" => 1 \in DOMAIN heap'[o].items
    BY <1>2, <1>3 DEF IInv, HeapOK, Live
  <2> QED
    BY <1>2, <1>3, <2>2, <2>3 DEF HeapOK
<1>6. FramesOK(heap', frames)
  <2>1. ASSUME NEW k \in 1 .. Top
        PROVE  frames[k] \in Frame(K)
    <3>1. frames[k] \in Frame(Live) /\ ScopesOK(frames[k]) /\ k \in DOMAIN frames
      BY <1>1, Running
    <3>2. ASSUME NEW s \in Slot
          PROVE  frames[k].loc[s] \in Val(K)
      <4>1. CASE s \in frames[k].active
        <5>1. frames[k].loc[s] \in Roots
          BY <3>1, <4>1, RootsComplete
        <5> QED
          BY <1>4, <3>1, <5>1 DEF Frame
      <4>2. CASE s \notin frames[k].active
        BY <3>1, <4>2 DEF ScopesOK, Val
      <4> QED
        BY <4>1, <4>2
    <3> QED
      BY <3>1, <3>2 DEF Frame
  <2>2. frames \in Seq(Frame(K))
    <3>1. frames \in [1 .. Top -> Frame(K)]
      BY <1>1, <2>1, Running, SeqDef DEF IInv, FramesOK
    <3> QED
      BY <1>1, <3>1, Running, FunIsSeq
  <2> QED
    BY <1>3, <2>2 DEF FramesOK, IInv
<1>7. StackOK(heap', frames, stack)
  <2>1. ASSUME NEW i \in 1 .. Len(stack)
        PROVE  stack[i] \in Entry(K) /\ PlaceOK(heap', frames, i, stack[i])
    <3> DEFINE e == stack[i]
    <3>1. e \in Entry(Live) /\ i \in DOMAIN stack /\ PlaceOK(heap, frames, i, e)
      BY <1>1, Running DEF IInv, StackOK
    <3>2. EntryRefs(e) \subseteq Roots
      BY <3>1, RootsComplete
    <3> HIDE DEF e
    <3>3. CASE e.tag = "V"
      <4>1. e \in ValEntry(Live)
        BY <3>1, <3>3 DEF Entry, PlaceEntry
      <4>2. e.v \in Val(Live)
        BY <4>1 DEF ValEntry
      <4>3. e.v \in Val(K)
        BY <1>2, <3>2, <3>3, <4>2 DEF EntryRefs, Val
      <4>4. e \in ValEntry(K)
        BY <4>1, <4>3 DEF ValEntry
      <4> QED
        BY <3>3, <4>4 DEF Entry, PlaceOK, e
    <3>4. CASE e.tag # "V"
      <4>1. e \in PlaceEntry(Live)
        BY <3>1, <3>4 DEF Entry, ValEntry
      <4>2. /\ e.own \in K \cup {NoObj} /\ e.arr \in K \cup {NoObj}
            /\ e.root \in K \cup {NoObj}
        <5>1. {e.own, e.arr, e.root} \cap Obj \subseteq Roots
          BY <3>2, <3>4 DEF EntryRefs
        <5>2. {e.own, e.arr, e.root} \subseteq Live \cup {NoObj}
          BY <4>1 DEF PlaceEntry
        <5> QED
          BY <1>2, <5>1, <5>2
      <4>3. e \in PlaceEntry(K)
        BY <4>1, <4>2 DEF PlaceEntry
      <4>4. PlaceOK(heap', frames, i, e)
        BY <1>3, <3>1, <4>2 DEF PlaceOK
      <4> QED
        BY <4>3, <4>4 DEF Entry, e
    <3> QED
      BY <3>3, <3>4
  <2>2. stack \in Seq(Entry(K))
    <3>1. stack \in [1 .. Len(stack) -> Entry(K)]
      BY <1>1, <2>1, Running, SeqDef DEF IInv, StackOK
    <3> QED
      BY <1>1, <3>1, Running, FunIsSeq
  <2> QED
    BY <1>1, <1>3, <2>1, <2>2, Running DEF StackOK
<1>8. RestOK(heap', pending, match)
  <2>1. /\ Len(pending) \in Nat /\ DOMAIN pending = 1 .. Len(pending)
        /\ \A i \in 1 .. Len(pending) : pending[i] \in Binding(Live)
        /\ pending \in [1 .. Len(pending) -> Binding(Live)]
        /\ match \in Val(Live) \cup {NoMatch}
    BY LenProperties, ElementOfSeq, SeqDef DEF IInv, RestOK, Live
  <2>2. ASSUME NEW i \in 1 .. Len(pending)
        PROVE  pending[i] \in Binding(K)
    <3>1. pending[i].val \in Roots
      BY <2>1, RootsComplete
    <3> QED
      BY <1>4, <2>1, <3>1 DEF Binding
  <2>3. pending \in Seq(Binding(K))
    BY <2>1, <2>2, FunIsSeq
  <2>4. match \in Val(K) \cup {NoMatch}
    BY <1>4, <2>1, RootsComplete
  <2> QED
    BY <1>3, <2>3, <2>4 DEF RestOK
<1>9. ModeOK'
  <2>1. Cardinality(K) \in Nat
    BY <1>2, NamesAssumption, FS_Subset, FS_CardinalityType
  <2> QED
    BY <1>1, BoundsAssumption, <2>1 DEF ModeOK, IInv
<1> QED
  BY <1>1, <1>5, <1>6, <1>7, <1>8, <1>9 DEF IInv

-----------------------------------------------------------------------------
(* The embedding boundary.                                                 *)

\* Nothing is reached from roots that are not objects.
LEMMA ReachNothing ==
  ASSUME NEW R, R \cap Live = {}
  PROVE  Reach(R) = {}
<1>1. ASSUME NEW o \in Reach(R)
      PROVE  FALSE
  BY {} \in SUBSET Live DEF Reach, Closure
<1> QED
  BY <1>1

LEMMA EmptyHeapOK ==
  ASSUME NEW h, DOMAIN h = {}, h = [o \in {} |-> h[o]]
  PROVE  HeapOK(h)
BY DEF HeapOK

\* A VM with no frame is in order whatever its heap.
LEMMA CleanOK ==
  ASSUME NEW h
  PROVE  /\ FramesOK(h, <<>>) /\ BasesOK(<<>>, Len(<<>>))
         /\ StackOK(h, <<>>, <<>>) /\ RestOK(h, <<>>, NoMatch)
<1>1. DOMAIN <<>> = {} /\ \A S : <<>> \in Seq(S)
  OBVIOUS
<1> QED
  BY <1>1 DEF FramesOK, BasesOK, StackOK, RestOK

\* A call is entered with an empty frame on an empty stack.
LEMMA StartStep ==
  ASSUME IInv, mode = "idle", Start, armed' \in BOOLEAN
  PROVE  IInv'
<1>1. Clean(frames, stack, pending, match)
  BY DEF IInv, ModeOK
<1> DEFINE fr == NewFrame(<<>>, 0)
<1>2. /\ frames' = <<fr>> /\ mode' = "exec"
      /\ UNCHANGED <<heap, threshold, stack, pending, match>>
      /\ stack' = <<>>
  BY <1>1 DEF Start, Clean
<1>3. fr \in Frame(DOMAIN heap') /\ ScopesOK(fr) /\ fr.base = 0
  <2>1. <<>> \in Seq(Val(DOMAIN heap')) /\ Len(<<>>) = 0 /\ 0 <= NSlots
    BY BoundsAssumption
  <2> QED
    BY <2>1, NewFrameOK
<1> HIDE DEF fr
<1>4. /\ frames' \in Seq(Frame(DOMAIN heap')) /\ frames' # <<>>
      /\ DOMAIN frames' = {1} /\ frames'[1] = fr
  BY <1>2, <1>3
<1>5. FramesOK(heap', frames') /\ BasesOK(frames', Len(stack'))
  <2>1. Len(stack') = 0
    BY <1>2
  <2> QED
    BY <1>3, <1>4, <2>1 DEF FramesOK, BasesOK
<1>6. StackOK(heap', frames', stack')
  BY <1>2 DEF StackOK
<1> QED
  BY <1>2, <1>4, <1>5, <1>6 DEF IInv, ModeOK, HeapOK, RestOK

LEMMA InvokeEntryStep ==
  ASSUME IInv, InvokeEntry
  PROVE  IInv'
BY StartStep DEF InvokeEntry

LEMMA CallFunctionStep ==
  ASSUME IInv, CallFunction
  PROVE  IInv'
BY StartStep DEF CallFunction

\* However control goes back to the host, the VM is clean.
LEMMA QuietStep ==
  ASSUME IInv, Quiet, mode' \in {"idle", "closed"}, armed' = FALSE,
         threshold' \in Nat, HeapOK(heap')
  PROVE  IInv'
BY CleanOK DEF IInv, ModeOK, Quiet, Clean

\* The collection of a clean VM keeps nothing.
LEMMA QuietCollect ==
  ASSUME Live \subseteq Obj, Quiet, Collect(RootSet(stack', frames', pending', match'))
  PROVE  DOMAIN heap' = {} /\ HeapOK(heap') /\ threshold' \in Nat
<1> DEFINE R == RootSet(stack', frames', pending', match')
<1>1. /\ StackRefs(stack') = {} /\ LocalRefs(frames') = {}
      /\ PendingRefs(pending') = {} /\ match' = NoMatch
  <2>1. DOMAIN <<>> = {}
    OBVIOUS
  <2> QED
    BY <2>1 DEF Quiet, StackRefs, LocalRefs, PendingRefs
<1>2. R = {NoMatch}
  BY <1>1 DEF RootSet
<1>3. Reach(R) = {}
  BY <1>2, ReachNothing, NamesAssumption
<1>4. heap' = [o \in {} |-> heap[o]] /\ threshold' = 2 * Cardinality({}) + GcSlack
  BY <1>3 DEF Collect
<1>5. DOMAIN heap' = {} /\ heap' = [o \in {} |-> heap'[o]]
  BY <1>4
<1>6. threshold' \in Nat
  BY <1>4, FS_EmptySet, BoundsAssumption
<1> QED
  BY <1>5, <1>6, EmptyHeapOK

LEMMA ReturnToHostStep ==
  ASSUME IInv, ReturnToHost
  PROVE  IInv'
<1>1. Quiet /\ mode' = "idle" /\ armed' = FALSE
  BY DEF ReturnToHost
<1>2. HeapOK(heap') /\ threshold' \in Nat
  <2>1. CASE armed
    BY <1>1, <2>1, QuietCollect DEF ReturnToHost, IInv, HeapOK, Live
  <2>2. CASE ~armed
    <3>1. PICK f \in Copies(<<Arg>>) : heap' = WithCopies(f)
      BY <2>2 DEF ReturnToHost
    <3>2. Arg \in Val(Live) /\ <<Arg>> \in Seq(Val(Live))
      BY Arguments DEF ReturnToHost
    <3>3. HeapOK(heap')
      BY <3>1, <3>2, Copying DEF IInv
    <3> QED
      BY <2>2, <3>3 DEF ReturnToHost, IInv, ModeOK
  <2> QED
    BY <2>1, <2>2
<1> QED
  BY <1>1, <1>2, QuietStep

LEMMA TrapStep ==
  ASSUME IInv, Trap
  PROVE  IInv'
<1>1. Quiet /\ mode' \in {"idle", "closed"} /\ armed' = FALSE
  BY DEF Trap
<1>2. HeapOK(heap') /\ threshold' \in Nat
  <2>1. CASE armed
    BY <1>1, <2>1, QuietCollect DEF Trap, IInv, HeapOK, Live
  <2>2. CASE ~armed
    <3>1. heap' = [o \in {} |-> heap[o]] /\ threshold' = threshold
      BY <2>2 DEF Trap
    <3>2. DOMAIN heap' = {} /\ heap' = [o \in {} |-> heap'[o]]
      BY <3>1
    <3> QED
      BY <3>1, <3>2, EmptyHeapOK DEF IInv, ModeOK
  <2> QED
    BY <2>1, <2>2
<1> QED
  BY <1>1, <1>2, QuietStep

LEMMA DestroyStep ==
  ASSUME IInv, Destroy
  PROVE  IInv'
<1>1. /\ heap' = [o \in {} |-> heap[o]] /\ mode = "idle" /\ mode' = "closed"
      /\ UNCHANGED <<armed, threshold, stack, frames, pending, match>>
  BY DEF Destroy
<1>2. DOMAIN heap' = {} /\ heap' = [o \in {} |-> heap'[o]]
  BY <1>1
<1>3. Clean(frames', stack', pending', match')
  BY <1>1 DEF IInv, ModeOK
<1> QED
  BY <1>1, <1>2, <1>3, EmptyHeapOK, CleanOK DEF IInv, ModeOK, Clean

-----------------------------------------------------------------------------
(* The invariant.                                                          *)

LEMMA InitInvariant == Init => IInv
<1> SUFFICES ASSUME Init PROVE IInv
  OBVIOUS
<1>1. DOMAIN heap = {} /\ heap = [o \in {} |-> heap[o]]
  BY DEF Init
<1> QED
  BY <1>1, EmptyHeapOK, CleanOK, BoundsAssumption DEF Init, IInv, ModeOK, Clean

LEMMA Bounds ==
  ASSUME NEW n \in Ns
  PROVE  n \in Nat
BY BoundsAssumption DEF Ns

LEMMA StutterStep ==
  ASSUME IInv, UNCHANGED vars
  PROVE  IInv'
BY DEF vars, IInv, ModeOK

LEMMA NextInvariant == IInv /\ [Next]_vars => IInv'
<1> SUFFICES ASSUME IInv, [Next]_vars PROVE IInv'
  OBVIOUS
<1>1. CASE GcMaybe
  BY <1>1, GcMaybeStep
<1>2. CASE ValueInstruction
  <2>1. ASSUME NEW n \in 0 .. 2, Compute(n) PROVE IInv'
    BY <2>1, ComputeStep
  <2>2. ASSUME NEW kind \in Kinds, NEW n \in Ns, Make(kind, n) PROVE IInv'
    BY <2>2, MakeStep, Bounds
  <2>3. ASSUME NEW s \in Slot, Load(s) PROVE IInv'
    BY <2>3, LoadStep
  <2>4. ASSUME NEW s \in Slot, Decl(s) PROVE IInv'
    BY <2>4, DeclStep
  <2>5. ASSUME NEW i \in Ns, GetField(i) PROVE IInv'
    BY <2>5, GetFieldStep, Bounds
  <2>6. ASSUME NEW s \in Slot, LocalInc(s) PROVE IInv'
    BY <2>6, LocalIncStep
  <2> QED
    BY <1>2, <2>1, <2>2, <2>3, <2>4, <2>5, <2>6, DerefStep, PopStep, JumpStep
       DEF ValueInstruction
<1>3. CASE PlaceInstruction
  <2>1. ASSUME NEW s \in Slot, LocalPlace(s) PROVE IInv'
    BY <2>1, LocalPlaceStep
  <2>2. ASSUME NEW i \in Ns, FieldPlace(i) PROVE IInv'
    BY <2>2, FieldPlaceStep, Bounds
  <2>3. ASSUME NEW i \in Ns, ValueFieldPlace(i) PROVE IInv'
    BY <2>3, ValueFieldPlaceStep, Bounds
  <2>4. ASSUME NEW i \in Ns, IndexPlace(i) PROVE IInv'
    BY <2>4, IndexPlaceStep, Bounds
  <2> QED
    BY <1>3, <2>1, <2>2, <2>3, <2>4,
       DerefPlaceStep, DupStep, LoadPlaceStep, StorePlaceStep
       DEF PlaceInstruction
<1>4. CASE ArrayInstruction
  <2>1. ASSUME NEW n \in Ns, MakeRepeat(n) PROVE IInv'
    BY <2>1, MakeRepeatStep, Bounds
  <2>2. ASSUME NEW n \in Ns, MakeBytes(n) PROVE IInv'
    BY <2>2, MakeBytesStep, Bounds
  <2>3. ASSUME NEW i \in Ns, Index(i) PROVE IInv'
    BY <2>3, IndexStep, Bounds
  <2>4. ASSUME NEW i \in Ns, NEW j \in Ns, ArraySplice(i, j) PROVE IInv'
    BY <2>4, ArraySpliceStep, Bounds
  <2> QED
    BY <1>4, <2>1, <2>2, <2>3, <2>4, ArrayPushStep, ArrayPopStep
       DEF ArrayInstruction
<1>5. CASE ScopeInstruction
  <2>1. ASSUME NEW n \in 1 .. MaxScopes, ScopeExit(n) PROVE IInv'
    BY <2>1, ScopeExitStep
  <2> QED
    BY <1>5, <2>1, ScopeEnterStep DEF ScopeInstruction
<1>6. CASE PatternInstruction
  <2>1. ASSUME NEW n \in 0 .. NSlots, TryPattern(n) PROVE IInv'
    BY <2>1, TryPatternStep
  <2> QED
    BY <1>6, <2>1, EnterBindingsStep, MergeBindingsStep, DropBindingsStep,
       SaveMatchStep, LoadMatchStep, ClearMatchStep
       DEF PatternInstruction
<1>7. CASE CallInstruction
  <2>1. ASSUME NEW n \in 0 .. NSlots, Call(n, 0) PROVE IInv'
    BY <2>1, CallStep
  <2>2. ASSUME NEW n \in 0 .. NSlots, Call(n, 1) PROVE IInv'
    BY <2>2, CallStep
  <2> QED
    BY <1>7, <2>1, <2>2, ReturnStep DEF CallInstruction
<1>8. CASE HostInstruction
  BY <1>8, HostCallStep DEF HostInstruction
<1>9. CASE InvokeEntry
  BY <1>9, InvokeEntryStep
<1>10. CASE CallFunction
  BY <1>10, CallFunctionStep
<1>11. CASE ReturnToHost
  BY <1>11, ReturnToHostStep
<1>12. CASE Trap
  BY <1>12, TrapStep
<1>13. CASE Destroy
  BY <1>13, DestroyStep
<1>14. CASE UNCHANGED vars
  BY <1>14, StutterStep
<1> QED
  BY <1>1, <1>2, <1>3, <1>4, <1>5, <1>6, <1>7, <1>8, <1>9, <1>10, <1>11,
     <1>12, <1>13, <1>14 DEF Next

\* The VM's state keeps its parts in order at every instruction: the inductive
\* invariant all the properties follow from.
THEOREM Invariant == Spec => []IInv
BY InitInvariant, NextInvariant, PTL DEF Spec

-----------------------------------------------------------------------------
(* The properties.                                                         *)

LEMMA InvariantIsDangling == IInv => NoDangling
BY DEF IInv, HeapOK, FramesOK, StackOK, RestOK, NoDangling, Over, Live

LEMMA InvariantIsTypeOK == IInv => TypeOK
<1> SUFFICES ASSUME IInv PROVE TypeOK
  OBVIOUS
<1>1. Live \subseteq Obj
  BY DEF IInv, HeapOK, Live
<1>2. Over(Live)
  BY InvariantIsDangling DEF NoDangling
<1>3. Over(Obj)
  BY <1>1, <1>2, Wider DEF Over
<1> QED
  BY <1>1, <1>3 DEF IInv, ModeOK, TypeOK

\* No pointer the VM may still follow is dangling: gc_collect frees only what
\* nothing reaches, for any program, heap and bounds.
THEOREM NoDanglingHolds == Spec => []NoDangling
BY Invariant, InvariantIsDangling, PTL

\* The VM's state is well formed.
THEOREM TypeOKHolds == Spec => []TypeOK
BY Invariant, InvariantIsTypeOK, PTL

LEMMA InvariantIsCellsValid == IInv => CellsValid
<1> SUFFICES ASSUME IInv, NEW i \in DOMAIN stack, stack[i].tag = "P", Usable(stack[i])
             PROVE  LET o == CellOwner(stack[i])
                        x == CellIx(stack[i])
                    IN  IF o = NoObj
                        THEN LET k == stack[i].fr
                             IN  /\ k \in DOMAIN frames /\ x \in frames[k].active
                                 /\ frames[k].base < i
                                 /\ k < Top => i <= frames[k + 1].base
                        ELSE /\ o \in Live /\ heap[o].kind # "ENUM"
                             /\ x \in DOMAIN Items(o)
  BY DEF CellsValid
<1>1. i \in 1 .. Len(stack) /\ mode \in {"exec", "gc"}
  <2>1. stack # <<>>
    OBVIOUS
  <2>2. mode \in {"exec", "gc"}
    BY <2>1 DEF IInv, ModeOK, Clean
  <2> QED
    BY <2>2, Running
<1>2. CASE CellOwner(stack[i]) = NoObj
  BY <1>1, <1>2, ReadOK DEF LocalOK, Top
<1>3. CASE CellOwner(stack[i]) # NoObj
  BY <1>1, <1>3, ReadOK
<1> QED
  BY <1>2, <1>3

\* Every place place_cell lets through denotes an existing cell, whatever the
\* evaluation of the right-hand side did to the array or struct it points into.
THEOREM CellsValidHolds == Spec => []CellsValid
BY Invariant, InvariantIsCellsValid, PTL

\* An instruction leaves control in the loop of vm_call.
LEMMA InstructionsStay ==
  ASSUME \/ ValueInstruction \/ PlaceInstruction \/ ArrayInstruction
         \/ ScopeInstruction \/ PatternInstruction \/ CallInstruction
         \/ HostInstruction \/ GcMaybe
  PROVE  mode' # "idle"
<1>1. Settle => mode' # "idle"
  BY DEF Settle
<1>2. CASE ValueInstruction
  BY <1>1, <1>2, ZenonT(120) DEF ValueInstruction, Compute, Make, Load, Decl, LocalInc, GetField, Deref,
     Pop, Jump, PushCopy
<1>3. CASE PlaceInstruction
  BY <1>1, <1>3, ZenonT(120) DEF PlaceInstruction, LocalPlace, FieldPlace, ValueFieldPlace,
     IndexPlace, DerefPlace, Dup, LoadPlace, StorePlace, PushCopy
<1>4. CASE ArrayInstruction
  BY <1>1, <1>4, ZenonT(120) DEF ArrayInstruction, MakeRepeat, MakeBytes, Index, ArrayPush,
     ArrayPop, ArraySplice, PushCopy
<1>5. CASE ScopeInstruction \/ PatternInstruction
  BY <1>1, <1>5 DEF ScopeInstruction, PatternInstruction, ScopeEnter, ScopeExit,
     TryPattern, EnterBindings, MergeBindings, TakeBindings, DropBindings,
     SaveMatch, LoadMatch, ClearMatch, PushCopy
<1>6. CASE CallInstruction \/ HostInstruction \/ GcMaybe
  BY <1>1, <1>6 DEF CallInstruction, HostInstruction, Call, Return, HostCall,
     GcMaybe, Operands
<1> QED
  BY <1>2, <1>3, <1>4, <1>5, <1>6

LEMMA ProtectedCallCollects ==
  IInv /\ [Next]_vars => [armed /\ mode' = "idle" => DOMAIN heap' = {}]_vars
<1> SUFFICES ASSUME IInv, Next, armed, mode' = "idle" PROVE DOMAIN heap' = {}
  BY DEF vars
<1>1. Live \subseteq Obj
  BY DEF IInv, HeapOK, Live
<1>2. CASE ReturnToHost
  BY <1>1, <1>2, QuietCollect DEF ReturnToHost
<1>3. CASE Trap
  BY <1>1, <1>3, QuietCollect DEF Trap
<1> QED
  BY <1>2, <1>3, InstructionsStay DEF Next, InvokeEntry, CallFunction, Start, Destroy

\* However a protected call ends, nothing it allocated outlives it.
THEOREM CallLeavesNoGarbageHolds == Spec => CallLeavesNoGarbage
<1>1. Spec => [][Next]_vars /\ []IInv
  BY Invariant, PTL DEF Spec
<1> QED
  BY <1>1, ProtectedCallCollects, PTL DEF CallLeavesNoGarbage

=============================================================================
