---------------------------- MODULE CodegenProofs ----------------------------
(***************************************************************************)
(* Proofs about codegen.c: first CfgGen, how statements become blocks, for *)
(* all sets of labels and all bounds; then Expression, what the operands   *)
(* of the instructions in these blocks stand for, for all widths of the    *)
(* integer types, all values of the variables and all literals.            *)
(*                                                                         *)
(* Blocks.  A block that has no terminator yet is owed one by somebody: by *)
(* the statement at the insertion point, by an activation that keeps the   *)
(* block in a local variable, or by the label it was made for.  Ledger     *)
(* says that every open block has such an owner, and only one; the rest is *)
(* about what the activations remember.                                    *)
(*                                                                         *)
(* Expressions.  An LLVM integer stands for a number if it has its lowest  *)
(* bits and the number is in the range of its type.  What is kept is that  *)
(* the value of an operand stands for C's number, under the signedness of  *)
(* its node, and that the types of node and number agree: equal, or the    *)
(* node is of a type that C promotes, or it is the difference of pointers. *)
(* Two operands of which one is wide then meet in the LLVM type of C's     *)
(* usual conversions, and what the instruction makes of their lowest bits  *)
(* is what C's operator makes of the numbers.                              *)
(***************************************************************************)
EXTENDS CfgGen, Expression, TLAPS, WellFoundedInduction

Opens(bs) == {b \in 1 .. Len(bs) : bs[b] = "open"}

Clean(bs) == \A b \in 1 .. Len(bs) : bs[b] \in {"open", "closed"}

(* The blocks that an activation still has to end. *)
ClaimsOf(f) ==
  CASE f.kind = "then" -> {f.head}
    [] f.kind = "else" -> IF f.thenRet THEN {} ELSE {f.head}
    [] f.kind \in {"while", "switch"} -> {f.exit}
    [] f.kind = "for" -> {f.head, f.exit}
    [] OTHER -> {}

Claims(s) == UNION {ClaimsOf(s[i]) : i \in 1 .. Len(s)}

(* The blocks of the labels whose statements did not come yet. *)
Waiting(lb, pl) == {lb[l] : l \in Labels \ pl} \ {NULL}

-----------------------------------------------------------------------------
(* Blocks *)

LEMMA NewBlocks ==
  ASSUME NEW bs \in Seq(BlockStates), NEW k \in Nat
  PROVE  /\ New(bs, k) \in Seq(BlockStates)
         /\ Len(New(bs, k)) = Len(bs) + k
         /\ Opens(New(bs, k)) = Opens(bs) \cup (Len(bs) + 1 .. Len(bs) + k)
         /\ Clean(bs) => Clean(New(bs, k))
<1> DEFINE os == [i \in 1 .. k |-> "open"]
<1>1. os \in Seq(BlockStates) /\ Len(os) = k /\ \A i \in 1 .. k : os[i] = "open"
  BY DEF BlockStates
<1> HIDE DEF os
<1>2. New(bs, k) = bs \o os
  BY DEF New, os
<1>3. /\ bs \o os \in Seq(BlockStates)
      /\ Len(bs \o os) = Len(bs) + k
      /\ \A i \in 1 .. Len(bs) + k :
           (bs \o os)[i] = IF i <= Len(bs) THEN bs[i] ELSE os[i - Len(bs)]
  BY <1>1
<1>4. \A i \in 1 .. Len(bs) + k :
        (bs \o os)[i] = IF i <= Len(bs) THEN bs[i] ELSE "open"
  BY <1>1, <1>3
<1> QED
  BY <1>2, <1>3, <1>4 DEF Opens, Clean

LEMMA TerminateBlocks ==
  ASSUME NEW bs \in Seq(BlockStates), NEW b \in 1 .. Len(bs)
  PROVE  /\ Terminate(bs, b) \in Seq(BlockStates)
         /\ Len(Terminate(bs, b)) = Len(bs)
         /\ Opens(Terminate(bs, b)) = Opens(bs) \ {b}
         /\ Clean(bs) /\ b \in Opens(bs) => Clean(Terminate(bs, b))
  BY DEF Terminate, BlockStates, Opens, Clean

LEMMA TerminateOnceBlocks ==
  ASSUME NEW bs \in Seq(BlockStates), NEW b \in 1 .. Len(bs)
  PROVE  /\ TerminateOnce(bs, b) \in Seq(BlockStates)
         /\ Len(TerminateOnce(bs, b)) = Len(bs)
         /\ Opens(TerminateOnce(bs, b)) = Opens(bs) \ {b}
         /\ Clean(bs) => Clean(TerminateOnce(bs, b))
  BY DEF TerminateOnce, BlockStates, Opens, Clean

LEMMA EmitBlocks ==
  ASSUME NEW bs \in Seq(BlockStates), NEW b \in 1 .. Len(bs)
  PROVE  /\ Emit(bs, b) \in Seq(BlockStates)
         /\ Len(Emit(bs, b)) = Len(bs)
         /\ b \in Opens(bs) => Emit(bs, b) = bs
  BY DEF Emit, BlockStates, Opens

(* The builder goes from block b of bs to block c of ds, which takes over the
   terminator that b is owed. *)
Moves(bs, b, ds, c) ==
  /\ ds \in Seq(BlockStates)
  /\ Len(ds) \in Nat /\ Len(ds) >= Len(bs)
  /\ c \in 1 .. Len(ds)
  /\ c = b \/ c > Len(bs)
  /\ b \in Opens(bs) =>
       /\ Opens(ds) = (Opens(bs) \ {b}) \cup {c}
       /\ Clean(bs) => Clean(ds)

(* An expression moves on to a block that is its own. *)
LEMMA EvalMoves ==
  ASSUME NEW bs \in Seq(BlockStates), NEW b \in 1 .. Len(bs), NEW e \in Shapes
  PROVE  \E ds, c : /\ Eval(bs, b, e).bs = ds /\ Eval(bs, b, e).at = c
                    /\ Moves(bs, b, ds, c)
<1> DEFINE n == Len(bs)
<1>0. /\ n \in Nat /\ n = Len(bs) /\ b \in Int /\ b >= 1 /\ b <= n
      /\ \A x \in Opens(bs) : x \in 1 .. n
  BY DEF Opens
<1>1. CASE e = "plain"
  <2>1. Eval(bs, b, e).bs = Emit(bs, b) /\ Eval(bs, b, e).at = b
    BY <1>1 DEF Eval
  <2>2. Emit(bs, b) \in Seq(BlockStates) /\ Len(Emit(bs, b)) = n
    BY EmitBlocks
  <2>3. b \in Opens(bs) => Emit(bs, b) = bs
    BY EmitBlocks
  <2>4. Moves(bs, b, Emit(bs, b), b)
    BY <1>0, <2>2, <2>3 DEF Moves
  <2> QED
    BY <2>1, <2>4
<1>2. CASE e = "logical"
  <2> DEFINE c == New(bs, 2)
             d == Emit(c, b)
             f == Terminate(d, b)
             g == Terminate(f, n + 1)
  <2>1. Eval(bs, b, e).bs = g /\ Eval(bs, b, e).at = n + 2
    BY <1>2 DEF Eval
  <2>2. /\ c \in Seq(BlockStates) /\ Len(c) = n + 2
        /\ Opens(c) = Opens(bs) \cup (n + 1 .. n + 2)
        /\ Clean(bs) => Clean(c)
    BY NewBlocks
  <2>3. d \in Seq(BlockStates) /\ Len(d) = n + 2 /\ (b \in Opens(c) => d = c)
    BY <1>0, <2>2, EmitBlocks
  <2>4. /\ f \in Seq(BlockStates) /\ Len(f) = n + 2
        /\ Opens(f) = Opens(d) \ {b}
        /\ Clean(d) /\ b \in Opens(d) => Clean(f)
    BY <1>0, <2>3, TerminateBlocks
  <2>5. /\ g \in Seq(BlockStates) /\ Len(g) = n + 2
        /\ Opens(g) = Opens(f) \ {n + 1}
        /\ Clean(f) /\ n + 1 \in Opens(f) => Clean(g)
    BY <1>0, <2>4, TerminateBlocks
  <2> HIDE DEF n, c, d, f, g
  <2>6. ASSUME b \in Opens(bs)
        PROVE  /\ Opens(g) = (Opens(bs) \ {b}) \cup {n + 2}
               /\ Clean(bs) => Clean(g)
    <3>1. b \in Opens(c) /\ n + 1 \in Opens(c) /\ d = c
      BY <1>0, <2>2, <2>3, <2>6
    <3>2. n + 1 \in Opens(f)
      BY <1>0, <2>4, <3>1
    <3>3. Opens(g) = ((Opens(bs) \cup (n + 1 .. n + 2)) \ {b}) \ {n + 1}
      BY <2>2, <2>4, <2>5, <3>1
    <3>4. Opens(g) = (Opens(bs) \ {b}) \cup {n + 2}
      BY <1>0, <3>3
    <3> QED
      BY <2>2, <2>4, <2>5, <3>1, <3>2, <3>4
  <2>7. n + 2 \in 1 .. Len(g) /\ n + 2 > Len(bs) /\ Len(g) \in Nat /\ Len(g) >= Len(bs)
    BY <1>0, <2>5
  <2>8. Moves(bs, b, g, n + 2)
    BY <2>5, <2>6, <2>7 DEF Moves
  <2> QED
    BY <2>1, <2>8
<1>3. CASE e = "ternary"
  <2> DEFINE c == New(bs, 3)
             d == Emit(c, b)
             f == Terminate(d, b)
             g == Terminate(f, n + 1)
             h == Terminate(g, n + 2)
  <2>1. Eval(bs, b, e).bs = h /\ Eval(bs, b, e).at = n + 3
    BY <1>3 DEF Eval
  <2>2. /\ c \in Seq(BlockStates) /\ Len(c) = n + 3
        /\ Opens(c) = Opens(bs) \cup (n + 1 .. n + 3)
        /\ Clean(bs) => Clean(c)
    BY NewBlocks
  <2>3. d \in Seq(BlockStates) /\ Len(d) = n + 3 /\ (b \in Opens(c) => d = c)
    BY <1>0, <2>2, EmitBlocks
  <2>4. /\ f \in Seq(BlockStates) /\ Len(f) = n + 3
        /\ Opens(f) = Opens(d) \ {b}
        /\ Clean(d) /\ b \in Opens(d) => Clean(f)
    BY <1>0, <2>3, TerminateBlocks
  <2>5. /\ g \in Seq(BlockStates) /\ Len(g) = n + 3
        /\ Opens(g) = Opens(f) \ {n + 1}
        /\ Clean(f) /\ n + 1 \in Opens(f) => Clean(g)
    BY <1>0, <2>4, TerminateBlocks
  <2>6. /\ h \in Seq(BlockStates) /\ Len(h) = n + 3
        /\ Opens(h) = Opens(g) \ {n + 2}
        /\ Clean(g) /\ n + 2 \in Opens(g) => Clean(h)
    BY <1>0, <2>5, TerminateBlocks
  <2> HIDE DEF n, c, d, f, g, h
  <2>7. ASSUME b \in Opens(bs)
        PROVE  /\ Opens(h) = (Opens(bs) \ {b}) \cup {n + 3}
               /\ Clean(bs) => Clean(h)
    <3>1. b \in Opens(c) /\ {n + 1, n + 2} \subseteq Opens(c) /\ d = c
      BY <1>0, <2>2, <2>3, <2>7
    <3>2. {n + 1, n + 2} \subseteq Opens(f) /\ n + 2 \in Opens(g)
      BY <1>0, <2>4, <2>5, <3>1
    <3>3. Opens(h) = (((Opens(bs) \cup (n + 1 .. n + 3)) \ {b}) \ {n + 1}) \ {n + 2}
      BY <2>2, <2>4, <2>5, <2>6, <3>1
    <3>4. Opens(h) = (Opens(bs) \ {b}) \cup {n + 3}
      BY <1>0, <3>3
    <3> QED
      BY <2>2, <2>4, <2>5, <2>6, <3>1, <3>2, <3>4
  <2>8. n + 3 \in 1 .. Len(h) /\ n + 3 > Len(bs) /\ Len(h) \in Nat /\ Len(h) >= Len(bs)
    BY <1>0, <2>6
  <2>9. Moves(bs, b, h, n + 3)
    BY <2>6, <2>7, <2>8 DEF Moves
  <2> QED
    BY <2>1, <2>9
<1> QED
  BY <1>1, <1>2, <1>3 DEF Shapes

-----------------------------------------------------------------------------
(* Frames *)

(* A new activation of a kind: where it keeps what, and the targets of now. *)
Opened(f, k, l, h, x, t) ==
  /\ f \in Frames
  /\ f.kind = k /\ f.ret = FALSE /\ f.list = l
  /\ f.head = h /\ f.exit = x /\ f.thenRet = t
  /\ f.brk = brk /\ f.cnt = cnt /\ f.sw = sw

LEMMA FrameFields ==
  ASSUME NEW k \in FrameKinds, brk \in Nat, cnt \in Nat, sw \in Nat
  PROVE  Opened(Frame(k), k, FALSE, 0, 0, FALSE)
  BY Zenon, 0 \in Nat DEF Frame, Frames, Opened, NULL

LEMMA ListField ==
  ASSUME NEW f, NEW k, NEW l, NEW h, NEW x, NEW t, Opened(f, k, l, h, x, t),
         NEW m \in BOOLEAN
  PROVE  Opened([f EXCEPT !.list = m], k, m, h, x, t)
  BY Zenon DEF Frames, Opened

LEMMA HeadField ==
  ASSUME NEW f, NEW k, NEW l, NEW h, NEW x, NEW t, Opened(f, k, l, h, x, t),
         NEW m \in Nat
  PROVE  Opened([f EXCEPT !.head = m], k, l, m, x, t)
  BY Zenon DEF Frames, Opened

LEMMA ExitField ==
  ASSUME NEW f, NEW k, NEW l, NEW h, NEW x, NEW t, Opened(f, k, l, h, x, t),
         NEW m \in Nat
  PROVE  Opened([f EXCEPT !.exit = m], k, l, h, m, t)
  BY Zenon DEF Frames, Opened

LEMMA ThenField ==
  ASSUME NEW f, NEW k, NEW l, NEW h, NEW x, NEW t, Opened(f, k, l, h, x, t),
         NEW m \in BOOLEAN
  PROVE  Opened([f EXCEPT !.thenRet = m], k, l, h, x, m)
  BY Zenon DEF Frames, Opened

(* The activations that keep blocks in local variables. *)
LEMMA ThenFrame ==
  ASSUME brk \in Nat, cnt \in Nat, sw \in Nat, NEW h \in Nat
  PROVE  Opened([Frame("then") EXCEPT !.head = h], "then", FALSE, h, 0, FALSE)
  BY FrameFields, HeadField, Zenon DEF FrameKinds

LEMMA ElseFrame ==
  ASSUME brk \in Nat, cnt \in Nat, sw \in Nat, NEW h \in Nat, NEW t \in BOOLEAN
  PROVE  Opened([Frame("else") EXCEPT !.head = h, !.thenRet = t],
                "else", FALSE, h, 0, t)
  BY Zenon, 0 \in Nat DEF Frame, Frames, FrameKinds, Opened, NULL

LEMMA LoopFrame ==
  ASSUME brk \in Nat, cnt \in Nat, sw \in Nat,
         NEW k \in {"while", "for"}, NEW h \in Nat, NEW x \in Nat
  PROVE  Opened([Frame(k) EXCEPT !.head = h, !.exit = x],
                k, FALSE, h, x, FALSE)
  BY Zenon, 0 \in Nat DEF Frame, Frames, FrameKinds, Opened, NULL

LEMMA SwitchFrame ==
  ASSUME brk \in Nat, cnt \in Nat, sw \in Nat, NEW x \in Nat, NEW l \in BOOLEAN
  PROVE  Opened([Frame("switch") EXCEPT !.exit = x, !.list = l],
                "switch", l, 0, x, FALSE)
  BY Zenon, 0 \in Nat DEF Frame, Frames, FrameKinds, Opened, NULL

LEMMA RetField ==
  ASSUME NEW f \in Frames, NEW m \in BOOLEAN
  PROVE  /\ [f EXCEPT !.ret = m] \in Frames
         /\ [f EXCEPT !.ret = m].ret = m
         /\ [f EXCEPT !.ret = m].kind = f.kind
         /\ [f EXCEPT !.ret = m].list = f.list
         /\ [f EXCEPT !.ret = m].head = f.head
         /\ [f EXCEPT !.ret = m].exit = f.exit
         /\ [f EXCEPT !.ret = m].thenRet = f.thenRet
         /\ [f EXCEPT !.ret = m].brk = f.brk
         /\ [f EXCEPT !.ret = m].cnt = f.cnt
         /\ [f EXCEPT !.ret = m].sw = f.sw
  BY Zenon DEF Frames

SameFrame(f, g) ==
  /\ g.kind = f.kind /\ g.list = f.list
  /\ g.head = f.head /\ g.exit = f.exit /\ g.thenRet = f.thenRet
  /\ g.brk = f.brk /\ g.cnt = f.cnt /\ g.sw = f.sw

(* The flags apart, t is s. *)
SameFrames(s, t) ==
  /\ s \in Seq(Frames) /\ t \in Seq(Frames)
  /\ Len(t) = Len(s)
  /\ \A i \in 1 .. Len(s) : SameFrame(s[i], t[i])

NoReturn(s) == \A i \in 1 .. Len(s) : ~s[i].ret

(* Only the flag that counts is ever set. *)
OwnersReturn(s) == \A i \in 1 .. Len(s) : s[i].ret => IsOwner(s, i)

LEMMA SameSelf ==
  ASSUME NEW s \in Seq(Frames)
  PROVE  SameFrames(s, s)
  BY DEF SameFrames, SameFrame

LEMMA SameOwner ==
  ASSUME NEW s, NEW t, SameFrames(s, t), NEW i \in 1 .. Len(s)
  PROVE  IsOwner(t, i) <=> IsOwner(s, i)
  BY DEF SameFrames, SameFrame, IsOwner, SharesFlag

LEMMA OneOwner ==
  ASSUME NEW s \in Seq(Frames), NEW i \in 1 .. Len(s), NEW j \in 1 .. Len(s),
         IsOwner(s, i), IsOwner(s, j)
  PROVE  i = j
  BY DEF IsOwner

LEMMA SetReturnFrames ==
  ASSUME NEW s \in Seq(Frames), NEW flag \in BOOLEAN
  PROVE  /\ SameFrames(s, SetReturn(s, flag))
         /\ \A i \in 1 .. Len(s) :
              /\ IsOwner(s, i) => SetReturn(s, flag)[i].ret = flag
              /\ ~IsOwner(s, i) => SetReturn(s, flag)[i].ret = s[i].ret
<1> DEFINE t == SetReturn(s, flag)
           g(i) == IF IsOwner(s, i) THEN [s[i] EXCEPT !.ret = flag] ELSE s[i]
<1>1. t = [i \in 1 .. Len(s) |-> g(i)]
  BY DEF SetReturn
<1>2. ASSUME NEW i \in 1 .. Len(s)
      PROVE  /\ g(i) \in Frames /\ SameFrame(s[i], g(i))
             /\ IsOwner(s, i) => g(i).ret = flag
             /\ ~IsOwner(s, i) => g(i).ret = s[i].ret
  <2>1. s[i] \in Frames
    BY <1>2
  <2>2. CASE IsOwner(s, i)
    BY <2>1, <2>2, RetField, Zenon DEF SameFrame
  <2>3. CASE ~IsOwner(s, i)
    BY <2>1, <2>3, Zenon DEF SameFrame
  <2> QED
    BY <2>2, <2>3
<1> HIDE DEF g, t
<1>3. t \in Seq(Frames) /\ Len(t) = Len(s) /\ \A i \in 1 .. Len(s) : t[i] = g(i)
  BY <1>1, <1>2
<1>4. SameFrames(s, t)
  BY <1>2, <1>3 DEF SameFrames
<1>5. \A i \in 1 .. Len(s) :
        /\ IsOwner(s, i) => t[i].ret = flag
        /\ ~IsOwner(s, i) => t[i].ret = s[i].ret
  BY <1>2, <1>3, Zenon
<1> QED
  BY <1>4, <1>5 DEF t

LEMMA FreshFrames ==
  ASSUME stack \in Seq(Frames), Len(stack) > 0
  PROVE  /\ SameFrames(stack, Fresh)
         /\ Top.kind = "switch" /\ OwnersReturn(stack) => NoReturn(Fresh)
         /\ NoReturn(stack) => NoReturn(Fresh)
<1> DEFINE n == Len(stack)
           g == [stack[n] EXCEPT !.ret = FALSE]
<1>0. n \in Nat /\ n > 0 /\ stack[n] \in Frames /\ n = Len(stack)
  OBVIOUS
<1>1. /\ g \in Frames /\ SameFrame(stack[n], g) /\ ~g.ret
  BY <1>0, RetField, Zenon DEF SameFrame
<1>2. CASE Top.kind = "switch"
  <2>1. Fresh = [stack EXCEPT ![n] = g]
    BY <1>2 DEF Fresh
  <2>2. IsOwner(stack, n)
    BY <1>0, <1>2 DEF Top, IsOwner, SharesFlag
  <2> HIDE DEF g
  <2>3. /\ Fresh \in Seq(Frames) /\ Len(Fresh) = n
        /\ Fresh[n] = g
        /\ \A i \in 1 .. n : i # n => Fresh[i] = stack[i]
    BY <1>0, <1>1, <2>1
  <2>4. SameFrames(stack, Fresh)
    BY <1>0, <1>1, <2>3 DEF SameFrames, SameFrame
  <2>5. ASSUME OwnersReturn(stack) \/ NoReturn(stack) PROVE NoReturn(Fresh)
    <3>1. ASSUME NEW i \in 1 .. n, i # n PROVE ~stack[i].ret
      BY <1>0, <2>2, <2>5, <3>1, OneOwner DEF OwnersReturn, NoReturn
    <3> QED
      BY <1>0, <1>1, <2>3, <3>1, Zenon DEF NoReturn
  <2> QED
    BY <2>4, <2>5
<1>3. CASE Top.kind # "switch"
  BY <1>3, SameSelf DEF Fresh
<1> QED
  BY <1>2, <1>3

-----------------------------------------------------------------------------
(* Activations *)

Pushed(s, t, f) ==
  /\ s \in Seq(Frames) /\ t \in Seq(Frames) /\ f \in Frames
  /\ Len(t) = Len(s) + 1
  /\ \A i \in 1 .. Len(s) : SameFrame(s[i], t[i])
  /\ t[Len(t)] = f

Popped(s, t) ==
  /\ s \in Seq(Frames) /\ t \in Seq(Frames)
  /\ Len(t) = Len(s) - 1
  /\ \A i \in 1 .. Len(t) : SameFrame(s[i], t[i])

LEMMA PushFrame ==
  ASSUME NEW s, NEW u, SameFrames(s, u), NEW f \in Frames
  PROVE  /\ Pushed(s, Append(u, f), f)
         /\ NoReturn(u) /\ ~f.ret => NoReturn(Append(u, f))
<1> DEFINE t == Append(u, f)
<1>1. s \in Seq(Frames) /\ u \in Seq(Frames) /\ Len(u) = Len(s)
  BY DEF SameFrames
<1>2. /\ t \in Seq(Frames) /\ Len(t) = Len(s) + 1 /\ t[Len(s) + 1] = f
      /\ \A i \in 1 .. Len(s) : t[i] = u[i]
  BY <1>1
<1> HIDE DEF t
<1>3. Pushed(s, t, f)
  <2>1. \A i \in 1 .. Len(s) : SameFrame(s[i], t[i])
    BY <1>2 DEF SameFrames
  <2> QED
    BY <1>1, <1>2, <2>1 DEF Pushed
<1>4. ASSUME NoReturn(u), ~f.ret PROVE NoReturn(t)
  <2> SUFFICES ASSUME NEW i \in 1 .. Len(s) + 1 PROVE ~t[i].ret
    BY <1>2 DEF NoReturn
  <2>1. CASE i <= Len(s)
    <3>1. i \in 1 .. Len(u) /\ t[i] = u[i]
      BY <1>1, <1>2, <2>1
    <3> QED
      BY <1>4, <3>1, Zenon DEF NoReturn
  <2>2. CASE i = Len(s) + 1
    BY <1>2, <1>4, <2>2
  <2> QED
    BY <1>1, <2>1, <2>2
<1> QED
  BY <1>3, <1>4 DEF t

LEMMA BelowFrames ==
  ASSUME NEW s \in Seq(Frames), Len(s) > 0
  PROVE  /\ Below(s) \in Seq(Frames) /\ Len(Below(s)) = Len(s) - 1
         /\ \A i \in 1 .. Len(s) - 1 : Below(s)[i] = s[i]
<1> DEFINE k == Len(s) - 1
<1>1. k \in 0 .. Len(s)
  OBVIOUS
<1>2. Below(s) = SubSeq(s, 1, k)
  BY DEF Below
<1> HIDE DEF k
<1>3. /\ SubSeq(s, 1, k) \in Seq(Frames) /\ Len(SubSeq(s, 1, k)) = k
      /\ \A i \in 1 .. k : SubSeq(s, 1, k)[i] = s[i]
  BY <1>1
<1>4. /\ Below(s) \in Seq(Frames) /\ Len(Below(s)) = k
      /\ \A i \in 1 .. k : Below(s)[i] = s[i]
  BY <1>2, <1>3
<1> QED
  BY <1>4 DEF k

LEMMA PopFrame ==
  ASSUME NEW s \in Seq(Frames), Len(s) > 0
  PROVE  Popped(s, Below(s))
  BY BelowFrames DEF Popped, SameFrame

LEMMA PopSame ==
  ASSUME NEW s \in Seq(Frames), Len(s) > 0, NEW t, SameFrames(Below(s), t)
  PROVE  Popped(s, t)
  BY BelowFrames DEF Popped, SameFrames, SameFrame

(* An activation refers to blocks there are. *)
FrameFits(f, n) ==
  /\ f.head \in 0 .. n /\ f.exit \in 0 .. n
  /\ f.brk \in 0 .. n /\ f.cnt \in 0 .. n /\ f.sw \in 0 .. n
  /\ f.kind \in {"then", "else", "while", "for"} => f.head > 0
  /\ f.kind \in {"while", "for", "switch"} => f.exit > 0
  /\ f.list => f.kind \in {"function", "block", "switch"}

StackFits(s, n) ==
  /\ s \in Seq(Frames)
  /\ Len(s) > 0
  /\ \A i \in 1 .. Len(s) : (s[i].kind = "function" <=> i = 1) /\ FrameFits(s[i], n)

LEMMA SameFits ==
  ASSUME NEW f, NEW g, SameFrame(f, g), NEW n \in Nat, NEW m \in Nat, m >= n,
         FrameFits(f, n)
  PROVE  FrameFits(g, m)
  BY DEF SameFrame, FrameFits

LEMMA KeepFits ==
  ASSUME NEW s, NEW t, SameFrames(s, t), NEW n \in Nat, NEW m \in Nat, m >= n,
         StackFits(s, n)
  PROVE  StackFits(t, m)
<1>1. \A i \in 1 .. Len(s) :
        SameFrame(s[i], t[i]) /\ t[i].kind = s[i].kind /\ FrameFits(t[i], m)
  BY SameFits DEF SameFrames, SameFrame, StackFits
<1> QED
  BY <1>1 DEF SameFrames, StackFits

LEMMA PushFits ==
  ASSUME NEW s, NEW t, NEW f, Pushed(s, t, f), NEW n \in Nat, NEW m \in Nat,
         m >= n, StackFits(s, n), FrameFits(f, m), f.kind # "function"
  PROVE  StackFits(t, m)
<1>1. \A i \in 1 .. Len(s) :
        SameFrame(s[i], t[i]) /\ t[i].kind = s[i].kind /\ FrameFits(t[i], m)
  BY SameFits DEF Pushed, SameFrame, StackFits
<1>2. Len(t) = Len(s) + 1 /\ t[Len(s) + 1] = f /\ Len(s) \in Nat /\ Len(s) > 0
  BY DEF Pushed, StackFits
<1>3. \A i \in 1 .. Len(t) :
        (t[i].kind = "function" <=> i = 1) /\ FrameFits(t[i], m)
  BY <1>1, <1>2 DEF StackFits
<1> QED
  BY <1>2, <1>3 DEF Pushed, StackFits

LEMMA PopFits ==
  ASSUME NEW s, NEW t, Popped(s, t), NEW n \in Nat, NEW m \in Nat, m >= n,
         StackFits(s, n), s[Len(s)].kind # "function"
  PROVE  StackFits(t, m)
<1>1. Len(t) = Len(s) - 1 /\ Len(s) \in Nat /\ Len(s) > 1
  BY DEF Popped, StackFits
<1>2. ASSUME NEW i \in 1 .. Len(t)
      PROVE  t[i].kind = s[i].kind /\ FrameFits(t[i], m)
  <2>1. i \in 1 .. Len(s) /\ SameFrame(s[i], t[i])
    BY <1>1, <1>2 DEF Popped
  <2>2. FrameFits(s[i], n)
    BY <2>1 DEF StackFits
  <2> QED
    BY <2>1, <2>2, SameFits DEF SameFrame
<1>3. \A i \in 1 .. Len(t) :
        (t[i].kind = "function" <=> i = 1) /\ FrameFits(t[i], m)
  BY <1>1, <1>2 DEF StackFits
<1> QED
  BY <1>1, <1>3 DEF Popped, StackFits

-----------------------------------------------------------------------------
(* Targets *)

JumpKinds == {"while", "for", "switch"}

(* The break and the continue target that belong to n activations: those of
   the last loop or switch among them. *)
RightJumps(s, n, b, c) ==
  /\ (\A i \in 1 .. n : s[i].kind \notin JumpKinds) => b = NULL /\ c = NULL
  /\ \A i \in 1 .. n :
       /\ s[i].kind \in JumpKinds
       /\ \A j \in i + 1 .. n : s[j].kind \notin JumpKinds
       => b = s[i].exit /\ c = IF s[i].kind = "switch" THEN NULL ELSE s[i].head

RightSwitch(s, n, w) ==
  /\ (\A i \in 1 .. n : s[i].kind # "switch") => w = NULL
  /\ \A i \in 1 .. n :
       /\ s[i].kind = "switch"
       /\ \A j \in i + 1 .. n : s[j].kind # "switch"
       => w = s[i].exit

(* What the context holds belongs to all activations, and what a loop or a
   switch has saved to those below it. *)
RightTargets(s, b, c, w) ==
  /\ RightJumps(s, Len(s), b, c) /\ RightSwitch(s, Len(s), w)
  /\ \A i \in 1 .. Len(s) :
       /\ s[i].kind \in JumpKinds => RightJumps(s, i - 1, s[i].brk, s[i].cnt)
       /\ s[i].kind = "switch" => RightSwitch(s, i - 1, s[i].sw)

LEMMA SameJumps ==
  ASSUME NEW s, NEW t, NEW n \in Nat,
         \A i \in 1 .. n : SameFrame(s[i], t[i]),
         NEW b, NEW c, RightJumps(s, n, b, c)
  PROVE  RightJumps(t, n, b, c)
<1>1. \A i \in 1 .. n : /\ t[i].kind = s[i].kind
                        /\ t[i].head = s[i].head /\ t[i].exit = s[i].exit
  BY DEF SameFrame
<1> QED
  BY <1>1 DEF RightJumps

LEMMA SameSwitch ==
  ASSUME NEW s, NEW t, NEW n \in Nat,
         \A i \in 1 .. n : SameFrame(s[i], t[i]),
         NEW w, RightSwitch(s, n, w)
  PROVE  RightSwitch(t, n, w)
<1>1. \A i \in 1 .. n : t[i].kind = s[i].kind /\ t[i].exit = s[i].exit
  BY DEF SameFrame
<1> QED
  BY <1>1 DEF RightSwitch

LEMMA SameSaved ==
  ASSUME NEW s, NEW t, NEW n \in Nat, n <= Len(s), Len(s) \in Nat,
         \A i \in 1 .. n : SameFrame(s[i], t[i]),
         NEW b, NEW c, NEW w, RightTargets(s, b, c, w), NEW i \in 1 .. n
  PROVE  /\ t[i].kind \in JumpKinds => RightJumps(t, i - 1, t[i].brk, t[i].cnt)
         /\ t[i].kind = "switch" => RightSwitch(t, i - 1, t[i].sw)
<1>1. /\ t[i].kind = s[i].kind /\ t[i].brk = s[i].brk
      /\ t[i].cnt = s[i].cnt /\ t[i].sw = s[i].sw
  BY DEF SameFrame
<1>2. i \in 1 .. Len(s) /\ i - 1 \in Nat
      /\ \A j \in 1 .. i - 1 : SameFrame(s[j], t[j])
  OBVIOUS
<1>3. /\ s[i].kind \in JumpKinds => RightJumps(s, i - 1, s[i].brk, s[i].cnt)
      /\ s[i].kind = "switch" => RightSwitch(s, i - 1, s[i].sw)
  BY <1>2 DEF RightTargets
<1> QED
  BY <1>1, <1>2, <1>3, SameJumps, SameSwitch

LEMMA KeepTargets ==
  ASSUME NEW s, NEW t, SameFrames(s, t), NEW b, NEW c, NEW w,
         RightTargets(s, b, c, w)
  PROVE  RightTargets(t, b, c, w)
<1>1. /\ Len(s) \in Nat /\ Len(t) = Len(s)
      /\ \A i \in 1 .. Len(s) : SameFrame(s[i], t[i])
  BY DEF SameFrames
<1>2. RightJumps(t, Len(t), b, c) /\ RightSwitch(t, Len(t), w)
  BY <1>1, SameJumps, SameSwitch DEF RightTargets
<1> QED
  BY <1>1, <1>2, SameSaved DEF RightTargets

(* A block, a branch of an if or a labelled statement keeps the targets; a
   loop or a switch saves them and sets its own. *)
LEMMA PushTargets ==
  ASSUME NEW s, NEW t, NEW f, Pushed(s, t, f), NEW b, NEW c, NEW w,
         RightTargets(s, b, c, w), NEW b2, NEW c2, NEW w2,
         f.kind \notin JumpKinds => b2 = b /\ c2 = c,
         f.kind # "switch" => w2 = w,
         f.kind \in JumpKinds =>
           /\ f.brk = b /\ f.cnt = c
           /\ b2 = f.exit /\ c2 = IF f.kind = "switch" THEN NULL ELSE f.head,
         f.kind = "switch" => f.sw = w /\ w2 = f.exit
  PROVE  RightTargets(t, b2, c2, w2)
<1> DEFINE n == Len(s)
<1>1. /\ n \in Nat /\ Len(t) = n + 1 /\ t[n + 1] = f
      /\ \A i \in 1 .. n : SameFrame(s[i], t[i])
  BY DEF Pushed
<1>2. n = Len(s)
  OBVIOUS
<1> HIDE DEF n
<1>3. RightJumps(t, n, b, c) /\ RightSwitch(t, n, w)
  BY <1>1, <1>2, SameJumps, SameSwitch DEF RightTargets
<1>4. RightJumps(t, n + 1, b2, c2)
  <2>1. CASE f.kind \in JumpKinds
    BY <1>1, <2>1 DEF RightJumps
  <2>2. CASE f.kind \notin JumpKinds
    BY <1>1, <1>3, <2>2 DEF RightJumps
  <2> QED
    BY <2>1, <2>2
<1>5. RightSwitch(t, n + 1, w2)
  <2>1. CASE f.kind = "switch"
    BY <1>1, <2>1 DEF RightSwitch
  <2>2. CASE f.kind # "switch"
    BY <1>1, <1>3, <2>2 DEF RightSwitch
  <2> QED
    BY <2>1, <2>2
<1>6. ASSUME NEW i \in 1 .. n + 1
      PROVE  /\ t[i].kind \in JumpKinds => RightJumps(t, i - 1, t[i].brk, t[i].cnt)
             /\ t[i].kind = "switch" => RightSwitch(t, i - 1, t[i].sw)
  <2>1. CASE i \in 1 .. n
    BY <1>1, <1>2, <2>1, SameSaved
  <2>2. CASE i = n + 1
    BY <1>1, <1>3, <2>2 DEF JumpKinds
  <2> QED
    BY <1>1, <2>1, <2>2
<1> QED
  BY <1>1, <1>4, <1>5, <1>6 DEF RightTargets

(* The end of a loop or of a switch restores what it has saved. *)
LEMMA PopTargets ==
  ASSUME NEW s, NEW t, Popped(s, t), Len(s) > 0, NEW b, NEW c, NEW w,
         RightTargets(s, b, c, w), NEW b2, NEW c2, NEW w2,
         s[Len(s)].kind \notin JumpKinds => b2 = b /\ c2 = c,
         s[Len(s)].kind # "switch" => w2 = w,
         s[Len(s)].kind \in JumpKinds => b2 = s[Len(s)].brk /\ c2 = s[Len(s)].cnt,
         s[Len(s)].kind = "switch" => w2 = s[Len(s)].sw
  PROVE  RightTargets(t, b2, c2, w2)
<1> DEFINE n == Len(t)
<1>1. /\ n \in Nat /\ Len(s) = n + 1 /\ n = Len(t)
      /\ \A i \in 1 .. n : SameFrame(s[i], t[i])
  BY DEF Popped
<1> HIDE DEF n
<1>2. RightJumps(s, n, b2, c2)
  <2>1. CASE s[n + 1].kind \in JumpKinds
    BY <1>1, <2>1 DEF RightTargets
  <2>2. CASE s[n + 1].kind \notin JumpKinds
    BY <1>1, <2>2 DEF RightTargets, RightJumps
  <2> QED
    BY <2>1, <2>2
<1>3. RightSwitch(s, n, w2)
  <2>1. CASE s[n + 1].kind = "switch"
    BY <1>1, <2>1 DEF RightTargets
  <2>2. CASE s[n + 1].kind # "switch"
    BY <1>1, <2>2 DEF RightTargets, RightSwitch
  <2> QED
    BY <2>1, <2>2
<1>4. RightJumps(t, n, b2, c2) /\ RightSwitch(t, n, w2)
  BY <1>1, <1>2, <1>3, SameJumps, SameSwitch
<1>5. n <= Len(s) /\ Len(s) \in Nat
  BY <1>1
<1>6. ASSUME NEW i \in 1 .. n
      PROVE  /\ t[i].kind \in JumpKinds => RightJumps(t, i - 1, t[i].brk, t[i].cnt)
             /\ t[i].kind = "switch" => RightSwitch(t, i - 1, t[i].sw)
  BY <1>1, <1>5, <1>6, SameSaved
<1> QED
  BY <1>1, <1>4, <1>6 DEF RightTargets

-----------------------------------------------------------------------------
(* Claims *)

(* No two activations claim a block. *)
Apart(s) ==
  /\ \A i, j \in 1 .. Len(s) :
       i # j => ClaimsOf(s[i]) \cap ClaimsOf(s[j]) = {}
  /\ \A i \in 1 .. Len(s) : s[i].kind = "for" => s[i].head # s[i].exit

LEMMA SameClaim ==
  ASSUME NEW f, NEW g, SameFrame(f, g)
  PROVE  ClaimsOf(g) = ClaimsOf(f)
  BY DEF SameFrame, ClaimsOf

LEMMA KeepClaims ==
  ASSUME NEW s, NEW t, SameFrames(s, t), Apart(s)
  PROVE  Claims(t) = Claims(s) /\ Apart(t)
<1>1. /\ Len(t) = Len(s)
      /\ \A i \in 1 .. Len(s) :
           /\ ClaimsOf(t[i]) = ClaimsOf(s[i])
           /\ t[i].kind = s[i].kind
           /\ t[i].head = s[i].head /\ t[i].exit = s[i].exit
  BY SameClaim DEF SameFrames, SameFrame
<1>2. Claims(t) = Claims(s)
  BY <1>1 DEF Claims
<1>3. Apart(t)
  BY <1>1 DEF Apart
<1> QED
  BY <1>2, <1>3

LEMMA PushClaims ==
  ASSUME NEW s, NEW t, NEW f, Pushed(s, t, f), Apart(s),
         ClaimsOf(f) \cap Claims(s) = {}, f.kind = "for" => f.head # f.exit
  PROVE  Claims(t) = Claims(s) \cup ClaimsOf(f) /\ Apart(t)
<1> DEFINE n == Len(s)
<1>1. n \in Nat /\ n = Len(s) /\ Len(t) = n + 1 /\ t[n + 1] = f
  BY DEF Pushed
<1> HIDE DEF n
<1>2. \A i \in 1 .. n :
        /\ ClaimsOf(t[i]) = ClaimsOf(s[i])
        /\ t[i].kind = s[i].kind
        /\ t[i].head = s[i].head /\ t[i].exit = s[i].exit
  BY <1>1, SameClaim DEF Pushed, SameFrame
<1>3. \A i \in 1 .. n + 1 : i \in 1 .. n \/ i = n + 1
  BY <1>1
<1>4. Claims(t) = Claims(s) \cup ClaimsOf(f)
  BY <1>1, <1>2, <1>3 DEF Claims
<1>5. \A i \in 1 .. n : ClaimsOf(t[i]) \cap ClaimsOf(f) = {}
  BY <1>1, <1>2 DEF Claims
<1>6. Apart(t)
  BY <1>1, <1>2, <1>3, <1>5 DEF Apart
<1> QED
  BY <1>4, <1>6

LEMMA PopClaims ==
  ASSUME NEW s, NEW t, Popped(s, t), Len(s) > 0, Apart(s)
  PROVE  /\ Claims(t) = Claims(s) \ ClaimsOf(s[Len(s)])
         /\ ClaimsOf(s[Len(s)]) \subseteq Claims(s)
         /\ Apart(t)
<1> DEFINE n == Len(t)
<1>1. n \in Nat /\ n = Len(t) /\ Len(s) = n + 1
  BY DEF Popped
<1> HIDE DEF n
<1>2. \A i \in 1 .. n :
        /\ ClaimsOf(t[i]) = ClaimsOf(s[i])
        /\ t[i].kind = s[i].kind
        /\ t[i].head = s[i].head /\ t[i].exit = s[i].exit
  BY <1>1, SameClaim DEF Popped, SameFrame
<1>3. \A i \in 1 .. n + 1 : (i \in 1 .. n /\ i # n + 1) \/ i = n + 1
  BY <1>1
<1>4. \A i \in 1 .. n : ClaimsOf(s[i]) \cap ClaimsOf(s[n + 1]) = {}
  BY <1>1 DEF Apart
<1>5. n + 1 \in 1 .. n + 1 /\ \A i \in 1 .. n : i \in 1 .. n + 1
  BY <1>1
<1>6. Claims(s) = Claims(t) \cup ClaimsOf(s[n + 1])
  BY <1>1, <1>2, <1>3, <1>5 DEF Claims
<1>7. Claims(t) \cap ClaimsOf(s[n + 1]) = {}
  BY <1>1, <1>2, <1>4 DEF Claims
<1>8. Apart(t)
  BY <1>1, <1>2, <1>5 DEF Apart
<1> QED
  BY <1>1, <1>6, <1>7, <1>8

LEMMA ClaimsFit ==
  ASSUME NEW s, NEW n \in Nat, StackFits(s, n)
  PROVE  Claims(s) \subseteq 1 .. n
<1>1. ASSUME NEW f, FrameFits(f, n) PROVE ClaimsOf(f) \subseteq 1 .. n
  BY <1>1 DEF FrameFits, ClaimsOf
<1> QED
  BY <1>1 DEF StackFits, Claims

-----------------------------------------------------------------------------
(* Labels *)

LabelsDiffer(lb) ==
  \A l, m \in Labels : lb[l] # NULL /\ lb[m] = lb[l] => m = l

(* No label is the target of a loop or a switch. *)
LabelsFree(s, lb) ==
  \A l \in Labels : lb[l] # NULL =>
    \A i \in 1 .. Len(s) :
      s[i].kind \in JumpKinds => lb[l] # s[i].head /\ lb[l] # s[i].exit

LEMMA KeepLabels ==
  ASSUME NEW s, NEW t, SameFrames(s, t), NEW lb, LabelsFree(s, lb)
  PROVE  LabelsFree(t, lb)
<1>1. /\ Len(t) = Len(s)
      /\ \A i \in 1 .. Len(s) : /\ t[i].kind = s[i].kind
                                /\ t[i].head = s[i].head /\ t[i].exit = s[i].exit
  BY DEF SameFrames, SameFrame
<1> QED
  BY <1>1 DEF LabelsFree

LEMMA PushLabels ==
  ASSUME NEW s, NEW t, NEW f, Pushed(s, t, f), NEW lb, LabelsFree(s, lb),
         f.kind \in JumpKinds =>
           \A l \in Labels : lb[l] # NULL => lb[l] # f.head /\ lb[l] # f.exit
  PROVE  LabelsFree(t, lb)
<1> DEFINE n == Len(s)
<1>1. n \in Nat /\ n = Len(s) /\ Len(t) = n + 1 /\ t[n + 1] = f
  BY DEF Pushed
<1> HIDE DEF n
<1>2. \A i \in 1 .. n : /\ t[i].kind = s[i].kind
                        /\ t[i].head = s[i].head /\ t[i].exit = s[i].exit
  BY <1>1 DEF Pushed, SameFrame
<1>3. \A i \in 1 .. n + 1 : i \in 1 .. n \/ i = n + 1
  BY <1>1
<1> QED
  BY <1>1, <1>2, <1>3 DEF LabelsFree

LEMMA PopLabels ==
  ASSUME NEW s, NEW t, Popped(s, t), NEW lb, LabelsFree(s, lb)
  PROVE  LabelsFree(t, lb)
<1> DEFINE n == Len(t)
<1>1. n \in Nat /\ n = Len(t) /\ Len(s) = n + 1
  BY DEF Popped
<1> HIDE DEF n
<1>2. \A i \in 1 .. n : /\ t[i].kind = s[i].kind /\ i \in 1 .. n + 1
                        /\ t[i].head = s[i].head /\ t[i].exit = s[i].exit
  BY <1>1 DEF Popped, SameFrame
<1> QED
  BY <1>1, <1>2 DEF LabelsFree

(* get_or_create_label_bb: the block of a label is the one it had, or new and
   open. *)
LEMMA LabelBlock ==
  ASSUME NEW l \in Labels, blocks \in Seq(BlockStates),
         labelBB \in [Labels -> 0 .. Len(blocks)],
         LabelsDiffer(labelBB)
  PROVE  /\ LabelBlocks(l) \in Seq(BlockStates)
         /\ Len(LabelBlocks(l)) \in Nat /\ Len(LabelBlocks(l)) >= Len(blocks)
         /\ LabelMap(l) \in [Labels -> 0 .. Len(LabelBlocks(l))]
         /\ LabelMap(l)[l] \in 1 .. Len(LabelBlocks(l))
         /\ \A m \in Labels : m # l => LabelMap(l)[m] = labelBB[m]
         /\ LabelMap(l)[l] = labelBB[l] \/ LabelMap(l)[l] = Len(blocks) + 1
         /\ LabelsDiffer(LabelMap(l))
         /\ Clean(blocks) => Clean(LabelBlocks(l))
         /\ labelBB[l] # NULL =>
              LabelBlocks(l) = blocks /\ LabelMap(l) = labelBB
         /\ labelBB[l] = NULL =>
              /\ LabelMap(l)[l] = Len(blocks) + 1
              /\ Opens(LabelBlocks(l)) = Opens(blocks) \cup {Len(blocks) + 1}
<1> DEFINE n == Len(blocks)
<1>1. n \in Nat /\ \A m \in Labels : labelBB[m] \in 0 .. n
  OBVIOUS
<1>2. CASE labelBB[l] = NULL
  <2>1. LabelBlocks(l) = New(blocks, 1) /\ LabelMap(l) = [labelBB EXCEPT ![l] = n + 1]
    BY <1>2 DEF LabelBlocks, LabelMap
  <2>2. /\ New(blocks, 1) \in Seq(BlockStates) /\ Len(New(blocks, 1)) = n + 1
        /\ Opens(New(blocks, 1)) = Opens(blocks) \cup (n + 1 .. n + 1)
        /\ Clean(blocks) => Clean(New(blocks, 1))
    BY NewBlocks
  <2>3. Opens(New(blocks, 1)) = Opens(blocks) \cup {n + 1}
    BY <1>1, <2>2
  <2>4. /\ LabelMap(l) \in [Labels -> 0 .. n + 1]
        /\ LabelMap(l)[l] = n + 1
        /\ \A m \in Labels : m # l => LabelMap(l)[m] = labelBB[m]
    BY <1>1, <2>1
  <2>5. LabelsDiffer(LabelMap(l))
    BY <1>1, <2>4 DEF LabelsDiffer
  <2> QED
    BY <1>1, <1>2, <2>1, <2>2, <2>3, <2>4, <2>5 DEF NULL
<1>3. CASE labelBB[l] # NULL
  <2>1. LabelBlocks(l) = blocks /\ LabelMap(l) = labelBB
    BY <1>3 DEF LabelBlocks, LabelMap
  <2> QED
    BY <1>1, <1>3, <2>1 DEF NULL
<1> QED
  BY <1>2, <1>3

-----------------------------------------------------------------------------
(* Steps of the generator: blocks, activations, targets and labels *)

Base ==
  /\ TypeOK
  /\ StackFits(stack, Len(blocks))
  /\ RightTargets(stack, brk, cnt, sw)
  /\ LabelsDiffer(labelBB)
  /\ LabelsFree(stack, labelBB)
  /\ \A l \in placed : labelBB[l] # NULL

(* What every step does to the block list, the phase and the count. *)
Grows ==
  /\ blocks' \in Seq(BlockStates)
  /\ Len(blocks') \in Nat /\ Len(blocks') >= Len(blocks)
  /\ ins' \in 1 .. Len(blocks')
  /\ phase' \in {"stmt", "done", "skip", "verify", "exit"}
  /\ count' \in 0 .. MaxStatements

LEMMA BaseFacts ==
  ASSUME Base
  PROVE  /\ blocks \in Seq(BlockStates) /\ Len(blocks) \in Nat
         /\ ins \in 1 .. Len(blocks) /\ ins \in Nat
         /\ brk \in 0 .. Len(blocks) /\ cnt \in 0 .. Len(blocks)
         /\ sw \in 0 .. Len(blocks)
         /\ brk \in Nat /\ cnt \in Nat /\ sw \in Nat
         /\ labelBB \in [Labels -> 0 .. Len(blocks)]
         /\ stack \in Seq(Frames) /\ Len(stack) \in Nat /\ Len(stack) > 0
         /\ Top \in Frames /\ Top = stack[Len(stack)]
         /\ FrameFits(Top, Len(blocks))
         /\ SameFrames(stack, Fresh)
<1>1. SameFrames(stack, Fresh)
  BY FreshFrames DEF Base, StackFits
<1> QED
  BY <1>1 DEF Base, TypeOK, StackFits, Top

LEMMA DueCounts ==
  ASSUME Base, Due
  PROVE  count' \in 0 .. MaxStatements /\ phase = "stmt"
  BY FlowAssumption DEF Base, TypeOK, Due

LEMMA StillCounts ==
  ASSUME Base, UNCHANGED count
  PROVE  count' \in 0 .. MaxStatements
  BY DEF Base, TypeOK

(* Labels keep their blocks while more blocks come. *)
LEMMA LabelsStay ==
  ASSUME Base, Grows, UNCHANGED labelVars
  PROVE  /\ labelBB' \in [Labels -> 0 .. Len(blocks')]
         /\ placed' \subseteq Labels /\ skipped' \subseteq Labels
         /\ LabelsDiffer(labelBB')
         /\ \A l \in placed' : labelBB'[l] # NULL
<1>1. /\ labelBB' = labelBB /\ placed' = placed /\ skipped' = skipped
      /\ Len(blocks) \in Nat /\ labelBB \in [Labels -> 0 .. Len(blocks)]
  BY BaseFacts DEF labelVars
<1>2. 0 .. Len(blocks) \subseteq 0 .. Len(blocks')
  BY <1>1 DEF Grows
<1>3. labelBB' \in [Labels -> 0 .. Len(blocks')]
  BY <1>1, <1>2
<1>4. placed' \subseteq Labels /\ skipped' \subseteq Labels
  BY <1>1 DEF Base, TypeOK
<1>5. LabelsDiffer(labelBB') /\ \A l \in placed' : labelBB'[l] # NULL
  BY <1>1 DEF Base
<1> QED
  BY <1>3, <1>4, <1>5

LEMMA TargetsStay ==
  ASSUME Base, Grows, UNCHANGED targets
  PROVE  {brk', cnt', sw'} \subseteq 0 .. Len(blocks')
<1>1. /\ brk' = brk /\ cnt' = cnt /\ sw' = sw
      /\ brk \in 0 .. Len(blocks) /\ cnt \in 0 .. Len(blocks)
      /\ sw \in 0 .. Len(blocks)
      /\ Len(blocks) \in Nat /\ Len(blocks') \in Nat /\ Len(blocks') >= Len(blocks)
  BY BaseFacts DEF targets, Grows
<1> QED
  BY <1>1

LEMMA KeepBase ==
  ASSUME Base, Grows, SameFrames(stack, stack'), UNCHANGED <<targets, labelVars>>
  PROVE  Base'
<1>1. UNCHANGED targets /\ UNCHANGED labelVars
      /\ brk' = brk /\ cnt' = cnt /\ sw' = sw /\ labelBB' = labelBB
  BY DEF targets, labelVars
<1>2. StackFits(stack', Len(blocks'))
  BY BaseFacts, KeepFits DEF Base, Grows
<1>3. RightTargets(stack', brk', cnt', sw')
  BY <1>1, KeepTargets DEF Base
<1>4. LabelsFree(stack', labelBB')
  BY <1>1, KeepLabels DEF Base
<1>5. TypeOK'
  BY <1>1, <1>2, LabelsStay, TargetsStay DEF TypeOK, Grows, StackFits
<1> QED
  BY <1>1, <1>2, <1>3, <1>4, <1>5, LabelsStay DEF Base

(* An activation begins. *)
LEMMA PushBase ==
  ASSUME Base, Grows, UNCHANGED labelVars,
         NEW f, Pushed(stack, stack', f), f.kind # "function",
         FrameFits(f, Len(blocks')),
         f.brk = brk, f.cnt = cnt, f.sw = sw,
         f.kind \notin JumpKinds => brk' = brk /\ cnt' = cnt,
         f.kind # "switch" => sw' = sw,
         f.kind \in JumpKinds =>
           /\ brk' = f.exit
           /\ cnt' = IF f.kind = "switch" THEN NULL ELSE f.head
           /\ f.exit > Len(blocks)
           /\ f.head > Len(blocks) \/ f.head = NULL,
         f.kind = "switch" => sw' = f.exit
  PROVE  Base'
<1>1. labelBB' = labelBB
  BY DEF labelVars
<1>2. StackFits(stack', Len(blocks'))
  BY BaseFacts, PushFits DEF Base, Grows
<1>3. RightTargets(stack', brk', cnt', sw')
  BY PushTargets DEF Base
<1>4. LabelsFree(stack', labelBB')
  <2>1. \A l \in Labels : labelBB[l] \in 0 .. Len(blocks)
    BY BaseFacts
  <2>2. f.head \in Nat /\ f.exit \in Nat
    BY DEF FrameFits
  <2>3. f.kind \in JumpKinds =>
          \A l \in Labels : labelBB[l] # NULL =>
            labelBB[l] # f.head /\ labelBB[l] # f.exit
    BY <2>1, <2>2, BaseFacts DEF NULL
  <2> QED
    BY <1>1, <2>3, PushLabels DEF Base
<1>5. {brk', cnt', sw'} \subseteq 0 .. Len(blocks')
  <2>1. /\ brk \in 0 .. Len(blocks') /\ cnt \in 0 .. Len(blocks')
        /\ sw \in 0 .. Len(blocks')
        /\ f.head \in 0 .. Len(blocks') /\ f.exit \in 0 .. Len(blocks')
        /\ NULL \in 0 .. Len(blocks')
    BY BaseFacts DEF Grows, FrameFits, NULL
  <2> QED
    BY <2>1
<1>6. TypeOK'
  BY <1>2, <1>5, LabelsStay DEF TypeOK, Grows, StackFits
<1> QED
  BY <1>2, <1>3, <1>4, <1>6, LabelsStay DEF Base

(* The last activation ends. *)
LEMMA PopBase ==
  ASSUME Base, Grows, UNCHANGED labelVars,
         NEW t, Popped(stack, t), stack' = t, Top.kind # "function",
         Top.kind \notin JumpKinds => brk' = brk /\ cnt' = cnt,
         Top.kind # "switch" => sw' = sw,
         Top.kind \in JumpKinds => brk' = Top.brk /\ cnt' = Top.cnt,
         Top.kind = "switch" => sw' = Top.sw
  PROVE  Base'
<1>1. labelBB' = labelBB /\ Top = stack[Len(stack)]
  BY BaseFacts DEF labelVars
<1>2. StackFits(stack', Len(blocks'))
  BY <1>1, BaseFacts, PopFits DEF Base, Grows
<1>3. RightTargets(stack', brk', cnt', sw')
  BY <1>1, BaseFacts, PopTargets DEF Base
<1>4. LabelsFree(stack', labelBB')
  BY <1>1, PopLabels DEF Base
<1>5. {brk', cnt', sw'} \subseteq 0 .. Len(blocks')
  <2>1. /\ brk \in 0 .. Len(blocks') /\ cnt \in 0 .. Len(blocks')
        /\ sw \in 0 .. Len(blocks')
    BY BaseFacts DEF Grows
  <2>2. FrameFits(Top, Len(blocks))
    BY BaseFacts
  <2>3. /\ Top.brk \in 0 .. Len(blocks) /\ Top.cnt \in 0 .. Len(blocks)
        /\ Top.sw \in 0 .. Len(blocks)
    BY <2>2 DEF FrameFits
  <2>4. /\ Top.brk \in 0 .. Len(blocks') /\ Top.cnt \in 0 .. Len(blocks')
        /\ Top.sw \in 0 .. Len(blocks')
    BY <2>3, BaseFacts DEF Grows
  <2> QED
    BY <2>1, <2>4
<1>6. TypeOK'
  BY <1>2, <1>5, LabelsStay DEF TypeOK, Grows, StackFits
<1> QED
  BY <1>2, <1>3, <1>4, <1>6, LabelsStay DEF Base

-----------------------------------------------------------------------------
(* Steps of the generator: the flags and the blocks that are owed *)

(* The has_return flags of s tell whether the insertion block is open. *)
Flagged(s, p, open) ==
  /\ OwnersReturn(s)
  /\ p = "stmt" /\ s[Len(s)].kind # "switch" => open /\ NoReturn(s)
  /\ p = "done" /\ s[Len(s)].kind # "switch" => (HasReturn(s) <=> ~open)
  /\ p = "skip" =>
       s[Len(s)].kind \in {"function", "block"} /\ HasReturn(s) /\ ~open

(* Behind the insertion point, a block is open if an activation or a label
   that is to come claims it, and never both. *)
Ledger(bs, at, s, lb, pl) ==
  /\ Clean(bs)
  /\ Opens(bs) \ {at} = Claims(s) \cup Waiting(lb, pl)
  /\ Claims(s) \cap Waiting(lb, pl) = {}
  /\ Apart(s)

(* With a switch body that stops at a return. *)
Owed ==
  /\ Flagged(stack, phase, ins \in Opens(blocks))
  /\ Ledger(blocks, ins, stack, labelBB, placed)
  /\ phase = "verify" => Opens(blocks) = Waiting(labelBB, placed)

LEMMA OpenFlagged ==
  ASSUME NEW s, NoReturn(s), NEW p \in {"stmt", "done"}, NEW open, open
  PROVE  Flagged(s, p, open)
  BY Zenon DEF Flagged, NoReturn, OwnersReturn, HasReturn

LEMMA SwitchFlagged ==
  ASSUME NEW s, NoReturn(s), NEW p \in {"stmt", "done"}, NEW open,
         s[Len(s)].kind = "switch"
  PROVE  Flagged(s, p, open)
  BY Zenon DEF Flagged, NoReturn, OwnersReturn

(* A set of indexes has a last one. *)
LEMMA LastIndex ==
  ASSUME NEW n \in Nat, NEW K \in SUBSET (1 .. n), K # {}
  PROVE  \E i \in K : \A j \in K : j <= i
<1> DEFINE R == OpToRel(<, Nat)
           T == {x \in Nat : n - x \in K}
<1>1. IsWellFoundedOn(R, Nat)
  BY NatLessThanWellFounded, Zenon
<1>2. \A x, y \in Nat : x < y => <<x, y>> \in R
  BY DEF OpToRel
<1> HIDE DEF R
<1>3. PICK k \in K : k \in 1 .. n
  OBVIOUS
<1>4. n - k \in Nat /\ n - (n - k) = k
  BY <1>3
<1>5. T \subseteq Nat /\ T # {}
  BY <1>3, <1>4
<1> HIDE DEF T
<1>6. PICK x \in T : \A y \in T : ~ (<<y, x>> \in R)
  BY <1>1, <1>5, WFMin
<1>7. x \in Nat /\ n - x \in K
  BY <1>6 DEF T
<1>8. ASSUME NEW j \in K PROVE j <= n - x
  <2>1. j \in 1 .. n /\ n - j \in Nat /\ n - (n - j) = j
    OBVIOUS
  <2>2. n - j \in T
    BY <2>1, <1>8 DEF T
  <2>3. ~(n - j < x)
    BY <1>2, <1>6, <1>7, <2>1, <2>2
  <2> QED
    BY <1>7, <2>1, <2>3
<1> QED
  BY <1>7, <1>8

(* There is an owner: the activation of the function, at the latest. *)
LEMMA OwnerExists ==
  ASSUME NEW s, NEW n \in Nat, StackFits(s, n)
  PROVE  \E i \in 1 .. Len(s) : IsOwner(s, i)
<1> DEFINE K == {i \in 1 .. Len(s) : ~SharesFlag(s[i])}
<1>1. Len(s) \in Nat /\ Len(s) > 0 /\ ~SharesFlag(s[1])
  BY DEF StackFits, SharesFlag
<1>2. K \in SUBSET (1 .. Len(s)) /\ 1 \in K
  BY <1>1
<1>3. PICK i \in K : \A j \in K : j <= i
  BY <1>1, <1>2, LastIndex
<1>4. \A j \in i + 1 .. Len(s) : SharesFlag(s[j])
  BY <1>1, <1>2, <1>3
<1> QED
  BY <1>2, <1>3, <1>4 DEF IsOwner

LEMMA SetFlagged ==
  ASSUME NEW s, NEW n \in Nat, StackFits(s, n), NoReturn(s), NEW open, ~open
  PROVE  Flagged(SetReturn(s, TRUE), "done", open)
<1> DEFINE t == SetReturn(s, TRUE)
<1>1. s \in Seq(Frames)
  BY DEF StackFits
<1>2. /\ SameFrames(s, t)
      /\ \A i \in 1 .. Len(s) : /\ IsOwner(s, i) => t[i].ret = TRUE
                                /\ ~IsOwner(s, i) => t[i].ret = s[i].ret
  BY <1>1, SetReturnFrames
<1> HIDE DEF t
<1>3. Len(t) = Len(s) /\ \A i \in 1 .. Len(s) : IsOwner(t, i) <=> IsOwner(s, i)
  BY <1>2, SameOwner DEF SameFrames
<1>4. OwnersReturn(t)
  BY <1>2, <1>3, Zenon DEF OwnersReturn, NoReturn
<1>5. HasReturn(t)
  BY <1>2, <1>3, OwnerExists, Zenon DEF HasReturn
<1>6. Flagged(t, "done", open)
  BY <1>4, <1>5 DEF Flagged
<1> QED
  BY <1>6 DEF t

(* Before a statement. *)
LEMMA FreshNoReturn ==
  ASSUME Base, Owed, phase = "stmt"
  PROVE  NoReturn(Fresh)
<1>1. stack \in Seq(Frames) /\ Len(stack) > 0 /\ OwnersReturn(stack)
      /\ (Top.kind # "switch" => NoReturn(stack))
  BY BaseFacts DEF Owed, Flagged
<1> QED
  BY <1>1, FreshFrames

LEMMA OrdinaryOpen ==
  ASSUME Base, Ordinary, ~CodeAfterReturn
  PROVE  ins \in Opens(blocks)
  BY BaseFacts DEF Ordinary, Closed, Opens

(* Behind the last statement of an activation that has a flag of its own. *)
LEMMA OwnFlag ==
  ASSUME Base, Owed, ~SharesFlag(Top)
  PROVE  /\ IsOwner(stack, Len(stack))
         /\ NoReturn(Below(stack))
         /\ HasReturn(stack) <=> Top.ret
         /\ phase = "done" /\ Top.kind # "switch" =>
              (Top.ret <=> ins \notin Opens(blocks))
<1>1. stack \in Seq(Frames) /\ Len(stack) > 0 /\ Len(stack) \in Nat
      /\ Top = stack[Len(stack)] /\ OwnersReturn(stack)
  BY BaseFacts DEF Owed, Flagged
<1>2. IsOwner(stack, Len(stack))
  BY <1>1 DEF IsOwner
<1>3. \A i \in 1 .. Len(stack) - 1 : ~stack[i].ret
  <2> SUFFICES ASSUME NEW i \in 1 .. Len(stack) - 1 PROVE ~stack[i].ret
    OBVIOUS
  <2>1. i \in 1 .. Len(stack) /\ Len(stack) \in 1 .. Len(stack) /\ i # Len(stack)
    BY <1>1
  <2>2. ~IsOwner(stack, i)
    BY <1>1, <1>2, <2>1, OneOwner
  <2> QED
    BY <1>1, <2>1, <2>2, Zenon DEF OwnersReturn
<1>4. NoReturn(Below(stack))
  <2>1. /\ Len(Below(stack)) = Len(stack) - 1
        /\ \A i \in 1 .. Len(stack) - 1 : Below(stack)[i] = stack[i]
    BY <1>1, BelowFrames
  <2> QED
    BY <1>3, <2>1, Zenon DEF NoReturn
<1>5. HasReturn(stack) <=> Top.ret
  <2>1. Len(stack) \in 1 .. Len(stack)
    BY <1>1
  <2>2. ASSUME HasReturn(stack) PROVE Top.ret
    <3>1. PICK i \in 1 .. Len(stack) : IsOwner(stack, i) /\ stack[i].ret
      BY <2>2, Zenon DEF HasReturn
    <3>2. i = Len(stack)
      BY <1>1, <1>2, <2>1, <3>1, OneOwner
    <3> QED
      BY <1>1, <3>1, <3>2, Zenon
  <2>3. ASSUME Top.ret PROVE HasReturn(stack)
    BY <1>1, <1>2, <2>1, <2>3, Zenon DEF HasReturn
  <2> QED
    BY <2>2, <2>3
<1>6. ASSUME phase = "done", Top.kind # "switch"
      PROVE  Top.ret <=> ins \notin Opens(blocks)
  <2>1. HasReturn(stack) <=> ~(ins \in Opens(blocks))
    BY <1>1, <1>6, Zenon DEF Owed, Flagged
  <2> QED
    BY <1>5, <2>1, Zenon
<1> QED
  BY <1>2, <1>4, <1>5, <1>6

LEMMA MovesOpens ==
  ASSUME NEW bs, NEW b, NEW ds, NEW c, Moves(bs, b, ds, c), b \in Opens(bs)
  PROVE  /\ Opens(ds) \ {c} = Opens(bs) \ {b}
         /\ c \in Opens(ds)
         /\ Clean(bs) => Clean(ds)
<1>1. Opens(ds) = (Opens(bs) \ {b}) \cup {c} /\ (c = b \/ c > Len(bs))
      /\ (Clean(bs) => Clean(ds))
  BY DEF Moves
<1>2. c \notin Opens(bs) \ {b}
  BY <1>1 DEF Opens
<1> QED
  BY <1>1, <1>2

LEMMA KeepOwed ==
  ASSUME Owed, SameFrames(stack, stack'), UNCHANGED labelVars,
         Clean(blocks'), Opens(blocks') \ {ins'} = Opens(blocks) \ {ins},
         Flagged(stack', phase', ins' \in Opens(blocks')),
         phase' = "verify" => Opens(blocks') = Waiting(labelBB, placed)
  PROVE  Owed'
<1>1. labelBB' = labelBB /\ placed' = placed
  BY DEF labelVars
<1>2. Claims(stack') = Claims(stack) /\ Apart(stack')
  BY KeepClaims DEF Owed, Ledger
<1> QED
  BY <1>1, <1>2 DEF Owed, Ledger

LEMMA PushOwed ==
  ASSUME Owed, UNCHANGED labelVars,
         NEW f, Pushed(stack, stack', f), f.kind = "for" => f.head # f.exit,
         Clean(blocks'),
         Opens(blocks') \ {ins'} = (Opens(blocks) \ {ins}) \cup ClaimsOf(f),
         ClaimsOf(f) \cap Opens(blocks) = {},
         Flagged(stack', phase', ins' \in Opens(blocks')),
         phase' # "verify"
  PROVE  Owed'
<1>1. labelBB' = labelBB /\ placed' = placed
  BY DEF labelVars
<1>2. /\ Opens(blocks) \ {ins} = Claims(stack) \cup Waiting(labelBB, placed)
      /\ Claims(stack) \cap Waiting(labelBB, placed) = {}
      /\ Apart(stack)
  BY DEF Owed, Ledger
<1>3. /\ ClaimsOf(f) \cap Claims(stack) = {}
      /\ ClaimsOf(f) \cap Waiting(labelBB, placed) = {}
  BY <1>2
<1>4. Claims(stack') = Claims(stack) \cup ClaimsOf(f) /\ Apart(stack')
  BY <1>2, <1>3, PushClaims
<1>5. Ledger(blocks', ins', stack', labelBB', placed')
  BY <1>1, <1>2, <1>3, <1>4 DEF Ledger
<1> QED
  BY <1>5 DEF Owed

LEMMA PopOwed ==
  ASSUME Base, Owed, UNCHANGED labelVars,
         NEW t, Popped(stack, t), stack' = t, Clean(blocks'),
         Opens(blocks') \ {ins'} = (Opens(blocks) \ {ins}) \ ClaimsOf(Top),
         Flagged(stack', phase', ins' \in Opens(blocks')),
         phase' # "verify"
  PROVE  Owed'
<1>1. /\ labelBB' = labelBB /\ placed' = placed
      /\ Len(stack) > 0 /\ Top = stack[Len(stack)]
  BY BaseFacts DEF labelVars
<1>2. /\ Opens(blocks) \ {ins} = Claims(stack) \cup Waiting(labelBB, placed)
      /\ Claims(stack) \cap Waiting(labelBB, placed) = {}
      /\ Apart(stack)
  BY DEF Owed, Ledger
<1>3. /\ Claims(stack') = Claims(stack) \ ClaimsOf(Top)
      /\ ClaimsOf(Top) \subseteq Claims(stack)
      /\ Apart(stack')
  BY <1>1, <1>2, PopClaims
<1>4. Ledger(blocks', ins', stack', labelBB', placed')
  BY <1>1, <1>2, <1>3 DEF Ledger
<1> QED
  BY <1>4 DEF Owed

(* What the last activation claims is open and is not the insertion block. *)
LEMMA TopClaims ==
  ASSUME Base, Owed
  PROVE  /\ ClaimsOf(Top) \subseteq Opens(blocks) \ {ins}
         /\ Top.kind = "for" => Top.head # Top.exit
         /\ Clean(blocks)
<1>1. Len(stack) \in 1 .. Len(stack) /\ Top = stack[Len(stack)]
  BY BaseFacts
<1>2. ClaimsOf(Top) \subseteq Claims(stack)
  BY <1>1 DEF Claims
<1> QED
  BY <1>1, <1>2 DEF Owed, Ledger, Apart

-----------------------------------------------------------------------------
(* Statements *)

Holds == Base' /\ (~CodeAfterReturn /\ Owed => Owed')

LEMMA ExprHolds ==
  ASSUME Base, NEW e \in Exprs, ExprStatement(e)
  PROVE  Holds
<1>1. PICK ds, c : /\ Eval(blocks, ins, e).bs = ds /\ Eval(blocks, ins, e).at = c
                   /\ Moves(blocks, ins, ds, c)
  BY BaseFacts, FlowAssumption, EvalMoves
<1>2. /\ Ordinary /\ blocks' = ds /\ ins' = c /\ stack' = Fresh /\ phase' = "done"
      /\ UNCHANGED targets /\ UNCHANGED labelVars
  BY <1>1 DEF ExprStatement
<1>3. Grows
  BY <1>1, <1>2, DueCounts DEF Grows, Moves, Ordinary
<1>4. Base'
  BY <1>2, <1>3, BaseFacts, KeepBase
<1>5. ASSUME ~CodeAfterReturn, Owed PROVE Owed'
  <2>1. ins \in Opens(blocks) /\ NoReturn(stack')
    BY <1>2, <1>5, DueCounts, OrdinaryOpen, FreshNoReturn DEF Ordinary
  <2>2. /\ Opens(blocks') \ {ins'} = Opens(blocks) \ {ins}
        /\ ins' \in Opens(blocks') /\ Clean(blocks')
    BY <1>1, <1>2, <1>5, <2>1, MovesOpens DEF Owed, Ledger
  <2>3. Flagged(stack', phase', ins' \in Opens(blocks'))
    BY <1>2, <2>1, <2>2, OpenFlagged
  <2> QED
    BY <1>2, <1>5, <2>2, <2>3, BaseFacts, KeepOwed
<1> QED
  BY <1>4, <1>5 DEF Holds

LEMMA EmptyHolds ==
  ASSUME Base, EmptyStatement
  PROVE  Holds
<1>1. /\ phase = "stmt" /\ blocks' = blocks /\ ins' = ins /\ stack' = Fresh
      /\ phase' = "done" /\ count' = count
      /\ UNCHANGED targets /\ UNCHANGED labelVars
  BY DEF EmptyStatement
<1>2. Grows
  BY <1>1, BaseFacts, StillCounts DEF Grows
<1>3. Base'
  BY <1>1, <1>2, BaseFacts, KeepBase
<1>4. ASSUME Owed PROVE Owed'
  <2>1. NoReturn(stack')
    BY <1>1, <1>4, FreshNoReturn
  <2>2. stack'[Len(stack')].kind = Top.kind
    BY <1>1, BaseFacts DEF SameFrames, SameFrame
  <2>3. Flagged(stack', phase', ins' \in Opens(blocks'))
    <3>1. CASE Top.kind = "switch"
      BY <1>1, <2>1, <2>2, <3>1, SwitchFlagged
    <3>2. CASE Top.kind # "switch"
      <4>1. ins' \in Opens(blocks')
        BY <1>1, <1>4, <3>2, BaseFacts DEF Owed, Flagged
      <4> QED
        BY <1>1, <2>1, <4>1, OpenFlagged
    <3> QED
      BY <3>1, <3>2
  <2> QED
    BY <1>1, <1>4, <2>3, BaseFacts, KeepOwed DEF Owed, Ledger
<1> QED
  BY <1>3, <1>4 DEF Holds

LEMMA ReturnHolds ==
  ASSUME Base, NEW e \in Exprs, Return(e)
  PROVE  Holds
<1>1. PICK ds, c : /\ Eval(blocks, ins, e).bs = ds /\ Eval(blocks, ins, e).at = c
                   /\ Moves(blocks, ins, ds, c)
  BY BaseFacts, FlowAssumption, EvalMoves
<1>2. /\ Ordinary /\ blocks' = Terminate(ds, c) /\ ins' = c
      /\ stack' = SetReturn(Fresh, TRUE) /\ phase' = "done"
      /\ UNCHANGED targets /\ UNCHANGED labelVars
  BY <1>1 DEF Return
<1>3. /\ blocks' \in Seq(BlockStates) /\ Len(blocks') = Len(ds)
      /\ Opens(blocks') = Opens(ds) \ {c}
      /\ Clean(ds) /\ c \in Opens(ds) => Clean(blocks')
  BY <1>1, <1>2, TerminateBlocks DEF Moves
<1>4. Grows
  BY <1>1, <1>2, <1>3, DueCounts DEF Grows, Moves, Ordinary
<1>5. SameFrames(stack, stack') /\ SameFrames(stack, Fresh)
  <2>1. SameFrames(stack, Fresh) /\ SameFrames(Fresh, stack')
    BY <1>2, BaseFacts, SetReturnFrames DEF SameFrames
  <2> QED
    BY <2>1 DEF SameFrames, SameFrame
<1>6. Base'
  BY <1>2, <1>4, <1>5, KeepBase
<1>7. ASSUME ~CodeAfterReturn, Owed PROVE Owed'
  <2>1. ins \in Opens(blocks) /\ NoReturn(Fresh)
    BY <1>2, <1>7, DueCounts, OrdinaryOpen, FreshNoReturn DEF Ordinary
  <2>2. /\ Opens(ds) \ {c} = Opens(blocks) \ {ins}
        /\ c \in Opens(ds) /\ Clean(ds)
    BY <1>1, <1>7, <2>1, MovesOpens DEF Owed, Ledger
  <2>3. /\ Opens(blocks') \ {ins'} = Opens(blocks) \ {ins}
        /\ ins' \notin Opens(blocks') /\ Clean(blocks')
    BY <1>2, <1>3, <2>2
  <2>4. StackFits(Fresh, Len(blocks))
    BY <1>5, BaseFacts, KeepFits DEF Base
  <2>5. Flagged(stack', phase', ins' \in Opens(blocks'))
    BY <1>2, <2>1, <2>3, <2>4, BaseFacts, SetFlagged
  <2> QED
    BY <1>2, <1>5, <1>7, <2>3, <2>5, KeepOwed
<1> QED
  BY <1>6, <1>7 DEF Holds

(* A branch, and the block behind it. *)
LEMMA JumpBlocks ==
  ASSUME Base, NEW bs \in Seq(BlockStates), Len(bs) \in Nat,
         Len(bs) >= Len(blocks), Jump(bs), Due
  PROVE  /\ Grows
         /\ Opens(blocks') \ {ins'} = Opens(bs) \ {ins}
         /\ ins' \in Opens(blocks')
         /\ Clean(bs) /\ ins \in Opens(bs) => Clean(blocks')
         /\ stack' = Fresh /\ phase' = "done"
<1> DEFINE ds == Terminate(bs, ins)
           n == Len(bs)
<1>1. /\ blocks' = New(ds, 1) /\ ins' = n + 1
      /\ stack' = Fresh /\ phase' = "done"
  BY DEF Jump
<1>2. ins \in 1 .. Len(bs) /\ n \in Nat /\ n >= Len(blocks)
  BY BaseFacts
<1>3. /\ ds \in Seq(BlockStates) /\ Len(ds) = n
      /\ Opens(ds) = Opens(bs) \ {ins}
      /\ Clean(bs) /\ ins \in Opens(bs) => Clean(ds)
  BY <1>2, TerminateBlocks
<1> HIDE DEF ds, n
<1>4. /\ New(ds, 1) \in Seq(BlockStates) /\ Len(New(ds, 1)) = n + 1
      /\ Opens(New(ds, 1)) = Opens(ds) \cup (n + 1 .. n + 1)
      /\ Clean(ds) => Clean(New(ds, 1))
  BY <1>3, NewBlocks
<1>5. n + 1 \notin Opens(ds) /\ n + 1 .. n + 1 = {n + 1}
  BY <1>2, <1>3 DEF Opens
<1>6. Grows
  BY <1>1, <1>2, <1>4, DueCounts DEF Grows
<1> QED
  BY <1>1, <1>3, <1>4, <1>5, <1>6

LEMMA JumpHolds ==
  ASSUME Base, Ordinary, Jump(blocks), UNCHANGED <<targets, labelVars>>
  PROVE  Holds
<1>1. /\ Grows
      /\ Opens(blocks') \ {ins'} = Opens(blocks) \ {ins}
      /\ ins' \in Opens(blocks')
      /\ Clean(blocks) /\ ins \in Opens(blocks) => Clean(blocks')
      /\ stack' = Fresh /\ phase' = "done"
  BY BaseFacts, JumpBlocks DEF Ordinary
<1>2. UNCHANGED labelVars
  OBVIOUS
<1>3. Base'
  BY <1>1, BaseFacts, KeepBase
<1>4. ASSUME ~CodeAfterReturn, Owed PROVE Owed'
  <2>1. ins \in Opens(blocks) /\ NoReturn(stack')
    BY <1>1, <1>4, DueCounts, OrdinaryOpen, FreshNoReturn DEF Ordinary
  <2>2. Flagged(stack', phase', ins' \in Opens(blocks'))
    BY <1>1, <2>1, OpenFlagged
  <2>3. Clean(blocks')
    BY <1>1, <1>4, <2>1 DEF Owed, Ledger
  <2> QED
    BY <1>1, <1>2, <1>4, <2>2, <2>3, BaseFacts, KeepOwed
<1> QED
  BY <1>3, <1>4 DEF Holds

LEMMA ExitHolds ==
  ASSUME Base, ExitOnJump
  PROVE  Holds
<1>1. /\ Due /\ blocks' = blocks /\ ins' = ins /\ stack' = stack
      /\ phase' = "exit" /\ UNCHANGED targets /\ UNCHANGED labelVars
  BY DEF ExitOnJump, Ordinary
<1>2. Grows
  BY <1>1, BaseFacts, DueCounts DEF Grows
<1>3. SameFrames(stack, stack')
  BY <1>1, BaseFacts, SameSelf
<1>4. Base'
  BY <1>1, <1>2, <1>3, KeepBase
<1>5. ASSUME Owed PROVE Owed'
  <2>1. OwnersReturn(stack') /\ Clean(blocks')
    BY <1>1, <1>5 DEF Owed, Flagged, Ledger
  <2>2. Flagged(stack', phase', ins' \in Opens(blocks'))
    BY <1>1, <2>1 DEF Flagged
  <2> QED
    BY <1>1, <1>3, <1>5, <2>1, <2>2, KeepOwed
<1> QED
  BY <1>4, <1>5 DEF Holds

(* A new label block is the target of no loop and no switch. *)
LEMMA LabelMapFree ==
  ASSUME Base, NEW l \in Labels
  PROVE  LabelsFree(stack, LabelMap(l))
<1>1. ASSUME NEW m \in Labels, LabelMap(l)[m] # NULL,
             NEW i \in 1 .. Len(stack), stack[i].kind \in JumpKinds
      PROVE  LabelMap(l)[m] # stack[i].head /\ LabelMap(l)[m] # stack[i].exit
  <2>1. CASE LabelMap(l)[m] = labelBB[m]
    BY <1>1, <2>1 DEF Base, LabelsFree
  <2>2. CASE LabelMap(l)[m] = Len(blocks) + 1
    <3>1. FrameFits(stack[i], Len(blocks))
      BY <1>1 DEF Base, StackFits
    <3>2. stack[i].head \in 0 .. Len(blocks) /\ stack[i].exit \in 0 .. Len(blocks)
      BY <3>1 DEF FrameFits
    <3> QED
      BY <2>2, <3>2, BaseFacts
  <2>3. LabelMap(l)[m] = labelBB[m] \/ LabelMap(l)[m] = Len(blocks) + 1
    BY BaseFacts, LabelBlock DEF Base
  <2> QED
    BY <2>1, <2>2, <2>3
<1> QED
  BY <1>1 DEF LabelsFree

(* A new block waits for its label. *)
LEMMA LabelLedger ==
  ASSUME Base, Owed, NEW l \in Labels
  PROVE  Ledger(LabelBlocks(l), ins, stack, LabelMap(l), placed)
<1>1. Ledger(blocks, ins, stack, labelBB, placed)
  BY DEF Owed
<1>2. CASE labelBB[l] # NULL
  BY <1>1, <1>2, BaseFacts, LabelBlock DEF Base
<1>3. CASE labelBB[l] = NULL
  <2> DEFINE n == Len(blocks)
             b == n + 1
  <2>1. /\ l \notin placed
        /\ \A m \in Labels : m # l => LabelMap(l)[m] = labelBB[m]
        /\ LabelMap(l)[l] = b /\ b # NULL
        /\ Opens(LabelBlocks(l)) = Opens(blocks) \cup {b}
        /\ Clean(LabelBlocks(l))
    BY <1>1, <1>3, BaseFacts, LabelBlock DEF Base, Ledger, NULL
  <2>2. /\ b # ins /\ b \notin Opens(blocks)
    BY BaseFacts DEF Opens
  <2> HIDE DEF b
  <2>3. Waiting(LabelMap(l), placed) = Waiting(labelBB, placed) \cup {b}
    BY <1>3, <2>1 DEF Waiting
  <2>4. b \notin Claims(stack)
    BY <1>1, <2>2 DEF Ledger
  <2> QED
    BY <1>1, <2>1, <2>2, <2>3, <2>4 DEF Ledger
<1> QED
  BY <1>2, <1>3

LEMMA GotoHolds ==
  ASSUME Base, NEW l \in Labels, Goto(l)
  PROVE  Holds
<1>1. /\ Ordinary /\ Jump(LabelBlocks(l)) /\ labelBB' = LabelMap(l)
      /\ brk' = brk /\ cnt' = cnt /\ sw' = sw
      /\ placed' = placed /\ skipped' = skipped
      /\ UNCHANGED targets
  BY DEF Goto, targets
<1> DEFINE bs == LabelBlocks(l)
<1>2. /\ bs \in Seq(BlockStates) /\ Len(bs) \in Nat /\ Len(bs) >= Len(blocks)
      /\ LabelMap(l) \in [Labels -> 0 .. Len(bs)]
      /\ LabelMap(l)[l] \in 1 .. Len(bs)
      /\ \A m \in Labels : m # l => LabelMap(l)[m] = labelBB[m]
      /\ LabelsDiffer(LabelMap(l))
  BY BaseFacts, LabelBlock DEF Base
<1>3. /\ Grows
      /\ Opens(blocks') \ {ins'} = Opens(bs) \ {ins}
      /\ ins' \in Opens(blocks')
      /\ Clean(bs) /\ ins \in Opens(bs) => Clean(blocks')
      /\ stack' = Fresh /\ phase' = "done"
      /\ ins' = Len(bs) + 1
  BY <1>1, <1>2, JumpBlocks DEF Ordinary, Jump
<1> HIDE DEF bs
<1>4. Base'
  <2>1. StackFits(stack', Len(blocks'))
    BY <1>3, BaseFacts, KeepFits DEF Base, Grows
  <2>2. RightTargets(stack', brk', cnt', sw')
    BY <1>1, <1>3, BaseFacts, KeepTargets DEF Base
  <2>3. LabelsDiffer(labelBB') /\ LabelsFree(stack', labelBB')
    BY <1>1, <1>2, <1>3, BaseFacts, LabelMapFree, KeepLabels
  <2>4. \A m \in placed' : labelBB'[m] # NULL
    <3>1. \A m \in placed : m \in Labels /\ labelBB[m] # NULL
      BY DEF Base, TypeOK
    <3> QED
      BY <1>1, <1>2, <3>1 DEF NULL
  <2>5. labelBB' \in [Labels -> 0 .. Len(blocks')]
    <3>1. Len(bs) <= Len(blocks') /\ Len(blocks') \in Nat
      BY <1>2, <1>3 DEF Grows
    <3>2. 0 .. Len(bs) \subseteq 0 .. Len(blocks')
      BY <1>2, <3>1
    <3> QED
      BY <1>1, <1>2, <3>2
  <2>6. placed' \subseteq Labels /\ skipped' \subseteq Labels
    BY <1>1 DEF Base, TypeOK
  <2>7. TypeOK'
    BY <1>1, <1>3, <2>1, <2>5, <2>6, TargetsStay DEF TypeOK, Grows, StackFits
  <2> QED
    BY <2>1, <2>2, <2>3, <2>4, <2>7 DEF Base
<1>5. ASSUME ~CodeAfterReturn, Owed PROVE Owed'
  <2>1. ins \in Opens(blocks) /\ NoReturn(stack')
    BY <1>1, <1>3, <1>5, DueCounts, OrdinaryOpen, FreshNoReturn DEF Ordinary
  <2>2. Flagged(stack', phase', ins' \in Opens(blocks'))
    BY <1>3, <2>1, OpenFlagged
  <2>3. Ledger(bs, ins, stack, LabelMap(l), placed)
    BY <1>5, LabelLedger DEF bs
  <2>4. ins \in Opens(bs)
    BY <2>1, BaseFacts, LabelBlock DEF Base, bs
  <2>5. Claims(stack') = Claims(stack) /\ Apart(stack')
    BY <1>3, <1>5, BaseFacts, KeepClaims DEF Owed, Ledger
  <2>6. Ledger(blocks', ins', stack', labelBB', placed')
    BY <1>1, <1>3, <2>3, <2>4, <2>5 DEF Ledger
  <2> QED
    BY <1>3, <2>2, <2>6 DEF Owed
<1> QED
  BY <1>4, <1>5 DEF Holds

LEMMA LabelHolds ==
  ASSUME Base, NEW l \in Labels, Label(l)
  PROVE  Holds
<1> DEFINE bs == LabelBlocks(l)
           b  == LabelMap(l)[l]
           f  == Frame("label")
<1>1. /\ Due /\ l \notin placed
      /\ blocks' = TerminateOnce(bs, ins) /\ labelBB' = LabelMap(l) /\ ins' = b
      /\ placed' = placed \cup {l} /\ skipped' = skipped
      /\ brk' = brk /\ cnt' = cnt /\ sw' = sw
      /\ stack' = Append(Fresh, f) /\ phase' = phase
      /\ UNCHANGED targets
  BY DEF Label, targets
<1>2. /\ bs \in Seq(BlockStates) /\ Len(bs) \in Nat /\ Len(bs) >= Len(blocks)
      /\ LabelMap(l) \in [Labels -> 0 .. Len(bs)]
      /\ b \in 1 .. Len(bs)
      /\ \A m \in Labels : m # l => LabelMap(l)[m] = labelBB[m]
      /\ LabelsDiffer(LabelMap(l))
  BY BaseFacts, LabelBlock DEF Base
<1>3. Opened(f, "label", FALSE, 0, 0, FALSE)
  BY BaseFacts, FrameFields DEF FrameKinds
<1> HIDE DEF bs, b, f
<1>4. /\ blocks' \in Seq(BlockStates) /\ Len(blocks') = Len(bs)
      /\ Opens(blocks') = Opens(bs) \ {ins}
      /\ Clean(bs) => Clean(blocks')
  BY <1>1, <1>2, BaseFacts, TerminateOnceBlocks
<1>5. Grows
  BY <1>1, <1>2, <1>4, DueCounts DEF Grows
<1>6. /\ Pushed(stack, stack', f)
      /\ NoReturn(Fresh) /\ ~f.ret => NoReturn(stack')
  BY <1>1, <1>3, BaseFacts, PushFrame DEF Opened
<1>7. /\ f.kind = "label" /\ ~f.ret /\ ClaimsOf(f) = {}
      /\ f.brk = brk /\ f.cnt = cnt /\ f.sw = sw
  BY <1>3 DEF Opened, ClaimsOf
<1>8. Base'
  <2>1. FrameFits(f, Len(blocks'))
    <3>1. /\ brk \in 0 .. Len(blocks') /\ cnt \in 0 .. Len(blocks')
          /\ sw \in 0 .. Len(blocks') /\ 0 \in 0 .. Len(blocks')
      BY <1>5, BaseFacts DEF Grows
    <3> QED
      BY <1>3, <3>1 DEF Opened, FrameFits
  <2>2. StackFits(stack', Len(blocks'))
    BY <1>5, <1>6, <1>7, <2>1, BaseFacts, PushFits DEF Base, Grows
  <2>3. RightTargets(stack', brk', cnt', sw')
    BY <1>1, <1>6, <1>7, PushTargets DEF Base, JumpKinds
  <2>4. LabelsDiffer(labelBB') /\ LabelsFree(stack', labelBB')
    BY <1>1, <1>2, <1>6, <1>7, LabelMapFree, PushLabels DEF JumpKinds
  <2>5. \A m \in placed' : labelBB'[m] # NULL
    <3>1. \A m \in placed : m \in Labels /\ labelBB[m] # NULL
      BY DEF Base, TypeOK
    <3> QED
      BY <1>1, <1>2, <3>1 DEF NULL, b
  <2>6. labelBB' \in [Labels -> 0 .. Len(blocks')]
    BY <1>1, <1>2, <1>4
  <2>7. placed' \subseteq Labels /\ skipped' \subseteq Labels
    BY <1>1 DEF Base, TypeOK
  <2>8. TypeOK'
    BY <1>1, <1>5, <2>2, <2>6, <2>7, TargetsStay DEF TypeOK, Grows, StackFits
  <2> QED
    BY <2>2, <2>3, <2>4, <2>5, <2>8 DEF Base
<1>9. ASSUME ~CodeAfterReturn, Owed PROVE Owed'
  <2>1. NoReturn(stack')
    BY <1>1, <1>6, <1>7, <1>9, DueCounts, FreshNoReturn
  <2>2. Ledger(bs, ins, stack, LabelMap(l), placed)
    BY <1>9, LabelLedger DEF bs
  <2>3. b \in Waiting(LabelMap(l), placed)
    BY <1>1, <1>2 DEF Waiting, NULL, b
  <2>4. Waiting(LabelMap(l), placed \cup {l}) = Waiting(LabelMap(l), placed) \ {b}
    <3>1. \A m \in Labels : LabelMap(l)[m] = b => m = l
      BY <1>2 DEF LabelsDiffer, NULL, b
    <3> QED
      BY <3>1 DEF Waiting, b
  <2>5. ins' \in Opens(blocks')
    BY <1>1, <1>4, <2>2, <2>3 DEF Ledger
  <2>6. Claims(stack') = Claims(stack) /\ Apart(stack')
    BY <1>6, <1>7, <2>2, PushClaims DEF Ledger
  <2>7. Ledger(blocks', ins', stack', labelBB', placed')
    BY <1>1, <1>4, <2>2, <2>3, <2>4, <2>6 DEF Ledger
  <2>8. phase' = "stmt"
    BY <1>1, DueCounts
  <2>9. Flagged(stack', phase', ins' \in Opens(blocks'))
    BY <2>1, <2>5, <2>8, OpenFlagged
  <2> QED
    BY <2>7, <2>8, <2>9 DEF Owed
<1> QED
  BY <1>8, <1>9 DEF Holds

LEMMA CaseHolds ==
  ASSUME Base, Case
  PROVE  Holds
<1> DEFINE n == Len(blocks)
           bs == New(blocks, 1)
<1>1. /\ Due /\ blocks' = TerminateOnce(bs, ins) /\ ins' = n + 1
      /\ stack' = Fresh /\ phase' = "done"
      /\ UNCHANGED targets /\ UNCHANGED labelVars
  BY DEF Case
<1>2. /\ bs \in Seq(BlockStates) /\ Len(bs) = n + 1
      /\ Opens(bs) = Opens(blocks) \cup (n + 1 .. n + 1)
      /\ Clean(blocks) => Clean(bs)
  BY BaseFacts, NewBlocks
<1>3. n \in Nat /\ ins \in 1 .. n /\ n + 1 \notin Opens(blocks) /\ n = Len(blocks)
  BY BaseFacts DEF Opens
<1> HIDE DEF n, bs
<1>4. /\ blocks' \in Seq(BlockStates) /\ Len(blocks') = Len(bs)
      /\ Opens(blocks') = Opens(bs) \ {ins}
      /\ Clean(bs) => Clean(blocks')
  BY <1>1, <1>2, <1>3, TerminateOnceBlocks
<1>5. Grows
  BY <1>1, <1>2, <1>3, <1>4, DueCounts DEF Grows
<1>6. Base'
  BY <1>1, <1>5, BaseFacts, KeepBase
<1>7. ASSUME Owed PROVE Owed'
  <2>1. NoReturn(stack')
    BY <1>1, <1>7, DueCounts, FreshNoReturn
  <2>2. Opens(blocks') \ {ins'} = Opens(blocks) \ {ins} /\ ins' \in Opens(blocks')
    BY <1>1, <1>2, <1>3, <1>4
  <2>3. Clean(blocks')
    BY <1>2, <1>4, <1>7 DEF Owed, Ledger
  <2>4. Flagged(stack', phase', ins' \in Opens(blocks'))
    BY <1>1, <2>1, <2>2, OpenFlagged
  <2> QED
    BY <1>1, <1>7, <2>2, <2>3, <2>4, BaseFacts, KeepOwed
<1> QED
  BY <1>6, <1>7 DEF Holds

LEMMA BlockHolds ==
  ASSUME Base, Block
  PROVE  Holds
<1> DEFINE f == [Frame("block") EXCEPT !.list = TRUE]
<1>1. /\ Ordinary /\ blocks' = blocks /\ ins' = ins /\ phase' = phase
      /\ stack' = Append(Fresh, f)
      /\ brk' = brk /\ cnt' = cnt /\ sw' = sw
      /\ UNCHANGED targets /\ UNCHANGED labelVars
  BY DEF Block, targets
<1>2. Opened(f, "block", TRUE, 0, 0, FALSE)
  BY BaseFacts, FrameFields, ListField DEF FrameKinds
<1> HIDE DEF f
<1>3. Grows
  BY <1>1, BaseFacts, DueCounts DEF Grows, Ordinary
<1>4. /\ Pushed(stack, stack', f)
      /\ NoReturn(Fresh) /\ ~f.ret => NoReturn(stack')
  BY <1>1, <1>2, BaseFacts, PushFrame DEF Opened
<1>5. /\ f.kind = "block" /\ ~f.ret /\ ClaimsOf(f) = {}
      /\ f.brk = brk /\ f.cnt = cnt /\ f.sw = sw
  BY <1>2 DEF Opened, ClaimsOf
<1>6. FrameFits(f, Len(blocks'))
  <2>1. 0 \in 0 .. Len(blocks')
    BY <1>3 DEF Grows
  <2> QED
    BY <1>1, <1>2, <2>1, BaseFacts DEF Opened, FrameFits
<1>7. Base'
  BY <1>1, <1>3, <1>4, <1>5, <1>6, PushBase DEF JumpKinds
<1>8. ASSUME ~CodeAfterReturn, Owed PROVE Owed'
  <2>1. ins' \in Opens(blocks') /\ NoReturn(stack') /\ phase' = "stmt"
    BY <1>1, <1>4, <1>5, <1>8, DueCounts, OrdinaryOpen, FreshNoReturn DEF Ordinary
  <2>2. Flagged(stack', phase', ins' \in Opens(blocks'))
    BY <2>1, OpenFlagged
  <2>3. Clean(blocks')
    BY <1>1, <1>8 DEF Owed, Ledger
  <2> QED
    BY <1>1, <1>4, <1>5, <1>8, <2>1, <2>2, <2>3, PushOwed
<1> QED
  BY <1>7, <1>8 DEF Holds

(* The body of a construct is next. *)
LEMMA PushHolds ==
  ASSUME Base, Ordinary, Grows, UNCHANGED labelVars, phase' = phase,
         NEW f, NEW k, NEW l, NEW h, NEW x, Opened(f, k, l, h, x, FALSE),
         stack' = Append(Fresh, f), k # "function", k = "for" => h # x,
         FrameFits(f, Len(blocks')),
         k \notin JumpKinds => brk' = brk /\ cnt' = cnt,
         k # "switch" => sw' = sw,
         k \in JumpKinds =>
           /\ brk' = x
           /\ cnt' = IF k = "switch" THEN NULL ELSE h
           /\ x > Len(blocks)
           /\ h > Len(blocks) \/ h = NULL,
         k = "switch" => sw' = x,
         ClaimsOf(f) \cap Opens(blocks) = {},
         ins \in Opens(blocks) /\ Clean(blocks) =>
           /\ Clean(blocks')
           /\ Opens(blocks') \ {ins'} = (Opens(blocks) \ {ins}) \cup ClaimsOf(f)
           /\ k = "switch" \/ ins' \in Opens(blocks')
  PROVE  Holds
<1>1. /\ f \in Frames /\ f.kind = k /\ ~f.ret /\ f.head = h /\ f.exit = x
      /\ f.brk = brk /\ f.cnt = cnt /\ f.sw = sw
  BY DEF Opened
<1>2. /\ Pushed(stack, stack', f)
      /\ NoReturn(Fresh) /\ ~f.ret => NoReturn(stack')
  BY <1>1, BaseFacts, PushFrame
<1>3. Base'
  BY <1>1, <1>2, PushBase
<1>4. ASSUME ~CodeAfterReturn, Owed PROVE Owed'
  <2>1. ins \in Opens(blocks) /\ NoReturn(stack') /\ phase' = "stmt"
    BY <1>1, <1>2, <1>4, DueCounts, OrdinaryOpen, FreshNoReturn DEF Ordinary
  <2>2. /\ Clean(blocks')
        /\ Opens(blocks') \ {ins'} = (Opens(blocks) \ {ins}) \cup ClaimsOf(f)
        /\ k = "switch" \/ ins' \in Opens(blocks')
    BY <1>4, <2>1 DEF Owed, Ledger
  <2>3. Flagged(stack', phase', ins' \in Opens(blocks'))
    <3>1. CASE k = "switch"
      <4>1. stack'[Len(stack')].kind = "switch"
        BY <1>1, <1>2, <3>1 DEF Pushed
      <4> QED
        BY <2>1, <4>1, SwitchFlagged
    <3>2. CASE ins' \in Opens(blocks')
      BY <2>1, <3>2, OpenFlagged
    <3> QED
      BY <2>2, <3>1, <3>2
  <2> QED
    BY <1>1, <1>2, <1>4, <2>1, <2>2, <2>3, PushOwed
<1> QED
  BY <1>3, <1>4 DEF Holds

(* Room for the frame of a construct whose blocks are h and x. *)
LEMMA OpenedFits ==
  ASSUME Base, Grows, NEW f, NEW k \in {"then", "while", "for", "switch"}, NEW l,
         NEW h \in 0 .. Len(blocks'), NEW x \in 0 .. Len(blocks'),
         Opened(f, k, l, h, x, FALSE),
         k # "switch" => h > 0 /\ l = FALSE, k # "then" => x > 0
  PROVE  FrameFits(f, Len(blocks'))
<1>1. /\ brk \in 0 .. Len(blocks') /\ cnt \in 0 .. Len(blocks')
      /\ sw \in 0 .. Len(blocks')
  BY BaseFacts DEF Grows
<1>2. /\ f.head \in 0 .. Len(blocks') /\ f.exit \in 0 .. Len(blocks')
      /\ f.brk \in 0 .. Len(blocks') /\ f.cnt \in 0 .. Len(blocks')
      /\ f.sw \in 0 .. Len(blocks')
      /\ f.kind \in {"then", "else", "while", "for"} => f.head > 0
      /\ f.kind \in {"while", "for", "switch"} => f.exit > 0
  BY <1>1 DEF Opened
<1>3. f.list => f.kind \in {"function", "block", "switch"}
  BY Zenon DEF Opened
<1> QED
  BY <1>2, <1>3, Zenon DEF FrameFits

LEMMA IfHolds ==
  ASSUME Base, NEW e \in Exprs, If(e)
  PROVE  Holds
<1>1. PICK ds, c : /\ Eval(blocks, ins, e).bs = ds /\ Eval(blocks, ins, e).at = c
                   /\ Moves(blocks, ins, ds, c)
  BY BaseFacts, FlowAssumption, EvalMoves
<1> DEFINE n == Len(ds)
           es == New(ds, 2)
           f == [Frame("then") EXCEPT !.head = n + 2]
<1>2. /\ Ordinary /\ blocks' = Terminate(es, c) /\ ins' = n + 1
      /\ stack' = Append(Fresh, f) /\ phase' = phase
      /\ brk' = brk /\ cnt' = cnt /\ sw' = sw
      /\ UNCHANGED labelVars
  BY <1>1 DEF If, targets
<1>3. /\ n \in Nat /\ n >= Len(blocks) /\ c \in 1 .. n /\ ds \in Seq(BlockStates)
      /\ n = Len(ds)
  BY <1>1 DEF Moves
<1>4. Opened(f, "then", FALSE, n + 2, 0, FALSE)
  <2>1. n + 2 \in Nat
    BY <1>3
  <2> QED
    BY <2>1, BaseFacts, ThenFrame, Zenon
<1>5. /\ es \in Seq(BlockStates) /\ Len(es) = n + 2
      /\ Opens(es) = Opens(ds) \cup (n + 1 .. n + 2)
      /\ Clean(ds) => Clean(es)
  BY <1>3, NewBlocks
<1> HIDE DEF n, es, f
<1>6. /\ blocks' \in Seq(BlockStates) /\ Len(blocks') = n + 2
      /\ Opens(blocks') = Opens(es) \ {c}
      /\ Clean(es) /\ c \in Opens(es) => Clean(blocks')
  BY <1>2, <1>3, <1>5, TerminateBlocks
<1>7. Grows
  BY <1>2, <1>3, <1>6, BaseFacts, DueCounts DEF Grows, Ordinary
<1>8. ClaimsOf(f) = {n + 2} /\ n + 2 \in 1 .. Len(blocks') /\ 0 \in 0 .. Len(blocks')
  BY <1>3, <1>4, <1>6 DEF Opened, ClaimsOf
<1>9. FrameFits(f, Len(blocks'))
  <2>1. n + 2 \in 0 .. Len(blocks') /\ n + 2 > 0
    BY <1>3, <1>6
  <2> QED
    BY <1>4, <1>7, <1>8, <2>1, OpenedFits, Zenon
<1>10. ClaimsOf(f) \cap Opens(blocks) = {}
  BY <1>3, <1>8, BaseFacts DEF Opens
<1>11. ASSUME ins \in Opens(blocks), Clean(blocks)
       PROVE  /\ Clean(blocks')
              /\ Opens(blocks') \ {ins'} = (Opens(blocks) \ {ins}) \cup ClaimsOf(f)
              /\ ins' \in Opens(blocks')
  <2>1. Opens(ds) \ {c} = Opens(blocks) \ {ins} /\ c \in Opens(ds) /\ Clean(ds)
    BY <1>1, <1>11, MovesOpens
  <2>2. n + 1 \notin Opens(ds)
    BY <1>3 DEF Opens
  <2>3. /\ n + 1 # c /\ n + 2 # c /\ n + 1 # n + 2 /\ n + 1 .. n + 2 = {n + 1, n + 2}
    BY <1>3
  <2> QED
    BY <1>2, <1>5, <1>6, <1>8, <2>1, <2>2, <2>3
<1> QED
  BY <1>2, <1>4, <1>7, <1>9, <1>10, <1>11, PushHolds DEF JumpKinds

LEMMA WhileHolds ==
  ASSUME Base, NEW e \in Exprs, While(e)
  PROVE  Holds
<1> DEFINE n == Len(blocks)
           news == New(blocks, 3)
           bs == Terminate(news, ins)
           f == [Frame("while") EXCEPT !.head = n + 1, !.exit = n + 3]
<1>1. /\ n \in Nat /\ n = Len(blocks) /\ ins \in 1 .. n
      /\ news \in Seq(BlockStates) /\ Len(news) = n + 3
      /\ Opens(news) = Opens(blocks) \cup (n + 1 .. n + 3)
      /\ Clean(blocks) => Clean(news)
  BY BaseFacts, NewBlocks
<1>2. /\ bs \in Seq(BlockStates) /\ Len(bs) = n + 3
      /\ Opens(bs) = Opens(news) \ {ins}
      /\ Clean(news) /\ ins \in Opens(news) => Clean(bs)
  <2> HIDE DEF n, news
  <2> QED
    BY <1>1, TerminateBlocks
<1>3. PICK ds, c : /\ Eval(bs, n + 1, e).bs = ds /\ Eval(bs, n + 1, e).at = c
                   /\ Moves(bs, n + 1, ds, c)
  <2>1. n + 1 \in 1 .. Len(bs)
    BY <1>1, <1>2
  <2> HIDE DEF n, news, bs
  <2> QED
    BY <1>2, <2>1, FlowAssumption, EvalMoves
<1>4. /\ Ordinary /\ blocks' = Terminate(ds, c) /\ ins' = n + 2
      /\ brk' = n + 3 /\ cnt' = n + 1 /\ sw' = sw
      /\ stack' = Append(Fresh, f) /\ phase' = phase
      /\ UNCHANGED labelVars
  BY <1>3 DEF While
<1>5. Opened(f, "while", FALSE, n + 1, n + 3, FALSE)
  <2>1. n + 1 \in Nat /\ n + 3 \in Nat
    BY <1>1
  <2> QED
    BY <2>1, BaseFacts, LoopFrame, Zenon
<1> HIDE DEF n, news, bs, f
<1>6. /\ ds \in Seq(BlockStates) /\ c \in 1 .. Len(ds)
      /\ Len(ds) \in Nat /\ Len(ds) >= n + 3 /\ (c = n + 1 \/ c > n + 3)
  BY <1>1, <1>2, <1>3 DEF Moves
<1>7. /\ blocks' \in Seq(BlockStates) /\ Len(blocks') = Len(ds)
      /\ Opens(blocks') = Opens(ds) \ {c}
      /\ Clean(ds) /\ c \in Opens(ds) => Clean(blocks')
  BY <1>4, <1>6, TerminateBlocks
<1>8. Grows
  BY <1>1, <1>4, <1>6, <1>7, BaseFacts, DueCounts DEF Grows, Ordinary
<1>9. ClaimsOf(f) = {n + 3}
  BY <1>5 DEF Opened, ClaimsOf
<1>10. FrameFits(f, Len(blocks'))
  <2>1. /\ n + 1 \in 0 .. Len(blocks') /\ n + 1 > 0
        /\ n + 3 \in 0 .. Len(blocks') /\ n + 3 > 0
    BY <1>1, <1>6, <1>7
  <2> QED
    BY <1>5, <1>8, <2>1, OpenedFits, Zenon
<1>11. ClaimsOf(f) \cap Opens(blocks) = {} /\ n + 3 > Len(blocks) /\ n + 1 > Len(blocks)
  BY <1>1, <1>9 DEF Opens
<1>12. ASSUME ins \in Opens(blocks), Clean(blocks)
       PROVE  /\ Clean(blocks')
              /\ Opens(blocks') \ {ins'} = (Opens(blocks) \ {ins}) \cup ClaimsOf(f)
              /\ ins' \in Opens(blocks')
  <2>1. ins \in Opens(news) /\ Clean(bs)
    BY <1>1, <1>2, <1>12
  <2>2. n + 1 \in Opens(bs)
    BY <1>1, <1>2
  <2>3. Opens(ds) \ {c} = Opens(bs) \ {n + 1} /\ c \in Opens(ds) /\ Clean(ds)
    BY <1>3, <2>1, <2>2, MovesOpens
  <2>4. Opens(blocks') = ((Opens(blocks) \cup (n + 1 .. n + 3)) \ {ins}) \ {n + 1}
    BY <1>1, <1>2, <1>7, <2>3
  <2>5. \A b \in Opens(blocks) : b \in 1 .. n
    BY <1>1 DEF Opens
  <2>6. Opens(blocks') = (Opens(blocks) \ {ins}) \cup {n + 2, n + 3}
    BY <1>1, <2>4, <2>5
  <2>7. n + 2 \notin Opens(blocks) /\ n + 2 # n + 3
    BY <1>1, <2>5
  <2> QED
    BY <1>4, <1>7, <1>9, <2>3, <2>6, <2>7
<1> QED
  BY <1>4, <1>5, <1>8, <1>10, <1>11, <1>12, PushHolds DEF JumpKinds

LEMMA ForHolds ==
  ASSUME Base, NEW e \in Exprs, For(e)
  PROVE  Holds
<1> DEFINE n == Len(blocks)
           news == New(blocks, 4)
           evald == Emit(news, ins)
           bs == Terminate(evald, ins)
           f == [Frame("for") EXCEPT !.head = n + 3, !.exit = n + 4]
<1>1. /\ n \in Nat /\ n = Len(blocks) /\ ins \in 1 .. n
      /\ news \in Seq(BlockStates) /\ Len(news) = n + 4
      /\ Opens(news) = Opens(blocks) \cup (n + 1 .. n + 4)
      /\ Clean(blocks) => Clean(news)
  BY BaseFacts, NewBlocks
<1>2. /\ evald \in Seq(BlockStates) /\ Len(evald) = n + 4
      /\ ins \in Opens(news) => evald = news
  <2> HIDE DEF n, news
  <2> QED
    BY <1>1, EmitBlocks
<1>3. /\ bs \in Seq(BlockStates) /\ Len(bs) = n + 4
      /\ Opens(bs) = Opens(evald) \ {ins}
      /\ Clean(evald) /\ ins \in Opens(evald) => Clean(bs)
  <2> HIDE DEF n, news, evald
  <2> QED
    BY <1>1, <1>2, TerminateBlocks
<1>4. PICK ds, c : /\ Eval(bs, n + 1, e).bs = ds /\ Eval(bs, n + 1, e).at = c
                   /\ Moves(bs, n + 1, ds, c)
  <2>1. n + 1 \in 1 .. Len(bs)
    BY <1>1, <1>3
  <2> HIDE DEF n, news, evald, bs
  <2> QED
    BY <1>3, <2>1, FlowAssumption, EvalMoves
<1>5. /\ Ordinary /\ blocks' = Terminate(ds, c) /\ ins' = n + 2
      /\ brk' = n + 4 /\ cnt' = n + 3 /\ sw' = sw
      /\ stack' = Append(Fresh, f) /\ phase' = phase
      /\ UNCHANGED labelVars
  BY <1>4 DEF For
<1>6. Opened(f, "for", FALSE, n + 3, n + 4, FALSE)
  <2>1. n + 3 \in Nat /\ n + 4 \in Nat
    BY <1>1
  <2> QED
    BY <2>1, BaseFacts, LoopFrame, Zenon
<1> HIDE DEF n, news, evald, bs, f
<1>7. /\ ds \in Seq(BlockStates) /\ c \in 1 .. Len(ds)
      /\ Len(ds) \in Nat /\ Len(ds) >= n + 4 /\ (c = n + 1 \/ c > n + 4)
  BY <1>1, <1>3, <1>4 DEF Moves
<1>8. /\ blocks' \in Seq(BlockStates) /\ Len(blocks') = Len(ds)
      /\ Opens(blocks') = Opens(ds) \ {c}
      /\ Clean(ds) /\ c \in Opens(ds) => Clean(blocks')
  BY <1>5, <1>7, TerminateBlocks
<1>9. Grows
  BY <1>1, <1>5, <1>7, <1>8, BaseFacts, DueCounts DEF Grows, Ordinary
<1>10. ClaimsOf(f) = {n + 3, n + 4} /\ n + 3 # n + 4
  BY <1>1, <1>6 DEF Opened, ClaimsOf
<1>11. FrameFits(f, Len(blocks'))
  <2>1. /\ n + 3 \in 0 .. Len(blocks') /\ n + 3 > 0
        /\ n + 4 \in 0 .. Len(blocks') /\ n + 4 > 0
    BY <1>1, <1>7, <1>8
  <2> QED
    BY <1>6, <1>9, <2>1, OpenedFits, Zenon
<1>12. ClaimsOf(f) \cap Opens(blocks) = {} /\ n + 3 > Len(blocks) /\ n + 4 > Len(blocks)
  BY <1>1, <1>10 DEF Opens
<1>13. ASSUME ins \in Opens(blocks), Clean(blocks)
       PROVE  /\ Clean(blocks')
              /\ Opens(blocks') \ {ins'} = (Opens(blocks) \ {ins}) \cup ClaimsOf(f)
              /\ ins' \in Opens(blocks')
  <2>1. ins \in Opens(news) /\ evald = news /\ Clean(bs)
    BY <1>1, <1>2, <1>3, <1>13
  <2>2. n + 1 \in Opens(bs)
    BY <1>1, <1>3, <2>1
  <2>3. Opens(ds) \ {c} = Opens(bs) \ {n + 1} /\ c \in Opens(ds) /\ Clean(ds)
    BY <1>4, <2>1, <2>2, MovesOpens
  <2>4. Opens(blocks') = ((Opens(blocks) \cup (n + 1 .. n + 4)) \ {ins}) \ {n + 1}
    BY <1>1, <1>3, <1>8, <2>1, <2>3
  <2>5. \A b \in Opens(blocks) : b \in 1 .. n
    BY <1>1 DEF Opens
  <2>6. Opens(blocks') = (Opens(blocks) \ {ins}) \cup {n + 2, n + 3, n + 4}
    BY <1>1, <2>4, <2>5
  <2>7. n + 2 \notin Opens(blocks) /\ n + 2 # n + 3 /\ n + 2 # n + 4
    BY <1>1, <2>5
  <2> QED
    BY <1>5, <1>8, <1>10, <2>3, <2>6, <2>7
<1> QED
  BY <1>5, <1>6, <1>9, <1>10, <1>11, <1>12, <1>13, PushHolds DEF JumpKinds

LEMMA SwitchHolds ==
  ASSUME Base, NEW e \in Exprs, NEW braces \in BOOLEAN, Switch(e, braces)
  PROVE  Holds
<1>1. PICK ds, c : /\ Eval(blocks, ins, e).bs = ds /\ Eval(blocks, ins, e).at = c
                   /\ Moves(blocks, ins, ds, c)
  BY BaseFacts, FlowAssumption, EvalMoves
<1> DEFINE n == Len(ds)
           es == New(ds, 1)
           f == [Frame("switch") EXCEPT !.exit = n + 1, !.list = braces]
<1>2. /\ Ordinary /\ blocks' = Terminate(es, c) /\ ins' = c
      /\ brk' = n + 1 /\ cnt' = NULL /\ sw' = n + 1
      /\ stack' = Append(Fresh, f) /\ phase' = phase
      /\ UNCHANGED labelVars
  BY <1>1 DEF Switch
<1>3. /\ n \in Nat /\ n >= Len(blocks) /\ c \in 1 .. n /\ ds \in Seq(BlockStates)
      /\ n = Len(ds)
  BY <1>1 DEF Moves
<1>4. Opened(f, "switch", braces, 0, n + 1, FALSE)
  <2>1. n + 1 \in Nat
    BY <1>3
  <2> QED
    BY <2>1, BaseFacts, SwitchFrame, Zenon
<1>5. /\ es \in Seq(BlockStates) /\ Len(es) = n + 1
      /\ Opens(es) = Opens(ds) \cup (n + 1 .. n + 1)
      /\ Clean(ds) => Clean(es)
  BY <1>3, NewBlocks
<1> HIDE DEF n, es, f
<1>6. /\ blocks' \in Seq(BlockStates) /\ Len(blocks') = n + 1
      /\ Opens(blocks') = Opens(es) \ {c}
      /\ Clean(es) /\ c \in Opens(es) => Clean(blocks')
  BY <1>2, <1>3, <1>5, TerminateBlocks
<1>7. Grows
  BY <1>2, <1>3, <1>6, BaseFacts, DueCounts DEF Grows, Ordinary
<1>8. ClaimsOf(f) = {n + 1}
  BY <1>4 DEF Opened, ClaimsOf
<1>9. FrameFits(f, Len(blocks'))
  <2>1. n + 1 \in 0 .. Len(blocks') /\ n + 1 > 0 /\ 0 \in 0 .. Len(blocks')
    BY <1>3, <1>6
  <2> QED
    BY <1>4, <1>7, <2>1, OpenedFits, Zenon
<1>10. ClaimsOf(f) \cap Opens(blocks) = {} /\ n + 1 > Len(blocks)
  BY <1>3, <1>8, BaseFacts DEF Opens
<1>11. ASSUME ins \in Opens(blocks), Clean(blocks)
       PROVE  /\ Clean(blocks')
              /\ Opens(blocks') \ {ins'} = (Opens(blocks) \ {ins}) \cup ClaimsOf(f)
  <2>1. Opens(ds) \ {c} = Opens(blocks) \ {ins} /\ c \in Opens(ds) /\ Clean(ds)
    BY <1>1, <1>11, MovesOpens
  <2>2. n + 1 # c /\ n + 1 .. n + 1 = {n + 1}
    BY <1>3
  <2> QED
    BY <1>2, <1>5, <1>6, <1>8, <2>1, <2>2
<1> QED
  BY <1>2, <1>4, <1>7, <1>9, <1>10, <1>11, PushHolds DEF JumpKinds, NULL

-----------------------------------------------------------------------------
(* The ends of statements *)

LEMMA NextInListHolds ==
  ASSUME Base, NextInList
  PROVE  Holds
<1>1. /\ phase = "done" /\ count' = count /\ Top.list
      /\ blocks' = blocks /\ ins' = ins /\ stack' = stack
      /\ UNCHANGED targets /\ UNCHANGED labelVars
      /\ phase' = IF HasReturn(stack) /\ Top.kind # "switch" THEN "skip" ELSE "stmt"
  BY DEF NextInList, Done
<1>2. phase' \in {"stmt", "skip"} /\ SameFrames(stack, stack')
  BY <1>1, BaseFacts, SameSelf
<1>3. Grows
  BY <1>1, <1>2, BaseFacts, StillCounts DEF Grows
<1>4. Base'
  BY <1>1, <1>2, <1>3, KeepBase
<1>5. ASSUME Owed PROVE Owed'
  <2> DEFINE open == ins \in Opens(blocks)
             k == stack[Len(stack)].kind
  <2>1. /\ OwnersReturn(stack) /\ k = Top.kind
        /\ k # "switch" => (HasReturn(stack) <=> ~open)
    BY <1>1, <1>5, BaseFacts, Zenon DEF Owed, Flagged
  <2>2. k \in {"function", "block", "switch"}
    <3>1. FrameFits(Top, Len(blocks))
      BY BaseFacts
    <3> QED
      BY <1>1, <2>1, <3>1, Zenon DEF FrameFits
  <2>3. Flagged(stack', phase', ins' \in Opens(blocks'))
    <3> HIDE DEF open, k
    <3>1. CASE k = "switch"
      <4>1. phase' = "stmt"
        BY <1>1, <2>1, <3>1
      <4> QED
        BY <1>1, <2>1, <3>1, <4>1, Zenon DEF Flagged, k
    <3>2. CASE k # "switch" /\ HasReturn(stack)
      <4>1. phase' = "skip"
        BY <1>1, <2>1, <3>2
      <4> QED
        BY <1>1, <2>1, <2>2, <3>2, <4>1, Zenon DEF Flagged, k, open
    <3>3. CASE k # "switch" /\ ~HasReturn(stack)
      <4>1. phase' = "stmt"
        BY <1>1, <3>3
      <4>2. NoReturn(stack)
        BY <2>1, <3>3, Zenon DEF NoReturn, OwnersReturn, HasReturn
      <4>3. open
        BY <2>1, <3>3, Zenon
      <4> QED
        BY <1>1, <4>1, <4>2, <4>3, OpenFlagged, Zenon DEF open
    <3> QED
      BY <3>1, <3>2, <3>3, Zenon
  <2>4. Clean(blocks') /\ phase' # "verify"
    BY <1>1, <1>2, <1>5 DEF Owed, Ledger
  <2> QED
    BY <1>1, <1>2, <1>5, <2>3, <2>4, KeepOwed
<1> QED
  BY <1>4, <1>5 DEF Holds

(* What is not generated owes no block, and is owed none: the block of a label
   that is skipped still waits for it. *)
LEMMA SkipLabelHolds ==
  ASSUME Base, NEW l \in Labels, SkipLabel(l)
  PROVE  Holds
<1>1. /\ skipped' = skipped \cup {l}
      /\ blocks' = blocks /\ ins' = ins /\ stack' = stack /\ phase' = phase
      /\ count' = count /\ labelBB' = labelBB /\ placed' = placed
      /\ brk' = brk /\ cnt' = cnt /\ sw' = sw
  BY DEF SkipLabel, targets
<1>2. Base'
  BY <1>1 DEF Base, TypeOK
<1>3. Owed => Owed'
  BY <1>1 DEF Owed
<1> QED
  BY <1>2, <1>3 DEF Holds

(* The end of an activation that had a flag of its own and comes to an open
   block. *)
LEMMA LeaveHolds ==
  ASSUME Base, Grows, UNCHANGED labelVars, phase' = "done",
         NEW t, SameFrames(Below(stack), t), stack' = t,
         Top.kind \in {"then", "else", "while", "for", "switch"},
         Top.kind \notin JumpKinds => brk' = brk /\ cnt' = cnt,
         Top.kind # "switch" => sw' = sw,
         Top.kind \in JumpKinds => brk' = Top.brk /\ cnt' = Top.cnt,
         Top.kind = "switch" => sw' = Top.sw,
         NoReturn(Below(stack)) => NoReturn(t),
         Owed =>
           /\ Clean(blocks')
           /\ Opens(blocks') \ {ins'} = (Opens(blocks) \ {ins}) \ ClaimsOf(Top)
           /\ ins' \in Opens(blocks')
  PROVE  Holds
<1>1. Popped(stack, t)
  BY BaseFacts, PopSame
<1>2. Base'
  BY <1>1, PopBase
<1>3. ASSUME Owed PROVE Owed'
  <2>1. ~SharesFlag(Top)
    BY DEF SharesFlag
  <2>2. NoReturn(t)
    BY <1>3, <2>1, OwnFlag
  <2>3. Flagged(stack', phase', ins' \in Opens(blocks'))
    BY <1>3, <2>2, OpenFlagged
  <2> QED
    BY <1>1, <1>3, <2>3, PopOwed
<1> QED
  BY <1>2, <1>3 DEF Holds

LEMMA BelowSame ==
  ASSUME Base
  PROVE  SameFrames(Below(stack), Below(stack))
  BY BaseFacts, BelowFrames, SameSelf

LEMMA EndWhileHolds ==
  ASSUME Base, EndWhile
  PROVE  Holds
<1> DEFINE x == Top.exit
<1>1. /\ phase = "done" /\ count' = count /\ Top.kind = "while"
      /\ blocks' = IF Top.ret THEN blocks ELSE Terminate(blocks, ins)
      /\ ins' = x /\ brk' = Top.brk /\ cnt' = Top.cnt /\ sw' = sw
      /\ stack' = Below(stack) /\ phase' = "done"
      /\ UNCHANGED labelVars
  BY DEF EndWhile, Done
<1>2. /\ Terminate(blocks, ins) \in Seq(BlockStates)
      /\ Len(Terminate(blocks, ins)) = Len(blocks)
      /\ Opens(Terminate(blocks, ins)) = Opens(blocks) \ {ins}
      /\ Clean(blocks) /\ ins \in Opens(blocks) => Clean(Terminate(blocks, ins))
  BY BaseFacts, TerminateBlocks
<1>3. x \in 1 .. Len(blocks)
  BY <1>1, BaseFacts DEF FrameFits
<1>4. Grows
  BY <1>1, <1>2, <1>3, BaseFacts, StillCounts DEF Grows
<1>5. ASSUME Owed
      PROVE  /\ Clean(blocks')
             /\ Opens(blocks') \ {ins'} = (Opens(blocks) \ {ins}) \ ClaimsOf(Top)
             /\ ins' \in Opens(blocks')
  <2>1. ClaimsOf(Top) = {x}
    BY <1>1 DEF ClaimsOf
  <2>2. x \in Opens(blocks) \ {ins} /\ Clean(blocks)
    BY <1>5, <2>1, TopClaims
  <2>3. Top.ret <=> ins \notin Opens(blocks)
    BY <1>1, <1>5, OwnFlag DEF SharesFlag
  <2>4. Clean(blocks') /\ Opens(blocks') = Opens(blocks) \ {ins}
    <3>1. CASE Top.ret
      BY <1>1, <2>2, <2>3, <3>1
    <3>2. CASE ~Top.ret
      BY <1>1, <1>2, <2>2, <2>3, <3>2
    <3> QED
      BY <3>1, <3>2
  <2> QED
    BY <1>1, <2>1, <2>2, <2>4
<1> QED
  BY <1>1, <1>4, <1>5, BelowSame, LeaveHolds DEF JumpKinds

LEMMA EndForHolds ==
  ASSUME Base, NEW e \in Exprs, EndFor(e)
  PROVE  Holds
<1> DEFINE x == Top.exit
           h == Top.head
           bs == IF Top.ret THEN blocks ELSE TerminateOnce(blocks, ins)
<1>1. /\ phase = "done" /\ count' = count /\ Top.kind = "for"
      /\ ins' = x /\ brk' = Top.brk /\ cnt' = Top.cnt /\ sw' = sw
      /\ stack' = Below(stack) /\ phase' = "done"
      /\ UNCHANGED labelVars
      /\ blocks' = Terminate(Eval(bs, h, e).bs, Eval(bs, h, e).at)
  BY DEF EndFor, Done
<1>2. /\ TerminateOnce(blocks, ins) \in Seq(BlockStates)
      /\ Len(TerminateOnce(blocks, ins)) = Len(blocks)
      /\ Opens(TerminateOnce(blocks, ins)) = Opens(blocks) \ {ins}
      /\ Clean(blocks) => Clean(TerminateOnce(blocks, ins))
  BY BaseFacts, TerminateOnceBlocks
<1>3. x \in 1 .. Len(blocks) /\ h \in 1 .. Len(blocks)
  BY <1>1, BaseFacts DEF FrameFits
<1>4. bs \in Seq(BlockStates) /\ Len(bs) = Len(blocks)
  BY <1>2, BaseFacts
<1> HIDE DEF bs
<1>5. PICK ds, c : /\ Eval(bs, h, e).bs = ds /\ Eval(bs, h, e).at = c
                   /\ Moves(bs, h, ds, c)
  BY <1>3, <1>4, FlowAssumption, EvalMoves
<1>6. /\ ds \in Seq(BlockStates) /\ Len(ds) \in Nat /\ Len(ds) >= Len(blocks)
      /\ c \in 1 .. Len(ds) /\ (c = h \/ c > Len(blocks))
  BY <1>4, <1>5 DEF Moves
<1>7. /\ blocks' \in Seq(BlockStates) /\ Len(blocks') = Len(ds)
      /\ Opens(blocks') = Opens(ds) \ {c}
      /\ Clean(ds) /\ c \in Opens(ds) => Clean(blocks')
  BY <1>1, <1>5, <1>6, TerminateBlocks
<1>8. Grows
  BY <1>1, <1>3, <1>6, <1>7, BaseFacts, StillCounts DEF Grows
<1>9. ASSUME Owed
      PROVE  /\ Clean(blocks')
             /\ Opens(blocks') \ {ins'} = (Opens(blocks) \ {ins}) \ ClaimsOf(Top)
             /\ ins' \in Opens(blocks')
  <2>1. ClaimsOf(Top) = {h, x}
    BY <1>1 DEF ClaimsOf
  <2>2. {h, x} \subseteq Opens(blocks) \ {ins} /\ h # x /\ Clean(blocks)
    BY <1>1, <1>9, <2>1, TopClaims
  <2>3. Top.ret <=> ins \notin Opens(blocks)
    BY <1>1, <1>9, OwnFlag DEF SharesFlag
  <2>4. Clean(bs) /\ Opens(bs) = Opens(blocks) \ {ins}
    <3>1. CASE Top.ret
      BY <2>2, <2>3, <3>1 DEF bs
    <3>2. CASE ~Top.ret
      BY <1>2, <2>2, <3>2 DEF bs
    <3> QED
      BY <3>1, <3>2
  <2>5. Opens(ds) \ {c} = Opens(bs) \ {h} /\ c \in Opens(ds) /\ Clean(ds)
    BY <1>5, <2>2, <2>4, MovesOpens
  <2>6. Clean(blocks') /\ Opens(blocks') = (Opens(blocks) \ {ins}) \ {h}
    BY <1>7, <2>4, <2>5
  <2> QED
    BY <1>1, <2>1, <2>2, <2>6
<1> QED
  BY <1>1, <1>8, <1>9, BelowSame, LeaveHolds DEF JumpKinds

LEMMA EndSwitchHolds ==
  ASSUME Base, EndSwitch
  PROVE  Holds
<1> DEFINE x == Top.exit
           t == SetReturn(Below(stack), FALSE)
<1>1. /\ count' = count /\ Top.kind = "switch"
      /\ blocks' = TerminateOnce(blocks, ins)
      /\ ins' = x /\ brk' = Top.brk /\ cnt' = Top.cnt /\ sw' = Top.sw
      /\ stack' = t /\ phase' = "done"
      /\ UNCHANGED labelVars
  BY DEF EndSwitch, Done, AtEnd
<1>2. /\ blocks' \in Seq(BlockStates)
      /\ Len(blocks') = Len(blocks)
      /\ Opens(blocks') = Opens(blocks) \ {ins}
      /\ Clean(blocks) => Clean(blocks')
  BY <1>1, BaseFacts, TerminateOnceBlocks
<1>3. x \in 1 .. Len(blocks)
  BY <1>1, BaseFacts DEF FrameFits
<1>4. Grows
  BY <1>1, <1>2, <1>3, BaseFacts, StillCounts DEF Grows
<1>5. /\ SameFrames(Below(stack), t)
      /\ NoReturn(Below(stack)) => NoReturn(t)
  <2>1. Below(stack) \in Seq(Frames)
    BY BaseFacts, BelowFrames
  <2>2. /\ SameFrames(Below(stack), t)
        /\ \A i \in 1 .. Len(Below(stack)) :
             /\ IsOwner(Below(stack), i) => t[i].ret = FALSE
             /\ ~IsOwner(Below(stack), i) => t[i].ret = Below(stack)[i].ret
    BY <2>1, SetReturnFrames
  <2>3. Len(t) = Len(Below(stack))
    BY <2>2 DEF SameFrames
  <2> HIDE DEF t
  <2> QED
    BY <2>2, <2>3, Zenon DEF NoReturn
<1>6. ASSUME Owed
      PROVE  /\ Clean(blocks')
             /\ Opens(blocks') \ {ins'} = (Opens(blocks) \ {ins}) \ ClaimsOf(Top)
             /\ ins' \in Opens(blocks')
  <2>1. ClaimsOf(Top) = {x}
    BY <1>1 DEF ClaimsOf
  <2>2. x \in Opens(blocks) \ {ins} /\ Clean(blocks)
    BY <1>6, <2>1, TopClaims
  <2> QED
    BY <1>1, <1>2, <2>1, <2>2
<1> HIDE DEF t
<1> QED
  BY <1>1, <1>4, <1>5, <1>6, LeaveHolds DEF JumpKinds

(* A block and a labelled statement hand on the flag they were given. *)
LEMMA SharedFlag ==
  ASSUME Base, OwnersReturn(stack), SharesFlag(Top)
  PROVE  /\ OwnersReturn(Below(stack))
         /\ HasReturn(Below(stack)) <=> HasReturn(stack)
<1> DEFINE n == Len(stack)
           t == Below(stack)
<1>1. /\ stack \in Seq(Frames) /\ n \in Nat /\ n > 0 /\ n = Len(stack)
      /\ Top = stack[n]
  BY BaseFacts
<1>2. /\ Len(t) = n - 1 /\ \A i \in 1 .. n - 1 : t[i] = stack[i]
  BY <1>1, BelowFrames
<1> HIDE DEF n, t
<1>3. ASSUME NEW i \in 1 .. n - 1 PROVE IsOwner(t, i) <=> IsOwner(stack, i)
  <2>1. \A j \in i + 1 .. n : (j \in i + 1 .. n - 1) \/ j = n
    BY <1>1
  <2>2. \A j \in i + 1 .. n - 1 : j \in i + 1 .. n /\ t[j] = stack[j]
    BY <1>1, <1>2
  <2> QED
    BY <1>1, <1>2, <1>3, <2>1, <2>2 DEF IsOwner
<1>4. ASSUME NEW i \in 1 .. n, IsOwner(stack, i) PROVE i \in 1 .. n - 1
  <2>1. i # n
    BY <1>1, <1>4 DEF IsOwner
  <2> QED
    BY <1>1, <2>1
<1>5. \A i \in 1 .. n - 1 : i \in 1 .. n
  BY <1>1
<1>6. OwnersReturn(t)
  BY <1>1, <1>2, <1>3, <1>5, Zenon DEF OwnersReturn
<1>7. HasReturn(t) <=> HasReturn(stack)
  BY <1>1, <1>2, <1>3, <1>4, <1>5, Zenon DEF HasReturn
<1> QED
  BY <1>6, <1>7 DEF t

LEMMA ReturnFlagged ==
  ASSUME NEW s, OwnersReturn(s), NEW open, HasReturn(s) <=> ~open
  PROVE  Flagged(s, "done", open)
  BY DEF Flagged

LEMMA EndBlockHolds ==
  ASSUME Base, EndBlock
  PROVE  Holds
<1>1. /\ phase \in {"stmt", "skip"} /\ count' = count /\ Top.kind = "block"
      /\ blocks' = blocks /\ ins' = ins /\ stack' = Below(stack) /\ phase' = "done"
      /\ brk' = brk /\ cnt' = cnt /\ sw' = sw
      /\ UNCHANGED labelVars
  BY DEF EndBlock, AtEnd, targets
<1>2. Popped(stack, Below(stack))
  BY BaseFacts, PopFrame
<1>3. Grows
  BY <1>1, BaseFacts, StillCounts DEF Grows
<1>4. Base'
  BY <1>1, <1>2, <1>3, PopBase DEF JumpKinds
<1>5. ASSUME Owed PROVE Owed'
  <2> DEFINE open == ins \in Opens(blocks)
  <2>1. /\ OwnersReturn(stack) /\ stack[Len(stack)].kind = "block"
        /\ phase = "stmt" => open /\ NoReturn(stack)
        /\ phase = "skip" => HasReturn(stack) /\ ~open
    BY <1>1, <1>5, BaseFacts DEF Owed, Flagged
  <2>2. /\ OwnersReturn(Below(stack))
        /\ HasReturn(Below(stack)) <=> HasReturn(stack)
    BY <1>1, <2>1, SharedFlag DEF SharesFlag
  <2>3. NoReturn(stack) => ~HasReturn(stack)
    BY Zenon DEF NoReturn, HasReturn
  <2>4. HasReturn(Below(stack)) <=> ~open
    <3> HIDE DEF open
    <3> QED
      BY <1>1, <2>1, <2>2, <2>3
  <2>5. Flagged(stack', phase', ins' \in Opens(blocks'))
    BY <1>1, <2>2, <2>4, ReturnFlagged
  <2>6. ClaimsOf(Top) = {} /\ Clean(blocks')
    BY <1>1, <1>5 DEF ClaimsOf, Owed, Ledger
  <2> QED
    BY <1>1, <1>2, <1>5, <2>5, <2>6, PopOwed
<1> QED
  BY <1>4, <1>5 DEF Holds

LEMMA EndLabelHolds ==
  ASSUME Base, EndLabel
  PROVE  Holds
<1>1. /\ phase = "done" /\ count' = count /\ Top.kind = "label"
      /\ blocks' = blocks /\ ins' = ins /\ stack' = Below(stack) /\ phase' = "done"
      /\ brk' = brk /\ cnt' = cnt /\ sw' = sw
      /\ UNCHANGED labelVars
  BY DEF EndLabel, Done, targets
<1>2. Popped(stack, Below(stack))
  BY BaseFacts, PopFrame
<1>3. Grows
  BY <1>1, BaseFacts, StillCounts DEF Grows
<1>4. Base'
  BY <1>1, <1>2, <1>3, PopBase DEF JumpKinds
<1>5. ASSUME Owed PROVE Owed'
  <2> DEFINE open == ins \in Opens(blocks)
  <2>1. /\ OwnersReturn(stack) /\ stack[Len(stack)].kind = "label"
        /\ HasReturn(stack) <=> ~open
    BY <1>1, <1>5, BaseFacts DEF Owed, Flagged
  <2>2. /\ OwnersReturn(Below(stack))
        /\ HasReturn(Below(stack)) <=> HasReturn(stack)
    BY <1>1, <2>1, SharedFlag DEF SharesFlag
  <2>3. HasReturn(Below(stack)) <=> ~open
    BY <2>1, <2>2
  <2>4. Flagged(stack', phase', ins' \in Opens(blocks'))
    BY <1>1, <2>2, <2>3, ReturnFlagged
  <2>5. ClaimsOf(Top) = {} /\ Clean(blocks')
    BY <1>1, <1>5 DEF ClaimsOf, Owed, Ledger
  <2> QED
    BY <1>1, <1>2, <1>5, <2>4, <2>5, PopOwed
<1> QED
  BY <1>4, <1>5 DEF Holds

(* cs has a merge block for the branches that end in a and b. *)
Merged(cs, a, ra, b, rb) ==
  /\ cs \in Seq(BlockStates) /\ Len(cs) = Len(blocks) + 1
  /\ /\ Clean(blocks)
     /\ ~ra => a \in Opens(blocks) /\ a # b
     /\ ~rb => b \in Opens(blocks)
     => /\ Opens(cs) \ {Len(blocks) + 1}
             = (Opens(blocks) \ (IF ra THEN {} ELSE {a}))
                 \ (IF rb THEN {} ELSE {b})
        /\ Len(blocks) + 1 \in Opens(cs)
        /\ Clean(cs)

(* The merge block that follows an if with a branch that comes to its end. *)
LEMMA MergeBlocks ==
  ASSUME Base, NEW a \in 1 .. Len(blocks), NEW b \in 1 .. Len(blocks),
         NEW ra \in BOOLEAN, NEW rb \in BOOLEAN,
         NEW news, news = New(blocks, 1),
         NEW bs, bs = IF ra THEN news ELSE Terminate(news, a),
         NEW cs, cs = IF rb THEN bs ELSE Terminate(bs, b)
  PROVE  Merged(cs, a, ra, b, rb)
<1> DEFINE n == Len(blocks)
<1>1. n \in Nat /\ n = Len(blocks) /\ a \in 1 .. n + 1 /\ b \in 1 .. n + 1
      /\ n + 1 # a /\ n + 1 # b
  BY BaseFacts
<1>2. /\ news \in Seq(BlockStates) /\ Len(news) = n + 1
      /\ Opens(news) = Opens(blocks) \cup (n + 1 .. n + 1)
      /\ Clean(blocks) => Clean(news)
  BY BaseFacts, NewBlocks
<1>3. n + 1 \notin Opens(blocks) /\ n + 1 .. n + 1 = {n + 1}
  BY <1>1 DEF Opens
<1> HIDE DEF n
<1>4. /\ Terminate(news, a) \in Seq(BlockStates) /\ Len(Terminate(news, a)) = n + 1
      /\ Opens(Terminate(news, a)) = Opens(news) \ {a}
      /\ Clean(news) /\ a \in Opens(news) => Clean(Terminate(news, a))
  BY <1>1, <1>2, TerminateBlocks
<1>5. bs \in Seq(BlockStates) /\ Len(bs) = n + 1
  BY <1>2, <1>4
<1>6. /\ Terminate(bs, b) \in Seq(BlockStates) /\ Len(Terminate(bs, b)) = n + 1
      /\ Opens(Terminate(bs, b)) = Opens(bs) \ {b}
      /\ Clean(bs) /\ b \in Opens(bs) => Clean(Terminate(bs, b))
  BY <1>1, <1>5, TerminateBlocks
<1>7. cs \in Seq(BlockStates) /\ Len(cs) = n + 1
  BY <1>5, <1>6
<1>8. ASSUME Clean(blocks), ~ra => a \in Opens(blocks) /\ a # b,
             ~rb => b \in Opens(blocks)
      PROVE  /\ Opens(cs) = ((Opens(blocks) \ (IF ra THEN {} ELSE {a}))
                               \ (IF rb THEN {} ELSE {b})) \cup {n + 1}
             /\ Clean(cs)
  <2>1. /\ Opens(bs) = (Opens(blocks) \ (IF ra THEN {} ELSE {a})) \cup {n + 1}
        /\ Clean(bs)
    <3>1. CASE ra
      BY <1>2, <1>3, <1>8, <3>1
    <3>2. CASE ~ra
      BY <1>1, <1>2, <1>3, <1>4, <1>8, <3>2
    <3> QED
      BY <3>1, <3>2
  <2>2. CASE rb
    BY <1>8, <2>1, <2>2
  <2>3. CASE ~rb
    <3>1. b \in Opens(bs)
      BY <1>8, <2>1, <2>3
    <3> QED
      BY <1>1, <1>6, <1>8, <2>1, <2>3, <3>1
  <2> QED
    BY <2>2, <2>3
<1> QED
  BY <1>1, <1>3, <1>7, <1>8 DEF Merged

LEMMA EndThenHolds ==
  ASSUME Base, EndThen
  PROVE  Holds
<1> DEFINE r == Top.ret
           h == Top.head
           news == New(blocks, 1)
           bs == IF r THEN news ELSE Terminate(news, ins)
           cs == IF FALSE THEN bs ELSE Terminate(bs, h)
<1>1. /\ phase = "done" /\ count' = count /\ Top.kind = "then"
      /\ blocks' = cs /\ ins' = Len(blocks) + 1
      /\ stack' = Below(stack) /\ phase' = "done"
      /\ brk' = brk /\ cnt' = cnt /\ sw' = sw
      /\ UNCHANGED labelVars
  BY DEF EndThen, Done, Merge, targets
<1>2. r \in BOOLEAN
  BY BaseFacts, Zenon DEF Frames
<1>3. h \in 1 .. Len(blocks)
  BY <1>1, BaseFacts DEF FrameFits
<1>4. news = New(blocks, 1)
  OBVIOUS
<1>5. bs = IF r THEN news ELSE Terminate(news, ins)
  OBVIOUS
<1>6. cs = IF FALSE THEN bs ELSE Terminate(bs, h)
  OBVIOUS
<1> HIDE DEF r, h, news, bs, cs
<1>7. Merged(cs, ins, r, h, FALSE)
  BY <1>2, <1>3, <1>4, <1>5, <1>6, BaseFacts, MergeBlocks, Zenon
<1>8. Grows
  BY <1>1, <1>7, BaseFacts, StillCounts DEF Grows, Merged
<1>9. ASSUME Owed
      PROVE  /\ Clean(blocks')
             /\ Opens(blocks') \ {ins'} = (Opens(blocks) \ {ins}) \ ClaimsOf(Top)
             /\ ins' \in Opens(blocks')
  <2>1. ClaimsOf(Top) = {h}
    BY <1>1 DEF ClaimsOf, h
  <2>2. h \in Opens(blocks) /\ h # ins /\ Clean(blocks)
    BY <1>9, <2>1, TopClaims
  <2>3. r <=> ins \notin Opens(blocks)
    BY <1>1, <1>9, OwnFlag DEF SharesFlag, r
  <2> QED
    BY <1>1, <1>7, <2>1, <2>2, <2>3 DEF Merged
<1> QED
  BY <1>1, <1>8, <1>9, BelowSame, LeaveHolds DEF JumpKinds

LEMMA ElseHolds ==
  ASSUME Base, Else
  PROVE  Holds
<1> DEFINE r == Top.ret
           h == Top.head
           n == Len(blocks)
           u == Below(stack)
           f == [Frame("else") EXCEPT !.head = ins, !.thenRet = r]
<1>1. /\ phase = "done" /\ count' = count /\ Top.kind = "then"
      /\ blocks' = blocks /\ ins' = h
      /\ stack' = Append(u, f) /\ phase' = "stmt"
      /\ brk' = brk /\ cnt' = cnt /\ sw' = sw
      /\ UNCHANGED labelVars /\ UNCHANGED targets
      /\ labelBB' = labelBB /\ placed' = placed
  BY DEF Else, Done, targets, labelVars
<1>2. r \in BOOLEAN
  BY BaseFacts, Zenon DEF Frames
<1>3. h \in 1 .. n /\ n \in Nat /\ n = Len(blocks)
  BY <1>1, BaseFacts DEF FrameFits
<1>4. Opened(f, "else", FALSE, ins, 0, r)
  BY <1>2, BaseFacts, ElseFrame, Zenon
<1>5. /\ Popped(stack, u) /\ Len(stack) > 0 /\ Top = stack[Len(stack)]
      /\ SameFrames(u, u)
  BY BaseFacts, PopFrame, BelowSame
<1> HIDE DEF r, h, n, u, f
<1>6. /\ f \in Frames /\ f.kind = "else" /\ ~f.ret /\ f.head = ins /\ f.exit = 0
      /\ f.brk = brk /\ f.cnt = cnt /\ f.sw = sw /\ f.thenRet = r /\ f.list = FALSE
  BY <1>4 DEF Opened
<1>7. Pushed(u, stack', f) /\ (NoReturn(u) => NoReturn(stack'))
  BY <1>1, <1>5, <1>6, PushFrame
<1>8. Grows
  BY <1>1, <1>3, BaseFacts, StillCounts DEF Grows
<1>9. Base'
  <2>1. FrameFits(f, n)
    <3>1. 0 \in 0 .. n /\ ins \in 0 .. n /\ ins > 0
      BY <1>3, BaseFacts
    <3> QED
      BY <1>3, <1>6, <3>1, BaseFacts DEF FrameFits
  <2>2. StackFits(u, n)
    BY <1>1, <1>3, <1>5, PopFits DEF Base
  <2>3. StackFits(stack', Len(blocks'))
    BY <1>1, <1>3, <1>6, <1>7, <2>1, <2>2, PushFits
  <2>4. RightTargets(u, brk, cnt, sw)
    BY <1>1, <1>5, PopTargets DEF Base, JumpKinds
  <2>5. RightTargets(stack', brk', cnt', sw')
    BY <1>1, <1>6, <1>7, <2>4, PushTargets DEF JumpKinds
  <2>6. LabelsFree(stack', labelBB')
    <3>1. LabelsFree(u, labelBB)
      BY <1>5, PopLabels DEF Base
    <3> QED
      BY <1>1, <1>6, <1>7, <3>1, PushLabels DEF JumpKinds
  <2>7. TypeOK'
    BY <1>1, <1>8, <2>3, LabelsStay, TargetsStay DEF TypeOK, Grows, StackFits
  <2> QED
    BY <1>1, <1>8, <2>3, <2>5, <2>6, <2>7, LabelsStay DEF Base
<1>10. ASSUME Owed PROVE Owed'
  <2>1. ClaimsOf(Top) = {h} /\ ClaimsOf(f) = IF r THEN {} ELSE {ins}
    BY <1>1, <1>6 DEF ClaimsOf, h
  <2>2. h \in Opens(blocks) /\ h # ins /\ Clean(blocks)
    BY <1>10, <2>1, TopClaims
  <2>3. NoReturn(u) /\ (r <=> ins \notin Opens(blocks))
    BY <1>1, <1>10, OwnFlag DEF SharesFlag, r, u
  <2>4. /\ Opens(blocks) \ {ins} = Claims(stack) \cup Waiting(labelBB, placed)
        /\ Claims(stack) \cap Waiting(labelBB, placed) = {}
        /\ Apart(stack)
    BY <1>10 DEF Owed, Ledger
  <2>5. /\ Claims(u) = Claims(stack) \ {h} /\ h \in Claims(stack) /\ Apart(u)
    BY <1>5, <2>1, <2>4, PopClaims
  <2>6. /\ ins \notin Claims(stack) /\ ins \notin Waiting(labelBB, placed)
    BY <2>4
  <2>7. ClaimsOf(f) \cap Claims(u) = {}
    BY <2>1, <2>5, <2>6
  <2>8. Claims(stack') = Claims(u) \cup ClaimsOf(f) /\ Apart(stack')
    BY <1>6, <1>7, <2>5, <2>7, PushClaims
  <2>9. Opens(blocks) \ {h} = Claims(stack') \cup Waiting(labelBB, placed)
    <3>1. CASE r
      BY <2>1, <2>2, <2>3, <2>4, <2>5, <2>8, <3>1
    <3>2. CASE ~r
      BY <2>1, <2>2, <2>3, <2>4, <2>5, <2>8, <3>2
    <3> QED
      BY <1>2, <3>1, <3>2
  <2>10. Claims(stack') \cap Waiting(labelBB, placed) = {}
    BY <2>1, <2>4, <2>5, <2>6, <2>8
  <2>11. Ledger(blocks', ins', stack', labelBB', placed')
    BY <1>1, <2>2, <2>8, <2>9, <2>10 DEF Ledger
  <2>12. Flagged(stack', phase', ins' \in Opens(blocks'))
    BY <1>1, <1>7, <2>2, <2>3, OpenFlagged
  <2> QED
    BY <1>1, <2>11, <2>12 DEF Owed
<1> QED
  BY <1>9, <1>10 DEF Holds

LEMMA EndElseHolds ==
  ASSUME Base, EndElse
  PROVE  Holds
<1> DEFINE r == Top.ret
           tr == Top.thenRet
           h == Top.head
           news == New(blocks, 1)
           bs == IF tr THEN news ELSE Terminate(news, h)
           cs == IF r THEN bs ELSE Terminate(bs, ins)
<1>1. /\ phase = "done" /\ count' = count /\ Top.kind = "else"
      /\ phase' = "done" /\ brk' = brk /\ cnt' = cnt /\ sw' = sw
      /\ UNCHANGED labelVars
      /\ tr /\ r =>
           blocks' = blocks /\ ins' = ins /\ stack' = SetReturn(Below(stack), TRUE)
      /\ ~(tr /\ r) =>
           blocks' = cs /\ ins' = Len(blocks) + 1 /\ stack' = Below(stack)
  BY DEF EndElse, Done, Merge, targets
<1>2. r \in BOOLEAN /\ tr \in BOOLEAN
  BY BaseFacts, Zenon DEF Frames
<1>3. h \in 1 .. Len(blocks)
  BY <1>1, BaseFacts DEF FrameFits
<1>4. /\ news = New(blocks, 1)
      /\ bs = IF tr THEN news ELSE Terminate(news, h)
      /\ cs = IF r THEN bs ELSE Terminate(bs, ins)
  OBVIOUS
<1> HIDE DEF r, tr, h, news, bs, cs
<1>5. Merged(cs, h, tr, ins, r)
  BY <1>2, <1>3, <1>4, BaseFacts, MergeBlocks, Zenon
<1>6. Grows
  <2>1. /\ blocks' \in Seq(BlockStates) /\ Len(blocks') \in Nat
        /\ Len(blocks') >= Len(blocks) /\ ins' \in 1 .. Len(blocks')
    <3>1. CASE tr /\ r
      BY <1>1, <3>1, BaseFacts
    <3>2. CASE ~(tr /\ r)
      <4>1. blocks' = cs /\ ins' = Len(blocks) + 1
        BY <1>1, <3>2
      <4> QED
        BY <1>5, <4>1, BaseFacts DEF Merged
    <3> QED
      BY <3>1, <3>2
  <2> QED
    BY <1>1, <2>1, StillCounts DEF Grows
<1>7. ClaimsOf(Top) = IF tr THEN {} ELSE {h}
  BY <1>1 DEF ClaimsOf, h, tr
<1>8. ASSUME Owed
      PROVE  /\ r <=> ins \notin Opens(blocks)
             /\ ClaimsOf(Top) \subseteq Opens(blocks) \ {ins}
             /\ Clean(blocks) /\ NoReturn(Below(stack))
  BY <1>1, <1>8, OwnFlag, TopClaims DEF SharesFlag, r
<1>9. CASE tr /\ r
  <2> DEFINE u == Below(stack)
             t == SetReturn(u, TRUE)
  <2>1. /\ u \in Seq(Frames) /\ SameFrames(u, t) /\ Popped(stack, u)
        /\ stack' = t /\ blocks' = blocks /\ ins' = ins
    BY <1>1, <1>9, BaseFacts, BelowFrames, SetReturnFrames, PopFrame
  <2>2. Popped(stack, t)
    BY <2>1, BaseFacts, PopSame
  <2> HIDE DEF t, u
  <2>3. Base'
    BY <1>1, <1>6, <2>1, <2>2, PopBase DEF JumpKinds
  <2>4. ASSUME Owed PROVE Owed'
    <3>1. ClaimsOf(Top) = {} /\ ~(ins \in Opens(blocks)) /\ Clean(blocks) /\ NoReturn(u)
      BY <1>7, <1>8, <1>9, <2>4 DEF u
    <3>2. StackFits(u, Len(blocks))
      BY <1>1, <2>1, BaseFacts, PopFits DEF Base
    <3>3. Flagged(stack', phase', ins' \in Opens(blocks'))
      BY <1>1, <2>1, <3>1, <3>2, BaseFacts, SetFlagged DEF t
    <3> QED
      BY <1>1, <2>1, <2>2, <2>4, <3>1, <3>3, PopOwed
  <2> QED
    BY <2>3, <2>4 DEF Holds
<1>10. CASE ~(tr /\ r)
  <2>1. blocks' = cs /\ ins' = Len(blocks) + 1 /\ stack' = Below(stack)
    BY <1>1, <1>10
  <2>2. ASSUME Owed
        PROVE  /\ Clean(blocks')
               /\ Opens(blocks') \ {ins'} = (Opens(blocks) \ {ins}) \ ClaimsOf(Top)
               /\ ins' \in Opens(blocks')
    <3>1. ~tr => h \in Opens(blocks) /\ h # ins
      BY <1>7, <1>8, <2>2
    <3>2. Opens(blocks) \ (IF r THEN {} ELSE {ins}) = Opens(blocks) \ {ins}
      BY <1>2, <1>8, <2>2
    <3> QED
      BY <1>5, <1>7, <1>8, <2>1, <2>2, <3>1, <3>2 DEF Merged
  <2> QED
    BY <1>1, <1>6, <2>1, <2>2, BelowSame, LeaveHolds DEF JumpKinds
<1> QED
  BY <1>9, <1>10

LEMMA EndFunctionHolds ==
  ASSUME Base, EndFunction
  PROVE  Holds
<1>1. /\ phase \in {"stmt", "skip"} /\ count' = count /\ Top.kind = "function"
      /\ blocks' = IF Top.ret THEN blocks ELSE Terminate(blocks, ins)
      /\ ins' = ins /\ stack' = stack /\ phase' = "verify"
      /\ UNCHANGED targets /\ UNCHANGED labelVars
  BY DEF EndFunction, AtEnd
<1>2. /\ Terminate(blocks, ins) \in Seq(BlockStates)
      /\ Len(Terminate(blocks, ins)) = Len(blocks)
      /\ Opens(Terminate(blocks, ins)) = Opens(blocks) \ {ins}
      /\ Clean(blocks) /\ ins \in Opens(blocks) => Clean(Terminate(blocks, ins))
  BY BaseFacts, TerminateBlocks
<1>3. Grows
  BY <1>1, <1>2, BaseFacts, StillCounts DEF Grows
<1>4. SameFrames(stack, stack')
  BY <1>1, BaseFacts, SameSelf
<1>5. Base'
  BY <1>1, <1>3, <1>4, KeepBase
<1>6. ASSUME Owed PROVE Owed'
  <2>1. /\ OwnersReturn(stack) /\ stack[Len(stack)].kind = "function"
        /\ phase = "stmt" => ins \in Opens(blocks) /\ NoReturn(stack)
        /\ phase = "skip" => HasReturn(stack) /\ ~(ins \in Opens(blocks))
        /\ Len(stack) \in 1 .. Len(stack)
    BY <1>1, <1>6, BaseFacts DEF Owed, Flagged
  <2>2. HasReturn(stack) <=> Top.ret
    BY <1>1, <1>6, OwnFlag DEF SharesFlag
  <2>3. NoReturn(stack) => ~HasReturn(stack)
    BY Zenon DEF NoReturn, HasReturn
  <2>4. Clean(blocks)
    BY <1>6 DEF Owed, Ledger
  <2>5. Clean(blocks') /\ Opens(blocks') = Opens(blocks) \ {ins}
    <3>1. CASE phase = "stmt"
      <4>1. ~Top.ret /\ ins \in Opens(blocks)
        BY <2>1, <2>2, <2>3, <3>1
      <4> QED
        BY <1>1, <1>2, <2>4, <4>1
    <3>2. CASE phase = "skip"
      <4>1. Top.ret /\ ins \notin Opens(blocks)
        BY <2>1, <2>2, <3>2
      <4> QED
        BY <1>1, <2>4, <4>1
    <3> QED
      BY <1>1, <3>1, <3>2
  <2>6. Claims(stack) = {}
    <3>1. Len(stack) = 1
      BY <2>1 DEF Base, StackFits
    <3>2. ClaimsOf(stack[1]) = {}
      BY <2>1, <3>1 DEF ClaimsOf
    <3> QED
      BY <3>1, <3>2 DEF Claims
  <2>7. Opens(blocks') = Waiting(labelBB, placed)
    BY <1>6, <2>5, <2>6 DEF Owed, Ledger
  <2>8. Opens(blocks') \ {ins'} = Opens(blocks) \ {ins}
    BY <1>1, <2>5
  <2>9. Flagged(stack', phase', ins' \in Opens(blocks'))
    BY <1>1, <2>1 DEF Flagged
  <2> QED
    BY <1>1, <1>4, <1>6, <2>5, <2>7, <2>8, <2>9, KeepOwed
<1> QED
  BY <1>5, <1>6 DEF Holds

-----------------------------------------------------------------------------
(* Theorems *)

IInv == Base /\ (~CodeAfterReturn => Owed)

LEMMA InitHolds == Init => IInv
<1> SUFFICES ASSUME Init PROVE IInv
  OBVIOUS
<1> DEFINE f == [Frame("function") EXCEPT !.list = TRUE]
<1>1. /\ blocks = <<"open">> /\ ins = 1 /\ phase = "stmt" /\ count = 0
      /\ brk = 0 /\ cnt = 0 /\ sw = 0
      /\ labelBB = [l \in Labels |-> 0] /\ placed = {} /\ skipped = {}
      /\ stack = <<f>>
  BY DEF Init, NULL
<1>2. Opened(f, "function", TRUE, 0, 0, FALSE)
  <2>1. brk \in Nat /\ cnt \in Nat /\ sw \in Nat /\ "function" \in FrameKinds
    BY <1>1 DEF FrameKinds
  <2> QED
    BY <2>1, FrameFields, ListField, Zenon
<1> HIDE DEF f
<1>3. /\ f \in Frames /\ f.kind = "function" /\ ~f.ret /\ f.head = 0 /\ f.exit = 0
      /\ f.brk = 0 /\ f.cnt = 0 /\ f.sw = 0
  BY <1>1, <1>2 DEF Opened
<1>4. stack \in Seq(Frames) /\ Len(stack) = 1 /\ stack[1] = f
  BY <1>1, <1>3
<1>5. blocks \in Seq(BlockStates) /\ Len(blocks) = 1 /\ blocks[1] = "open"
  BY <1>1 DEF BlockStates
<1>6. TypeOK
  BY <1>1, <1>4, <1>5, FlowAssumption DEF TypeOK
<1>7. StackFits(stack, Len(blocks))
  <2>1. FrameFits(f, 1)
    BY <1>3 DEF FrameFits
  <2> QED
    BY <1>3, <1>4, <1>5, <2>1 DEF StackFits
<1>8. RightTargets(stack, brk, cnt, sw)
  BY <1>1, <1>3, <1>4 DEF RightTargets, RightJumps, RightSwitch, JumpKinds, NULL
<1>9. LabelsDiffer(labelBB) /\ LabelsFree(stack, labelBB)
  BY <1>1 DEF LabelsDiffer, LabelsFree, NULL
<1>10. Owed
  <2>1. Opens(blocks) = {1} /\ Clean(blocks)
    BY <1>5 DEF Opens, Clean
  <2>2. Claims(stack) = {} /\ Apart(stack)
    BY <1>3, <1>4 DEF Claims, ClaimsOf, Apart
  <2>3. Waiting(labelBB, placed) = {}
    BY <1>1 DEF Waiting, NULL
  <2>4. NoReturn(stack)
    BY <1>3, <1>4 DEF NoReturn
  <2>5. Flagged(stack, phase, ins \in Opens(blocks))
    BY <1>1, <2>1, <2>4, OpenFlagged
  <2> QED
    BY <1>1, <2>1, <2>2, <2>3, <2>5 DEF Owed, Ledger
<1> QED
  BY <1>1, <1>6, <1>7, <1>8, <1>9, <1>10 DEF IInv, Base

LEMMA NextHolds == IInv /\ [Next]_vars => IInv'
<1> SUFFICES ASSUME Base, [Next]_vars PROVE Holds
  BY DEF IInv, Holds
<1>1. ASSUME UNCHANGED vars PROVE Holds
  <2>1. /\ blocks' = blocks /\ ins' = ins /\ brk' = brk /\ cnt' = cnt /\ sw' = sw
        /\ labelBB' = labelBB /\ placed' = placed /\ skipped' = skipped
        /\ stack' = stack /\ phase' = phase /\ count' = count
    BY <1>1 DEF vars, targets, labelVars
  <2>2. Base'
    BY <2>1 DEF Base, TypeOK
  <2>3. Owed => Owed'
    BY <2>1 DEF Owed
  <2> QED
    BY <2>2, <2>3 DEF Holds
<1>2. ASSUME NEW e \in Exprs, ExprStatement(e) PROVE Holds
  BY <1>2, ExprHolds
<1>3. ASSUME EmptyStatement PROVE Holds
  BY <1>3, EmptyHolds
<1>4. ASSUME NEW e \in Exprs, Return(e) PROVE Holds
  BY <1>4, ReturnHolds
<1>5. ASSUME Break \/ Continue PROVE Holds
  BY <1>5, JumpHolds DEF Break, Continue
<1>6. ASSUME ExitOnJump PROVE Holds
  BY <1>6, ExitHolds
<1>7. ASSUME NEW l \in Labels, Goto(l) PROVE Holds
  BY <1>7, GotoHolds
<1>8. ASSUME NEW l \in Labels, Label(l) PROVE Holds
  BY <1>8, LabelHolds
<1>9. ASSUME Case \/ Block PROVE Holds
  BY <1>9, CaseHolds, BlockHolds
<1>10. ASSUME NEW e \in Exprs, If(e) PROVE Holds
  BY <1>10, IfHolds
<1>11. ASSUME NEW e \in Exprs, While(e) PROVE Holds
  BY <1>11, WhileHolds
<1>12. ASSUME NEW e \in Exprs, For(e) PROVE Holds
  BY <1>12, ForHolds
<1>13. ASSUME NEW e \in Exprs, NEW braces \in BOOLEAN, Switch(e, braces) PROVE Holds
  BY <1>13, SwitchHolds
<1>14. ASSUME NextInList PROVE Holds
  BY <1>14, NextInListHolds
<1>15. ASSUME NEW l \in Labels, SkipLabel(l) PROVE Holds
  BY <1>15, SkipLabelHolds
<1>16. ASSUME EndBlock \/ EndLabel PROVE Holds
  BY <1>16, EndBlockHolds, EndLabelHolds
<1>17. ASSUME EndThen \/ Else \/ EndElse PROVE Holds
  BY <1>17, EndThenHolds, ElseHolds, EndElseHolds
<1>18. ASSUME EndWhile PROVE Holds
  BY <1>18, EndWhileHolds
<1>19. ASSUME NEW e \in Exprs, EndFor(e) PROVE Holds
  BY <1>19, EndForHolds
<1>20. ASSUME EndSwitch \/ EndFunction PROVE Holds
  BY <1>20, EndSwitchHolds, EndFunctionHolds
<1>21. ASSUME Stopped PROVE Holds
  BY <1>1, <1>21 DEF Stopped
<1> HIDE DEF Holds
<1> QED
  BY <1>1, <1>2, <1>3, <1>4, <1>5, <1>6, <1>7, <1>8, <1>9, <1>10, <1>11, <1>12,
     <1>13, <1>14, <1>15, <1>16, <1>17, <1>18, <1>19, <1>20, <1>21 DEF Next

LEMMA InvariantHolds == Spec => []IInv
<1>1. Init => IInv
  BY InitHolds
<1>2. IInv /\ [Next]_vars => IInv'
  BY NextHolds
<1> QED
  BY <1>1, <1>2, PTL DEF Spec

LEMMA TargetsFollow ==
  ASSUME Base
  PROVE  InnermostTargets
<1> DEFINE n == Len(stack)
<1>1. RightJumps(stack, n, brk, cnt) /\ RightSwitch(stack, n, sw) /\ n \in Nat
  BY BaseFacts DEF Base, RightTargets
<1>2. JumpFrames = {i \in 1 .. n : stack[i].kind \in JumpKinds}
  BY DEF JumpFrames, JumpKinds
<1>3. SwitchFrames = {i \in 1 .. n : stack[i].kind = "switch"}
  BY DEF SwitchFrames
<1> HIDE DEF n
<1>4. /\ JumpFrames = {} => brk = NULL /\ cnt = NULL
      /\ SwitchFrames = {} => sw = NULL
  BY <1>1, <1>2, <1>3 DEF RightJumps, RightSwitch
<1>5. ASSUME NEW i \in JumpFrames, IsLast(i, JumpFrames)
      PROVE  /\ brk = stack[i].exit
             /\ cnt = IF stack[i].kind = "switch" THEN NULL ELSE stack[i].head
  <2>1. i \in 1 .. n /\ stack[i].kind \in JumpKinds
    BY <1>2, <1>5
  <2>2. \A j \in i + 1 .. n : stack[j].kind \notin JumpKinds
    BY <1>1, <1>2, <1>5, <2>1 DEF IsLast
  <2> QED
    BY <1>1, <2>1, <2>2 DEF RightJumps
<1>6. ASSUME NEW i \in SwitchFrames, IsLast(i, SwitchFrames)
      PROVE  sw = stack[i].exit
  <2>1. i \in 1 .. n /\ stack[i].kind = "switch"
    BY <1>3, <1>6
  <2>2. \A j \in i + 1 .. n : stack[j].kind # "switch"
    BY <1>1, <1>3, <1>6, <2>1 DEF IsLast
  <2> QED
    BY <1>1, <2>1, <2>2 DEF RightSwitch
<1> QED
  BY <1>4, <1>5, <1>6 DEF InnermostTargets

LEMMA LabelsFollow ==
  ASSUME Base
  PROVE  LabelsApart
  BY DEF Base, LabelsDiffer, LabelsFree, LabelsApart, JumpFrames, JumpKinds

LEMMA FlagsFollow ==
  ASSUME Base, Owed
  PROVE  FlagMeansClosed
<1>1. blocks[ins] \in {"open", "closed"} /\ ins \in 1 .. Len(blocks)
  BY BaseFacts DEF Owed, Ledger, Clean
<1>2. ins \notin Opens(blocks) <=> blocks[ins] = "closed"
  BY <1>1 DEF Opens
<1>3. phase = "done" /\ Top.kind # "switch" =>
        (HasReturn(stack) <=> ~(ins \in Opens(blocks)))
  BY BaseFacts DEF Owed, Flagged
<1> QED
  BY <1>2, <1>3 DEF FlagMeansClosed

LEMMA FormFollows ==
  ASSUME Base, Owed
  PROVE  WellFormed
<1> SUFFICES ASSUME phase = "verify", UndefinedLabels = {},
                    NEW b \in 1 .. Len(blocks),
                    b \notin {labelBB[l] : l \in skipped}
             PROVE  blocks[b] = "closed"
  BY DEF WellFormed
<1>1. blocks[b] \in {"open", "closed"}
  BY DEF Owed, Ledger, Clean
<1>2. Opens(blocks) = Waiting(labelBB, placed)
  BY DEF Owed
<1>3. ASSUME b \in Waiting(labelBB, placed) PROVE FALSE
  <2>1. PICK l \in Labels \ placed : b = labelBB[l] /\ labelBB[l] # NULL
    BY <1>3 DEF Waiting
  <2>2. l \in skipped
    BY <2>1 DEF UndefinedLabels
  <2> QED
    BY <2>1, <2>2
<1> QED
  BY <1>1, <1>2, <1>3 DEF Opens

(* The insertion point is always a block of the function, and so is every
   target and every block that an activation or a label refers to. *)
THEOREM TypesHold == Spec => []TypeOK
<1>1. IInv => TypeOK
  BY DEF IInv, Base
<1> QED
  BY <1>1, InvariantHolds, PTL

(* However loops, switches and branches are nested and left, break refers to
   the innermost loop or switch, case to the innermost switch, and continue to
   the innermost loop, or, behind a switch, to nothing: the code refuses it. *)
THEOREM TargetsAreInnermost == Spec => []InnermostTargets
<1>1. IInv => InnermostTargets
  BY TargetsFollow DEF IInv
<1> QED
  BY <1>1, InvariantHolds, PTL

(* In whatever order gotos and labels come, each label has one block, and no
   loop or switch shares it. *)
THEOREM LabelsStayApart == Spec => []LabelsApart
<1>1. IInv => LabelsApart
  BY LabelsFollow DEF IInv
<1> QED
  BY <1>1, InvariantHolds, PTL

(* The has_return flags can be trusted for every function in which no switch
   body goes on after a return. *)
THEOREM FlagsAreRight ==
  ASSUME ~CodeAfterReturn
  PROVE  Spec => []FlagMeansClosed
<1>1. IInv => FlagMeansClosed
  BY FlagsFollow DEF IInv
<1> QED
  BY <1>1, InvariantHolds, PTL

(* Every block of such a function ends with its only terminator. *)
THEOREM BlocksAreWellFormed ==
  ASSUME ~CodeAfterReturn
  PROVE  Spec => []WellFormed
<1>1. IInv => WellFormed
  BY FormFollows DEF IInv
<1> QED
  BY <1>1, InvariantHolds, PTL

-----------------------------------------------------------------------------
(* Expression.  First the powers of two and what they leave as rests. *)

LEMMA Least ==
  ASSUME NEW T, T \subseteq Nat, T # {}
  PROVE  \E x \in T : \A y \in T : x <= y
<1> DEFINE R == OpToRel(<, Nat)
<1>1. IsWellFoundedOn(R, Nat)  BY NatLessThanWellFounded
<1>2. \A x \in Nat, y \in Nat : x < y => <<x, y>> \in R  BY DEF OpToRel
<1> HIDE DEF R
<1>3. PICK x \in T : \A y \in T : ~ (<<y, x>> \in R)  BY <1>1, WFMin
<1>4. \A y \in T : ~ (y < x)  BY <1>2, <1>3
<1>5. \A y \in T : x <= y  BY <1>4
<1>6. QED  BY <1>5

-----------------------------------------------------------------------------
(* Powers of two *)

Most == Bits["i64"]
Width == 1 .. Most

PowerTurn(f, n) == IF n = 0 THEN 1 ELSE 2 * f[n - 1]

LEMMA WidthsAreNat ==
  /\ Most \in Nat /\ 1 < Most
  /\ \A lt \in LLVMInts : Bits[lt] \in Width /\ Bits[lt] - 1 \in Width
BY WidthsAssumption DEF Most, Width, LLVMInts

LEMMA PowersUpTo ==
  ASSUME NEW m \in Nat
  PROVE  \E f \in [0 .. m -> Nat \ {0}] : \A n \in 0 .. m : f[n] = PowerTurn(f, n)
<1> DEFINE Good(k, f) == f \in [0 .. k -> Nat \ {0}] /\ \A n \in 0 .. k : f[n] = PowerTurn(f, n)
           T == {k \in Nat : ~ \E f : Good(k, f)}
<1>1. SUFFICES ASSUME T # {}  PROVE FALSE
  OBVIOUS
<1>2. PICK k \in T : \A j \in T : k <= j
  <2>1. T \subseteq Nat  OBVIOUS
  <2>2. QED  BY <1>1, <2>1, Least
<1>3. k # 0
  <2>1. Good(0, [n \in 0 .. 0 |-> 1])  BY DEF PowerTurn
  <2>2. QED  BY <2>1
<1>4. PICK f : Good(k - 1, f)
  <2>1. k - 1 \in Nat /\ ~(k <= k - 1)  BY <1>3
  <2>2. QED  BY <1>2, <2>1
<1>5. Good(k, [n \in 0 .. k |-> IF n = k THEN 2 * f[k - 1] ELSE f[n]])
  <2> DEFINE g == [n \in 0 .. k |-> IF n = k THEN 2 * f[k - 1] ELSE f[n]]
  <2>1. f[k - 1] \in Nat \ {0}  BY <1>3, <1>4
  <2>2. \A n \in 0 .. k : n # k => n \in 0 .. k - 1 /\ f[n] \in Nat \ {0}  BY <1>3, <1>4
  <2>3. g \in [0 .. k -> Nat \ {0}]  BY <2>1, <2>2
  <2>4. ASSUME NEW n \in 0 .. k  PROVE g[n] = PowerTurn(g, n)
    <3>1. CASE n = k  BY <1>3, <3>1 DEF PowerTurn
    <3>2. CASE n # k
      <4>1. g[n] = f[n] /\ f[n] = PowerTurn(f, n)  BY <1>4, <2>2, <3>2
      <4>2. n # 0 => g[n - 1] = f[n - 1]  BY <3>2
      <4>3. QED  BY <4>1, <4>2 DEF PowerTurn
    <3>3. QED  BY <3>1, <3>2
  <2>5. QED  BY <2>3, <2>4
<1>6. QED  BY <1>5

LEMMA Powers ==
  /\ Power \in [0 .. Most -> Nat \ {0}]
  /\ Power[0] = 1
  /\ \A n \in Width : Power[n] = 2 * Power[n - 1]
<1> DEFINE Solves(f) == f = [n \in 0 .. Most |-> PowerTurn(f, n)]
<1>1. PICK f \in [0 .. Most -> Nat \ {0}] : \A n \in 0 .. Most : f[n] = PowerTurn(f, n)
  BY WidthsAreNat, PowersUpTo
<1>2. Solves(f)  BY <1>1
<1> DEFINE double == CHOOSE g : Solves(g)
<1>3. Power = [n \in 0 .. Most |-> double[n]]  BY DEF Power, PowerTurn, Most
<1>4. Solves(Power)
  <2>1. Solves(double)
    <3> HIDE DEF Solves
    <3>1. QED  BY <1>2
  <2> HIDE DEF double
  <2>2. Power = double  BY <1>3, <2>1
  <2>3. QED  BY <2>1, <2>2
<1>5. \A n \in 0 .. Most : Power[n] = PowerTurn(Power, n)  BY <1>4
<1>6. \A n \in 0 .. Most : Power[n] \in Nat \ {0}
  <2> DEFINE T == {n \in 0 .. Most : Power[n] \notin Nat \ {0}}
  <2>1. SUFFICES ASSUME T # {}  PROVE FALSE  OBVIOUS
  <2>2. PICK n \in T : \A k \in T : n <= k
    <3>1. T \subseteq Nat  BY WidthsAreNat
    <3>2. QED  BY <2>1, <3>1, Least
  <2>3. n # 0  BY <1>5, WidthsAreNat DEF PowerTurn
  <2>4. n - 1 \in 0 .. Most /\ ~(n <= n - 1)  BY <2>3, WidthsAreNat
  <2>5. Power[n - 1] \in Nat \ {0}  BY <2>2, <2>4
  <2>6. Power[n] = 2 * Power[n - 1]  BY <1>5, <2>3 DEF PowerTurn
  <2>7. QED  BY <2>5, <2>6
<1>7. DOMAIN Power = 0 .. Most  BY <1>4
<1>8. Power \in [0 .. Most -> Nat \ {0}]  BY <1>4, <1>6
<1>9. Power[0] = 1
  <2>1. 0 \in 0 .. Most  BY WidthsAreNat
  <2>2. QED  BY <1>5, <2>1 DEF PowerTurn
<1>10. ASSUME NEW n \in Width  PROVE Power[n] = 2 * Power[n - 1]
  <2>1. n \in 0 .. Most /\ n # 0  BY WidthsAreNat DEF Width
  <2>2. QED  BY <1>5, <2>1 DEF PowerTurn
<1>11. QED  BY <1>8, <1>9, <1>10

\* A power is a multiple of those below it.
LEMMA PowersDivide ==
  ASSUME NEW m \in 0 .. Most, NEW n \in m .. Most
  PROVE  \E k \in Nat \ {0} : Power[n] = k * Power[m]
<1> DEFINE T == {j \in m .. Most : ~ \E k \in Nat \ {0} : Power[j] = k * Power[m]}
<1>1. SUFFICES ASSUME T # {}  PROVE FALSE  OBVIOUS
<1>2. PICK j \in T : \A i \in T : j <= i
  <2>1. T \subseteq Nat  BY WidthsAreNat
  <2>2. QED  BY <1>1, <2>1, Least
<1>3. Power[m] \in Nat \ {0}  BY Powers
<1>4. j # m  BY <1>3
<1>5. j - 1 \in m .. Most /\ ~(j <= j - 1) /\ j \in Width  BY <1>4, WidthsAreNat DEF Width
<1>6. PICK k \in Nat \ {0} : Power[j - 1] = k * Power[m]  BY <1>2, <1>5
<1>7. Power[j] = 2 * (k * Power[m])  BY <1>5, <1>6, Powers
<1>8. 2 * (k * Power[m]) = (2 * k) * Power[m] /\ 2 * k \in Nat \ {0}  BY <1>3
<1>9. QED  BY <1>7, <1>8

\* Every number of bits is less than the power.
LEMMA PowersAreLarge ==
  ASSUME NEW n \in 0 .. Most
  PROVE  n < Power[n]
<1> DEFINE T == {j \in 0 .. Most : ~ (j < Power[j])}
<1>1. SUFFICES ASSUME T # {}  PROVE FALSE  OBVIOUS
<1>2. PICK j \in T : \A i \in T : j <= i
  <2>1. T \subseteq Nat  BY WidthsAreNat
  <2>2. QED  BY <1>1, <2>1, Least
<1>3. j # 0  BY Powers
<1>4. j - 1 \in 0 .. Most /\ ~(j <= j - 1) /\ j \in Width  BY <1>3, WidthsAreNat DEF Width
<1>5. j - 1 < Power[j - 1]  BY <1>2, <1>4
<1>6. Power[j] = 2 * Power[j - 1] /\ Power[j - 1] \in Nat  BY <1>4, Powers
<1>7. QED  BY <1>4, <1>5, <1>6

-----------------------------------------------------------------------------
(* Numbers that are the same up to multiples of a power *)

LEMMA Divided ==
  ASSUME NEW n \in Int, NEW m \in Nat \ {0}
  PROVE  /\ n % m \in 0 .. m - 1 /\ n \div m \in Int
         /\ n = (n \div m) * m + (n % m)
OBVIOUS

LEMMA RestIs ==
  ASSUME NEW n \in Int, NEW m \in Nat \ {0}, NEW q \in Int, NEW r \in 0 .. m - 1,
         n = q * m + r
  PROVE  n % m = r
<1>1. PICK p \in Int, s \in 0 .. m - 1 : n % m = s /\ n = p * m + s  BY Divided
<1>2. (q - p) * m = s - r  BY <1>1
<1>3. q - p \in Int /\ -m < s - r /\ s - r < m  BY <1>1
<1>4. ASSUME NEW d \in Int, d >= 1  PROVE d * m >= m  BY <1>4
<1>5. ASSUME NEW d \in Int, d <= -1  PROVE d * m <= -m  BY <1>5
<1>6. q - p = 0  BY <1>2, <1>3, <1>4, <1>5
<1>7. 0 * m = 0  OBVIOUS
<1>8. QED  BY <1>1, <1>2, <1>6, <1>7

Same(a, b, m) == \E k \in Int : a = b + k * m

LEMMA SameRest ==
  ASSUME NEW a \in Int, NEW b \in Int, NEW m \in Nat \ {0}
  PROVE  a % m = b % m <=> Same(a, b, m)
<1>1. PICK p \in Int, r \in 0 .. m - 1 : a % m = r /\ a = p * m + r  BY Divided
<1>2. PICK q \in Int, s \in 0 .. m - 1 : b % m = s /\ b = q * m + s  BY Divided
<1>3. ASSUME a % m = b % m  PROVE Same(a, b, m)
  <2>1. a = b + (p - q) * m /\ p - q \in Int  BY <1>1, <1>2, <1>3
  <2>2. QED  BY <2>1 DEF Same
<1>4. ASSUME NEW k \in Int, a = b + k * m  PROVE a % m = b % m
  <2>1. a = (q + k) * m + s /\ q + k \in Int  BY <1>2, <1>4
  <2>2. a % m = s  BY <2>1, RestIs
  <2>3. QED  BY <1>2, <2>2
<1>5. QED  BY <1>3, <1>4 DEF Same

LEMMA SameResults ==
  ASSUME NEW a \in Int, NEW b \in Int, NEW c \in Int, NEW d \in Int,
         NEW m \in Nat \ {0}, a % m = c % m, b % m = d % m
  PROVE  /\ (a + b) % m = (c + d) % m
         /\ (a - b) % m = (c - d) % m
         /\ (a * b) % m = (c * d) % m
<1>1. PICK k \in Int : a = c + k * m  BY SameRest DEF Same
<1>2. PICK j \in Int : b = d + j * m  BY SameRest DEF Same
<1>3. a + b = (c + d) + (k + j) * m /\ k + j \in Int  BY <1>1, <1>2
<1>4. a - b = (c - d) + (k - j) * m /\ k - j \in Int  BY <1>1, <1>2
<1>5. a * b = c * d + (c * j + k * d + k * j * m) * m
  <2>1. a * b = (c + k * m) * (d + j * m)  BY <1>1, <1>2
  <2>2. (c + k * m) * (d + j * m) = c * d + (c * j + k * d + k * j * m) * m  OBVIOUS
  <2>3. QED  BY <2>1, <2>2
<1>6. c * j + k * d + k * j * m \in Int /\ a * b \in Int /\ c * d \in Int  OBVIOUS
<1>7. Same(a + b, c + d, m) /\ Same(a - b, c - d, m) /\ Same(a * b, c * d, m)
  BY <1>3, <1>4, <1>5, <1>6 DEF Same
<1>8. a + b \in Int /\ c + d \in Int /\ a - b \in Int /\ c - d \in Int  OBVIOUS
<1>9. QED  BY <1>6, <1>7, <1>8, SameRest

LEMMA RestOfRest ==
  ASSUME NEW n \in Int, NEW m \in Nat \ {0}, NEW k \in Nat \ {0}
  PROVE  (n % (k * m)) % m = n % m
<1>1. k * m \in Nat \ {0}  OBVIOUS
<1>2. PICK q \in Int, r \in 0 .. k * m - 1 : n % (k * m) = r /\ n = q * (k * m) + r
  BY <1>1, Divided
<1>3. n = r + (q * k) * m /\ q * k \in Int /\ r \in Int  BY <1>2
<1>4. Same(n, r, m)  BY <1>3 DEF Same
<1>5. QED  BY <1>2, <1>3, <1>4, SameRest

LEMMA SmallRest ==
  ASSUME NEW m \in Nat \ {0}, NEW n \in 0 .. m - 1
  PROVE  n % m = n
<1>1. n = 0 * m + n  OBVIOUS
<1>2. QED  BY <1>1, RestIs

-----------------------------------------------------------------------------
(* The numbers that a width holds *)

LEMMA HalfPower ==
  ASSUME NEW b \in Width
  PROVE  /\ b \in 0 .. Most /\ b - 1 \in 0 .. Most
         /\ Power[b] \in Nat \ {0} /\ Power[b - 1] \in Nat \ {0}
         /\ Power[b] = 2 * Power[b - 1]
<1>1. b \in 0 .. Most /\ b - 1 \in 0 .. Most  BY WidthsAreNat DEF Width
<1>2. QED  BY <1>1, Powers

InRange(n, unsigned, b) ==
  IF unsigned THEN 0 <= n /\ n < Power[b] ELSE -Power[b - 1] <= n /\ n < Power[b - 1]

LEMMA Wraps ==
  ASSUME NEW n \in Int, NEW u \in BOOLEAN, NEW b \in Width
  PROVE  /\ Wrap(n, u, b) \in Int
         /\ InRange(Wrap(n, u, b), u, b)
         /\ Wrap(n, u, b) % Power[b] = n % Power[b]
<1> DEFINE m == Power[b]
           h == Power[b - 1]
<1>1. m \in Nat \ {0} /\ h \in Nat \ {0} /\ m = 2 * h  BY HalfPower
<1>2. PICK q \in Int, r \in 0 .. m - 1 : n % m = r /\ n = q * m + r  BY <1>1, Divided
<1>3. Wrap(n, u, b) = IF u \/ r < h THEN r ELSE r - m  BY <1>2 DEF Wrap
<1> HIDE DEF m, h
<1>4. Wrap(n, u, b) \in Int  BY <1>1, <1>3
<1>5. InRange(Wrap(n, u, b), u, b)  BY <1>1, <1>3 DEF InRange, m, h
<1>6. Wrap(n, u, b) % m = n % m
  <2>1. r = 0 * m + r /\ r - m = (-1) * m + r  BY <1>1
  <2>2. r % m = r /\ (r - m) % m = r  BY <1>1, <2>1, RestIs
  <2>3. QED  BY <1>2, <1>3, <2>2
<1>7. QED  BY <1>4, <1>5, <1>6 DEF m

\* Of the numbers with one rest a width holds one.
LEMMA OneInRange ==
  ASSUME NEW a \in Int, NEW c \in Int, NEW u \in BOOLEAN, NEW b \in Width,
         InRange(a, u, b), InRange(c, u, b), a % Power[b] = c % Power[b]
  PROVE  a = c
<1> DEFINE m == Power[b]
           h == Power[b - 1]
<1>1. m \in Nat \ {0} /\ h \in Nat \ {0} /\ m = 2 * h  BY HalfPower
<1>2. PICK k \in Int : a = c + k * m  BY <1>1, SameRest DEF Same
<1>3. -m < a - c /\ a - c < m  BY <1>1 DEF InRange
<1> HIDE DEF m, h
<1>4. ASSUME NEW d \in Int, d >= 1  PROVE d * m >= m  BY <1>1, <1>4
<1>5. ASSUME NEW d \in Int, d <= -1  PROVE d * m <= -m  BY <1>1, <1>5
<1>6. a - c = k * m  BY <1>1, <1>2
<1>7. k = 0  BY <1>1, <1>3, <1>4, <1>5, <1>6
<1>8. 0 * m = 0  BY <1>1
<1>9. QED  BY <1>6, <1>7, <1>8

LEMMA WrapIs ==
  ASSUME NEW n \in Int, NEW c \in Int, NEW u \in BOOLEAN, NEW b \in Width,
         InRange(c, u, b), n % Power[b] = c % Power[b]
  PROVE  Wrap(n, u, b) = c
BY Wraps, OneInRange

\* Only the rest matters.
LEMMA WrapOfSame ==
  ASSUME NEW n \in Int, NEW c \in Int, NEW u \in BOOLEAN, NEW b \in Width,
         n % Power[b] = c % Power[b]
  PROVE  Wrap(n, u, b) = Wrap(c, u, b)
BY DEF Wrap

LEMMA NarrowerRest ==
  ASSUME NEW n \in Int, NEW c \in Int, NEW b \in Width, NEW w \in b .. Most,
         n % Power[w] = c % Power[w]
  PROVE  n % Power[b] = c % Power[b]
<1>1. b \in 0 .. Most /\ w \in 0 .. Most  BY WidthsAreNat DEF Width
<1>2. PICK k \in Nat \ {0} : Power[w] = k * Power[b]  BY <1>1, PowersDivide
<1>3. Power[b] \in Nat \ {0}  BY <1>1, Powers
<1>4. (n % Power[w]) % Power[b] = n % Power[b]  BY <1>2, <1>3, RestOfRest
<1>5. (c % Power[w]) % Power[b] = c % Power[b]  BY <1>2, <1>3, RestOfRest
<1>6. QED  BY <1>4, <1>5

LEMMA WiderRange ==
  ASSUME NEW n \in Int, NEW u \in BOOLEAN, NEW b \in Width, NEW w \in b .. Most,
         InRange(n, u, b)
  PROVE  /\ InRange(n, u, w)
         /\ b < w => InRange(n, FALSE, w)
<1>1. b \in 0 .. Most /\ w \in 0 .. Most /\ w \in Width  BY WidthsAreNat DEF Width
<1>2. \A m \in 0 .. Most : \A k \in m .. Most : Power[m] <= Power[k]
  <2>1. TAKE m \in 0 .. Most
  <2>2. TAKE k \in m .. Most
  <2>3. k \in 0 .. Most /\ Power[m] \in Nat /\ Power[k] \in Nat  BY WidthsAreNat, Powers
  <2>4. PICK j \in Nat \ {0} : Power[k] = j * Power[m]  BY PowersDivide
  <2>5. j * Power[m] >= Power[m]  BY <2>3
  <2>6. QED  BY <2>3, <2>4, <2>5
<1>3. b - 1 \in 0 .. Most /\ w - 1 \in b - 1 .. Most /\ (b < w => w - 1 \in b .. Most)
  BY <1>1, WidthsAreNat DEF Width
<1>4. /\ Power[b] <= Power[w] /\ Power[b - 1] <= Power[w - 1]
      /\ b < w => Power[b] <= Power[w - 1]
  BY <1>1, <1>2, <1>3
<1>5. /\ Power[b] \in Nat /\ Power[w] \in Nat /\ Power[b - 1] \in Nat /\ Power[w - 1] \in Nat
      /\ Power[b] = 2 * Power[b - 1]
  BY <1>1, HalfPower
<1>6. QED  BY <1>4, <1>5 DEF InRange

-----------------------------------------------------------------------------
(* What the operators return *)

BitTurn(a, b, f, n) ==
  IF n = 0 THEN 0 ELSE f[n - 1] + Bit(a, n - 1) * Bit(b, n - 1) * Power[n - 1]

LEMMA BitIsNat ==
  ASSUME NEW a \in Nat, NEW b \in Nat, NEW n \in 0 .. Most
  PROVE  Bit(a, n) * Bit(b, n) * Power[n] \in Nat
<1>1. Power[n] \in Nat \ {0}  BY Powers
<1>2. \A c \in Int, m \in Nat \ {0} : c \div m \in Int  OBVIOUS
<1>3. a \div Power[n] \in Int /\ b \div Power[n] \in Int  BY <1>1, <1>2
<1>4. \A c \in Int : c % 2 \in Nat  OBVIOUS
<1>5. Bit(a, n) \in Nat /\ Bit(b, n) \in Nat  BY <1>3, <1>4 DEF Bit
<1>6. \A c \in Nat, d \in Nat, e \in Nat : c * d * e \in Nat  OBVIOUS
<1>7. QED  BY <1>1, <1>5, <1>6

LEMMA BitsUpTo ==
  ASSUME NEW m \in 0 .. Most, NEW a \in Nat, NEW b \in Nat
  PROVE  \E f \in [0 .. m -> Nat] : \A n \in 0 .. m : f[n] = BitTurn(a, b, f, n)
<1> DEFINE Good(k, f) == f \in [0 .. k -> Nat] /\ \A n \in 0 .. k : f[n] = BitTurn(a, b, f, n)
           T == {k \in 0 .. Most : ~ \E f : Good(k, f)}
<1>1. SUFFICES ASSUME T # {}  PROVE FALSE
  OBVIOUS
<1>2. PICK k \in T : \A j \in T : k <= j
  <2>1. T \subseteq Nat  BY WidthsAreNat
  <2>2. QED  BY <1>1, <2>1, Least
<1>3. k # 0
  <2>1. Good(0, [n \in 0 .. 0 |-> 0])  BY DEF BitTurn
  <2>2. QED  BY <2>1
<1>4. k - 1 \in 0 .. Most /\ ~(k <= k - 1) /\ k \in Nat  BY <1>3, WidthsAreNat
<1>5. PICK f : Good(k - 1, f)  BY <1>2, <1>4
<1>6. BitTurn(a, b, f, k) \in Nat
  <2>1. f[k - 1] \in Nat  BY <1>4, <1>5
  <2>2. Bit(a, k - 1) * Bit(b, k - 1) * Power[k - 1] \in Nat  BY <1>4, BitIsNat
  <2>3. QED  BY <1>3, <2>1, <2>2 DEF BitTurn
<1>7. Good(k, [n \in 0 .. k |-> IF n = k THEN BitTurn(a, b, f, k) ELSE f[n]])
  <2> DEFINE g == [n \in 0 .. k |-> IF n = k THEN BitTurn(a, b, f, k) ELSE f[n]]
  <2>1. \A n \in 0 .. k : n # k => n \in 0 .. k - 1 /\ f[n] \in Nat  BY <1>4, <1>5
  <2>2. g \in [0 .. k -> Nat]  BY <1>6, <2>1
  <2>3. ASSUME NEW n \in 0 .. k  PROVE g[n] = BitTurn(a, b, g, n)
    <3>1. g[n] = BitTurn(a, b, f, n)  BY <1>5, <2>1
    <3>2. n # 0 => g[n - 1] = f[n - 1]  BY <1>4
    <3>3. QED  BY <3>1, <3>2 DEF BitTurn
  <2>4. QED  BY <2>2, <2>3
<1>8. QED  BY <1>7

LEMMA BitAndIsNat ==
  ASSUME NEW a \in Nat, NEW b \in Nat, NEW bits \in 0 .. Most
  PROVE  BitAnd(a, b, bits) \in Nat
<1> DEFINE Solves(f) == f = [n \in 0 .. bits |-> BitTurn(a, b, f, n)]
           upTo == CHOOSE f : Solves(f)
<1>1. PICK f \in [0 .. bits -> Nat] : \A n \in 0 .. bits : f[n] = BitTurn(a, b, f, n)
  BY BitsUpTo
<1>2. Solves(f)  BY <1>1
<1>3. Solves(upTo)
  <2> HIDE DEF Solves
  <2>1. QED  BY <1>2
<1>4. BitAnd(a, b, bits) = upTo[bits]  BY DEF BitAnd, BitTurn
<1> HIDE DEF upTo
<1>5. \A n \in 0 .. bits : upTo[n] = BitTurn(a, b, upTo, n)  BY <1>3
<1> DEFINE T == {n \in 0 .. bits : upTo[n] \notin Nat}
<1>6. bits \in Nat /\ bits <= Most /\ Most \in Nat  BY WidthsAreNat
<1>7. T = {}
  <2>1. SUFFICES ASSUME T # {}  PROVE FALSE  OBVIOUS
  <2>2. PICK n \in T : \A j \in T : n <= j
    <3>1. T \subseteq Nat  BY <1>6
    <3>2. QED  BY <2>1, <3>1, Least
  <2>3. n # 0  BY <1>5 DEF BitTurn
  <2>4. n - 1 \in 0 .. bits /\ ~(n <= n - 1) /\ n - 1 \in 0 .. Most  BY <1>6, <2>3
  <2>5. upTo[n - 1] \in Nat  BY <2>2, <2>4
  <2>6. Bit(a, n - 1) * Bit(b, n - 1) * Power[n - 1] \in Nat  BY <2>4, BitIsNat
  <2>7. QED  BY <1>5, <2>3, <2>5, <2>6 DEF BitTurn
<1>8. QED  BY <1>4, <1>6, <1>7

LEMMA TruncatedIsInt ==
  ASSUME NEW a \in Int, NEW b \in Int, b # 0
  PROVE  Truncated(a, b) \in Int
<1> DEFINE c == IF a < 0 THEN -a ELSE a
           d == IF b < 0 THEN -b ELSE b
<1>1. c \in Int /\ d \in Nat \ {0}  OBVIOUS
<1> HIDE DEF c, d
<1>2. c \div d \in Int  BY <1>1
<1>3. QED  BY <1>2 DEF Truncated, c, d

LEMMA ComparedIsInt ==
  ASSUME NEW op, NEW a, NEW b
  PROVE  Compared(op, a, b) \in {0, 1}
BY DEF Compared

LEMMA ComputedIsInt ==
  ASSUME NEW op \in Arithmetic \cup Shifts, NEW a \in Int, NEW b \in Int, NEW bits \in 0 .. Most,
         op \in {"/", "%"} => b # 0, op \in Shifts => b \in 0 .. Most
  PROVE  Computed(op, a, b, bits) \in Int
<1>1. CASE op = "+"  BY <1>1 DEF Computed
<1>2. CASE op = "-"  BY <1>2 DEF Computed
<1>3. CASE op = "*"  BY <1>3 DEF Computed
<1>4. CASE op = "/"  BY <1>4, TruncatedIsInt DEF Computed
<1>5. CASE op = "%"
  <2>1. Truncated(a, b) \in Int  BY <1>5, TruncatedIsInt
  <2>2. a - b * Truncated(a, b) \in Int  BY <2>1
  <2>3. QED  BY <1>5, <2>2 DEF Computed
<1>6. CASE op = "&"
  <2>1. Power[bits] \in Nat \ {0}  BY Powers
  <2>2. a % Power[bits] \in Nat /\ b % Power[bits] \in Nat
    <3>1. \A m \in Nat \ {0}, c \in Int : c % m \in Nat  BY Divided
    <3>2. QED  BY <2>1, <3>1
  <2>3. BitAnd(a % Power[bits], b % Power[bits], bits) \in Nat  BY <2>2, BitAndIsNat
  <2>4. QED  BY <1>6, <2>3 DEF Computed
<1>7. CASE op = "<<"
  <2>1. Power[b] \in Nat  BY <1>7, Powers DEF Shifts
  <2>2. QED  BY <1>7, <2>1 DEF Computed
<1>8. CASE op = ">>"
  <2>1. Power[b] \in Nat \ {0}  BY <1>8, Powers DEF Shifts
  <2>2. a \div Power[b] \in Int  BY <2>1
  <2>3. QED  BY <1>8, <2>2 DEF Computed
<1>9. QED
  BY <1>1, <1>2, <1>3, <1>4, <1>5, <1>6, <1>7, <1>8 DEF Arithmetic, Shifts

\* Sums, differences, products, left shifts and `&' know their operands up to
\* multiples of the power.
LEMMA ComputedOfSame ==
  ASSUME NEW op \in {"+", "-", "*", "&"}, NEW a \in Int, NEW b \in Int, NEW c \in Int,
         NEW d \in Int, NEW bits \in Width,
         a % Power[bits] = c % Power[bits], b % Power[bits] = d % Power[bits]
  PROVE  Computed(op, a, b, bits) % Power[bits] = Computed(op, c, d, bits) % Power[bits]
<1>1. Power[bits] \in Nat \ {0}  BY HalfPower
<1>2. CASE op = "+"  BY <1>1, <1>2, SameResults DEF Computed
<1>3. CASE op = "-"  BY <1>1, <1>3, SameResults DEF Computed
<1>4. CASE op = "*"  BY <1>1, <1>4, SameResults DEF Computed
<1>5. CASE op = "&"  BY <1>5 DEF Computed
<1>6. QED  BY <1>2, <1>3, <1>4, <1>5

LEMMA ShiftedOfSame ==
  ASSUME NEW a \in Int, NEW c \in Int, NEW b \in 0 .. Most, NEW bits \in Width,
         a % Power[bits] = c % Power[bits]
  PROVE  Computed("<<", a, b, bits) % Power[bits] = Computed("<<", c, b, bits) % Power[bits]
<1>1. Power[bits] \in Nat \ {0}  BY HalfPower
<1>2. Power[b] \in Int  BY Powers
<1>3. ASSUME NEW m \in Nat \ {0}, NEW p \in Int, a % m = c % m
      PROVE  (a * p) % m = (c * p) % m
  <2>1. PICK k \in Int : a = c + k * m  BY <1>3, SameRest DEF Same
  <2>2. (c + k * m) * p = c * p + (k * p) * m  OBVIOUS
  <2>3. a * p = c * p + (k * p) * m /\ k * p \in Int /\ a * p \in Int /\ c * p \in Int
    BY <2>1, <2>2
  <2>4. Same(a * p, c * p, m)  BY <2>3 DEF Same
  <2>5. QED  BY <2>3, <2>4, SameRest
<1>4. (a * Power[b]) % Power[bits] = (c * Power[b]) % Power[bits]  BY <1>1, <1>2, <1>3
<1>5. QED  BY <1>4 DEF Computed

-----------------------------------------------------------------------------
(* Types *)

CBases == {"BOOL", "CHAR", "SHORT", "INT", "LONG", "FLOAT", "DOUBLE", "PTR"}
UnsignedBases == {"CHAR", "SHORT", "INT", "LONG"}
LLVMTypes == LLVMInts \cup LLVMReals \cup {"ptr"}

LEMMA CTypeIs ==
  ASSUME NEW ty \in CTypes
  PROVE  /\ ty.base \in CBases /\ ty.unsigned \in BOOLEAN
         /\ ty.unsigned => ty.base \in UnsignedBases
         /\ ty = [base |-> ty.base, unsigned |-> ty.unsigned]
BY DEF CTypes, CBases, UnsignedBases, Narrow, Wide, Reals

LEMMA IsCType ==
  ASSUME NEW b \in CBases, NEW u \in BOOLEAN, u => b \in UnsignedBases
  PROVE  [base |-> b, unsigned |-> u] \in CTypes
BY DEF CTypes, CBases, UnsignedBases, Narrow, Wide, Reals

LEMMA SignedIs ==
  ASSUME NEW b \in CBases
  PROVE  Signed(b) \in CTypes /\ Signed(b).base = b /\ Signed(b).unsigned = FALSE
BY IsCType DEF Signed

LEMMA IntTypeIs ==
  /\ IntType \in CTypes /\ IntType.base = "INT" /\ IntType.unsigned = FALSE
  /\ Pointer \in CTypes /\ Pointer.base = "PTR" /\ Pointer.unsigned = FALSE
BY SignedIs DEF IntType, Pointer, CBases

LEMMA LLVMTypeIs ==
  ASSUME NEW ty \in CTypes
  PROVE  /\ ToLLVM(ty) \in LLVMTypes
         /\ IsInt(ty) <=> ToLLVM(ty) \in LLVMInts
         /\ IsReal(ty) <=> ToLLVM(ty) \in LLVMReals
         /\ ty.base = "PTR" <=> ToLLVM(ty) = "ptr"
         /\ IsInt(ty) => Bits[ToLLVM(ty)] \in Width
<1>1. ty.base \in CBases  BY CTypeIs
<1>2. ToLLVM(ty) \in LLVMInts => Bits[ToLLVM(ty)] \in Width  BY WidthsAreNat
<1>3. QED
  BY <1>1, <1>2 DEF ToLLVM, CBases, LLVMTypes, LLVMInts, LLVMReals, IsInt, IsReal, Narrow, Wide, Reals

LEMMA InCIs ==
  ASSUME NEW n \in Int, NEW ty \in CTypes
  PROVE  /\ InC(n, ty) \in Int
         /\ InC(InC(n, ty), ty) = InC(n, ty)
         /\ IsInt(ty) => InRange(InC(n, ty), ty.unsigned, Bits[ToLLVM(ty)])
         /\ ty.base = "BOOL" => InC(n, ty) = IF n = 0 THEN 0 ELSE 1
         /\ ~IsInt(ty) => InC(n, ty) = n
         /\ IsInt(ty) /\ ty.base # "BOOL" =>
              /\ InC(n, ty) = Wrap(n, ty.unsigned, Bits[ToLLVM(ty)])
              /\ InC(n, ty) % Power[Bits[ToLLVM(ty)]] = n % Power[Bits[ToLLVM(ty)]]
<1>1. ty.base \in CBases /\ ty.unsigned \in BOOLEAN /\ (ty.unsigned => ty.base \in UnsignedBases)
  BY CTypeIs
<1>2. CASE ty.base = "BOOL"
  <2>1. IsInt(ty) /\ ToLLVM(ty) = "i8" /\ ty.unsigned = FALSE
    BY <1>1, <1>2 DEF IsInt, Narrow, ToLLVM, UnsignedBases
  <2>2. Bits["i8"] - 1 \in Nat /\ Bits["i8"] - 1 >= 1 /\ Bits["i8"] - 1 \in 0 .. Most
    BY WidthsAssumption DEF Most, LLVMInts
  <2>3. Power[Bits["i8"] - 1] \in Nat /\ Power[Bits["i8"] - 1] > 1  BY <2>2, PowersAreLarge, Powers
  <2>4. InC(n, ty) = (IF n = 0 THEN 0 ELSE 1)  BY <1>2 DEF InC
  <2>5. \A k \in Int : InC(k, ty) = (IF k = 0 THEN 0 ELSE 1)  BY <1>2 DEF InC
  <2>6. InC(n, ty) \in {0, 1}  BY <2>4
  <2>7. InRange(InC(n, ty), ty.unsigned, Bits[ToLLVM(ty)])  BY <2>1, <2>3, <2>6 DEF InRange
  <2>8. QED  BY <1>2, <2>1, <2>4, <2>5, <2>6, <2>7
<1>3. CASE IsInt(ty) /\ ty.base # "BOOL"
  <2>1. Bits[ToLLVM(ty)] \in Width  BY <1>3, LLVMTypeIs
  <2>2. \A k \in Int : InC(k, ty) = Wrap(k, ty.unsigned, Bits[ToLLVM(ty)])  BY <1>3 DEF InC
  <2>3. /\ InC(n, ty) \in Int
        /\ InRange(InC(n, ty), ty.unsigned, Bits[ToLLVM(ty)])
        /\ InC(n, ty) % Power[Bits[ToLLVM(ty)]] = n % Power[Bits[ToLLVM(ty)]]
    BY <1>1, <2>1, <2>2, Wraps
  <2>4. InC(InC(n, ty), ty) = InC(n, ty)  BY <1>1, <2>1, <2>2, <2>3, WrapOfSame
  <2>5. QED  BY <1>3, <2>2, <2>3, <2>4
<1>4. CASE ~IsInt(ty)
  <2>1. ty.base # "BOOL"  BY <1>4 DEF IsInt, Narrow
  <2>2. \A k : InC(k, ty) = k  BY <1>4, <2>1 DEF InC
  <2>3. QED  BY <1>4, <2>1, <2>2
<1>5. QED  BY <1>2, <1>3, <1>4

\* A number in the range of an integer type is a value of it.
LEMMA InCOfRange ==
  ASSUME NEW n \in Int, NEW ty \in CTypes, IsInt(ty), ty.base # "BOOL",
         InRange(n, ty.unsigned, Bits[ToLLVM(ty)])
  PROVE  InC(n, ty) = n
<1>1. ty.unsigned \in BOOLEAN /\ Bits[ToLLVM(ty)] \in Width  BY CTypeIs, LLVMTypeIs
<1>2. Wrap(n, ty.unsigned, Bits[ToLLVM(ty)]) = n  BY <1>1, WrapIs
<1>3. QED  BY <1>2, InCIs

LEMMA InCOfSame ==
  ASSUME NEW n \in Int, NEW c \in Int, NEW ty \in CTypes, IsInt(ty), ty.base # "BOOL",
         n % Power[Bits[ToLLVM(ty)]] = c % Power[Bits[ToLLVM(ty)]]
  PROVE  InC(n, ty) = InC(c, ty)
<1>1. ty.unsigned \in BOOLEAN /\ Bits[ToLLVM(ty)] \in Width  BY CTypeIs, LLVMTypeIs
<1>2. QED  BY <1>1, WrapOfSame, InCIs

-----------------------------------------------------------------------------
(* LLVM values and the numbers they stand for *)

Stands(x, u, n) ==
  /\ n \in Int
  /\ x.ty \in LLVMTypes
  /\ x.ty \in LLVMInts => /\ InRange(n, u, Bits[x.ty])
                          /\ x.v = n % Power[Bits[x.ty]]
  /\ x.ty \notin LLVMInts => x.v = n

LEMMA ReadIs ==
  ASSUME NEW x, NEW u \in BOOLEAN, NEW n, Stands(x, u, n)
  PROVE  Read(x, u) = n
<1>1. CASE x.ty \in LLVMInts
  <2>1. Bits[x.ty] \in Width  BY <1>1, WidthsAreNat
  <2>2. n \in Int /\ InRange(n, u, Bits[x.ty]) /\ x.v = n % Power[Bits[x.ty]]
    BY <1>1 DEF Stands
  <2>3. Power[Bits[x.ty]] \in Nat \ {0}  BY <2>1, HalfPower
  <2>4. x.v \in Int /\ x.v % Power[Bits[x.ty]] = n % Power[Bits[x.ty]]
    <3>1. \A m \in Nat \ {0}, k \in Int : k % m \in Int /\ (k % m) % m = k % m  OBVIOUS
    <3>2. QED  BY <2>2, <2>3, <3>1
  <2>5. Wrap(x.v, u, Bits[x.ty]) = n  BY <2>1, <2>2, <2>4, WrapIs
  <2>6. QED  BY <1>1, <2>5 DEF Read
<1>2. CASE x.ty \notin LLVMInts  BY <1>2 DEF Read, Stands
<1>3. QED  BY <1>1, <1>2

\* Read with any sign, it is the number that this sign makes of it.
LEMMA ReadsAs ==
  ASSUME NEW x, NEW u \in BOOLEAN, NEW n, Stands(x, u, n), NEW s \in BOOLEAN
  PROVE  /\ Read(x, s) \in Int
         /\ x.ty \in LLVMInts => /\ Read(x, s) = Wrap(n, s, Bits[x.ty])
                                 /\ Stands(x, s, Read(x, s))
                                 /\ Read(x, s) % Power[Bits[x.ty]] = n % Power[Bits[x.ty]]
         /\ x.ty \notin LLVMInts => Read(x, s) = n
<1>1. CASE x.ty \in LLVMInts
  <2>1. Bits[x.ty] \in Width  BY <1>1, WidthsAreNat
  <2>2. n \in Int /\ x.v = n % Power[Bits[x.ty]] /\ x.ty \in LLVMTypes
    BY <1>1 DEF Stands
  <2>3. Power[Bits[x.ty]] \in Nat \ {0}  BY <2>1, HalfPower
  <2>4. x.v \in Int /\ x.v % Power[Bits[x.ty]] = n % Power[Bits[x.ty]]
    <3>1. \A m \in Nat \ {0}, k \in Int : k % m \in Int /\ (k % m) % m = k % m  OBVIOUS
    <3>2. QED  BY <2>2, <2>3, <3>1
  <2>5. Read(x, s) = Wrap(x.v, s, Bits[x.ty])  BY <1>1 DEF Read
  <2>6. Read(x, s) = Wrap(n, s, Bits[x.ty])  BY <2>1, <2>2, <2>4, <2>5, WrapOfSame
  <2>7. /\ Read(x, s) \in Int /\ InRange(Read(x, s), s, Bits[x.ty])
        /\ Read(x, s) % Power[Bits[x.ty]] = n % Power[Bits[x.ty]]
    BY <2>1, <2>2, <2>6, Wraps
  <2>8. Stands(x, s, Read(x, s))  BY <1>1, <2>2, <2>7 DEF Stands
  <2>9. QED  BY <1>1, <2>6, <2>7, <2>8
<1>2. CASE x.ty \notin LLVMInts  BY <1>2 DEF Read, Stands
<1>3. QED  BY <1>1, <1>2

LEMMA ValueStands ==
  ASSUME NEW lt \in LLVMTypes, NEW u \in BOOLEAN, NEW n \in Int, NEW c \in Int,
         lt \in LLVMInts => /\ InRange(c, u, Bits[lt])
                            /\ n % Power[Bits[lt]] = c % Power[Bits[lt]],
         lt \notin LLVMInts => n = c
  PROVE  Stands(Value(lt, n), u, c) /\ Value(lt, n).ty = lt
BY DEF Stands, Value

LEMMA ZeroStands ==
  ASSUME NEW x, NEW u \in BOOLEAN, NEW n, Stands(x, u, n)
  PROVE  x.v = 0 <=> n = 0
<1>1. CASE x.ty \in LLVMInts
  <2>1. Bits[x.ty] \in Width  BY <1>1, WidthsAreNat
  <2>2. n \in Int /\ InRange(n, u, Bits[x.ty]) /\ x.v = n % Power[Bits[x.ty]]
    BY <1>1 DEF Stands
  <2>3. /\ Power[Bits[x.ty]] \in Nat \ {0} /\ Power[Bits[x.ty] - 1] \in Nat \ {0}
    BY <2>1, HalfPower
  <2>4. 0 % Power[Bits[x.ty]] = 0
    <3>1. \A m \in Nat \ {0} : 0 % m = 0  OBVIOUS
    <3>2. QED  BY <2>3, <3>1
  <2>5. InRange(0, u, Bits[x.ty])  BY <2>3 DEF InRange
  <2>6. x.v = 0 => n = 0  BY <2>1, <2>2, <2>4, <2>5, OneInRange
  <2>7. QED  BY <2>2, <2>4, <2>6
<1>2. CASE x.ty \notin LLVMInts  BY <1>2 DEF Stands
<1>3. QED  BY <1>1, <1>2

\* Small numbers are in every range.
LEMMA BoolStands ==
  ASSUME NEW lt \in LLVMInts, NEW u \in BOOLEAN, NEW n \in {0, 1}
  PROVE  /\ Stands(Value(lt, n), u, n) /\ Value(lt, n).ty = lt
         /\ InRange(n, u, Bits[lt])
<1>1. Bits[lt] \in Width /\ Bits[lt] - 1 \in Width  BY WidthsAreNat
<1>2. /\ Power[Bits[lt]] \in Nat /\ Power[Bits[lt] - 1] \in Nat
      /\ Power[Bits[lt]] = 2 * Power[Bits[lt] - 1]
  BY <1>1, HalfPower
<1>3. Power[Bits[lt] - 1] > 1
  <2>1. Bits[lt] - 1 \in 0 .. Most /\ Bits[lt] - 1 >= 1  BY <1>1, WidthsAreNat DEF Width
  <2>2. QED  BY <1>2, <2>1, PowersAreLarge
<1>4. InRange(n, u, Bits[lt])  BY <1>2, <1>3 DEF InRange
<1>5. QED  BY <1>4, ValueStands DEF LLVMTypes

-----------------------------------------------------------------------------
(* Conversions *)

LEMMA CastStands ==
  ASSUME NEW x, NEW from, from.unsigned \in BOOLEAN, NEW n, Stands(x, from.unsigned, n),
         NEW ty \in CTypes
  PROVE  LET y == CastValue(x, from, ToLLVM(ty), ty.base = "BOOL")
         IN  y.ty = ToLLVM(ty) /\ Stands(y, ty.unsigned, InC(n, ty))
<1> DEFINE lt == ToLLVM(ty)
           y  == CastValue(x, from, lt, ty.base = "BOOL")
<1>1. /\ ty.unsigned \in BOOLEAN /\ lt \in LLVMTypes /\ n \in Int
      /\ lt \in LLVMInts <=> IsInt(ty)
  BY CTypeIs, LLVMTypeIs DEF Stands
<1>2. /\ InC(n, ty) \in Int
      /\ IsInt(ty) => InRange(InC(n, ty), ty.unsigned, Bits[lt])
      /\ ~IsInt(ty) => InC(n, ty) = n
      /\ IsInt(ty) /\ ty.base # "BOOL" => n % Power[Bits[lt]] = InC(n, ty) % Power[Bits[lt]]
  BY <1>1, InCIs
<1>3. CASE ty.base = "BOOL"
  <2>1. lt = "i8" /\ "i8" \in LLVMInts  BY <1>3 DEF ToLLVM, LLVMInts
  <2>2. InC(n, ty) = (IF n = 0 THEN 0 ELSE 1)  BY <1>1, <1>3, InCIs
  <2>3. ConvertToBool(x) = InC(n, ty)  BY <2>2, ZeroStands DEF ConvertToBool
  <2>4. y = Value("i8", InC(n, ty))  BY <1>3, <2>3 DEF CastValue
  <2>5. QED  BY <1>1, <2>1, <2>2, <2>4, BoolStands
<1>4. CASE ty.base # "BOOL" /\ x.ty = lt
  <2>1. y = x  BY <1>4 DEF CastValue
  <2>2. QED  BY <1>1, <1>2, <1>4, <2>1 DEF Stands
<1>5. CASE ty.base # "BOOL" /\ x.ty # lt
  <2>1. y = Value(lt, n)  BY <1>5, ReadIs DEF CastValue
  <2>2. QED  BY <1>1, <1>2, <1>5, <2>1, ValueStands
<1>6. QED  BY <1>3, <1>4, <1>5

\* The LLVM type in which match_types makes a value of type a meet one of type b.
Met(a, b) ==
  IF {a, b} \subseteq LLVMInts THEN IF Bits[a] < Bits[b] THEN b ELSE a
  ELSE IF \/ b \in {"float", "ptr"} /\ a \in LLVMInts
          \/ b = "double" /\ a \in LLVMInts \cup {"float"}
  THEN b ELSE a

LEMMA Matched ==
  ASSUME NEW x, NEW ty, ty.unsigned \in BOOLEAN, NEW n, Stands(x, ty.unsigned, n),
         NEW lt \in LLVMTypes, lt \notin LLVMInts /\ x.ty \in LLVMInts => ~ty.unsigned
  PROVE  LET y == MatchTypes(x, ty, lt)
         IN  Stands(y, ty.unsigned, n) /\ y.ty = Met(x.ty, lt)
<1> DEFINE y == MatchTypes(x, ty, lt)
           u == ty.unsigned
<1>1. n \in Int /\ x.ty \in LLVMTypes  BY DEF Stands
<1>2. CASE {x.ty, lt} \subseteq LLVMInts /\ Bits[x.ty] < Bits[lt]
  <2>1. y = Value(lt, Read(x, u))  BY <1>2 DEF MatchTypes, LLVMInts, LLVMReals
  <2>2. y = Value(lt, n)  BY <2>1, ReadIs
  <2>3. Bits[x.ty] \in Width /\ Bits[lt] \in Width  BY <1>2, WidthsAreNat
  <2>4. Bits[lt] \in Bits[x.ty] .. Most  BY <1>2, <2>3, WidthsAreNat DEF Width
  <2>5. InRange(n, u, Bits[x.ty])  BY <1>2 DEF Stands
  <2>6. InRange(n, u, Bits[lt])  BY <1>1, <2>3, <2>4, <2>5, WiderRange
  <2>7. Stands(y, u, n) /\ y.ty = lt  BY <1>1, <1>2, <2>2, <2>6, ValueStands
  <2>8. QED  BY <1>2, <2>7 DEF Met
<1>3. CASE \/ lt \in {"float", "ptr"} /\ x.ty \in LLVMInts
           \/ lt = "double" /\ x.ty \in LLVMInts \cup {"float"}
  <2>1. y = Value(lt, Read(x, FALSE))  BY <1>3 DEF MatchTypes, LLVMInts, LLVMReals
  <2>2. lt \notin LLVMInts  BY <1>3 DEF LLVMInts
  <2>3. Read(x, FALSE) = n
    <3>1. CASE x.ty \in LLVMInts  BY <2>2, <3>1, ReadIs
    <3>2. CASE x.ty \notin LLVMInts  BY <3>2 DEF Read, Stands
    <3>3. QED  BY <3>1, <3>2
  <2>4. y = Value(lt, n)  BY <2>1, <2>3
  <2>5. Stands(Value(lt, n), u, n) /\ Value(lt, n).ty = lt  BY <1>1, <2>2, ValueStands
  <2>6. QED  BY <1>3, <2>2, <2>4, <2>5 DEF Met
<1>4. CASE /\ ~({x.ty, lt} \subseteq LLVMInts /\ Bits[x.ty] < Bits[lt])
           /\ ~(lt \in {"float", "ptr"} /\ x.ty \in LLVMInts)
           /\ ~(lt = "double" /\ x.ty \in LLVMInts \cup {"float"})
  <2>1. y = x  BY <1>4 DEF MatchTypes, LLVMInts, LLVMReals
  <2>2. QED  BY <1>4, <2>1 DEF Met
<1>5. QED  BY <1>2, <1>3, <1>4

-----------------------------------------------------------------------------
(* Operands that the code keeps *)

\* The type of a node is the one of C, or one that was promoted, or the code's
\* pointer for what is a number.
Agree(ty, cty) ==
  \/ cty = ty
  \/ ty.base \in Narrow /\ cty = IntType
  \/ ty = Pointer /\ cty \in {Signed("LONG"), Signed("FLOAT"), Signed("DOUBLE")}

Held(e) ==
  /\ e.val.ty \in HeldAs(e.ty, e.cty)
  /\ Stands(e.val, e.ty.unsigned, e.cv)
  /\ InC(e.cv, e.ty) = e.cv
  /\ Agree(e.ty, e.cty)

Typed(e) ==
  /\ e.ty \in CTypes /\ e.cty \in CTypes
  /\ e.cv \in Int /\ InC(e.cv, e.cty) = e.cv
  /\ e.cty.base = "PTR" => e.cv \in 1 .. Elements + 1

LEMMA HeldKinds ==
  ASSUME NEW e, Typed(e), Held(e)
  PROVE  /\ IsWide(e.ty) => /\ e.val.ty = ToLLVM(e.cty)
                            /\ e.ty.unsigned = e.cty.unsigned
                            /\ e.cty.base \notin Narrow /\ Promoted(e.cty) = e.cty
         /\ ~IsWide(e.ty) => /\ e.ty.base \in Narrow /\ Promoted(e.cty) = IntType
                             /\ e.val.ty \in {"i8", "i16", "i32"}
         /\ e.cty.base = "PTR" <=> e.val.ty = "ptr"
         /\ e.cty.base = "PTR" => e.ty = Pointer /\ e.cty = Pointer
         /\ IsReal(e.cty) <=> e.val.ty \in LLVMReals
         /\ IsInt(e.cty) <=> e.val.ty \in LLVMInts
<1>1. /\ e.ty.base \in CBases /\ e.cty.base \in CBases
      /\ e.ty = [base |-> e.ty.base, unsigned |-> e.ty.unsigned]
      /\ e.ty.unsigned \in BOOLEAN /\ (e.ty.unsigned => e.ty.base \in UnsignedBases)
  BY CTypeIs DEF Typed
<1>2. \A b \in CBases : Signed(b).base = b /\ Signed(b).unsigned = FALSE
  BY SignedIs
<1>3. "LONG" \in CBases /\ "FLOAT" \in CBases /\ "DOUBLE" \in CBases  BY DEF CBases
<1>4. CASE e.cty = e.ty
  <2>1. e.ty.base = "PTR" => e.ty = Pointer
    BY <1>1 DEF UnsignedBases, Pointer, Signed
  <2>2. QED  BY <1>1, <1>4, <2>1 DEF CBases, Held, HeldAs, ToLLVM, IsWide, IsInt, IsReal, Narrow,
                Wide, Reals, Promoted, LLVMInts, LLVMReals
<1>5. CASE e.ty.base \in Narrow /\ e.cty = IntType
  BY <1>1, <1>5, IntTypeIs DEF CBases, Held, HeldAs, ToLLVM, IsWide, IsInt, IsReal, Narrow,
                Wide, Reals, Promoted, LLVMInts, LLVMReals
<1>6. CASE e.ty = Pointer /\ e.cty \in {Signed("LONG"), Signed("FLOAT"), Signed("DOUBLE")}
  BY <1>2, <1>3, <1>6, IntTypeIs DEF Held, HeldAs, ToLLVM, IsWide, IsInt, IsReal, Narrow,
                Wide, Reals, Promoted, LLVMInts, LLVMReals
<1>7. QED  BY <1>4, <1>5, <1>6 DEF Held, Agree


\* The type that C's usual conversions find is the one in which the values meet.
LEMMA Joins ==
  ASSUME NEW s \in CTypes, NEW t \in CTypes, s.base \notin Narrow, t.base \notin Narrow,
         s.base # "PTR", t.base # "PTR"
  PROVE  /\ Usual(s, t) \in CTypes
         /\ Usual(s, t).base \notin Narrow \cup {"PTR"}
         /\ ToLLVM(Usual(s, t)) = Met(ToLLVM(s), ToLLVM(t))
         /\ ToLLVM(Usual(s, t)) = Met(ToLLVM(t), ToLLVM(s))
         /\ IsInt(Usual(s, t)) <=> IsInt(s) /\ IsInt(t)
         /\ IsReal(Usual(s, t)) <=> IsReal(s) \/ IsReal(t)
<1>1. /\ s.base \in {"INT", "LONG", "FLOAT", "DOUBLE"} /\ t.base \in {"INT", "LONG", "FLOAT", "DOUBLE"}
      /\ s.unsigned \in BOOLEAN /\ t.unsigned \in BOOLEAN
      /\ s.unsigned => s.base \in UnsignedBases
      /\ t.unsigned => t.base \in UnsignedBases
      /\ s = [base |-> s.base, unsigned |-> s.unsigned]
      /\ t = [base |-> t.base, unsigned |-> t.unsigned]
  BY CTypeIs DEF CBases, Narrow
<1>2. Promoted(s) = s /\ Promoted(t) = t  BY DEF Promoted
<1>3. CASE IsReal(s) \/ IsReal(t)
  <2>1. Usual(s, t) = Signed(IF "DOUBLE" \in {s.base, t.base} THEN "DOUBLE" ELSE "FLOAT")
    BY <1>2, <1>3 DEF Usual
  <2>2. /\ Signed("DOUBLE") \in CTypes /\ Signed("DOUBLE").base = "DOUBLE"
        /\ Signed("FLOAT") \in CTypes /\ Signed("FLOAT").base = "FLOAT"
    BY SignedIs DEF CBases
  <2>3. QED
    BY <1>1, <1>3, <2>1, <2>2 DEF Met, ToLLVM, IsReal, IsInt, Reals, Narrow, Wide, LLVMInts
<1>4. CASE ~IsReal(s) /\ ~IsReal(t) /\ s.base = t.base
  <2>1. Usual(s, t) = [s EXCEPT !.unsigned = s.unsigned \/ t.unsigned]
    BY <1>2, <1>4 DEF Usual
  <2>2. s.base \in {"INT", "LONG"}  BY <1>1, <1>4 DEF IsReal, Reals
  <2>3. Usual(s, t) = [base |-> s.base, unsigned |-> s.unsigned \/ t.unsigned]
    BY <1>1, <2>1
  <2>4. Usual(s, t) \in CTypes  BY <2>2, <2>3, IsCType DEF CBases, UnsignedBases
  <2>5. Usual(s, t).base = s.base  BY <2>3
  <2>6. QED
    BY <1>4, <2>2, <2>4, <2>5 DEF Met, ToLLVM, IsReal, IsInt, Reals, Narrow, Wide, LLVMInts
<1>5. CASE ~IsReal(s) /\ ~IsReal(t) /\ s.base # t.base
  <2>1. Usual(s, t) = IF s.base = "LONG" THEN s ELSE t  BY <1>2, <1>5 DEF Usual
  <2>2. {s.base, t.base} = {"INT", "LONG"}  BY <1>1, <1>5 DEF IsReal, Reals
  <2>3. /\ Bits["i32"] < Bits["i64"] /\ ~(Bits["i64"] < Bits["i32"])
        /\ "i32" \in LLVMInts /\ "i64" \in LLVMInts
    BY WidthsAssumption DEF LLVMInts
  <2>4. QED
    BY <1>1, <1>5, <2>1, <2>2, <2>3 DEF Met, ToLLVM, IsReal, IsInt, Reals, Narrow, Wide
<1>6. QED  BY <1>3, <1>4, <1>5

LEMMA NarrowMeets ==
  ASSUME NEW a \in {"i8", "i16", "i32"}, NEW t \in CTypes, t.base \notin Narrow, t.base # "PTR"
  PROVE  Met(a, ToLLVM(t)) = ToLLVM(t) /\ Met(ToLLVM(t), a) = ToLLVM(t)
<1>1. t.base \in {"INT", "LONG", "FLOAT", "DOUBLE"}  BY CTypeIs DEF CBases, Narrow
<1>2. /\ Bits["i8"] < Bits["i32"] /\ Bits["i16"] < Bits["i32"]
      /\ Bits["i8"] < Bits["i64"] /\ Bits["i16"] < Bits["i64"] /\ Bits["i32"] < Bits["i64"]
      /\ Bits["i8"] \in Nat /\ Bits["i16"] \in Nat /\ Bits["i32"] \in Nat /\ Bits["i64"] \in Nat
  BY WidthsAssumption DEF LLVMInts
<1>3. QED  BY <1>1, <1>2 DEF Met, ToLLVM, LLVMInts

LEMMA IntJoins ==
  ASSUME NEW t \in CTypes, t.base \notin Narrow, t.base # "PTR"
  PROVE  ToLLVM(Usual(IntType, t)) = ToLLVM(t) /\ ToLLVM(Usual(t, IntType)) = ToLLVM(t)
<1>1. t.base \in {"INT", "LONG", "FLOAT", "DOUBLE"}  BY CTypeIs DEF CBases, Narrow
<1>2. IntType.base \notin Narrow /\ IntType.base # "PTR" /\ IntType \in CTypes
  BY IntTypeIs DEF Narrow
<1>3. /\ ToLLVM(Usual(IntType, t)) = Met(ToLLVM(IntType), ToLLVM(t))
      /\ ToLLVM(Usual(t, IntType)) = Met(ToLLVM(IntType), ToLLVM(t))
  BY <1>2, Joins
<1>4. ToLLVM(IntType) = "i32"  BY IntTypeIs DEF ToLLVM
<1>5. QED  BY <1>3, <1>4, NarrowMeets

LEMMA UsualIs ==
  ASSUME NEW s, NEW t
  PROVE  Usual(s, t) = Usual(Promoted(s), Promoted(t))
<1>1. IntType.base \notin Narrow  BY IntTypeIs DEF Narrow
<1>2. Promoted(Promoted(s)) = Promoted(s) /\ Promoted(Promoted(t)) = Promoted(t)
  BY <1>1 DEF Promoted
<1>3. QED  BY <1>2 DEF Usual

LEMMA PromotedIs ==
  ASSUME NEW t \in CTypes
  PROVE  /\ Promoted(t) \in CTypes /\ Promoted(t).base \notin Narrow
         /\ Promoted(t).base = "PTR" <=> t.base = "PTR"
         /\ IsInt(Promoted(t)) <=> IsInt(t)
         /\ IsReal(Promoted(t)) <=> IsReal(t)
BY IntTypeIs DEF Promoted, Narrow, Wide, Reals, IsInt, IsReal

\* Operands of which one is wide meet in the type of the usual conversions.
LEMMA OperandsMeet ==
  ASSUME NEW l, NEW r, Typed(l), Typed(r), Held(l), Held(r),
         IsWide(l.ty) \/ IsWide(r.ty), l.cty.base # "PTR", r.cty.base # "PTR"
  PROVE  LET t == Usual(l.cty, r.cty)
         IN  /\ t \in CTypes /\ t.base \notin Narrow \cup {"PTR"}
             /\ Met(l.val.ty, r.val.ty) = ToLLVM(t)
             /\ Met(r.val.ty, l.val.ty) = ToLLVM(t)
             /\ IsInt(t) <=> IsInt(l.cty) /\ IsInt(r.cty)
             /\ IsReal(t) <=> IsReal(l.cty) \/ IsReal(r.cty)
<1> DEFINE t == Usual(l.cty, r.cty)
           p == Promoted(l.cty)
           q == Promoted(r.cty)
<1>1. /\ p \in CTypes /\ q \in CTypes /\ p.base \notin Narrow /\ q.base \notin Narrow
      /\ p.base # "PTR" /\ q.base # "PTR"
      /\ IsInt(p) <=> IsInt(l.cty)
      /\ IsInt(q) <=> IsInt(r.cty)
      /\ IsReal(p) <=> IsReal(l.cty)
      /\ IsReal(q) <=> IsReal(r.cty)
  BY PromotedIs DEF Typed
<1>2. t = Usual(p, q)  BY UsualIs
<1> HIDE DEF p, q, t
<1>3. /\ t \in CTypes /\ t.base \notin Narrow \cup {"PTR"}
      /\ ToLLVM(t) = Met(ToLLVM(p), ToLLVM(q)) /\ ToLLVM(t) = Met(ToLLVM(q), ToLLVM(p))
      /\ IsInt(t) <=> IsInt(p) /\ IsInt(q)
      /\ IsReal(t) <=> IsReal(p) \/ IsReal(q)
  BY <1>1, <1>2, Joins
<1>4. CASE IsWide(l.ty) /\ IsWide(r.ty)
  <2>1. l.val.ty = ToLLVM(p) /\ r.val.ty = ToLLVM(q)  BY <1>4, HeldKinds DEF p, q
  <2>2. QED  BY <1>1, <1>3, <2>1 DEF t
<1>5. CASE IsWide(l.ty) /\ ~IsWide(r.ty)
  <2>1. l.val.ty = ToLLVM(p) /\ q = IntType /\ r.val.ty \in {"i8", "i16", "i32"}
    BY <1>5, HeldKinds DEF p, q
  <2>2. ToLLVM(t) = ToLLVM(p)  BY <1>1, <1>2, <2>1, IntJoins
  <2>3. Met(l.val.ty, r.val.ty) = ToLLVM(t) /\ Met(r.val.ty, l.val.ty) = ToLLVM(t)
    BY <1>1, <2>1, <2>2, NarrowMeets
  <2>4. QED  BY <1>1, <1>3, <2>3 DEF t
<1>6. CASE ~IsWide(l.ty) /\ IsWide(r.ty)
  <2>1. r.val.ty = ToLLVM(q) /\ p = IntType /\ l.val.ty \in {"i8", "i16", "i32"}
    BY <1>6, HeldKinds DEF p, q
  <2>2. ToLLVM(t) = ToLLVM(q)  BY <1>1, <1>2, <2>1, IntJoins
  <2>3. Met(l.val.ty, r.val.ty) = ToLLVM(t) /\ Met(r.val.ty, l.val.ty) = ToLLVM(t)
    BY <1>1, <2>1, <2>2, NarrowMeets
  <2>4. QED  BY <1>1, <1>3, <2>3 DEF t
<1>7. QED  BY <1>4, <1>5, <1>6


LEMMA UsualOf ==
  ASSUME NEW s \in CTypes, NEW t \in CTypes, s.base \notin Narrow, t.base \notin Narrow
  PROVE  /\ IsReal(s) \/ IsReal(t) =>
              Usual(s, t) = Signed(IF "DOUBLE" \in {s.base, t.base} THEN "DOUBLE" ELSE "FLOAT")
         /\ ~IsReal(s) /\ ~IsReal(t) /\ s.base = t.base =>
              Usual(s, t) = [base |-> s.base, unsigned |-> s.unsigned \/ t.unsigned]
         /\ ~IsReal(s) /\ ~IsReal(t) /\ s.base # t.base =>
              Usual(s, t) = IF s.base = "LONG" THEN s ELSE t
<1>1. Promoted(s) = s /\ Promoted(t) = t  BY DEF Promoted
<1>2. s = [base |-> s.base, unsigned |-> s.unsigned]  BY CTypeIs
<1>3. [s EXCEPT !.unsigned = s.unsigned \/ t.unsigned]
        = [base |-> s.base, unsigned |-> s.unsigned \/ t.unsigned]
  BY <1>2
<1>4. QED  BY <1>1, <1>3 DEF Usual

LEMMA RealIs ==
  ASSUME NEW t \in CTypes, t.base \in Reals
  PROVE  t = Signed(t.base)
BY CTypeIs DEF Signed, Reals, UnsignedBases

LEMMA UsualOfInt ==
  ASSUME NEW t \in CTypes, t.base \notin Narrow, t.base # "PTR"
  PROVE  Usual(IntType, t) = t /\ Usual(t, IntType) = t
<1>1. IntType.base = "INT" /\ IntType.unsigned = FALSE /\ IntType \in CTypes
      /\ IntType.base \notin Narrow /\ ~IsReal(IntType)
  BY IntTypeIs DEF Narrow, IsReal, Reals
<1>2. t.base \in {"INT", "LONG", "FLOAT", "DOUBLE"} /\ t.unsigned \in BOOLEAN
      /\ t = [base |-> t.base, unsigned |-> t.unsigned]
  BY CTypeIs DEF CBases, Narrow
<1>3. CASE IsReal(t)
  <2>1. t = Signed(t.base)  BY <1>3, RealIs DEF IsReal
  <2>2. /\ Usual(IntType, t) = Signed(IF t.base = "DOUBLE" THEN "DOUBLE" ELSE "FLOAT")
        /\ Usual(t, IntType) = Signed(IF t.base = "DOUBLE" THEN "DOUBLE" ELSE "FLOAT")
    BY <1>1, <1>3, UsualOf
  <2>3. t.base \in {"FLOAT", "DOUBLE"}  BY <1>3 DEF IsReal, Reals
  <2>4. QED  BY <2>1, <2>2, <2>3
<1>4. CASE t.base = "INT"
  <2>1. ~IsReal(t)  BY <1>4 DEF IsReal, Reals
  <2>2. /\ Usual(IntType, t) = [base |-> "INT", unsigned |-> FALSE \/ t.unsigned]
        /\ Usual(t, IntType) = [base |-> "INT", unsigned |-> t.unsigned \/ FALSE]
    BY <1>1, <1>4, <2>1, UsualOf
  <2>3. CASE t.unsigned = TRUE  BY <1>2, <1>4, <2>2, <2>3
  <2>4. CASE t.unsigned = FALSE  BY <1>2, <1>4, <2>2, <2>4
  <2>5. QED  BY <1>2, <2>3, <2>4
<1>5. CASE t.base = "LONG"
  <2>1. ~IsReal(t)  BY <1>5 DEF IsReal, Reals
  <2>2. QED  BY <1>1, <1>5, <2>1, UsualOf
<1>6. QED  BY <1>2, <1>3, <1>4, <1>5 DEF IsReal, Reals

Differences == {Signed("LONG"), Signed("FLOAT"), Signed("DOUBLE")}

LEMMA DifferencesAre ==
  ASSUME NEW d \in Differences
  PROVE  /\ d \in CTypes /\ d.base \in {"LONG", "FLOAT", "DOUBLE"} /\ d.base \notin Narrow
         /\ d.unsigned = FALSE /\ d = Signed(d.base) /\ Promoted(d) = d
BY SignedIs DEF Differences, CBases, Narrow, Promoted

\* A number beside a difference of pointers.
LEMMA DifferenceJoins ==
  ASSUME NEW d \in Differences, NEW t \in CTypes, t.base \notin Narrow, t.base # "PTR", ~t.unsigned
  PROVE  Usual(d, t) \in Differences /\ Usual(t, d) \in Differences
<1>1. t.base \in {"INT", "LONG", "FLOAT", "DOUBLE"} /\ t = Signed(t.base) /\ t.unsigned = FALSE
  BY CTypeIs DEF CBases, Narrow, Signed
<1>2. d \in CTypes /\ d.base \in {"LONG", "FLOAT", "DOUBLE"} /\ d.base \notin Narrow
      /\ d.unsigned = FALSE /\ d = Signed(d.base)
  BY DifferencesAre
<1>3. CASE IsReal(d) \/ IsReal(t)
  <2>1. /\ Usual(d, t) = Signed(IF "DOUBLE" \in {d.base, t.base} THEN "DOUBLE" ELSE "FLOAT")
        /\ Usual(t, d) = Signed(IF "DOUBLE" \in {t.base, d.base} THEN "DOUBLE" ELSE "FLOAT")
    BY <1>2, <1>3, UsualOf
  <2>2. QED  BY <2>1 DEF Differences
<1>4. CASE ~(IsReal(d) \/ IsReal(t))
  <2>1. d.base = "LONG" /\ t.base \in {"INT", "LONG"}  BY <1>1, <1>2, <1>4 DEF IsReal, Reals
  <2>2. CASE t.base = "INT"
    <3>1. Usual(d, t) = d /\ Usual(t, d) = d  BY <1>2, <1>4, <2>1, <2>2, UsualOf
    <3>2. QED  BY <3>1
  <2>3. CASE t.base = "LONG"
    <3>1. /\ Usual(d, t) = [base |-> "LONG", unsigned |-> FALSE \/ FALSE]
          /\ Usual(t, d) = [base |-> "LONG", unsigned |-> FALSE \/ FALSE]
      BY <1>1, <1>2, <1>4, <2>1, <2>3, UsualOf
    <3>2. QED  BY <3>1 DEF Differences, Signed
  <2>4. QED  BY <2>1, <2>2, <2>3
<1>5. QED  BY <1>3, <1>4

\* The common type of the nodes agrees with C's for the operands.
LEMMA CommonAgrees ==
  ASSUME NEW s \in CTypes, NEW t \in CTypes, NEW sc \in CTypes, NEW tc \in CTypes,
         Agree(s, sc), Agree(t, tc), IsWide(s) \/ IsWide(t),
         sc.base # "PTR", tc.base # "PTR",
         s.base = "PTR" => ~t.unsigned, t.base = "PTR" => ~s.unsigned
  PROVE  LET c == GetCommonType(s, t)
             m == Usual(sc, tc)
         IN  /\ c \in CTypes /\ IsWide(c) /\ Agree(c, m)
             /\ c.unsigned = m.unsigned
<1> DEFINE c == GetCommonType(s, t)
           m == Usual(sc, tc)
<1>1. /\ s.base \in CBases /\ t.base \in CBases
      /\ s.unsigned \in BOOLEAN /\ t.unsigned \in BOOLEAN
      /\ s.unsigned => s.base \in UnsignedBases
      /\ t.unsigned => t.base \in UnsignedBases
      /\ s = [base |-> s.base, unsigned |-> s.unsigned]
      /\ t = [base |-> t.base, unsigned |-> t.unsigned]
  BY CTypeIs
<1>2. /\ Signed("LONG").base = "LONG" /\ Signed("LONG").unsigned = FALSE
      /\ Signed("FLOAT").base = "FLOAT" /\ Signed("FLOAT").unsigned = FALSE
      /\ Signed("DOUBLE").base = "DOUBLE" /\ Signed("DOUBLE").unsigned = FALSE
  BY SignedIs DEF CBases
<1>3. IntType = [base |-> "INT", unsigned |-> FALSE]  BY DEF IntType, Signed
<1>4. /\ Signed("LONG") = [base |-> "LONG", unsigned |-> FALSE]
      /\ Signed("FLOAT") = [base |-> "FLOAT", unsigned |-> FALSE]
      /\ Signed("DOUBLE") = [base |-> "DOUBLE", unsigned |-> FALSE]
      /\ Pointer = [base |-> "PTR", unsigned |-> FALSE]
  BY DEF Signed, Pointer
<1> DEFINE IsNumber(ty, cty) ==
             /\ ty.base # "PTR"
             /\ \/ cty = ty /\ ty.base \in {"INT", "LONG", "FLOAT", "DOUBLE"}
                \/ ty.base \in Narrow /\ Promoted(cty) = IntType
           Difference(ty, cty) ==
             ty = Pointer /\ cty \in {Signed("LONG"), Signed("FLOAT"), Signed("DOUBLE")}
<1>5. IsNumber(s, sc) \/ Difference(s, sc)
  <2>1. IntType.base \notin Narrow  BY IntTypeIs DEF Narrow
  <2>2. s.base = "PTR" => Difference(s, sc)  BY <1>3 DEF Agree, Narrow
  <2>3. s.base # "PTR" => sc = s \/ (s.base \in Narrow /\ sc = IntType)
    BY IntTypeIs DEF Agree
  <2>4. s.base \in Narrow => Promoted(s) = IntType /\ Promoted(IntType) = IntType
    BY <2>1 DEF Promoted
  <2>5. s.base # "PTR" /\ s.base \notin Narrow => s.base \in {"INT", "LONG", "FLOAT", "DOUBLE"}
    BY <1>1 DEF CBases, Narrow
  <2>6. CASE s.base = "PTR"  BY <2>2, <2>6
  <2>7. CASE s.base # "PTR" /\ s.base \in Narrow
    <3>1. Promoted(sc) = IntType  BY <2>3, <2>4, <2>7
    <3>2. QED  BY <2>7, <3>1
  <2>8. CASE s.base # "PTR" /\ s.base \notin Narrow  BY <2>3, <2>5, <2>8
  <2>9. QED  BY <2>6, <2>7, <2>8
<1>6. IsNumber(t, tc) \/ Difference(t, tc)
  <2>1. IntType.base \notin Narrow  BY IntTypeIs DEF Narrow
  <2>2. t.base = "PTR" => Difference(t, tc)  BY <1>3 DEF Agree, Narrow
  <2>3. t.base # "PTR" => tc = t \/ (t.base \in Narrow /\ tc = IntType)
    BY IntTypeIs DEF Agree
  <2>4. t.base \in Narrow => Promoted(t) = IntType /\ Promoted(IntType) = IntType
    BY <2>1 DEF Promoted
  <2>5. t.base # "PTR" /\ t.base \notin Narrow => t.base \in {"INT", "LONG", "FLOAT", "DOUBLE"}
    BY <1>1 DEF CBases, Narrow
  <2>6. CASE t.base = "PTR"  BY <2>2, <2>6
  <2>7. CASE t.base # "PTR" /\ t.base \in Narrow
    <3>1. Promoted(tc) = IntType  BY <2>3, <2>4, <2>7
    <3>2. QED  BY <2>7, <3>1
  <2>8. CASE t.base # "PTR" /\ t.base \notin Narrow  BY <2>3, <2>5, <2>8
  <2>9. QED  BY <2>6, <2>7, <2>8
<1>7. m = Usual(Promoted(sc), Promoted(tc))  BY UsualIs
<1>8. \A ty, cty : IsNumber(ty, cty) /\ ty.base \notin Narrow => Promoted(cty) = ty
  BY DEF Promoted, Narrow
<1>9. \A ty, cty : Difference(ty, cty) => Promoted(cty) = cty
  BY <1>2 DEF Promoted, Narrow
<1>10. \A ty : ty.base \in {"INT", "LONG", "FLOAT", "DOUBLE", "PTR"} => Promoted(ty) = ty
  BY DEF Promoted, Narrow
<1>11. IntType \in CTypes /\ IntType.base \notin Narrow /\ IntType.base # "PTR" /\ ~IntType.unsigned
  BY IntTypeIs DEF Narrow
<1>12. ASSUME m \in Differences, c = Pointer
       PROVE  c \in CTypes /\ IsWide(c) /\ Agree(c, m) /\ c.unsigned = m.unsigned
  <2>1. m.unsigned = FALSE  BY <1>12, DifferencesAre
  <2>2. Agree(c, m)  BY <1>12 DEF Agree, Differences
  <2> HIDE DEF m, c
  <2>3. QED  BY <1>12, <2>1, <2>2, IntTypeIs DEF IsWide
<1>13. CASE Difference(s, sc)
  <2>1. c = Pointer  BY <1>4, <1>13 DEF GetCommonType
  <2>2. sc \in Differences /\ Promoted(sc) = sc  BY <1>13, DifferencesAre DEF Differences
  <2>3. CASE t.base \in Narrow
    <3>1. Promoted(tc) = IntType  BY <1>4, <1>6, <2>3 DEF Narrow
    <3>2. m = Usual(sc, IntType)  BY <1>7, <2>2, <3>1
    <3>3. m \in Differences  BY <1>11, <2>2, <3>2, DifferenceJoins
    <3>4. QED  BY <1>12, <2>1, <3>3
  <2>4. CASE t.base \notin Narrow /\ IsNumber(t, tc)
    <3>1. Promoted(tc) = t  BY <1>8, <2>4
    <3>2. m = Usual(sc, t)  BY <1>7, <2>2, <3>1
    <3>3. t.base # "PTR" /\ ~t.unsigned  BY <1>4, <1>13, <2>4
    <3>4. m \in Differences  BY <2>2, <2>4, <3>2, <3>3, DifferenceJoins
    <3>5. QED  BY <1>12, <2>1, <3>4
  <2>5. CASE Difference(t, tc)
    <3>1. tc \in Differences  BY <2>5 DEF Differences
    <3>2. tc.base \notin Narrow /\ tc.base # "PTR" /\ ~tc.unsigned  BY <3>1, DifferencesAre
    <3>3. m \in Differences  BY <2>2, <3>2, DifferenceJoins
    <3>4. QED  BY <1>12, <2>1, <3>3
  <2>6. QED  BY <1>6, <2>3, <2>4, <2>5
<1>14. CASE IsNumber(s, sc) /\ Difference(t, tc)
  <2>1. c = Pointer  BY <1>4, <1>14 DEF GetCommonType
  <2>2. tc \in Differences /\ Promoted(tc) = tc  BY <1>14, DifferencesAre DEF Differences
  <2>3. CASE s.base \in Narrow
    <3>1. Promoted(sc) = IntType  BY <1>14, <2>3 DEF Narrow
    <3>2. m = Usual(IntType, tc)  BY <1>7, <2>2, <3>1
    <3>3. m \in Differences  BY <1>11, <2>2, <3>2, DifferenceJoins
    <3>4. QED  BY <1>12, <2>1, <3>3
  <2>4. CASE s.base \notin Narrow
    <3>1. Promoted(sc) = s  BY <1>8, <1>14, <2>4
    <3>2. m = Usual(s, tc)  BY <1>7, <2>2, <3>1
    <3>3. s.base # "PTR" /\ ~s.unsigned  BY <1>4, <1>14
    <3>4. m \in Differences  BY <2>2, <2>4, <3>2, <3>3, DifferenceJoins
    <3>5. QED  BY <1>12, <2>1, <3>4
  <2>5. QED  BY <2>3, <2>4
<1>15. CASE IsNumber(s, sc) /\ IsNumber(t, tc)
  <2>1. c = IF GetTypeRank(s) > GetTypeRank(t) THEN s
            ELSE IF GetTypeRank(t) > GetTypeRank(s) THEN t
            ELSE [s EXCEPT !.unsigned = s.unsigned \/ t.unsigned]
    BY <1>15 DEF GetCommonType
  <2>2. /\ s.base \in {"INT", "LONG", "FLOAT", "DOUBLE"} => Promoted(sc) = s
        /\ s.base \in Narrow => Promoted(sc) = IntType
        /\ t.base \in {"INT", "LONG", "FLOAT", "DOUBLE"} => Promoted(tc) = t
        /\ t.base \in Narrow => Promoted(tc) = IntType
    BY <1>8, <1>15 DEF Narrow
  <2>3. \A ty \in CTypes : IsWide(ty) /\ ty.base # "PTR" => ty.base \in {"INT", "LONG", "FLOAT", "DOUBLE"}
    BY DEF IsWide, Wide, Reals
  <2>4. c \in CTypes /\ c.base \in {"INT", "LONG", "FLOAT", "DOUBLE"} /\ c = m
    <3>1. CASE s.base \in Narrow
      <4>1. t.base \in {"INT", "LONG", "FLOAT", "DOUBLE"}
        BY <1>15, <2>3, <3>1 DEF IsWide, Narrow, Wide, Reals
      <4>2. m = Usual(IntType, t)  BY <1>7, <2>2, <3>1, <4>1
      <4>3. c = t  BY <2>1, <3>1, <4>1 DEF GetTypeRank, Narrow
      <4>4. t.base \notin Narrow /\ t.base # "PTR"  BY <4>1 DEF Narrow
      <4>5. m = t  BY <4>2, <4>4, UsualOfInt
      <4>6. QED  BY <4>1, <4>3, <4>5
    <3>2. CASE t.base \in Narrow
      <4>1. s.base \in {"INT", "LONG", "FLOAT", "DOUBLE"}
        BY <1>15, <2>3, <3>2 DEF IsWide, Narrow, Wide, Reals
      <4>2. m = Usual(s, IntType)  BY <1>7, <2>2, <3>2, <4>1
      <4>3. c = s  BY <2>1, <3>2, <4>1 DEF GetTypeRank, Narrow
      <4>4. s.base \notin Narrow /\ s.base # "PTR"  BY <4>1 DEF Narrow
      <4>5. m = s  BY <4>2, <4>4, UsualOfInt
      <4>6. QED  BY <4>1, <4>3, <4>5
    <3>3. CASE s.base \notin Narrow /\ t.base \notin Narrow
      <4>1. /\ s.base \in {"INT", "LONG", "FLOAT", "DOUBLE"}
            /\ t.base \in {"INT", "LONG", "FLOAT", "DOUBLE"}
        BY <1>15, <3>3
      <4>2. m = Usual(s, t)  BY <1>7, <2>2, <4>1
      <4>3. [s EXCEPT !.unsigned = s.unsigned \/ t.unsigned]
              = [base |-> s.base, unsigned |-> s.unsigned \/ t.unsigned]
        BY <1>1
      <4>4. CASE s.base = t.base
        <5>1. c = [base |-> s.base, unsigned |-> s.unsigned \/ t.unsigned]
          BY <2>1, <4>1, <4>3, <4>4 DEF GetTypeRank
        <5>2. m = c
          <6>1. CASE s.base \in Reals
            <7>1. m = Signed(s.base)  BY <3>3, <4>2, <4>4, <6>1, UsualOf DEF IsReal, Reals
            <7>2. s.unsigned = FALSE /\ t.unsigned = FALSE
              BY <1>1, <4>4, <6>1 DEF Reals, UnsignedBases
            <7>3. QED  BY <5>1, <7>1, <7>2 DEF Signed
          <6>2. CASE s.base \notin Reals
            BY <3>3, <4>2, <4>4, <5>1, <6>2, UsualOf DEF IsReal
          <6>3. QED  BY <6>1, <6>2
        <5>3. c \in CTypes
          BY <1>1, <4>1, <4>4, <5>1, IsCType DEF UnsignedBases, CBases
        <5>4. QED  BY <4>1, <5>1, <5>2, <5>3
      <4>5. CASE s.base # t.base
        <5>1. c \in {s, t}  BY <2>1, <4>1, <4>5 DEF GetTypeRank
        <5>2. m = c
          <6>1. CASE IsReal(s) \/ IsReal(t)
            <7>1. m = Signed(IF "DOUBLE" \in {s.base, t.base} THEN "DOUBLE" ELSE "FLOAT")
              BY <3>3, <4>2, <6>1, UsualOf
            <7>2. c.base \in Reals /\ (c.base = "DOUBLE" <=> "DOUBLE" \in {s.base, t.base})
              BY <2>1, <4>1, <4>5, <6>1 DEF GetTypeRank, IsReal, Reals
            <7>3. c = Signed(c.base)  BY <5>1, <7>2, RealIs
            <7>4. QED  BY <7>1, <7>2, <7>3 DEF Reals
          <6>2. CASE ~IsReal(s) /\ ~IsReal(t)
            <7>1. m = IF s.base = "LONG" THEN s ELSE t  BY <3>3, <4>2, <4>5, <6>2, UsualOf
            <7>2. QED  BY <2>1, <4>1, <4>5, <6>2, <7>1 DEF GetTypeRank, IsReal, Reals
          <6>3. QED  BY <6>1, <6>2
        <5>3. QED  BY <4>1, <5>1, <5>2
      <4>6. QED  BY <4>4, <4>5
    <3>4. QED  BY <3>1, <3>2, <3>3
  <2>5. QED  BY <2>4 DEF Agree, IsWide, Wide, Reals
<1>16. QED  BY <1>5, <1>6, <1>13, <1>14, <1>15

-----------------------------------------------------------------------------
(* What an operator makes of operands that fit *)

LEMMA CommonIsType ==
  ASSUME NEW s \in CTypes, NEW t \in CTypes
  PROVE  GetCommonType(s, t) \in CTypes /\ GetCommonType(s, t).base \in {s.base, t.base}
<1>1. /\ s.base \in CBases /\ t.base \in CBases
      /\ s.unsigned \in BOOLEAN /\ t.unsigned \in BOOLEAN
      /\ s.unsigned => s.base \in UnsignedBases
      /\ t.unsigned => t.base \in UnsignedBases
      /\ s = [base |-> s.base, unsigned |-> s.unsigned]
  BY CTypeIs
<1>2. GetCommonType(s, t) \in {s, t}
        \/ (s.base = t.base /\ GetCommonType(s, t) = [base |-> s.base, unsigned |-> s.unsigned \/ t.unsigned])
  <2>1. CASE s.base = "PTR"  BY <2>1 DEF GetCommonType
  <2>2. CASE s.base # "PTR" /\ t.base = "PTR"  BY <2>2 DEF GetCommonType
  <2>3. CASE s.base # "PTR" /\ t.base # "PTR"
    <3>1. [s EXCEPT !.unsigned = s.unsigned \/ t.unsigned]
            = [base |-> s.base, unsigned |-> s.unsigned \/ t.unsigned]
      BY <1>1
    <3>2. GetCommonType(s, t) = IF GetTypeRank(s) > GetTypeRank(t) THEN s
                                ELSE IF GetTypeRank(t) > GetTypeRank(s) THEN t
                                ELSE [s EXCEPT !.unsigned = s.unsigned \/ t.unsigned]
      BY <2>3 DEF GetCommonType
    <3>3. CASE s.base = t.base  BY <3>1, <3>2, <3>3
    <3>4. CASE s.base # t.base
      <4>1. GetTypeRank(s) > GetTypeRank(t) \/ GetTypeRank(t) > GetTypeRank(s)
        BY <1>1, <2>3, <3>4 DEF GetTypeRank, CBases
      <4>2. QED  BY <3>2, <4>1
    <3>5. QED  BY <3>3, <3>4
  <2>4. QED  BY <2>1, <2>2, <2>3
<1>3. s.base = t.base => [base |-> s.base, unsigned |-> s.unsigned \/ t.unsigned] \in CTypes
  BY <1>1, IsCType
<1>4. QED  BY <1>2, <1>3

LEMMA UsualIsType ==
  ASSUME NEW s \in CTypes, NEW t \in CTypes, s.base # "PTR", t.base # "PTR"
  PROVE  /\ Usual(s, t) \in CTypes /\ Usual(s, t).base \notin Narrow \cup {"PTR"}
         /\ IsInt(Usual(s, t)) <=> IsInt(s) /\ IsInt(t)
<1> DEFINE p == Promoted(s)
           q == Promoted(t)
<1>1. /\ p \in CTypes /\ q \in CTypes /\ p.base \notin Narrow /\ q.base \notin Narrow
      /\ p.base # "PTR" /\ q.base # "PTR"
      /\ IsInt(p) <=> IsInt(s)
      /\ IsInt(q) <=> IsInt(t)
  BY PromotedIs
<1>2. Usual(s, t) = Usual(p, q)  BY UsualIs
<1> HIDE DEF p, q
<1>3. QED  BY <1>1, <1>2, Joins

\* An operator whose operands fit compares, shifts, moves or measures pointers,
\* or is arithmetic on numbers.
LEMMA Fitting ==
  ASSUME NEW op \in Operators, NEW s \in CTypes, NEW t \in CTypes, Fits(op, s, t)
  PROVE  \/ /\ op \in Comparisons
            /\ s.base = "PTR" <=> t.base = "PTR"
         \/ op \in Shifts /\ IsInt(s) /\ IsInt(t)
         \/ op = "-" /\ s.base = "PTR" /\ t.base = "PTR"
         \/ op \in {"+", "-"} /\ s.base = "PTR" /\ IsInt(t)
         \/ op = "+" /\ IsInt(s) /\ t.base = "PTR"
         \/ op \in Arithmetic /\ s.base # "PTR" /\ t.base # "PTR"
<1>1. \A ty : IsInt(ty) \/ IsReal(ty) => ty.base # "PTR"
  BY DEF IsInt, IsReal, Narrow, Wide, Reals
<1>2. op \in Comparisons \/ op \in Shifts \/ op \in Arithmetic  BY DEF Operators
<1>3. CASE {s.base, t.base} = {"PTR"} /\ op \in {"-"} \cup Comparisons  BY <1>3
<1>4. CASE s.base = "PTR" /\ IsInt(t) /\ op \in {"+", "-"}  BY <1>4
<1>5. CASE IsInt(s) /\ t.base = "PTR" /\ op = "+"  BY <1>5
<1>6. CASE IsInt(s) /\ IsInt(t)  BY <1>1, <1>2, <1>6
<1>7. CASE "PTR" \notin {s.base, t.base} /\ op \in {"+", "-", "*", "/"} \cup Comparisons
  BY <1>7 DEF Arithmetic
<1>8. QED  BY <1>3, <1>4, <1>5, <1>6, <1>7 DEF Fits

LEMMA OperatorsApart ==
  /\ \A op \in Comparisons : op \notin Shifts /\ op \notin Arithmetic
  /\ \A op \in Shifts : op \notin Arithmetic
BY DEF Comparisons, Shifts, Arithmetic

LEMMA CTypeOf ==
  ASSUME NEW op \in Operators, NEW s \in CTypes, NEW t \in CTypes, Fits(op, s, t)
  PROVE  /\ CType(op, s, t) \in CTypes /\ CType(op, s, t).base \notin Narrow
         /\ op \in Comparisons => CType(op, s, t) = IntType
         /\ op \in Shifts => /\ CType(op, s, t) = Promoted(s)
                             /\ IsInt(s) /\ IsInt(t) /\ IsInt(Promoted(s))
         /\ op \in Arithmetic =>
              /\ s.base = "PTR" /\ t.base = "PTR" => CType(op, s, t) = Signed("LONG")
              /\ s.base = "PTR" /\ t.base # "PTR" => CType(op, s, t) = Pointer
              /\ s.base # "PTR" /\ t.base = "PTR" => CType(op, s, t) = Pointer
              /\ s.base # "PTR" /\ t.base # "PTR" => CType(op, s, t) = Usual(s, t)
         /\ "PTR" \in {s.base, t.base} => op \in {"+", "-"} \cup Comparisons
         /\ op \in Comparisons => (s.base = "PTR" <=> t.base = "PTR")
<1>1. \A ty : IsInt(ty) => ty.base # "PTR"  BY DEF IsInt, Narrow, Wide
<1>2. Signed("LONG") \in CTypes /\ Signed("LONG").base = "LONG" /\ Pointer \in CTypes
      /\ Pointer.base = "PTR" /\ IntType \in CTypes /\ IntType.base = "INT"
  BY SignedIs, IntTypeIs DEF CBases
<1>3. "+" \in Arithmetic /\ "-" \in Arithmetic  BY DEF Arithmetic
<1>4. CASE op \in Comparisons
  BY <1>1, <1>2, <1>4, Fitting, OperatorsApart, <1>3 DEF CType, Narrow
<1>5. CASE op \in Shifts
  <2>1. IsInt(s) /\ IsInt(t) /\ CType(op, s, t) = Promoted(s)
    BY <1>3, <1>5, Fitting, OperatorsApart DEF CType
  <2>2. QED  BY <1>1, <1>5, <2>1, PromotedIs, OperatorsApart
<1>6. CASE op \in Arithmetic
  <2>1. CType(op, s, t) = IF "PTR" \notin {s.base, t.base} THEN Usual(s, t)
                          ELSE IF s.base = t.base THEN Signed("LONG") ELSE Pointer
    BY <1>6, OperatorsApart DEF CType
  <2>2. "PTR" \in {s.base, t.base} => op \in {"+", "-"}
    BY <1>6, Fitting, OperatorsApart
  <2>3. s.base # "PTR" /\ t.base # "PTR" =>
          Usual(s, t) \in CTypes /\ Usual(s, t).base \notin Narrow
    BY UsualIsType
  <2>4. QED  BY <1>2, <1>6, <2>1, <2>2, <2>3, OperatorsApart DEF Narrow
<1>7. QED  BY <1>4, <1>5, <1>6 DEF Operators

\* The width in which an operator on values of type t computes.
WidthOf(t) == IF IsInt(t) THEN Bits[ToLLVM(t)] ELSE 0

LEMMA WidthIsNat ==
  ASSUME NEW t \in CTypes
  PROVE  WidthOf(t) \in 0 .. Most
<1>1. IsInt(t) => Bits[ToLLVM(t)] \in Width  BY LLVMTypeIs
<1>2. QED  BY <1>1, WidthsAreNat DEF WidthOf, Width

LEMMA ExactIs ==
  ASSUME NEW op \in Operators, NEW l, NEW r, Typed(l), Typed(r), Defined(op, l, r)
  PROVE  LET t == CType(op, l.cty, r.cty)
         IN  /\ op \in Shifts =>
                  /\ r.cv \in 0 .. Bits[ToLLVM(t)] - 1 /\ r.cv \in 0 .. Most
                  /\ CExact(op, l, r) = Computed(op, InC(l.cv, t), r.cv, WidthOf(t))
             /\ op \in Arithmetic /\ "PTR" \in {l.cty.base, r.cty.base} =>
                  CExact(op, l, r) = Computed(op, InC(l.cv, Signed("LONG")),
                                              InC(r.cv, Signed("LONG")), Bits["i64"])
             /\ op \in Arithmetic /\ "PTR" \notin {l.cty.base, r.cty.base} =>
                  /\ op \in {"/", "%"} => InC(r.cv, t) # 0
                  /\ CExact(op, l, r) = Computed(op, InC(l.cv, t), InC(r.cv, t), WidthOf(t))
             /\ CExact(op, l, r) \in Int
<1> DEFINE t == CType(op, l.cty, r.cty)
<1>1. Fits(op, l.cty, r.cty) /\ l.cty \in CTypes /\ r.cty \in CTypes /\ l.cv \in Int /\ r.cv \in Int
  BY DEF Defined, Typed
<1>2. Signed("LONG") \in CTypes /\ IsInt(Signed("LONG")) /\ ToLLVM(Signed("LONG")) = "i64"
  BY SignedIs DEF CBases, IsInt, Wide, ToLLVM
<1>3. t \in CTypes  BY <1>1, CTypeOf
<1>4. WidthOf(t) \in 0 .. Most /\ WidthOf(Signed("LONG")) = Bits["i64"] /\ Bits["i64"] \in 0 .. Most
  BY <1>2, <1>3, WidthIsNat DEF WidthOf
<1>5. CASE op \in Comparisons
  <2>1. CExact(op, l, r) \in {0, 1}  BY <1>5, ComparedIsInt DEF CExact
  <2>2. QED  BY <1>5, <2>1, OperatorsApart
<1>6. CASE op \in Shifts
  <2>1. op \notin Comparisons /\ op \notin Arithmetic  BY <1>6, OperatorsApart
  <2>2. t = Promoted(l.cty) /\ IsInt(t)  BY <1>1, <1>6, CTypeOf
  <2>3. r.cv \in 0 .. Bits[ToLLVM(t)] - 1  BY <1>6 DEF Defined
  <2>4. Bits[ToLLVM(t)] \in 0 .. Most  BY <1>4, <2>2 DEF WidthOf
  <2>5. r.cv \in 0 .. Most  BY <2>3, <2>4, WidthsAreNat
  <2>6. CExact(op, l, r) = Computed(op, InC(l.cv, t), r.cv, WidthOf(t))
    BY <1>6, <2>1, <2>2 DEF CExact, WidthOf
  <2>7. InC(l.cv, t) \in Int  BY <1>1, <1>3, InCIs
  <2>8. op \notin {"/", "%"}  BY <1>6 DEF Shifts
  <2>9. Computed(op, InC(l.cv, t), r.cv, WidthOf(t)) \in Int
    BY <1>1, <1>4, <1>6, <2>5, <2>7, <2>8, ComputedIsInt
  <2>10. QED  BY <2>1, <2>3, <2>5, <2>6, <2>9
<1>7. CASE op \in Arithmetic /\ "PTR" \in {l.cty.base, r.cty.base}
  <2>1. op \notin Comparisons /\ op \notin Shifts  BY <1>7, OperatorsApart
  <2>2. CExact(op, l, r) = Computed(op, InC(l.cv, Signed("LONG")), InC(r.cv, Signed("LONG")), Bits["i64"])
    BY <1>2, <1>7, <2>1 DEF CExact
  <2>3. op \in {"+", "-"}
    BY <1>1, <1>7, <2>1, CTypeOf
  <2>4. InC(l.cv, Signed("LONG")) \in Int /\ InC(r.cv, Signed("LONG")) \in Int
    BY <1>1, <1>2, InCIs
  <2>5. CExact(op, l, r) \in Int  BY <2>2, <2>3, <2>4 DEF Computed
  <2>6. QED  BY <1>7, <2>1, <2>2, <2>5
<1>8. CASE op \in Arithmetic /\ "PTR" \notin {l.cty.base, r.cty.base}
  <2>1. op \notin Comparisons /\ op \notin Shifts  BY <1>8, OperatorsApart
  <2>2. t = Usual(l.cty, r.cty)  BY <1>1, <1>8, CTypeOf
  <2>3. op \in {"/", "%"} => InC(r.cv, t) # 0  BY DEF Defined
  <2>4. CExact(op, l, r) = Computed(op, InC(l.cv, t), InC(r.cv, t), WidthOf(t))
    BY <1>8, <2>1, <2>2 DEF CExact, WidthOf
  <2>5. InC(l.cv, t) \in Int /\ InC(r.cv, t) \in Int  BY <1>1, <1>3, InCIs
  <2>6. Computed(op, InC(l.cv, t), InC(r.cv, t), WidthOf(t)) \in Int
    BY <1>4, <1>8, <2>1, <2>3, <2>5, ComputedIsInt
  <2>7. QED  BY <1>8, <2>1, <2>3, <2>4, <2>6
<1>9. QED  BY <1>5, <1>6, <1>7, <1>8 DEF Operators

LEMMA ValueIs ==
  ASSUME NEW op \in Operators, NEW l, NEW r, Typed(l), Typed(r), Defined(op, l, r)
  PROVE  LET t == CType(op, l.cty, r.cty)
         IN  /\ t \in CTypes /\ t.base \notin Narrow
             /\ CValue(op, l, r) \in Int /\ InC(CValue(op, l, r), t) = CValue(op, l, r)
             /\ t.base = "PTR" => /\ CValue(op, l, r) = CExact(op, l, r)
                                  /\ CValue(op, l, r) \in 1 .. Elements + 1
<1> DEFINE t == CType(op, l.cty, r.cty)
<1>1. Fits(op, l.cty, r.cty) /\ l.cty \in CTypes /\ r.cty \in CTypes
  BY DEF Defined, Typed
<1>2. t \in CTypes /\ t.base \notin Narrow  BY <1>1, CTypeOf
<1>3. CExact(op, l, r) \in Int  BY ExactIs
<1>4. CValue(op, l, r) = InC(CExact(op, l, r), t)  BY DEF CValue
<1>5. t.base = "PTR" => ~IsInt(t)  BY DEF IsInt, Narrow, Wide
<1>6. t.base = "PTR" => CExact(op, l, r) \in 1 .. Elements + 1  BY DEF Defined
<1> HIDE DEF t
<1>7. QED  BY <1>2, <1>3, <1>4, <1>5, <1>6, InCIs DEF t

-----------------------------------------------------------------------------
(* Pointers *)

\* Places and the distances between them are numbers of int.
LEMMA PlacesAreSmall ==
  ASSUME NEW n \in Int, -Elements <= n, n <= Elements + 1
  PROVE  /\ n <= Elements => InRange(n, FALSE, Bits["i32"])
         /\ InRange(n, FALSE, Bits["i64"])
         /\ InC(n, Signed("LONG")) = n
<1>1. Elements \in Nat /\ Elements < Power[Bits["i32"] - 1]  BY ValuesAssumption
<1>2. /\ Bits["i32"] \in Width /\ Bits["i64"] \in Width /\ Bits["i32"] < Bits["i64"]
  BY WidthsAreNat, WidthsAssumption DEF LLVMInts
<1>3. /\ Power[Bits["i32"]] = 2 * Power[Bits["i32"] - 1]
      /\ Power[Bits["i32"]] \in Nat \ {0} /\ Power[Bits["i32"] - 1] \in Nat \ {0}
      /\ Power[Bits["i64"] - 1] \in Nat \ {0}
  BY <1>2, HalfPower
<1>4. Power[Bits["i64"] - 1] >= Power[Bits["i32"]]
  <2>1. Bits["i32"] \in 0 .. Most /\ Bits["i64"] - 1 \in Bits["i32"] .. Most
    BY <1>2 DEF Width, Most
  <2>2. PICK k \in Nat \ {0} : Power[Bits["i64"] - 1] = k * Power[Bits["i32"]]
    BY <2>1, PowersDivide
  <2>3. \A m \in Nat : k * m >= m  OBVIOUS
  <2>4. QED  BY <1>3, <2>2, <2>3
<1>5. n <= Elements => InRange(n, FALSE, Bits["i32"])  BY <1>1, <1>3 DEF InRange
<1>6. InRange(n, FALSE, Bits["i64"])  BY <1>1, <1>3, <1>4 DEF InRange
<1>7. /\ Signed("LONG") \in CTypes /\ IsInt(Signed("LONG")) /\ Signed("LONG").base = "LONG"
      /\ Signed("LONG").unsigned = FALSE /\ ToLLVM(Signed("LONG")) = "i64"
  BY SignedIs DEF CBases, IsInt, Wide, ToLLVM
<1>8. InC(n, Signed("LONG")) = n  BY <1>6, <1>7, InCOfRange
<1>9. QED  BY <1>5, <1>6, <1>8

\* A number that is held with its sign is one of long.
LEMMA SignedIsLong ==
  ASSUME NEW x, NEW n, Stands(x, FALSE, n), x.ty \in LLVMInts
  PROVE  InC(n, Signed("LONG")) = n
<1>1. Bits[x.ty] \in Width /\ Bits["i64"] \in Bits[x.ty] .. Most
  BY WidthsAreNat DEF Width, Most, LLVMInts
<1>2. n \in Int /\ InRange(n, FALSE, Bits[x.ty])  BY DEF Stands
<1>3. InRange(n, FALSE, Bits["i64"])  BY <1>1, <1>2, WiderRange
<1>4. /\ Signed("LONG") \in CTypes /\ IsInt(Signed("LONG")) /\ Signed("LONG").base = "LONG"
      /\ Signed("LONG").unsigned = FALSE /\ ToLLVM(Signed("LONG")) = "i64"
  BY SignedIs DEF CBases, IsInt, Wide, ToLLVM
<1>5. QED  BY <1>2, <1>3, <1>4, InCOfRange

LEMMA NegatedStands ==
  ASSUME NEW x, NEW n, Stands(x, FALSE, n), x.ty \in {"i32", "i64"},
         -Elements <= n, n <= Elements
  PROVE  Stands(Negated(x), FALSE, -n)
<1>1. x.ty \in LLVMInts /\ x.ty \in LLVMTypes  BY DEF LLVMInts, LLVMTypes
<1>2. Bits[x.ty] \in Width  BY <1>1, WidthsAreNat
<1>3. Power[Bits[x.ty]] \in Nat \ {0}  BY <1>2, HalfPower
<1>4. n \in Int /\ x.v = n % Power[Bits[x.ty]]  BY <1>1 DEF Stands
<1>5. \A m \in Nat \ {0}, k \in Int : k % m \in Int /\ (k % m) % m = k % m  OBVIOUS
<1>6. x.v \in Int /\ x.v % Power[Bits[x.ty]] = n % Power[Bits[x.ty]]  BY <1>3, <1>4, <1>5
<1>7. (0 - x.v) % Power[Bits[x.ty]] = (0 - n) % Power[Bits[x.ty]]
  <2>1. ASSUME NEW m \in Nat \ {0}, NEW a \in Int, NEW b \in Int, a % m = b % m
        PROVE  (0 - a) % m = (0 - b) % m
    <3>1. PICK k \in Int : a = b + k * m  BY <2>1, SameRest DEF Same
    <3>2. 0 - a = (0 - b) + (-k) * m /\ -k \in Int /\ 0 - a \in Int /\ 0 - b \in Int  BY <3>1
    <3>3. Same(0 - a, 0 - b, m)  BY <3>2 DEF Same
    <3>4. QED  BY <3>2, <3>3, SameRest
  <2>2. QED  BY <1>3, <1>4, <1>6, <2>1
<1>8. (-x.v) % Power[Bits[x.ty]] = (-n) % Power[Bits[x.ty]]
  <2>1. -x.v = 0 - x.v /\ -n = 0 - n  BY <1>4, <1>6
  <2>2. QED  BY <1>7, <2>1
<1>9. InRange(-n, FALSE, Bits[x.ty])
  <2>1. Elements \in Nat  BY ValuesAssumption
  <2>2. -n \in Int /\ -Elements <= -n /\ -n <= Elements /\ -n <= Elements + 1  BY <1>4, <2>1
  <2>3. QED  BY <2>2, PlacesAreSmall
<1>10. -x.v \in Int /\ -n \in Int  BY <1>4, <1>6
<1>11. QED  BY <1>1, <1>8, <1>9, <1>10, ValueStands DEF Negated

LEMMA GepStands ==
  ASSUME NEW p, NEW n, Stands(p, FALSE, n), p.ty = "ptr",
         NEW x, NEW i, Stands(x, FALSE, i), x.ty \in LLVMInts
  PROVE  Gep(p, x).ty = "ptr" /\ Stands(Gep(p, x), FALSE, n + i)
<1>1. "ptr" \in LLVMTypes /\ "ptr" \notin LLVMInts  BY DEF LLVMTypes, LLVMInts
<1>2. n \in Int /\ i \in Int /\ p.v = n  BY <1>1 DEF Stands
<1>3. Read(x, FALSE) = i  BY ReadIs
<1>4. Gep(p, x) = Value("ptr", n + i)  BY <1>2, <1>3 DEF Gep
<1>5. n + i \in Int  BY <1>2
<1>6. QED  BY <1>1, <1>4, <1>5, ValueStands

LEMMA PointerStands ==
  ASSUME NEW op \in Operators, NEW l, NEW r, Typed(l), Typed(r), Held(l), Held(r),
         Defined(op, l, r), PointerOp(op, l, r), ~IsRefused(op, l, r),
         Index(l, r).ty.base # "PTR" => IsWide(Index(l, r).ty) /\ ~Index(l, r).ty.unsigned
  PROVE  LET t == CType(op, l.cty, r.cty)
             v == PointerValue(op, l, r)
         IN  /\ t \in {Pointer, Signed("LONG")}
             /\ v.ty = ToLLVM(t) /\ Stands(v, t.unsigned, CValue(op, l, r))
<1> DEFINE t == CType(op, l.cty, r.cty)
           v == PointerValue(op, l, r)
<1>1. /\ l.cty \in CTypes /\ r.cty \in CTypes /\ l.ty \in CTypes /\ r.ty \in CTypes
      /\ l.cv \in Int /\ r.cv \in Int
      /\ Fits(op, l.cty, r.cty)
  BY DEF Typed, Defined
<1>2. op \in {"+", "-"} /\ op \in Arithmetic /\ op \notin Comparisons /\ op \notin Shifts
  BY DEF PointerOp, Arithmetic, Comparisons, Shifts
<1>3. /\ l.cty.base = "PTR" <=> l.val.ty = "ptr"
      /\ l.cty.base = "PTR" => l.ty = Pointer /\ l.cty = Pointer
      /\ IsInt(l.cty) <=> l.val.ty \in LLVMInts
      /\ r.cty.base = "PTR" <=> r.val.ty = "ptr"
      /\ r.cty.base = "PTR" => r.ty = Pointer /\ r.cty = Pointer
      /\ IsInt(r.cty) <=> r.val.ty \in LLVMInts
  BY HeldKinds
<1>4. /\ Address(l, r).val.ty = "ptr"
      /\ op = "-" /\ r.ty.base = "PTR" => r.val.ty = "ptr"
      /\ Index(l, r).ty.base # "PTR" => Index(l, r).val.ty \in LLVMInts
  BY DEF IsRefused
<1>5. "ptr" \notin LLVMInts /\ "i64" \in LLVMInts /\ "i64" \in LLVMTypes
  BY DEF LLVMInts, LLVMTypes
<1>6. Pointer.base = "PTR" /\ Pointer.unsigned = FALSE /\ ToLLVM(Pointer) = "ptr" /\ Pointer \in CTypes
  BY IntTypeIs DEF ToLLVM
<1>7. /\ Signed("LONG").base = "LONG" /\ Signed("LONG").unsigned = FALSE
      /\ ToLLVM(Signed("LONG")) = "i64" /\ Signed("LONG") \in CTypes /\ IsInt(Signed("LONG"))
  BY SignedIs DEF CBases, ToLLVM, IsInt, Wide
<1>8. /\ Stands(l.val, l.ty.unsigned, l.cv) /\ Stands(r.val, r.ty.unsigned, r.cv)
  BY DEF Held
<1>9. Elements \in Nat  BY ValuesAssumption
<1>10. /\ CValue(op, l, r) = InC(CExact(op, l, r), t) /\ CExact(op, l, r) \in Int
       /\ t.base = "PTR" => /\ CValue(op, l, r) = CExact(op, l, r)
                            /\ CExact(op, l, r) \in 1 .. Elements + 1
  BY ExactIs, ValueIs DEF CValue
<1>11. "PTR" \in {l.cty.base, r.cty.base} =>
         CExact(op, l, r) = Computed(op, InC(l.cv, Signed("LONG")),
                                     InC(r.cv, Signed("LONG")), Bits["i64"])
  BY <1>2, ExactIs
<1>12. ASSUME NEW e, e \in {l, r}, e.cty.base = "PTR"
       PROVE  /\ e.val.ty = "ptr" /\ Stands(e.val, FALSE, e.cv) /\ e.val.v = e.cv
              /\ InC(e.cv, Signed("LONG")) = e.cv /\ e.cv \in 1 .. Elements + 1
  <2>1. e.cv \in 1 .. Elements + 1  BY <1>12 DEF Typed
  <2>2. InC(e.cv, Signed("LONG")) = e.cv
    <3>1. e.cv \in Int /\ -Elements <= e.cv /\ e.cv <= Elements + 1  BY <1>9, <2>1
    <3>2. QED  BY <3>1, PlacesAreSmall
  <2>3. e.val.ty = "ptr" /\ e.ty.unsigned = FALSE  BY <1>3, <1>6, <1>12
  <2>4. Stands(e.val, FALSE, e.cv)  BY <1>8, <1>12, <2>3
  <2>5. QED  BY <1>5, <2>1, <2>2, <2>3, <2>4 DEF Stands
<1>13. ASSUME NEW e, e \in {l, r}, IsInt(e.cty), e.ty.base # "PTR" => ~e.ty.unsigned
       PROVE  e.val.ty \in LLVMInts /\ Stands(e.val, FALSE, e.cv) /\ InC(e.cv, Signed("LONG")) = e.cv
  <2>1. e.ty.unsigned = FALSE
    <3>1. CASE e.ty.base = "PTR"  BY <1>1, <1>13, <3>1, CTypeIs DEF UnsignedBases
    <3>2. CASE e.ty.base # "PTR"  BY <1>1, <1>13, <3>2, CTypeIs
    <3>3. QED  BY <3>1, <3>2
  <2>2. e.val.ty \in LLVMInts /\ Stands(e.val, FALSE, e.cv)  BY <1>3, <1>8, <1>13, <2>1
  <2>3. QED  BY <2>2, SignedIsLong
<1>14. CASE l.cty.base = "PTR" /\ r.cty.base = "PTR"
  <2>1. t = Signed("LONG") /\ op = "-"
    <3>1. t = Signed("LONG")  BY <1>1, <1>2, <1>14, CTypeOf
    <3>2. op = "-"  BY <1>1, <1>2, <1>14, Fitting DEF IsInt, Narrow, Wide
    <3>3. QED  BY <3>1, <3>2
  <2>2. v = Value("i64", l.cv - r.cv)  BY <1>3, <1>6, <1>12, <1>14, <2>1 DEF PointerValue
  <2>3. CExact(op, l, r) = l.cv - r.cv  BY <1>11, <1>12, <1>14, <2>1 DEF Computed
  <2>4. l.cv \in 1 .. Elements + 1 /\ r.cv \in 1 .. Elements + 1  BY <1>12, <1>14
  <2>5. l.cv - r.cv \in Int /\ -Elements <= l.cv - r.cv /\ l.cv - r.cv <= Elements + 1
    BY <1>9, <2>4
  <2>6. InRange(l.cv - r.cv, FALSE, Bits["i64"]) /\ CValue(op, l, r) = l.cv - r.cv
    BY <1>10, <2>1, <2>3, <2>5, PlacesAreSmall
  <2>7. Stands(Value("i64", l.cv - r.cv), FALSE, l.cv - r.cv) /\ Value("i64", l.cv - r.cv).ty = "i64"
    BY <1>5, <2>5, <2>6, ValueStands
  <2>8. v.ty = "i64" /\ Stands(v, FALSE, CValue(op, l, r))  BY <2>2, <2>6, <2>7
  <2>9. QED  BY <1>7, <2>1, <2>8
<1>15. CASE l.cty.base = "PTR" /\ r.cty.base # "PTR"
  <2>1. t = Pointer /\ IsInt(r.cty)
    <3>1. t = Pointer  BY <1>1, <1>2, <1>15, CTypeOf
    <3>2. IsInt(r.cty)  BY <1>1, <1>2, <1>15, Fitting DEF IsInt, Narrow, Wide
    <3>3. QED  BY <3>1, <3>2
  <2>2. l.ty.base = "PTR" /\ Index(l, r) = r /\ Address(l, r) = l
    BY <1>3, <1>6, <1>15 DEF Index, Address
  <2>3. /\ l.val.ty = "ptr" /\ Stands(l.val, FALSE, l.cv)
        /\ InC(l.cv, Signed("LONG")) = l.cv /\ l.cv \in 1 .. Elements + 1
    BY <1>12, <1>15
  <2>4. r.val.ty \in LLVMInts /\ Stands(r.val, FALSE, r.cv) /\ InC(r.cv, Signed("LONG")) = r.cv
    BY <1>13, <2>1, <2>2
  <2>5. CASE op = "+"
    <3>1. v = Gep(l.val, r.val)  BY <2>2, <2>5 DEF PointerValue
    <3>2. CExact(op, l, r) = l.cv + r.cv  BY <1>11, <1>15, <2>3, <2>4, <2>5 DEF Computed
    <3>3. v.ty = "ptr" /\ Stands(v, FALSE, l.cv + r.cv)
      <4>1. /\ Gep(l.val, r.val).ty = "ptr"
            /\ Stands(Gep(l.val, r.val), FALSE, l.cv + r.cv)
        BY <2>3, <2>4, GepStands
      <4>2. QED  BY <3>1, <4>1
    <3>4. QED  BY <1>6, <1>10, <2>1, <3>2, <3>3
  <2>6. CASE op = "-"
    <3>1. r.ty.base # "PTR"  BY <1>4, <1>5, <2>4, <2>6
    <3>2. v = Gep(l.val, Negated(r.val))  BY <2>6, <3>1 DEF PointerValue
    <3>3. CExact(op, l, r) = l.cv - r.cv
      BY <1>11, <1>15, <2>3, <2>4, <2>6 DEF Computed
    <3>4. l.cv - r.cv \in 1 .. Elements + 1  BY <1>6, <1>10, <2>1, <3>3
    <3>5. -Elements <= r.cv /\ r.cv <= Elements  BY <1>1, <1>9, <2>3, <3>4
    <3>6. r.val.ty \in {"i32", "i64"}
      <4>1. IsWide(r.ty) /\ r.val.ty = ToLLVM(r.cty) /\ r.cty.base \notin Narrow
        BY <2>2, <3>1, HeldKinds
      <4>2. QED  BY <2>1, <4>1 DEF IsInt, Wide, ToLLVM, Narrow
    <3>7. Stands(Negated(r.val), FALSE, -r.cv) /\ Negated(r.val).ty = r.val.ty
      BY <2>4, <3>5, <3>6, NegatedStands DEF Negated, Value
    <3>8. v.ty = "ptr" /\ Stands(v, FALSE, l.cv + (-r.cv))
      BY <2>3, <2>4, <3>2, <3>7, GepStands
    <3>9. l.cv + (-r.cv) = l.cv - r.cv  BY <1>1
    <3>10. QED  BY <1>6, <1>10, <2>1, <3>3, <3>8, <3>9
  <2>7. QED  BY <1>2, <2>5, <2>6
<1>16. CASE l.cty.base # "PTR" /\ r.cty.base = "PTR"
  <2>1. t = Pointer /\ IsInt(l.cty) /\ op = "+"
    <3>1. t = Pointer  BY <1>1, <1>2, <1>16, CTypeOf
    <3>2. IsInt(l.cty) /\ op = "+"  BY <1>1, <1>2, <1>16, Fitting DEF IsInt, Narrow, Wide
    <3>3. QED  BY <3>1, <3>2
  <2>2. l.ty.base # "PTR"
    BY <1>3, <1>4, <1>16 DEF Address
  <2>3. Index(l, r) = l /\ Address(l, r) = r  BY <2>2 DEF Index, Address
  <2>4. /\ r.val.ty = "ptr" /\ Stands(r.val, FALSE, r.cv)
        /\ InC(r.cv, Signed("LONG")) = r.cv
    BY <1>12, <1>16
  <2>5. l.val.ty \in LLVMInts /\ Stands(l.val, FALSE, l.cv) /\ InC(l.cv, Signed("LONG")) = l.cv
    BY <1>13, <2>1, <2>3
  <2>6. v = Gep(r.val, l.val)  BY <2>1, <2>3 DEF PointerValue
  <2>7. CExact(op, l, r) = l.cv + r.cv  BY <1>11, <1>16, <2>1, <2>4, <2>5 DEF Computed
  <2>8. v.ty = "ptr" /\ Stands(v, FALSE, r.cv + l.cv)
    <3>1. /\ Gep(r.val, l.val).ty = "ptr"
          /\ Stands(Gep(r.val, l.val), FALSE, r.cv + l.cv)
      BY <2>4, <2>5, GepStands
    <3>2. QED  BY <2>6, <3>1
  <2>9. r.cv + l.cv = l.cv + r.cv  BY <1>1
  <2>10. QED  BY <1>6, <1>10, <2>1, <2>7, <2>8, <2>9
<1>17. CASE l.cty.base # "PTR" /\ r.cty.base # "PTR"
  BY <1>3, <1>4, <1>17 DEF Address
<1>18. QED  BY <1>14, <1>15, <1>16, <1>17

-----------------------------------------------------------------------------
(* Numbers *)

\* What is read of an operand that is in the LLVM type of t.
LEMMA ReadInType ==
  ASSUME NEW x, NEW s \in BOOLEAN, NEW n, Stands(x, s, n), NEW t \in CTypes,
         x.ty = ToLLVM(t), t.base \notin Narrow, NEW u \in BOOLEAN
  PROVE  /\ Read(x, u) \in Int /\ InC(n, t) \in Int
         /\ u = t.unsigned => Read(x, u) = InC(n, t)
         /\ IsInt(t) => Read(x, u) % Power[Bits[ToLLVM(t)]] = InC(n, t) % Power[Bits[ToLLVM(t)]]
         /\ ~IsInt(t) => Read(x, u) = InC(n, t)
<1>1. n \in Int  BY DEF Stands
<1>2. InC(n, t) \in Int  BY <1>1, InCIs
<1>3. t.base # "BOOL"  BY DEF Narrow
<1>4. CASE IsInt(t)
  <2>1. x.ty \in LLVMInts  BY <1>4, LLVMTypeIs
  <2>2. /\ Read(x, u) \in Int /\ Read(x, u) = Wrap(n, u, Bits[x.ty])
        /\ Read(x, u) % Power[Bits[x.ty]] = n % Power[Bits[x.ty]]
    BY <2>1, ReadsAs
  <2>3. /\ InC(n, t) = Wrap(n, t.unsigned, Bits[ToLLVM(t)])
        /\ InC(n, t) % Power[Bits[ToLLVM(t)]] = n % Power[Bits[ToLLVM(t)]]
    BY <1>1, <1>3, <1>4, InCIs
  <2>4. QED  BY <1>2, <1>4, <2>2, <2>3
<1>5. CASE ~IsInt(t)
  <2>1. x.ty \notin LLVMInts  BY <1>5, LLVMTypeIs
  <2>2. Read(x, u) = n  BY <2>1, ReadsAs
  <2>3. InC(n, t) = n  BY <1>1, <1>5, InCIs
  <2>4. QED  BY <1>1, <1>5, <2>2, <2>3
<1>6. QED  BY <1>4, <1>5

LEMMA RealNode ==
  ASSUME NEW e, Typed(e), Held(e), e.val.ty \notin LLVMInts
  PROVE  e.ty.base \in Reals \cup {"PTR"}
<1>1. e.val.ty \in LLVMReals \cup {"ptr"}  BY DEF Held, Stands, LLVMTypes
<1>2. IsReal(e.cty) \/ e.cty.base = "PTR"  BY <1>1, HeldKinds
<1>3. e.cty = e.ty \/ e.ty = Pointer
  BY <1>2, IntTypeIs DEF Held, Agree, IsReal, Reals
<1>4. QED  BY <1>2, <1>3, IntTypeIs DEF IsReal

LEMMA NumbersMeet ==
  ASSUME NEW l, NEW r, Typed(l), Typed(r), Held(l), Held(r),
         IsWide(l.ty) \/ IsWide(r.ty), l.cty.base # "PTR", r.cty.base # "PTR",
         l.ty.base \in Reals \cup {"PTR"} => ~r.ty.unsigned,
         r.ty.base \in Reals \cup {"PTR"} => ~l.ty.unsigned
  PROVE  LET t == Usual(l.cty, r.cty)
             x == MatchTypes(l.val, l.ty, r.val.ty)
             y == MatchTypes(r.val, r.ty, l.val.ty)
         IN  /\ t \in CTypes /\ t.base \notin Narrow \cup {"PTR"}
             /\ x.ty = ToLLVM(t) /\ y.ty = ToLLVM(t)
             /\ Stands(x, l.ty.unsigned, l.cv) /\ Stands(y, r.ty.unsigned, r.cv)
<1> DEFINE t == Usual(l.cty, r.cty)
           x == MatchTypes(l.val, l.ty, r.val.ty)
           y == MatchTypes(r.val, r.ty, l.val.ty)
<1>1. /\ Stands(l.val, l.ty.unsigned, l.cv) /\ Stands(r.val, r.ty.unsigned, r.cv)
      /\ l.val.ty \in LLVMTypes /\ r.val.ty \in LLVMTypes
  BY DEF Held, Stands
<1>2. l.ty.unsigned \in BOOLEAN /\ r.ty.unsigned \in BOOLEAN  BY CTypeIs DEF Typed
<1>3. r.val.ty \notin LLVMInts => ~l.ty.unsigned  BY RealNode
<1>4. l.val.ty \notin LLVMInts => ~r.ty.unsigned  BY RealNode
<1>5. Stands(x, l.ty.unsigned, l.cv) /\ x.ty = Met(l.val.ty, r.val.ty)
  BY <1>1, <1>2, <1>3, Matched
<1>6. Stands(y, r.ty.unsigned, r.cv) /\ y.ty = Met(r.val.ty, l.val.ty)
  BY <1>1, <1>2, <1>4, Matched
<1>7. /\ t \in CTypes /\ t.base \notin Narrow \cup {"PTR"}
      /\ Met(l.val.ty, r.val.ty) = ToLLVM(t)
      /\ Met(r.val.ty, l.val.ty) = ToLLVM(t)
  BY OperandsMeet
<1>8. QED  BY <1>5, <1>6, <1>7

\* A result that is right up to multiples of the power stands for C's value.
LEMMA ResultStands ==
  ASSUME NEW t \in CTypes, t.base \notin Narrow, NEW n \in Int, NEW c \in Int,
         IsInt(t) => n % Power[Bits[ToLLVM(t)]] = c % Power[Bits[ToLLVM(t)]],
         ~IsInt(t) => n = c
  PROVE  /\ Value(ToLLVM(t), n).ty = ToLLVM(t)
         /\ Stands(Value(ToLLVM(t), n), t.unsigned, InC(c, t))
<1>1. /\ ToLLVM(t) \in LLVMTypes /\ t.unsigned \in BOOLEAN
      /\ ToLLVM(t) \in LLVMInts <=> IsInt(t)
  BY LLVMTypeIs, CTypeIs
<1>2. t.base # "BOOL"  BY DEF Narrow
<1>3. /\ InC(c, t) \in Int
      /\ IsInt(t) => /\ InRange(InC(c, t), t.unsigned, Bits[ToLLVM(t)])
                     /\ InC(c, t) % Power[Bits[ToLLVM(t)]] = c % Power[Bits[ToLLVM(t)]]
      /\ ~IsInt(t) => InC(c, t) = c
  BY <1>2, InCIs
<1>4. QED  BY <1>1, <1>3, ValueStands

\* The operators that find the lowest bits of the result in those of the
\* operands: with any sign.
Unsigned == {"+", "-", "*", "&", "<<"}

LEMMA ArithmeticStands ==
  ASSUME NEW op \in Arithmetic, NEW l, NEW r, Typed(l), Typed(r), Held(l), Held(r),
         Defined(op, l, r), IsWide(l.ty) \/ IsWide(r.ty),
         l.cty.base # "PTR", r.cty.base # "PTR",
         l.ty.base \in Reals \cup {"PTR"} => ~r.ty.unsigned,
         r.ty.base \in Reals \cup {"PTR"} => ~l.ty.unsigned,
         NEW ty, ty.unsigned \in BOOLEAN,
         LET t == CType(op, l.cty, r.cty)
         IN  ty.unsigned = t.unsigned \/ op \in Unsigned \/ ~IsInt(t)
  PROVE  LET t == CType(op, l.cty, r.cty)
             v == NumberValue(op, ty, l, r)
         IN  v.ty = ToLLVM(t) /\ Stands(v, t.unsigned, CValue(op, l, r))
<1> DEFINE t == CType(op, l.cty, r.cty)
           v == NumberValue(op, ty, l, r)
           x == MatchTypes(l.val, l.ty, r.val.ty)
           y == MatchTypes(r.val, r.ty, l.val.ty)
           u == ty.unsigned
           w == WidthOf(t)
           a == InC(l.cv, t)
           b == InC(r.cv, t)
<1>1. /\ op \in Operators /\ op \notin Comparisons /\ op \notin Shifts
  BY OperatorsApart DEF Operators
<1>2. Fits(op, l.cty, r.cty) /\ l.cty \in CTypes /\ r.cty \in CTypes  BY DEF Defined, Typed
<1>3. t = Usual(l.cty, r.cty)  BY <1>1, <1>2, CTypeOf
<1>4. /\ t \in CTypes /\ t.base \notin Narrow \cup {"PTR"}
      /\ x.ty = ToLLVM(t) /\ y.ty = ToLLVM(t)
      /\ Stands(x, l.ty.unsigned, l.cv) /\ Stands(y, r.ty.unsigned, r.cv)
  BY <1>3, NumbersMeet
<1>5. l.ty.unsigned \in BOOLEAN /\ r.ty.unsigned \in BOOLEAN  BY CTypeIs DEF Typed
<1>6. v = Value(x.ty, Computed(op, Read(x, u), Read(y, u), IF x.ty \in LLVMInts THEN Bits[x.ty] ELSE 0))
  <2>1. IsUnsignedOp(op, ty, l, r) = u  BY <1>1 DEF IsUnsignedOp
  <2>2. (u \/ op \in Shifts) = u  BY <1>1
  <2>3. QED  BY <1>1, <2>1, <2>2 DEF NumberValue
<1>7. (IF x.ty \in LLVMInts THEN Bits[x.ty] ELSE 0) = w  BY <1>4, LLVMTypeIs DEF WidthOf
<1>8. /\ CExact(op, l, r) = Computed(op, a, b, w) /\ CExact(op, l, r) \in Int
      /\ op \in {"/", "%"} => b # 0
  BY <1>1, ExactIs
<1>9. CValue(op, l, r) = InC(CExact(op, l, r), t)  BY DEF CValue
<1> HIDE DEF t, v, x, y, u, w, a, b
<1>10. /\ Read(x, u) \in Int /\ a \in Int
       /\ u = t.unsigned => Read(x, u) = a
       /\ IsInt(t) => Read(x, u) % Power[Bits[ToLLVM(t)]] = a % Power[Bits[ToLLVM(t)]]
       /\ ~IsInt(t) => Read(x, u) = a
  BY <1>4, <1>5, ReadInType DEF a, u
<1>11. /\ Read(y, u) \in Int /\ b \in Int
       /\ u = t.unsigned => Read(y, u) = b
       /\ IsInt(t) => Read(y, u) % Power[Bits[ToLLVM(t)]] = b % Power[Bits[ToLLVM(t)]]
       /\ ~IsInt(t) => Read(y, u) = b
  BY <1>4, <1>5, ReadInType DEF b, u
<1>12. v = Value(ToLLVM(t), Computed(op, Read(x, u), Read(y, u), w))  BY <1>4, <1>6, <1>7
<1>13. CASE u = t.unsigned \/ ~IsInt(t)
  <2>1. v = Value(ToLLVM(t), CExact(op, l, r))  BY <1>8, <1>10, <1>11, <1>12, <1>13
  <2>2. v.ty = ToLLVM(t) /\ Stands(v, t.unsigned, InC(CExact(op, l, r), t))
    BY <1>4, <1>8, <2>1, ResultStands
  <2>3. QED  BY <1>9, <2>2 DEF t, v
<1>14. CASE IsInt(t) /\ op \in Unsigned
  <2>1. op \in {"+", "-", "*", "&"}  BY <1>1, <1>14 DEF Unsigned, Shifts
  <2>2. w = Bits[ToLLVM(t)] /\ w \in Width  BY <1>4, <1>14, LLVMTypeIs DEF w, WidthOf
  <2>3. Computed(op, Read(x, u), Read(y, u), w) % Power[w] = CExact(op, l, r) % Power[w]
    BY <1>8, <1>10, <1>11, <1>14, <2>1, <2>2, ComputedOfSame
  <2>4. Computed(op, Read(x, u), Read(y, u), w) \in Int
    <3>1. w \in 0 .. Most  BY <2>2, HalfPower
    <3>2. op \notin {"/", "%"}  BY <2>1
    <3>3. QED  BY <1>1, <1>10, <1>11, <3>1, <3>2, ComputedIsInt DEF Operators
  <2>5. v.ty = ToLLVM(t) /\ Stands(v, t.unsigned, InC(CExact(op, l, r), t))
    BY <1>4, <1>8, <1>12, <1>14, <2>2, <2>3, <2>4, ResultStands
  <2>6. QED  BY <1>9, <2>5 DEF t, v
<1>15. QED  BY <1>13, <1>14 DEF t, u

LEMMA ShiftStands ==
  ASSUME NEW op \in Shifts, NEW l, NEW r, Typed(l), Typed(r), Held(l), Held(r),
         Defined(op, l, r), IsWide(l.ty), Bits[r.val.ty] <= Bits[l.val.ty],
         NEW ty, ty.unsigned \in BOOLEAN,
         ty.unsigned = CType(op, l.cty, r.cty).unsigned \/ op \in Unsigned
  PROVE  LET t == CType(op, l.cty, r.cty)
             v == NumberValue(op, ty, l, r)
         IN  v.ty = ToLLVM(t) /\ Stands(v, t.unsigned, CValue(op, l, r))
<1> DEFINE t == CType(op, l.cty, r.cty)
           v == NumberValue(op, ty, l, r)
           x == MatchTypes(l.val, l.ty, r.val.ty)
           y == MatchTypes(r.val, r.ty, l.val.ty)
           u == ty.unsigned
           w == WidthOf(t)
           a == InC(l.cv, t)
<1>1. op \in Operators /\ op \notin Comparisons  BY OperatorsApart DEF Operators
<1>2. Fits(op, l.cty, r.cty) /\ l.cty \in CTypes /\ r.cty \in CTypes  BY DEF Defined, Typed
<1>3. /\ t = l.cty /\ t \in CTypes /\ t.base \notin Narrow /\ IsInt(t) /\ IsInt(r.cty)
      /\ l.val.ty = ToLLVM(t) /\ l.val.ty \in LLVMInts /\ r.val.ty \in LLVMInts
  <2>1. t = Promoted(l.cty) /\ IsInt(l.cty) /\ IsInt(r.cty) /\ t \in CTypes /\ t.base \notin Narrow
    BY <1>1, <1>2, CTypeOf
  <2>2. Promoted(l.cty) = l.cty /\ l.val.ty = ToLLVM(l.cty)  BY HeldKinds
  <2>3. l.val.ty \in LLVMInts /\ r.val.ty \in LLVMInts  BY <2>1, HeldKinds
  <2>4. QED  BY <2>1, <2>2, <2>3
<1>4. l.ty.unsigned \in BOOLEAN /\ r.ty.unsigned \in BOOLEAN  BY CTypeIs DEF Typed
<1>5. /\ Stands(l.val, l.ty.unsigned, l.cv) /\ Stands(r.val, r.ty.unsigned, r.cv)
      /\ l.val.ty \in LLVMTypes /\ r.val.ty \in LLVMTypes
  BY DEF Held, Stands
<1>6. Stands(x, l.ty.unsigned, l.cv) /\ x.ty = Met(l.val.ty, r.val.ty)
  BY <1>3, <1>4, <1>5, Matched
<1>7. Stands(y, r.ty.unsigned, r.cv) /\ y.ty = Met(r.val.ty, l.val.ty)
  BY <1>3, <1>4, <1>5, Matched
<1>8. Bits[l.val.ty] \in Width /\ Bits[r.val.ty] \in Width /\ Bits[l.val.ty] \in Nat /\ Bits[r.val.ty] \in Nat
  BY <1>3, WidthsAreNat DEF Width
<1>9. x.ty = ToLLVM(t)  BY <1>3, <1>6, <1>8 DEF Met
<1>10. y.ty \in LLVMInts /\ Bits[y.ty] = Bits[ToLLVM(t)]  BY <1>3, <1>7, <1>8 DEF Met
<1>11. v = Value(x.ty, Computed(op, Read(x, u), Read(y, TRUE), IF x.ty \in LLVMInts THEN Bits[x.ty] ELSE 0))
  <2>1. IsUnsignedOp(op, ty, l, r) = u  BY <1>1 DEF IsUnsignedOp
  <2>2. (u \/ op \in Shifts) = TRUE  OBVIOUS
  <2>3. QED  BY <1>1, <2>1, <2>2 DEF NumberValue
<1>12. (IF x.ty \in LLVMInts THEN Bits[x.ty] ELSE 0) = w /\ w = Bits[ToLLVM(t)] /\ w \in Width
  BY <1>3, <1>8, <1>9 DEF WidthOf
<1>13. /\ r.cv \in 0 .. Bits[ToLLVM(t)] - 1 /\ r.cv \in 0 .. Most
       /\ CExact(op, l, r) = Computed(op, a, r.cv, w) /\ CExact(op, l, r) \in Int
  BY <1>1, ExactIs
<1>14. CValue(op, l, r) = InC(CExact(op, l, r), t)  BY DEF CValue
<1> HIDE DEF t, v, x, y, u, w, a
<1>15. Read(y, TRUE) = r.cv
  <2>1. Read(y, TRUE) = Wrap(r.cv, TRUE, Bits[y.ty])  BY <1>4, <1>7, <1>10, ReadsAs
  <2>2. w \in 0 .. Most /\ w < Power[w] /\ Power[w] \in Nat
    BY <1>12, HalfPower, PowersAreLarge
  <2>3. r.cv \in Int /\ InRange(r.cv, TRUE, w)  BY <1>12, <1>13, <2>2 DEF InRange
  <2>4. Wrap(r.cv, TRUE, w) = r.cv  BY <1>12, <2>3, WrapIs
  <2>5. QED  BY <1>10, <1>12, <2>1, <2>4
<1>16. /\ Read(x, u) \in Int /\ a \in Int
       /\ u = t.unsigned => Read(x, u) = a
       /\ Read(x, u) % Power[Bits[ToLLVM(t)]] = a % Power[Bits[ToLLVM(t)]]
  BY <1>3, <1>4, <1>6, <1>9, ReadInType DEF a, u
<1>17. v = Value(ToLLVM(t), Computed(op, Read(x, u), r.cv, w))  BY <1>9, <1>11, <1>12, <1>15
<1>18. CASE u = t.unsigned
  <2>1. v = Value(ToLLVM(t), CExact(op, l, r))  BY <1>13, <1>16, <1>17, <1>18
  <2>2. v.ty = ToLLVM(t) /\ Stands(v, t.unsigned, InC(CExact(op, l, r), t))
    BY <1>3, <1>13, <2>1, ResultStands
  <2>3. QED  BY <1>14, <2>2 DEF t, v
<1>19. CASE op = "<<"
  <2>1. Computed(op, Read(x, u), r.cv, w) % Power[w] = CExact(op, l, r) % Power[w]
    BY <1>12, <1>13, <1>16, <1>19, ShiftedOfSame
  <2>2. Computed(op, Read(x, u), r.cv, w) \in Int
    <3>1. w \in 0 .. Most /\ r.cv \in Int  BY <1>12, <1>13, HalfPower
    <3>2. QED  BY <1>13, <1>16, <1>19, <3>1, ComputedIsInt
  <2>3. v.ty = ToLLVM(t) /\ Stands(v, t.unsigned, InC(CExact(op, l, r), t))
    BY <1>3, <1>12, <1>13, <1>17, <2>1, <2>2, ResultStands
  <2>4. QED  BY <1>14, <2>3 DEF t, v
<1>20. op \in Unsigned => op = "<<"  BY DEF Unsigned, Shifts
<1>21. QED  BY <1>18, <1>19, <1>20 DEF t, u

LEMMA SmallInC ==
  ASSUME NEW n \in {0, 1}
  PROVE  InC(n, IntType) = n
<1>1. IsInt(IntType) /\ ToLLVM(IntType) = "i32" /\ IntType \in CTypes /\ IntType.base = "INT"
      /\ IntType.unsigned = FALSE
  BY IntTypeIs DEF IsInt, Wide, ToLLVM
<1>2. InRange(n, FALSE, Bits["i32"])  BY BoolStands DEF LLVMInts
<1>3. n \in Int /\ IntType.base # "BOOL" /\ InRange(n, IntType.unsigned, Bits[ToLLVM(IntType)])
  BY <1>1, <1>2 DEF InRange
<1>4. QED  BY <1>1, <1>3, InCOfRange

\* The value of a condition.
LEMMA ConditionStands ==
  ASSUME NEW n \in {0, 1}
  PROVE  /\ Value("i32", n).ty = "i32" /\ ToLLVM(IntType) = "i32"
         /\ Stands(Value("i32", n), IntType.unsigned, n)
BY BoolStands, IntTypeIs DEF LLVMInts, ToLLVM

LEMMA ComparisonStands ==
  ASSUME NEW op \in Comparisons, NEW l, NEW r, Typed(l), Typed(r), Held(l), Held(r),
         Defined(op, l, r), IsWide(l.ty) \/ IsWide(r.ty),
         l.ty.base \in Reals \cup {"PTR"} => ~r.ty.unsigned,
         r.ty.base \in Reals \cup {"PTR"} => ~l.ty.unsigned,
         NEW ty
  PROVE  LET t == CType(op, l.cty, r.cty)
             v == NumberValue(op, ty, l, r)
         IN  t = IntType /\ v.ty = ToLLVM(t) /\ Stands(v, t.unsigned, CValue(op, l, r))
<1> DEFINE v == NumberValue(op, ty, l, r)
           x == MatchTypes(l.val, l.ty, r.val.ty)
           y == MatchTypes(r.val, r.ty, l.val.ty)
           u == GetCommonType(l.ty, r.ty).unsigned
           m == Usual(l.cty, r.cty)
<1>1. op \in Operators /\ op \notin Shifts  BY OperatorsApart DEF Operators
<1>2. Fits(op, l.cty, r.cty) /\ l.cty \in CTypes /\ r.cty \in CTypes /\ l.ty \in CTypes /\ r.ty \in CTypes
      /\ Agree(l.ty, l.cty) /\ Agree(r.ty, r.cty)
  BY DEF Defined, Typed, Held
<1>3. CType(op, l.cty, r.cty) = IntType /\ (l.cty.base = "PTR" <=> r.cty.base = "PTR")
  BY <1>1, <1>2, CTypeOf
<1>4. v = Value("i32", Compared(op, Read(x, u), Read(y, u)))
  BY DEF NumberValue, IsUnsignedOp
<1>5. l.ty.unsigned \in BOOLEAN /\ r.ty.unsigned \in BOOLEAN  BY CTypeIs DEF Typed
<1>6. CExact(op, l, r) = Compared(op, Read(x, u), Read(y, u))
  <2>1. CASE l.cty.base = "PTR"
    <3>1. /\ l.ty = Pointer /\ r.ty = Pointer /\ l.val.ty = "ptr" /\ r.val.ty = "ptr"
          /\ l.cv \in 1 .. Elements + 1 /\ r.cv \in 1 .. Elements + 1
      BY <1>3, <2>1, HeldKinds DEF Typed
    <3>2. u = FALSE  BY <3>1, IntTypeIs DEF GetCommonType
    <3>3. x = l.val /\ y = r.val  BY <3>1 DEF MatchTypes, LLVMInts, LLVMReals
    <3>4. Stands(x, FALSE, l.cv) /\ Stands(y, FALSE, r.cv)  BY <3>1, <3>3, IntTypeIs DEF Held
    <3>5. Read(x, u) = l.cv /\ Read(y, u) = r.cv  BY <3>2, <3>4, ReadIs
    <3>6. \A n \in 1 .. Elements + 1 : InC(n, Signed("LONG")) = n
      <4>1. Elements \in Nat  BY ValuesAssumption
      <4>2. \A n \in 1 .. Elements + 1 : n \in Int /\ -Elements <= n /\ n <= Elements + 1  BY <4>1
      <4>3. QED  BY <4>2, PlacesAreSmall
    <3>7. CExact(op, l, r) = Compared(op, InC(l.cv, Signed("LONG")), InC(r.cv, Signed("LONG")))
      BY <1>1, <2>1 DEF CExact
    <3>8. QED  BY <3>1, <3>5, <3>6, <3>7
  <2>2. CASE l.cty.base # "PTR"
    <3>1. /\ m \in CTypes /\ m.base \notin Narrow \cup {"PTR"}
          /\ x.ty = ToLLVM(m) /\ y.ty = ToLLVM(m)
          /\ Stands(x, l.ty.unsigned, l.cv) /\ Stands(y, r.ty.unsigned, r.cv)
      BY <1>3, <2>2, NumbersMeet
    <3>2. l.ty.base = "PTR" => ~r.ty.unsigned  OBVIOUS
    <3>3. r.ty.base = "PTR" => ~l.ty.unsigned  OBVIOUS
    <3>4. u = m.unsigned  BY <1>2, <1>3, <2>2, <3>2, <3>3, CommonAgrees
    <3>5. m.unsigned \in BOOLEAN  BY <3>1, CTypeIs
    <3>6. CExact(op, l, r) = Compared(op, InC(l.cv, m), InC(r.cv, m))
      BY <1>1, <1>3, <2>2 DEF CExact
    <3> HIDE DEF m, x, y, u
    <3>7. Read(x, u) = InC(l.cv, m) /\ Read(y, u) = InC(r.cv, m)
      BY <1>5, <3>1, <3>4, <3>5, ReadInType
    <3>8. QED  BY <3>6, <3>7
  <2>3. QED  BY <2>1, <2>2
<1>7. CExact(op, l, r) \in {0, 1}  BY <1>6, ComparedIsInt
<1>8. CValue(op, l, r) = CExact(op, l, r)  BY <1>3, <1>7, SmallInC DEF CValue
<1>9. v = Value("i32", CValue(op, l, r))  BY <1>4, <1>6, <1>8
<1> HIDE DEF v
<1>10. v.ty = ToLLVM(IntType) /\ Stands(v, IntType.unsigned, CValue(op, l, r))
  BY <1>7, <1>8, <1>9, ConditionStands
<1>11. QED  BY <1>3, <1>10 DEF v

-----------------------------------------------------------------------------
(* The operand that an operator makes *)

LEMMA BinaryStands ==
  ASSUME NEW op \in Operators, NEW l, NEW r, Typed(l), Typed(r), Held(l), Held(r),
         Defined(op, l, r), ~IsRefused(op, l, r), Keeps(op, l, r),
         NEW ty, ty.unsigned \in BOOLEAN,
         LET t == CType(op, l.cty, r.cty)
         IN  \/ op \in Comparisons \cup Unsigned \/ PointerOp(op, l, r)
             \/ ty.unsigned = t.unsigned \/ ~IsInt(t)
  PROVE  LET t == CType(op, l.cty, r.cty)
             v == BinaryValue(op, ty, l, r)
         IN  v.ty = ToLLVM(t) /\ Stands(v, t.unsigned, CValue(op, l, r))
<1> DEFINE t == CType(op, l.cty, r.cty)
           v == BinaryValue(op, ty, l, r)
<1>1. Fits(op, l.cty, r.cty) /\ l.cty \in CTypes /\ r.cty \in CTypes  BY DEF Defined, Typed
<1>2. CASE PointerOp(op, l, r)
  <2>1. Index(l, r).ty.base # "PTR" => IsWide(Index(l, r).ty) /\ ~Index(l, r).ty.unsigned
    BY <1>2 DEF Keeps, PointerOp, Shifts
  <2>2. v = PointerValue(op, l, r)  BY <1>2 DEF BinaryValue
  <2>3. QED  BY <1>2, <2>1, <2>2, PointerStands
<1>3. CASE ~PointerOp(op, l, r)
  <2>1. v = NumberValue(op, ty, l, r)  BY <1>3 DEF BinaryValue
  <2>2. CASE op \in Shifts
    <3>1. IsWide(l.ty) /\ Bits[r.val.ty] <= Bits[l.val.ty]  BY <1>3, <2>2 DEF Keeps
    <3>2. op \notin Comparisons /\ (op \in Shifts => IsInt(Promoted(l.cty)) /\ t = Promoted(l.cty))
      BY <1>1, <2>2, CTypeOf, OperatorsApart
    <3>3. ty.unsigned = t.unsigned \/ op \in Unsigned  BY <1>3, <2>2, <3>2
    <3>4. QED  BY <2>1, <2>2, <3>1, <3>3, ShiftStands
  <2>3. CASE op \notin Shifts
    <3>1. /\ IsWide(l.ty) \/ IsWide(r.ty)
          /\ l.ty.base \in Reals \cup {"PTR"} => ~r.ty.unsigned
          /\ r.ty.base \in Reals \cup {"PTR"} => ~l.ty.unsigned
      BY <1>3, <2>3 DEF Keeps
    <3>2. CASE op \in Comparisons  BY <2>1, <3>1, <3>2, ComparisonStands
    <3>3. CASE op \notin Comparisons
      <4>1. op \in Arithmetic  BY <2>3, <3>3 DEF Operators
      <4>2. l.cty.base # "PTR" /\ r.cty.base # "PTR"
        <5>1. /\ l.cty.base = "PTR" => l.ty.base = "PTR"
              /\ r.cty.base = "PTR" => r.ty.base = "PTR"
          BY HeldKinds, IntTypeIs
        <5>2. "PTR" \in {l.cty.base, r.cty.base} => op \in {"+", "-"}  BY <1>1, <3>3, CTypeOf
        <5>3. l.cty.base # "PTR"  BY <1>3, <5>1, <5>2 DEF PointerOp
        <5>4. r.cty.base = "PTR" => op = "+"
          BY <1>1, <2>3, <3>3, <5>3, Fitting DEF IsInt, Narrow, Wide
        <5>5. QED  BY <1>3, <5>1, <5>3, <5>4 DEF PointerOp
      <4>3. ty.unsigned = t.unsigned \/ op \in Unsigned \/ ~IsInt(t)  BY <1>3, <3>3
      <4>4. QED  BY <2>1, <3>1, <4>1, <4>2, <4>3, ArithmeticStands
    <3>4. QED  BY <3>2, <3>3
  <2>4. QED  BY <2>2, <2>3
<1>4. QED  BY <1>2, <1>3

\* The value of a wide node is held by C's type.
LEMMA WideHolds ==
  ASSUME NEW ty \in CTypes, NEW t \in CTypes, IsWide(ty), Agree(ty, t), ty.unsigned = t.unsigned,
         NEW v, NEW c, v.ty = ToLLVM(t), Stands(v, t.unsigned, c), InC(c, t) = c
  PROVE  v.ty \in HeldAs(ty, t) /\ Stands(v, ty.unsigned, c) /\ InC(c, ty) = c
<1>1. c \in Int  BY DEF Stands
<1>2. ty.base \notin Narrow  BY DEF IsWide, Narrow, Wide, Reals
<1>3. CASE ty.base = "PTR"
  <2>1. ~IsInt(ty)  BY <1>3 DEF IsInt, Narrow, Wide
  <2>2. InC(c, ty) = c  BY <1>1, <2>1, InCIs
  <2>3. QED  BY <1>3, <2>2 DEF HeldAs
<1>4. CASE ty.base # "PTR"
  <2>1. t = ty  BY <1>2, <1>4, IntTypeIs DEF Agree
  <2>2. QED  BY <1>2, <1>4, <2>1 DEF HeldAs, Narrow
<1>5. QED  BY <1>3, <1>4

LEMMA NodeTypeIs ==
  ASSUME NEW op \in Operators, NEW l, NEW r, Typed(l), Typed(r)
  PROVE  NodeType(op, l.ty, r.ty) \in CTypes
BY CommonIsType, IntTypeIs DEF NodeType, Typed

LEMMA BinaryHolds ==
  ASSUME NEW op \in Operators, NEW l, NEW r, Typed(l), Typed(r), Held(l), Held(r),
         Defined(op, l, r), ~IsRefused(op, l, r), Keeps(op, l, r)
  PROVE  LET t  == CType(op, l.cty, r.cty)
             ty == NodeType(op, l.ty, r.ty)
             v  == BinaryValue(op, ty, l, r)
             c  == CValue(op, l, r)
         IN  IsWide(ty) /\ Agree(ty, t) /\ v.ty \in HeldAs(ty, t) /\ Stands(v, ty.unsigned, c)
               /\ InC(c, ty) = c
<1> DEFINE t  == CType(op, l.cty, r.cty)
           ty == NodeType(op, l.ty, r.ty)
           v  == BinaryValue(op, ty, l, r)
           c  == CValue(op, l, r)
<1>1. /\ Fits(op, l.cty, r.cty) /\ l.cty \in CTypes /\ r.cty \in CTypes
      /\ l.ty \in CTypes /\ r.ty \in CTypes
      /\ Agree(l.ty, l.cty) /\ Agree(r.ty, r.cty)
  BY DEF Defined, Typed, Held
<1>2. ty \in CTypes /\ ty.unsigned \in BOOLEAN  BY NodeTypeIs, CTypeIs
<1>3. t \in CTypes /\ InC(c, t) = c  BY ValueIs
<1>4. IsWide(ty) /\ Agree(ty, t) /\ ty.unsigned = t.unsigned
  <2>1. CASE PointerOp(op, l, r)
    <3>1. op \in {"+", "-"} /\ op \notin Comparisons /\ op \notin Shifts
      BY <2>1 DEF PointerOp, Comparisons, Shifts
    <3>2. \A e : Typed(e) /\ e.ty.base = "PTR" => e.ty = Pointer
      <4>1. SUFFICES ASSUME NEW e, Typed(e), e.ty.base = "PTR"  PROVE e.ty = Pointer
        OBVIOUS
      <4>2. e.ty \in CTypes  BY <4>1 DEF Typed
      <4>3. QED  BY <4>1, <4>2, CTypeIs DEF Pointer, Signed, UnsignedBases
    <3>3. ty = Pointer
      <4>1. CASE l.ty.base = "PTR"  BY <3>1, <3>2, <4>1 DEF NodeType, GetCommonType
      <4>2. CASE l.ty.base # "PTR"
        <5>1. r.ty.base = "PTR"  BY <2>1, <4>2 DEF PointerOp
        <5>2. QED  BY <3>1, <3>2, <4>2, <5>1 DEF NodeType, GetCommonType
      <4>3. QED  BY <4>1, <4>2
    <3>4. Index(l, r).ty.base # "PTR" => IsWide(Index(l, r).ty) /\ ~Index(l, r).ty.unsigned
      BY <2>1 DEF Keeps, PointerOp, Shifts
    <3>5. t \in {Pointer, Signed("LONG")}  BY <2>1, <3>4, PointerStands
    <3>6. Signed("LONG").unsigned = FALSE  BY SignedIs DEF CBases
    <3> HIDE DEF t, ty
    <3>7. QED  BY <3>3, <3>5, <3>6, IntTypeIs DEF Agree, IsWide
  <2>2. CASE ~PointerOp(op, l, r) /\ op \in Shifts
    <3>1. IsWide(l.ty)  BY <2>2 DEF Keeps
    <3>2. ty = l.ty  BY <2>2, OperatorsApart DEF NodeType
    <3>3. t = Promoted(l.cty)  BY <1>1, <2>2, CTypeOf
    <3>4. QED  BY <1>1, <3>1, <3>2, <3>3, HeldKinds
  <2>3. CASE ~PointerOp(op, l, r) /\ op \in Comparisons
    <3>1. ty = IntType /\ t = IntType
      <4>1. t = IntType  BY <1>1, <2>3, CTypeOf
      <4>2. ty = IntType  BY <2>3, OperatorsApart DEF NodeType
      <4>3. QED  BY <4>1, <4>2
    <3> HIDE DEF t, ty
    <3>2. QED  BY <3>1, IntTypeIs DEF Agree, IsWide, Wide
  <2>4. CASE ~PointerOp(op, l, r) /\ op \notin Shifts /\ op \notin Comparisons
    <3>1. op \in Arithmetic  BY <2>4 DEF Operators
    <3>2. /\ IsWide(l.ty) \/ IsWide(r.ty)
          /\ l.ty.base \in Reals \cup {"PTR"} => ~r.ty.unsigned
          /\ r.ty.base \in Reals \cup {"PTR"} => ~l.ty.unsigned
      BY <2>4 DEF Keeps
    <3>3. l.cty.base # "PTR" /\ r.cty.base # "PTR"
      <4>1. /\ l.cty.base = "PTR" => l.ty.base = "PTR"
            /\ r.cty.base = "PTR" => r.ty.base = "PTR"
        BY HeldKinds, IntTypeIs
      <4>2. "PTR" \in {l.cty.base, r.cty.base} => op \in {"+", "-"}  BY <1>1, <2>4, CTypeOf
      <4>3. l.cty.base # "PTR"  BY <2>4, <4>1, <4>2 DEF PointerOp
      <4>4. r.cty.base = "PTR" => op = "+"
        BY <1>1, <2>4, <4>3, Fitting DEF IsInt, Narrow, Wide
      <4>5. QED  BY <2>4, <4>1, <4>3, <4>4 DEF PointerOp
    <3>4. ty = GetCommonType(l.ty, r.ty)  BY <2>4 DEF NodeType
    <3>5. t = Usual(l.cty, r.cty)  BY <1>1, <3>1, <3>3, CTypeOf
    <3>6. l.ty.base = "PTR" => ~r.ty.unsigned  BY <3>2
    <3>7. r.ty.base = "PTR" => ~l.ty.unsigned  BY <3>2
    <3>8. QED  BY <1>1, <3>2, <3>3, <3>4, <3>5, <3>6, <3>7, CommonAgrees
  <2>5. QED  BY <2>1, <2>2, <2>3, <2>4
<1>5. v.ty = ToLLVM(t) /\ Stands(v, t.unsigned, c)  BY <1>2, <1>4, BinaryStands
<1> HIDE DEF t, ty, v, c
<1>6. v.ty \in HeldAs(ty, t) /\ Stands(v, ty.unsigned, c) /\ InC(c, ty) = c
  BY <1>2, <1>3, <1>4, <1>5, WideHolds
<1>7. QED  BY <1>4, <1>6 DEF t, ty, v, c

-----------------------------------------------------------------------------
(* Assignments *)

LEMMA UsualOfLong ==
  ASSUME NEW s \in CTypes, NEW t \in CTypes, s.base = "LONG", t.base # "PTR", IsInt(t)
  PROVE  Usual(s, t).base = "LONG"
<1> DEFINE q == Promoted(t)
<1>1. s.base \notin Narrow /\ Promoted(s) = s /\ ~IsReal(s)  BY DEF Narrow, Promoted, IsReal, Reals
<1>2. q \in CTypes /\ q.base \notin Narrow /\ IsInt(q)  BY PromotedIs
<1>3. ~IsReal(q)  BY <1>2 DEF IsInt, IsReal, Narrow, Wide, Reals
<1>4. Usual(s, t) = Usual(s, q)  BY <1>1, UsualIs
<1> HIDE DEF q
<1>5. CASE q.base = "LONG"  BY <1>1, <1>2, <1>3, <1>4, <1>5, UsualOf
<1>6. CASE q.base # "LONG"  BY <1>1, <1>2, <1>3, <1>4, <1>6, UsualOf
<1>7. QED  BY <1>5, <1>6

\* What an operator makes of a variable is as wide as the variable.
LEMMA NotNarrower ==
  ASSUME NEW op \in Operators, op \notin Comparisons, NEW s \in CTypes, NEW t \in CTypes,
         Fits(op, s, t)
  PROVE  LET c == CType(op, s, t)
         IN  /\ IsInt(s) /\ IsInt(c) => Bits[ToLLVM(s)] <= Bits[ToLLVM(c)]
             /\ IsReal(s) => ~IsInt(c)
<1> DEFINE c == CType(op, s, t)
<1>1. c \in CTypes /\ c.base \notin Narrow  BY CTypeOf
<1>2. /\ Bits["i8"] < Bits["i32"] /\ Bits["i16"] < Bits["i32"] /\ Bits["i32"] < Bits["i64"]
      /\ Bits["i8"] \in Nat /\ Bits["i16"] \in Nat /\ Bits["i32"] \in Nat /\ Bits["i64"] \in Nat
  BY WidthsAssumption DEF LLVMInts
<1>3. IsInt(s) /\ IsInt(c) /\ s.base = "LONG" => c.base = "LONG"
  <2>1. SUFFICES ASSUME IsInt(s), IsInt(c), s.base = "LONG"  PROVE c.base = "LONG"
    OBVIOUS
  <2>2. Promoted(s) = s /\ s.base # "PTR"  BY <2>1 DEF Promoted, Narrow
  <2>3. CASE op \in Shifts  BY <2>1, <2>2, <2>3, CTypeOf
  <2>4. CASE op \in Arithmetic
    <3>1. CASE t.base = "PTR"
      <4>1. c = Pointer  BY <2>2, <2>4, <3>1, CTypeOf
      <4>2. ~IsInt(c)  BY <4>1, IntTypeIs DEF IsInt, Narrow, Wide
      <4>3. QED  BY <2>1, <4>2
    <3>2. CASE t.base # "PTR"
      <4>1. c = Usual(s, t)  BY <2>2, <2>4, <3>2, CTypeOf
      <4>2. IsInt(t)  BY <2>1, <2>2, <3>2, <4>1, UsualIsType
      <4>3. QED  BY <2>1, <3>2, <4>1, <4>2, UsualOfLong
    <3>3. QED  BY <3>1, <3>2
  <2>5. QED  BY <2>3, <2>4 DEF Operators
<1>4. IsReal(s) => ~IsInt(c)
  <2>1. SUFFICES ASSUME IsReal(s)  PROVE ~IsInt(c)
    OBVIOUS
  <2>2. ~IsInt(s) /\ s.base # "PTR"  BY <2>1 DEF IsInt, IsReal, Narrow, Wide, Reals
  <2>3. op \in Arithmetic /\ t.base # "PTR"  BY <2>2, Fitting
  <2>4. c = Usual(s, t)  BY <2>2, <2>3, CTypeOf
  <2>5. QED  BY <2>2, <2>3, <2>4, UsualIsType
<1> HIDE DEF c
<1>5. IsInt(s) /\ IsInt(c) => Bits[ToLLVM(s)] <= Bits[ToLLVM(c)]
  <2>1. SUFFICES ASSUME IsInt(s), IsInt(c)  PROVE Bits[ToLLVM(s)] <= Bits[ToLLVM(c)]
    OBVIOUS
  <2>2. c.base \in {"INT", "LONG"}  BY <1>1, <2>1 DEF IsInt, Wide
  <2>3. s.base \in {"BOOL", "CHAR", "SHORT", "INT", "LONG"}  BY <2>1 DEF IsInt, Narrow, Wide
  <2>4. ToLLVM(c) = IF c.base = "LONG" THEN "i64" ELSE "i32"  BY <2>2 DEF ToLLVM
  <2>5. /\ ToLLVM(s) \in {"i8", "i16", "i32", "i64"}
        /\ ToLLVM(s) = "i64" => s.base = "LONG"
    BY <2>3 DEF ToLLVM
  <2>6. CASE c.base = "LONG"  BY <1>2, <2>4, <2>5, <2>6
  <2>7. CASE c.base = "INT"  BY <1>2, <1>3, <2>1, <2>4, <2>5, <2>7
  <2>8. QED  BY <2>2, <2>6, <2>7
<1>6. QED  BY <1>4, <1>5 DEF c

\* The value of an operator without a type, cast to the type of its left side.
LEMMA CompoundStands ==
  ASSUME NEW op \in CompoundOps, NEW l, NEW r, Typed(l), Typed(r), Held(l), Held(r),
         l.cty = l.ty, Defined(op, l, r), ~IsRefused(op, l, r), Keeps(op, l, r),
         op \in {"/", ">>"} => BinaryValue(op, NoType, l, r).ty \in LLVMReals,
         l.ty.base = "PTR" => CType(op, l.cty, r.cty).base = "PTR"
  PROVE  LET t == CType(op, l.cty, r.cty)
             v == BinaryValue(op, NoType, l, r)
             y == CastValue(v, NoType, ToLLVM(l.ty), l.ty.base = "BOOL")
             c == CValue(op, l, r)
         IN  /\ v.ty = ToLLVM(t) /\ Stands(v, t.unsigned, c)
             /\ y.ty = ToLLVM(l.ty) /\ Stands(y, l.ty.unsigned, InC(c, l.ty))
<1> DEFINE t == CType(op, l.cty, r.cty)
           v == BinaryValue(op, NoType, l, r)
           c == CValue(op, l, r)
           ty == l.ty
<1>1. op \in Operators /\ op \notin Comparisons
  BY DEF CompoundOps, Operators, Arithmetic, Shifts, Comparisons
<1>2. Fits(op, l.cty, r.cty) /\ l.cty \in CTypes /\ r.cty \in CTypes /\ ty \in CTypes
  BY DEF Defined, Typed
<1>3. NoType.unsigned = FALSE /\ NoType.unsigned \in BOOLEAN  BY DEF NoType, Signed
<1>4. /\ t \in CTypes /\ t.base \notin Narrow /\ t.unsigned \in BOOLEAN /\ c \in Int
      /\ IsInt(t) <=> ToLLVM(t) \in LLVMInts
      /\ IsReal(t) <=> ToLLVM(t) \in LLVMReals
      /\ t.base = "PTR" <=> ToLLVM(t) = "ptr"
      /\ ToLLVM(t) \in LLVMTypes
  BY <1>1, ValueIs, CTypeIs, LLVMTypeIs
<1>5. v.ty = ToLLVM(t)
  <2>1. BinaryValue(op, t, l, r).ty = ToLLVM(t)  BY <1>1, <1>4, BinaryStands
  <2>2. v.ty = BinaryValue(op, t, l, r).ty
    BY <1>1 DEF BinaryValue, NumberValue, Value
  <2>3. QED  BY <2>1, <2>2
<1>6. Stands(v, t.unsigned, c)
  <2>1. op \in Unsigned \/ ~IsInt(t)
    <3>1. op \in {"/", ">>"} => ~IsInt(t)
      BY <1>4, <1>5 DEF LLVMReals, LLVMInts
    <3>2. QED  BY <3>1 DEF CompoundOps, Unsigned
  <2>2. QED  BY <1>1, <1>3, <2>1, BinaryStands
<1> DEFINE n == Read(v, FALSE)
<1>7. Stands(v, FALSE, n) /\ n \in Int
  <2>1. CASE v.ty \in LLVMInts  BY <1>4, <1>6, <2>1, ReadsAs
  <2>2. CASE v.ty \notin LLVMInts
    <3>1. n = c  BY <1>4, <1>6, <2>2, ReadsAs
    <3>2. QED  BY <1>4, <1>6, <2>2, <3>1 DEF Stands
  <2>3. QED  BY <2>1, <2>2
<1> HIDE DEF t, v, c, n, ty
<1>8. InC(n, ty) = InC(c, ty)
  <2>1. CASE v.ty \notin LLVMInts
    <3>1. n = c  BY <1>4, <1>6, <2>1, ReadsAs DEF n
    <3>2. QED  BY <3>1
  <2>2. CASE ty.base = "BOOL"
    <3>1. v.v = 0 <=> n = 0
      <4>1. Stands(v, NoType.unsigned, n)  BY <1>3, <1>7
      <4>2. QED  BY <1>3, <4>1, ZeroStands
    <3>2. v.v = 0 <=> c = 0  BY <1>4, <1>6, ZeroStands
    <3>3. QED  BY <2>2, <3>1, <3>2 DEF InC
  <2>3. CASE v.ty \in LLVMInts /\ ty.base # "BOOL"
    <3>1. IsInt(t)  BY <1>4, <1>5, <2>3
    <3>2. IsInt(ty)
      <4>1. ~IsReal(ty)  BY <1>1, <1>2, <3>1, NotNarrower DEF t, ty
      <4>2. ty.base # "PTR"  BY <3>1 DEF t, ty, IsInt, Narrow, Wide
      <4>3. QED  BY <1>2, <4>1, <4>2, CTypeIs DEF CBases, IsInt, IsReal, Narrow, Wide, Reals
    <3>3. Bits[ToLLVM(ty)] <= Bits[v.ty]
      BY <1>1, <1>2, <1>5, <3>1, <3>2, NotNarrower DEF t, ty
    <3>4. Bits[ToLLVM(ty)] \in Width /\ Bits[v.ty] \in Width  BY <1>2, <2>3, <3>2, LLVMTypeIs, WidthsAreNat
    <3>5. Bits[v.ty] \in Bits[ToLLVM(ty)] .. Most  BY <3>3, <3>4, WidthsAreNat DEF Width
    <3>6. n % Power[Bits[v.ty]] = c % Power[Bits[v.ty]]
      BY <1>4, <1>6, <2>3, ReadsAs DEF n
    <3>7. n % Power[Bits[ToLLVM(ty)]] = c % Power[Bits[ToLLVM(ty)]]
      BY <1>4, <1>7, <3>4, <3>5, <3>6, NarrowerRest
    <3>8. QED  BY <1>2, <1>4, <1>7, <2>3, <3>2, <3>7, InCOfSame
  <2>4. QED  BY <2>1, <2>2, <2>3
<1>9. LET y == CastValue(v, NoType, ToLLVM(ty), ty.base = "BOOL")
      IN  y.ty = ToLLVM(ty) /\ Stands(y, ty.unsigned, InC(n, ty))
  <2>1. Stands(v, NoType.unsigned, n)  BY <1>3, <1>7
  <2>2. QED  BY <1>2, <1>3, <2>1, CastStands
<1>10. QED  BY <1>5, <1>6, <1>8, <1>9 DEF t, v, c, ty

-----------------------------------------------------------------------------
(* The inductive invariant *)

OperandOK(e) ==
  /\ Typed(e)
  /\ e.kept => Held(e)
  /\ e.plain => e.folded # <<>> /\ e.ty.base = "INT"
  /\ e.kept /\ e.plain => e.folded[1] = e.cv

TestOK(t) ==
  /\ t.before \in Nat
  /\ t.kept => t.taken = t.meant
  /\ t.plain => t.folded # <<>>
  /\ t.kept /\ t.plain => (t.folded[1] # 0) = t.meant

StoredOK(s) ==
  s.kept => s.val.ty = s.slot /\ Read(s.val, s.ty.unsigned) = s.cv

Stack == \E S : operands \in Seq(S) /\ \A e \in S : OperandOK(e)

TestsOK == tests = <<>> \/ (\E t : tests = <<t>> /\ TestOK(t))

ExprInv ==
  /\ Stack
  /\ TestsOK
  /\ StoredOK(stored)
  /\ nodes \in 0 .. MaxNodes
  /\ status \in {"generating", "crashed", "refused"}

\* What Held asks of the parts of an operand.
ValueHolds(ty, val, cty, cv) ==
  /\ val.ty \in HeldAs(ty, cty)
  /\ Stands(val, ty.unsigned, cv)
  /\ InC(cv, ty) = cv
  /\ Agree(ty, cty)

LEMMA NewOperand ==
  ASSUME NEW ty \in CTypes, NEW cty \in CTypes, NEW cv \in Int, InC(cv, cty) = cv,
         cty.base = "PTR" => cv \in 1 .. Elements + 1,
         NEW val, NEW kept, kept => ValueHolds(ty, val, cty, cv),
         NEW folded, NEW plain,
         plain /\ folded # <<>> => ty.base = "INT",
         kept /\ plain /\ folded # <<>> => folded[1] = cv
  PROVE  /\ OperandOK(WithFolded(Operand(ty, val, cty, cv, kept), folded, plain))
         /\ OperandOK(Operand(ty, val, cty, cv, kept))
<1> DEFINE e == Operand(ty, val, cty, cv, kept)
           w == WithFolded(e, folded, plain)
<1>1. /\ e.ty = ty /\ e.val = val /\ e.cty = cty /\ e.cv = cv /\ e.kept = kept
      /\ e.plain = FALSE
  BY DEF Operand
<1>2. /\ w.ty = ty /\ w.val = val /\ w.cty = cty /\ w.cv = cv /\ w.kept = kept
      /\ w.folded = folded /\ w.plain = (plain /\ folded # <<>>)
  BY DEF Operand, WithFolded
<1> HIDE DEF e, w
<1>3. Typed(e) /\ Typed(w)  BY <1>1, <1>2 DEF Typed
<1>4. kept => Held(e) /\ Held(w)  BY <1>1, <1>2 DEF Held, ValueHolds
<1>5. OperandOK(e)  BY <1>1, <1>3, <1>4 DEF OperandOK
<1>6. OperandOK(w)  BY <1>2, <1>3, <1>4 DEF OperandOK
<1>7. QED  BY <1>5, <1>6 DEF e, w

LEMMA TopOK ==
  ASSUME Stack
  PROVE  /\ Len(operands) \in Nat
         /\ Len(operands) >= 1 => OperandOK(Last)
         /\ Len(operands) >= 2 => OperandOK(Before)
<1>1. PICK S : operands \in Seq(S) /\ \A e \in S : OperandOK(e)  BY DEF Stack
<1>2. Len(operands) \in Nat /\ \A i \in 1 .. Len(operands) : operands[i] \in S  BY <1>1
<1>3. QED  BY <1>1, <1>2 DEF Last, Before

LEMMA Replaced ==
  ASSUME Stack, NEW k \in Nat, Len(operands) >= k, NEW e, OperandOK(e), Replace(k, e)
  PROVE  Stack'
<1>1. PICK S : operands \in Seq(S) /\ \A x \in S : OperandOK(x)  BY DEF Stack
<1> DEFINE T == S \cup {e}
<1>2. \A x \in T : OperandOK(x)  BY <1>1
<1>3. \A i \in 1 .. Len(operands) : operands[i] \in T  BY <1>1
<1>4. Len(operands) \in Nat /\ Len(operands) - k \in Nat /\ Len(operands) - k <= Len(operands)  BY <1>1
<1>5. SubSeq(operands, 1, Len(operands) - k) \in Seq(T)  BY <1>1, <1>3, <1>4
<1>6. operands' \in Seq(T)  BY <1>5 DEF Replace, Take
<1>7. QED  BY <1>2, <1>6 DEF Stack

LEMMA OperandPushed ==
  ASSUME Stack, NEW e, OperandOK(e), Push(e)
  PROVE  Stack'
<1>1. PICK S : operands \in Seq(S) /\ \A x \in S : OperandOK(x)  BY DEF Stack
<1> DEFINE T == S \cup {e}
<1>2. \A x \in T : OperandOK(x)  BY <1>1
<1>3. operands \in Seq(T)  BY <1>1
<1>4. operands' \in Seq(T)  BY <1>3 DEF Push
<1>5. QED  BY <1>2, <1>4 DEF Stack

LEMMA Emptied ==
  ASSUME operands' = <<>>
  PROVE  Stack'
<1> DEFINE T == {}
<1>1. operands' \in Seq(T)  OBVIOUS
<1>2. \A e \in T : OperandOK(e)  OBVIOUS
<1> HIDE DEF T
<1>3. QED  BY <1>1, <1>2 DEF Stack

LEMMA TestsAre ==
  ASSUME TestsOK, tests # <<>>
  PROVE  TestOK(tests[1])
BY DEF TestsOK

\* A node has its operands, and is counted.
LEMMA Counted ==
  ASSUME ExprInv, NEW k \in Nat, NEW made \in Nat, Node(k, made)
  PROVE  /\ Len(operands) \in Nat /\ Len(operands) >= k
         /\ nodes' \in 0 .. MaxNodes /\ TestsOK'
         /\ status' \in {"generating", "crashed", "refused"}
<1>1. Len(operands) \in Nat  BY TopOK DEF ExprInv
<1>2. tests # <<>> => tests[1].before \in Nat  BY TestsAre DEF ExprInv, TestOK
<1>3. Len(operands) >= k
  <2>1. CASE tests = <<>>  BY <1>1, <2>1 DEF Node, Has
  <2>2. CASE tests # <<>>  BY <1>1, <1>2, <2>2 DEF Node, Has
  <2>3. QED  BY <2>1, <2>2
<1>4. nodes' \in 0 .. MaxNodes  BY ValuesAssumption DEF Node, ExprInv
<1>5. TestsOK'  BY DEF Node, TestsOK, ExprInv
<1>6. status' \in {"generating", "crashed", "refused"}  BY DEF Node, Generating, ExprInv
<1>7. QED  BY <1>1, <1>3, <1>4, <1>5, <1>6

LEMMA NothingStored == StoredOK(Nothing)
<1> DEFINE x == Value("i32", 0)
<1>1. x.ty = "i32" /\ Stands(x, IntType.unsigned, 0) /\ IntType.unsigned \in BOOLEAN
  BY ConditionStands, IntTypeIs
<1> HIDE DEF x
<1>2. Read(x, IntType.unsigned) = 0  BY <1>1, ReadIs
<1>3. QED  BY <1>1, <1>2 DEF StoredOK, Nothing, x

LEMMA QuietStep ==
  ASSUME ExprInv, NEW k \in Nat, NEW made \in Nat, Node(k, made), NEW e, OperandOK(e),
         Replace(k, e), Quiet
  PROVE  ExprInv'
<1>1. Len(operands) >= k  BY Counted
<1>2. Stack'  BY <1>1, Replaced DEF ExprInv
<1>3. StoredOK(stored')  BY NothingStored DEF Quiet
<1>4. StoredOK(stored)'  BY <1>3 DEF StoredOK
<1>5. QED  BY <1>2, <1>4, Counted DEF ExprInv

-----------------------------------------------------------------------------
(* The steps *)

LEMMA LoadStands ==
  ASSUME NEW ty \in Variables, NEW n \in ValuesOf[ty], NEW place \in BOOLEAN,
         ~(place /\ ty = [base |-> "CHAR", unsigned |-> TRUE])
  PROVE  ValueHolds(ty, Load(place, ty, n), ty, n)
<1> DEFINE x == Value(ToLLVM(ty), n)
<1>1. ty \in CTypes /\ n \in Int /\ InC(n, ty) = n  BY ValuesAssumption
<1>2. /\ ToLLVM(ty) \in LLVMTypes /\ ty.unsigned \in BOOLEAN
      /\ ToLLVM(ty) \in LLVMInts <=> IsInt(ty)
  BY <1>1, LLVMTypeIs, CTypeIs
<1>3. IsInt(ty) => InRange(n, ty.unsigned, Bits[ToLLVM(ty)])  BY <1>1, InCIs
<1>4. x.ty = ToLLVM(ty) /\ Stands(x, ty.unsigned, n)  BY <1>1, <1>2, <1>3, ValueStands
<1>5. Agree(ty, ty)  BY DEF Agree
<1> HIDE DEF x
<1>6. CASE ty.base = "CHAR"
  <2>1. ty = [base |-> "CHAR", unsigned |-> ty.unsigned]  BY <1>1, <1>6, CTypeIs
  <2>2. (ty.unsigned /\ ~place) = ty.unsigned  BY <1>2, <2>1
  <2>3. Load(place, ty, n) = Value("i32", n)
    <3>1. Load(place, ty, n) = Value("i32", Read(x, ty.unsigned /\ ~place))  BY <1>6 DEF Load, x
    <3>2. Read(x, ty.unsigned) = n  BY <1>2, <1>4, ReadIs
    <3>3. QED  BY <2>2, <3>1, <3>2
  <2>4. IsInt(ty) /\ ToLLVM(ty) = "i8"  BY <1>6 DEF IsInt, Narrow, ToLLVM
  <2>5. Bits["i8"] \in Width /\ Bits["i32"] \in Bits["i8"] .. Most /\ "i32" \in LLVMInts
        /\ "i32" \in LLVMTypes
    BY WidthsAreNat, WidthsAssumption DEF Width, Most, LLVMInts, LLVMTypes
  <2>6. InRange(n, ty.unsigned, Bits["i32"])  BY <1>1, <1>2, <1>3, <2>4, <2>5, WiderRange
  <2>7. Stands(Value("i32", n), ty.unsigned, n) /\ Value("i32", n).ty = "i32"
    BY <1>1, <1>2, <2>5, <2>6, ValueStands
  <2>8. QED  BY <1>1, <1>5, <1>6, <2>3, <2>7 DEF ValueHolds, HeldAs
<1>7. CASE ty.base # "CHAR"
  <2>1. Load(place, ty, n) = x  BY <1>7 DEF Load, x
  <2>2. ToLLVM(ty) \in HeldAs(ty, ty)  BY <1>7 DEF HeldAs
  <2>3. QED  BY <1>1, <1>4, <1>5, <2>1, <2>2 DEF ValueHolds
<1>8. QED  BY <1>6, <1>7

LEMMA VariableOK ==
  ASSUME NEW ty \in Variables, NEW n \in ValuesOf[ty], NEW place \in BOOLEAN
  PROVE  /\ OperandOK(VariableOperand(place, ty, n))
         /\ VariableOperand(place, ty, n).ty = ty /\ VariableOperand(place, ty, n).cty = ty
<1> DEFINE kept == ~(place /\ ty = [base |-> "CHAR", unsigned |-> TRUE])
           val == Load(place, ty, n)
<1>1. ty \in CTypes /\ n \in Int /\ InC(n, ty) = n /\ (ty.base = "PTR" => n \in 1 .. Elements + 1)
  BY ValuesAssumption
<1>2. kept => ValueHolds(ty, val, ty, n)  BY LoadStands
<1>3. VariableOperand(place, ty, n) = Operand(ty, val, ty, n, kept)  BY DEF VariableOperand
<1> HIDE DEF kept, val
<1>4. OperandOK(Operand(ty, val, ty, n, kept))  BY <1>1, <1>2, NewOperand
<1>5. QED  BY <1>3, <1>4 DEF Operand

LEMMA VariableStep ==
  ASSUME ExprInv, NEW ty \in Variables, NEW place \in Places(ty), NEW n \in ValuesOf[ty],
         Variable(place, ty, n)
  PROVE  ExprInv'
<1>1. place \in BOOLEAN  BY DEF Places
<1>2. OperandOK(VariableOperand(place, ty, n))  BY <1>1, VariableOK
<1>3. Node(0, 1) /\ Push(VariableOperand(place, ty, n)) /\ Quiet  BY DEF Variable
<1>4. Stack'  BY <1>2, <1>3, OperandPushed DEF ExprInv
<1>5. StoredOK(stored)'  BY <1>3, NothingStored DEF Quiet, StoredOK
<1>6. QED  BY <1>3, <1>4, <1>5, Counted DEF ExprInv

LEMMA NumberStep ==
  ASSUME ExprInv, NEW n \in Literals, NEW unsigned \in BOOLEAN, Number(n, unsigned)
  PROVE  ExprInv'
<1> DEFINE most == Power[Bits["i32"] - 1] - 1
           val  == IF ~unsigned /\ n > most THEN most ELSE n
           ty   == [IntType EXCEPT !.unsigned = unsigned]
           cty  == IF n > most /\ ~unsigned THEN Signed("LONG") ELSE ty
           x    == Value("i32", val)
           kept == val = n
           e    == WithFolded(Operand(ty, x, cty, n, kept), <<val>>, TRUE)
<1>1. Node(0, 1) /\ n < Power[Bits["i32"]] /\ Push(e) /\ Quiet  BY DEF Number
<1>2. n \in Nat /\ n \in Int  BY ValuesAssumption
<1>3. /\ "i32" \in LLVMInts /\ "i32" \in LLVMTypes /\ Bits["i32"] \in Width
      /\ Bits["i64"] \in Bits["i32"] .. Most /\ Bits["i32"] < Bits["i64"]
  BY WidthsAreNat, WidthsAssumption DEF Width, Most, LLVMInts, LLVMTypes
<1>4. Power[Bits["i32"]] \in Nat \ {0} /\ Power[Bits["i32"] - 1] \in Nat \ {0}  BY <1>3, HalfPower
<1>5. /\ ty \in CTypes /\ ty.base = "INT" /\ ty.unsigned = unsigned /\ IsInt(ty) /\ ToLLVM(ty) = "i32"
  <2>1. ty = [base |-> "INT", unsigned |-> unsigned]  BY DEF IntType, Signed
  <2>2. ty \in CTypes  BY <2>1, IsCType DEF CBases, UnsignedBases
  <2>3. QED  BY <2>1, <2>2 DEF IsInt, Wide, ToLLVM
<1>6. /\ Signed("LONG") \in CTypes /\ Signed("LONG").base = "LONG" /\ Signed("LONG").unsigned = FALSE
      /\ IsInt(Signed("LONG")) /\ ToLLVM(Signed("LONG")) = "i64"
  BY SignedIs DEF CBases, IsInt, Wide, ToLLVM
<1> HIDE DEF ty
<1>7. cty \in CTypes /\ cty.base # "PTR" /\ InC(n, cty) = n
  <2>1. CASE n > most /\ ~unsigned
    <3>1. InRange(n, TRUE, Bits["i32"])  BY <1>1, <1>2 DEF InRange
    <3>2. InRange(n, FALSE, Bits["i64"])
      <4>1. \A u \in BOOLEAN : InRange(n, u, Bits["i32"]) => InRange(n, FALSE, Bits["i64"])
        BY <1>2, <1>3, WiderRange
      <4>2. QED  BY <3>1, <4>1
    <3>3. InC(n, Signed("LONG")) = n  BY <1>2, <1>6, <3>2, InCOfRange
    <3>4. QED  BY <1>6, <2>1, <3>3
  <2>2. CASE ~(n > most /\ ~unsigned)
    <3>1. InRange(n, unsigned, Bits["i32"])
      BY <1>1, <1>2, <1>4, <2>2 DEF InRange
    <3>2. InC(n, ty) = n  BY <1>2, <1>5, <3>1, InCOfRange
    <3>3. QED  BY <1>5, <2>2, <3>2
  <2>3. QED  BY <2>1, <2>2
<1>8. ASSUME kept  PROVE ValueHolds(ty, x, cty, n)
  <2>1. ~(n > most /\ ~unsigned) /\ val = n  BY <1>2, <1>4, <1>8
  <2>2. cty = ty  BY <2>1
  <2>3. InRange(n, unsigned, Bits["i32"])  BY <1>1, <1>2, <1>4, <2>1 DEF InRange
  <2>4. Stands(Value("i32", n), unsigned, n) /\ Value("i32", n).ty = "i32"
    BY <1>2, <1>3, <2>3, ValueStands
  <2>5. x = Value("i32", n)  BY <2>1
  <2> HIDE DEF x, cty
  <2>6. QED  BY <1>5, <1>7, <2>2, <2>4, <2>5 DEF ValueHolds, HeldAs, Agree
<1>9. kept => <<val>>[1] = n  OBVIOUS
<1>10. OperandOK(e)
  <2> HIDE DEF most, val, cty, x, kept
  <2>1. QED  BY <1>2, <1>5, <1>7, <1>8, <1>9, NewOperand
<1>11. Stack'  BY <1>1, <1>10, OperandPushed DEF ExprInv
<1>12. StoredOK(stored)'  BY <1>1, NothingStored DEF Quiet, StoredOK
<1>13. QED  BY <1>1, <1>11, <1>12, Counted DEF ExprInv

LEMMA BoolIs ==
  ASSUME NEW n
  PROVE  InC(n, Signed("BOOL")) = (IF n = 0 THEN 0 ELSE 1) /\ InC(n, Signed("BOOL")) \in {0, 1}
BY SignedIs DEF InC, CBases

LEMMA ConvertedIs ==
  ASSUME NEW e, OperandOK(e)
  PROVE  /\ ConvertToBool(e.val) \in {0, 1}
         /\ e.kept => ConvertToBool(e.val) = InC(e.cv, Signed("BOOL"))
                        /\ (ConvertToBool(e.val) = 1 <=> e.cv # 0)
<1>1. e.ty.unsigned \in BOOLEAN  BY CTypeIs DEF OperandOK, Typed
<1>2. e.kept => (e.val.v = 0 <=> e.cv = 0)  BY <1>1, ZeroStands DEF OperandOK, Held
<1>3. QED  BY <1>2, BoolIs DEF ConvertToBool

LEMMA ConditionHolds ==
  ASSUME NEW n \in {0, 1}
  PROVE  ValueHolds(IntType, Value("i32", n), IntType, n) /\ InC(n, IntType) = n /\ n \in Int
           /\ IntType \in CTypes /\ IntType.base = "INT"
<1>1. /\ Value("i32", n).ty = "i32" /\ ToLLVM(IntType) = "i32"
      /\ Stands(Value("i32", n), IntType.unsigned, n)
  BY ConditionStands
<1>2. InC(n, IntType) = n  BY SmallInC
<1>3. IntType \in CTypes /\ IntType.base = "INT"  BY IntTypeIs
<1>4. QED  BY <1>1, <1>2, <1>3 DEF ValueHolds, HeldAs, Agree

\* A plain operand that the code keeps is an int in C.
LEMMA PlainIs ==
  ASSUME NEW e, OperandOK(e), e.kept, e.plain, ~e.ty.unsigned
  PROVE  e.ty = IntType /\ e.cty = IntType /\ e.folded[1] = e.cv
<1>1. e.ty.base = "INT" /\ e.ty \in CTypes  BY DEF OperandOK, Typed
<1>2. e.ty = [base |-> e.ty.base, unsigned |-> e.ty.unsigned] /\ e.ty.unsigned = FALSE
  BY <1>1, CTypeIs
<1>3. e.ty = IntType  BY <1>1, <1>2 DEF IntType, Signed
<1>4. e.cty = e.ty  BY <1>1, <1>3, IntTypeIs DEF OperandOK, Held, Agree
<1>5. QED  BY <1>3, <1>4 DEF OperandOK

LEMMA IntsMeet == Usual(IntType, IntType) = IntType
BY IntTypeIs, UsualOfInt DEF Narrow

\* eval_const_int computes what C does: long long holds the values of int.
LEMMA FoldedIs ==
  ASSUME NEW op \in Foldable, NEW l, NEW r, Typed(l), Typed(r), l.cty = IntType, r.cty = IntType,
         Defined(op, l, r)
  PROVE  FoldedOp(op, l.cv, r.cv)[1] = CValue(op, l, r)
<1> DEFINE c == CValue(op, l, r)
<1>1. op \in Operators /\ op \notin Shifts /\ op # "&"  BY DEF Foldable
<1>2. /\ IsInt(IntType) /\ ToLLVM(IntType) = "i32" /\ IntType \in CTypes /\ IntType.base = "INT"
      /\ IntType.unsigned = FALSE
  BY IntTypeIs DEF IsInt, Wide, ToLLVM
<1>3. InC(l.cv, IntType) = l.cv /\ InC(r.cv, IntType) = r.cv /\ l.cv \in Int /\ r.cv \in Int
  BY DEF Typed
<1>4. Fits(op, IntType, IntType)  BY DEF Defined
<1>5. CASE op \in Comparisons
  <2>1. CExact(op, l, r) = Compared(op, l.cv, r.cv)
    BY <1>1, <1>2, <1>3, <1>5, IntsMeet DEF CExact
  <2>2. CType(op, l.cty, r.cty) = IntType  BY <1>5 DEF CType
  <2>3. c = Compared(op, l.cv, r.cv)
    BY <2>1, <2>2, ComparedIsInt, SmallInC DEF CValue
  <2>4. FoldedOp(op, l.cv, r.cv) = <<Compared(op, l.cv, r.cv)>>  BY <1>5 DEF FoldedOp
  <2>5. QED  BY <2>3, <2>4
<1>6. CASE op \in Arithmetic
  <2>1. op \notin Comparisons  BY <1>6, OperatorsApart
  <2>2. CType(op, l.cty, r.cty) = IntType
    BY <1>1, <1>2, <2>1, IntsMeet DEF CType
  <2>3. CExact(op, l, r) = Computed(op, l.cv, r.cv, WidthOf(IntType)) /\ CExact(op, l, r) \in Int
    BY <1>1, <1>2, <1>3, <1>6, <2>2, ExactIs
  <2>4. Computed(op, l.cv, r.cv, WidthOf(IntType)) = Computed(op, l.cv, r.cv, 0)
    BY <1>1, <1>6 DEF Computed, Arithmetic
  <2>5. c = CExact(op, l, r)  BY <1>1, <1>2, <2>2 DEF Defined
  <2>6. InRange(c, FALSE, Bits["i32"])
    <3>1. c = InC(CExact(op, l, r), IntType)  BY <2>2 DEF CValue
    <3>2. InRange(c, IntType.unsigned, Bits["i32"])  BY <1>2, <2>3, <3>1, InCIs
    <3>3. QED  BY <1>2, <3>2 DEF InRange
  <2>7. /\ Bits["i32"] \in Width /\ Bits["i64"] \in Bits["i32"] .. Most /\ Bits["i64"] \in Width
    BY WidthsAreNat, WidthsAssumption DEF Width, Most, LLVMInts
  <2>8. c \in Int  BY <2>3, <2>5
  <2> HIDE DEF c
  <2>9. InRange(c, FALSE, Bits["i64"])  BY <2>6, <2>7, <2>8, WiderRange
  <2>10. LongLong(c) = c  BY <2>7, <2>8, <2>9, WrapIs DEF LongLong
  <2>11. FoldedOp(op, l.cv, r.cv) = <<LongLong(c)>>
    BY <2>1, <2>3, <2>4, <2>5 DEF FoldedOp
  <2>12. QED  BY <2>10, <2>11 DEF c
<1>7. QED  BY <1>1, <1>5, <1>6 DEF Operators

LEMMA BinaryStep ==
  ASSUME ExprInv, NEW op \in Operators, Binary(op)
  PROVE  ExprInv'
<1> DEFINE l  == Before
           r  == Last
           ty == NodeType(op, l.ty, r.ty)
           t  == CType(op, l.cty, r.cty)
           c  == CValue(op, l, r)
           v  == BinaryValue(op, ty, l, r)
           kept == Keeps(op, l, r)
           folded == Folded(op, l, r)
           plain == ArePlain(l, r)
           e  == WithFolded(Operand(ty, v, t, c, kept), folded, plain)
<1>1. Node(2, 1) /\ Defined(op, l, r) /\ ~IsRefused(op, l, r) /\ Replace(2, e) /\ Quiet
  BY DEF Binary, BinaryOperand
<1>2. OperandOK(l) /\ OperandOK(r)  BY <1>1, Counted, TopOK DEF ExprInv
<1> HIDE DEF l, r
<1>3. Typed(l) /\ Typed(r)  BY <1>2 DEF OperandOK
<1>4. kept => Held(l) /\ Held(r) /\ l.kept /\ r.kept  BY <1>2 DEF OperandOK, Keeps
<1>5. ty \in CTypes /\ t \in CTypes /\ c \in Int /\ InC(c, t) = c
      /\ (t.base = "PTR" => c \in 1 .. Elements + 1)
  BY <1>1, <1>3, NodeTypeIs, ValueIs
<1>6. kept => ValueHolds(ty, v, t, c)
  BY <1>1, <1>3, <1>4, BinaryHolds DEF ValueHolds
<1>7. folded # <<>> =>
        op \in Foldable /\ folded = FoldedOp(op, l.folded[1], r.folded[1])
  BY DEF Folded
<1>8. plain => l.plain /\ r.plain /\ ~l.ty.unsigned /\ ~r.ty.unsigned  BY DEF ArePlain
<1>9. ASSUME plain, folded # <<>>  PROVE ty.base = "INT"
  <2>1. op \notin Shifts  BY <1>7, <1>9 DEF Foldable
  <2>2. l.ty.base = "INT" /\ r.ty.base = "INT" /\ l.ty \in CTypes  BY <1>2, <1>8, <1>9 DEF OperandOK, Typed
  <2>3. l.ty = [base |-> l.ty.base, unsigned |-> l.ty.unsigned]  BY <2>2, CTypeIs
  <2>4. CASE op \in Comparisons
    <3>1. ty = IntType  BY <2>4, OperatorsApart DEF NodeType
    <3>2. QED  BY <3>1, IntTypeIs
  <2>5. CASE op \notin Comparisons
    <3>1. ty = GetCommonType(l.ty, r.ty)  BY <2>1, <2>5 DEF NodeType
    <3>2. GetTypeRank(l.ty) = 70 /\ GetTypeRank(r.ty) = 70  BY <2>2 DEF GetTypeRank
    <3>3. ty = [l.ty EXCEPT !.unsigned = l.ty.unsigned \/ r.ty.unsigned]
      BY <2>2, <3>1, <3>2 DEF GetCommonType
    <3>4. QED  BY <2>2, <2>3, <3>3
  <2>6. QED  BY <2>4, <2>5
<1>10. ASSUME kept, plain, folded # <<>>  PROVE folded[1] = c
  <2>1. /\ l.cty = IntType /\ l.folded[1] = l.cv
        /\ r.cty = IntType /\ r.folded[1] = r.cv
    BY <1>2, <1>4, <1>8, <1>10, PlainIs
  <2>2. FoldedOp(op, l.cv, r.cv)[1] = c  BY <1>1, <1>3, <1>7, <1>10, <2>1, FoldedIs
  <2>3. QED  BY <1>7, <1>10, <2>1, <2>2
<1>11. OperandOK(e)
  <2> HIDE DEF ty, t, c, v, kept, folded, plain
  <2>1. QED  BY <1>5, <1>6, <1>9, <1>10, NewOperand
<1>12. QED  BY <1>1, <1>11, QuietStep

LEMMA ZeroOperand ==
  LET zero == Operand(IntType, Value("i32", 0), IntType, 0, TRUE)
  IN  OperandOK(zero) /\ Typed(zero) /\ Held(zero)
<1>1. /\ ValueHolds(IntType, Value("i32", 0), IntType, 0) /\ InC(0, IntType) = 0
      /\ IntType \in CTypes /\ IntType.base # "PTR"
  BY ConditionHolds
<1>2. OperandOK(Operand(IntType, Value("i32", 0), IntType, 0, TRUE))
  <2> DEFINE v == Value("i32", 0)
             kept == TRUE
  <2>1. 0 \in Int /\ (kept => ValueHolds(IntType, v, IntType, 0))  BY <1>1
  <2> HIDE DEF v, kept
  <2>2. OperandOK(Operand(IntType, v, IntType, 0, kept))  BY <1>1, <2>1, NewOperand
  <2>3. QED  BY <2>2 DEF v, kept
<1>3. QED  BY <1>2 DEF OperandOK, Operand

LEMMA MinusStep ==
  ASSUME ExprInv, Minus
  PROVE  ExprInv'
<1> DEFINE zero == Operand(IntType, Value("i32", 0), IntType, 0, TRUE)
           e == Last
           t == CType("-", IntType, e.cty)
           c == CValue("-", zero, e)
           v == BinaryValue("-", IntType, zero, e)
           kept == Keeps("-", zero, e) /\ t = IntType
           folded == Folded("-", [zero EXCEPT !.folded = <<0>>], e)
           plain == e.plain /\ ~e.ty.unsigned
           x == WithFolded(Operand(IntType, v, t, c, kept), folded, plain)
<1>1. /\ Node(1, 2) /\ Defined("-", zero, e) /\ ~IsRefused("-", zero, e) /\ Quiet
      /\ Replace(1, x)
  BY DEF Minus
<1>2. /\ zero.ty = IntType /\ zero.cty = IntType /\ zero.cv = 0 /\ zero.val = Value("i32", 0)
  BY DEF Operand
<1>4. OperandOK(e)  BY <1>1, Counted, TopOK DEF ExprInv
<1>5. Typed(zero) /\ Held(zero)  BY ZeroOperand
<1>6. [zero EXCEPT !.folded = <<0>>].folded = <<0>>  BY DEF Operand
<1> HIDE DEF zero, e
<1>7. "-" \in Operators /\ "-" \in Arithmetic /\ "-" \in Unsigned /\ "-" \in Foldable
      /\ "-" \notin Comparisons /\ "-" \notin {"/", "%"}
  BY DEF Operators, Arithmetic, Unsigned, Foldable, Shifts, Comparisons
<1>8. Typed(e) /\ (kept => Held(e) /\ e.kept)  BY <1>4 DEF OperandOK, Keeps
<1>9. /\ t \in CTypes /\ c \in Int /\ InC(c, t) = c /\ (t.base = "PTR" => c \in 1 .. Elements + 1)
  BY <1>1, <1>2, <1>5, <1>7, <1>8, ValueIs
<1>10. IntType \in CTypes /\ IntType.base = "INT" /\ IntType.unsigned \in BOOLEAN  BY IntTypeIs
<1>11. ASSUME kept  PROVE ValueHolds(IntType, v, t, c)
  <2>1. v.ty = ToLLVM(t) /\ Stands(v, t.unsigned, c)
    BY <1>1, <1>2, <1>5, <1>7, <1>8, <1>10, <1>11, BinaryStands
  <2>2. t = IntType  BY <1>11
  <2> HIDE DEF t, v, c
  <2>3. IsWide(IntType) /\ Agree(IntType, IntType)  BY <1>10 DEF IsWide, Wide, Agree
  <2>4. QED  BY <1>9, <1>10, <2>1, <2>2, <2>3, WideHolds DEF ValueHolds
<1>12. folded # <<>> => folded = FoldedOp("-", 0, e.folded[1])
  BY <1>6, <1>7 DEF Folded
<1>13. ASSUME kept, plain, folded # <<>>  PROVE folded[1] = c
  <2>1. e.cty = IntType /\ e.folded[1] = e.cv  BY <1>4, <1>8, <1>13, PlainIs
  <2>2. FoldedOp("-", zero.cv, e.cv)[1] = c  BY <1>1, <1>2, <1>5, <1>7, <1>8, <2>1, FoldedIs
  <2>3. QED  BY <1>2, <1>12, <1>13, <2>1, <2>2
<1>14. OperandOK(x)
  <2> HIDE DEF t, c, v, kept, folded, plain
  <2>1. QED  BY <1>9, <1>10, <1>11, <1>13, NewOperand
<1>15. QED  BY <1>1, <1>14, QuietStep

LEMMA BitNotStep ==
  ASSUME ExprInv, BitNot
  PROVE  ExprInv'
<1> DEFINE e == Last
           t == Promoted(e.cty)
           v == Value(e.val.ty, -1 - e.val.v)
           c == InC(-1 - e.cv, t)
           kept == e.kept /\ IsWide(e.ty)
           x == Operand(e.ty, v, t, c, kept)
<1>1. Node(1, 1) /\ IsInt(e.cty) /\ e.val.ty \in LLVMInts /\ Replace(1, x) /\ Quiet
  BY DEF BitNot
<1>2. OperandOK(e)  BY <1>1, Counted, TopOK DEF ExprInv
<1> HIDE DEF e
<1>3. Typed(e) /\ e.ty \in CTypes /\ e.cty \in CTypes /\ e.cv \in Int /\ -1 - e.cv \in Int
  BY <1>2 DEF OperandOK, Typed
<1>4. t \in CTypes /\ IsInt(t) /\ t.base \notin Narrow /\ t.base # "PTR"
  BY <1>1, <1>3, PromotedIs DEF IsInt, Narrow, Wide
<1>5. c \in Int /\ InC(c, t) = c  BY <1>3, <1>4, InCIs
<1>6. ASSUME kept  PROVE ValueHolds(e.ty, v, t, c)
  <2>1. Held(e)  BY <1>2, <1>6 DEF OperandOK
  <2>2. /\ e.val.ty = ToLLVM(e.cty) /\ e.ty.unsigned = e.cty.unsigned /\ t = e.cty
        /\ Agree(e.ty, t)
    BY <1>3, <1>6, <2>1, HeldKinds DEF Held
  <2>3. Bits[e.val.ty] \in Width  BY <1>1, WidthsAreNat
  <2>4. Power[Bits[e.val.ty]] \in Nat \ {0}  BY <2>3, HalfPower
  <2>5. e.val.v = e.cv % Power[Bits[e.val.ty]]  BY <1>1, <2>1 DEF Held, Stands
  <2>6. ASSUME NEW m \in Nat \ {0}, NEW n \in Int
        PROVE  (-1 - (n % m)) % m = (-1 - n) % m /\ -1 - (n % m) \in Int
    <3>1. PICK q \in Int, s \in 0 .. m - 1 : n % m = s /\ n = q * m + s  BY Divided
    <3>2. -1 - s = (-1 - n) + q * m /\ -1 - s \in Int /\ -1 - n \in Int  BY <3>1
    <3>3. Same(-1 - s, -1 - n, m)  BY <3>2 DEF Same
    <3>4. (-1 - s) % m = (-1 - n) % m  BY <3>2, <3>3, SameRest
    <3>5. QED  BY <3>1, <3>2, <3>4
  <2>7. /\ -1 - e.val.v \in Int
        /\ (-1 - e.val.v) % Power[Bits[e.val.ty]] = (-1 - e.cv) % Power[Bits[e.val.ty]]
    BY <1>3, <2>4, <2>5, <2>6
  <2>8. v = Value(ToLLVM(t), -1 - e.val.v) /\ e.val.ty = ToLLVM(t)  BY <2>2
  <2> HIDE DEF t, c, v
  <2>9. v.ty = ToLLVM(t) /\ Stands(v, t.unsigned, InC(-1 - e.cv, t))
    BY <1>3, <1>4, <2>7, <2>8, ResultStands
  <2>10. e.ty.unsigned = t.unsigned /\ IsWide(e.ty)  BY <1>6, <2>2
  <2>11. Stands(v, t.unsigned, c)  BY <2>9 DEF c
  <2>12. QED  BY <1>3, <1>4, <1>5, <2>2, <2>9, <2>10, <2>11, WideHolds DEF ValueHolds
<1>7. OperandOK(x)
  <2> HIDE DEF t, c, v, kept
  <2>1. QED  BY <1>3, <1>4, <1>5, <1>6, NewOperand
<1>8. QED  BY <1>1, <1>7, QuietStep

LEMMA LogicalNotStep ==
  ASSUME ExprInv, LogicalNot
  PROVE  ExprInv'
<1> DEFINE e == Last
           v == Value("i32", 1 - ConvertToBool(e.val))
           c == 1 - InC(e.cv, Signed("BOOL"))
           folded == IF e.folded = <<>> THEN <<>> ELSE <<1 - InC(e.folded[1], Signed("BOOL"))>>
           x == WithFolded(Operand(IntType, v, IntType, c, e.kept), folded, e.plain)
<1>1. Node(1, 1) /\ Replace(1, x) /\ Quiet  BY DEF LogicalNot
<1>2. OperandOK(e)  BY <1>1, Counted, TopOK DEF ExprInv
<1> HIDE DEF e
<1>3. c \in {0, 1}  BY BoolIs
<1>4. e.kept => v = Value("i32", c)  BY <1>2, ConvertedIs
<1>5. e.kept /\ e.plain /\ folded # <<>> => folded[1] = c  BY <1>2 DEF OperandOK
<1>6. /\ ValueHolds(IntType, Value("i32", c), IntType, c) /\ InC(c, IntType) = c /\ c \in Int
      /\ IntType \in CTypes /\ IntType.base = "INT" /\ IntType.base # "PTR"
  BY <1>3, ConditionHolds
<1>7. OperandOK(x)
  <2> HIDE DEF v, c, folded
  <2>1. e.kept => ValueHolds(IntType, v, IntType, c)  BY <1>4, <1>6
  <2>2. QED  BY <1>5, <1>6, <2>1, NewOperand
<1>8. QED  BY <1>1, <1>7, QuietStep

LEMMA LogicalStep ==
  ASSUME ExprInv, NEW op \in {"&&", "||"}, Logical(op)
  PROVE  ExprInv'
<1> DEFINE l == Before
           r == Last
           v == Value("i32", Joined(op, ConvertToBool(l.val), ConvertToBool(r.val)))
           c == Joined(op, InC(l.cv, Signed("BOOL")), InC(r.cv, Signed("BOOL")))
           kept == l.kept /\ r.kept
           plain == l.plain /\ r.plain
           folded == IF l.folded = <<>> \/ r.folded = <<>> THEN <<>>
                     ELSE <<Joined(op, InC(l.folded[1], Signed("BOOL")),
                                   InC(r.folded[1], Signed("BOOL")))>>
           x == WithFolded(Operand(IntType, v, IntType, c, kept), folded, plain)
<1>1. Node(2, 1) /\ Replace(2, x) /\ Quiet  BY DEF Logical
<1>2. OperandOK(l) /\ OperandOK(r)  BY <1>1, Counted, TopOK DEF ExprInv
<1> HIDE DEF l, r
<1>3. c \in {0, 1}
  <2>1. \A a \in {0, 1}, b \in {0, 1} : Joined(op, a, b) \in {0, 1}  BY DEF Joined
  <2>2. QED  BY <2>1, BoolIs
<1>4. kept => v = Value("i32", c)  BY <1>2, ConvertedIs
<1>5. kept /\ plain /\ folded # <<>> => folded[1] = c  BY <1>2 DEF OperandOK
<1>6. /\ ValueHolds(IntType, Value("i32", c), IntType, c) /\ InC(c, IntType) = c /\ c \in Int
      /\ IntType \in CTypes /\ IntType.base = "INT" /\ IntType.base # "PTR"
  BY <1>3, ConditionHolds
<1>7. OperandOK(x)
  <2> HIDE DEF v, c, kept, plain, folded
  <2>1. kept => ValueHolds(IntType, v, IntType, c)  BY <1>4, <1>6
  <2>2. QED  BY <1>5, <1>6, <2>1, NewOperand
<1>8. QED  BY <1>1, <1>7, QuietStep

LEMMA Taken ==
  ASSUME Stack, NEW k \in Nat, Len(operands) >= k, operands' = Take(k)
  PROVE  Stack'
<1>1. PICK S : operands \in Seq(S) /\ \A x \in S : OperandOK(x)  BY DEF Stack
<1>2. Len(operands) \in Nat /\ Len(operands) - k \in Nat /\ Len(operands) - k <= Len(operands)  BY <1>1
<1>3. \A i \in 1 .. Len(operands) : operands[i] \in S  BY <1>1
<1>4. SubSeq(operands, 1, Len(operands) - k) \in Seq(S)  BY <1>1, <1>2, <1>3
<1>5. operands' \in Seq(S)  BY <1>4 DEF Take
<1>6. QED  BY <1>1, <1>5 DEF Stack

LEMMA TestStep ==
  ASSUME ExprInv, Test
  PROVE  ExprInv'
<1> DEFINE e == Last
           t == [taken |-> ConvertToBool(e.val) = 1, meant |-> e.cv # 0,
                 kept |-> e.kept, plain |-> e.plain,
                 folded |-> IF e.folded = <<>> THEN <<>>
                            ELSE <<InC(e.folded[1], Signed("BOOL"))>>,
                 before |-> Len(operands) - 1]
<1>1. operands # <<>> /\ tests' = <<t>> /\ operands' = Take(1) /\ Quiet
      /\ nodes' = nodes /\ status' = status
  BY DEF Test, Generating
<1>2. Len(operands) \in Nat /\ Len(operands) >= 1
  <2>1. PICK S : operands \in Seq(S)  BY DEF ExprInv, Stack
  <2>2. QED  BY <1>1, <2>1
<1>3. OperandOK(e)  BY <1>2, TopOK DEF ExprInv
<1> HIDE DEF e
<1>4. TestOK(t)
  <2>1. t.before \in Nat  BY <1>2
  <2>2. t.kept => t.taken = t.meant  BY <1>3, ConvertedIs
  <2>3. t.plain => t.folded # <<>>  BY <1>3 DEF OperandOK
  <2>4. t.kept /\ t.plain => (t.folded[1] # 0) = t.meant  BY <1>3, BoolIs DEF OperandOK
  <2>5. QED  BY <2>1, <2>2, <2>3, <2>4 DEF TestOK
<1> HIDE DEF t
<1>5. TestsOK'  BY <1>1, <1>4 DEF TestsOK
<1>6. Stack'  BY <1>1, <1>2, Taken DEF ExprInv
<1>7. StoredOK(stored)'  BY <1>1, NothingStored DEF Quiet, StoredOK
<1>8. QED  BY <1>1, <1>5, <1>6, <1>7 DEF ExprInv

\* What a cast makes of an operand that the code keeps is C's conversion of it.
LEMMA CastIs ==
  ASSUME NEW e, OperandOK(e), NEW ty \in CTypes
  PROVE  LET y == CastValue(e.val, e.ty, ToLLVM(ty), ty.base = "BOOL")
             n == InC(e.cv, ty)
         IN  /\ e.kept => y.ty = ToLLVM(ty) /\ Stands(y, ty.unsigned, n)
                            /\ Read(y, ty.unsigned) = n
             /\ n \in Int /\ InC(n, ty) = n
<1> DEFINE y == CastValue(e.val, e.ty, ToLLVM(ty), ty.base = "BOOL")
           n == InC(e.cv, ty)
<1>1. e.ty.unsigned \in BOOLEAN /\ ty.unsigned \in BOOLEAN /\ e.cv \in Int
  BY CTypeIs DEF OperandOK, Typed
<1>2. n \in Int /\ InC(n, ty) = n  BY <1>1, InCIs
<1>3. ASSUME e.kept  PROVE y.ty = ToLLVM(ty) /\ Stands(y, ty.unsigned, n)
  <2> DEFINE x == e.val
             from == e.ty
             m == e.cv
  <2>1. Stands(x, from.unsigned, m) /\ from.unsigned \in BOOLEAN
    BY <1>1, <1>3 DEF OperandOK, Held
  <2> HIDE DEF x, from, m
  <2>2. LET z == CastValue(x, from, ToLLVM(ty), ty.base = "BOOL")
        IN  z.ty = ToLLVM(ty) /\ Stands(z, ty.unsigned, InC(m, ty))
    BY <2>1, CastStands DEF CastValue
  <2>3. QED  BY <2>2 DEF x, from, m
<1> HIDE DEF y, n
<1>4. e.kept => Read(y, ty.unsigned) = n  BY <1>1, <1>3, ReadIs
<1>5. QED  BY <1>2, <1>3, <1>4 DEF y, n

\* A value of the type of its node holds it.
LEMMA OwnTypeHolds ==
  ASSUME NEW ty \in CTypes, NEW val, NEW n, val.ty = ToLLVM(ty), Stands(val, ty.unsigned, n),
         InC(n, ty) = n
  PROVE  ValueHolds(ty, val, ty, n)
BY DEF ValueHolds, HeldAs, Agree, ToLLVM

\* Only a pointer is cast to a pointer, and it stays where it was.
LEMMA PlaceIs ==
  ASSUME NEW e, Typed(e), NEW ty \in CTypes, CanCast(e, ty), ty.base = "PTR"
  PROVE  InC(e.cv, ty) \in 1 .. Elements + 1
<1>1. e.cv \in 1 .. Elements + 1 /\ e.cv \in Int  BY DEF CanCast, Typed
<1>2. ~IsInt(ty)  BY DEF IsInt, Narrow, Wide
<1>3. QED  BY <1>1, <1>2, InCIs

LEMMA CastStep ==
  ASSUME ExprInv, NEW ty \in Variables, Cast(ty)
  PROVE  ExprInv'
<1> DEFINE e == Last
           v == CastValue(e.val, e.ty, ToLLVM(ty), ty.base = "BOOL")
           c == InC(e.cv, ty)
           plain == FALSE
           x == WithFolded(Operand(ty, v, ty, c, e.kept), e.folded, plain)
<1>1. Node(1, 1) /\ CanCast(e, ty) /\ Replace(1, x) /\ Quiet  BY DEF Cast
<1>2. OperandOK(e) /\ Typed(e)  BY <1>1, Counted, TopOK DEF ExprInv, OperandOK
<1>3. ty \in CTypes  BY ValuesAssumption
<1> HIDE DEF e
<1>4. c \in Int /\ InC(c, ty) = c /\ (e.kept => ValueHolds(ty, v, ty, c))
  BY <1>2, <1>3, CastIs, OwnTypeHolds
<1>5. ty.base = "PTR" => c \in 1 .. Elements + 1  BY <1>1, <1>2, <1>3, PlaceIs
<1>6. OperandOK(x)
  <2>1. ~plain  OBVIOUS
  <2> HIDE DEF v, c, plain
  <2>2. QED  BY <1>3, <1>4, <1>5, <2>1, NewOperand
<1>7. QED  BY <1>1, <1>6, QuietStep

\* The value of an assignment that is not changed by the conversion to the type.
LEMMA AssignedOK ==
  ASSUME NEW ty \in CTypes, NEW val, NEW cv \in Int, NEW u \in BOOLEAN, NEW kept,
         ty.base = "PTR" => InC(cv, ty) \in 1 .. Elements + 1,
         kept => Stands(val, u, cv)
  PROVE  OperandOK(Assigned(ty, val, cv, kept))
<1> DEFINE n == InC(cv, ty)
           k == kept /\ val.ty = ToLLVM(ty) /\ n = cv
<1>1. n \in Int /\ InC(n, ty) = n /\ (IsInt(ty) => InRange(n, ty.unsigned, Bits[ToLLVM(ty)]))
  BY InCIs
<1>2. ToLLVM(ty) \in LLVMInts <=> IsInt(ty)  BY LLVMTypeIs
<1>3. Assigned(ty, val, cv, kept) = Operand(ty, val, ty, n, k)  BY DEF Assigned
<1>4. ASSUME k  PROVE ValueHolds(ty, val, ty, n)
  <2>1. Stands(val, ty.unsigned, n)  BY <1>1, <1>2, <1>4 DEF Stands
  <2>2. QED  BY <1>1, <1>4, <2>1, OwnTypeHolds
<1> HIDE DEF n, k
<1>5. ty.base = "PTR" => n \in 1 .. Elements + 1  BY DEF n
<1>6. OperandOK(Operand(ty, val, ty, n, k))  BY <1>1, <1>4, <1>5, NewOperand
<1>7. QED  BY <1>3, <1>6

\* What is stored and what is left of an operand.
LEMMA StoringStep ==
  ASSUME ExprInv, NEW k \in Nat, NEW made \in Nat, Node(k, made), NEW e, OperandOK(e),
         Replace(k, e), NEW slot, NEW val, NEW ty, NEW cv, NEW kept,
         Stores(slot, val, ty, cv, kept),
         kept => val.ty = slot /\ Read(val, ty.unsigned) = cv
  PROVE  ExprInv'
<1>1. Len(operands) >= k  BY Counted
<1>2. Stack'  BY <1>1, Replaced DEF ExprInv
<1>3. StoredOK(stored')  BY DEF Stores, StoredOK
<1>4. StoredOK(stored)'  BY <1>3 DEF StoredOK
<1>5. QED  BY <1>2, <1>4, Counted DEF ExprInv

LEMMA AssignStep ==
  ASSUME ExprInv, NEW ty \in Variables, Assign(ty)
  PROVE  ExprInv'
<1> DEFINE e == Last
           v == CastValue(e.val, e.ty, ToLLVM(ty), ty.base = "BOOL")
           c == InC(e.cv, ty)
           x == Assigned(ty, e.val, e.cv, e.kept)
<1>1. Node(1, 2) /\ CanCast(e, ty) /\ Stores(ToLLVM(ty), v, ty, c, e.kept) /\ Replace(1, x)
  BY DEF Assign
<1>2. OperandOK(e) /\ Typed(e)  BY <1>1, Counted, TopOK DEF ExprInv, OperandOK
<1>3. ty \in CTypes  BY ValuesAssumption
<1> HIDE DEF e
<1>4. e.kept => v.ty = ToLLVM(ty) /\ Read(v, ty.unsigned) = c  BY <1>2, <1>3, CastIs
<1>5. ty.base = "PTR" => c \in 1 .. Elements + 1  BY <1>1, <1>2, <1>3, PlaceIs
<1>6. OperandOK(x)
  <2>1. e.cv \in Int /\ e.ty.unsigned \in BOOLEAN  BY <1>2, CTypeIs DEF Typed
  <2>2. e.kept => Stands(e.val, e.ty.unsigned, e.cv)  BY <1>2 DEF OperandOK, Held
  <2>3. QED  BY <1>3, <1>5, <2>1, <2>2, AssignedOK
<1> HIDE DEF v, c, x
<1>7. QED  BY <1>1, <1>4, <1>6, StoringStep

LEMMA CompoundStep ==
  ASSUME ExprInv, NEW op \in CompoundOps, NEW ty \in Variables, NEW place \in Places(ty),
         NEW n \in ValuesOf[ty], Compound(op, place, ty, n)
  PROVE  ExprInv'
<1> DEFINE e == Last
           l == VariableOperand(place, ty, n)
           t == CType(op, l.cty, e.cty)
           b == BinaryValue(op, NoType, l, e)
           cv == CValue(op, l, e)
           kept == Keeps(op, l, e)
           r == BinaryOperand(op, NoType, l, e)
           v == CastValue(b, NoType, ToLLVM(ty), ty.base = "BOOL")
           c == InC(cv, ty)
           x == Assigned(ty, b, cv, kept)
<1>1. r.val = b /\ r.cty = t /\ r.cv = cv /\ r.kept = kept  BY DEF BinaryOperand, Operand
<1>2. /\ Node(1, 3) /\ Defined(op, l, e) /\ ~IsRefused(op, l, e)
      /\ op \in {"/", ">>"} => b.ty \in LLVMReals
      /\ CanCast(r, ty) /\ Stores(ToLLVM(ty), v, ty, c, kept) /\ Replace(1, x)
  BY <1>1 DEF Compound
<1>3. OperandOK(e)  BY <1>2, Counted, TopOK DEF ExprInv
<1>4. place \in BOOLEAN  BY DEF Places
<1>5. OperandOK(l) /\ l.ty = ty /\ l.cty = ty  BY <1>4, VariableOK
<1>6. ty \in CTypes  BY ValuesAssumption
<1>7. op \in Operators  BY DEF CompoundOps, Operators, Arithmetic, Shifts
<1>8. ty.base = "PTR" => t.base = "PTR"  BY <1>1, <1>2 DEF CanCast
<1> HIDE DEF e, l, r
<1>9. Typed(l) /\ Typed(e) /\ (kept => Held(l) /\ Held(e))
  BY <1>3, <1>5 DEF OperandOK, Keeps
<1>10. /\ t \in CTypes /\ cv \in Int
       /\ t.base = "PTR" => cv \in 1 .. Elements + 1
  BY <1>2, <1>7, <1>9, ValueIs
<1>11. c \in Int /\ InC(c, ty) = c /\ (~IsInt(ty) => c = cv) /\ ty.unsigned \in BOOLEAN
       /\ t.unsigned \in BOOLEAN
  BY <1>6, <1>10, InCIs, CTypeIs
<1>12. ASSUME kept  PROVE /\ Stands(b, t.unsigned, cv)
                          /\ v.ty = ToLLVM(ty) /\ Stands(v, ty.unsigned, c)
  BY <1>2, <1>5, <1>8, <1>9, <1>12, CompoundStands
<1> HIDE DEF b, t, cv, v, kept
<1>13. kept => Read(v, ty.unsigned) = c  BY <1>11, <1>12, ReadIs
<1>14. ty.base = "PTR" => c \in 1 .. Elements + 1
  <2>1. ty.base = "PTR" => ~IsInt(ty)  BY DEF IsInt, Narrow, Wide
  <2>2. QED  BY <1>8, <1>10, <1>11, <2>1
<1>15. OperandOK(x)  BY <1>6, <1>10, <1>11, <1>12, <1>14, AssignedOK
<1> HIDE DEF c, x
<1>16. QED  BY <1>2, <1>12, <1>13, <1>15, StoringStep

LEMMA Ends ==
  ASSUME ExprInv, NEW end \in {"crashed", "refused"}, EndAs(end)
  PROVE  ExprInv'
<1>1. Stack'  BY Emptied DEF EndAs
<1>2. TestsOK'  BY DEF EndAs, TestsOK
<1>3. StoredOK(stored)'  BY NothingStored DEF EndAs, StoredOK
<1>4. QED  BY <1>1, <1>2, <1>3 DEF EndAs, ExprInv

LEMMA DiscardStep ==
  ASSUME ExprInv, Discard
  PROVE  ExprInv'
<1>1. Stack'  BY Emptied DEF Discard
<1>2. TestsOK'  BY DEF Discard, TestsOK
<1>3. StoredOK(stored)'  BY NothingStored DEF Discard, Quiet, StoredOK
<1>4. QED  BY <1>1, <1>2, <1>3 DEF Discard, Generating, ExprInv

\* The operand that is stored leaves nothing behind it.
LEMMA Passed ==
  ASSUME ExprInv, Generating, tests = <<>>, operands' = <<>>, UNCHANGED <<tests, nodes>>,
         NEW slot, NEW val, NEW ty, NEW cv, NEW kept, Stores(slot, val, ty, cv, kept),
         kept => val.ty = slot /\ Read(val, ty.unsigned) = cv
  PROVE  ExprInv'
<1>1. Stack'  BY Emptied
<1>2. TestsOK'  BY DEF TestsOK
<1>3. StoredOK(stored')  BY DEF Stores, StoredOK
<1>4. StoredOK(stored)'  BY <1>3 DEF StoredOK
<1>5. QED  BY <1>1, <1>2, <1>4 DEF Generating, ExprInv

LEMMA ConvertStep ==
  ASSUME ExprInv, NEW ty \in Variables, NEW argument \in BOOLEAN, Convert(ty, argument)
  PROVE  ExprInv'
<1> DEFINE e == Last
           v == CastValue(e.val, e.ty, ToLLVM(ty), ty.base = "BOOL" /\ ~argument)
           c == InC(e.cv, ty)
           kept == e.kept /\ (argument => ty.base # "BOOL")
<1>1. /\ Generating /\ tests = <<>> /\ operands' = <<>> /\ UNCHANGED <<tests, nodes>>
      /\ Stores(ToLLVM(ty), v, ty, c, kept) /\ Len(operands) = 1
  BY DEF Convert
<1>2. OperandOK(e)  BY <1>1, TopOK DEF ExprInv
<1>3. ty \in CTypes  BY ValuesAssumption
<1> HIDE DEF e
<1>4. ASSUME kept  PROVE v.ty = ToLLVM(ty) /\ Read(v, ty.unsigned) = c
  <2>1. v = CastValue(e.val, e.ty, ToLLVM(ty), ty.base = "BOOL")
    BY <1>4 DEF CastValue
  <2>2. QED  BY <1>2, <1>3, <1>4, <2>1, CastIs
<1> HIDE DEF v, c, kept
<1>5. QED  BY <1>1, <1>4, Passed

LEMMA InitializeGlobalStep ==
  ASSUME ExprInv, NEW ty \in Variables, InitializeGlobal(ty)
  PROVE  ExprInv'
<1> DEFINE e == Last
           v == Constant(e, ty)
           c == InC(e.cv, ty)
           kept == e.kept /\ e.plain /\ ty.base # "BOOL"
<1>1. /\ Generating /\ tests = <<>> /\ operands' = <<>> /\ UNCHANGED <<tests, nodes>>
      /\ Stores(ToLLVM(ty), v, ty, c, kept) /\ Len(operands) = 1
      /\ IsInt(e.ty) /\ IsInt(ty)
  BY DEF InitializeGlobal
<1>2. OperandOK(e)  BY <1>1, TopOK DEF ExprInv
<1>3. ty \in CTypes /\ ToLLVM(ty) \in LLVMTypes /\ ty.unsigned \in BOOLEAN
  BY ValuesAssumption, LLVMTypeIs, CTypeIs
<1> HIDE DEF e
<1>4. ASSUME kept  PROVE v.ty = ToLLVM(ty) /\ Read(v, ty.unsigned) = c
  <2> DEFINE x == Value(ToLLVM(e.ty), e.cv)
             u == e.ty.unsigned
             y == Value(ToLLVM(ty), e.cv)
  <2>1. e.folded[1] = e.cv /\ e.cv \in Int /\ InC(e.cv, e.ty) = e.cv /\ e.ty \in CTypes
    BY <1>2, <1>4 DEF OperandOK, Held, Typed
  <2>2. u \in BOOLEAN /\ ToLLVM(e.ty) \in LLVMTypes /\ ToLLVM(e.ty) \in LLVMInts
    BY <1>1, <2>1, CTypeIs, LLVMTypeIs
  <2>3. InRange(e.cv, u, Bits[ToLLVM(e.ty)])  BY <1>1, <2>1, InCIs
  <2>4. Stands(x, u, e.cv)  BY <2>1, <2>2, <2>3, ValueStands
  <2> HIDE DEF x
  <2>5. Read(x, u) = e.cv  BY <2>2, <2>4, ReadIs
  <2>6. v = y  BY <2>1, <2>5 DEF Constant, x
  <2>7. /\ c \in Int /\ InRange(c, ty.unsigned, Bits[ToLLVM(ty)])
        /\ e.cv % Power[Bits[ToLLVM(ty)]] = c % Power[Bits[ToLLVM(ty)]]
        /\ ToLLVM(ty) \in LLVMInts
    BY <1>1, <1>3, <1>4, <2>1, InCIs, LLVMTypeIs
  <2>8. y.ty = ToLLVM(ty) /\ Stands(y, ty.unsigned, c)  BY <1>3, <2>1, <2>7, ValueStands
  <2> HIDE DEF y
  <2>9. Read(y, ty.unsigned) = c  BY <1>3, <2>8, ReadIs
  <2>10. QED  BY <2>6, <2>8, <2>9
<1> HIDE DEF v, c, kept
<1>5. QED  BY <1>1, <1>4, Passed

\* What a variable of a wide type holds, and the 1 that is added to it.
LEMMA CounterOK ==
  ASSUME NEW ty \in Variables, NEW n \in ValuesOf[ty]
  PROVE  /\ OperandOK(Operand(ty, Value(ToLLVM(ty), n), ty, n, IsWide(ty)))
         /\ OperandOK(Operand(IntType, Value("i32", 1), IntType, 1, TRUE))
<1> DEFINE v == Value(ToLLVM(ty), n)
           kept == IsWide(ty)
           w == Value("i32", 1)
           yes == TRUE
<1>1. ty \in CTypes /\ n \in Int /\ InC(n, ty) = n /\ (ty.base = "PTR" => n \in 1 .. Elements + 1)
  BY ValuesAssumption
<1>2. /\ ToLLVM(ty) \in LLVMTypes /\ ty.unsigned \in BOOLEAN
      /\ ToLLVM(ty) \in LLVMInts <=> IsInt(ty)
      /\ IsInt(ty) => InRange(n, ty.unsigned, Bits[ToLLVM(ty)])
  BY <1>1, LLVMTypeIs, CTypeIs, InCIs
<1>3. v.ty = ToLLVM(ty) /\ Stands(v, ty.unsigned, n)  BY <1>1, <1>2, ValueStands
<1>4. /\ ValueHolds(IntType, w, IntType, 1) /\ InC(1, IntType) = 1 /\ 1 \in Int
      /\ IntType \in CTypes /\ IntType.base # "PTR"
  BY ConditionHolds
<1> HIDE DEF v, kept, w, yes
<1>5. ValueHolds(ty, v, ty, n)  BY <1>1, <1>3, OwnTypeHolds
<1>6. OperandOK(Operand(ty, v, ty, n, kept))  BY <1>1, <1>5, NewOperand
<1>7. OperandOK(Operand(IntType, w, IntType, 1, yes))  BY <1>4, NewOperand
<1>8. QED  BY <1>6, <1>7 DEF v, kept, w, yes

\* 1 is added to a variable of a wide type as C adds it.
LEMMA CounterStands ==
  ASSUME NEW ty \in CTypes, ~IsReal(ty), IsWide(ty), NEW op \in {"+", "-"}, NEW old, NEW one,
         Typed(old), Typed(one), Held(old), Held(one), old.kept, one.kept,
         old.ty = ty, old.cty = ty, one.ty = IntType, one.cty = IntType,
         old.val.ty = ToLLVM(ty), one.val.ty = "i32", Defined(op, old, one)
  PROVE  LET new == BinaryValue(op, NoType, old, one)
         IN  CType(op, ty, IntType) = ty
               /\ new.ty = ToLLVM(ty) /\ Stands(new, ty.unsigned, CValue(op, old, one))
<1>1. /\ op \in Operators /\ op \in Unsigned /\ op \in Arithmetic
      /\ op \notin Comparisons /\ op \notin Shifts /\ op \notin {"%", "&"}
  BY DEF Operators, Unsigned, Arithmetic, Comparisons, Shifts
<1>2. /\ IntType \in CTypes /\ IntType.base = "INT" /\ IntType.unsigned = FALSE /\ IsWide(IntType)
      /\ IntType.base \notin Reals \cup {"PTR"}
  BY IntTypeIs DEF IsWide, Wide, Reals
<1>3. NoType.unsigned \in BOOLEAN  BY DEF NoType, Signed
<1>4. Fits(op, ty, IntType)  BY DEF Defined
<1>5. ty.base \notin Narrow /\ (ty.base = "PTR" \/ (ty.base # "PTR" /\ IsInt(ty) /\ ty.base \notin Reals))
  BY DEF IsWide, IsReal, IsInt, Narrow, Wide, Reals
<1>6. ty.base = "PTR" => ty = Pointer
  <2>1. ty = [base |-> ty.base, unsigned |-> ty.unsigned]
        /\ (ty.unsigned => ty.base \in UnsignedBases) /\ ty.unsigned \in BOOLEAN
    BY CTypeIs
  <2>2. QED  BY <2>1 DEF UnsignedBases, Pointer, Signed
<1>7. CType(op, ty, IntType) = ty
  BY <1>1, <1>2, <1>4, <1>5, <1>6, CTypeOf, UsualOfInt
<1>8. PointerOp(op, old, one) <=> ty.base = "PTR"  BY <1>2 DEF PointerOp
<1>9. /\ ty.base = "PTR" <=> ToLLVM(ty) = "ptr"
      /\ ToLLVM(ty) \in LLVMInts <=> IsInt(ty)
      /\ "i32" \in LLVMInts /\ "ptr" \notin LLVMInts /\ LLVMInts \cap LLVMReals = {}
  BY LLVMTypeIs DEF LLVMInts, LLVMReals
<1>10. CASE ty.base = "PTR"
  <2>1. Address(old, one) = old /\ Index(old, one) = one  BY <1>10 DEF Address, Index
  <2>2. ~IsRefused(op, old, one)  BY <1>2, <1>8, <1>9, <1>10, <2>1 DEF IsRefused
  <2>3. Keeps(op, old, one)  BY <1>2, <1>8, <1>10, <2>1, <1>1 DEF Keeps
  <2>4. QED  BY <1>1, <1>3, <1>7, <2>2, <2>3, BinaryStands
<1>11. CASE ty.base # "PTR"
  <2>1. {old.val.ty, one.val.ty} \cap LLVMReals = {} /\ "ptr" \notin {old.val.ty, one.val.ty}
    BY <1>5, <1>9, <1>11
  <2>2. ~IsRefused(op, old, one)  BY <1>1, <1>8, <1>11, <2>1 DEF IsRefused
  <2>3. Keeps(op, old, one)  BY <1>1, <1>2, <1>5, <1>8, <1>11 DEF Keeps
  <2>4. QED  BY <1>1, <1>3, <1>7, <2>2, <2>3, BinaryStands
<1>12. QED  BY <1>10, <1>11

LEMMA IncDecStep ==
  ASSUME ExprInv, NEW ty \in Variables, NEW op \in {"+", "-"}, NEW pre \in BOOLEAN,
         NEW n \in ValuesOf[ty], IncDec(ty, n, op, pre)
  PROVE  ExprInv'
<1> DEFINE old == Operand(ty, Value(ToLLVM(ty), n), ty, n, IsWide(ty))
           one == Operand(IntType, Value("i32", 1), IntType, 1, TRUE)
           x   == IF ty.base = "PTR" THEN old.val ELSE MatchTypes(old.val, ty, "i32")
           new == BinaryValue(op, NoType, old, one)
           cv  == CExact(op, old, one)
           c   == InC(cv, ty)
           v   == IF pre THEN new ELSE x
           d   == IF pre THEN c ELSE n
           kept == old.kept
           e   == Operand(ty, v, ty, d, kept)
<1>1. /\ Node(0, 2) /\ ~IsReal(ty) /\ Defined(op, old, one)
      /\ Stores(ToLLVM(ty), new, ty, c, kept) /\ Push(e)
  BY DEF IncDec
<1>2. /\ old.ty = ty /\ old.cty = ty /\ old.cv = n /\ old.kept = IsWide(ty)
      /\ old.val = Value(ToLLVM(ty), n)
      /\ one.ty = IntType /\ one.cty = IntType /\ one.kept = TRUE /\ one.val = Value("i32", 1)
  BY DEF Operand
<1>3. OperandOK(old) /\ OperandOK(one)  BY CounterOK
<1>4. ty \in CTypes /\ n \in Int /\ InC(n, ty) = n /\ (ty.base = "PTR" => n \in 1 .. Elements + 1)
  BY ValuesAssumption
<1>5. old.val.ty = ToLLVM(ty) /\ one.val.ty = "i32"
  <2>1. \A lt, m : Value(lt, m).ty = lt  BY DEF Value
  <2> HIDE DEF old, one
  <2>2. QED  BY <1>2, <2>1
<1> HIDE DEF old, one
<1>6. Typed(old) /\ Typed(one) /\ Held(one) /\ (kept => Held(old))
  BY <1>2, <1>3 DEF OperandOK
<1>7. op \in Operators /\ op \in Arithmetic  BY DEF Operators, Arithmetic
<1>8. cv \in Int  BY <1>1, <1>6, <1>7, ExactIs
<1>9. c \in Int /\ InC(c, ty) = c /\ (~IsInt(ty) => c = cv) /\ ty.unsigned \in BOOLEAN
  BY <1>4, <1>8, InCIs, CTypeIs
<1>10. ty.base = "PTR" => c \in 1 .. Elements + 1
  <2>1. SUFFICES ASSUME ty.base = "PTR"  PROVE c \in 1 .. Elements + 1
    OBVIOUS
  <2>2. IsWide(ty) /\ ~IsInt(ty)  BY <2>1 DEF IsWide, IsInt, Narrow, Wide
  <2>3. CType(op, ty, IntType) = ty
    BY <1>1, <1>2, <1>4, <1>5, <1>6, <2>2, CounterStands
  <2>4. cv \in 1 .. Elements + 1  BY <1>1, <1>2, <2>1, <2>3 DEF Defined
  <2>5. QED  BY <1>9, <2>2, <2>4
<1>11. ASSUME kept
       PROVE  /\ new.ty = ToLLVM(ty) /\ Stands(new, ty.unsigned, c)
              /\ x.ty = ToLLVM(ty) /\ Stands(x, ty.unsigned, n)
  <2>1. IsWide(ty) /\ Held(old)  BY <1>2, <1>6, <1>11
  <2>2. CType(op, ty, IntType) = ty /\ new.ty = ToLLVM(ty)
        /\ Stands(new, ty.unsigned, CValue(op, old, one))
    BY <1>1, <1>2, <1>4, <1>5, <1>6, <1>11, <2>1, CounterStands
  <2>3. CValue(op, old, one) = c  BY <1>2, <2>2 DEF CValue
  <2>4. Stands(old.val, ty.unsigned, n)  BY <1>2, <2>1 DEF Held
  <2>5. x.ty = ToLLVM(ty) /\ Stands(x, ty.unsigned, n)
    <3>1. CASE ty.base = "PTR"  BY <1>5, <2>4, <3>1
    <3>2. CASE ty.base # "PTR"
      <4>1. ty.base \notin Narrow  BY <2>1 DEF IsWide, Narrow, Wide, Reals
      <4>2. Met(ToLLVM(ty), "i32") = ToLLVM(ty)  BY <1>4, <3>2, <4>1, NarrowMeets
      <4>3. "i32" \in LLVMInts /\ "i32" \in LLVMTypes  BY DEF LLVMInts, LLVMTypes
      <4>4. x = MatchTypes(old.val, ty, "i32")  BY <3>2
      <4>5. QED  BY <1>5, <1>9, <2>4, <4>2, <4>3, <4>4, Matched
    <3>3. QED  BY <3>1, <3>2
  <2>6. QED  BY <2>2, <2>3, <2>5
<1> HIDE DEF x, new, c, kept
<1>12. OperandOK(e)
  <2>1. d \in Int /\ InC(d, ty) = d /\ (ty.base = "PTR" => d \in 1 .. Elements + 1)
    BY <1>4, <1>9, <1>10
  <2>2. kept => v.ty = ToLLVM(ty) /\ Stands(v, ty.unsigned, d)  BY <1>11
  <2> HIDE DEF v, d
  <2>3. kept => ValueHolds(ty, v, ty, d)  BY <1>4, <2>1, <2>2, OwnTypeHolds
  <2>4. QED  BY <1>4, <2>1, <2>3, NewOperand
<1> HIDE DEF e
<1>13. kept => Read(new, ty.unsigned) = c  BY <1>9, <1>11, ReadIs
<1>14. Stack'  BY <1>1, <1>12, OperandPushed DEF ExprInv
<1>15. StoredOK(stored)'
  <2>1. StoredOK(stored')  BY <1>1, <1>11, <1>13 DEF Stores, StoredOK
  <2>2. QED  BY <2>1 DEF StoredOK
<1>16. QED  BY <1>1, <1>14, <1>15, Counted DEF ExprInv

\* int has the values of the types that are promoted to it.
LEMMA NarrowIsInt ==
  ASSUME NEW s \in CTypes, s.base \in Narrow, NEW n \in Int, InC(n, s) = n
  PROVE  InC(n, IntType) = n
<1>1. IsInt(s) /\ s.unsigned \in BOOLEAN /\ ToLLVM(s) \in {"i8", "i16"}
  BY CTypeIs DEF IsInt, Narrow, ToLLVM
<1>2. Bits[ToLLVM(s)] \in Width /\ Bits["i32"] \in Bits[ToLLVM(s)] .. Most
      /\ Bits[ToLLVM(s)] < Bits["i32"]
  BY <1>1, WidthsAreNat, WidthsAssumption DEF Width, Most, LLVMInts
<1>3. InRange(n, s.unsigned, Bits[ToLLVM(s)])  BY <1>1, InCIs
<1>4. InRange(n, FALSE, Bits["i32"])  BY <1>1, <1>2, <1>3, WiderRange
<1>5. /\ IntType \in CTypes /\ IsInt(IntType) /\ IntType.base # "BOOL" /\ ToLLVM(IntType) = "i32"
      /\ IntType.unsigned = FALSE
  BY IntTypeIs DEF IsInt, Wide, ToLLVM
<1>6. InRange(n, IntType.unsigned, Bits[ToLLVM(IntType)])  BY <1>4, <1>5 DEF InRange
<1>7. QED  BY <1>5, <1>6, InCOfRange

LEMMA CommonOfSame ==
  ASSUME NEW s \in CTypes, s.base # "PTR"
  PROVE  GetCommonType(s, s) = s
<1>1. s = [base |-> s.base, unsigned |-> s.unsigned] /\ s.unsigned \in BOOLEAN /\ s.base \in CBases
  BY CTypeIs
<1>2. GetTypeRank(s) \in Int  BY <1>1 DEF GetTypeRank, CBases
<1>3. GetCommonType(s, s) = [s EXCEPT !.unsigned = s.unsigned \/ s.unsigned]
  BY <1>2 DEF GetCommonType
<1>4. (s.unsigned \/ s.unsigned) = s.unsigned  BY <1>1
<1>5. QED  BY <1>1, <1>3, <1>4

\* A branch of `?:', cast to the common type of the branches.
LEMMA BranchHolds ==
  ASSUME NEW l, NEW r, OperandOK(l), OperandOK(r), l.kept, r.kept,
         IsWide(l.ty) \/ IsWide(r.ty) \/ l.ty = r.ty,
         (l.cty.base = "PTR") <=> (r.cty.base = "PTR"),
         l.ty.base = "PTR" => l.cty.base = "PTR", r.ty.base = "PTR" => r.cty.base = "PTR",
         NEW b \in {l, r}
  PROVE  LET ty == GetCommonType(l.ty, r.ty)
             cty == IF l.cty.base = "PTR" THEN Pointer ELSE Usual(l.cty, r.cty)
         IN  ValueHolds(ty, Branch(b, ty), cty, InC(b.cv, cty))
<1> DEFINE ty == GetCommonType(l.ty, r.ty)
           cty == IF l.cty.base = "PTR" THEN Pointer ELSE Usual(l.cty, r.cty)
           v == Branch(b, ty)
<1>1. Typed(l) /\ Typed(r) /\ Held(l) /\ Held(r)  BY DEF OperandOK
<1>2. /\ l.ty \in CTypes /\ r.ty \in CTypes /\ l.cty \in CTypes /\ r.cty \in CTypes
      /\ l.cv \in Int /\ r.cv \in Int
  BY <1>1 DEF Typed
<1>3. ty \in CTypes /\ ty.base \in {l.ty.base, r.ty.base}  BY <1>2, CommonIsType
<1>4. OperandOK(b) /\ b.kept /\ b.cv \in Int  BY <1>2
<1> HIDE DEF ty
<1>5. /\ v.ty = ToLLVM(ty) /\ Stands(v, ty.unsigned, InC(b.cv, ty))
      /\ InC(b.cv, ty) \in Int /\ InC(InC(b.cv, ty), ty) = InC(b.cv, ty)
  BY <1>3, <1>4, CastIs DEF Branch
<1> HIDE DEF v
<1>6. cty = ty => ValueHolds(ty, v, cty, InC(b.cv, cty))  BY <1>3, <1>5, OwnTypeHolds
<1>7. CASE l.cty.base = "PTR"
  <2>1. l.ty = Pointer  BY <1>1, <1>7, HeldKinds
  <2>2. ty = Pointer  BY <2>1, IntTypeIs DEF ty, GetCommonType
  <2>3. QED  BY <1>6, <1>7, <2>2 DEF ty, v
<1>8. CASE l.cty.base # "PTR" /\ (IsWide(l.ty) \/ IsWide(r.ty))
  <2>1. r.cty.base # "PTR" /\ l.ty.base # "PTR" /\ r.ty.base # "PTR"  BY <1>8
  <2>2. Agree(l.ty, l.cty) /\ Agree(r.ty, r.cty)  BY <1>1 DEF Held
  <2>3. IsWide(ty) /\ Agree(ty, cty)  BY <1>2, <1>8, <2>1, <2>2, CommonAgrees DEF ty
  <2>4. ty.base # "PTR" /\ ty.base \notin Narrow  BY <1>3, <2>1, <2>3 DEF IsWide, Narrow, Wide, Reals
  <2>5. cty = ty  BY <2>3, <2>4, IntTypeIs DEF Agree
  <2>6. QED  BY <1>6, <2>5 DEF ty, v
<1>9. CASE l.cty.base # "PTR" /\ ~IsWide(l.ty) /\ l.ty = r.ty
  <2>1. /\ l.ty.base \in Narrow /\ Promoted(l.cty) = IntType /\ Promoted(r.cty) = IntType
    BY <1>1, <1>9, HeldKinds
  <2>2. l.ty.base # "PTR"  BY <2>1 DEF Narrow
  <2>3. ty = l.ty  BY <1>2, <1>9, <2>2, CommonOfSame DEF ty
  <2>4. cty = IntType
    <3>1. Usual(l.cty, r.cty) = Usual(IntType, IntType)
      BY <2>1, IntTypeIs, UsualIs DEF Promoted, Narrow
    <3>2. QED  BY <1>9, <3>1, IntsMeet
  <2>5. InC(b.cv, ty) = b.cv  BY <1>1, <1>9, <2>3 DEF Held
  <2>6. InC(b.cv, cty) = b.cv  BY <1>3, <1>4, <2>1, <2>3, <2>4, <2>5, NarrowIsInt
  <2>7. Agree(ty, cty)  BY <2>1, <2>3, <2>4 DEF Agree
  <2>8. ToLLVM(ty) \in HeldAs(ty, cty)
    <3>1. ty.base = "CHAR" => ToLLVM(ty) = "i8"  BY DEF ToLLVM
    <3>2. QED  BY <2>2, <2>3, <3>1 DEF HeldAs
  <2>9. ValueHolds(ty, v, cty, b.cv)  BY <1>5, <2>5, <2>7, <2>8 DEF ValueHolds
  <2>10. QED  BY <2>6, <2>9 DEF ty, v
<1>10. QED  BY <1>7, <1>8, <1>9

LEMMA ConditionalStep ==
  ASSUME ExprInv, Conditional
  PROVE  ExprInv'
<1> DEFINE e == tests[1]
           l == Before
           r == Last
           ty == GetCommonType(l.ty, r.ty)
           cty == IF l.cty.base = "PTR" THEN Pointer ELSE Usual(l.cty, r.cty)
           taken == IF e.taken THEN l ELSE r
           meant == IF e.meant THEN l ELSE r
           v == Branch(taken, ty)
           c == InC(meant.cv, cty)
           kept == /\ e.kept /\ l.kept /\ r.kept
                   /\ IsWide(l.ty) \/ IsWide(r.ty) \/ l.ty = r.ty
           folded == IF e.folded = <<>> THEN <<>>
                     ELSE IF e.folded[1] # 0 THEN l.folded ELSE r.folded
           plain == e.plain /\ ArePlain(l, r)
           x == WithFolded(Operand(ty, v, cty, c, kept), folded, plain)
<1>1. /\ tests # <<>> /\ Len(operands) = e.before + 2 /\ tests' = <<>>
      /\ status' = status /\ nodes' = nodes /\ Quiet
  BY DEF Conditional, Generating
<1>2. /\ (l.cty.base = "PTR") <=> (r.cty.base = "PTR")
      /\ l.ty.base = "PTR" => l.cty.base = "PTR"
      /\ r.ty.base = "PTR" => r.cty.base = "PTR"
  BY DEF Conditional
<1>3. Replace(2, x)  BY DEF Conditional
<1>4. TestOK(e)  BY <1>1, TestsAre DEF ExprInv
<1>5. Len(operands) >= 2  BY <1>1, <1>4 DEF TestOK
<1>6. OperandOK(l) /\ OperandOK(r)  BY <1>5, TopOK DEF ExprInv
<1> HIDE DEF e, l, r
<1>7. Typed(l) /\ Typed(r)  BY <1>6 DEF OperandOK
<1>8. /\ l.ty \in CTypes /\ r.ty \in CTypes /\ l.cty \in CTypes /\ r.cty \in CTypes
      /\ l.cv \in Int /\ r.cv \in Int
  BY <1>7 DEF Typed
<1>9. ty \in CTypes /\ ty.base \in {l.ty.base, r.ty.base}  BY <1>8, CommonIsType
<1>10. cty \in CTypes /\ (cty.base = "PTR" => l.cty.base = "PTR")
  BY <1>2, <1>8, IntTypeIs, UsualIsType
<1>11. taken \in {l, r} /\ meant \in {l, r} /\ meant.cv \in Int  BY <1>8
<1>12. kept => taken = meant  BY <1>4 DEF TestOK
<1> HIDE DEF ty, cty
<1>13. c \in Int /\ InC(c, cty) = c /\ (~IsInt(cty) => c = meant.cv)
  BY <1>10, <1>11, InCIs
<1>14. cty.base = "PTR" => c \in 1 .. Elements + 1
  <2>1. cty.base = "PTR" => ~IsInt(cty)  BY DEF IsInt, Narrow, Wide
  <2>2. cty.base = "PTR" => meant.cv \in 1 .. Elements + 1  BY <1>2, <1>7, <1>10, <1>11 DEF Typed
  <2>3. QED  BY <1>13, <2>1, <2>2
<1>15. ASSUME kept  PROVE ValueHolds(ty, v, cty, c)
  <2>1. l.kept /\ r.kept /\ (IsWide(l.ty) \/ IsWide(r.ty) \/ l.ty = r.ty)  BY <1>15
  <2>2. taken = meant  BY <1>12, <1>15
  <2> HIDE DEF meant, taken
  <2>3. ValueHolds(ty, Branch(meant, ty), cty, InC(meant.cv, cty))
    BY <1>2, <1>6, <1>11, <2>1, BranchHolds DEF ty, cty
  <2>4. QED  BY <2>2, <2>3
<1>16. ASSUME plain, folded # <<>>  PROVE ty.base = "INT"
  <2>1. l.ty.base = "INT" /\ r.ty.base = "INT"  BY <1>6, <1>16 DEF ArePlain, OperandOK
  <2>2. QED  BY <1>9, <2>1
<1>17. ASSUME kept, plain, folded # <<>>  PROVE folded[1] = c
  <2>1. /\ l.cty = IntType /\ l.folded[1] = l.cv
        /\ r.cty = IntType /\ r.folded[1] = r.cv
    BY <1>6, <1>17, PlainIs DEF ArePlain
  <2>2. cty = IntType  BY <2>1, IntTypeIs, IntsMeet DEF cty
  <2>3. (e.folded[1] # 0) = e.meant /\ e.folded # <<>>  BY <1>4, <1>17 DEF TestOK
  <2>4. folded[1] = meant.cv  BY <2>1, <2>3
  <2>5. InC(meant.cv, IntType) = meant.cv  BY <1>7, <1>11, <2>1 DEF Typed
  <2>6. QED  BY <2>2, <2>4, <2>5
<1>18. OperandOK(x)
  <2> HIDE DEF taken, meant, v, c, kept, folded, plain
  <2>1. QED  BY <1>9, <1>10, <1>13, <1>14, <1>15, <1>16, <1>17, NewOperand
<1> HIDE DEF x
<1>19. Stack'  BY <1>3, <1>5, <1>18, Replaced DEF ExprInv
<1>20. StoredOK(stored)'  BY <1>1, NothingStored DEF Quiet, StoredOK
<1>21. TestsOK'  BY <1>1 DEF TestsOK
<1>22. QED  BY <1>1, <1>19, <1>20, <1>21 DEF ExprInv

-----------------------------------------------------------------------------
(* The theorems *)

LEMMA InvInit ==
  ASSUME ExprInit
  PROVE  ExprInv
<1> DEFINE T == {}
<1>1. operands \in Seq(T)  BY DEF ExprInit
<1>2. \A e \in T : OperandOK(e)  OBVIOUS
<1> HIDE DEF T
<1>3. Stack  BY <1>1, <1>2 DEF Stack
<1>4. StoredOK(stored)  BY NothingStored DEF ExprInit
<1>5. nodes \in 0 .. MaxNodes  BY ValuesAssumption DEF ExprInit
<1>6. QED  BY <1>3, <1>4, <1>5 DEF ExprInit, ExprInv, TestsOK

LEMMA InvNext ==
  ASSUME ExprInv, [ExprNext]_exprVars
  PROVE  ExprInv'
<1>1. CASE UNCHANGED exprVars
  BY <1>1 DEF exprVars, ExprInv, Stack, TestsOK, StoredOK
<1>2. ASSUME NEW ty \in Variables, NEW place \in Places(ty), NEW n \in ValuesOf[ty],
             Variable(place, ty, n)
      PROVE  ExprInv'
  BY <1>2, VariableStep
<1>3. ASSUME NEW n \in Literals, NEW unsigned \in BOOLEAN, Number(n, unsigned)
      PROVE  ExprInv'
  BY <1>3, NumberStep
<1>4. ASSUME NEW op \in Operators, Binary(op)  PROVE ExprInv'
  BY <1>4, BinaryStep
<1>5. ASSUME NEW op \in Operators, BinaryRefused(op)  PROVE ExprInv'
  BY <1>5, Ends DEF BinaryRefused
<1>6. CASE UnaryRefused  BY <1>6, Ends DEF UnaryRefused
<1>7. CASE Minus  BY <1>7, MinusStep
<1>8. CASE BitNot  BY <1>8, BitNotStep
<1>9. CASE LogicalNot  BY <1>9, LogicalNotStep
<1>10. ASSUME NEW op \in {"&&", "||"}, Logical(op)  PROVE ExprInv'
  BY <1>10, LogicalStep
<1>11. CASE Test  BY <1>11, TestStep
<1>12. CASE Conditional  BY <1>12, ConditionalStep
<1>13. ASSUME NEW ty \in Variables, Cast(ty) \/ Assign(ty) \/ InitializeGlobal(ty)
       PROVE  ExprInv'
  BY <1>13, CastStep, AssignStep, InitializeGlobalStep
<1>14. ASSUME NEW ty \in Variables, NEW argument \in BOOLEAN, Convert(ty, argument)
       PROVE  ExprInv'
  BY <1>14, ConvertStep
<1>15. ASSUME NEW op \in CompoundOps, NEW ty \in Variables, NEW place \in Places(ty),
              NEW n \in ValuesOf[ty], Compound(op, place, ty, n)
       PROVE  ExprInv'
  BY <1>15, CompoundStep
<1>16. ASSUME NEW op \in CompoundOps, NEW ty \in Variables, NEW place \in Places(ty),
              NEW n \in ValuesOf[ty], CompoundFails(op, place, ty, n)
       PROVE  ExprInv'
  <2>1. EndAs("crashed") \/ EndAs("refused")  BY <1>16 DEF CompoundFails
  <2>2. QED  BY <2>1, Ends
<1>17. ASSUME NEW ty \in Variables, NEW op \in {"+", "-"}, NEW pre \in BOOLEAN,
              NEW n \in ValuesOf[ty], IncDec(ty, n, op, pre)
       PROVE  ExprInv'
  BY <1>17, IncDecStep
<1>18. CASE Discard  BY <1>18, DiscardStep
<1>19. CASE Ended  BY <1>1, <1>19 DEF Ended
<1>20. QED
  BY <1>1, <1>2, <1>3, <1>4, <1>5, <1>6, <1>7, <1>8, <1>9, <1>10, <1>11, <1>12, <1>13,
     <1>14, <1>15, <1>16, <1>17, <1>18, <1>19 DEF ExprNext

\* Every operand that the code keeps stands for the number that C gives it, in
\* the LLVM type of its node.
THEOREM ExprInvariant == ExprSpec => []ExprInv
<1>1. ExprInit => ExprInv  BY InvInit
<1>2. ExprInv /\ [ExprNext]_exprVars => ExprInv'  BY InvNext
<1>3. QED  BY <1>1, <1>2, PTL DEF ExprSpec

LEMMA OperandsAre ==
  ASSUME Stack, NEW i \in DOMAIN operands
  PROVE  OperandOK(operands[i])
<1>1. PICK S : operands \in Seq(S) /\ \A e \in S : OperandOK(e)  BY DEF Stack
<1>2. operands[i] \in S  BY <1>1
<1>3. QED  BY <1>1, <1>2

\* Operands have C's types, and the LLVM type of their node where the code
\* keeps them: parse.c and codegen.c agree about each of them.
THEOREM OperandsHaveTheirTypes == ExprSpec => []ExprTypeOK
<1>1. ASSUME ExprInv  PROVE ExprTypeOK
  <2>1. ASSUME NEW i \in DOMAIN operands
        PROVE  /\ {operands[i].ty, operands[i].cty} \subseteq CTypes
               /\ InC(operands[i].cv, operands[i].cty) = operands[i].cv
               /\ operands[i].kept =>
                    operands[i].val.ty \in HeldAs(operands[i].ty, operands[i].cty)
    <3>1. OperandOK(operands[i])  BY <1>1, OperandsAre DEF ExprInv
    <3>2. QED  BY <3>1 DEF OperandOK, Typed, Held
  <2>2. stored.kept => stored.val.ty = stored.slot  BY <1>1 DEF ExprInv, StoredOK
  <2>3. QED  BY <1>1, <2>1, <2>2 DEF ExprInv, ExprTypeOK
<1>2. QED  BY <1>1, ExprInvariant, PTL

\* What the code computes and stores is what C says: the conversions of
\* match_types, get_common_type and cast_value are C's.
THEOREM TheValuesAreC == ExprSpec => []ValuesAreC
<1>1. ASSUME ExprInv  PROVE ValuesAreC
  <2>1. ASSUME NEW i \in DOMAIN operands, operands[i].kept
        PROVE  Read(operands[i].val, operands[i].ty.unsigned) = operands[i].cv
    <3> DEFINE e == operands[i]
    <3>1. OperandOK(e)  BY <1>1, OperandsAre DEF ExprInv
    <3>2. e.ty.unsigned \in BOOLEAN  BY <3>1, CTypeIs DEF OperandOK, Typed
    <3>3. Stands(e.val, e.ty.unsigned, e.cv)  BY <2>1, <3>1 DEF OperandOK, Held
    <3> HIDE DEF e
    <3>4. Read(e.val, e.ty.unsigned) = e.cv  BY <3>2, <3>3, ReadIs
    <3>5. QED  BY <3>4 DEF e
  <2>2. stored.kept => Read(stored.val, stored.ty.unsigned) = stored.cv
    BY <1>1 DEF ExprInv, StoredOK
  <2>3. QED  BY <2>1, <2>2 DEF ValuesAreC
<1>2. QED  BY <1>1, ExprInvariant, PTL

\* eval_const_int folds an expression of int to the value that C gives it.
THEOREM TheConstantsAreC == ExprSpec => []ConstantsAreC
<1>1. ASSUME ExprInv  PROVE ConstantsAreC
  <2>1. ASSUME NEW i \in DOMAIN operands, operands[i].kept /\ operands[i].plain
        PROVE  operands[i].folded[1] = operands[i].cv
    <3>1. OperandOK(operands[i])  BY <1>1, OperandsAre DEF ExprInv
    <3>2. QED  BY <2>1, <3>1 DEF OperandOK
  <2>2. QED  BY <2>1 DEF ConstantsAreC
<1>2. QED  BY <1>1, ExprInvariant, PTL
==============================================================================
