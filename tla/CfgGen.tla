------------------------------- MODULE CfgGen -------------------------------
(***************************************************************************)
(* Control flow in codegen.c: how the statements of one function become    *)
(* basic blocks.  codegen() is a recursion over the statement tree; its    *)
(* activations are the frames of `stack', and the tree is the environment: *)
(* every action that visits a node chooses it.  Of an instruction only     *)
(* whether it ends its block is kept; a value, a type and the target of a  *)
(* branch are not.                                                         *)
(***************************************************************************)
EXTENDS Integers, Sequences

CONSTANTS
  Labels,                 \* label names of the function
  Exprs,                  \* shapes of the expressions: see Shapes
  CodeAfterReturn,        \* may a switch body go on after a return?
  MaxStatements,          \* bound: statements of the function
  MaxFrames               \* bound: activations of codegen

Shapes == {"plain", "logical", "ternary"}

ASSUME FlowAssumption ==
  /\ Exprs \subseteq Shapes
  /\ CodeAfterReturn \in BOOLEAN
  /\ MaxStatements \in Nat /\ MaxFrames \in Nat

VARIABLES
  blocks,    \* the basic blocks of the function and what each ends with
  ins,       \* the block of the builder's insertion point
  brk,       \* ctx->current_break_label, or NULL
  cnt,       \* ctx->current_continue_label, or NULL
  sw,        \* ctx->current_switch_inst, named by its break block, or NULL
  labelBB,   \* ctx->current_label_map: the block of a label, or NULL
  placed,    \* the labels whose statements were generated
  skipped,   \* the labels whose statements were not
  stack,     \* activations of codegen, the function's own first
  phase,     \* "stmt": a statement is due; "done": one was generated
  count      \* statements so far

targets == <<brk, cnt, sw>>
labelVars == <<labelBB, placed, skipped>>
vars == <<blocks, ins, targets, labelVars, stack, phase, count>>

NULL == 0

(* A block has no terminator yet, or one that is last, or something was
   emitted behind its terminator. *)
BlockStates == {"open", "closed", "broken"}

FrameKinds ==
  {"function", "block", "then", "else", "while", "for", "switch", "label"}

Frames == [kind : FrameKinds, ret : BOOLEAN, list : BOOLEAN,
           head : Nat, exit : Nat, thenRet : BOOLEAN,
           brk : Nat, cnt : Nat, sw : Nat]

(* An activation keeps what the code keeps in local variables: its has_return
   flag, two blocks, and the targets it will restore. *)
Frame(kind) ==
  [kind |-> kind, ret |-> FALSE, list |-> FALSE, head |-> NULL,
   exit |-> NULL, thenRet |-> FALSE, brk |-> brk, cnt |-> cnt, sw |-> sw]

-----------------------------------------------------------------------------
(* The builder *)

Emit(bs, b) == IF bs[b] = "open" THEN bs ELSE [bs EXCEPT ![b] = "broken"]

Terminate(bs, b) ==
  [bs EXCEPT ![b] = IF bs[b] = "open" THEN "closed" ELSE "broken"]

(* LLVMGetBasicBlockTerminator(b) == NULL guards the branch. *)
TerminateOnce(bs, b) ==
  IF bs[b] = "open" THEN [bs EXCEPT ![b] = "closed"] ELSE bs

New(bs, k) == bs \o [i \in 1 .. k |-> "open"]

(* An expression that starts in block b: its blocks and where it ends. && and
   || add two blocks, ?: adds three; both end in the last. *)
Eval(bs, b, e) ==
  LET n == Len(bs) IN
  CASE e = "plain" -> [bs |-> Emit(bs, b), at |-> b]
    [] e = "logical" ->
         [bs |-> Terminate(Terminate(Emit(New(bs, 2), b), b), n + 1),
          at |-> n + 2]
    [] e = "ternary" ->
         [bs |-> Terminate(Terminate(Terminate(Emit(New(bs, 3), b), b),
                                     n + 1), n + 2),
          at |-> n + 3]

-----------------------------------------------------------------------------
(* Activations *)

Top == stack[Len(stack)]

Below(s) == SubSeq(s, 1, Len(s) - 1)

(* A block and a labelled statement pass on the has_return pointer they were
   given, so the flag that counts is the one of the nearest other frame. *)
SharesFlag(f) == f.kind \in {"block", "label"}

IsOwner(s, i) ==
  /\ ~SharesFlag(s[i])
  /\ \A j \in i + 1 .. Len(s) : SharesFlag(s[j])

HasReturn(s) == \E i \in 1 .. Len(s) : IsOwner(s, i) /\ s[i].ret

SetReturn(s, flag) ==
  [i \in 1 .. Len(s) |->
     IF IsOwner(s, i) THEN [s[i] EXCEPT !.ret = flag] ELSE s[i]]

InSwitch == \E i \in 1 .. Len(stack) : stack[i].kind = "switch"

Init ==
  /\ blocks = <<"open">>
  /\ ins = 1
  /\ brk = NULL /\ cnt = NULL /\ sw = NULL
  /\ labelBB = [l \in Labels |-> NULL]
  /\ placed = {} /\ skipped = {}
  /\ stack = <<[Frame("function") EXCEPT !.list = TRUE]>>
  /\ phase = "stmt"
  /\ count = 0

(* The block of the insertion point has its terminator: in a switch body,
   before the first case or after a return. *)
Closed == blocks[ins] # "open"

(* A statement is due.  The loop over a switch body gives each statement a
   flag of its own. *)
Fresh == IF Top.kind = "switch" THEN [stack EXCEPT ![Len(stack)].ret = FALSE]
         ELSE stack

Due ==
  /\ phase = "stmt"
  /\ count < MaxStatements
  /\ count' = count + 1

(* Any statement but a label or a case goes into the current block.  Code
   before the first case of a switch is left out. *)
Ordinary == Due /\ (Closed => CodeAfterReturn /\ Top.ret)

-----------------------------------------------------------------------------
(* Statements *)

ExprStatement(e) ==
  /\ Ordinary
  /\ LET r == Eval(blocks, ins, e) IN blocks' = r.bs /\ ins' = r.at
  /\ stack' = Fresh
  /\ phase' = "done"
  /\ UNCHANGED <<targets, labelVars>>

(* The empty statement; it is always there to end the function with. *)
EmptyStatement ==
  /\ phase = "stmt" /\ ~Top.list
  /\ phase' = "done"
  /\ stack' = Fresh
  /\ UNCHANGED <<blocks, ins, targets, labelVars, count>>

Return(e) ==
  /\ Ordinary
  /\ LET r == Eval(blocks, ins, e)
     IN  blocks' = Terminate(r.bs, r.at) /\ ins' = r.at
  /\ stack' = SetReturn(Fresh, TRUE)
  /\ phase' = "done"
  /\ UNCHANGED <<targets, labelVars>>

(* A branch, and a block for the code behind it. *)
Jump(bs) ==
  /\ blocks' = New(Terminate(bs, ins), 1)
  /\ ins' = Len(bs) + 1
  /\ stack' = Fresh
  /\ phase' = "done"

Break ==
  /\ Ordinary
  /\ brk # NULL
  /\ Jump(blocks)
  /\ UNCHANGED <<targets, labelVars>>

Continue ==
  /\ Ordinary
  /\ cnt # NULL
  /\ Jump(blocks)
  /\ UNCHANGED <<targets, labelVars>>

(* break outside loop/switch, continue outside loop: exit(1). *)
ExitOnJump ==
  /\ Ordinary
  /\ brk = NULL \/ cnt = NULL
  /\ phase' = "exit"
  /\ UNCHANGED <<blocks, ins, targets, labelVars, stack>>

(* Slip: the label is recorded but no block is appended for it. *)
LabelBlocks_NotAppended(l) == blocks

(* get_or_create_label_bb *)
LabelBlocks(l) == IF labelBB[l] = NULL THEN New(blocks, 1) ELSE blocks

(* Slip: the block recorded is the one before the block appended. *)
LabelMap_Previous(l) == IF labelBB[l] = NULL
                        THEN [labelBB EXCEPT ![l] = Len(blocks)] ELSE labelBB

LabelMap(l) == IF labelBB[l] = NULL
               THEN [labelBB EXCEPT ![l] = Len(blocks) + 1] ELSE labelBB

Goto(l) ==
  /\ Ordinary
  /\ Jump(LabelBlocks(l))
  /\ labelBB' = LabelMap(l)
  /\ UNCHANGED <<targets, placed, skipped>>

(* A label is defined once; its statement is generated next. *)
Label(l) ==
  /\ Due
  /\ Len(stack) < MaxFrames
  /\ l \notin placed \cup skipped
  /\ blocks' = TerminateOnce(LabelBlocks(l), ins)
  /\ labelBB' = LabelMap(l)
  /\ ins' = labelBB'[l]
  /\ placed' = placed \cup {l}
  /\ stack' = Append(Fresh, Frame("label"))
  /\ UNCHANGED <<targets, skipped, phase>>

(* case and default differ in the operand of the switch they set. *)
Case ==
  /\ Due
  /\ InSwitch
  /\ blocks' = TerminateOnce(New(blocks, 1), ins)
  /\ ins' = Len(blocks) + 1
  /\ stack' = Fresh
  /\ phase' = "done"
  /\ UNCHANGED <<targets, labelVars>>

Block ==
  /\ Ordinary
  /\ Len(stack) < MaxFrames
  /\ stack' = Append(Fresh, [Frame("block") EXCEPT !.list = TRUE])
  /\ UNCHANGED <<blocks, ins, targets, labelVars, phase>>

If(e) ==
  /\ Ordinary
  /\ Len(stack) < MaxFrames
  /\ LET r == Eval(blocks, ins, e)
         n == Len(r.bs)
     IN  /\ blocks' = Terminate(New(r.bs, 2), r.at)
         /\ ins' = n + 1
         /\ stack' = Append(Fresh, [Frame("then") EXCEPT !.head = n + 2])
  /\ UNCHANGED <<targets, labelVars, phase>>

(* Slip: the branch on the condition is built in the condition's first block
   instead of at the insertion point. *)
While_FirstBlock(e) ==
  /\ Ordinary
  /\ Len(stack) < MaxFrames
  /\ LET n == Len(blocks)
         r == Eval(Terminate(New(blocks, 3), ins), n + 1, e)
     IN  /\ blocks' = Terminate(r.bs, n + 1)
         /\ ins' = n + 2
         /\ brk' = n + 3
         /\ cnt' = n + 1
         /\ stack' = Append(Fresh, [Frame("while") EXCEPT
                                      !.head = n + 1, !.exit = n + 3])
  /\ UNCHANGED <<sw, labelVars, phase>>

(* while and do-while differ in the target of the first branch. *)
While(e) ==
  /\ Ordinary
  /\ Len(stack) < MaxFrames
  /\ LET n == Len(blocks)
         r == Eval(Terminate(New(blocks, 3), ins), n + 1, e)
     IN  /\ blocks' = Terminate(r.bs, r.at)
         /\ ins' = n + 2
         /\ brk' = n + 3
         /\ cnt' = n + 1
         /\ stack' = Append(Fresh, [Frame("while") EXCEPT
                                      !.head = n + 1, !.exit = n + 3])
  /\ UNCHANGED <<sw, labelVars, phase>>

(* The head is an expression before the branch to the condition. *)
For(e) ==
  /\ Ordinary
  /\ Len(stack) < MaxFrames
  /\ LET n == Len(blocks)
         r == Eval(Terminate(Emit(New(blocks, 4), ins), ins), n + 1, e)
     IN  /\ blocks' = Terminate(r.bs, r.at)
         /\ ins' = n + 2
         /\ brk' = n + 4
         /\ cnt' = n + 3
         /\ stack' = Append(Fresh, [Frame("for") EXCEPT
                                      !.head = n + 3, !.exit = n + 4])
  /\ UNCHANGED <<sw, labelVars, phase>>

(* The statements of a braced body are generated one by one, any other body
   is a single statement. *)
Switch(e, braces) ==
  /\ Ordinary
  /\ Len(stack) < MaxFrames
  /\ LET r == Eval(blocks, ins, e)
         n == Len(r.bs)
     IN  /\ blocks' = Terminate(New(r.bs, 1), r.at)
         /\ ins' = r.at
         /\ brk' = n + 1
         /\ cnt' = NULL
         /\ sw' = n + 1
         /\ stack' = Append(Fresh, [Frame("switch") EXCEPT
                                      !.exit = n + 1, !.list = braces])
  /\ UNCHANGED <<labelVars, phase>>

-----------------------------------------------------------------------------
(* A statement was generated *)

Done == phase = "done" /\ UNCHANGED count

(* The loops of a function and of a block stop after a return; the loop of a
   switch body does not look at the flag. *)
NextInList ==
  /\ Done
  /\ Top.list
  /\ phase' = IF HasReturn(stack) /\ Top.kind # "switch" THEN "skip" ELSE "stmt"
  /\ UNCHANGED <<blocks, ins, targets, labelVars, stack>>

(* What stands behind a return in a block is parsed but not generated. *)
SkipLabel(l) ==
  /\ phase = "skip"
  /\ l \notin placed \cup skipped
  /\ skipped' = skipped \cup {l}
  /\ UNCHANGED <<blocks, ins, targets, labelBB, placed, stack, phase, count>>

AtEnd == phase \in {"stmt", "skip"} /\ Top.list /\ UNCHANGED count

EndBlock ==
  /\ AtEnd
  /\ Top.kind = "block"
  /\ stack' = Below(stack)
  /\ phase' = "done"
  /\ UNCHANGED <<blocks, ins, targets, labelVars>>

EndLabel ==
  /\ Done
  /\ Top.kind = "label"
  /\ stack' = Below(stack)
  /\ UNCHANGED <<blocks, ins, targets, labelVars, phase>>

(* Slip: one returning branch is taken for two. *)
Merge_OneReturns(bs, thenEnd, thenRet, elseEnd, elseRet) ==
  IF thenRet \/ elseRet
  THEN /\ blocks' = bs
       /\ ins' = elseEnd
       /\ stack' = SetReturn(Below(stack), TRUE)
  ELSE /\ blocks' = Terminate(Terminate(New(bs, 1), thenEnd), elseEnd)
       /\ ins' = Len(bs) + 1
       /\ stack' = Below(stack)

(* No merge block if both branches return. *)
Merge(bs, thenEnd, thenRet, elseEnd, elseRet) ==
  IF thenRet /\ elseRet
  THEN /\ blocks' = bs
       /\ ins' = elseEnd
       /\ stack' = SetReturn(Below(stack), TRUE)
  ELSE LET m == New(bs, 1)
           t == IF thenRet THEN m ELSE Terminate(m, thenEnd)
       IN  /\ blocks' = IF elseRet THEN t ELSE Terminate(t, elseEnd)
           /\ ins' = Len(bs) + 1
           /\ stack' = Below(stack)

EndThen ==
  /\ Done
  /\ Top.kind = "then"
  /\ Merge(blocks, ins, Top.ret, Top.head, FALSE)
  /\ UNCHANGED <<targets, labelVars, phase>>

Else ==
  /\ Done
  /\ Top.kind = "then"
  /\ stack' = Append(Below(stack),
                     [Frame("else") EXCEPT !.head = ins, !.thenRet = Top.ret])
  /\ ins' = Top.head
  /\ phase' = "stmt"
  /\ UNCHANGED <<blocks, targets, labelVars>>

EndElse ==
  /\ Done
  /\ Top.kind = "else"
  /\ Merge(blocks, Top.head, Top.thenRet, ins, Top.ret)
  /\ UNCHANGED <<targets, labelVars, phase>>

EndWhile ==
  /\ Done
  /\ Top.kind = "while"
  /\ blocks' = IF Top.ret THEN blocks ELSE Terminate(blocks, ins)
  /\ ins' = Top.exit
  /\ brk' = Top.brk
  /\ cnt' = Top.cnt
  /\ stack' = Below(stack)
  /\ UNCHANGED <<sw, labelVars, phase>>

(* e is the increment. *)
EndFor(e) ==
  /\ Done
  /\ Top.kind = "for"
  /\ LET bs == IF Top.ret THEN blocks ELSE TerminateOnce(blocks, ins)
         r  == Eval(bs, Top.head, e)
     IN  blocks' = Terminate(r.bs, r.at)
  /\ ins' = Top.exit
  /\ brk' = Top.brk
  /\ cnt' = Top.cnt
  /\ stack' = Below(stack)
  /\ UNCHANGED <<sw, labelVars, phase>>

(* Slip: the continue target is not restored. *)
EndSwitch_LosesContinue ==
  /\ IF Top.list THEN AtEnd ELSE Done
  /\ Top.kind = "switch"
  /\ blocks' = TerminateOnce(blocks, ins)
  /\ ins' = Top.exit
  /\ brk' = Top.brk
  /\ sw' = Top.sw
  /\ stack' = SetReturn(Below(stack), FALSE)
  /\ phase' = "done"
  /\ UNCHANGED <<cnt, labelVars>>

EndSwitch ==
  /\ IF Top.list THEN AtEnd ELSE Done
  /\ Top.kind = "switch"
  /\ blocks' = TerminateOnce(blocks, ins)
  /\ ins' = Top.exit
  /\ brk' = Top.brk
  /\ cnt' = Top.cnt
  /\ sw' = Top.sw
  /\ stack' = SetReturn(Below(stack), FALSE)
  /\ phase' = "done"
  /\ UNCHANGED labelVars

(* The default return, the free of the label map, and the verifier. *)
EndFunction ==
  /\ AtEnd
  /\ Top.kind = "function"
  /\ blocks' = IF Top.ret THEN blocks ELSE Terminate(blocks, ins)
  /\ phase' = "verify"
  /\ UNCHANGED <<ins, targets, labelVars, stack>>

Stopped == phase \in {"verify", "exit"} /\ UNCHANGED vars

Next ==
  \/ \E e \in Exprs : ExprStatement(e)
  \/ EmptyStatement
  \/ \E e \in Exprs : Return(e)
  \/ Break
  \/ Continue
  \/ ExitOnJump
  \/ \E l \in Labels : Goto(l)
  \/ \E l \in Labels : Label(l)
  \/ Case
  \/ Block
  \/ \E e \in Exprs : If(e)
  \/ \E e \in Exprs : While(e)
  \/ \E e \in Exprs : For(e)
  \/ \E e \in Exprs, braces \in BOOLEAN : Switch(e, braces)
  \/ NextInList
  \/ \E l \in Labels : SkipLabel(l)
  \/ EndBlock
  \/ EndLabel
  \/ EndThen
  \/ Else
  \/ EndElse
  \/ EndWhile
  \/ \E e \in Exprs : EndFor(e)
  \/ EndSwitch
  \/ EndFunction
  \/ Stopped

Spec == Init /\ [][Next]_vars

-----------------------------------------------------------------------------
(* Properties *)

TypeOK ==
  /\ blocks \in Seq(BlockStates)
  /\ ins \in 1 .. Len(blocks)
  /\ {brk, cnt, sw} \subseteq 0 .. Len(blocks)
  /\ labelBB \in [Labels -> 0 .. Len(blocks)]
  /\ placed \subseteq Labels /\ skipped \subseteq Labels
  /\ stack \in Seq(Frames)
  /\ phase \in {"stmt", "done", "skip", "verify", "exit"}
  /\ count \in 0 .. MaxStatements

(* The loops and switches whose bodies are being generated. *)
JumpFrames ==
  {i \in 1 .. Len(stack) : stack[i].kind \in {"while", "for", "switch"}}

SwitchFrames == {i \in 1 .. Len(stack) : stack[i].kind = "switch"}

IsLast(i, s) == i \in s /\ \A j \in s : j <= i

(* break leaves the innermost loop or switch and a case is added to the
   innermost switch.  continue goes to the condition or the increment of the
   innermost loop if no switch is between them; in a switch there is no target
   for it, even in a loop, and the code refuses it (codegen.c:1766), which C
   does not.  This holds on every way in and out of the constructs: the saved
   targets are restored. *)
InnermostTargets ==
  /\ JumpFrames = {} => brk = NULL /\ cnt = NULL
  /\ \A i \in JumpFrames :
        IsLast(i, JumpFrames) =>
          /\ brk = stack[i].exit
          /\ cnt = IF stack[i].kind = "switch" THEN NULL ELSE stack[i].head
  /\ SwitchFrames = {} => sw = NULL
  /\ \A i \in SwitchFrames :
        IsLast(i, SwitchFrames) => sw = stack[i].exit

(* A statement has set the has_return flag that its caller tests exactly if it
   left the insertion block terminated: the loops, if, while and the function
   decide by the flag whether to emit a branch, never by looking.  The loop
   over a switch body, which ignores the flag, looks. *)
FlagMeansClosed ==
  phase = "done" /\ Top.kind # "switch" =>
    (HasReturn(stack) <=> blocks[ins] = "closed")

UndefinedLabels == {l \in Labels : labelBB[l] # NULL} \ (placed \cup skipped)

(* What LLVMVerifyModule wants of the function, if every label it goes to is
   in it: every block ends with its only terminator. *)
WellFormed ==
  phase = "verify" /\ UndefinedLabels = {} =>
    \A b \in 1 .. Len(blocks) :
      b \notin {labelBB[l] : l \in skipped} => blocks[b] = "closed"

(* The blocks of labels are different from each other and from the targets of
   the loops and switches under construction. *)
LabelsApart ==
  \A l \in Labels : labelBB[l] # NULL =>
    /\ \A m \in Labels : labelBB[m] = labelBB[l] => m = l
    /\ \A i \in JumpFrames : labelBB[l] \notin {stack[i].head, stack[i].exit}
=============================================================================
