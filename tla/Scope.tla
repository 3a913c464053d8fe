------------------------------- MODULE Scope -------------------------------
(***************************************************************************)
(* Names and slots of the parser: variable.c (the stack of visible locals, *)
(* the chain of retained locals, slot numbers) and the parts of parse.c    *)
(* that drive it, parse_program, parse_params, parse_stmt,                 *)
(* parse_declaration and new_node_ident.                                   *)
(*                                                                         *)
(* The parser is a recursive descent over the source text, so its control  *)
(* state is a phase and the stack `open' of the calls that opened a scope  *)
(* and have not returned.  The source text is the environment: every       *)
(* action that reads a token chooses it.                                   *)
(***************************************************************************)
EXTENDS Integers, Sequences, FiniteSets

CONSTANTS
  Names,         \* the identifiers of the source text
  Unnamed,       \* the empty name of a parameter that has none
  MAX_LOCALS,    \* slots of a function (common.h)
  MAX_NODES,     \* top-level nodes of a program (common.h)
  MaxFunctions,  \* bound: parameter lists parsed
  MaxNesting     \* bound: scopes open at once

ASSUME NamesAssumption == Unnamed \notin Names
ASSUME LimitsAssumption ==
  /\ MAX_LOCALS \in Nat
  /\ MAX_NODES \in Nat
  /\ MaxFunctions \in Nat
  /\ MaxNesting \in Nat

VARIABLES
  active,     \* ctx->active_locals, outermost declaration first
  locals,     \* ctx->locals: every declaration since the last reset
  depth,      \* ctx->scope_depth
  next,       \* ctx->next_local_offset
  globals,    \* the names on ctx->globals
  enumConsts, \* the names on ctx->enum_consts
  code,       \* ctx->code: the top-level nodes
  vla,        \* ctx->vla_size_exprs: the declaration whose count is stored
  fn,         \* how many parameter lists have been opened
  fname,      \* the function that the last of them belongs to
  open,       \* the calls of parse_stmt that opened a scope
  phase,      \* what is parsed next
  status      \* the parser runs, has called exit(1), or has returned

scopeVars == <<active, depth>>
tableVars == <<globals, enumConsts>>
vars == <<active, locals, depth, next, globals, enumConsts, code, vla, fn,
          fname, open, phase, status>>

Slots == 0 .. MAX_LOCALS - 1

(* Only a VLA has a count; its type is a pointer, like a plain pointer's.  A
   local of another type differs from a pointer in that sizeof never looks
   for a count, and is left out. *)
Shapes == {"pointer", "vla"}

Entries == [name : Names \cup {Unnamed}, depth : Nat, slot : Slots,
            shape : Shapes, fn : Nat]

TopNodes == [kind : {"function", "gvar"}, name : Names,
             locals : SUBSET Entries]

(* NULL, or the declaration that stored its element count in the slot. *)
NoExpr == [name |-> Unnamed, fn |-> 0]
SizeExprs == [name : Names \cup {Unnamed}, fn : Nat]

-----------------------------------------------------------------------------
(* variable.c *)

(* Slip: declarations are appended to the list instead of pushed. *)
IsInnermost_Outermost(i, n) ==
  /\ active[i].name = n
  /\ \A j \in 1 .. i - 1 : active[j].name # n

(* find_lvar stops at the first match, the last one declared.  i is that
   match. *)
IsInnermost(i, n) ==
  /\ active[i].name = n
  /\ \A j \in i + 1 .. Len(active) : active[j].name # n

FindLvar(n) == {active[i] : i \in {k \in 1 .. Len(active) : IsInnermost(k, n)}}

(* The scan of add_lvar ends at the first entry of an enclosing scope. *)
Redeclared(n) ==
  /\ n # Unnamed
  /\ \E i \in 1 .. Len(active) :
        /\ active[i].name = n
        /\ \A j \in i .. Len(active) : active[j].depth >= depth

NewEntry(n, shape) ==
  [name |-> n, depth |-> depth, slot |-> next, shape |-> shape, fn |-> fn]

(* Slip: the slot table is not checked before it is written. *)
CanAdd_NoLimit(n) == ~Redeclared(n)

CanAdd(n) == ~Redeclared(n) /\ next < MAX_LOCALS

(* Slip: slots are numbered by the visible declarations. *)
AddLvar_VisibleCount(n, shape) ==
  /\ active' = Append(active, NewEntry(n, shape))
  /\ locals' = locals \cup {NewEntry(n, shape)}
  /\ next' = Len(active) + 1

AddLvar(n, shape) ==
  /\ active' = Append(active, NewEntry(n, shape))
  /\ locals' = locals \cup {NewEntry(n, shape)}
  /\ next' = next + 1

ResetScope ==
  /\ active' = <<>>
  /\ depth' = 0
  /\ next' = 0

EnterScope == depth' = depth + 1

(* The first k entries are what is left after the pops of leave_scope. *)
IsLeft(k) ==
  /\ k > 0 => active[k].depth < depth
  /\ \A i \in k + 1 .. Len(active) : active[i].depth >= depth

(* Slip: only the declaration at the front is popped. *)
LeaveScope_PopsOne ==
  /\ active' = IF active = <<>> THEN <<>>
               ELSE SubSeq(active, 1, Len(active) - 1)
  /\ depth' = depth - 1

LeaveScope ==
  \/ /\ depth > 0
     /\ \E k \in 0 .. Len(active) :
           IsLeft(k) /\ active' = SubSeq(active, 1, k)
     /\ depth' = depth - 1
  \/ depth = 0 /\ UNCHANGED scopeVars

-----------------------------------------------------------------------------
(* parse.c: what an identifier of an expression denotes *)

Functions == {code[i].name : i \in {k \in 1 .. Len(code) :
                                       code[k].kind = "function"}}

Resolve(n) ==
  CASE n \in enumConsts -> "enum"
    [] n \notin enumConsts /\ FindLvar(n) # {} -> "local"
    [] n \notin enumConsts /\ FindLvar(n) = {} /\ n \in globals -> "gvar"
    [] n \notin enumConsts \cup globals /\ FindLvar(n) = {}
       /\ n \in Functions -> "function"
    [] OTHER -> "undeclared"

(* Slip: the count is stored only in a slot that has none. *)
StoreCount_Once(n, shape) ==
  vla' = IF shape = "vla" /\ vla[next] = NoExpr
         THEN [vla EXCEPT ![next] = [name |-> n, fn |-> fn]]
         ELSE vla

StoreCount(n, shape) ==
  vla' = IF shape = "vla"
         THEN [vla EXCEPT ![next] = [name |-> n, fn |-> fn]]
         ELSE vla

(* What follows a statement: the next one of its block or of the function,
   or the return of the for statement it is the body of. *)
AfterStatement(stack) ==
  IF stack = <<>> \/ stack[Len(stack)] = "block" THEN "stmt" ELSE "ret"

-----------------------------------------------------------------------------
(* parse_program *)

Init ==
  /\ active = <<>>
  /\ locals = {}
  /\ depth = 0
  /\ next = 0
  /\ globals = {}
  /\ enumConsts = {}
  /\ code = <<>>
  /\ vla = [s \in Slots |-> NoExpr]
  /\ fn = 0
  /\ fname \in Names
  /\ open = <<>>
  /\ phase = "file"
  /\ status = "running"

AtFile == status = "running" /\ phase = "file" /\ Len(code) < MAX_NODES

(* A global without an initializer. *)
DeclareGlobal(n) ==
  /\ AtFile
  /\ globals' = globals \cup {n}
  /\ code' = Append(code, [kind |-> "gvar", name |-> n, locals |-> {}])
  /\ UNCHANGED <<scopeVars, locals, next, enumConsts, vla, fn, fname, open,
                 phase, status>>

(* The initializer is parsed after the global is on the list. *)
GlobalDenotes(n, used) == used = n \/ Resolve(used) # "undeclared"

InitializeGlobal(n, used) ==
  /\ AtFile
  /\ GlobalDenotes(n, used)
  /\ globals' = globals \cup {n}
  /\ code' = Append(code, [kind |-> "gvar", name |-> n, locals |-> {}])
  /\ UNCHANGED <<scopeVars, locals, next, enumConsts, vla, fn, fname, open,
                 phase, status>>

ExitOnInitializer(n, used) ==
  /\ AtFile
  /\ ~GlobalDenotes(n, used)
  /\ globals' = globals \cup {n}
  /\ status' = "exit"
  /\ UNCHANGED <<scopeVars, locals, next, enumConsts, code, vla, fn, fname,
                 open, phase>>

(* An enum specifier with a list, wherever a type is read: at file scope, in
   a parameter, a declaration or a cast.  Its constants go on one list that
   no scope ever shortens. *)
EnumSpecifier(n) ==
  /\ status = "running" /\ phase # "ret"
  /\ phase = "file" => Len(code) < MAX_NODES
  /\ enumConsts' = enumConsts \cup {n}
  /\ UNCHANGED <<scopeVars, locals, next, globals, code, vla, fn, fname,
                 open, phase, status>>

(* Slip: the chain of the previous function is not dropped. *)
BeginFunction_KeepsChain(n) ==
  /\ AtFile
  /\ fn < MaxFunctions
  /\ fn' = fn + 1
  /\ fname' = n
  /\ ResetScope
  /\ phase' = "params"
  /\ UNCHANGED <<locals, tableVars, code, vla, open, status>>

BeginFunction(n) ==
  /\ AtFile
  /\ fn < MaxFunctions
  /\ fn' = fn + 1
  /\ fname' = n
  /\ locals' = {}
  /\ ResetScope
  /\ phase' = "params"
  /\ UNCHANGED <<tableVars, code, vla, open, status>>

Param(n, shape) ==
  /\ status = "running" /\ phase = "params"
  /\ shape # "vla"
  /\ CanAdd(n)
  /\ AddLvar(n, shape)
  /\ UNCHANGED <<depth, tableVars, code, vla, fn, fname, open, phase,
                 status>>

FunctionNode == [kind |-> "function", name |-> fname, locals |-> locals]

EndPrototype ==
  /\ status = "running" /\ phase = "params"
  /\ code' = Append(code, FunctionNode)
  /\ phase' = "file"
  /\ UNCHANGED <<scopeVars, locals, next, tableVars, vla, fn, fname, open,
                 status>>

BeginBody ==
  /\ status = "running" /\ phase = "params"
  /\ phase' = "stmt"
  /\ UNCHANGED <<scopeVars, locals, next, tableVars, code, vla, fn, fname,
                 open, status>>

EndFunction ==
  /\ status = "running" /\ phase = "stmt" /\ open = <<>>
  /\ code' = Append(code, FunctionNode)
  /\ phase' = "file"
  /\ UNCHANGED <<scopeVars, locals, next, tableVars, vla, fn, fname, open,
                 status>>

ExitTooManyNodes ==
  /\ status = "running" /\ phase = "file" /\ Len(code) >= MAX_NODES
  /\ status' = "exit"
  /\ UNCHANGED <<scopeVars, locals, next, tableVars, code, vla, fn, fname,
                 open, phase>>

Finish ==
  /\ status = "running" /\ phase = "file"
  /\ status' = "done"
  /\ UNCHANGED <<scopeVars, locals, next, tableVars, code, vla, fn, fname,
                 open, phase>>

-----------------------------------------------------------------------------
(* parse_stmt *)

AtStatement == status = "running" /\ phase = "stmt"

AtDeclaration == status = "running" /\ phase \in {"stmt", "forInit"}

AfterDeclaration ==
  phase' = IF phase = "forInit" THEN "stmt" ELSE AfterStatement(open)

(* parse_declaration, also the one in the head of a for statement. *)
Declare(n, shape) ==
  /\ AtDeclaration
  /\ CanAdd(n)
  /\ AddLvar(n, shape)
  /\ StoreCount(n, shape)
  /\ AfterDeclaration
  /\ UNCHANGED <<depth, tableVars, code, fn, fname, open, status>>

(* A statement without scope effects that names n. *)
UseStatement(n) ==
  /\ AtStatement
  /\ Resolve(n) # "undeclared"
  /\ phase' = AfterStatement(open)
  /\ UNCHANGED <<scopeVars, locals, next, tableVars, code, vla, fn, fname,
                 open, status>>

EmptyStatement ==
  /\ AtStatement
  /\ phase' = AfterStatement(open)
  /\ UNCHANGED <<scopeVars, locals, next, tableVars, code, vla, fn, fname,
                 open, status>>

OpenBlock ==
  /\ AtStatement
  /\ Len(open) < MaxNesting
  /\ EnterScope
  /\ open' = Append(open, "block")
  /\ UNCHANGED <<active, locals, next, tableVars, code, vla, fn, fname,
                 phase, status>>

(* Slip: a for statement does not open a scope for its head. *)
OpenFor_NoScope ==
  /\ AtStatement
  /\ Len(open) < MaxNesting
  /\ open' = Append(open, "for")
  /\ phase' = "forInit"
  /\ UNCHANGED <<scopeVars, locals, next, tableVars, code, vla, fn, fname,
                 status>>

OpenFor ==
  /\ AtStatement
  /\ Len(open) < MaxNesting
  /\ EnterScope
  /\ open' = Append(open, "for")
  /\ phase' = "forInit"
  /\ UNCHANGED <<active, locals, next, tableVars, code, vla, fn, fname,
                 status>>

(* The head of a for statement declares nothing. *)
ForWithoutDeclaration ==
  /\ status = "running" /\ phase = "forInit"
  /\ phase' = "stmt"
  /\ UNCHANGED <<scopeVars, locals, next, tableVars, code, vla, fn, fname,
                 open, status>>

(* The body of the for statement was an if statement: its else branch. *)
ElseBranch ==
  /\ status = "running" /\ phase = "ret"
  /\ phase' = "stmt"
  /\ UNCHANGED <<scopeVars, locals, next, tableVars, code, vla, fn, fname,
                 open, status>>

Pop(stack) == SubSeq(stack, 1, Len(stack) - 1)

CloseBlock ==
  /\ AtStatement
  /\ open # <<>> /\ open[Len(open)] = "block"
  /\ LeaveScope
  /\ open' = Pop(open)
  /\ phase' = AfterStatement(Pop(open))
  /\ UNCHANGED <<locals, next, tableVars, code, vla, fn, fname, status>>

CloseFor ==
  /\ status = "running" /\ phase = "ret"
  /\ LeaveScope
  /\ open' = Pop(open)
  /\ phase' = AfterStatement(Pop(open))
  /\ UNCHANGED <<locals, next, tableVars, code, vla, fn, fname, status>>

(* exit(1): a redeclaration, a full slot table, an unknown name. *)
ExitOnDeclare(n) ==
  /\ status = "running" /\ phase \in {"params", "stmt", "forInit"}
  /\ ~CanAdd(n)
  /\ status' = "exit"
  /\ UNCHANGED <<scopeVars, locals, next, tableVars, code, vla, fn, fname,
                 open, phase>>

ExitOnUse(n) ==
  /\ AtStatement
  /\ Resolve(n) = "undeclared"
  /\ status' = "exit"
  /\ UNCHANGED <<scopeVars, locals, next, tableVars, code, vla, fn, fname,
                 open, phase>>

Stopped == status # "running" /\ UNCHANGED vars

Next ==
  \/ \E n \in Names : DeclareGlobal(n)
  \/ \E n, used \in Names : InitializeGlobal(n, used)
  \/ \E n, used \in Names : ExitOnInitializer(n, used)
  \/ \E n \in Names : EnumSpecifier(n)
  \/ \E n \in Names : BeginFunction(n)
  \/ \E n \in Names \cup {Unnamed}, shape \in Shapes : Param(n, shape)
  \/ EndPrototype
  \/ BeginBody
  \/ EndFunction
  \/ ExitTooManyNodes
  \/ Finish
  \/ \E n \in Names, shape \in Shapes : Declare(n, shape)
  \/ \E n \in Names : UseStatement(n)
  \/ EmptyStatement
  \/ OpenBlock
  \/ OpenFor
  \/ ForWithoutDeclaration
  \/ ElseBranch
  \/ CloseBlock
  \/ CloseFor
  \/ \E n \in Names \cup {Unnamed} : ExitOnDeclare(n)
  \/ \E n \in Names : ExitOnUse(n)
  \/ Stopped

Spec == Init /\ [][Next]_vars

-----------------------------------------------------------------------------
(* Properties *)

(* The variables have their types; in particular no slot number reaches
   MAX_LOCALS, the length of local_allocas and of vla_size_exprs. *)
TypeOK ==
  /\ active \in Seq(Entries)
  /\ locals \in SUBSET Entries
  /\ depth \in Nat
  /\ next \in 0 .. MAX_LOCALS
  /\ globals \in SUBSET Names
  /\ enumConsts \in SUBSET Names
  /\ code \in Seq(TopNodes)
  /\ vla \in [Slots -> SizeExprs]
  /\ fn \in Nat
  /\ fname \in Names
  /\ open \in Seq({"block", "for"})
  /\ phase \in {"file", "params", "stmt", "forInit", "ret"}
  /\ status \in {"running", "exit", "done"}

InFunction == phase # "file"

Balanced == InFunction => depth = Len(open)

InnermostLast ==
  \A i, j \in 1 .. Len(active) : i < j => active[i].depth <= active[j].depth

NoneDeeper == \A i \in 1 .. Len(active) : active[i].depth <= depth

OncePerScope ==
  \A i, j \in 1 .. Len(active) :
     /\ active[i].name = active[j].name /\ active[i].name # Unnamed
     /\ active[i].depth = active[j].depth
     => i = j

(* The invariant that the comment above find_lvar states: active_locals is
   ordered by scope, holds no declaration of a scope that was left, declares
   a name once per scope, and enter_scope and leave_scope are balanced on
   every path of parse_stmt. *)
StackDiscipline == Balanced /\ InnermostLast /\ NoneDeeper /\ OncePerScope

(* The chain handed to codegen has every declaration of the function, those
   of closed scopes too, each with a slot of its own below next_local_offset
   and none left out: what code generation of local_allocas[] relies on. *)
LocalsChain ==
  /\ \A i \in 1 .. Len(active) : active[i] \in locals
  /\ \A e \in locals : e.slot < next
  /\ \A e, f \in locals : e.slot = f.slot => e = f
  /\ \A s \in 0 .. next - 1 : \E e \in locals : e.slot = s

(* vla_size_exprs has, for a VLA that is in scope, its own count and not the
   one an earlier function stored under the same slot number. *)
VlaOwnSize ==
  InFunction =>
    \A e \in locals :
       e.shape = "vla" => vla[e.slot] = [name |-> e.name, fn |-> e.fn]

(* "each declaration belongs to exactly one chain" (free_ast): otherwise the
   chains of two top-level nodes free the same LVar. *)
ChainsDisjoint ==
  /\ \A i, j \in 1 .. Len(code) :
        i # j => code[i].locals \cap code[j].locals = {}
  /\ InFunction => \A i \in 1 .. Len(code) : code[i].locals \cap locals = {}

-----------------------------------------------------------------------------
(* The list of visible locals implements a stack of frames. *)

NoSlot == -1

EntryAt(n, d) ==
  {active[i] : i \in {k \in 1 .. Len(active) :
                        active[k].name = n /\ active[k].depth = d}}

SlotOf(entries) ==
  IF entries = {} THEN NoSlot ELSE (CHOOSE e \in entries : TRUE).slot

FrameAt(d) == [n \in Names |-> SlotOf(EntryAt(n, d))]

absFrames == IF InFunction THEN [i \in 1 .. depth + 1 |-> FrameAt(i - 1)]
             ELSE <<>>

absUsed == IF InFunction THEN {e.slot : e \in locals} ELSE {}

Abstract == INSTANCE LexicalScope
  WITH frames <- absFrames, used <- absUsed

(* Every step of the parser is a step of the frames, or none. *)
ImplementsFrames == Abstract!Spec

(* find_lvar, which knows nothing of depths, returns the slot of the
   innermost frame that declares the name. *)
LookupIsInnermost ==
  InFunction =>
    \A n \in Names : {e.slot : e \in FindLvar(n)} = Abstract!Lookup(n)

=============================================================================
