---------------------------- MODULE ScopeProofs ----------------------------
(***************************************************************************)
(* The invariants of Scope for all names, limits and bounds.               *)
(***************************************************************************)
EXTENDS Scope, TLAPS, SequenceTheorems

-----------------------------------------------------------------------------
(* Sequences *)

(* What is left of a list after pops at its end. *)
LEMMA PrefixFacts ==
  ASSUME NEW S, NEW s \in Seq(S), NEW k \in 0 .. Len(s)
  PROVE  /\ SubSeq(s, 1, k) \in Seq(S)
         /\ Len(SubSeq(s, 1, k)) = k
         /\ \A i \in 1 .. k : SubSeq(s, 1, k)[i] = s[i]
  OBVIOUS

(* A push: the list grows by one and keeps what it had. *)
LEMMA PushFacts ==
  ASSUME NEW S, NEW s \in Seq(S), NEW e \in S
  PROVE  /\ Append(s, e) \in Seq(S)
         /\ Len(Append(s, e)) = Len(s) + 1
         /\ Append(s, e)[Len(s) + 1] = e
         /\ \A i \in 1 .. Len(s) : Append(s, e)[i] = s[i]
  OBVIOUS

-----------------------------------------------------------------------------
(* Control: where the parser is and which scopes are open *)

Control ==
  /\ depth = Len(open)
  /\ phase \in {"file", "params"} => open = <<>>
  /\ phase \in {"ret", "forInit"} => open # <<>>

(* The inductive invariant of the parser's control and types. *)
TypeInv == TypeOK /\ Control

LEMMA TypeInvInit == Init => TypeInv
  BY LimitsAssumption DEF Init, TypeInv, TypeOK, Control, Slots, SizeExprs, NoExpr

(* A declaration keeps the types: its slot is below MAX_LOCALS. *)
LEMMA AddLvarTypes ==
  ASSUME TypeOK, NEW n \in Names \cup {Unnamed}, NEW shape \in Shapes,
         CanAdd(n), AddLvar(n, shape)
  PROVE  /\ NewEntry(n, shape) \in Entries
         /\ active' \in Seq(Entries)
         /\ locals' \in SUBSET Entries
         /\ next' \in 0 .. MAX_LOCALS
<1>1. next \in Slots
  BY LimitsAssumption DEF TypeOK, CanAdd, Slots
<1>2. NewEntry(n, shape) \in Entries
  BY <1>1 DEF TypeOK, NewEntry, Entries
<1>3. active' \in Seq(Entries)
  BY <1>2, PushFacts DEF TypeOK, AddLvar
<1>4. locals' \in SUBSET Entries
  BY <1>2 DEF TypeOK, AddLvar
<1>5. next' \in 0 .. MAX_LOCALS
  BY LimitsAssumption DEF TypeOK, AddLvar, CanAdd
<1> QED
  BY <1>2, <1>3, <1>4, <1>5

(* Leaving a scope removes a suffix of the visible locals. *)
LEMMA LeaveScopeTypes ==
  ASSUME TypeOK, LeaveScope
  PROVE  /\ active' \in Seq(Entries)
         /\ depth' \in Nat
         /\ depth > 0 => depth' = depth - 1
<1>1. CASE depth > 0
  <2>1. PICK k \in 0 .. Len(active) : active' = SubSeq(active, 1, k)
    BY <1>1 DEF LeaveScope, TypeOK
  <2> QED
    BY <1>1, <2>1, PrefixFacts DEF LeaveScope, TypeOK
<1>2. CASE depth = 0
  BY <1>2 DEF LeaveScope, TypeOK, scopeVars
<1> QED
  BY <1>1, <1>2 DEF TypeOK

LEMMA PopTypes ==
  ASSUME NEW S, NEW s \in Seq(S), s # <<>>
  PROVE  Pop(s) \in Seq(S) /\ Len(Pop(s)) = Len(s) - 1
<1>1. Len(s) - 1 \in 0 .. Len(s)
  BY EmptySeq, LenProperties
<1> QED
  BY <1>1, PrefixFacts DEF Pop

(* After a statement: the return of a for statement needs one to be open. *)
LEMMA AfterStatementTypes ==
  ASSUME NEW stack \in Seq({"block", "for"})
  PROVE  /\ AfterStatement(stack) \in {"stmt", "ret"}
         /\ AfterStatement(stack) = "ret" => stack # <<>>
  BY DEF AfterStatement

LEMMA FunctionNodeType ==
  ASSUME TypeOK
  PROVE  FunctionNode \in TopNodes
  BY DEF TypeOK, FunctionNode, TopNodes


(* Types and control are inductive: one step per action of the parser. *)
LEMMA TypeInvStep == TypeInv /\ [Next]_vars => TypeInv'
<1> SUFFICES ASSUME TypeInv, [Next]_vars PROVE TypeInv'
  OBVIOUS
<1> USE DEF TypeInv
<1>1. CASE \E n \in Names : DeclareGlobal(n)
  <2>1. PICK n \in Names : DeclareGlobal(n)
    BY <1>1
  <2>2. code' \in Seq(TopNodes)
    BY <2>1, PushFacts DEF DeclareGlobal, TypeOK, TopNodes
  <2> QED
    BY <2>1, <2>2 DEF DeclareGlobal, TypeOK, Control, scopeVars
<1>2. CASE \E n, used \in Names : InitializeGlobal(n, used)
  <2>1. PICK n \in Names, used \in Names : InitializeGlobal(n, used)
    BY <1>2
  <2>2. code' \in Seq(TopNodes)
    BY <2>1, PushFacts DEF InitializeGlobal, TypeOK, TopNodes
  <2> QED
    BY <2>1, <2>2 DEF InitializeGlobal, TypeOK, Control, scopeVars
<1>3. CASE \E n, used \in Names : ExitOnInitializer(n, used)
  BY <1>3 DEF ExitOnInitializer, TypeOK, Control, scopeVars
<1>4. CASE \E n \in Names : EnumSpecifier(n)
  BY <1>4 DEF EnumSpecifier, TypeOK, Control, scopeVars
<1>5. CASE \E n \in Names : BeginFunction(n)
  <2>1. PICK n \in Names : BeginFunction(n)
    BY <1>5
  <2>2. active' \in Seq(Entries) /\ depth' = 0 /\ next' = 0
    BY <2>1 DEF BeginFunction, ResetScope
  <2>3. open' = <<>> /\ Len(open') = 0
    BY <2>1 DEF BeginFunction, AtFile, Control
  <2> QED
    BY <2>1, <2>2, <2>3, LimitsAssumption
       DEF BeginFunction, TypeOK, Control, tableVars
<1>6. CASE \E n \in Names \cup {Unnamed}, shape \in Shapes : Param(n, shape)
  <2>1. PICK n \in Names \cup {Unnamed}, shape \in Shapes : Param(n, shape)
    BY <1>6
  <2>2. /\ active' \in Seq(Entries)
        /\ locals' \in SUBSET Entries
        /\ next' \in 0 .. MAX_LOCALS
    BY <2>1, AddLvarTypes DEF Param
  <2> QED
    BY <2>1, <2>2 DEF Param, TypeOK, Control, tableVars
<1>7. CASE EndPrototype
  <2>1. code' \in Seq(TopNodes)
    BY <1>7, FunctionNodeType, PushFacts DEF EndPrototype, TypeOK
  <2> QED
    BY <1>7, <2>1 DEF EndPrototype, TypeOK, Control, scopeVars, tableVars
<1>8. CASE BeginBody
  BY <1>8 DEF BeginBody, TypeOK, Control, scopeVars, tableVars
<1>9. CASE EndFunction
  <2>1. code' \in Seq(TopNodes)
    BY <1>9, FunctionNodeType, PushFacts DEF EndFunction, TypeOK
  <2> QED
    BY <1>9, <2>1 DEF EndFunction, TypeOK, Control, scopeVars, tableVars
<1>10. CASE ExitTooManyNodes
  BY <1>10 DEF ExitTooManyNodes, TypeOK, Control, scopeVars, tableVars
<1>11. CASE Finish
  BY <1>11 DEF Finish, TypeOK, Control, scopeVars, tableVars
<1>12. CASE \E n \in Names, shape \in Shapes : Declare(n, shape)
  <2>1. PICK n \in Names, shape \in Shapes : Declare(n, shape)
    BY <1>12
  <2>2. /\ active' \in Seq(Entries)
        /\ locals' \in SUBSET Entries
        /\ next' \in 0 .. MAX_LOCALS
    BY <2>1, AddLvarTypes DEF Declare
  <2>3. [name |-> n, fn |-> fn] \in SizeExprs
    BY DEF SizeExprs, TypeOK
  <2>4. vla' \in [Slots -> SizeExprs]
    BY <2>1, <2>3 DEF Declare, StoreCount, TypeOK
  <2>5. phase' = "stmt" \/ (phase' = "ret" /\ open # <<>>)
    BY <2>1, AfterStatementTypes DEF Declare, AfterDeclaration, TypeOK
  <2> QED
    BY <2>1, <2>2, <2>4, <2>5 DEF Declare, TypeOK, Control, tableVars
<1>13. CASE \E n \in Names : UseStatement(n)
  <2>1. phase' = "stmt" \/ (phase' = "ret" /\ open # <<>>)
    BY <1>13, AfterStatementTypes DEF UseStatement, TypeOK
  <2> QED
    BY <1>13, <2>1 DEF UseStatement, TypeOK, Control, scopeVars, tableVars
<1>14. CASE EmptyStatement
  <2>1. phase' = "stmt" \/ (phase' = "ret" /\ open # <<>>)
    BY <1>14, AfterStatementTypes DEF EmptyStatement, TypeOK
  <2> QED
    BY <1>14, <2>1 DEF EmptyStatement, TypeOK, Control, scopeVars, tableVars
<1>15. CASE OpenBlock
  <2>1. /\ open' \in Seq({"block", "for"})
        /\ Len(open') = Len(open) + 1
        /\ open' # <<>>
    BY <1>15, PushFacts, EmptySeq DEF OpenBlock, TypeOK
  <2> QED
    BY <1>15, <2>1
       DEF OpenBlock, EnterScope, AtStatement, TypeOK, Control, tableVars
<1>16. CASE OpenFor
  <2>1. /\ open' \in Seq({"block", "for"})
        /\ Len(open') = Len(open) + 1
        /\ open' # <<>>
    BY <1>16, PushFacts, EmptySeq DEF OpenFor, TypeOK
  <2> QED
    BY <1>16, <2>1 DEF OpenFor, EnterScope, TypeOK, Control, tableVars
<1>17. CASE ForWithoutDeclaration
  BY <1>17 DEF ForWithoutDeclaration, TypeOK, Control, scopeVars, tableVars
<1>18. CASE ElseBranch
  BY <1>18 DEF ElseBranch, TypeOK, Control, scopeVars, tableVars
<1>19. CASE CloseBlock \/ CloseFor
  <2>1. open # <<>> /\ depth > 0
    BY <1>19, EmptySeq DEF CloseBlock, CloseFor, TypeOK, Control
  <2>2. LeaveScope /\ open' = Pop(open) /\ phase' = AfterStatement(open')
    BY <1>19 DEF CloseBlock, CloseFor
  <2>3. open' \in Seq({"block", "for"}) /\ Len(open') = Len(open) - 1
    BY <2>1, <2>2, PopTypes DEF TypeOK
  <2>4. phase' = "stmt" \/ (phase' = "ret" /\ open' # <<>>)
    BY <2>2, <2>3, AfterStatementTypes
  <2>5. active' \in Seq(Entries) /\ depth' = depth - 1 /\ depth' \in Nat
    BY <2>1, <2>2, LeaveScopeTypes
  <2>6. UNCHANGED <<locals, next, tableVars, code, vla, fn, fname, status>>
    BY <1>19 DEF CloseBlock, CloseFor
  <2> QED
    BY <2>3, <2>4, <2>5, <2>6 DEF TypeOK, Control, tableVars
<1>20. CASE \E n \in Names \cup {Unnamed} : ExitOnDeclare(n)
  BY <1>20 DEF ExitOnDeclare, TypeOK, Control, scopeVars, tableVars
<1>21. CASE \E n \in Names : ExitOnUse(n)
  BY <1>21 DEF ExitOnUse, TypeOK, Control, scopeVars, tableVars
<1>22. CASE UNCHANGED vars
  BY <1>22 DEF vars, TypeOK, Control
<1> QED
  BY <1>1, <1>2, <1>3, <1>4, <1>5, <1>6, <1>7, <1>8, <1>9, <1>10, <1>11,
     <1>12, <1>13, <1>14, <1>15, <1>16, <1>17, <1>18, <1>19, <1>20, <1>21,
     <1>22 DEF Next, Stopped

(* Types hold: no declaration is ever given a slot that is not below
   MAX_LOCALS, on any sequence of declarations and scopes. *)
THEOREM TypesHold == Spec => []TypeOK
<1>1. TypeInv => TypeOK
  BY DEF TypeInv
<1> QED
  BY TypeInvInit, TypeInvStep, <1>1, PTL DEF Spec

-----------------------------------------------------------------------------
(* What a step does to the tables, whichever handler takes it *)

Opens ==
  /\ phase = "file" /\ phase' # "file"
  /\ ResetScope
  /\ locals' = {}
  /\ fn' = fn + 1
  /\ UNCHANGED <<code, vla>>

Adds(n, shape) ==
  /\ phase # "file" /\ phase' # "file"
  /\ n = Unnamed => depth = 0
  /\ CanAdd(n)
  /\ AddLvar(n, shape)
  /\ StoreCount(n, shape)
  /\ UNCHANGED <<depth, fn, code>>

Enters ==
  /\ phase # "file" /\ phase' # "file"
  /\ EnterScope
  /\ UNCHANGED <<active, locals, next, vla, fn, code>>

Leaves ==
  /\ phase # "file" /\ phase' # "file"
  /\ depth > 0
  /\ LeaveScope
  /\ UNCHANGED <<locals, next, vla, fn, code>>

Appends(chain) ==
  /\ phase' = "file"
  /\ phase # "file" => depth = 0
  /\ chain = IF phase = "file" THEN {} ELSE locals
  /\ \E kind \in {"function", "gvar"}, n \in Names :
        code' = Append(code, [kind |-> kind, name |-> n, locals |-> chain])
  /\ UNCHANGED <<scopeVars, locals, next, vla, fn>>

Keeps ==
  /\ phase' = "file" <=> phase = "file"
  /\ UNCHANGED <<scopeVars, locals, next, vla, fn, code>>

(* The handlers fall into six kinds. *)
LEMMA StepKinds ==
  ASSUME TypeInv, [Next]_vars
  PROVE  \/ Opens
         \/ \E n \in Names \cup {Unnamed}, shape \in Shapes : Adds(n, shape)
         \/ Enters
         \/ Leaves
         \/ \E chain \in SUBSET Entries : Appends(chain)
         \/ Keeps
<1> USE DEF TypeInv, TypeOK
<1>1. CASE \/ \E n \in Names : DeclareGlobal(n)
           \/ \E n, used \in Names : InitializeGlobal(n, used)
  <2>1. Appends({})
    BY <1>1 DEF DeclareGlobal, InitializeGlobal, AtFile, Appends
  <2> QED
    BY <2>1
<1>2. CASE EndPrototype \/ EndFunction
  <2>1. Appends(locals)
    <3>1. depth = 0
      BY <1>2, EmptySeq DEF EndPrototype, EndFunction, Control
    <3> QED
      BY <1>2, <3>1
         DEF EndPrototype, EndFunction, FunctionNode, Appends, AtStatement
  <2> QED
    BY <2>1
<1>3. CASE \E n \in Names : BeginFunction(n)
  BY <1>3 DEF BeginFunction, AtFile, Opens
<1>4. CASE \E n \in Names \cup {Unnamed}, shape \in Shapes : Param(n, shape)
  <2>1. PICK n \in Names \cup {Unnamed}, shape \in Shapes : Param(n, shape)
    BY <1>4
  <2>2. depth = 0
    BY <2>1, EmptySeq DEF Param, Control
  <2>3. Adds(n, shape)
    BY <2>1, <2>2 DEF Param, Adds, StoreCount
  <2> QED
    BY <2>3
<1>5. CASE \E n \in Names, shape \in Shapes : Declare(n, shape)
  <2>1. PICK n \in Names, shape \in Shapes : Declare(n, shape)
    BY <1>5
  <2>2. phase' # "file"
    BY <2>1, AfterStatementTypes DEF Declare, AfterDeclaration
  <2>3. Adds(n, shape)
    BY <2>1, <2>2, NamesAssumption DEF Declare, AtDeclaration, Adds
  <2> QED
    BY <2>3
<1>6. CASE OpenBlock \/ OpenFor
  BY <1>6 DEF OpenBlock, OpenFor, AtStatement, Enters
<1>7. CASE CloseBlock \/ CloseFor
  <2>1. open # <<>> /\ depth > 0
    BY <1>7, EmptySeq DEF CloseBlock, CloseFor, Control
  <2>2. phase' # "file"
    BY <1>7, <2>1, PopTypes, AfterStatementTypes DEF CloseBlock, CloseFor
  <2> QED
    BY <1>7, <2>1, <2>2 DEF CloseBlock, CloseFor, AtStatement, Leaves
<1>8. CASE \/ \E n, used \in Names : ExitOnInitializer(n, used)
           \/ \E n \in Names : EnumSpecifier(n)
           \/ BeginBody
           \/ ExitTooManyNodes
           \/ Finish
  BY <1>8 DEF ExitOnInitializer, EnumSpecifier, BeginBody, ExitTooManyNodes,
              Finish, Keeps, scopeVars
<1>9. CASE (\E n \in Names : UseStatement(n)) \/ EmptyStatement
  <2>1. phase # "file" /\ phase' # "file"
    BY <1>9, AfterStatementTypes DEF UseStatement, EmptyStatement, AtStatement
  <2> QED
    BY <1>9, <2>1 DEF UseStatement, EmptyStatement, Keeps, scopeVars
<1>10. CASE \/ ForWithoutDeclaration
            \/ ElseBranch
            \/ \E n \in Names \cup {Unnamed} : ExitOnDeclare(n)
            \/ \E n \in Names : ExitOnUse(n)
  BY <1>10 DEF ForWithoutDeclaration, ElseBranch, ExitOnDeclare, ExitOnUse,
               Keeps, scopeVars
<1>11. CASE UNCHANGED vars
  BY <1>11 DEF vars, Keeps, scopeVars
<1> QED
  BY <1>1, <1>2, <1>3, <1>4, <1>5, <1>6, <1>7, <1>8, <1>9, <1>10, <1>11
     DEF Next, Stopped

-----------------------------------------------------------------------------
(* The discipline of the list of visible locals *)

(* A declaration goes to the end of the list: it is as deep as any other, and
   add_lvar has just rejected a second one of its name in its scope. *)
LEMMA AddsKeepsOrder ==
  ASSUME TypeInv, InnermostLast, NoneDeeper, OncePerScope,
         NEW n \in Names \cup {Unnamed}, NEW shape \in Shapes, Adds(n, shape)
  PROVE  InnermostLast' /\ NoneDeeper' /\ OncePerScope'
<1> DEFINE new == NewEntry(n, shape)
<1>1. new \in Entries /\ active' \in Seq(Entries)
  BY AddLvarTypes DEF Adds, TypeInv
<1>2. /\ active \in Seq(Entries)
      /\ Len(active) \in Nat
      /\ Len(active') = Len(active) + 1
      /\ active'[Len(active) + 1] = new
      /\ \A i \in 1 .. Len(active) : active'[i] = active[i]
      /\ \A i \in 1 .. Len(active) : active[i] \in Entries
  BY <1>1, PushFacts, ElementOfSeq DEF Adds, AddLvar, TypeInv, TypeOK
<1>3. new.name = n /\ new.depth = depth /\ depth \in Nat /\ depth' = depth
  BY DEF NewEntry, Adds, TypeInv, TypeOK
<1>4. \A i \in 1 .. Len(active) : active[i].depth \in Nat
  BY <1>2 DEF Entries
<1> HIDE DEF new
<1>5. InnermostLast'
  BY <1>2, <1>3, <1>4 DEF InnermostLast, NoneDeeper
<1>6. NoneDeeper'
  BY <1>2, <1>3, <1>4 DEF NoneDeeper
<1>7. \A i \in 1 .. Len(active) :
         n # Unnamed /\ active[i].name = n => active[i].depth # depth
  <2> SUFFICES ASSUME NEW i \in 1 .. Len(active), n # Unnamed,
                      active[i].name = n, active[i].depth = depth
               PROVE  FALSE
    OBVIOUS
  <2>1. \A j \in i .. Len(active) : active[j].depth >= depth
    BY <1>2, <1>3, <1>4 DEF InnermostLast
  <2> QED
    BY <2>1 DEF Adds, CanAdd, Redeclared
<1>8. OncePerScope'
  <2> SUFFICES ASSUME NEW i \in 1 .. Len(active'), NEW j \in 1 .. Len(active'),
                      i < j,
                      active'[i].name = active'[j].name,
                      active'[i].name # Unnamed,
                      active'[i].depth = active'[j].depth
               PROVE  FALSE
    BY <1>2 DEF OncePerScope
  <2>1. i \in 1 .. Len(active)
    BY <1>2
  <2>2. CASE j \in 1 .. Len(active)
    BY <2>1, <2>2, <1>2 DEF OncePerScope
  <2>3. CASE j = Len(active) + 1
    BY <2>1, <2>3, <1>2, <1>3, <1>7
  <2> QED
    BY <2>2, <2>3, <1>2
<1> QED
  BY <1>5, <1>6, <1>8

(* The pops of leave_scope remove all of the innermost scope: the rest is in
   order, and what was in front of it was deeper. *)
LEMMA LeavesKeepsOrder ==
  ASSUME TypeInv, InnermostLast, NoneDeeper, OncePerScope, Leaves
  PROVE  InnermostLast' /\ NoneDeeper' /\ OncePerScope'
<1>1. PICK k \in 0 .. Len(active) : IsLeft(k) /\ active' = SubSeq(active, 1, k)
  BY DEF Leaves, LeaveScope, TypeInv, TypeOK
<1>2. /\ active \in Seq(Entries)
      /\ Len(active) \in Nat
      /\ Len(active') = k
      /\ \A i \in 1 .. k : active'[i] = active[i]
      /\ \A i \in 1 .. Len(active) : active[i] \in Entries
  BY <1>1, PrefixFacts, ElementOfSeq DEF TypeInv, TypeOK
<1>3. \A i \in 1 .. Len(active) : active[i].depth \in Nat
  BY <1>2 DEF Entries
<1>4. depth \in Nat /\ depth' = depth - 1
  BY DEF Leaves, LeaveScope, TypeInv, TypeOK
<1>5. \A i \in 1 .. k : active[i].depth < depth
  BY <1>1, <1>2, <1>3, <1>4 DEF IsLeft, InnermostLast
<1>6. InnermostLast' /\ OncePerScope'
  BY <1>1, <1>2 DEF InnermostLast, OncePerScope
<1>7. NoneDeeper'
  BY <1>2, <1>3, <1>4, <1>5 DEF NoneDeeper
<1> QED
  BY <1>6, <1>7

StackInv == TypeInv /\ InnermostLast /\ NoneDeeper /\ OncePerScope

LEMMA StackInvInit == Init => StackInv
  BY TypeInvInit, EmptySeq
     DEF Init, StackInv, InnermostLast, NoneDeeper, OncePerScope

LEMMA StackInvStep == StackInv /\ [Next]_vars => StackInv'
<1> SUFFICES ASSUME StackInv, [Next]_vars PROVE StackInv'
  OBVIOUS
<1>1. TypeInv /\ TypeInv'
  BY TypeInvStep DEF StackInv
<1>2. CASE Opens
  BY <1>1, <1>2, EmptySeq
     DEF Opens, ResetScope, StackInv, InnermostLast, NoneDeeper, OncePerScope
<1>3. CASE \E n \in Names \cup {Unnamed}, shape \in Shapes : Adds(n, shape)
  BY <1>1, <1>3, AddsKeepsOrder DEF StackInv
<1>4. CASE Enters
  <2>1. \A i \in 1 .. Len(active) : active[i] \in Entries
    BY <1>1, ElementOfSeq DEF TypeInv, TypeOK
  <2>2. \A i \in 1 .. Len(active) : active[i].depth \in Nat
    BY <2>1 DEF Entries
  <2> QED
    BY <1>1, <1>4, <2>2
       DEF Enters, EnterScope, StackInv, InnermostLast, NoneDeeper,
           OncePerScope, TypeInv, TypeOK
<1>5. CASE Leaves
  BY <1>1, <1>5, LeavesKeepsOrder DEF StackInv
<1>6. CASE Keeps \/ \E chain \in SUBSET Entries : Appends(chain)
  BY <1>1, <1>6
     DEF Keeps, Appends, scopeVars, StackInv, InnermostLast, NoneDeeper,
         OncePerScope
<1> QED
  BY <1>1, <1>2, <1>3, <1>4, <1>5, <1>6, StepKinds

(* The invariant stated above find_lvar holds on every parse path. *)
THEOREM StackIsDisciplined == Spec => []StackDiscipline
<1>1. StackInv => StackDiscipline
  BY DEF StackInv, TypeInv, Control, StackDiscipline, Balanced
<1> QED
  BY StackInvInit, StackInvStep, <1>1, PTL DEF Spec

-----------------------------------------------------------------------------
(* The retained chain and the slots *)

LEMMA LocalsChainInit == Init => LocalsChain
  BY EmptySeq DEF Init, LocalsChain

LEMMA AddsKeepsChain ==
  ASSUME TypeInv, LocalsChain,
         NEW n \in Names \cup {Unnamed}, NEW shape \in Shapes, Adds(n, shape)
  PROVE  LocalsChain'
<1> DEFINE new == NewEntry(n, shape)
<1>1. new.slot = next /\ next \in Nat /\ next' = next + 1
  BY DEF NewEntry, Adds, AddLvar, TypeInv, TypeOK
<1>2. locals' = locals \cup {new}
  BY DEF Adds, AddLvar
<1>3. new \in Entries
  BY AddLvarTypes DEF Adds, TypeInv
<1>4. /\ Len(active) \in Nat
      /\ Len(active') = Len(active) + 1
      /\ active'[Len(active) + 1] = new
      /\ \A i \in 1 .. Len(active) : active'[i] = active[i]
  BY <1>3, PushFacts DEF Adds, AddLvar, TypeInv, TypeOK
<1>5. \A e \in locals : e.slot \in Nat
  BY LimitsAssumption DEF TypeInv, TypeOK, Entries, Slots
<1> HIDE DEF new
<1>6. \A i \in 1 .. Len(active') : active'[i] \in locals'
  BY <1>2, <1>4 DEF LocalsChain
<1>7. /\ \A e \in locals' : e.slot < next'
      /\ \A e, f \in locals' : e.slot = f.slot => e = f
  BY <1>1, <1>2, <1>5 DEF LocalsChain
<1>8. \A s \in 0 .. next' - 1 : \E e \in locals' : e.slot = s
  BY <1>1, <1>2 DEF LocalsChain
<1> QED
  BY <1>6, <1>7, <1>8 DEF LocalsChain

LEMMA LocalsChainStep == TypeInv /\ LocalsChain /\ [Next]_vars => LocalsChain'
<1> SUFFICES ASSUME TypeInv, LocalsChain, [Next]_vars PROVE LocalsChain'
  OBVIOUS
<1>1. CASE Opens
  BY <1>1, EmptySeq DEF Opens, ResetScope, LocalsChain
<1>2. CASE \E n \in Names \cup {Unnamed}, shape \in Shapes : Adds(n, shape)
  BY <1>2, AddsKeepsChain
<1>3. CASE Enters
  BY <1>3 DEF Enters, LocalsChain
<1>4. CASE Leaves
  <2>1. PICK k \in 0 .. Len(active) : active' = SubSeq(active, 1, k)
    BY <1>4 DEF Leaves, LeaveScope, TypeInv, TypeOK
  <2>2. /\ Len(active') = k
        /\ \A i \in 1 .. k : active'[i] = active[i]
    BY <2>1, PrefixFacts DEF TypeInv, TypeOK
  <2>3. Len(active) \in Nat
    BY LenProperties DEF TypeInv, TypeOK
  <2> QED
    BY <1>4, <2>2, <2>3 DEF Leaves, LocalsChain
<1>5. CASE Keeps \/ \E chain \in SUBSET Entries : Appends(chain)
  BY <1>5 DEF Keeps, Appends, scopeVars, LocalsChain
<1> QED
  BY <1>1, <1>2, <1>3, <1>4, <1>5, StepKinds

(* Codegen's chain is complete and its slots are pairwise different. *)
THEOREM ChainIsComplete == Spec => []LocalsChain
  BY TypeInvInit, TypeInvStep, LocalsChainInit, LocalsChainStep, PTL DEF Spec

-----------------------------------------------------------------------------
(* Tables that outlive a function *)

LEMMA VlaStep ==
  TypeInv /\ LocalsChain /\ VlaOwnSize /\ [Next]_vars => VlaOwnSize'
<1> SUFFICES ASSUME TypeInv, LocalsChain, VlaOwnSize, [Next]_vars
             PROVE  VlaOwnSize'
  OBVIOUS
<1>1. CASE Opens
  BY <1>1 DEF Opens, VlaOwnSize
<1>2. CASE \E n \in Names \cup {Unnamed}, shape \in Shapes : Adds(n, shape)
  <2>1. PICK n \in Names \cup {Unnamed}, shape \in Shapes : Adds(n, shape)
    BY <1>2
  <2> DEFINE new == NewEntry(n, shape)
  <2>2. /\ new.slot = next /\ new.shape = shape
        /\ new.name = n /\ new.fn = fn
        /\ next \in Slots
    BY <2>1, LimitsAssumption
       DEF NewEntry, Adds, CanAdd, Slots, TypeInv, TypeOK
  <2>3. locals' = locals \cup {new}
    BY <2>1 DEF Adds, AddLvar
  <2>4. \A e \in locals : e.slot \in Slots /\ e.slot # next
    BY LimitsAssumption DEF TypeInv, TypeOK, Entries, Slots, LocalsChain
  <2>5. \A e \in locals : vla'[e.slot] = vla[e.slot]
    BY <2>1, <2>2, <2>4 DEF Adds, StoreCount, TypeInv, TypeOK
  <2>6. shape = "vla" => vla'[next] = [name |-> n, fn |-> fn]
    BY <2>1, <2>2 DEF Adds, StoreCount, TypeInv, TypeOK
  <2> HIDE DEF new
  <2>7. InFunction
    BY <2>1 DEF Adds, InFunction
  <2> QED
    BY <2>2, <2>3, <2>5, <2>6, <2>7 DEF VlaOwnSize
<1>3. CASE Enters \/ Leaves \/ Keeps
  BY <1>3 DEF Enters, Leaves, Keeps, VlaOwnSize, InFunction
<1>4. CASE \E chain \in SUBSET Entries : Appends(chain)
  BY <1>4 DEF Appends, VlaOwnSize, InFunction
<1> QED
  BY <1>1, <1>2, <1>3, <1>4, StepKinds

(* sizeof of a VLA reads the count of that VLA: the write at its declaration
   is the last one to its slot while the function is parsed, although the
   table is never cleared and every function numbers its slots from 0. *)
THEOREM VlaSizesAreOwn == Spec => []VlaOwnSize
<1>1. Init => VlaOwnSize
  BY DEF Init, VlaOwnSize, InFunction
<1> QED
  BY TypeInvInit, TypeInvStep, LocalsChainInit, LocalsChainStep, <1>1,
     VlaStep, PTL DEF Spec

(* A declaration carries the number of its function, and the chains of the
   nodes are those of earlier functions. *)
Tagged ==
  /\ InFunction => \A e \in locals : e.fn = fn
  /\ \A i \in 1 .. Len(code) : \A e \in code[i].locals :
        IF InFunction THEN e.fn < fn ELSE e.fn <= fn

ChainInv == Tagged /\ ChainsDisjoint

LEMMA ChainStep == TypeInv /\ ChainInv /\ [Next]_vars => ChainInv'
<1> SUFFICES ASSUME TypeInv, ChainInv, [Next]_vars PROVE ChainInv'
  OBVIOUS
<1>1. \A i \in 1 .. Len(code) : code[i] \in TopNodes
  BY ElementOfSeq DEF TypeInv, TypeOK
<1>2. \A i \in 1 .. Len(code) : \A e \in code[i].locals : e.fn \in Nat
  BY <1>1 DEF TopNodes, Entries
<1>3. fn \in Nat /\ Len(code) \in Nat
  BY LenProperties DEF TypeInv, TypeOK
<1>4. CASE Opens
  BY <1>2, <1>3, <1>4 DEF Opens, InFunction, ChainInv, Tagged, ChainsDisjoint
<1>5. CASE \E n \in Names \cup {Unnamed}, shape \in Shapes : Adds(n, shape)
  <2>1. PICK n \in Names \cup {Unnamed}, shape \in Shapes : Adds(n, shape)
    BY <1>5
  <2>2. NewEntry(n, shape).fn = fn
    BY DEF NewEntry
  <2>3. locals' = locals \cup {NewEntry(n, shape)}
    BY <2>1 DEF Adds, AddLvar
  <2>4. InFunction /\ InFunction' /\ UNCHANGED <<fn, code>>
    BY <2>1 DEF Adds, InFunction
  <2>5. Tagged'
    BY <2>2, <2>3, <2>4 DEF ChainInv, Tagged
  <2>6. ChainsDisjoint'
    BY <1>2, <1>3, <2>2, <2>3, <2>4 DEF ChainInv, Tagged, ChainsDisjoint
  <2> QED
    BY <2>5, <2>6 DEF ChainInv
<1>6. CASE Enters \/ Leaves \/ Keeps
  BY <1>6 DEF Enters, Leaves, Keeps, ChainInv, Tagged, ChainsDisjoint,
              InFunction
<1>7. CASE \E chain \in SUBSET Entries : Appends(chain)
  <2>1. PICK chain \in SUBSET Entries : Appends(chain)
    BY <1>7
  <2> DEFINE node(kind, n) == [kind |-> kind, name |-> n, locals |-> chain]
  <2>2. PICK kind \in {"function", "gvar"}, n \in Names :
           code' = Append(code, node(kind, n))
    BY <2>1 DEF Appends
  <2>3. node(kind, n) \in TopNodes /\ node(kind, n).locals = chain
    BY DEF TopNodes
  <2> HIDE DEF node
  <2>4. /\ Len(code') = Len(code) + 1
        /\ code'[Len(code) + 1].locals = chain
        /\ \A i \in 1 .. Len(code) : code'[i] = code[i]
    BY <2>2, <2>3, PushFacts DEF TypeInv, TypeOK
  <2>5. chain = IF InFunction THEN locals ELSE {}
    BY <2>1 DEF Appends, InFunction
  <2>6. ~InFunction' /\ fn' = fn
    BY <2>1 DEF Appends, InFunction
  <2>7. Tagged'
    BY <1>2, <1>3, <2>4, <2>5, <2>6 DEF ChainInv, Tagged
  <2>8. ChainsDisjoint'
    BY <1>3, <2>4, <2>5, <2>6 DEF ChainInv, ChainsDisjoint
  <2> QED
    BY <2>7, <2>8 DEF ChainInv
<1> QED
  BY <1>4, <1>5, <1>6, <1>7, StepKinds

(* No declaration is on two chains, so free_ast frees each one once. *)
THEOREM ChainsAreDisjoint == Spec => []ChainsDisjoint
<1>1. Init => ChainInv
  BY EmptySeq DEF Init, ChainInv, Tagged, ChainsDisjoint, InFunction
<1>2. ChainInv => ChainsDisjoint
  BY DEF ChainInv
<1> QED
  BY TypeInvInit, TypeInvStep, <1>1, <1>2, ChainStep, PTL DEF Spec

-----------------------------------------------------------------------------
(* The list of locals as a stack of frames *)

(* An entry is the one that its frame maps its name to. *)
LEMMA FrameOfEntry ==
  ASSUME StackInv, NEW i \in 1 .. Len(active), active[i].name \in Names
  PROVE  FrameAt(active[i].depth)[active[i].name] = active[i].slot
<1> DEFINE n == active[i].name
           d == active[i].depth
<1>1. EntryAt(n, d) = {active[i]}
  <2>1. active[i] \in EntryAt(n, d)
    BY DEF EntryAt
  <2>2. \A k \in 1 .. Len(active) :
           active[k].name = n /\ active[k].depth = d => k = i
    BY NamesAssumption DEF StackInv, OncePerScope
  <2>3. \A e \in EntryAt(n, d) : e = active[i]
    BY <2>2 DEF EntryAt
  <2> QED
    BY <2>1, <2>3
<1>2. EntryAt(n, d) # {} /\ (CHOOSE e \in EntryAt(n, d) : TRUE) = active[i]
  BY <1>1
<1> QED
  BY <1>2 DEF FrameAt, SlotOf

LEMMA FrameWithoutEntry ==
  ASSUME NEW n \in Names, NEW d,
         \A i \in 1 .. Len(active) : ~(active[i].name = n /\ active[i].depth = d)
  PROVE  FrameAt(d)[n] = NoSlot
<1>1. EntryAt(n, d) = {}
  BY DEF EntryAt
<1> QED
  BY <1>1 DEF FrameAt, SlotOf

(* The frames as a sequence: one more than scope_depth. *)
LEMMA FramesShape ==
  ASSUME StackInv, InFunction
  PROVE  /\ absFrames = [i \in 1 .. depth + 1 |-> FrameAt(i - 1)]
         /\ DOMAIN absFrames = 1 .. depth + 1
         /\ Len(absFrames) = depth + 1
         /\ \A i \in 1 .. depth + 1 : absFrames[i] = FrameAt(i - 1)
         /\ depth \in Nat
<1>1. depth \in Nat
  BY DEF StackInv, TypeInv, TypeOK
<1>2. absFrames = [i \in 1 .. depth + 1 |-> FrameAt(i - 1)]
  BY DEF absFrames
<1>3. DOMAIN absFrames = 1 .. depth + 1
  BY <1>2
<1>4. Len(absFrames) = depth + 1
  BY <1>1, <1>3
<1> QED
  BY <1>1, <1>2, <1>3, <1>4

LEMMA ActiveTypes ==
  ASSUME StackInv
  PROVE  /\ Len(active) \in Nat
         /\ \A i \in 1 .. Len(active) :
               /\ active[i] \in Entries
               /\ active[i].depth \in 0 .. depth
               /\ active[i].slot \in Nat
               /\ active[i].slot \in Slots
               /\ active[i].slot # NoSlot
               /\ active[i].name \in Names \cup {Unnamed}
<1>1. /\ Len(active) \in Nat
      /\ \A i \in 1 .. Len(active) : active[i] \in Entries
  BY ElementOfSeq, LenProperties DEF StackInv, TypeInv, TypeOK
<1>2. \A e \in Entries : /\ e.depth \in Nat
                         /\ e.slot \in Slots
                         /\ e.slot \in Nat
                         /\ e.slot # NoSlot
                         /\ e.name \in Names \cup {Unnamed}
  BY LimitsAssumption DEF Entries, Slots, NoSlot
<1> QED
  BY <1>1, <1>2 DEF StackInv, TypeInv, TypeOK, NoneDeeper

(* find_lvar, which never looks at scope_depth, finds what the innermost
   frame declares: the last entry of a name is also its deepest. *)
LEMMA LookupAgrees == StackInv => LookupIsInnermost
<1> SUFFICES ASSUME StackInv, InFunction, NEW n \in Names
             PROVE  {e.slot : e \in FindLvar(n)} = Abstract!Lookup(n)
  BY DEF LookupIsInnermost
<1> DEFINE D == Abstract!Declaring(n)
<1>1. \A d \in 0 .. depth :
         d + 1 \in D <=> \E i \in 1 .. Len(active) :
                            active[i].name = n /\ active[i].depth = d
  <2> SUFFICES ASSUME NEW d \in 0 .. depth
               PROVE  d + 1 \in D <=>
                        \E i \in 1 .. Len(active) :
                           active[i].name = n /\ active[i].depth = d
    OBVIOUS
  <2>1. absFrames[d + 1] = FrameAt(d)
    BY FramesShape
  <2>2. d + 1 \in D <=> FrameAt(d)[n] # NoSlot
    BY <2>1, FramesShape DEF Abstract!Declaring
  <2>3. ASSUME NEW i \in 1 .. Len(active),
               active[i].name = n, active[i].depth = d
        PROVE  FrameAt(d)[n] # NoSlot
    BY <2>3, FrameOfEntry, ActiveTypes
  <2>4. ASSUME FrameAt(d)[n] # NoSlot
        PROVE  \E i \in 1 .. Len(active) :
                  active[i].name = n /\ active[i].depth = d
    BY <2>4, FrameWithoutEntry
  <2> QED
    BY <2>2, <2>3, <2>4
<1>2. D \in SUBSET (1 .. depth + 1)
  BY FramesShape DEF Abstract!Declaring
<1>3. Abstract!Lookup(n) =
        {absFrames[i][n] : i \in {k \in D : \A j \in D : j <= k}}
  BY DEF Abstract!Lookup
<1> HIDE DEF D
<1>4. ASSUME NEW i \in 1 .. Len(active), IsInnermost(i, n)
      PROVE  /\ active[i].depth + 1 \in D
             /\ \A j \in D : j <= active[i].depth + 1
             /\ absFrames[active[i].depth + 1][n] = active[i].slot
  <2>1. active[i].name = n /\ active[i].depth \in 0 .. depth
    BY <1>4, ActiveTypes DEF IsInnermost
  <2>2. active[i].depth + 1 \in D
    BY <1>1, <2>1
  <2>3. ASSUME NEW j \in D
        PROVE  j <= active[i].depth + 1
    <3>1. j - 1 \in 0 .. depth /\ (j - 1) + 1 = j
      BY <1>2, FramesShape
    <3>2. PICK k \in 1 .. Len(active) :
             active[k].name = n /\ active[k].depth = j - 1
      BY <1>1, <3>1
    <3>3. k <= i
      BY <1>4, <3>2, ActiveTypes DEF IsInnermost
    <3>4. active[k].depth <= active[i].depth
      BY <3>3, <2>1, ActiveTypes DEF StackInv, InnermostLast
    <3> QED
      BY <3>1, <3>2, <3>4, <2>1
  <2>4. absFrames[active[i].depth + 1] = FrameAt(active[i].depth)
    BY <2>1, FramesShape
  <2> QED
    BY <2>1, <2>2, <2>3, <2>4, FrameOfEntry
<1>5. ASSUME NEW s \in Abstract!Lookup(n)
      PROVE  \E i \in 1 .. Len(active) :
                IsInnermost(i, n) /\ active[i].slot = s
  <2>1. PICK k \in D : s = absFrames[k][n] /\ \A j \in D : j <= k
    BY <1>3, <1>5
  <2>2. k - 1 \in 0 .. depth /\ (k - 1) + 1 = k
    BY <1>2, <2>1, FramesShape
  <2>3. PICK i \in 1 .. Len(active) :
           active[i].name = n /\ active[i].depth = k - 1
    BY <1>1, <2>1, <2>2
  <2>4. active[i].slot = s
    BY <2>1, <2>2, <2>3, FramesShape, FrameOfEntry
  <2>5. ASSUME NEW j \in i + 1 .. Len(active), active[j].name = n
        PROVE  FALSE
    <3>1. j \in 1 .. Len(active) /\ i < j
      BY <2>5, ActiveTypes
    <3>2. active[j].depth \in 0 .. depth /\ active[j].depth + 1 \in D
      BY <1>1, <2>5, <3>1, ActiveTypes
    <3>3. active[j].depth <= active[i].depth
      BY <2>1, <2>2, <2>3, <3>2, ActiveTypes
    <3>4. active[i].depth <= active[j].depth
      BY <3>1 DEF StackInv, InnermostLast
    <3>5. active[j].depth = active[i].depth
      BY <3>1, <3>2, <3>3, <3>4, ActiveTypes
    <3> QED
      BY <2>3, <2>5, <3>1, <3>5, NamesAssumption DEF StackInv, OncePerScope
  <2> QED
    BY <2>3, <2>4, <2>5 DEF IsInnermost
<1>6. ASSUME NEW e \in FindLvar(n)
      PROVE  e.slot \in Abstract!Lookup(n)
  <2>1. PICK i \in 1 .. Len(active) : IsInnermost(i, n) /\ e = active[i]
    BY <1>6 DEF FindLvar
  <2> QED
    BY <1>3, <1>4, <2>1
<1>7. \A s \in Abstract!Lookup(n) : \E e \in FindLvar(n) : e.slot = s
  BY <1>5 DEF FindLvar
<1> QED
  BY <1>6, <1>7

(* A name always denotes the declaration of the innermost open scope that has
   one, for all programs and any nesting. *)
THEOREM InnermostIsFound == Spec => []LookupIsInnermost
  BY StackInvInit, StackInvStep, LookupAgrees, PTL DEF Spec

-----------------------------------------------------------------------------
(* The refinement, step by step *)

LEMMA FrameType ==
  ASSUME StackInv, NEW d
  PROVE  FrameAt(d) \in Abstract!Frames
<1>1. ASSUME NEW n \in Names
      PROVE  FrameAt(d)[n] \in Slots \cup {NoSlot}
  <2>1. CASE EntryAt(n, d) = {}
    BY <2>1 DEF FrameAt, SlotOf
  <2>2. CASE EntryAt(n, d) # {}
    <3>1. \A e \in EntryAt(n, d) : e.slot \in Slots
      BY ActiveTypes DEF EntryAt
    <3> QED
      BY <2>2, <3>1 DEF FrameAt, SlotOf
  <2> QED
    BY <2>1, <2>2
<1> QED
  BY <1>1 DEF FrameAt, Abstract!Frames

LEMMA FramesType ==
  ASSUME StackInv, InFunction
  PROVE  absFrames \in Seq(Abstract!Frames)
<1>1. \A i \in 1 .. depth + 1 : absFrames[i] \in Abstract!Frames
  BY FramesShape, FrameType
<1> QED
  BY <1>1, FramesShape

(* Frames of the next state, by what they hold. *)
LEMMA FramesNext ==
  ASSUME InFunction', StackInv', NEW s \in Seq(Abstract!Frames),
         Len(s) = depth' + 1,
         \A i \in 1 .. depth' + 1 : s[i] = FrameAt(i - 1)'
  PROVE  absFrames' = s
<1>1. depth' \in Nat
  BY DEF StackInv, TypeInv, TypeOK
<1>2. absFrames' = [i \in 1 .. depth' + 1 |-> FrameAt(i - 1)']
  BY DEF absFrames
<1>3. s = [i \in 1 .. Len(s) |-> s[i]]
  BY LenProperties
<1> QED
  BY <1>1, <1>2, <1>3

LEMMA SameEntriesSameFrame ==
  ASSUME NEW d, \A n \in Names : EntryAt(n, d)' = EntryAt(n, d)
  PROVE  FrameAt(d)' = FrameAt(d)
  BY DEF FrameAt

LEMMA NoEntriesEmptyFrame ==
  ASSUME NEW d, \A n \in Names : EntryAt(n, d)' = {}
  PROVE  FrameAt(d)' = Abstract!EmptyFrame
  BY DEF FrameAt, SlotOf, Abstract!EmptyFrame

LEMMA OpensRefines ==
  ASSUME StackInv', Opens
  PROVE  Abstract!OpenFunction
<1>1. ~InFunction /\ InFunction' /\ depth' = 0 /\ active' = <<>>
      /\ locals' = {}
  BY DEF Opens, ResetScope, InFunction
<1>2. absFrames = <<>> /\ absUsed' = {}
  BY <1>1 DEF absFrames, absUsed
<1>3. \A n \in Names : EntryAt(n, 0)' = {}
  BY <1>1, EmptySeq DEF EntryAt
<1>4. FrameAt(0)' = Abstract!EmptyFrame
  BY <1>3, NoEntriesEmptyFrame
<1>5. absFrames' = [i \in 1 .. 1 |-> FrameAt(i - 1)']
  BY <1>1 DEF absFrames
<1>6. absFrames' = <<Abstract!EmptyFrame>>
  BY <1>4, <1>5
<1> QED
  BY <1>2, <1>6 DEF Abstract!OpenFunction

LEMMA EntersRefines ==
  ASSUME StackInv, StackInv', Enters
  PROVE  Abstract!OpenScope
<1>1. InFunction /\ InFunction' /\ depth' = depth + 1 /\ active' = active
      /\ locals' = locals /\ depth \in Nat
  BY DEF Enters, EnterScope, InFunction, StackInv, TypeInv, TypeOK
<1>2. \A i \in 1 .. depth + 1 : FrameAt(i - 1)' = absFrames[i]
  BY <1>1, FramesShape, SameEntriesSameFrame DEF EntryAt
<1>3. PICK d \in Nat : d = depth + 1
  BY <1>1
<1>4. FrameAt(d)' = Abstract!EmptyFrame
  <2>1. \A n \in Names : EntryAt(n, d)' = {}
    BY <1>1, <1>3, ActiveTypes DEF EntryAt
  <2> QED
    BY <2>1, NoEntriesEmptyFrame
<1>5. Abstract!EmptyFrame \in Abstract!Frames
  BY DEF Abstract!EmptyFrame, Abstract!Frames
<1> DEFINE s == Append(absFrames, Abstract!EmptyFrame)
<1>6. /\ s \in Seq(Abstract!Frames)
      /\ Len(s) = depth + 2
      /\ s[depth + 2] = Abstract!EmptyFrame
      /\ \A i \in 1 .. depth + 1 : s[i] = absFrames[i]
  BY <1>1, <1>5, FramesType, FramesShape, PushFacts
<1> HIDE DEF s
<1>7. \A i \in 1 .. depth' + 1 : s[i] = FrameAt(i - 1)'
  <2> SUFFICES ASSUME NEW i \in 1 .. depth' + 1
               PROVE  s[i] = FrameAt(i - 1)'
    OBVIOUS
  <2>1. CASE i \in 1 .. depth + 1
    BY <2>1, <1>2, <1>6
  <2>2. CASE i = depth + 2
    <3>1. i - 1 = d
      BY <1>1, <1>3, <2>2
    <3> QED
      BY <2>2, <3>1, <1>4, <1>6
  <2> QED
    BY <1>1, <2>1, <2>2
<1>8. absFrames' = s
  BY <1>1, <1>6, <1>7, FramesNext
<1>9. absFrames # <<>>
  BY <1>1, FramesShape
<1>10. absUsed' = absUsed
  BY <1>1 DEF absUsed
<1> QED
  BY <1>8, <1>9, <1>10 DEF s, Abstract!OpenScope

LEMMA LeavesRefines ==
  ASSUME StackInv, StackInv', Leaves
  PROVE  Abstract!CloseScope
<1>1. InFunction /\ InFunction' /\ depth' = depth - 1
      /\ locals' = locals /\ depth \in Nat /\ depth > 0
  BY DEF Leaves, LeaveScope, InFunction, StackInv, TypeInv, TypeOK
<1>2. PICK k \in 0 .. Len(active) : IsLeft(k) /\ active' = SubSeq(active, 1, k)
  BY <1>1 DEF Leaves, LeaveScope
<1>3. /\ Len(active) \in Nat
      /\ Len(active') = k
      /\ \A i \in 1 .. k : active'[i] = active[i]
  BY <1>2, PrefixFacts, ActiveTypes DEF StackInv, TypeInv, TypeOK
<1>4. \A n \in Names, d \in 0 .. depth - 1 : EntryAt(n, d)' = EntryAt(n, d)
  <2> SUFFICES ASSUME NEW n \in Names, NEW d \in 0 .. depth - 1
               PROVE  EntryAt(n, d)' = EntryAt(n, d)
    OBVIOUS
  <2>1. \A i \in 1 .. Len(active) : active[i].depth = d => i <= k
    BY <1>1, <1>2, <1>3, ActiveTypes DEF IsLeft
  <2> QED
    BY <2>1, <1>3 DEF EntryAt
<1>5. \A i \in 1 .. depth : FrameAt(i - 1)' = absFrames[i]
  <2> SUFFICES ASSUME NEW i \in 1 .. depth
               PROVE  FrameAt(i - 1)' = absFrames[i]
    OBVIOUS
  <2>1. i - 1 \in 0 .. depth - 1
    BY <1>1
  <2>2. FrameAt(i - 1)' = FrameAt(i - 1)
    BY <1>4, <2>1, SameEntriesSameFrame
  <2> QED
    BY <1>1, <2>2, FramesShape
<1> DEFINE s == SubSeq(absFrames, 1, Len(absFrames) - 1)
<1>6. Len(absFrames) - 1 = depth /\ depth \in 0 .. Len(absFrames)
  BY <1>1, FramesShape
<1>7. /\ s \in Seq(Abstract!Frames)
      /\ Len(s) = depth
      /\ \A i \in 1 .. depth : s[i] = absFrames[i]
  BY <1>1, <1>6, FramesType, PrefixFacts
<1> HIDE DEF s
<1>8. absFrames' = s
  BY <1>1, <1>5, <1>7, FramesNext
<1>9. Len(absFrames) > 1
  BY <1>1, FramesShape
<1>10. absUsed' = absUsed
  BY <1>1 DEF absUsed
<1> QED
  BY <1>8, <1>9, <1>10 DEF s, Abstract!CloseScope

(* A declaration in the innermost frame, where add_lvar found none. *)
LEMMA AddsRefines ==
  ASSUME StackInv, StackInv', LocalsChain,
         NEW n \in Names \cup {Unnamed}, NEW shape \in Shapes, Adds(n, shape)
  PROVE  Abstract!Next
<1> DEFINE new == NewEntry(n, shape)
<1>1. InFunction /\ InFunction' /\ depth' = depth /\ depth \in Nat
  BY DEF Adds, InFunction, StackInv, TypeInv, TypeOK
<1>2. /\ new.name = n /\ new.depth = depth /\ new.slot = next
      /\ next \in Slots /\ next \in Nat /\ next # NoSlot
  BY LimitsAssumption
     DEF NewEntry, Adds, CanAdd, Slots, NoSlot, StackInv, TypeInv, TypeOK
<1>3. new \in Entries
  BY AddLvarTypes DEF Adds, StackInv, TypeInv
<1>4. /\ Len(active) \in Nat
      /\ Len(active') = Len(active) + 1
      /\ active'[Len(active) + 1] = new
      /\ \A i \in 1 .. Len(active) : active'[i] = active[i]
  BY <1>3, PushFacts DEF Adds, AddLvar, StackInv, TypeInv, TypeOK
<1>5. absUsed' = absUsed \cup {next}
  BY <1>1, <1>2 DEF absUsed, Adds, AddLvar
<1>6. next \notin absUsed
  <2>1. \A e \in locals : e.slot < next /\ e.slot \in Nat
    BY LimitsAssumption
       DEF LocalsChain, StackInv, TypeInv, TypeOK, Entries, Slots
  <2> QED
    BY <1>1, <1>2, <2>1 DEF absUsed
<1> HIDE DEF new
<1>7. \A m \in Names, d \in Nat :
         ~(m = n /\ d = depth) => EntryAt(m, d)' = EntryAt(m, d)
  BY <1>2, <1>4 DEF EntryAt
<1>8. CASE n = Unnamed
  <2>1. depth = 0
    BY <1>8 DEF Adds
  <2>2. \A i \in 1 .. depth + 1 : FrameAt(i - 1)' = absFrames[i]
    BY <1>1, <1>7, <1>8, NamesAssumption, FramesShape, SameEntriesSameFrame
  <2>3. absFrames' = absFrames
    BY <1>1, <2>2, FramesType, FramesShape, FramesNext
  <2>4. Abstract!DeclareUnnamed(next)
    BY <1>1, <1>5, <1>6, <2>1, <2>3, FramesShape DEF Abstract!DeclareUnnamed
  <2> QED
    BY <1>2, <2>4 DEF Abstract!Next
<1>9. CASE n \in Names
  <2>1. EntryAt(n, depth) = {}
    <3>1. ASSUME NEW i \in 1 .. Len(active), active[i].name = n,
                 active[i].depth = depth
          PROVE  FALSE
      <4>1. \A j \in i .. Len(active) : active[j].depth >= depth
        BY <3>1, <1>1, <1>4, ActiveTypes DEF StackInv, InnermostLast
      <4> QED
        BY <1>9, <3>1, <4>1, NamesAssumption DEF Adds, CanAdd, Redeclared
    <3> QED
      BY <3>1 DEF EntryAt
  <2>2. PICK d \in Nat : d = depth
    BY <1>1
  <2>3. EntryAt(n, d)' = {new}
    <3>1. \A i \in 1 .. Len(active) :
             ~(active[i].name = n /\ active[i].depth = d)
      BY <2>1, <2>2 DEF EntryAt
    <3>2. \A i \in 1 .. Len(active') :
             active'[i].name = n /\ active'[i].depth = d
             <=> i = Len(active) + 1
      BY <1>2, <1>4, <2>2, <3>1
    <3>3. new \in EntryAt(n, d)'
      BY <1>4, <3>2 DEF EntryAt
    <3>4. \A e \in EntryAt(n, d)' : e = new
      BY <1>4, <3>2 DEF EntryAt
    <3> QED
      BY <3>3, <3>4
  <2> DEFINE top == [FrameAt(d) EXCEPT ![n] = next]
             s == [absFrames EXCEPT ![depth + 1] = top]
  <2>4. FrameAt(d)' = top
    <3>1. SlotOf(EntryAt(n, d)') = next
      BY <1>2, <2>3 DEF SlotOf
    <3> QED
      BY <1>7, <1>9, <2>2, <3>1 DEF FrameAt
  <2>5. top \in Abstract!Frames
    BY <1>2, <1>9, FrameType DEF Abstract!Frames
  <2>6. absFrames[depth + 1] = FrameAt(d)
    BY <1>1, <2>2, FramesShape
  <2>7. FrameAt(d)[n] = NoSlot
    BY <1>9, <2>1, <2>2 DEF FrameAt, SlotOf
  <2> HIDE DEF top
  <2>8. /\ s \in Seq(Abstract!Frames)
        /\ Len(s) = depth + 1
        /\ \A i \in 1 .. depth + 1 :
              s[i] = IF i = depth + 1 THEN top ELSE absFrames[i]
    BY <1>1, <2>5, FramesType, FramesShape, ExceptSeq
  <2>9. \A i \in 1 .. depth' + 1 : s[i] = FrameAt(i - 1)'
    <3> SUFFICES ASSUME NEW i \in 1 .. depth + 1
                 PROVE  s[i] = FrameAt(i - 1)'
      BY <1>1
    <3>1. CASE i = depth + 1
      <4>1. i - 1 = d
        BY <1>1, <2>2, <3>1
      <4> QED
        BY <2>4, <2>8, <3>1, <4>1
    <3>2. CASE i # depth + 1
      <4>1. i - 1 \in Nat /\ i - 1 # depth
        BY <1>1, <3>2
      <4>2. FrameAt(i - 1)' = FrameAt(i - 1)
        BY <1>7, <4>1, SameEntriesSameFrame
      <4> QED
        BY <1>1, <2>8, <3>2, <4>2, FramesShape
    <3> QED
      BY <3>1, <3>2
  <2> HIDE DEF s
  <2>10. absFrames' = s
    BY <1>1, <2>8, <2>9, FramesNext
  <2>11. s = [absFrames EXCEPT ![Len(absFrames)][n] = next]
    BY <1>1, <2>6, FramesShape DEF s, top
  <2>12. Abstract!Declare(n, next)
    BY <1>1, <1>5, <1>6, <2>6, <2>7, <2>10, <2>11, FramesShape
       DEF Abstract!Declare
  <2> QED
    BY <1>2, <1>9, <2>12 DEF Abstract!Next
<1> QED
  BY <1>8, <1>9

LEMMA KeepsRefines ==
  ASSUME Keeps
  PROVE  UNCHANGED Abstract!vars
<1>1. /\ active' = active /\ depth' = depth /\ locals' = locals
      /\ InFunction' = InFunction
  BY DEF Keeps, scopeVars, InFunction
<1>2. absUsed' = absUsed
  BY <1>1 DEF absUsed
<1>3. \A i \in 1 .. depth + 1 : FrameAt(i - 1)' = FrameAt(i - 1)
  BY <1>1, SameEntriesSameFrame DEF EntryAt
<1>4. absFrames' = absFrames
  BY <1>1, <1>3 DEF absFrames
<1> QED
  BY <1>2, <1>4 DEF Abstract!vars

LEMMA AppendsRefines ==
  ASSUME StackInv, NEW chain \in SUBSET Entries, Appends(chain),
         InFunction => depth = 0
  PROVE  Abstract!CloseFunction \/ UNCHANGED Abstract!vars
<1>1. absFrames' = <<>> /\ absUsed' = {}
  BY DEF Appends, InFunction, absFrames, absUsed
<1>2. CASE InFunction
  BY <1>1, <1>2, FramesShape DEF Abstract!CloseFunction
<1>3. CASE ~InFunction
  BY <1>1, <1>3 DEF absFrames, absUsed, Abstract!vars
<1> QED
  BY <1>2, <1>3

LEMMA StepRefines ==
  StackInv /\ LocalsChain /\ [Next]_vars => [Abstract!Next]_(Abstract!vars)
<1> SUFFICES ASSUME StackInv, LocalsChain, [Next]_vars
             PROVE  [Abstract!Next]_(Abstract!vars)
  OBVIOUS
<1>1. StackInv' /\ TypeInv
  BY StackInvStep DEF StackInv
<1>2. CASE Opens
  BY <1>1, <1>2, OpensRefines DEF Abstract!Next
<1>3. CASE \E n \in Names \cup {Unnamed}, shape \in Shapes : Adds(n, shape)
  BY <1>1, <1>3, AddsRefines
<1>4. CASE Enters
  BY <1>1, <1>4, EntersRefines DEF Abstract!Next
<1>5. CASE Leaves
  BY <1>1, <1>5, LeavesRefines DEF Abstract!Next
<1>6. CASE \E chain \in SUBSET Entries : Appends(chain)
  <2>1. PICK chain \in SUBSET Entries : Appends(chain)
    BY <1>6
  <2>2. InFunction => depth = 0
    BY <2>1 DEF Appends, InFunction
  <2> QED
    BY <2>1, <2>2, AppendsRefines DEF Abstract!Next
<1>7. CASE Keeps
  BY <1>7, KeepsRefines
<1> QED
  BY <1>1, <1>2, <1>3, <1>4, <1>5, <1>6, <1>7, StepKinds

(* The list of visible locals implements the stack of frames. *)
THEOREM ScopeImplementsFrames == Spec => ImplementsFrames
<1>1. Init => Abstract!Init
  BY DEF Init, Abstract!Init, absFrames, absUsed, InFunction
<1> QED
  BY StackInvInit, StackInvStep, LocalsChainInit, LocalsChainStep, <1>1,
     StepRefines, PTL
     DEF Spec, StackInv, ImplementsFrames, Abstract!Spec

=============================================================================
