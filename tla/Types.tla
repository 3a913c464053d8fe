------------------------------- MODULE Types -------------------------------
(***************************************************************************)
(* Type objects: try_parse_type and the declarators around it.  A type is  *)
(* an object on the heap, and a typedef, a tag, a pointer or a member      *)
(* refers to one: a declaration that changes an object changes it for all,  *)
(* as an initializer list does that gives a pointer without a size one.    *)
(*                                                                         *)
(* try_parse_type calls itself for the members of a struct, so the control *)
(* state is the stack of its calls.  The text is the environment, and is   *)
(* C as far as it concerns a struct: its body is read once, has a member,  *)
(* and a member's type is complete.                                        *)
(***************************************************************************)
EXTENDS TypeLayout

CONSTANTS
  Names,       \* identifiers, of typedefs and tags
  BaseTypes,   \* the arithmetic types of the text
  ArraySizes,  \* the array sizes of the text
  ListLengths, \* how many elements initializer lists have, but for none
  Qualifiers,  \* the qualifiers of the text
  MaxTypes,    \* bound: Type objects
  MaxDecls,    \* bound: declarations
  MaxMembers,  \* bound: members of a struct
  MaxNesting   \* bound: calls of try_parse_type at once

Arithmetic == {"CHAR", "SHORT", "INT", "LONG", "LONGLONG", "FLOAT", "DOUBLE",
               "BOOL", "VOID"}

ASSUME TextAssumption ==
  /\ BaseTypes \subseteq Arithmetic \cup {"size_t"}
  /\ ArraySizes \subseteq Nat
  /\ ListLengths \subseteq Nat \ {0}
  /\ Qualifiers \subseteq {"unsigned", "volatile", "restrict", "other"}
  /\ MaxTypes \in Nat /\ MaxDecls \in Nat
  /\ MaxMembers \in Nat /\ MaxNesting \in Nat

VARIABLES
  heap,     \* every Type object that was allocated
  typedefs, \* ctx->typedefs: what a name stands for
  tags,     \* ctx->struct_tags
  objects,  \* the types of variables and parameters
  list,     \* the variable whose initializer list is being read
  stack,    \* the calls of try_parse_type
  decls,    \* how many types were begun, for the bound
  status,   \* running, exit(1), or the end of the text
  shared,   \* history: the types that a typedef stood for
  sized     \* history: the types that got their size from a list

history == <<shared, sized>>

vars == <<heap, typedefs, tags, objects, list, stack, decls, status, history>>

NewType(ty, to, n) ==
  [ty |-> ty, to |-> to, n |-> n, members |-> <<>>,
   unsigned |-> FALSE, volatile |-> FALSE, restrict |-> FALSE]

NewCall ==
  [step |-> "qualifiers", has |-> {}, base |-> NULL, members |-> <<>>]

NoList == [type |-> NULL, scope |-> "none", before |-> 0]

Running == status = "running"
Depth == Len(stack)
Top == stack[Depth]
AtStep(s) == Running /\ stack # <<>> /\ Top.step = s

Here == Len(heap) + 1
Room == Len(heap) < MaxTypes

SetTop(call) == stack' = [stack EXCEPT ![Depth] = call]

(* A member by value, an array element and an object need a complete type. *)
Complete(i) ==
  /\ heap[i].ty \in {"STRUCT", "UNION"} => heap[i].members # <<>>
  /\ heap[i].ty # "VOID"

-----------------------------------------------------------------------------
(* try_parse_type *)

Init ==
  /\ heap = <<>>
  /\ typedefs = [n \in Names |-> NULL]
  /\ tags = [n \in Names |-> NULL]
  /\ objects = <<>>
  /\ list = NoList
  /\ stack = <<>>
  /\ decls = 0
  /\ status = "running"
  /\ shared = {}
  /\ sized = {}

(* A declaration, or a type name in an expression, which may stand in an
   initializer list. *)

BeginDeclaration ==
  /\ Running
  /\ stack = <<>>
  /\ decls < MaxDecls
  /\ stack' = <<NewCall>>
  /\ decls' = decls + 1
  /\ UNCHANGED <<heap, typedefs, tags, objects, list, status, history>>

Qualify(q) ==
  /\ AtStep("qualifiers")
  /\ q \notin Top.has
  /\ SetTop([Top EXCEPT !.has = @ \cup {q}])
  /\ UNCHANGED <<heap, typedefs, tags, objects, list, decls, status, history>>

(* `unsigned' and `volatile' are set in the object that the specifier names,
   a new one or one that has a name already. *)
Qualified(h, i) ==
  [h EXCEPT ![i].unsigned = @ \/ "unsigned" \in Top.has,
            ![i].volatile = @ \/ "volatile" \in Top.has]

HasBase(h, i) ==
  /\ heap' = Qualified(h, i)
  /\ SetTop([Top EXCEPT !.step = "pointers", !.base = i, !.members = <<>>])

(* A keyword, `enum' with its list, or, behind a qualifier, none: int. *)
BaseType(b) ==
  IF b = "size_t" THEN [NewType("LONG", NULL, 0) EXCEPT !.unsigned = TRUE]
  ELSE NewType(b, NULL, 0)

ArithmeticBase(b) ==
  /\ AtStep("qualifiers")
  /\ Room
  /\ HasBase(Append(heap, BaseType(b)), Here)
  /\ UNCHANGED <<typedefs, tags, objects, list, decls, status, history>>

TypedefName(n) ==
  /\ AtStep("qualifiers")
  /\ typedefs[n] # NULL
  /\ HasBase(heap, typedefs[n])
  /\ UNCHANGED <<typedefs, tags, objects, list, decls, status, history>>

(* struct n, union n: the object of the tag, whichever of the two it is. *)
Tagged(n, kind) ==
  IF tags[n] # NULL
  THEN heap[tags[n]].ty = kind /\ UNCHANGED tags
  ELSE Room /\ tags' = [tags EXCEPT ![n] = Here]

TaggedHeap(n, kind) ==
  IF tags[n] # NULL THEN heap ELSE Append(heap, NewType(kind, NULL, 0))

TagReference(n, kind) ==
  /\ AtStep("qualifiers")
  /\ Tagged(n, kind)
  /\ HasBase(TaggedHeap(n, kind), tags'[n])
  /\ UNCHANGED <<typedefs, objects, list, decls, status, history>>

OpenBody(i) == SetTop([Top EXCEPT !.step = "body", !.base = i])

Open == {stack[d].base : d \in {e \in 1 .. Depth : stack[e].step = "body"}}

TagBody(n, kind) ==
  /\ AtStep("qualifiers")
  /\ Tagged(n, kind)
  /\ tags[n] # NULL => heap[tags[n]].members = <<>> /\ tags[n] \notin Open
  /\ heap' = TaggedHeap(n, kind)
  /\ OpenBody(tags'[n])
  /\ UNCHANGED <<typedefs, objects, list, decls, status, history>>

AnonymousBody(kind) ==
  /\ AtStep("qualifiers")
  /\ Room
  /\ heap' = Append(heap, NewType(kind, NULL, 0))
  /\ OpenBody(Here)
  /\ UNCHANGED <<typedefs, tags, objects, list, decls, status, history>>

(* The call of parse_type for the next member. *)
BeginMember ==
  /\ AtStep("body")
  /\ Len(Top.members) < MaxMembers
  /\ Depth < MaxNesting
  /\ stack' = Append(stack, NewCall)
  /\ UNCHANGED <<heap, typedefs, tags, objects, list, decls, status, history>>

CloseBody ==
  /\ AtStep("body")
  /\ Top.members # <<>>
  /\ HasBase([heap EXCEPT ![Top.base].members = Top.members], Top.base)
  /\ UNCHANGED <<typedefs, tags, objects, list, decls, status, history>>

(* Slip: the pointer refers to what base is after the assignment. *)
Pointer_ToItself ==
  /\ AtStep("pointers")
  /\ Room
  /\ heap' = Append(heap, NewType("PTR", Here, 0))
  /\ SetTop([Top EXCEPT !.base = Here])
  /\ UNCHANGED <<typedefs, tags, objects, list, decls, status, history>>

Pointer ==
  /\ AtStep("pointers")
  /\ Room
  /\ heap' = Append(heap, NewType("PTR", Top.base, 0))
  /\ SetTop([Top EXCEPT !.base = Here])
  /\ UNCHANGED <<typedefs, tags, objects, list, decls, status, history>>

(* Behind the last *, restrict before volatile, each unless it was read. *)
QualifyPointer(q) ==
  /\ AtStep("pointers") \/ (AtStep("restricted") /\ q = "volatile")
  /\ q \in {"restrict", "volatile"} \ Top.has
  /\ SetTop([Top EXCEPT
       !.step = IF q = "restrict" THEN "restricted" ELSE "done",
       !.has = @ \cup {q}])
  /\ UNCHANGED <<heap, typedefs, tags, objects, list, decls, status, history>>

(* The type that the call returns. *)
Returned ==
  [heap EXCEPT ![Top.base].restrict =
                 @ \/ ("restrict" \in Top.has /\ heap[Top.base].ty = "PTR"),
               ![Top.base].volatile = @ \/ "volatile" \in Top.has]

Returns(d) ==
  /\ Running
  /\ Depth = d
  /\ d > 0
  /\ Top.step \in {"pointers", "restricted", "done"}

-----------------------------------------------------------------------------
(* Declarators *)

(* What stands behind the name: nothing, [n], or [], which is a pointer as is
   a function pointer, an array parameter and a local with a variable size. *)
NoSuffix == -1
Declarators == {NoSuffix, 0} \cup ArraySizes

Declared(h, i, n) == IF n = NoSuffix THEN h ELSE Append(h, NewType("PTR", i, n))

DeclaredAs(i, n) == IF n = NoSuffix THEN i ELSE Here

(* Slip: the members of a union are numbered like a struct's. *)
MemberIndex_Numbered(call) == Len(call.members)

MemberIndex(call) ==
  IF heap[call.base].ty = "UNION" THEN 0 ELSE Len(call.members)

(* parse_type returns to the body of the call below: name, and array or width,
   which nothing reads. *)
Member(n) ==
  /\ Depth > 1 /\ Returns(Depth)
  /\ n # NoSuffix => Room
  /\ Complete(Top.base) /\ Top.base \notin Open
  /\ heap' = Declared(Returned, Top.base, n)
  /\ LET below == stack[Depth - 1]
         m == [type |-> DeclaredAs(Top.base, n), index |-> MemberIndex(below)]
     IN stack' = [SubSeq(stack, 1, Depth - 1) EXCEPT
                    ![Depth - 1].members = Append(@, m)]
  /\ UNCHANGED <<typedefs, tags, objects, list, decls, status, history>>

DeclareTypedef(n) ==
  /\ Returns(1) /\ list = NoList
  /\ heap' = Returned
  /\ typedefs' = [typedefs EXCEPT ![n] = Top.base]
  /\ shared' = shared \cup {Top.base}
  /\ stack' = <<>>
  /\ UNCHANGED <<tags, objects, list, decls, status, sized>>

Scopes == {"none", "global", "local"}

(* A global, a local or a parameter; scope is that of a pointer or an array
   with an initializer list, and "none" without. *)
DeclareObject(n, scope) ==
  /\ Returns(1) /\ list = NoList
  /\ n # NoSuffix => Room
  /\ Complete(Top.base)
  /\ heap' = Declared(Returned, Top.base, n)
  /\ LET i == DeclaredAs(Top.base, n)
     IN /\ objects' = Append(objects, i)
        /\ IF scope = "none" THEN list' = NoList
           ELSE /\ heap'[i].ty = "PTR"
                /\ list' = [type |-> i, scope |-> scope, before |-> heap'[i].n]
  /\ stack' = <<>>
  /\ UNCHANGED <<typedefs, tags, decls, status, history>>

(* Slip: the list counts whether or not there is a size. *)
Sized_Always(h, i, unsized, count) == [h EXCEPT ![i].n = count]

(* A list gives its length to a type without a size, which all share. *)
Sized(h, i, unsized, count) ==
  IF unsized THEN [h EXCEPT ![i].n = count] ELSE h

GiveSize(h, i, unsized, count) ==
  /\ heap' = Sized(h, i, unsized, count)
  /\ sized' = IF unsized THEN sized \cup {i} ELSE sized

(* The end of the list: a global was asked for its size in front of it. *)
EndList(count) ==
  /\ Running /\ stack = <<>> /\ list # NoList
  /\ GiveSize(heap, list.type,
              IF list.scope = "global" THEN list.before = 0 /\ count > 0
              ELSE heap[list.type].n = 0, count)
  /\ list' = NoList
  /\ UNCHANGED <<typedefs, tags, objects, stack, decls, status, shared>>

(* (int [2] ...: the array sizes of a type name. *)
Dimension(n) ==
  /\ Returns(1) \/ AtStep("literal")
  /\ Room
  /\ Complete(Top.base)
  /\ heap' = Append(Returned, NewType("PTR", Top.base, n))
  /\ SetTop([Top EXCEPT !.step = "literal", !.base = Here, !.has = {}])
  /\ UNCHANGED <<typedefs, tags, objects, list, decls, status, history>>

(* (int []) { 1, 2 }: the literal is of the type that was named. *)
CompoundLiteral(count) ==
  /\ Returns(1) \/ AtStep("literal")
  /\ heap[Top.base].ty = "PTR"
  /\ GiveSize(Returned, Top.base, heap[Top.base].n = 0, count)
  /\ stack' = <<>>
  /\ UNCHANGED <<typedefs, tags, objects, list, decls, status, shared>>

(* struct S { ... }; or a type name, of a cast, of sizeof or in front of a list
   for a struct. *)
StandaloneType ==
  /\ Returns(1) \/ AtStep("literal")
  /\ heap' = Returned
  /\ stack' = <<>>
  /\ UNCHANGED <<typedefs, tags, objects, list, decls, status, history>>

(* No type, a struct without a tag and a body, no name behind a type, a width
   that is not 1..32, or a token that expect does not find. *)
Exit ==
  /\ Running
  /\ stack # <<>> \/ list # NoList
  /\ status' = "exit"
  /\ UNCHANGED <<heap, typedefs, tags, objects, list, stack, decls, history>>

EndOfText ==
  /\ Running
  /\ stack = <<>> /\ list = NoList
  /\ status' = "done"
  /\ UNCHANGED <<heap, typedefs, tags, objects, list, stack, decls, history>>

Stopped == status # "running" /\ UNCHANGED vars

Next ==
  \/ BeginDeclaration
  \/ \E q \in Qualifiers : Qualify(q) \/ QualifyPointer(q)
  \/ \E b \in BaseTypes : ArithmeticBase(b)
  \/ \E n \in Names : TypedefName(n)
  \/ \E n \in Names, kind \in {"STRUCT", "UNION"} :
        TagReference(n, kind) \/ TagBody(n, kind)
  \/ \E kind \in {"STRUCT", "UNION"} : AnonymousBody(kind)
  \/ BeginMember
  \/ CloseBody
  \/ Pointer
  \/ \E n \in Declarators : Member(n)
  \/ \E n \in Names : DeclareTypedef(n)
  \/ \E n \in Declarators, scope \in Scopes : DeclareObject(n, scope)
  \/ \E count \in {0} \cup ListLengths : EndList(count) \/ CompoundLiteral(count)
  \/ \E n \in {0} \cup ArraySizes : Dimension(n)
  \/ StandaloneType
  \/ Exit
  \/ EndOfText
  \/ Stopped

Spec == Init /\ [][Next]_vars

-----------------------------------------------------------------------------
(* Properties *)

Kinds == Arithmetic \cup {"PTR", "STRUCT", "UNION"}

Members == [type : Nat, index : Nat]

TypeRecords ==
  [ty : Kinds, to : Nat, n : Nat, members : Seq(Members),
   unsigned : BOOLEAN, volatile : BOOLEAN, restrict : BOOLEAN]

Calls ==
  [step : {"qualifiers", "body", "pointers", "restricted", "done", "literal"},
   has : SUBSET {"unsigned", "volatile", "restrict", "other"},
   base : Nat, members : Seq(Members)]

Lists == [type : Nat, scope : Scopes, before : Nat]

(* The variables have their types, and whatever refers to a type refers to an
   object on the heap. *)
TypeOK ==
  /\ heap \in Seq(TypeRecords)
  /\ typedefs \in [Names -> Refs(heap)]
  /\ tags \in [Names -> Refs(heap)]
  /\ objects \in Seq(DOMAIN heap)
  /\ list \in Lists
  /\ list # NoList => list.type \in DOMAIN heap
  /\ stack \in Seq(Calls)
  /\ \A d \in DOMAIN stack :
        stack[d].base \in IF stack[d].step = "qualifiers" THEN {NULL}
                          ELSE DOMAIN heap
  /\ \A i \in DOMAIN heap :
        /\ heap[i].to < i
        /\ MemberTypes(heap[i]) \subseteq DOMAIN heap
  /\ decls \in Nat
  /\ status \in {"running", "exit", "done"}
  /\ shared \subseteq DOMAIN heap
  /\ sized \subseteq DOMAIN heap

(* The number that LLVMBuildStructGEP2 gets for a member is its place in the
   LLVM struct, also if members with a body of their own, arrays or bit
   fields stand before it; all members of a union are at its only place. *)
MembersNumbered ==
  \A i \in DOMAIN heap : \A k \in DOMAIN heap[i].members :
     heap[i].members[k].index = IF heap[i].ty = "UNION" THEN 0 ELSE k - 1

(* What a step does to a type that exists, which other names may stand for, is
   to qualify it, to give a struct its members once, and to give a pointer the
   length of a list: also once, unless a typedef shares it.  So an array keeps
   the size that the text gave it. *)
TypesKept ==
  [][\A i \in DOMAIN heap :
       /\ heap'[i].ty = heap[i].ty
       /\ heap'[i].to = heap[i].to
       /\ heap[i].members # <<>> => heap'[i].members = heap[i].members
       /\ heap'[i].n # heap[i].n =>
            heap[i].ty = "PTR" /\ (heap[i].n = 0 \/ i \in shared)]_vars

(* The heap without the sizes that lists gave: with them a struct can be a part
   of itself, which has no size. *)
Own == Unsized(heap, sized)

(* The pointers that got a size from a list, or may get one: if they have the
   name of a typedef at any time, else while they are being declared. *)
Loose ==
  {i \in DOMAIN heap :
     /\ heap[i].ty = "PTR"
     /\ \/ i \in shared \cup sized
        \/ i = list.type
        \/ stack # <<>> /\ i = Top.base}

(* The types that have the size they will have. *)
Settled ==
  LET regular == Regular(Own)
      firm == Without(Own, Loose)
  IN {i \in DOMAIN heap : firm[i] /\ regular[i]}

(* sizeof and the steps of a pointer, which are computed while the text is
   read, stay what they are and are the size of what is allocated, which is
   asked for at the end of the text: for the types that type_size was written for, and that are not made of a pointer
   that a list gave a size or may still give one. *)
SizeofIsAllocated ==
  [][status' # "exit" =>
       LET size == TypeSize(Own)
           align == TypeAlign(Own)
           later == TypeSize(Own')
           allocated == LLVMSize(Own')
           aligned == LLVMAlign(Own')
       IN /\ Settled \subseteq Settled'
          /\ \A i \in Settled : /\ size[i] = later[i]
                               /\ size[i] = allocated[i]
                               /\ align[i] = aligned[i]]_vars

(* A union has room for each of its members if none of them has padding, or is
   made of a type that a list gave a size. *)
UnionsHoldMembers ==
  \A i \in DOMAIN heap :
     /\ heap[i].ty = "UNION" /\ Complete(i)
     /\ Without(Own, sized)[i]
     /\ \A m \in MemberTypes(heap[i]) : Packed(Own)[m]
     => \A m \in MemberTypes(heap[i]) : LLVMSize(Own)[m] <= LLVMSize(Own)[i]

-----------------------------------------------------------------------------
(* What the sources say and the code does not do: see README.md *)

(* A parameter or variable stays as restrict and volatile as it was declared,
   whatever is declared after it. *)
QualifiersKept ==
  [][\A k \in DOMAIN objects :
       /\ heap'[objects[k]].restrict = heap[objects[k]].restrict
       /\ heap'[objects[k]].volatile = heap[objects[k]].volatile]_vars
=============================================================================
