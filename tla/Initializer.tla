----------------------------- MODULE Initializer -----------------------------
(***************************************************************************)
(* Initializer lists in braces: parse_initializer, the three places of     *)
(* parse.c that call it and then give an array without a size the length   *)
(* of the list, and the stores that codegen.c makes of the list.           *)
(*                                                                         *)
(* The text is the environment: every action that reads a token chooses    *)
(* it.  An expression is its value; a literal in braces inside one is      *)
(* another list, with variables of its own, and is not nested here.        *)
(***************************************************************************)
EXTENDS Integers, Sequences

CONSTANTS
  Values,       \* the values of expressions
  Zero,         \* the value of new_zero_init_node
  NULL,         \* an entry of slots that no element has written
  InitialCap,   \* capacity of the first table of slots (8)
  IntMax,       \* INT_MAX
  MaxPlaces,    \* bound: places of a declared type
  Sizes,        \* array sizes and numbers of members that are declared
  MaxIndex,     \* bound: indexes in designators
  MaxElements,  \* bound: elements of the lists together
  MaxLists      \* bound: lists

ASSUME SizesAssumption ==
  /\ InitialCap \in Nat \ {0} /\ IntMax \in Nat /\ InitialCap <= IntMax
  /\ MaxPlaces \in Nat /\ MaxPlaces <= IntMax
  /\ Sizes \subseteq 0 .. MaxPlaces
  /\ MaxIndex \in Nat /\ MaxIndex <= IntMax
  /\ MaxElements \in Nat /\ MaxLists \in Nat

(* A type that parse_initializer sees.  "array" is Type PTR with an
   array_size of its own, 0 for a[] and for a pointer; "alias" a pointer that
   a typedef names, whose Type all its declarations share. *)
Types == [kind : {"array", "alias", "struct", "union", "scalar"},
          n : 0 .. IntMax]

(* A value, and the member of a union it was cast to (ND_CAST). *)
Whole == -1
AsInt == -2
Casts == {Whole, AsInt} \cup 0 .. MaxPlaces
Cells == [value : Values \cup {Zero}, castTo : Casts]
ZeroCell == [value |-> Zero, castTo |-> Whole]

ASSUME NULLAssumption == NULL \notin Cells

Places == {"global", "local", "compound"}

VARIABLES
  aliasSize, \* array_size in the Type of the typedef
  place, ty, \* what the list initializes: node->type, target_type
  fixed,     \* fixed_count
  slots,     \* slots: an entry per index below slot_cap
  count,     \* slot_count
  next,      \* next_index
  index,     \* where the element being read goes
  castTo,        \* designated_member
  how,       \* has_designator
  newCap,    \* new_cap
  elements,  \* elements read, for the bound
  lists,     \* the declarations and literals read: type and list body
  objects,   \* the stores that codegen makes of each
  phase,     \* what is read next
  status     \* running, or how the compiler ended

listVars == <<place, ty, fixed, slots, count, next>>
elementVars == <<index, castTo, how, newCap>>
doneVars == <<aliasSize, lists, objects>>
vars == <<aliasSize, place, ty, fixed, slots, count, next, index, castTo, how,
          newCap, elements, lists, objects, phase, status>>

NotCounted == -1
NoType == [kind |-> "scalar", n |-> 0]

At(p) == status = "running" /\ phase = p

-----------------------------------------------------------------------------
(* Types *)

IsPtr(t) == t.kind \in {"array", "alias"}

ArraySize(t) ==
  CASE t.kind = "array" -> t.n
    [] t.kind = "alias" -> aliasSize
    [] OTHER -> 0

FixedCount(t) ==
  CASE IsPtr(t) /\ ArraySize(t) > 0 -> ArraySize(t)
    [] t.kind = "struct" -> t.n
    [] t.kind = "union" -> 1
    [] OTHER -> NotCounted

-----------------------------------------------------------------------------
(* parse_initializer *)

Init ==
  /\ aliasSize = 0
  /\ place = "local"
  /\ ty = NoType
  /\ fixed = NotCounted
  /\ slots = <<>>
  /\ count = 0
  /\ next = 0
  /\ index = 0
  /\ castTo = Whole
  /\ how = "position"
  /\ newCap = 0
  /\ elements = 0
  /\ lists = <<>>
  /\ objects = <<>>
  /\ phase = "text"
  /\ status = "running"

(* free(slots), and the locals of the call end. *)
Reset ==
  /\ place' = "local"
  /\ ty' = NoType
  /\ fixed' = NotCounted
  /\ slots' = <<>>
  /\ count' = 0
  /\ next' = 0
  /\ index' = 0
  /\ castTo' = Whole
  /\ how' = "position"
  /\ newCap' = 0

(* A declaration or a literal of type t, up to its opening brace. *)
Begin(p, t) ==
  /\ At("text")
  /\ Len(lists) < MaxLists
  /\ place' = p
  /\ ty' = t
  /\ fixed' = FixedCount(t)
  /\ phase' = "item"
  /\ UNCHANGED <<slots, count, next, elementVars, elements, doneVars, status>>

(* Slip: an index below 0 is not refused. *)
InRange_NoSign(i) == fixed # NotCounted => i < fixed

(* Slip: an index beyond the object is only refused if it is negative. *)
InRange_NoLimit(i) == i >= 0

InRange(i) == i >= 0 /\ (fixed # NotCounted => i < fixed)

(* Slip: the first table has no capacity to double. *)
Locate_NoInitialCap(i, m, h) ==
  /\ At("item")
  /\ elements < MaxElements
  /\ InRange(i)
  /\ index' = i
  /\ castTo' = m
  /\ how' = h
  /\ IF i >= Len(slots)
     THEN newCap' = Len(slots) /\ phase' = "grow" /\ UNCHANGED count
     ELSE /\ count' = IF i + 1 > count THEN i + 1 ELSE count
          /\ phase' = "value"
          /\ UNCHANGED newCap
  /\ elements' = elements + 1
  /\ UNCHANGED <<place, ty, fixed, slots, next, doneVars, status>>

(* The checks on the index of an element, and whether slots must grow. *)
Locate(i, m, h) ==
  /\ At("item")
  /\ elements < MaxElements
  /\ InRange(i)
  /\ index' = i
  /\ castTo' = m
  /\ how' = h
  /\ IF i >= Len(slots)
     THEN /\ newCap' = IF slots = <<>> THEN InitialCap ELSE Len(slots)
          /\ phase' = "grow"
          /\ UNCHANGED count
     ELSE /\ count' = IF i + 1 > count THEN i + 1 ELSE count
          /\ phase' = "value"
          /\ UNCHANGED newCap
  /\ elements' = elements + 1
  /\ UNCHANGED <<place, ty, fixed, slots, next, doneVars, status>>

(* A union's element without a designator is its first member, if any. *)
FirstMember == IF ty.kind = "union" /\ ty.n > 0 THEN 0 ELSE Whole

Position == Locate(next, FirstMember, "position")

(* [i] = *)
IndexDesignator(i) == Locate(i, FirstMember, "designator")

(* .m =, where the members of a union all have index 0. *)
MemberDesignator(m) ==
  /\ ty.kind \in {"struct", "union"}
  /\ m < ty.n
  /\ Locate(IF ty.kind = "union" THEN 0 ELSE m,
            IF ty.kind = "union" THEN m ELSE Whole, "designator")

Exit ==
  /\ status' = "exit"
  /\ UNCHANGED <<listVars, elementVars, elements, doneVars, phase>>

(* "Invalid designator index", "index out of range", an unknown member or one
   of a type that has none, and any token that expect does not find. *)
ExitOnElement(i) ==
  /\ At("item")
  /\ ~InRange(i)
  /\ Exit

ExitOnText == (At("item") \/ At("value")) /\ Exit

(* One round of the loop that doubles new_cap; past INT_MAX the program has
   no meaning (the build does not use -fwrapv). *)
Grow ==
  /\ At("grow")
  /\ newCap <= index
  /\ IF newCap * 2 > IntMax
     THEN status' = "undefined" /\ UNCHANGED newCap
     ELSE newCap' = newCap * 2 /\ UNCHANGED status
  /\ UNCHANGED <<listVars, index, castTo, how, elements, doneVars, phase>>

Alloc ==
  /\ At("grow")
  /\ newCap > index
  /\ slots' = [k \in 1 .. newCap |->
                 IF k <= Len(slots) THEN slots[k] ELSE NULL]
  /\ count' = IF index + 1 > count THEN index + 1 ELSE count
  /\ phase' = "value"
  /\ UNCHANGED <<place, ty, fixed, next, elementVars, elements, doneVars,
                 status>>

AllocFails ==
  /\ At("grow")
  /\ newCap > index
  /\ Exit

(* Slip: positions go on from the last one, whatever a designator said. *)
Value_KeepsPosition(v) ==
  /\ At("value")
  /\ slots' = [slots EXCEPT ![index + 1] = [value |-> v, castTo |-> castTo]]
  /\ next' = IF how = "position" THEN index + 1 ELSE next
  /\ phase' = "item"
  /\ UNCHANGED <<place, ty, fixed, count, elementVars, elements, doneVars,
                 status>>

Value(v) ==
  /\ At("value")
  /\ slots' = [slots EXCEPT ![index + 1] = [value |-> v, castTo |-> castTo]]
  /\ next' = index + 1
  /\ phase' = "item"
  /\ UNCHANGED <<place, ty, fixed, count, elementVars, elements, doneVars,
                 status>>

(* Slip: the list ends at the last element written. *)
FinalCount_Unpadded == count

FinalCount == IF fixed > count THEN fixed ELSE count

Body ==
  [k \in 1 .. FinalCount |->
     IF k <= Len(slots) /\ slots[k] # NULL THEN slots[k] ELSE ZeroCell]

-----------------------------------------------------------------------------
(* The callers *)

(* array_size of the type after the list was counted. *)
Counted ==
  IF ArraySize(ty) = 0 /\ (place = "global" => FinalCount > 0)
  THEN FinalCount
  ELSE ArraySize(ty)

(* A literal that is neither a struct, a union nor an array is a cast of the
   first element. *)
IsCast ==
  /\ place = "compound"
  /\ ty.kind \notin {"struct", "union"}
  /\ ~(IsPtr(ty) /\ Counted > 0)

(* The closing brace, behind a comma or not. *)
Close ==
  /\ At("item")
  /\ aliasSize' = IF ty.kind = "alias" THEN Counted ELSE aliasSize
  /\ lists' = Append(lists,
       [place |-> place,
        ty |-> IF ty.kind = "array" THEN [ty EXCEPT !.n = Counted] ELSE ty,
        cast |-> IsCast,
        body |-> Body])
  /\ phase' = "text"
  /\ Reset
  /\ UNCHANGED <<elements, objects, status>>

-----------------------------------------------------------------------------
(* codegen.c: the stores *)

(* How many places the LLVM type of t has. *)
LLVMPlaces(t) ==
  CASE IsPtr(t) /\ ArraySize(t) > 0 -> ArraySize(t)
    [] t.kind = "struct" -> t.n
    [] OTHER -> 1

(* Only an array can be a constant: codegen_constant makes an array of
   anything.  A local scalar has no element to address. *)
Fits(d) ==
  CASE d.place = "global" -> IsPtr(d.ty) /\ ArraySize(d.ty) > 0
    [] d.place = "local" ->
         d.ty.kind \in {"struct", "union"} \/ ArraySize(d.ty) > 0
           \/ d.body = <<>>
    [] OTHER -> TRUE

(* A local union is stored like an array, whose elements are int. *)
StoredAs(d, c) ==
  IF d.place = "local" /\ d.ty.kind = "union" THEN [c EXCEPT !.castTo = AsInt]
  ELSE c

FirstOf(body) == IF body = <<>> THEN <<ZeroCell>> ELSE <<body[1]>>

Object(d) ==
  [fits |-> Fits(d),
   places |-> IF d.cast THEN 1 ELSE LLVMPlaces(d.ty),
   cells |-> IF d.cast THEN FirstOf(d.body)
             ELSE [k \in DOMAIN d.body |-> StoredAs(d, d.body[k])]]

(* The text has ended; code is generated for all of it. *)
Generate ==
  /\ At("text")
  /\ objects' = [k \in DOMAIN lists |-> Object(lists[k])]
  /\ status' = "done"
  /\ UNCHANGED <<aliasSize, listVars, elementVars, elements, lists, phase>>

Stopped == status # "running" /\ UNCHANGED vars

ListSteps ==
  \/ Position
  \/ \E i \in -1 .. MaxIndex : IndexDesignator(i)
  \/ \E m \in 0 .. MaxPlaces - 1 : MemberDesignator(m)
  \/ \E i \in {next} \cup -1 .. MaxIndex : ExitOnElement(i)
  \/ ExitOnText
  \/ Grow
  \/ Alloc
  \/ AllocFails
  \/ \E v \in Values : Value(v)
  \/ Close

(* A struct has a member. *)
DeclaredTypes ==
  [kind : {"array"}, n : Sizes]
    \cup [kind : {"struct", "union"}, n : Sizes \ {0}]
    \cup [kind : {"alias", "scalar"}, n : {0}]

Next ==
  \/ \E p \in Places, t \in DeclaredTypes : Begin(p, t)
  \/ ListSteps
  \/ Generate
  \/ Stopped

(* The parser runs until it ends: an element that was begun is read on. *)
Spec == Init /\ [][Next]_vars /\ WF_vars(ListSteps)

-----------------------------------------------------------------------------
(* Properties *)

(* The variables have their types; in particular no index or count passes
   INT_MAX before the growth of the table does. *)
TypeOK ==
  /\ aliasSize \in 0 .. IntMax
  /\ place \in Places
  /\ ty \in Types
  /\ fixed \in {NotCounted} \cup 0 .. IntMax
  /\ slots \in Seq(Cells \cup {NULL})
  /\ Len(slots) \in 0 .. IntMax
  /\ count \in 0 .. IntMax
  /\ next \in 0 .. IntMax
  /\ index \in 0 .. IntMax
  /\ castTo \in Casts
  /\ how \in {"position", "designator"}
  /\ newCap \in 0 .. IntMax
  /\ elements \in Nat
  /\ lists \in Seq([place : Places, ty : Types, cast : BOOLEAN,
                    body : Seq(Cells)])
  /\ objects \in Seq([fits : BOOLEAN, places : Nat, cells : Seq(Cells)])
  /\ phase \in {"text", "item", "grow", "value"}
  /\ status \in {"running", "exit", "undefined", "done"}

Reading == phase # "text"

(* Between two elements slot_count is the number of slots up to the last that
   was written, no greater than the table, and an object of known size has
   that many places: the list is built from slots[] without a check. *)
SlotsFit ==
  /\ count <= Len(slots)
  /\ next <= count
  /\ \A k \in 1 .. Len(slots) : slots[k] # NULL => k <= count
  /\ phase = "item" /\ count > 0 => slots[count] # NULL
  /\ Reading /\ fixed # NotCounted => count <= fixed
  /\ phase = "value" => index < Len(slots)

(* The stores that codegen makes of a list that is not empty write every
   place of the LLVM type and nothing behind it, although the type may have
   got its size from a list that was read earlier. *)
PlacesAreWritten ==
  \A k \in DOMAIN objects :
     objects[k].fits /\ objects[k].cells # <<>>
       /\ lists[k].ty.kind # "scalar"
     => Len(objects[k].cells) = objects[k].places

(* An element that was begun is read on: the table grows beyond its index, or
   the compiler ends. *)
GrowthEnds == phase = "grow" ~> phase # "grow" \/ status # "running"

-----------------------------------------------------------------------------
(* A list implements the elements it promises. *)

Written == {k \in 1 .. Len(slots) : slots[k] # NULL}

absCells == IF Reading THEN [i \in {k - 1 : k \in Written} |-> slots[i + 1]]
            ELSE <<>>

Abstract == INSTANCE Elements
  WITH Values <- Cells,
       Zero <- ZeroCell,
       Bound <- IntMax,
       reading <- Reading,
       size <- IF Reading THEN fixed ELSE NotCounted,
       cells <- absCells,
       cursor <- IF Reading THEN next ELSE 0,
       at <- IF phase \in {"grow", "value"} THEN index ELSE -1,
       how <- how,
       objects <- [k \in DOMAIN lists |->
                     [i \in 0 .. Len(lists[k].body) - 1 |->
                        lists[k].body[i + 1]]]

(* Every step of the parser is a step of the promise, or none. *)
ImplementsElements == Abstract!Spec
=============================================================================
