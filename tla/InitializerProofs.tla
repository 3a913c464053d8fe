-------------------------- MODULE InitializerProofs --------------------------
(***************************************************************************)
(* Proofs about Initializer, for all values, sizes and bounds.             *)
(*                                                                         *)
(* An element is read in up to three steps: where it goes, the table of    *)
(* slots grows, and its value is written.  Between two elements the table  *)
(* is as SlotsFit says; Located says what the steps of one element leave   *)
(* open, and Sized that the size of the object was asked for at the        *)
(* opening brace and is still the one of its type at the closing one.      *)
(***************************************************************************)
EXTENDS Initializer, TLAPS

(* The index of the element that is read is one of the object, the table is
   too small for it exactly while it grows, and slot_count counts it from then
   on. *)
Located ==
  /\ phase = "grow" => newCap > 0 /\ index >= Len(slots) /\ InRange(index)
  /\ phase = "value" => index < count /\ InRange(index)
  /\ phase \in {"grow", "value"} /\ count > 0 =>
       slots[count] # NULL \/ (phase = "value" /\ count = index + 1)
  /\ phase = "text" => slots = <<>> /\ count = 0 /\ next = 0

Sized == Reading => fixed = FixedCount(ty)

(* array_size of t when that of the typedef is a. *)
SizeWith(t, a) ==
  CASE t.kind = "array" -> t.n
    [] t.kind = "alias" -> a
    [] OTHER -> 0

(* A list that has elements has as many as its type has places; an array has
   the size that the list gave it. *)
Fills(d, a) ==
  d.ty.kind # "scalar" /\ d.body # <<>> =>
    IF IsPtr(d.ty)
    THEN SizeWith(d.ty, a) > 0 /\ Len(d.body) = SizeWith(d.ty, a)
    ELSE Len(d.body) = IF d.ty.kind = "struct" THEN d.ty.n ELSE 1

ListsFill ==
  /\ \A k \in DOMAIN lists : Fills(lists[k], aliasSize)
  /\ status # "done" => objects = <<>>

IInv == TypeOK /\ SlotsFit /\ Located /\ Sized /\ ListsFill /\ PlacesAreWritten

Entries == Cells \cup {NULL}

LEMMA SizesFacts ==
  /\ InitialCap \in Nat /\ InitialCap > 0 /\ InitialCap <= IntMax
  /\ IntMax \in Nat /\ MaxPlaces \in Nat /\ MaxIndex \in Nat
  /\ MaxPlaces <= IntMax /\ MaxIndex <= IntMax
  /\ NULL \notin Cells
  BY SizesAssumption, NULLAssumption

-----------------------------------------------------------------------------
(* Types *)

LEMMA InitTypes == Init => TypeOK
  BY SizesFacts DEF Init, TypeOK, NoType, Types, Places, NotCounted, Casts, Whole

LEMMA ArraySizeType ==
  ASSUME aliasSize \in 0 .. IntMax, NEW t \in Types
  PROVE  ArraySize(t) \in 0 .. IntMax
  BY SizesFacts DEF ArraySize, Types

LEMMA FixedCountType ==
  ASSUME aliasSize \in 0 .. IntMax, NEW t \in Types
  PROVE  FixedCount(t) \in {NotCounted} \cup 0 .. IntMax
<1>1. ArraySize(t) \in 0 .. IntMax
  BY ArraySizeType
<1>2. t.n \in 0 .. IntMax
  BY DEF Types
<1> QED
  BY <1>1, <1>2, SizesFacts DEF FixedCount, IsPtr, NotCounted

LEMMA LocateTypes ==
  ASSUME TypeOK, SlotsFit, NEW i \in 0 .. IntMax, NEW m \in Casts,
         NEW h \in {"position", "designator"}, Locate(i, m, h)
  PROVE  TypeOK'
<1>1. /\ index' = i /\ castTo' = m /\ how' = h
      /\ newCap' \in 0 .. IntMax
      /\ count' \in 0 .. IntMax
      /\ elements' \in Nat
      /\ phase' \in {"text", "item", "grow", "value"}
      /\ UNCHANGED <<place, ty, fixed, slots, next, doneVars, status>>
  BY SizesFacts DEF Locate, TypeOK
<1> QED
  BY <1>1 DEF TypeOK, doneVars

LEMMA FirstMemberType == FirstMember \in Casts
  BY SizesFacts DEF FirstMember, Casts, Whole

LEMMA AllocSlots ==
  ASSUME TypeOK, Alloc
  PROVE  /\ slots' \in Seq(Entries)
         /\ Len(slots') = newCap
         /\ \A k \in 1 .. newCap :
              slots'[k] = IF k <= Len(slots) THEN slots[k] ELSE NULL
<1>1. slots' = [k \in 1 .. newCap |-> IF k <= Len(slots) THEN slots[k] ELSE NULL]
  BY DEF Alloc
<1>2. newCap \in Nat /\ slots \in Seq(Entries)
  BY SizesFacts DEF TypeOK, Entries
<1>3. NULL \in Entries
  BY DEF Entries
<1>4. \A k \in 1 .. newCap :
        (IF k <= Len(slots) THEN slots[k] ELSE NULL) \in Entries
  <2> HIDE DEF Entries
  <2> QED
    BY <1>2, <1>3
<1> HIDE DEF Entries
<1> QED
  BY <1>1, <1>2, <1>4

LEMMA AllocTypes ==
  ASSUME TypeOK, Alloc
  PROVE  TypeOK'
<1>1. slots' \in Seq(Entries) /\ Len(slots') = newCap
  BY AllocSlots
<1>2. count' \in 0 .. IntMax
  BY SizesFacts DEF Alloc, TypeOK
<1>3. /\ phase' = "value"
      /\ UNCHANGED <<place, ty, fixed, next, elementVars, elements, doneVars, status>>
  BY DEF Alloc
<1> QED
  BY <1>1, <1>2, <1>3 DEF TypeOK, elementVars, doneVars, Entries

LEMMA ValueSlots ==
  ASSUME TypeOK, SlotsFit, NEW v \in Values, Value(v)
  PROVE  /\ slots' \in Seq(Entries)
         /\ Len(slots') = Len(slots)
         /\ slots'[index + 1] # NULL
         /\ index + 1 \in 1 .. Len(slots)
         /\ \A k \in 1 .. Len(slots) : k # index + 1 => slots'[k] = slots[k]
<1> DEFINE c == [value |-> v, castTo |-> castTo]
<1>1. c \in Cells
  BY DEF TypeOK, Cells
<1>2. slots' = [slots EXCEPT ![index + 1] = c]
  BY DEF Value
<1>3. index \in Nat /\ slots \in Seq(Entries) /\ index < Len(slots)
  BY SizesFacts DEF TypeOK, Entries, SlotsFit, Value, At
<1>4. c \in Entries /\ c # NULL
  BY <1>1, SizesFacts DEF Entries
<1> HIDE DEF c, Entries
<1> QED
  BY <1>2, <1>3, <1>4

LEMMA ValueTypes ==
  ASSUME TypeOK, SlotsFit, NEW v \in Values, Value(v)
  PROVE  TypeOK'
<1>1. slots' \in Seq(Entries) /\ Len(slots') = Len(slots) /\ index + 1 \in 1 .. Len(slots)
  BY ValueSlots
<1>2. next' \in 0 .. IntMax
  BY <1>1, SizesFacts DEF Value, TypeOK
<1>3. /\ phase' = "item"
      /\ UNCHANGED <<place, ty, fixed, count, elementVars, elements, doneVars, status>>
  BY DEF Value
<1> QED
  BY <1>1, <1>2, <1>3 DEF TypeOK, elementVars, doneVars, Entries

LEMMA BeginTypes ==
  ASSUME TypeOK, NEW p \in Places, NEW t \in DeclaredTypes, Begin(p, t)
  PROVE  TypeOK'
<1>1. t \in Types
  <2>1. Sizes \subseteq 0 .. IntMax
    BY SizesAssumption
  <2>2. CASE t \in [kind : {"array"}, n : Sizes]
    BY <2>1, <2>2 DEF Types
  <2>3. CASE t \in [kind : {"struct", "union"}, n : Sizes \ {0}]
    BY <2>1, <2>3 DEF Types
  <2>4. CASE t \in [kind : {"alias", "scalar"}, n : {0}]
    BY <2>4, SizesFacts DEF Types
  <2> QED
    BY <2>2, <2>3, <2>4 DEF DeclaredTypes
<1>2. fixed' \in {NotCounted} \cup 0 .. IntMax
  BY <1>1, FixedCountType DEF Begin, TypeOK
<1>3. /\ place' = p /\ ty' = t /\ phase' = "item"
      /\ UNCHANGED <<slots, count, next, elementVars, elements, doneVars, status>>
  BY DEF Begin
<1> QED
  BY <1>1, <1>2, <1>3 DEF TypeOK, elementVars, doneVars

LEMMA PositionTypes == TypeOK /\ SlotsFit /\ Position => TypeOK'
<1>1. TypeOK => next \in 0 .. IntMax
  BY DEF TypeOK
<1> QED
  BY <1>1, LocateTypes, FirstMemberType DEF Position

LEMMA IndexTypes ==
  ASSUME TypeOK, SlotsFit, NEW i \in -1 .. MaxIndex, IndexDesignator(i)
  PROVE  TypeOK'
<1>1. i \in 0 .. IntMax
  BY SizesFacts DEF IndexDesignator, Locate, InRange
<1> QED
  BY <1>1, LocateTypes, FirstMemberType DEF IndexDesignator

LEMMA MemberTypes ==
  ASSUME TypeOK, SlotsFit, NEW m \in 0 .. MaxPlaces - 1, MemberDesignator(m)
  PROVE  TypeOK'
<1> DEFINE i == IF ty.kind = "union" THEN 0 ELSE m
           c == IF ty.kind = "union" THEN m ELSE Whole
<1>1. i \in 0 .. IntMax /\ c \in Casts
  BY SizesFacts DEF Casts, Whole
<1>2. Locate(i, c, "designator")
  BY DEF MemberDesignator
<1> HIDE DEF i, c
<1> QED
  BY <1>1, <1>2, LocateTypes

LEMMA GrowTypes == TypeOK /\ Grow => TypeOK'
<1> SUFFICES ASSUME TypeOK, Grow PROVE TypeOK'
  OBVIOUS
<1>1. /\ newCap' \in 0 .. IntMax
      /\ status' \in {"running", "exit", "undefined", "done"}
  BY SizesFacts DEF TypeOK, Grow
<1>2. UNCHANGED <<listVars, index, castTo, how, elements, doneVars, phase>>
  BY DEF Grow
<1> QED
  BY <1>1, <1>2 DEF TypeOK, listVars, doneVars

LEMMA ExitTypes == TypeOK /\ Exit => TypeOK'
  BY DEF TypeOK, Exit, listVars, elementVars, doneVars

(* What the caller stores: the count, the cells and the size. *)
LEMMA BodyType ==
  ASSUME TypeOK
  PROVE  /\ FinalCount \in 0 .. IntMax
         /\ Body \in Seq(Cells)
         /\ Len(Body) = FinalCount
<1>1. FinalCount \in 0 .. IntMax
  BY SizesFacts DEF TypeOK, FinalCount, NotCounted
<1>2. ZeroCell \in Cells
  BY DEF ZeroCell, Cells, Casts, Whole
<1>3. slots \in Seq(Cells \cup {NULL})
  BY DEF TypeOK
<1>4. \A k \in 1 .. FinalCount :
        (IF k <= Len(slots) /\ slots[k] # NULL THEN slots[k] ELSE ZeroCell) \in Cells
  <2> DEFINE C == Cells
  <2>1. ZeroCell \in C /\ slots \in Seq(C \cup {NULL}) /\ FinalCount \in Nat
    BY <1>1, <1>2, <1>3, SizesFacts
  <2> HIDE DEF C
  <2>2. \A k \in 1 .. FinalCount :
          (IF k <= Len(slots) /\ slots[k] # NULL THEN slots[k] ELSE ZeroCell) \in C
    BY <2>1
  <2> QED
    BY <2>2 DEF C
<1>5. FinalCount \in Nat
  BY <1>1, SizesFacts
<1> QED
  BY <1>1, <1>4, <1>5 DEF Body

LEMMA CountedType == TypeOK => Counted \in 0 .. IntMax
<1> SUFFICES ASSUME TypeOK PROVE Counted \in 0 .. IntMax
  OBVIOUS
<1>1. ArraySize(ty) \in 0 .. IntMax
  BY ArraySizeType DEF TypeOK
<1>2. FinalCount \in 0 .. IntMax
  BY BodyType
<1> QED
  BY <1>1, <1>2 DEF Counted

(* The type of the declaration with the size that its list gave it. *)
NewType == IF ty.kind = "array" THEN [ty EXCEPT !.n = Counted] ELSE ty

NewList == [place |-> place, ty |-> NewType, cast |-> IsCast, body |-> Body]

Lists == [place : Places, ty : Types, cast : BOOLEAN, body : Seq(Cells)]

LEMMA NewListType == TypeOK => NewType \in Types /\ NewList \in Lists
<1> SUFFICES ASSUME TypeOK PROVE NewType \in Types /\ NewList \in Lists
  OBVIOUS
<1>1. NewType \in Types
  BY CountedType DEF TypeOK, NewType, Types
<1> DEFINE c == IsCast
<1>2. c \in BOOLEAN
  BY DEF IsCast
<1>3. Body \in Seq(Cells) /\ place \in Places
  BY BodyType DEF TypeOK
<1>4. NewList = [place |-> place, ty |-> NewType, cast |-> c, body |-> Body]
  BY DEF NewList
<1> HIDE DEF c
<1>5. NewList \in Lists
  BY <1>1, <1>2, <1>3, <1>4, Zenon DEF Lists
<1> QED
  BY <1>1, <1>5

LEMMA CloseTypes == TypeOK /\ Close => TypeOK'
<1> SUFFICES ASSUME TypeOK, Close PROVE TypeOK'
  OBVIOUS
<1>1. aliasSize' \in 0 .. IntMax
  BY CountedType DEF TypeOK, Close
<1>2. lists' \in Seq(Lists)
  <2>1. lists' = Append(lists, NewList)
    BY DEF Close, NewList, NewType
  <2>2. NewList \in Lists /\ lists \in Seq(Lists)
    BY NewListType DEF TypeOK, Lists
  <2> QED
    BY <2>1, <2>2
<1>3. /\ place' \in Places /\ ty' = NoType /\ fixed' = NotCounted
      /\ slots' = <<>> /\ count' = 0 /\ next' = 0 /\ index' = 0
      /\ castTo' = Whole /\ how' = "position" /\ newCap' = 0
      /\ phase' = "text"
      /\ UNCHANGED <<elements, objects, status>>
  BY DEF Close, Reset, Places
<1>4. NoType \in Types /\ Whole \in Casts /\ 0 \in 0 .. IntMax
  BY SizesFacts DEF NoType, Types, Whole, Casts
<1> QED
  BY <1>1, <1>2, <1>3, <1>4 DEF TypeOK, Lists

LEMMA ObjectType ==
  ASSUME TypeOK, NEW d \in Lists
  PROVE  Object(d) \in [fits : BOOLEAN, places : Nat, cells : Seq(Cells)]
<1> DEFINE f == Fits(d)
           n == IF d.cast THEN 1 ELSE LLVMPlaces(d.ty)
           s == IF d.cast THEN FirstOf(d.body)
                ELSE [k \in DOMAIN d.body |-> StoredAs(d, d.body[k])]
<1>1. f \in BOOLEAN
  <2>1. CASE d.place = "global"
    BY <2>1, Zenon DEF Fits
  <2>2. CASE d.place = "local"
    BY <2>2, Zenon DEF Fits
  <2>3. CASE d.place = "compound"
    BY <2>3 DEF Fits
  <2> QED
    BY <2>1, <2>2, <2>3 DEF Lists, Places
<1>2. n \in Nat
  <2>1. d.ty \in Types
    BY DEF Lists
  <2>2. ArraySize(d.ty) \in 0 .. IntMax
    BY <2>1, ArraySizeType DEF TypeOK
  <2> QED
    BY <2>1, <2>2, SizesFacts DEF LLVMPlaces, Types
<1>3. s \in Seq(Cells)
  <2>1. d.body \in Seq(Cells)
    BY DEF Lists
  <2>2. FirstOf(d.body) \in Seq(Cells)
    <3>1. ZeroCell \in Cells
      BY DEF ZeroCell, Cells, Casts, Whole
    <3> QED
      BY <2>1, <3>1 DEF FirstOf
  <2>3. ASSUME NEW c \in Cells PROVE StoredAs(d, c) \in Cells
    <3>1. AsInt \in Casts
      BY DEF Casts
    <3>2. [c EXCEPT !.castTo = AsInt] \in Cells
      BY <3>1 DEF Cells
    <3> QED
      BY <3>2 DEF StoredAs
  <2> QED
    BY <2>1, <2>2, <2>3
<1>4. Object(d) = [fits |-> f, places |-> n, cells |-> s]
  BY DEF Object
<1>5. ASSUME NEW b \in BOOLEAN, NEW m \in Nat, NEW q \in Seq(Cells)
      PROVE  [fits |-> b, places |-> m, cells |-> q]
               \in [fits : BOOLEAN, places : Nat, cells : Seq(Cells)]
  BY Zenon
<1> HIDE DEF f, n, s
<1>6. [fits |-> f, places |-> n, cells |-> s]
        \in [fits : BOOLEAN, places : Nat, cells : Seq(Cells)]
  BY <1>1, <1>2, <1>3, <1>5
<1> QED
  BY <1>4, <1>6, Zenon

LEMMA GenerateTypes == TypeOK /\ Generate => TypeOK'
<1> SUFFICES ASSUME TypeOK, Generate PROVE TypeOK'
  OBVIOUS
<1> DEFINE Objects == [fits : BOOLEAN, places : Nat, cells : Seq(Cells)]
<1>1. objects' = [k \in DOMAIN lists |-> Object(lists[k])]
  BY DEF Generate
<1>2. lists \in Seq(Lists)
  BY DEF TypeOK, Lists
<1>3. \A k \in DOMAIN lists : Object(lists[k]) \in Objects
  BY <1>2, ObjectType
<1>4. objects' \in Seq(Objects)
  <2> HIDE DEF Objects
  <2> QED
    BY <1>1, <1>2, <1>3
<1>5. /\ status' = "done"
      /\ UNCHANGED <<aliasSize, listVars, elementVars, elements, lists, phase>>
  BY DEF Generate
<1> QED
  BY <1>4, <1>5 DEF TypeOK, listVars, elementVars

LEMMA NextTypes == TypeOK /\ SlotsFit /\ [Next]_vars => TypeOK'
<1> SUFFICES ASSUME TypeOK, SlotsFit, [Next]_vars PROVE TypeOK'
  OBVIOUS
<1>1. ASSUME NEW p \in Places, NEW t \in DeclaredTypes, Begin(p, t) PROVE TypeOK'
  BY <1>1, BeginTypes
<1>2. CASE Position
  BY <1>2, PositionTypes
<1>3. ASSUME NEW i \in -1 .. MaxIndex, IndexDesignator(i) PROVE TypeOK'
  BY <1>3, IndexTypes
<1>4. ASSUME NEW m \in 0 .. MaxPlaces - 1, MemberDesignator(m) PROVE TypeOK'
  BY <1>4, MemberTypes
<1>5. CASE Exit
  BY <1>5, ExitTypes
<1>6. CASE Grow
  BY <1>6, GrowTypes
<1>7. CASE Alloc
  BY <1>7, AllocTypes
<1>8. ASSUME NEW v \in Values, Value(v) PROVE TypeOK'
  BY <1>8, ValueTypes
<1>9. CASE Close
  BY <1>9, CloseTypes
<1>10. CASE Generate
  BY <1>10, GenerateTypes
<1>11. CASE UNCHANGED vars
  BY <1>11 DEF TypeOK, vars
<1> QED
  BY <1>1, <1>2, <1>3, <1>4, <1>5, <1>6, <1>7, <1>8, <1>9, <1>10, <1>11
  DEF Next, ListSteps, ExitOnElement, ExitOnText, AllocFails, Stopped

-----------------------------------------------------------------------------
(* The slots *)

LEMMA LocateSlots ==
  ASSUME TypeOK, SlotsFit, Located, NEW i \in Int, NEW m, NEW h, Locate(i, m, h)
  PROVE  SlotsFit' /\ Located'
<1>1. /\ phase = "item" /\ InRange(i) /\ index' = i
      /\ UNCHANGED <<place, ty, fixed, slots, next>>
  BY DEF Locate, At
<1>2. i >= 0 /\ (fixed # NotCounted => i < fixed)
  BY <1>1 DEF InRange
<1>3. /\ count \in Nat /\ next \in Nat /\ fixed \in Int
      /\ Len(slots) \in Nat /\ slots \in Seq(Entries)
  BY SizesFacts DEF TypeOK, NotCounted, Entries
<1>4. CASE i >= Len(slots)
  <2>1. newCap' > 0 /\ phase' = "grow" /\ count' = count
    BY <1>3, <1>4, SizesFacts DEF Locate
  <2> QED
    BY <1>1, <1>2, <1>3, <1>4, <2>1 DEF SlotsFit, Located, InRange, Reading, NotCounted
<1>5. CASE i < Len(slots)
  <2>1. /\ count' = IF i + 1 > count THEN i + 1 ELSE count
        /\ phase' = "value"
    BY <1>3, <1>5 DEF Locate
  <2> QED
    BY <1>1, <1>2, <1>3, <1>5, <2>1 DEF SlotsFit, Located, InRange, Reading, NotCounted
<1> QED
  BY <1>3, <1>4, <1>5

LEMMA AllocKeepsSlots ==
  ASSUME TypeOK, SlotsFit, Located, Alloc
  PROVE  SlotsFit' /\ Located'
<1>1. /\ slots' \in Seq(Entries) /\ Len(slots') = newCap
      /\ \A k \in 1 .. newCap :
           slots'[k] = IF k <= Len(slots) THEN slots[k] ELSE NULL
  BY AllocSlots
<1>2. /\ phase = "grow" /\ newCap > index /\ phase' = "value"
      /\ count' = IF index + 1 > count THEN index + 1 ELSE count
      /\ UNCHANGED <<fixed, next, index>>
  BY DEF Alloc, At, elementVars
<1>3. /\ count \in Nat /\ next \in Nat /\ fixed \in Int /\ index \in Nat
      /\ newCap \in Nat /\ Len(slots) \in Nat
  BY SizesFacts DEF TypeOK, NotCounted
<1>4. /\ index >= Len(slots) /\ InRange(index) /\ count <= Len(slots)
      /\ next <= count
  BY <1>2 DEF Located, SlotsFit
<1>5. count' = index + 1
  BY <1>2, <1>3, <1>4
<1>6. \A k \in 1 .. Len(slots') : slots'[k] # NULL => k <= count'
  BY <1>1, <1>3, <1>4, <1>5 DEF SlotsFit
<1> QED
  BY <1>1, <1>2, <1>3, <1>4, <1>5, <1>6 DEF SlotsFit, Located, InRange, Reading, NotCounted

LEMMA ValueKeepsSlots ==
  ASSUME TypeOK, SlotsFit, Located, NEW v \in Values, Value(v)
  PROVE  SlotsFit' /\ Located'
<1>1. /\ slots' \in Seq(Entries) /\ Len(slots') = Len(slots)
      /\ slots'[index + 1] # NULL
      /\ index + 1 \in 1 .. Len(slots)
      /\ \A k \in 1 .. Len(slots) : k # index + 1 => slots'[k] = slots[k]
  BY ValueSlots
<1>2. /\ phase = "value" /\ phase' = "item" /\ next' = index + 1
      /\ UNCHANGED <<fixed, count>>
  BY DEF Value, At
<1>3. count \in Nat /\ fixed \in Int /\ index \in Nat /\ Len(slots) \in Nat
  BY SizesFacts DEF TypeOK, NotCounted
<1>4. index < count /\ (slots[count] # NULL \/ count = index + 1)
  BY <1>2, <1>3 DEF Located
<1>5. slots'[count] # NULL
  BY <1>1, <1>3, <1>4 DEF SlotsFit
<1>6. \A k \in 1 .. Len(slots') : slots'[k] # NULL => k <= count'
  BY <1>1, <1>2, <1>3, <1>4 DEF SlotsFit
<1> QED
  BY <1>1, <1>2, <1>3, <1>4, <1>5, <1>6 DEF SlotsFit, Located, Reading

LEMMA BeginSlots ==
  ASSUME TypeOK, SlotsFit, Located, NEW p \in Places, NEW t \in DeclaredTypes,
         Begin(p, t)
  PROVE  SlotsFit' /\ Located'
<1>1. /\ slots = <<>> /\ count = 0 /\ next = 0
      /\ phase' = "item"
      /\ UNCHANGED <<slots, count, next>>
  BY DEF Begin, At, Located
<1>2. fixed' # NotCounted => fixed' \in 0 .. IntMax
  BY BeginTypes DEF TypeOK
<1> QED
  BY <1>1, <1>2, SizesFacts DEF SlotsFit, Located, Reading

LEMMA GrowSlots ==
  TypeOK /\ SlotsFit /\ Located /\ Grow => SlotsFit' /\ Located'
<1> SUFFICES ASSUME TypeOK, SlotsFit, Located, Grow PROVE SlotsFit' /\ Located'
  OBVIOUS
<1>1. phase = "grow" /\ UNCHANGED <<fixed, slots, count, next, index, phase>>
  BY DEF Grow, At, listVars
<1>2. newCap' > 0
  BY <1>1, SizesFacts DEF Grow, Located, TypeOK
<1> QED
  BY <1>1, <1>2 DEF SlotsFit, Located, InRange, Reading

LEMMA ResetSlots ==
  ASSUME slots' = <<>>, count' = 0, next' = 0, phase' = "text"
  PROVE  SlotsFit' /\ Located'
  BY DEF SlotsFit, Located, Reading

LEMMA SlotsKept ==
  ASSUME TypeOK, SlotsFit, Located, UNCHANGED <<listVars, elementVars, phase>>
  PROVE  SlotsFit' /\ Located'
<1>1. UNCHANGED <<fixed, slots, count, next, index, newCap, phase>>
  BY DEF listVars, elementVars
<1> QED
  BY <1>1 DEF SlotsFit, Located, InRange, Reading

LEMMA NextSlots ==
  TypeOK /\ SlotsFit /\ Located /\ [Next]_vars => SlotsFit' /\ Located'
<1> SUFFICES ASSUME TypeOK, SlotsFit, Located, [Next]_vars
             PROVE  SlotsFit' /\ Located'
  OBVIOUS
<1>1. ASSUME NEW p \in Places, NEW t \in DeclaredTypes, Begin(p, t) PROVE SlotsFit' /\ Located'
  BY <1>1, BeginSlots
<1>2. CASE Position
  BY <1>2, LocateSlots, SizesFacts DEF Position, TypeOK
<1>3. ASSUME NEW i \in -1 .. MaxIndex, IndexDesignator(i) PROVE SlotsFit' /\ Located'
  BY <1>3, LocateSlots, SizesFacts DEF IndexDesignator
<1>4. ASSUME NEW m \in 0 .. MaxPlaces - 1, MemberDesignator(m) PROVE SlotsFit' /\ Located'
  <2> DEFINE i == IF ty.kind = "union" THEN 0 ELSE m
             c == IF ty.kind = "union" THEN m ELSE Whole
  <2>1. i \in Int
    BY SizesFacts
  <2>2. Locate(i, c, "designator")
    BY <1>4 DEF MemberDesignator
  <2> HIDE DEF i, c
  <2> QED
    BY <2>1, <2>2, LocateSlots
<1>5. CASE Exit
  BY <1>5, SlotsKept DEF Exit
<1>6. CASE Grow
  BY <1>6, GrowSlots
<1>7. CASE Alloc
  BY <1>7, AllocKeepsSlots
<1>8. ASSUME NEW v \in Values, Value(v) PROVE SlotsFit' /\ Located'
  BY <1>8, ValueKeepsSlots
<1>9. CASE Close
  BY <1>9, ResetSlots DEF Close, Reset
<1>10. CASE Generate
  BY <1>10, SlotsKept DEF Generate
<1>11. CASE UNCHANGED vars
  BY <1>11, SlotsKept DEF vars, listVars, elementVars
<1> QED
  BY <1>1, <1>2, <1>3, <1>4, <1>5, <1>6, <1>7, <1>8, <1>9, <1>10, <1>11
  DEF Next, ListSteps, ExitOnElement, ExitOnText, AllocFails, Stopped

-----------------------------------------------------------------------------
(* The size, the lists and the stores *)

(* Which steps change what the invariants below speak of. *)
LEMMA OtherSteps ==
  ASSUME [Next]_vars
  PROVE  \/ \E p \in Places, t \in DeclaredTypes : Begin(p, t)
         \/ Close
         \/ Generate
         \/ /\ UNCHANGED <<ty, fixed, doneVars>>
            /\ (status = "running" /\ status' # "done") \/ UNCHANGED status
            /\ Reading = Reading' \/ UNCHANGED vars
<1> DEFINE Q ==
      /\ UNCHANGED <<ty, fixed, doneVars>>
      /\ (status = "running" /\ status' # "done") \/ UNCHANGED status
      /\ Reading = Reading' \/ UNCHANGED vars
<1>1. ASSUME UNCHANGED vars PROVE Q
  BY <1>1 DEF vars, doneVars
<1>2. ASSUME NEW i, NEW m, NEW h, Locate(i, m, h) PROVE Q
  BY <1>2 DEF Locate, At, Reading
<1>3. ASSUME Position PROVE Q
  BY <1>2, <1>3 DEF Position
<1>4. ASSUME NEW i \in -1 .. MaxIndex, IndexDesignator(i) PROVE Q
  BY <1>2, <1>4 DEF IndexDesignator
<1>5. ASSUME NEW m \in 0 .. MaxPlaces - 1, MemberDesignator(m) PROVE Q
  <2> DEFINE i == IF ty.kind = "union" THEN 0 ELSE m
             c == IF ty.kind = "union" THEN m ELSE Whole
  <2>1. Locate(i, c, "designator")
    BY <1>5 DEF MemberDesignator
  <2> HIDE DEF i, c, Q
  <2> QED
    BY <1>2, <2>1
<1>6. ASSUME Exit, status = "running" PROVE Q
  BY <1>6 DEF Exit, listVars, doneVars, Reading
<1>7. ASSUME Grow PROVE Q
  BY <1>7 DEF Grow, At, listVars, Reading
<1>8. ASSUME Alloc PROVE Q
  BY <1>8 DEF Alloc, At, Reading
<1>9. ASSUME NEW v \in Values, Value(v) PROVE Q
  BY <1>9 DEF Value, At, Reading
<1> HIDE DEF Q
<1>10. Q \/ Close \/ Generate \/ \E p \in Places, t \in DeclaredTypes : Begin(p, t)
  BY <1>1, <1>3, <1>4, <1>5, <1>6, <1>7, <1>8, <1>9
  DEF Next, ListSteps, ExitOnElement, ExitOnText, AllocFails, Stopped, At
<1> QED
  BY <1>10 DEF Q

LEMMA NextSized == Sized /\ [Next]_vars => Sized'
<1> SUFFICES ASSUME Sized, [Next]_vars PROVE Sized'
  OBVIOUS
<1>1. ASSUME NEW p \in Places, NEW t \in DeclaredTypes, Begin(p, t) PROVE Sized'
  BY <1>1 DEF Begin, Sized, doneVars, FixedCount, ArraySize, IsPtr
<1>2. CASE Close
  BY <1>2 DEF Close, Sized, Reading
<1>3. CASE Generate
  BY <1>3 DEF Generate, Sized, Reading, listVars, FixedCount, ArraySize, IsPtr
<1>4. ASSUME UNCHANGED <<ty, fixed, doneVars>>, Reading = Reading' PROVE Sized'
  <2>1. UNCHANGED <<ty, fixed, aliasSize>>
    BY <1>4 DEF doneVars
  <2>2. FixedCount(ty)' = FixedCount(ty)
    BY <2>1 DEF FixedCount, ArraySize, IsPtr
  <2> QED
    BY <1>4, <2>1, <2>2 DEF Sized
<1>5. CASE UNCHANGED vars
  BY <1>5 DEF Sized, Reading, vars, FixedCount, ArraySize, IsPtr
<1> QED
  BY <1>1, <1>2, <1>3, <1>4, <1>5, OtherSteps

(* The number of values that a list has when its brace closes. *)
LEMMA FinalCountFills ==
  ASSUME TypeOK, SlotsFit, Sized, Reading
  PROVE  /\ IsPtr(ty) /\ ArraySize(ty) = 0 => FinalCount = count
         /\ IsPtr(ty) /\ ArraySize(ty) > 0 => FinalCount = ArraySize(ty)
         /\ ty.kind = "struct" => FinalCount = ty.n
         /\ ty.kind = "union" => FinalCount = 1
<1>1. fixed = FixedCount(ty) /\ (fixed # NotCounted => count <= fixed)
  BY DEF Sized, SlotsFit
<1>2. /\ ArraySize(ty) \in Nat /\ count \in Nat /\ ty.n \in Nat
      /\ ty.kind \in {"array", "alias", "struct", "union", "scalar"}
  BY ArraySizeType, SizesFacts DEF TypeOK, Types
<1> QED
  BY <1>1, <1>2 DEF FixedCount, FinalCount, IsPtr, NotCounted

LEMMA SizeIs == ASSUME NEW t PROVE ArraySize(t) = SizeWith(t, aliasSize)
  BY DEF ArraySize, SizeWith

(* An array or a typedef's pointer has the size of the list afterwards, and a
   size that it had already is kept. *)
LEMMA SizeAfterClose ==
  ASSUME TypeOK, SlotsFit, Sized, Close
  PROVE  /\ IsPtr(ty) /\ FinalCount > 0 => Counted = FinalCount
         /\ aliasSize > 0 => aliasSize' = aliasSize
         /\ IsPtr(ty) => SizeWith(NewType, aliasSize') = Counted
<1>1. ArraySize(ty) \in Nat /\ ty \in Types
  BY ArraySizeType, SizesFacts DEF TypeOK
<1>2. Reading
  BY DEF Close, At, Reading
<1>3. /\ ArraySize(ty) > 0 => Counted = ArraySize(ty)
      /\ IsPtr(ty) /\ FinalCount > 0 => Counted = FinalCount
  BY <1>1, <1>2, FinalCountFills DEF Counted
<1>4. aliasSize' = IF ty.kind = "alias" THEN Counted ELSE aliasSize
  BY DEF Close
<1>5. aliasSize > 0 => aliasSize' = aliasSize
  BY <1>3, <1>4 DEF ArraySize
<1>6. ASSUME ty.kind = "array" PROVE SizeWith(NewType, aliasSize') = Counted
  <2>1. NewType = [kind |-> "array", n |-> Counted]
    BY <1>1, <1>6 DEF NewType, Types
  <2> QED
    BY <2>1 DEF SizeWith
<1>7. ASSUME ty.kind = "alias" PROVE SizeWith(NewType, aliasSize') = Counted
  BY <1>4, <1>7 DEF SizeWith, NewType
<1> QED
  BY <1>3, <1>5, <1>6, <1>7 DEF IsPtr

LEMMA NewListFills ==
  ASSUME TypeOK, SlotsFit, Sized, Close
  PROVE  Fills(NewList, aliasSize')
<1>1. Reading
  BY DEF Close, At, Reading
<1>2. /\ NewList.ty = NewType /\ NewList.body = Body
      /\ Body \in Seq(Cells) /\ Len(Body) = FinalCount
      /\ FinalCount \in Nat
  BY BodyType, SizesFacts DEF NewList
<1>3. /\ NewType.kind = ty.kind
      /\ ty.kind # "array" => NewType.n = ty.n
      /\ ty.kind \in {"array", "alias", "struct", "union", "scalar"}
  BY DEF NewType, TypeOK, Types
<1>4. ASSUME Body # <<>> PROVE FinalCount > 0
  BY <1>2, <1>4
<1>5. ASSUME Body # <<>>, IsPtr(ty)
      PROVE  SizeWith(NewType, aliasSize') > 0 /\ Len(Body) = SizeWith(NewType, aliasSize')
  BY <1>2, <1>4, <1>5, SizeAfterClose
<1>6. ASSUME Body # <<>>, ~IsPtr(ty), ty.kind # "scalar"
      PROVE  Len(Body) = IF NewType.kind = "struct" THEN NewType.n ELSE 1
  BY <1>1, <1>2, <1>3, <1>6, FinalCountFills DEF IsPtr
<1>7. IsPtr(NewType) <=> IsPtr(ty)
  BY <1>3 DEF IsPtr
<1> QED
  BY <1>2, <1>3, <1>5, <1>6, <1>7 DEF Fills

(* A size that an earlier list gave the typedef is not changed again. *)
LEMMA OldListFills ==
  ASSUME TypeOK, SlotsFit, Sized, Close, NEW d \in Lists, Fills(d, aliasSize)
  PROVE  Fills(d, aliasSize')
<1>1. aliasSize > 0 => aliasSize' = aliasSize
  BY SizeAfterClose
<1>2. aliasSize \in Nat /\ d.ty \in Types
  BY SizesFacts DEF TypeOK, Lists
<1>3. CASE d.ty.kind = "alias"
  BY <1>1, <1>2, <1>3 DEF Fills, SizeWith, IsPtr
<1>4. CASE d.ty.kind # "alias"
  BY <1>2, <1>4 DEF Fills, SizeWith, IsPtr
<1> QED
  BY <1>3, <1>4

LEMMA CloseFills ==
  ASSUME TypeOK, SlotsFit, Sized, ListsFill, Close
  PROVE  ListsFill'
<1>1. lists' = Append(lists, NewList) /\ UNCHANGED <<objects, status>>
  BY DEF Close, NewList, NewType
<1>2. lists \in Seq(Lists)
  BY DEF TypeOK, Lists
<1>3. /\ DOMAIN lists' = 1 .. Len(lists) + 1
      /\ lists'[Len(lists) + 1] = NewList
      /\ \A k \in 1 .. Len(lists) : lists'[k] = lists[k] /\ lists[k] \in Lists
  BY <1>1, <1>2
<1>4. ASSUME NEW k \in 1 .. Len(lists) + 1 PROVE Fills(lists'[k], aliasSize')
  <2>1. CASE k \in 1 .. Len(lists)
    BY <1>2, <1>3, <2>1, OldListFills DEF ListsFill
  <2>2. CASE k = Len(lists) + 1
    BY <1>3, <2>2, NewListFills
  <2> QED
    BY <1>2, <2>1, <2>2
<1> QED
  BY <1>1, <1>3, <1>4 DEF ListsFill

LEMMA NextFills ==
  ASSUME TypeOK, SlotsFit, Sized, ListsFill, [Next]_vars
  PROVE  ListsFill'
<1>1. ASSUME NEW p \in Places, NEW t \in DeclaredTypes, Begin(p, t) PROVE ListsFill'
  BY <1>1 DEF Begin, ListsFill, doneVars
<1>2. CASE Close
  BY <1>2, CloseFills
<1>3. CASE Generate
  BY <1>3 DEF Generate, ListsFill
<1>4. ASSUME UNCHANGED doneVars,
             (status = "running" /\ status' # "done") \/ UNCHANGED status
      PROVE  ListsFill'
  BY <1>4 DEF ListsFill, doneVars
<1> QED
  BY <1>1, <1>2, <1>3, <1>4, OtherSteps

(* Every store is made of a list that fills its type. *)
LEMMA GenerateFills ==
  ASSUME TypeOK, ListsFill, Generate
  PROVE  PlacesAreWritten'
<1>1. /\ objects' = [k \in DOMAIN lists |-> Object(lists[k])]
      /\ lists' = lists
  BY DEF Generate
<1>2. lists \in Seq(Lists)
  BY DEF TypeOK, Lists
<1>3. ASSUME NEW k \in DOMAIN lists, lists[k].ty.kind # "scalar",
             Object(lists[k]).cells # <<>>
      PROVE  Len(Object(lists[k]).cells) = Object(lists[k]).places
  <2> DEFINE d == lists[k]
             o == Object(d)
  <2>1. d \in Lists /\ Fills(d, aliasSize)
    BY <1>2, <1>3 DEF ListsFill
  <2>2. CASE d.cast
    <3>1. o.places = 1 /\ o.cells = FirstOf(d.body)
      BY <2>2 DEF Object
    <3>2. Len(FirstOf(d.body)) = 1
      BY DEF FirstOf
    <3> QED
      BY <3>1, <3>2
  <2>3. CASE ~d.cast
    <3>1. /\ o.places = LLVMPlaces(d.ty)
          /\ o.cells = [j \in DOMAIN d.body |-> StoredAs(d, d.body[j])]
      BY <2>3 DEF Object
    <3>2. d.body \in Seq(Cells) /\ d.ty \in Types
      BY <2>1 DEF Lists
    <3>3. Len(o.cells) = Len(d.body) /\ d.body # <<>>
      BY <1>3, <3>1, <3>2
    <3>4. Len(d.body) = LLVMPlaces(d.ty)
      BY <1>3, <2>1, <3>2, <3>3, SizeIs DEF Fills, LLVMPlaces, IsPtr, Types
    <3> QED
      BY <3>1, <3>3, <3>4
  <2> QED
    BY <2>2, <2>3
<1> QED
  BY <1>1, <1>3 DEF PlacesAreWritten

LEMMA NextWritten ==
  ASSUME TypeOK, ListsFill, PlacesAreWritten, [Next]_vars
  PROVE  PlacesAreWritten'
<1>1. CASE Generate
  BY <1>1, GenerateFills
<1>2. ASSUME objects' = <<>> PROVE PlacesAreWritten'
  BY <1>2 DEF PlacesAreWritten
<1>3. ASSUME status = "running", UNCHANGED objects PROVE PlacesAreWritten'
  BY <1>2, <1>3 DEF ListsFill
<1>4. CASE Close
  BY <1>3, <1>4 DEF Close, At
<1>5. ASSUME NEW p \in Places, NEW t \in DeclaredTypes, Begin(p, t)
      PROVE  PlacesAreWritten'
  BY <1>3, <1>5 DEF Begin, At, doneVars
<1>6. ASSUME UNCHANGED doneVars PROVE PlacesAreWritten'
  BY <1>6 DEF PlacesAreWritten, doneVars
<1> QED
  BY <1>1, <1>4, <1>5, <1>6, OtherSteps

-----------------------------------------------------------------------------
(* A list implements the elements it promises *)

(* What a list stands for once it is closed. *)
AsObject(b) == [i \in 0 .. Len(b) - 1 |-> b[i + 1]]

absSize == IF Reading THEN fixed ELSE NotCounted
absCursor == IF Reading THEN next ELSE 0
absAt == IF phase \in {"grow", "value"} THEN index ELSE -1
absObjects == [k \in DOMAIN lists |-> AsObject(lists[k].body)]

(* The cells that a table of slots holds. *)
CellsOf(s) ==
  [i \in {k - 1 : k \in {j \in 1 .. Len(s) : s[j] # NULL}} |-> s[i + 1]]

LEMMA AbsCellsIs == absCells = IF Reading THEN CellsOf(slots) ELSE <<>>
  BY DEF absCells, CellsOf, Written

LEMMA CellsDomain ==
  ASSUME NEW s \in Seq(Entries), NEW i
  PROVE  /\ i \in DOMAIN CellsOf(s) <=>
              i \in 0 .. Len(s) - 1 /\ s[i + 1] # NULL
         /\ i \in DOMAIN CellsOf(s) => CellsOf(s)[i] = s[i + 1]
<1>1. DOMAIN CellsOf(s) = {k - 1 : k \in {j \in 1 .. Len(s) : s[j] # NULL}}
  BY DEF CellsOf
<1>2. ASSUME i \in DOMAIN CellsOf(s)
      PROVE  i \in 0 .. Len(s) - 1 /\ s[i + 1] # NULL
  <2>1. PICK k \in 1 .. Len(s) : s[k] # NULL /\ i = k - 1
    BY <1>1, <1>2
  <2> QED
    BY <2>1
<1>3. ASSUME i \in 0 .. Len(s) - 1, s[i + 1] # NULL
      PROVE  i \in DOMAIN CellsOf(s)
  <2>1. i + 1 \in 1 .. Len(s) /\ i = (i + 1) - 1
    BY <1>3
  <2> QED
    BY <1>1, <1>3, <2>1
<1>4. ASSUME i \in DOMAIN CellsOf(s) PROVE CellsOf(s)[i] = s[i + 1]
  BY <1>4 DEF CellsOf
<1> QED
  BY <1>2, <1>3, <1>4

(* Two tables with the same entries hold the same cells. *)
LEMMA SameCells ==
  ASSUME NEW s \in Seq(Entries), NEW t \in Seq(Entries), Len(s) <= Len(t),
         \A k \in 1 .. Len(t) : t[k] = IF k <= Len(s) THEN s[k] ELSE NULL
  PROVE  CellsOf(t) = CellsOf(s)
<1>1. ASSUME NEW i PROVE i \in DOMAIN CellsOf(t) <=> i \in DOMAIN CellsOf(s)
  <2>1. i \in DOMAIN CellsOf(s) <=> i \in 0 .. Len(s) - 1 /\ s[i + 1] # NULL
    BY CellsDomain
  <2>2. i \in DOMAIN CellsOf(t) <=> i \in 0 .. Len(t) - 1 /\ t[i + 1] # NULL
    BY CellsDomain
  <2>3. Len(s) \in Nat /\ Len(t) \in Nat
    OBVIOUS
  <2>4. i \in 0 .. Len(s) - 1 /\ s[i + 1] # NULL
          <=> i \in 0 .. Len(t) - 1 /\ t[i + 1] # NULL
    BY <2>3
  <2> QED
    BY <2>1, <2>2, <2>4
<1>2. DOMAIN CellsOf(t) = DOMAIN CellsOf(s)
  BY <1>1
<1>3. \A i \in DOMAIN CellsOf(s) : CellsOf(t)[i] = CellsOf(s)[i]
  BY <1>2, CellsDomain
<1>4. /\ CellsOf(t) = [i \in DOMAIN CellsOf(t) |-> CellsOf(t)[i]]
      /\ CellsOf(s) = [i \in DOMAIN CellsOf(s) |-> CellsOf(s)[i]]
  BY DEF CellsOf
<1> QED
  BY <1>2, <1>3, <1>4

LEMMA NoCells == CellsOf(<<>>) = <<>>
  BY DEF CellsOf

(* t is s with c in the entry of index n. *)
WrittenAt(s, t, n, c) ==
  /\ s \in Seq(Entries) /\ t \in Seq(Entries) /\ Len(t) = Len(s)
  /\ n \in 0 .. Len(s) - 1 /\ c # NULL /\ t[n + 1] = c
  /\ \A k \in 1 .. Len(s) : k # n + 1 => t[k] = s[k]

LEMMA WriteCells ==
  ASSUME NEW s, NEW t, NEW n, NEW c, WrittenAt(s, t, n, c)
  PROVE  /\ DOMAIN CellsOf(t) = DOMAIN CellsOf(s) \cup {n}
         /\ \A j \in DOMAIN CellsOf(t) :
              /\ j = n => CellsOf(t)[j] = c
              /\ j # n => CellsOf(t)[j] = CellsOf(s)[j]
<1>0. /\ s \in Seq(Entries) /\ t \in Seq(Entries) /\ Len(t) = Len(s)
      /\ n \in 0 .. Len(s) - 1 /\ c # NULL /\ t[n + 1] = c
      /\ \A k \in 1 .. Len(s) : k # n + 1 => t[k] = s[k]
  BY DEF WrittenAt
<1>1. ASSUME NEW i
      PROVE  i \in DOMAIN CellsOf(t) <=> i \in DOMAIN CellsOf(s) \cup {n}
  <2>1. i \in DOMAIN CellsOf(s) <=> i \in 0 .. Len(s) - 1 /\ s[i + 1] # NULL
    BY <1>0, CellsDomain
  <2>2. i \in DOMAIN CellsOf(t) <=> i \in 0 .. Len(t) - 1 /\ t[i + 1] # NULL
    BY <1>0, CellsDomain
  <2>3. Len(s) \in Nat
    BY <1>0
  <2>4. i \in 0 .. Len(t) - 1 /\ t[i + 1] # NULL
          <=> (i \in 0 .. Len(s) - 1 /\ s[i + 1] # NULL) \/ i = n
    BY <1>0, <2>3
  <2> QED
    BY <2>1, <2>2, <2>4
<1>2. DOMAIN CellsOf(t) = DOMAIN CellsOf(s) \cup {n}
  BY <1>1
<1>3. \A i \in DOMAIN CellsOf(t) :
        CellsOf(t)[i] = IF i = n THEN c ELSE CellsOf(s)[i]
  BY <1>0, <1>2, CellsDomain
<1> QED
  BY <1>2, <1>3

LEMMA InitImplements == Init => Abstract!Init
  BY DEF Init, Abstract!Init, Reading, NotCounted, Abstract!Unknown,
         Abstract!Nowhere, absCells

LEMMA BeginImplements ==
  ASSUME TypeOK, Located, NEW p \in Places, NEW t \in DeclaredTypes, Begin(p, t)
  PROVE  Abstract!Begin(fixed') /\ fixed' \in (0 .. IntMax) \cup {Abstract!Unknown}
<1>1. /\ phase = "text" /\ phase' = "item" /\ slots' = slots /\ slots = <<>>
      /\ next' = next /\ next = 0
      /\ UNCHANGED <<how, lists>>
  BY DEF Begin, At, Located, elementVars, doneVars
<1>2. ~Reading /\ Reading'
  BY <1>1 DEF Reading
<1>3. absCells = <<>> /\ absCells' = <<>>
  <2>1. absCells = <<>>
    BY <1>2, AbsCellsIs
  <2>2. Written' = {}
    BY <1>1 DEF Written
  <2>3. absCells' = <<>>
    BY <1>1, <2>2 DEF absCells
  <2> QED
    BY <2>1, <2>3
<1>4. fixed' \in {NotCounted} \cup 0 .. IntMax
  BY BeginTypes DEF TypeOK
<1> QED
  BY <1>1, <1>2, <1>3, <1>4
  DEF Abstract!Begin, Abstract!Unknown, NotCounted

LEMMA LocateImplements ==
  ASSUME TypeOK, NEW i \in 0 .. IntMax, NEW m, NEW h \in {"position", "designator"},
         h = "position" => i = next, Locate(i, m, h)
  PROVE  Abstract!Locate(i, h)
<1>1. /\ phase = "item" /\ phase' \in {"grow", "value"}
      /\ index' = i /\ how' = h
      /\ UNCHANGED <<fixed, slots, next, lists>>
      /\ fixed # NotCounted => i < fixed
  BY DEF Locate, At, doneVars, InRange
<1>2. Reading /\ Reading' /\ Written' = Written
  BY <1>1 DEF Reading, Written
<1>3. absCells' = absCells
  BY <1>1, <1>2 DEF absCells
<1> QED
  BY <1>1, <1>2, <1>3
  DEF Abstract!Locate, Abstract!Unknown, Abstract!Nowhere, NotCounted

LEMMA GrowStutters == Grow => UNCHANGED Abstract!vars
<1> SUFFICES ASSUME Grow PROVE UNCHANGED Abstract!vars
  OBVIOUS
<1>1. UNCHANGED <<fixed, slots, next, index, how, lists, phase>>
  BY DEF Grow, listVars, doneVars
<1> QED
  BY <1>1 DEF Abstract!vars, Reading, absCells, Written

LEMMA QuietStutters ==
  ASSUME UNCHANGED <<listVars, elementVars, lists, phase>>
  PROVE  UNCHANGED Abstract!vars
<1>1. UNCHANGED <<fixed, slots, next, index, how, lists, phase>>
  BY DEF listVars, elementVars
<1> QED
  BY <1>1 DEF Abstract!vars, Reading, absCells, Written

LEMMA AllocStutters ==
  ASSUME TypeOK, Located, Alloc
  PROVE  UNCHANGED Abstract!vars
<1>1. /\ phase = "grow" /\ phase' = "value"
      /\ UNCHANGED <<fixed, next, index, how, lists>>
  BY DEF Alloc, At, elementVars, doneVars
<1>2. Reading /\ Reading'
  BY <1>1 DEF Reading
<1>3. CellsOf(slots') = CellsOf(slots)
  <2>1. /\ slots \in Seq(Entries) /\ slots' \in Seq(Entries)
        /\ Len(slots') = newCap
        /\ \A k \in 1 .. newCap :
             slots'[k] = IF k <= Len(slots) THEN slots[k] ELSE NULL
    BY AllocSlots DEF TypeOK, Entries
  <2>2. newCap > index /\ index >= Len(slots)
    BY <1>1 DEF Alloc, Located
  <2>3. Len(slots) <= Len(slots')
    BY <2>1, <2>2, SizesFacts DEF TypeOK
  <2> QED
    BY <2>1, <2>3, SameCells
<1>4. absCells' = CellsOf(slots')
  BY <1>2 DEF absCells, CellsOf, Written
<1>5. absCells' = absCells
  BY <1>2, <1>3, <1>4, AbsCellsIs
<1> QED
  BY <1>1, <1>2, <1>5 DEF Abstract!vars

LEMMA ValueImplements ==
  ASSUME TypeOK, SlotsFit, Located, NEW v \in Values, Value(v)
  PROVE  \E c \in Cells : Abstract!Write(c)
<1> DEFINE c == [value |-> v, castTo |-> castTo]
<1>1. c \in Cells /\ c # NULL
  BY SizesFacts DEF TypeOK, Cells
<1>2. /\ phase = "value" /\ phase' = "item" /\ next' = index + 1
      /\ slots' = [slots EXCEPT ![index + 1] = c]
      /\ UNCHANGED <<fixed, how, lists>>
  BY DEF Value, At, elementVars, doneVars
<1>3. Reading /\ Reading' /\ index \in Nat
  BY <1>2, SizesFacts DEF Reading, TypeOK
<1> HIDE DEF c
<1>4. /\ slots \in Seq(Entries) /\ slots' \in Seq(Entries)
      /\ Len(slots') = Len(slots)
      /\ index + 1 \in 1 .. Len(slots)
      /\ \A k \in 1 .. Len(slots) : k # index + 1 => slots'[k] = slots[k]
  BY ValueSlots DEF TypeOK, Entries
<1>5. slots'[index + 1] = c /\ index \in 0 .. Len(slots) - 1
  BY <1>2, <1>3, <1>4
<1>6. CellsOf(slots') = [j \in DOMAIN CellsOf(slots) \cup {index} |->
                           IF j = index THEN c ELSE CellsOf(slots)[j]]
  <2>0. PICK s, t, n, x : s = slots /\ t = slots' /\ n = index /\ x = c
    OBVIOUS
  <2>1. WrittenAt(s, t, n, x)
    BY <1>1, <1>4, <1>5, <2>0 DEF WrittenAt
  <2>2. /\ DOMAIN CellsOf(t) = DOMAIN CellsOf(s) \cup {n}
        /\ \A j \in DOMAIN CellsOf(t) :
             /\ j = n => CellsOf(t)[j] = x
             /\ j # n => CellsOf(t)[j] = CellsOf(s)[j]
    BY ONLY <2>1, WriteCells
  <2>3. CellsOf(t) = [j \in DOMAIN CellsOf(t) |-> CellsOf(t)[j]]
    BY DEF CellsOf
  <2>4. CellsOf(t) = [j \in DOMAIN CellsOf(s) \cup {n} |->
                        IF j = n THEN x ELSE CellsOf(s)[j]]
    BY <2>2, <2>3
  <2> QED
    BY <2>0, <2>4
<1>7. absCells' = CellsOf(slots') /\ absCells = CellsOf(slots)
  BY <1>3, AbsCellsIs DEF absCells, CellsOf, Written
<1>8. Abstract!Write(c)
  BY <1>2, <1>3, <1>6, <1>7 DEF Abstract!Write, Abstract!Nowhere
<1> QED
  BY <1>1, <1>8

(* The list that closes has the length that the promise asks for. *)
LEMMA CloseLength ==
  ASSUME TypeOK, SlotsFit, phase = "item"
  PROVE  Abstract!HasLength(FinalCount)
<1>1. Reading /\ absCells = CellsOf(slots)
  BY AbsCellsIs DEF Reading
<1>2. /\ slots \in Seq(Entries) /\ count \in Nat /\ Len(slots) \in Nat
      /\ count <= Len(slots)
      /\ \A k \in 1 .. Len(slots) : slots[k] # NULL => k <= count
      /\ count > 0 => slots[count] # NULL
      /\ fixed # NotCounted => count <= fixed /\ fixed \in Nat
      /\ fixed = NotCounted => FinalCount = count
  BY <1>1, SizesFacts DEF TypeOK, SlotsFit, Entries, FinalCount, NotCounted
<1>3. CASE fixed # NotCounted
  <2>1. FinalCount = fixed
    BY <1>2, <1>3 DEF FinalCount
  <2> QED
    BY <1>1, <1>3, <2>1 DEF Abstract!HasLength, Abstract!Unknown, NotCounted
<1>4. CASE fixed = NotCounted
  <2>1. ASSUME NEW i \in DOMAIN CellsOf(slots) PROVE i \in 0 .. count - 1
    <3>1. i \in 0 .. Len(slots) - 1 /\ slots[i + 1] # NULL
      BY <1>2, CellsDomain
    <3>2. i + 1 <= count
      BY <1>2, <3>1
    <3> QED
      BY <1>2, <3>1, <3>2
  <2>2. ASSUME count > 0 PROVE count - 1 \in DOMAIN CellsOf(slots)
    <3>1. count - 1 \in 0 .. Len(slots) - 1 /\ slots[(count - 1) + 1] # NULL
      BY <1>2, <2>2
    <3> QED
      BY <1>2, <3>1, CellsDomain
  <2> QED
    BY <1>1, <1>2, <1>4, <2>1, <2>2
    DEF Abstract!HasLength, Abstract!Unknown, NotCounted
<1> QED
  BY <1>3, <1>4

LEMMA CloseObject ==
  ASSUME TypeOK, Reading
  PROVE  AsObject(Body) = Abstract!Object(FinalCount)
<1>1. absCells = CellsOf(slots) /\ slots \in Seq(Entries)
  BY AbsCellsIs DEF TypeOK, Entries
<1>2. Len(Body) = FinalCount /\ FinalCount \in Nat
  BY BodyType, SizesFacts
<1>3. ASSUME NEW i \in 0 .. FinalCount - 1
      PROVE  Body[i + 1] =
               IF i \in DOMAIN absCells THEN absCells[i] ELSE ZeroCell
  <2>1. i + 1 \in 1 .. FinalCount
    BY <1>2, <1>3
  <2>2. Body[i + 1] = IF i + 1 <= Len(slots) /\ slots[i + 1] # NULL
                      THEN slots[i + 1] ELSE ZeroCell
    BY <2>1 DEF Body
  <2>3. i \in DOMAIN absCells <=> i \in 0 .. Len(slots) - 1 /\ slots[i + 1] # NULL
    BY <1>1, CellsDomain
  <2>4. i \in DOMAIN absCells => absCells[i] = slots[i + 1]
    BY <1>1, CellsDomain
  <2>5. i \in 0 .. Len(slots) - 1 <=> i + 1 <= Len(slots)
    BY <1>1, <1>2, <1>3
  <2> QED
    BY <2>2, <2>3, <2>4, <2>5
<1>4. AsObject(Body) = [i \in 0 .. FinalCount - 1 |-> Body[i + 1]]
  BY <1>2 DEF AsObject
<1> QED
  BY <1>3, <1>4 DEF Abstract!Object

LEMMA ObjectsAppended ==
  ASSUME NEW ls \in Seq(Lists), NEW d \in Lists
  PROVE  [k \in DOMAIN Append(ls, d) |-> AsObject(Append(ls, d)[k].body)]
           = Append([k \in DOMAIN ls |-> AsObject(ls[k].body)], AsObject(d.body))
<1> DEFINE F(e) == AsObject(e.body)
           S == {F(e) : e \in Lists}
           fs == [k \in DOMAIN ls |-> F(ls[k])]
<1> HIDE DEF F
<1>1. /\ Len(fs) = Len(ls) /\ Len(ls) \in Nat
      /\ fs \in Seq(S) /\ F(d) \in S
  <2>1. F(d) \in S /\ \A k \in DOMAIN ls : F(ls[k]) \in S
    OBVIOUS
  <2> HIDE DEF S
  <2> QED
    BY <2>1
<1> HIDE DEF S
<1>2. DOMAIN Append(ls, d) = 1 .. Len(ls) + 1
  OBVIOUS
<1>3. Append(fs, F(d)) = [k \in 1 .. Len(ls) + 1 |-> Append(fs, F(d))[k]]
  <2> DEFINE o == F(d)
             gs == Append(fs, o)
  <2> HIDE DEF fs, o
  <2>1. gs \in Seq(S) /\ Len(gs) = Len(ls) + 1
    BY <1>1 DEF o
  <2> HIDE DEF gs
  <2>2. gs = [k \in 1 .. Len(ls) + 1 |-> gs[k]]
    BY <2>1
  <2> QED
    BY <2>2 DEF gs, o
<1>4. ASSUME NEW k \in 1 .. Len(ls) + 1
      PROVE  F(Append(ls, d)[k]) = Append(fs, F(d))[k]
  <2>1. CASE k \in 1 .. Len(ls)
    BY <1>1, <2>1
  <2>2. CASE k = Len(ls) + 1
    BY <1>1, <2>2
  <2> QED
    BY <1>1, <2>1, <2>2
<1> QED
  BY <1>2, <1>3, <1>4 DEF F

LEMMA CloseImplements ==
  ASSUME TypeOK, SlotsFit, Close
  PROVE  \E n \in 0 .. IntMax : Abstract!End(n)
<1>1. /\ phase = "item" /\ phase' = "text" /\ how' = "position"
      /\ slots' = <<>> /\ lists' = Append(lists, NewList)
  BY DEF Close, At, Reset, NewList, NewType
<1>2. Reading /\ ~Reading'
  BY <1>1 DEF Reading
<1>3. absCells' = <<>>
  <2>1. Written' = {}
    BY <1>1 DEF Written
  <2> QED
    BY <1>2, <2>1 DEF absCells
<1>4. Abstract!HasLength(FinalCount)
  BY <1>1, CloseLength
<1>5. lists \in Seq(Lists) /\ NewList \in Lists
  BY NewListType DEF TypeOK, Lists
<1>6. AsObject(NewList.body) = Abstract!Object(FinalCount)
  BY <1>2, CloseObject DEF NewList
<1>7. [k \in DOMAIN lists' |-> AsObject(lists'[k].body)]
        = Append([k \in DOMAIN lists |-> AsObject(lists[k].body)],
                 Abstract!Object(FinalCount))
  BY <1>1, <1>5, <1>6, ObjectsAppended
<1>8. PICK n \in 0 .. IntMax : n = FinalCount
  BY BodyType
<1>9. /\ Reading /\ Reading' = FALSE
      /\ (IF phase \in {"grow", "value"} THEN index ELSE -1) = Abstract!Nowhere
      /\ (IF Reading THEN fixed ELSE NotCounted)' = Abstract!Unknown
      /\ (IF Reading THEN next ELSE 0)' = 0
      /\ UNCHANGED (IF phase \in {"grow", "value"} THEN index ELSE -1)
  BY <1>1, <1>2 DEF Abstract!Unknown, Abstract!Nowhere, NotCounted
<1>10. [k \in DOMAIN lists |->
          [i \in 0 .. Len(lists[k].body) - 1 |-> lists[k].body[i + 1]]]'
         = Append([k \in DOMAIN lists |->
                     [i \in 0 .. Len(lists[k].body) - 1 |-> lists[k].body[i + 1]]],
                  Abstract!Object(n))
  BY <1>7, <1>8, Zenon DEF AsObject
<1>11. how' = "position" /\ absCells' = <<>> /\ Abstract!HasLength(n)
  BY <1>1, <1>3, <1>4, <1>8
<1>12. Abstract!End(n)
  BY <1>9, <1>10, <1>11, Zenon DEF Abstract!End
<1> QED
  BY <1>8, <1>12

LEMMA NextImplements ==
  ASSUME TypeOK, SlotsFit, Located, [Next]_vars
  PROVE  [Abstract!Next]_Abstract!vars
<1> DEFINE Q == Abstract!Next \/ UNCHANGED Abstract!vars
<1>1. ASSUME NEW p \in Places, NEW t \in DeclaredTypes, Begin(p, t) PROVE Q
  BY <1>1, BeginImplements DEF Abstract!Next
<1>2. ASSUME NEW i \in 0 .. IntMax, NEW m, NEW h \in {"position", "designator"},
             h = "position" => i = next, Locate(i, m, h)
      PROVE  Q
  BY <1>2, LocateImplements DEF Abstract!Next
<1>3. ASSUME Position PROVE Q
  <2>1. next \in 0 .. IntMax /\ Locate(next, FirstMember, "position")
    BY <1>3 DEF Position, TypeOK
  <2> HIDE DEF Q
  <2> QED
    BY <1>2, <2>1
<1>4. ASSUME NEW i \in -1 .. MaxIndex, IndexDesignator(i) PROVE Q
  <2>1. i \in 0 .. IntMax
    BY <1>4, SizesFacts DEF IndexDesignator, Locate, InRange
  <2>2. Locate(i, FirstMember, "designator")
    BY <1>4 DEF IndexDesignator
  <2> HIDE DEF Q
  <2> QED
    BY <1>2, <2>1, <2>2
<1>5. ASSUME NEW m \in 0 .. MaxPlaces - 1, MemberDesignator(m) PROVE Q
  <2> DEFINE i == IF ty.kind = "union" THEN 0 ELSE m
             c == IF ty.kind = "union" THEN m ELSE Whole
  <2>1. i \in 0 .. IntMax
    BY SizesFacts
  <2>2. Locate(i, c, "designator")
    BY <1>5 DEF MemberDesignator
  <2> HIDE DEF i, c, Q
  <2> QED
    BY <1>2, <2>1, <2>2
<1>6. ASSUME Exit PROVE Q
  BY <1>6, QuietStutters DEF Exit, doneVars
<1>7. ASSUME Grow PROVE Q
  BY <1>7, GrowStutters
<1>8. ASSUME Alloc PROVE Q
  BY <1>8, AllocStutters
<1>9. ASSUME NEW v \in Values, Value(v) PROVE Q
  BY <1>9, ValueImplements DEF Abstract!Next
<1>10. ASSUME Close PROVE Q
  BY <1>10, CloseImplements DEF Abstract!Next
<1>11. ASSUME Generate PROVE Q
  BY <1>11, QuietStutters DEF Generate
<1>12. ASSUME UNCHANGED vars PROVE Q
  BY <1>12, QuietStutters DEF vars, listVars, elementVars
<1> HIDE DEF Q
<1>13. Q
  BY <1>1, <1>3, <1>4, <1>5, <1>6, <1>7, <1>8, <1>9, <1>10, <1>11, <1>12
  DEF Next, ListSteps, ExitOnElement, ExitOnText, AllocFails, Stopped
<1> QED
  BY <1>13 DEF Q

-----------------------------------------------------------------------------
(* Theorems *)

LEMMA InitHolds == Init => IInv
<1> SUFFICES ASSUME Init PROVE IInv
  OBVIOUS
<1>1. TypeOK
  BY InitTypes
<1>2. SlotsFit /\ Located /\ Sized
  BY DEF Init, SlotsFit, Located, Sized, Reading
<1>3. ListsFill /\ PlacesAreWritten
  BY DEF Init, ListsFill, PlacesAreWritten
<1> QED
  BY <1>1, <1>2, <1>3 DEF IInv

LEMMA NextHolds == IInv /\ [Next]_vars => IInv'
<1> SUFFICES ASSUME IInv, [Next]_vars PROVE IInv'
  OBVIOUS
<1>1. TypeOK /\ SlotsFit /\ Located /\ Sized /\ ListsFill /\ PlacesAreWritten
  BY DEF IInv
<1>2. TypeOK'
  BY <1>1, NextTypes
<1>3. SlotsFit' /\ Located'
  BY <1>1, NextSlots
<1>4. Sized'
  BY <1>1, NextSized
<1>5. ListsFill' /\ PlacesAreWritten'
  BY <1>1, NextFills, NextWritten
<1> QED
  BY <1>2, <1>3, <1>4, <1>5 DEF IInv

LEMMA InvariantHolds == Spec => []IInv
<1>1. Init => IInv
  BY InitHolds
<1>2. IInv /\ [Next]_vars => IInv'
  BY NextHolds
<1> QED
  BY <1>1, <1>2, PTL DEF Spec

(* The variables of the initializer parser keep their types; no index, count
   or capacity passes INT_MAX, however an index designator is written. *)
THEOREM TypesHold == Spec => []TypeOK
<1>1. IInv => TypeOK
  BY DEF IInv
<1> QED
  BY <1>1, InvariantHolds, PTL

(* slots[] is never read or written beyond slot_cap, and a list never grows
   past the object whose size is known. *)
THEOREM SlotsAlwaysFit == Spec => []SlotsFit
<1>1. IInv => SlotsFit
  BY DEF IInv
<1> QED
  BY <1>1, InvariantHolds, PTL

(* codegen writes every place of an initialized object and nothing behind it,
   also for a typedef'd array that gets its size from one of the lists. *)
THEOREM PlacesAlwaysWritten == Spec => []PlacesAreWritten
<1>1. IInv => PlacesAreWritten
  BY DEF IInv
<1> QED
  BY <1>1, InvariantHolds, PTL

(* Whatever order designators and positions come in and however the table of
   slots grows, the list that the parser builds is the one that the elements
   stand for, and its length the one that the greatest index asks for. *)
THEOREM ImplementsPromise == Spec => ImplementsElements
<1>1. Init => Abstract!Init
  BY InitImplements
<1>2. IInv /\ [Next]_vars => [Abstract!Next]_Abstract!vars
  BY NextImplements DEF IInv
<1> QED
  BY <1>1, <1>2, InvariantHolds, PTL DEF Spec, ImplementsElements, Abstract!Spec
=============================================================================
