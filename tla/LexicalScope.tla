---------------------------- MODULE LexicalScope ----------------------------
(***************************************************************************)
(* What the parser's scopes promise: while a function is parsed there is   *)
(* one frame per open scope, a frame maps each name to at most one slot,   *)
(* every declaration of the function gets a slot of its own, and leaving a *)
(* scope forgets exactly the names that it declared.                       *)
(***************************************************************************)
EXTENDS Naturals, Sequences

CONSTANTS
  Names,   \* identifiers
  Slots,   \* what a declaration is given
  NoSlot   \* the value of a name that a frame does not declare

VARIABLES
  frames,  \* the open scopes, outermost first; <<>> outside a function
  used     \* the slots handed out in the function

vars == <<frames, used>>

EmptyFrame == [n \in Names |-> NoSlot]
Frames == [Names -> Slots \cup {NoSlot}]

Declaring(n) == {i \in 1 .. Len(frames) : frames[i][n] # NoSlot}

(* The slots that n denotes: one if some open scope declares it. *)
Lookup(n) ==
  {frames[i][n] : i \in {k \in Declaring(n) :
                           \A j \in Declaring(n) : j <= k}}

Init == frames = <<>> /\ used = {}

OpenFunction == frames = <<>> /\ frames' = <<EmptyFrame>> /\ used' = {}

CloseFunction == Len(frames) = 1 /\ frames' = <<>> /\ used' = {}

OpenScope ==
  /\ frames # <<>>
  /\ frames' = Append(frames, EmptyFrame)
  /\ UNCHANGED used

CloseScope ==
  /\ Len(frames) > 1
  /\ frames' = SubSeq(frames, 1, Len(frames) - 1)
  /\ UNCHANGED used

Declare(n, s) ==
  /\ frames # <<>>
  /\ s \notin used
  /\ frames[Len(frames)][n] = NoSlot
  /\ frames' = [frames EXCEPT ![Len(frames)][n] = s]
  /\ used' = used \cup {s}

(* A parameter without a name takes a slot that no name leads to. *)
DeclareUnnamed(s) ==
  /\ Len(frames) = 1
  /\ s \notin used
  /\ used' = used \cup {s}
  /\ UNCHANGED frames

Next ==
  \/ OpenFunction
  \/ CloseFunction
  \/ OpenScope
  \/ CloseScope
  \/ \E n \in Names, s \in Slots : Declare(n, s)
  \/ \E s \in Slots : DeclareUnnamed(s)

Spec == Init /\ [][Next]_vars
=============================================================================
