------------------------------ MODULE Elements ------------------------------
(***************************************************************************)
(* What an initializer list promises: an element without a designator      *)
(* follows the one before it, one with a designator goes where it says, a  *)
(* place keeps the last value written to it, and the places that no        *)
(* element names are zero.  A list of an array of unknown size makes the   *)
(* array as long as its greatest index asks for.                           *)
(***************************************************************************)
EXTENDS Integers, Sequences

CONSTANTS
  Values,  \* what a place can hold
  Zero,    \* the one of a place that no element names
  Bound    \* no object has more places

Unknown == -1

VARIABLES
  reading,  \* a list is being read
  size,     \* the places of what it initializes, or Unknown
  cells,    \* the places written so far, and their values
  cursor,   \* where an element without a designator goes
  at, how,  \* where the element being read goes, and how it said so
  objects   \* what the lists read so far stand for

vars == <<reading, size, cells, cursor, at, how, objects>>

Nowhere == -1

Init ==
  /\ reading = FALSE
  /\ size = Unknown
  /\ cells = <<>>
  /\ cursor = 0
  /\ at = Nowhere
  /\ how = "position"
  /\ objects = <<>>

Begin(n) ==
  /\ ~reading
  /\ reading' = TRUE
  /\ size' = n
  /\ UNCHANGED <<cells, cursor, at, how, objects>>

Locate(i, h) ==
  /\ reading
  /\ at = Nowhere
  /\ h = "position" => i = cursor
  /\ size # Unknown => i < size
  /\ at' = i
  /\ how' = h
  /\ UNCHANGED <<reading, size, cells, cursor, objects>>

Write(v) ==
  /\ at # Nowhere
  /\ cells' = [j \in DOMAIN cells \cup {at} |-> IF j = at THEN v ELSE cells[j]]
  /\ cursor' = at + 1
  /\ at' = Nowhere
  /\ UNCHANGED <<reading, size, how, objects>>

(* n places: all of a known size, or up to the greatest index written. *)
HasLength(n) ==
  IF size # Unknown THEN n = size
  ELSE /\ DOMAIN cells \subseteq 0 .. n - 1
       /\ n > 0 => n - 1 \in DOMAIN cells

Object(n) ==
  [i \in 0 .. n - 1 |-> IF i \in DOMAIN cells THEN cells[i] ELSE Zero]

End(n) ==
  /\ reading
  /\ at = Nowhere
  /\ HasLength(n)
  /\ reading' = FALSE
  /\ size' = Unknown
  /\ cells' = <<>>
  /\ cursor' = 0
  /\ how' = "position"
  /\ objects' = Append(objects, Object(n))
  /\ UNCHANGED at

Next ==
  \/ \E n \in (0 .. Bound) \cup {Unknown} : Begin(n)
  \/ \E i \in 0 .. Bound, h \in {"position", "designator"} : Locate(i, h)
  \/ \E v \in Values : Write(v)
  \/ \E n \in 0 .. Bound : End(n)

Spec == Init /\ [][Next]_vars
=============================================================================
