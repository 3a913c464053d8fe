\* Chains of up to three macros with a limit of one, so that a chain can just
\* fit, or be too long, or come back to its first macro.
CONSTANTS
  x = x
  y = y
  z = z
  Letters = {x, y, z}
  Inputs <- MCInputs
  MaxDepth = 1
SPECIFICATION Spec
INVARIANTS
  TypeOK
  ArgumentsAreDivided
  NothingIsLeft
\* A line that was read is at its end.
CHECK_DEADLOCK FALSE
