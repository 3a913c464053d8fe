CONSTANTS
  out = out
  again = again
  Labels = {out}
  Exprs = {"plain"}
  CodeAfterReturn = TRUE
  MaxStatements = 4
  MaxFrames = 4
SPECIFICATION Spec
INVARIANTS
  WellFormed
