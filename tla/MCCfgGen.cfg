\* Up to five statements of every kind, nested up to five activations deep,
\* with two labels.  The conditions are those of || or &&, which have blocks of
\* their own and so move the insertion point.
CONSTANTS
  out = out
  again = again
  Labels = {out, again}
  Exprs = {"plain", "logical"}
  CodeAfterReturn = FALSE
  MaxStatements = 5
  MaxFrames = 5
SPECIFICATION Spec
INVARIANTS
  TypeOK
  InnermostTargets
  FlagMeansClosed
  LabelsApart
  WellFormed
