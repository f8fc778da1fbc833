SPECIFICATION Spec
CONSTANTS
  Syntaxes <- Dialects
  Befores <- MCBefores
  Afters <- MCAfters
  Fragments <- MCFragments
INVARIANT Lockstep
INVARIANT ReadsAsWritten
\* The readers stop at the end of the statement.
CHECK_DEADLOCK FALSE
