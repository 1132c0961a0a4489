SPECIFICATION Spec
CONSTANTS
  c1 = c1
  c2 = c2
  c3 = c3
  Callers = {c1, c2, c3}
SYMMETRY Symmetry
INVARIANT TypeOK
INVARIANT DuplicateMeansCommitted
INVARIANT CommittedIsFinal
INVARIANT OneClaimantUnlessRacy
PROPERTY ImplementsRegister
