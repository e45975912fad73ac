SPECIFICATION Spec
INVARIANTS
  SentMeansReached
