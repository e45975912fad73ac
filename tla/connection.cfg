SPECIFICATION FairSpec
INVARIANTS
  TypeOK
  Released
  NotMasked
  SuccessMeansReached
  TwoMeansRefused
PROPERTIES
  CommandEnds
