\* Two runs of run-test at once, two polls each; two boots and one fault.
SPECIFICATION FairSpec
CONSTANTS
  c1 = c1
  c2 = c2
  Clients = {c1, c2}
  Assessments <- MCAssessments
  Repeats = 2
  MaxBoots = 2
  MaxFaults = 1
INVARIANTS
  TypeOK
  PassMeansClassified
  WireDecodes
PROPERTIES
  ImplementsRequestReply
  RunTestEnds
  ServerFailureEndsContainer
