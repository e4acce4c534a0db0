CONSTANTS
  q1 = q1
  q2 = q2
  r1 = r1
  r2 = r2
  o1 = o1
  Free = Free
  Requests <- MCRequests
  Readers <- MCOneReader
  Others <- MCOthers

SPECIFICATION FairSpec

INVARIANTS
  TypeOK
  HolderWrites
  SourcesAgree

PROPERTIES
  Promised
  RequestsEnd
