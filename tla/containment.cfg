\* Two requests at a time, each of which may fail: a hold by lot, a transfer to
\* quarantine, a release there, a scrap and a release that waits for itself.
SPECIFICATION FairSpec
CONSTANTS
  p1 = p1
  p2 = p2
  h1 = h1
  t1 = t1
  d1 = d1
  d2 = d2
  d3 = d3
  n1 = n1
  Positions = {p1, p2}
  Attribute <- MCAttribute
  InitPositions <- MCInitPositions
  Holds = {h1}
  RuleOf <- MCRuleOf
  Transfers = {t1}
  TransferOf <- MCTransferOf
  Dispositions = {d1, d2, d3}
  DispositionOf <- MCDispositionOf
  Ncrs = {n1}
  Workers = {w1, w2}
  None = None
INVARIANTS TypeOK RecordsSavedLast
  
