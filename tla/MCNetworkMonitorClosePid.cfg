CONSTANTS
  p1 = p1
  p2 = p2
  qA = qA
  qB = qB
  aA = aA
  Pids = {p1, p2}
  Questions = {qA, qB}
  Answers = {aA}
  Records <- MCRecords
  MaxRecords = 2

SPECIFICATION Spec
INVARIANT CloseCarriesOriginalPid
\* The task returns after shutdown or a failed attachment, and a running
\* sensor idles once the probes report nothing more.
CHECK_DEADLOCK FALSE
