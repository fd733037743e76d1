\* One engine caller reading the bus.
CONSTANTS
  p1 = p1
  p2 = p2
  qA = qA
  DnsQueryRule = DnsQueryRule
  AnySend = AnySend
  TcpSend = TcpSend
  w1 = w1
  w2 = w2
  NoThreat = NoThreat
  Pids = {p1, p2}
  Questions = {qA}
  Answers = {}
  Records <- MCRecords
  MaxRecords = 3
  Rules <- MCRules
  Names <- MCNames
  Name <- MCName
  Rulesets <- MCRulesets
  Condition <- MCCondition
  Workers = {w1}

SPECIFICATION Spec
PROPERTY ReadRecordsHandled
\* The sensor task returns after shutdown or a failed attachment, and the
\* engine idles once every event on the bus is handled.
CHECK_DEADLOCK FALSE
