CONSTANTS
  Exec = Exec
  Send = Send
  Close = Close
  ExecNc = ExecNc
  ExecLs = ExecLs
  SendData = SendData
  CloseConn = CloseConn
  OpenNetcat = OpenNetcat
  AnyExec = AnyExec
  SendRule = SendRule
  w1 = w1
  w2 = w2
  NoThreat = NoThreat
  Keys <- MCKeys
  Payloads <- MCPayloads
  Discriminant <- MCDiscriminant
  Rules <- MCRules
  Names <- MCNames
  Name <- MCName
  Rulesets <- MCRulesets
  Condition <- MCCondition
  Workers <- MCWorkers
  MaxObserved = 3

SPECIFICATION Spec
INVARIANT DistinctThreatNames
CHECK_DEADLOCK FALSE
