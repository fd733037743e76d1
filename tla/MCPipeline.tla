----------------------------- MODULE MCPipeline -----------------------------
(* The probes report up to three records, each one of: a DNS query sent   *)
(* over UDP, TCP data that is not DNS, a Close.  The engine has a rule on  *)
(* DNS queries and two on Send (one on any send, one on TCP sends).        *)
EXTENDS Pipeline, TLC

CONSTANTS p1, p2, qA, DnsQueryRule, AnySend, TcpSend, w1, w2

Empty == [kind |-> "empty", questions |-> <<>>, answers |-> <<>>]

MCRecords ==
  { [pid |-> p1, op |-> "Send", originalPid |-> p1,
     data |-> [kind |-> "dns", questions |-> <<qA>>, answers |-> <<>>],
     dataLen |-> 30, proto |-> "UDP"],
    [pid |-> p2, op |-> "Send", originalPid |-> p2,
     data |-> [kind |-> "opaque", questions |-> <<>>, answers |-> <<>>],
     dataLen |-> 200, proto |-> "TCP"],
    [pid |-> p2, op |-> "Close", originalPid |-> p1, data |-> Empty,
     dataLen |-> 0, proto |-> "TCP"] }

MCRules == {DnsQueryRule, AnySend, TcpSend}
MCNames == {"DNS lookup", "Data sent", "TCP data sent"}
MCName ==
  (DnsQueryRule :> "DNS lookup") @@ (AnySend :> "Data sent") @@ (TcpSend :> "TCP data sent")
MCRulesets == ("DnsQuery" :> <<DnsQueryRule>>) @@ ("Send" :> <<AnySend, TcpSend>>)
MCCondition ==
  (DnsQueryRule :> {p \in SensorPayloads : p.kind = "DnsQuery"})
  @@ (AnySend :> {p \in SensorPayloads : p.kind = "Send"})
  @@ (TcpSend :> {p \in SensorPayloads : p.kind = "Send" /\ p.isTcp})
=============================================================================
