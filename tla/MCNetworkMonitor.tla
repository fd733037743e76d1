-------------------------- MODULE MCNetworkMonitor --------------------------
(* Records covering every branch of collect_dns_if_any and a Close seen    *)
(* from another process than the connection's owner (the owner was killed, *)
(* as in test_suite::run_close_test).                                      *)
EXTENDS NetworkMonitor

CONSTANTS p1, p2, qA, qB, aA

Empty == [kind |-> "empty", questions |-> <<>>, answers |-> <<>>]
Opaque == [kind |-> "opaque", questions |-> <<>>, answers |-> <<>>]
Dns(q, a) == [kind |-> "dns", questions |-> q, answers |-> a]

MCRecords ==
  { [pid |-> p2, op |-> "Close", originalPid |-> p1, data |-> Empty,
     dataLen |-> 0, proto |-> "TCP"],
    [pid |-> p1, op |-> "Bind", originalPid |-> p1, data |-> Empty,
     dataLen |-> 0, proto |-> "TCP"],
    \* a query: one question, no answer
    [pid |-> p1, op |-> "Send", originalPid |-> p1,
     data |-> Dns(<<qA>>, <<>>), dataLen |-> 30, proto |-> "UDP"],
    \* a response carrying its two questions
    [pid |-> p1, op |-> "Receive", originalPid |-> p1,
     data |-> Dns(<<qA, qB>>, <<aA>>), dataLen |-> 60, proto |-> "UDP"],
    \* a response with an empty question list
    [pid |-> p2, op |-> "Send", originalPid |-> p2,
     data |-> Dns(<<>>, <<aA>>), dataLen |-> 40, proto |-> "UDP"],
    \* a DNS header with neither questions nor answers
    [pid |-> p1, op |-> "Receive", originalPid |-> p1,
     data |-> Dns(<<>>, <<>>), dataLen |-> 12, proto |-> "UDP"],
    \* TCP data that is not DNS, longer than the capture buffer
    [pid |-> p2, op |-> "Send", originalPid |-> p2, data |-> Opaque,
     dataLen |-> 5000, proto |-> "TCP"],
    [pid |-> p1, op |-> "Receive", originalPid |-> p1, data |-> Empty,
     dataLen |-> 10, proto |-> "TCP"] }
=============================================================================
