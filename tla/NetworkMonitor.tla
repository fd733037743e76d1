--------------------------- MODULE NetworkMonitor ---------------------------
(***************************************************************************)
(* The network-monitor sensor (network-monitor/src/lib.rs).                *)
(*                                                                         *)
(* syscall_monitor_task wraps the module sender so that every record the   *)
(* probes deliver first goes through collect_dns_if_any (a DnsQuery or     *)
(* DnsResponse event is sent if the captured bytes are DNS) and is then    *)
(* forwarded, converted to a Payload by From<NetworkEvent> for Payload.    *)
(* program() feature-detects LSM, attaches the probes and starts reading;  *)
(* the task then waits for the shutdown signal and returns, dropping the   *)
(* program.                                                                *)
(*                                                                         *)
(* Addresses are left out (AddrConversion models them).                   *)
(***************************************************************************)
EXTENDS Naturals, Sequences

CONSTANTS
  Pids,        \* process ids
  Questions,   \* DNS questions (model values)
  Answers,     \* DNS answers (model values)
  Records,     \* candidate BpfEvent<NetworkEvent> records the probes report
  MaxRecords   \* bound on the records the probes report

Ops == {"Bind", "Connect", "Accept", "Send", "Receive", "Close"}
\* A captured buffer: empty, bytes that fail to parse as DNS ("opaque"), or
\* a DNS message with its question and answer lists.
Buffers == [kind : {"empty", "opaque", "dns"}, questions : Seq(Questions),
            answers : Seq(Answers)]

\* A record: the pid of the context the probe fired in, the operation, the
\* original pid (Close), the captured buffer and reported length
\* (Send/Receive), and the protocol.
Record == [pid : Pids, op : Ops, originalPid : Pids, data : Buffers,
           dataLen : Nat, proto : {"TCP", "UDP"}]

ASSUME Records \subseteq Record

Payload == [kind : Ops \cup {"DnsQuery", "DnsResponse"}, len : Nat,
            isTcp : BOOLEAN, questions : Seq(Questions), answers : Seq(Answers)]

Phases == {"detecting", "attaching", "waiting", "exited", "failed"}

VARIABLES
  phase,       \* where syscall_monitor_task is
  lsm,         \* lsm_supported() result: which hook group was attached
  shutdownAt,  \* the phase the task was in when shutdown was signalled
  kernel,      \* records reported by the probes, not yet read
  reported,    \* number of records the probes reported
  delivered,   \* records the reader handed to the wrapped sender, in order
  bus          \* events sent: [payload, pid, rec] (rec: index in delivered)

vars == <<phase, lsm, shutdownAt, kernel, reported, delivered, bus>>

-----------------------------------------------------------------------------
\* An event with no questions or answers.
Plain(kind, len, isTcp) ==
  [kind |-> kind, len |-> len, isTcp |-> isTcp, questions |-> <<>>, answers |-> <<>>]

(* From<NetworkEvent> for Payload: Send and Receive keep data_len and the  *)
(* protocol and drop the buffer; Close drops original_pid.                 *)
ToPayload(r) ==
  IF r.op \in {"Send", "Receive"} THEN Plain(r.op, r.dataLen, r.proto = "TCP")
                                  ELSE Plain(r.op, 0, FALSE)

\* Mutant helper: a message with questions and answers taken as a query.
CollectDnsQueryFirst(r) ==
  IF r.op \notin {"Send", "Receive"} \/ r.data.kind # "dns" THEN <<>>
  ELSE LET q == r.data.questions
           a == r.data.answers
       IN CASE q # <<>> -> <<[Plain("DnsQuery", 0, FALSE) EXCEPT !.questions = q]>>
            [] a # <<>> -> <<[Plain("DnsResponse", 0, FALSE) EXCEPT !.questions = q,
                                                                   !.answers = a]>>
            [] OTHER -> <<>>

(* collect_dns_if_any, as a sequence of zero or one payloads: only Send    *)
(* and Receive with a non-empty buffer; a parse failure is None; questions *)
(* and no answers is a query; any answer is a response; neither is None.   *)
CollectDnsIfAny(r) ==
  IF r.op \notin {"Send", "Receive"} \/ r.data.kind # "dns" THEN <<>>
  ELSE LET q == r.data.questions
           a == r.data.answers
       IN CASE q # <<>> /\ a = <<>> -> <<[Plain("DnsQuery", 0, FALSE) EXCEPT !.questions = q]>>
            [] a # <<>> -> <<[Plain("DnsResponse", 0, FALSE) EXCEPT !.questions = q,
                                                                   !.answers = a]>>
            [] OTHER -> <<>>

(* program(): lsm_supported().await picks the LSM hooks or the kprobes.    *)
DetectLsm ==
  /\ phase = "detecting"
  /\ phase' = "attaching"
  /\ lsm' \in BOOLEAN
  /\ UNCHANGED <<shutdownAt, kernel, reported, delivered, bus>>

(* builder.start().await? and program.read_events(..).await?: an error     *)
(* returns from the task as a module error.                                *)
Attach ==
  /\ phase = "attaching"
  /\ phase' \in {"waiting", "failed"}
  /\ UNCHANGED <<lsm, shutdownAt, kernel, reported, delivered, bus>>

(* A probe reports a record while the program is attached.                 *)
Report(r) ==
  /\ phase = "waiting"
  /\ reported < MaxRecords
  /\ kernel' = Append(kernel, r)
  /\ reported' = reported + 1
  /\ UNCHANGED <<phase, lsm, shutdownAt, delivered, bus>>

\* Mutant helper: the record is handed over but stays in the buffer.
DeliverNoPop ==
  LET r == Head(kernel)
      n == Len(delivered) + 1
      Send(p) == [payload |-> p, pid |-> r.pid, rec |-> n]
  IN /\ phase = "waiting"
     /\ kernel # <<>>
     /\ delivered' = Append(delivered, r)
     /\ bus' = Append(bus, Send(ToPayload(r)))
     /\ UNCHANGED <<phase, lsm, shutdownAt, kernel, reported>>

(* The reader hands the next record to the wrapped sender: the closure     *)
(* sends the DNS event, if any, with the record's pid; then the record is  *)
(* sent as its Payload.                                                    *)
Deliver ==
  LET r == Head(kernel)
      n == Len(delivered) + 1
      Send(p) == [payload |-> p, pid |-> r.pid, rec |-> n]
      dns == CollectDnsIfAny(r)
  IN /\ phase = "waiting"
     /\ kernel # <<>>
     /\ kernel' = Tail(kernel)
     /\ delivered' = Append(delivered, r)
     /\ bus' = bus \o [j \in DOMAIN dns |-> Send(dns[j])] \o <<Send(ToPayload(r))>>
     /\ UNCHANGED <<phase, lsm, shutdownAt, reported>>

(* The framework signals shutdown, at any point of the task's life.        *)
Shutdown ==
  /\ shutdownAt = "none"
  /\ phase \notin {"exited", "failed"}
  /\ shutdownAt' = phase
  /\ UNCHANGED <<phase, lsm, kernel, reported, delivered, bus>>

\* Mutant helper: the signal is seen only if it came while the task waited.
ShutdownSeenIfWaiting == shutdownAt = "waiting"

\* Mutant helper: the task returns without awaiting the signal.
ShutdownNotAwaited == TRUE

(* shutdown.recv().await returns once a signal was sent, even one sent     *)
(* before the task started waiting.                                        *)
ShutdownReceived == shutdownAt # "none"

(* The task returns; the program is dropped and records not read are lost. *)
Exit ==
  /\ phase = "waiting"
  /\ ShutdownReceived
  /\ phase' = "exited"
  /\ UNCHANGED <<lsm, shutdownAt, kernel, reported, delivered, bus>>

Init ==
  /\ phase = "detecting"
  /\ lsm = FALSE
  /\ shutdownAt = "none"
  /\ kernel = <<>>
  /\ reported = 0
  /\ delivered = <<>>
  /\ bus = <<>>

Next ==
  \/ DetectLsm \/ Attach \/ Deliver \/ Shutdown \/ Exit
  \/ \E r \in Records : Report(r)

(* The awaits of the task (feature detection, attachment, the signal) and  *)
(* the reader are driven by the runtime: weak fairness.  The probes and    *)
(* the framework's shutdown get none.                                      *)
Fairness ==
  /\ WF_vars(DetectLsm) /\ WF_vars(Attach) /\ WF_vars(Exit) /\ WF_vars(Deliver)

Spec == Init /\ [][Next]_vars /\ Fairness

-----------------------------------------------------------------------------
TypeOK ==
  /\ phase \in Phases
  /\ lsm \in BOOLEAN
  /\ shutdownAt \in Phases \cup {"none"}
  /\ kernel \in Seq(Records) /\ delivered \in Seq(Records)
  /\ reported \in 0..MaxRecords
  /\ bus \in Seq([payload : Payload, pid : Pids, rec : 1..MaxRecords])

\* The enrichment the spec (4.5, 8) asks for, for one record.
SpecDnsKind(r) ==
  IF r.op \in {"Send", "Receive"} /\ r.data.kind = "dns"
  THEN IF r.data.answers # <<>> THEN "DnsResponse"
       ELSE IF r.data.questions # <<>> THEN "DnsQuery" ELSE "none"
  ELSE "none"

EventsOf(n) == {j \in DOMAIN bus : bus[j].rec = n}

(* Every record the sensor forwarded yields its own event and, just before *)
(* it, a DNS event exactly when the spec's classification says so, with    *)
(* the message's question list (and answer list for a response) and the    *)
(* record's pid; the records' events are on the bus in delivery order.     *)
DnsEnrichment ==
  \A n \in DOMAIN delivered :
    LET r == delivered[n]
        own == CHOOSE j \in EventsOf(n) : bus[j].payload.kind = r.op
    IN /\ \E j \in EventsOf(n) : bus[j].payload.kind = r.op
       /\ \A m \in DOMAIN delivered : m < n => \A j \in EventsOf(m) : j < own
       /\ IF SpecDnsKind(r) = "none"
          THEN EventsOf(n) = {own}
          ELSE /\ EventsOf(n) = {own - 1, own}
               /\ bus[own - 1].payload.kind = SpecDnsKind(r)
               /\ bus[own - 1].payload.questions = r.data.questions
               /\ bus[own - 1].payload.answers =
                    IF SpecDnsKind(r) = "DnsResponse" THEN r.data.answers ELSE <<>>
               /\ bus[own - 1].pid = r.pid

(* Cooperative shutdown (spec 5): once the framework signals shutdown, at  *)
(* whatever point of feature detection, attachment or reading, the task    *)
(* eventually returns.                                                     *)
ShutdownEndsTask == (shutdownAt # "none") ~> (phase \in {"exited", "failed"})

(* Close provenance (spec 4.5, 8): a Close event reports the pid of the    *)
(* process that owned the connection, not of the context the teardown      *)
(* probe fired in.                                                         *)
CloseCarriesOriginalPid ==
  \A j \in DOMAIN bus :
    bus[j].payload.kind = "Close" => bus[j].pid = delivered[bus[j].rec].originalPid

=============================================================================
