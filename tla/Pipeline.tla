------------------------------ MODULE Pipeline ------------------------------
(***************************************************************************)
(* The network-monitor sensor feeding the rule engine through the bus.     *)
(* Every event the sensor's wrapped sender sends (the DNS event of a       *)
(* record, then the record's own Payload) is published on the bus the     *)
(* engine callers read; the engine's derived threat events are published  *)
(* on the same bus, never to the sensor.  The engine's discriminant is     *)
(* the Payload variant (PayloadDiscriminant::from) and its rules are       *)
(* predicates over the sensor's Payloads.                                  *)
(***************************************************************************)
EXTENDS Naturals, Sequences, FiniteSets

CONSTANTS
  Pids, Questions, Answers, Records, MaxRecords,     \* the sensor's
  Rules, Names, Name, Rulesets, Condition, Workers,  \* the engine's
  NoThreat

VARIABLES
  phase, lsm, shutdownAt, kernel, reported, delivered,  \* the sensor task
  sent,                                                 \* its sends, in order
  rulesets, bus, next, cur, idx, observed, done         \* the engine and bus

sensorVars == <<phase, lsm, shutdownAt, kernel, reported, delivered, sent>>
engineVars == <<rulesets, bus, next, cur, idx, observed, done>>
vars == <<sensorVars, engineVars>>

Sensor == INSTANCE NetworkMonitor WITH bus <- sent

\* Every Payload the sensor can send for the records the probes report.
SensorPayloads ==
  {Sensor!ToPayload(r) : r \in Records}
    \cup UNION {{Sensor!CollectDnsIfAny(r)[j] : j \in DOMAIN Sensor!CollectDnsIfAny(r)}
                  : r \in Records}

Engine == INSTANCE DetectionEngine WITH
  Keys <- Sensor!Ops \cup {"DnsQuery", "DnsResponse"},
  Payloads <- SensorPayloads,
  Discriminant <- [p \in SensorPayloads |-> p.kind],
  MaxObserved <- 2 * MaxRecords

-----------------------------------------------------------------------------
\* The sensor's sends from position k on, as observed bus events.
Published(k) ==
  [j \in 1..(Len(sent') - k + 1) |->
     [payload |-> sent'[k + j - 1].payload, threat |-> NoThreat, trigger |-> 0]]

(* One call of the wrapped sender (lib.rs 185-192): dns_sender and sender  *)
(* are two handles on the module's bus, so the closure's DNS event and the *)
(* record's own Payload reach the bus in the order they were sent, as      *)
(* observed (non-threat) events.                                           *)
Forward ==
  /\ Sensor!Deliver
  /\ bus' = bus \o Published(Len(sent) + 1)
  /\ observed' = observed + Len(Published(Len(sent) + 1))
  /\ UNCHANGED <<rulesets, next, cur, idx, done>>

\* The sensor's other steps do not touch the bus.
SensorStep ==
  /\ \/ Sensor!DetectLsm \/ Sensor!Attach \/ Sensor!Shutdown \/ Sensor!Exit
     \/ \E r \in Records : Sensor!Report(r)
  /\ UNCHANGED engineVars

EngineStep ==
  /\ \E w \in Workers : Engine!ProcessStart(w) \/ Engine!Emit(w) \/ Engine!Pass(w)
  /\ UNCHANGED sensorVars

Init == Sensor!Init /\ Engine!Init

Next == Forward \/ SensorStep \/ EngineStep

Spec == Init /\ [][Next]_vars /\ Sensor!Fairness /\ Engine!Fairness

-----------------------------------------------------------------------------
\* The k-th observed event on the bus is the one of the sensor's k-th send.
SentOf(i) == Cardinality({j \in 1..i : bus[j].trigger = 0})

\* Record n of the sensor was read, and process() has returned for every
\* event it was sent as.
RecordHandled(n) ==
  /\ n <= Len(delivered)
  /\ \A i \in 1..Len(bus) :
       (bus[i].trigger = 0 /\ sent[SentOf(i)].rec = n) => i \in done

(* Loss only at shutdown (spec 5, lib.rs 193-194): a record the probes     *)
(* report is eventually matched by the engine, unless shutdown is          *)
(* signalled first and the task returns with it unread; a record the       *)
(* sensor has read is matched even if shutdown comes right after, because  *)
(* the wrapped sender publishes its events before the reader takes the     *)
(* next one.                                                               *)
ReadRecordsHandled ==
  \A n \in 1..MaxRecords :
    /\ (reported >= n) ~> (RecordHandled(n) \/ shutdownAt # "none")
    /\ (Len(delivered) >= n) ~> RecordHandled(n)

=============================================================================
