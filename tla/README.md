# TLA+ models of the pulsar detection core

This directory holds TLA+ models of the two source files of this repository:

- `src/crates/modules/rules-engine/src/engine.rs`: the rule engine;
- `src/modules/network-monitor/src/lib.rs`: the network-monitor sensor.

Each model is checked with TLC. Every definition is written from the source, and
`PROJECT.json` maps each one to the lines it models.

## 1. Inventory

### Components

| Component | Source | State it keeps | Operations |
|---|---|---|---|
| Rule Source Reader | engine.rs `load_user_rules_from_dir`, `RuleFile::from` | transient: the glob entries, the files read, the parsed `UserRule` lists | glob the tree; read each listed file; parse each body as a YAML list |
| Condition Compiler | `crate::dsl` (not in these sources) | none | parse one condition for one type |
| Ruleset Builder | engine.rs `parse_rule`, `parse_rules`, `PulsarEngine::new` | transient: the `(discriminant, Rule)` pairs, the grouping `HashMap`, the built `rulesets` | resolve the type; parse the DSL; group by discriminant; `Ruleset::from_rules` per group |
| Detection Engine | engine.rs `PulsarEngine::process`, `PulsarEngineInternal` | the immutable `rulesets` map and the sender | for each event: threat check, discriminant lookup, one `send_threat_derived` per matching rule |
| Socket Event Synthesizer | lib.rs `NetworkEvent`, `Addr`, `From` impls, `collect_dns_if_any` | none (pure conversions) | convert a record to a `Payload`; convert addresses; classify DNS bytes |
| Network monitor task | lib.rs `program`, `syscall_monitor_task` | the attached program and the reader it started | LSM feature detection; attach the probes; read events through the DNS-intercepting sender wrapper; wait for shutdown |
| Test suite | lib.rs `test_suite` | — | tests against real sockets |

The external collaborators are not in these sources: validatron's `Ruleset`, the
event bus (`ModuleSender`), the BPF loader (`ProgramBuilder`, `read_events`) and
the framework's `ShutdownSignal`.

### How they interact

`PulsarEngine::new` runs once at startup. It calls the reader and then the
builder. Any error aborts it and no engine exists. Otherwise it yields an
immutable `rulesets` map behind an `Arc`, shared by every caller of `process`.

At run time:

1. The sensor task attaches the probes. Each record the reader takes from the
   kernel goes through the sender wrapper.
2. The wrapper's closure sends a DNS event when the captured bytes are DNS.
3. The record itself is then sent as a `Payload`.
4. Events on the bus reach `process`. Each matching rule makes `process` send
   one derived threat event back on the same bus.
5. The bus delivers that threat event to `process` again. Only the threat-marker
   check in `process` stops the loop.

### What is hard

- **Concurrency.** `process` may run on several callers at once. Their derived
  events interleave with each other and with re-delivered threat events.
- **Feedback.** Derived events re-enter the engine. Termination depends on the
  guard at engine.rs:81.
- **Failure.** Construction can fail at six stages. Which error is reported
  depends on the stage order, the order of the checks in `parse_rule`, and
  HashMap iteration order. `entries.flatten()` skips glob errors without
  reporting them.
- **Lifecycle.** Shutdown can arrive while `program()` is still detecting LSM or
  attaching probes. The task reads the signal only after that.
- **Data edges.** IPv4 octets are rebuilt from a host-order u32 by shifts and
  truncation. IPv6 conversion drops fields. `Close` carries a pid different from
  the ambient one. DNS messages can have questions, answers, both or neither.

### What makes each component correct

- **Reader and builder.** Loading is all-or-nothing. A built engine groups
  exactly the loaded rules by type, in discovery order. A reported error names
  a really defective item, the first one of its stage. An unknown type is
  reported as `PayloadTypeNotFound`.
- **Engine.** A threat event is never derived from a threat event. An event
  matching K rules yields exactly K derived events, one per rule. Every event is
  eventually handled.
- **Synthesizer.** Address conversions round-trip. A DNS event is emitted
  exactly as the spec's classification says. A Close event carries the original
  pid.
- **Task.** A shutdown signal sent at any point makes the task exit.
- **Sensor to engine.** A reported record reaches the engine unless shutdown
  comes first. A record already read always reaches it.

## 2. Plan

In order of importance. Items 1 to 5, 7 and 10 are done. Items 6, 8 and 9 were tried or considered and left out; each says why.

1. **DetectionEngine** (done). `process` with concurrent callers and the bus
   feedback loop.
2. **RuleLoader** (done). The whole of `PulsarEngine::new`.
3. **NetworkMonitor** (done). The sensor task, the sender wrapper, the Payload
   conversion and the DNS classification.
4. **AddrConversion** (done). `Addr` to and from `SocketAddr`.
5. **Pipeline** (done). `NetworkMonitor`'s sends feed `DetectionEngine`'s bus.
   Checks that a record is lost only when shutdown comes first.
6. **An abstract engine** (dropped). It handled each event atomically, and
   `DetectionEngine` was checked to refine it. The check added nothing beyond
   `ThreatPerMatch` at `done` and `EveryEventHandled`, so it was removed.
7. **Rule names** in `DetectionEngine` (done). Rules carry names that may
   repeat; the threat marker is the name.
8. **Several sensors** on one bus (not modelled). The bus is one queue and a
   sensor's sends are appended in order. So with one engine caller, a second
   sensor changes only how the two streams interleave, and the spec promises
   no order across sensors. Within one stream, the order is fixed by the
   wrapper's send order, which `DnsEnrichment` checks. A second sensor
   instance would double the sensor state and check nothing new.
9. **Loader into engine** (dropped). The composition only restated
   `ReadyIsGroupingOfListed` plus the engine's in-order loop. So
   `DetectionEngine` takes the built rulesets as a constant, and `rulesets`
   stays a variable that `Init` sets and no action writes.
10. **AbstractLoader** and a refinement (done). `new` as one step whose
    outcome depends only on the directory.

## 3. Modules and runs

### DetectionEngine (`MCDetectionEngine.cfg`, run `detection_engine`)

State:

- `rulesets`: `internal.rulesets`. `Init` sets it to the constant `Rulesets`
  and no action writes it, as `PulsarEngine::new` leaves it.
- `bus`: every event published, kept as a history. An event is its payload,
  its threat marker (the name of the rule that raised it, or none) and, for a
  derived event, the bus index of its trigger.
- `next`: the read cursor of the bus.
- `cur[w]`, `idx[w]`: worker `w` is iterating `ruleset.matches` for event
  `cur[w]`, at rule `idx[w]`.
- `done`: the events whose `process` call has returned.

The rulesets, the discriminant function, the rule predicates and the rule
names are constants.
This is faithful because the rulesets never change after `new`.

Actions:

- `ProcessStart`: the guard and the lookup at lines 80–86.
- `Emit` and `Pass`: one iteration of the loop at lines 87–91, for a rule that
  matches and one that does not. `Emit` sends the rule's name, as
  `send_threat_derived(event, rule.name.clone(), None)` does.
- `Observe`: the environment publishing an event.

Bounds: 3 observed events, 2 workers, 3 rules over two types with rulesets
(Exec with two rules, Send with one) and one type without a ruleset (Close).
Exec's two rules overlap, so one event can match both, and they share the name
"Open netcat". Nothing in the loader makes names unique. Derived events can make
the bus reach 12 events.

Fairness: weak fairness per worker. `process` is synchronous and never blocks,
and the engine task is scheduled while events wait. The sensors get no fairness.

Properties:

- `NoRederivation`: no threat event is derived from a threat event.
- `ThreatPerMatch`: after `process` returns, an event has as many threats
  with each name as it has matching rules with that name. Before it returns,
  never more.
- `EveryEventHandled`: every event on the bus is eventually handled (liveness).

Deadlock checking is off. Once the sensors stop, the engine idles waiting for
events.

One more run uses the same constants:

- `detection_distinct_names` (violation, `MCDetectionEngineNames.cfg`). It
  checks `DistinctThreatNames`, the spec's "each naming a distinct matched
  rule". TLC finds an ExecNc event with two threats both named "Open netcat".
### Pipeline (`MCPipeline.cfg`, run `pipeline`)

`Pipeline` composes one `NetworkMonitor` (instance `Sensor`, its `bus` renamed
`sent`) with `DetectionEngine` (instance `Engine`):

- The engine's payloads are the sensor's Payloads. Its discriminant is the
  Payload variant.
- `Forward` is one call of the wrapped sender: `Sensor!Deliver`, with the sends
  appended to the engine's bus as observed events, in order.
- The sensor's other steps and the engine callers' steps leave the other side
  unchanged. The sensor replaces the engine's `Observe`.

Bounds: up to three records out of three (a DNS query over UDP, TCP data, a
Close). There are three rules: DNS queries, any Send, TCP Sends.

`ReadRecordsHandled` (spec §5, cooperative shutdown) is the end-to-end
liveness property. For each record, it says:

- once reported, it is eventually processed by the engine, unless shutdown is
  signalled first;
- once the sensor has read it, it is processed even if shutdown follows.

When the task returns, the program is dropped with unread records still in
the kernel buffer (lib.rs:193-194). This property bounds that loss to what
the spec allows.

The fairness is weak fairness on the task's awaits, on the reader and on the
engine callers. The probes and the framework's shutdown get none, so shutdown
may come at any moment or never. It holds with one engine caller (46,606
states).

### RuleLoader (`MCRuleLoader.cfg`, runs `rule_loader` and `rule_loader_all_or_nothing`)

`Init` chooses the input: the pattern is valid or not, and the glob entries (up
to 2). Each entry is a glob error, unreadable, malformed or fine. Its body is
one of six rule lists. The lists use eight rules: good rules of two types, an
unknown type with a good and with a bad condition, a condition that does not
parse, and two conditions that parse but fail `Ruleset::from_rules` in
different groups.

Each stage's loop is one action per item, following the code:

- `ReadEntry` (the `flatten` skip is one of its disjuncts);
- `ParseFile`;
- `CompileRule` (`parse_rule`);
- `GroupRules` (the grouping loop);
- `BuildRuleset`, which picks any unbuilt key because HashMap order is
  arbitrary.

The DSL parser is not in these sources. Its outcome is the rule's `cond` field.

Passing properties:

- `ReadyIsGroupingOfListed`: a built engine holds exactly the listed rules,
  grouped by type, in discovery order.
- `ErrorIsFirstDefect`: a failed build reports a real defect, the first one of
  its stage, and never reports an unknown type as a DSL error.

The violation run checks `AllOrNothing`, the spec's all-or-nothing rule. TLC
shows a glob error entry skipped and the engine built without that entry's
rules.

`AbstractLoader` states what `new` promises, as one step on a given
directory:

- it fails exactly when the pattern is invalid, a listed file is unreadable
  or malformed, or a listed rule has an unknown type or a condition that does
  not compile;
- otherwise it returns the discovery-order grouping of the listed rules;
- it always returns.

Glob-error entries are skipped, as the code does. The spec does not allow
this: see finding 1.

`RuleLoader` has weak fairness on `Next`, because `new` is one synchronous
call over finite lists. Under the refinement mapping, every phase before the
return is `"loading"` and the rulesets become visible at `"ready"`. Run
`rule_loader` also checks `ImplementsAbstractLoader`, and it holds (6,446
states). So neither the stage order nor the arbitrary HashMap order of
`BuildRuleset` can change whether `new` succeeds or what it builds, and `new`
always returns.

### AddrConversion (`MCAddrConversionV4.cfg`, `MCAddrConversionV6.cfg`)

- `FromSocketAddr` and `ToSocketAddr` are pure operators.
- `sa` ranges over all sampled addresses. The sampled octets are 0, 1, 127,
  128 and 255; the sampled ports are 0, 443 and 65535.
- The host-order u32 is kept as two 16-bit halves because TLC integers are
  signed 32-bit. `ShiftAsU8` is `(u >> n) as u8`.
- `RoundTrip` holds for IPv4 (1875 addresses).
- `RoundTrip` is violated for IPv6: `SocketAddr::new` resets the scope id and
  the flow label.

### NetworkMonitor (`MCNetworkMonitor.cfg`, `MCNetworkMonitorClosePid.cfg`)

State:

- `phase`: the task's phase (detecting, attaching, waiting, exited, failed).
- `lsm`: which hook group was attached.
- `shutdownAt`: when shutdown was signalled.
- `kernel`: records the probes reported, not yet read.
- `delivered`: records handed to the wrapper.
- `bus`: events sent.

`Deliver` is one call of the wrapped sender: the closure's DNS event, then the
converted record. Addresses are left out here; AddrConversion covers them.

Bounds: 2 records out of 8. The 8 records cover every branch of
`collect_dns_if_any`, plus a Close seen from a process other than the owner, as
in `run_close_test`.

Fairness: weak fairness for the task's awaits and the reader. The probes and
the shutdown signal get none.

Properties:

- `DnsEnrichment`: the DNS event comes just before its record's event and
  matches the spec's classification.
- `ShutdownEndsTask`: once shutdown is signalled, the task eventually exits
  (liveness). The signal is buffered, so one sent during attachment is seen
  afterwards.
- `CloseCarriesOriginalPid` (violation run): the Close event reaches the bus
  with the observing pid, not the owner's.

## 4. Findings

The first four are disagreements between the code and the spec. The fifth is
a gap in the spec:

1. **All-or-nothing loading.** engine.rs:102 `entries.flatten()` drops glob
   errors. The engine starts without the rules of a directory it could not
   list. The spec (§4.1, §7) says any failure aborts the load.
2. **IPv6 round trip.** lib.rs:110 rebuilds IPv6 addresses without flow label
   and scope id. The spec's bijection (§4.5, §8) fails for scoped addresses.
3. **Close pid.** lib.rs:237 drops `original_pid` when converting to `Payload`.
   Close events carry the ambient pid. The spec (§4.5, §8) asks for the
   original owner's pid.
4. **Duplicate rule names.** engine.rs:90 sends `rule.name` and nothing checks
   that names are unique. Two matching rules with one name give two threats
   that cannot be told apart. The spec (§8) says each names a distinct matched
   rule.

## 5. Not modelled

- **The DSL grammar and validatron's matching.** They are not in these sources.
  Rule predicates are constant sets of payloads.
- **Formatting.** The `Display` impls and the DNS field formatting are left out.
- **The kernel side.** Probe programs, capture-size truncation and per-CPU
  buffer ordering are not in these sources.
- **YAML and glob internals.** Each file and entry is reduced to its outcome.
- **The network-monitor test suite** (lib.rs 291–534). It drives real sockets
  against the kernel probes and checks the records they produce. Both the
  probes and the test runner are outside these sources. Its close scenario, an
  owner killed before teardown, is a record of `MCNetworkMonitor`.
- **The `Display` impls and `module()`.** These are formatting and
  registration only.
