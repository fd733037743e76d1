----------------------------- MODULE RuleLoader -----------------------------
(***************************************************************************)
(* PulsarEngine::new (rules-engine/src/engine.rs): the construction of the *)
(* engine's rulesets from the rule files under a directory.                *)
(*                                                                         *)
(*   load_user_rules_from_dir: glob the tree, read every listed file       *)
(*     (RuleFile::from), then parse every body as a list of UserRule;      *)
(*   parse_rules: parse_rule on every UserRule in order, then group the    *)
(*     (discriminant, rule) pairs by discriminant;                         *)
(*   new: Ruleset::from_rules on every group, in HashMap iteration order.  *)
(*                                                                         *)
(* Each stage stops at its first error, which aborts the construction.     *)
(* The directory tree is an input chosen in Init: a sequence of glob       *)
(* entries in traversal order.  An entry is a listed file, or an error the *)
(* glob iterator yields in place of the files it could not list.           *)
(***************************************************************************)
EXTENDS Naturals, Sequences, FiniteSets

CONSTANTS
  Keys,        \* type names PayloadDiscriminant::from_str accepts
  TypeNames,   \* type names that may appear in a rule file (Keys and others)
  RawRules,    \* candidate UserRule records [name, type, cond]
  FileBodies,  \* candidate rule-file contents: sequences of RawRules
  MaxEntries   \* bound on the number of glob entries

\* What the DSL parser and Ruleset::from_rules make of a condition: it
\* compiles, it does not parse (DslError), or it parses but is rejected when
\* the ruleset is built (ValidatronError, e.g. a field of the wrong type).
Conds == {"ok", "syntax", "illtyped"}

\* How a glob entry fares: the glob iterator yielded an error for it, the
\* file cannot be read, its body is not a YAML list of rules, or it is fine.
EntryKinds == {"globError", "unreadable", "malformed", "ok"}

Entry == [kind : EntryKinds, rules : FileBodies]

ASSUME Keys \subseteq TypeNames
ASSUME RawRules \subseteq [name : STRING, type : TypeNames, cond : Conds]
ASSUME FileBodies \subseteq Seq(RawRules)

ErrorKinds == {"RuleListing", "RuleLoading", "RuleParsing",
               "PayloadTypeNotFound", "DslError", "RuleCompile"}
NoError == [kind |-> "none", at |-> 0, key |-> "none"]

VARIABLES
  patternOk,  \* input: the glob pattern built from rules_path is valid
  dir,        \* input: the glob entries, in traversal order
  phase,      \* the stage PulsarEngine::new is in
  i,          \* loop cursor of the current stage
  ruleFiles,  \* entries read so far (indices into dir)
  userRules,  \* UserRules parsed from the rule files so far, in order
  parsed,     \* <<discriminant, rule>> pairs parse_rule produced so far
  groups,     \* parse_rules' HashMap: discriminant -> rules in order
  rulesets,   \* new's HashMap: discriminant -> built ruleset
  error       \* the PulsarEngineError returned, NoError if none

vars == <<patternOk, dir, phase, i, ruleFiles, userRules, parsed, groups,
          rulesets, error>>

Phases == {"listing", "reading", "parsing", "compiling", "building",
           "ready", "failed"}

\* The error names a position (in dir or in the rule list) or a type.
Fail(kind, at, key) ==
  /\ phase' = "failed"
  /\ error' = [kind |-> kind, at |-> at, key |-> key]

-----------------------------------------------------------------------------
(* glob(&expr)? : a malformed pattern aborts before any file is listed.    *)
ListRules ==
  /\ phase = "listing"
  /\ \/ /\ ~patternOk
        /\ Fail("RuleListing", 0, "none")
        /\ UNCHANGED i
     \/ /\ patternOk
        /\ phase' = "reading"
        /\ i' = 1
        /\ UNCHANGED error
  /\ UNCHANGED <<patternOk, dir, ruleFiles, userRules, parsed, groups, rulesets>>

(* for path in entries.flatten(): RuleFile::from(&path)?                   *)
(* flatten() drops the Err entries of the glob iterator.                   *)
ReadEntry ==
  /\ phase = "reading"
  /\ i <= Len(dir)
  /\ \/ /\ dir[i].kind = "globError"
        /\ i' = i + 1
        /\ UNCHANGED <<ruleFiles, phase, error>>
     \/ /\ dir[i].kind = "unreadable"
        /\ Fail("RuleLoading", i, "none")
        /\ UNCHANGED <<i, ruleFiles>>
     \/ /\ dir[i].kind \in {"malformed", "ok"}
        /\ ruleFiles' = Append(ruleFiles, i)
        /\ i' = i + 1
        /\ UNCHANGED <<phase, error>>
  /\ UNCHANGED <<patternOk, dir, userRules, parsed, groups, rulesets>>

ReadDone ==
  /\ phase = "reading"
  /\ i > Len(dir)
  /\ phase' = "parsing"
  /\ i' = 1
  /\ UNCHANGED <<patternOk, dir, ruleFiles, userRules, parsed, groups,
                 rulesets, error>>

\* Mutant helper: the bodies are flattened in reverse order.
ParseFilePrepend(f) == dir[f].rules \o userRules

ParsedRules(f) == userRules \o dir[f].rules

(* serde_yaml::from_str::<Vec<UserRule>> on each file read, in order; the  *)
(* collect stops at the first error; the lists are then flattened.        *)
ParseFile ==
  /\ phase = "parsing"
  /\ i <= Len(ruleFiles)
  /\ \/ /\ dir[ruleFiles[i]].kind = "malformed"
        /\ Fail("RuleParsing", ruleFiles[i], "none")
        /\ UNCHANGED <<i, userRules>>
     \/ /\ dir[ruleFiles[i]].kind = "ok"
        /\ userRules' = ParsedRules(ruleFiles[i])
        /\ i' = i + 1
        /\ UNCHANGED <<phase, error>>
  /\ UNCHANGED <<patternOk, dir, ruleFiles, parsed, groups, rulesets>>

ParseDone ==
  /\ phase = "parsing"
  /\ i > Len(ruleFiles)
  /\ phase' = "compiling"
  /\ i' = 1
  /\ UNCHANGED <<patternOk, dir, ruleFiles, userRules, parsed, groups,
                 rulesets, error>>

\* Mutant helper: the DSL is parsed before the type name is resolved.
ParseRuleDslFirst(r) ==
  CASE r.cond = "syntax" -> "DslError"
    [] r.type \notin Keys -> "PayloadTypeNotFound"
    [] OTHER -> "none"

\* Mutant helper: the type name is never resolved.
ParseRuleNoTypeCheck(r) == IF r.cond = "syntax" THEN "DslError" ELSE "none"

(* parse_rule: PayloadDiscriminant::from_str(type), then parser.parse;     *)
(* the outcome for one UserRule.                                           *)
ParseRule(r) ==
  CASE r.type \notin Keys -> "PayloadTypeNotFound"
    [] r.cond = "syntax" -> "DslError"
    [] OTHER -> "none"

(* parse_rules: parse_rule on each UserRule in order; the collect stops at *)
(* the first error.                                                        *)
CompileRule ==
  /\ phase = "compiling"
  /\ i <= Len(userRules)
  /\ \/ /\ ParseRule(userRules[i]) # "none"
        /\ Fail(ParseRule(userRules[i]), i, "none")
        /\ UNCHANGED <<i, parsed>>
     \/ /\ ParseRule(userRules[i]) = "none"
        /\ parsed' = Append(parsed, <<userRules[i].type, userRules[i]>>)
        /\ i' = i + 1
        /\ UNCHANGED <<phase, error>>
  /\ UNCHANGED <<patternOk, dir, ruleFiles, userRules, groups, rulesets>>

\* Mutant helper: m.insert(k, vec![v]) in place of entry(k).push(v), so a
\* later rule of a type replaces the earlier ones.
GroupByKeyLast(s) ==
  [k \in {s[j][1] : j \in DOMAIN s} |->
     <<s[CHOOSE j \in DOMAIN s : s[j][1] = k
                               /\ \A l \in DOMAIN s : s[l][1] = k => l <= j][2]>>]

(* The grouping loop of parse_rules: m.entry(k).or_insert_with(Vec::new)   *)
(* .push(v) for each pair in order.                                        *)
GroupByKey(s) ==
  [k \in {s[j][1] : j \in DOMAIN s} |->
     LET ofK == SelectSeq(s, LAMBDA pr : pr[1] = k)
     IN [j \in DOMAIN ofK |-> ofK[j][2]]]

GroupRules ==
  /\ phase = "compiling"
  /\ i > Len(userRules)
  /\ groups' = GroupByKey(parsed)
  /\ phase' = "building"
  /\ UNCHANGED <<patternOk, dir, i, ruleFiles, userRules, parsed, rulesets,
                 error>>

(* for (discriminant, rules) in rules: Ruleset::from_rules(rules), in the  *)
(* HashMap's iteration order, which is arbitrary; the first failure is     *)
(* returned as RuleCompile.  Each key is visited once, so the insert's     *)
(* unreachable! branch is never taken.                                     *)
BuildRuleset ==
  /\ phase = "building"
  /\ \E k \in DOMAIN groups \ DOMAIN rulesets :
       \/ /\ \E j \in DOMAIN groups[k] : groups[k][j].cond = "illtyped"
          /\ Fail("RuleCompile", 0, k)
          /\ UNCHANGED rulesets
       \/ /\ \A j \in DOMAIN groups[k] : groups[k][j].cond = "ok"
          /\ rulesets' = [x \in DOMAIN rulesets \cup {k} |->
                            IF x = k THEN groups[k] ELSE rulesets[x]]
          /\ UNCHANGED <<phase, error>>
  /\ UNCHANGED <<patternOk, dir, i, ruleFiles, userRules, parsed, groups>>

(* Ok(PulsarEngine { .. }) once every group is built.                      *)
BuildDone ==
  /\ phase = "building"
  /\ DOMAIN rulesets = DOMAIN groups
  /\ phase' = "ready"
  /\ UNCHANGED <<patternOk, dir, i, ruleFiles, userRules, parsed, groups,
                 rulesets, error>>

Init ==
  /\ patternOk \in BOOLEAN
  /\ dir \in UNION {[1..n -> Entry] : n \in 0..MaxEntries}
  /\ phase = "listing"
  /\ i = 0
  /\ ruleFiles = <<>>
  /\ userRules = <<>>
  /\ parsed = <<>>
  /\ groups = <<>>
  /\ rulesets = <<>>
  /\ error = NoError

Next ==
  \/ ListRules \/ ReadEntry \/ ReadDone \/ ParseFile \/ ParseDone
  \/ CompileRule \/ GroupRules \/ BuildRuleset \/ BuildDone

(* new() is one synchronous call and every stage loops over a finite list: *)
(* it keeps taking steps until it returns.                                 *)
Spec == Init /\ [][Next]_vars /\ WF_vars(Next)

-----------------------------------------------------------------------------
TypeOK ==
  /\ patternOk \in BOOLEAN
  /\ dir \in Seq(Entry)
  /\ phase \in Phases
  /\ i \in Nat
  /\ ruleFiles \in Seq(DOMAIN dir)
  /\ userRules \in Seq(RawRules)
  /\ parsed \in Seq(Keys \X RawRules)
  /\ DOMAIN groups \subseteq Keys /\ DOMAIN rulesets \subseteq DOMAIN groups
  /\ error \in [kind : ErrorKinds, at : Nat, key : Keys \cup {"none"}] \cup {NoError}
  /\ (phase = "failed") = (error # NoError)

\* The rules of the listed files, in traversal then in-file order.
ListedRules ==
  LET listed == SelectSeq(dir, LAMBDA e : e.kind # "globError")
      bodies == [j \in DOMAIN listed |-> listed[j].rules]
  IN IF bodies = <<>> THEN <<>>
     ELSE LET cat[j \in DOMAIN bodies] ==
                IF j = 1 THEN bodies[1] ELSE cat[j - 1] \o bodies[j]
          IN cat[Len(bodies)]

RulesOfType(s, k) == SelectSeq(s, LAMBDA r : r.type = k)

(* A successfully built engine holds, for each type named by some rule,   *)
(* one ruleset with exactly the listed rules of that type, in file-        *)
(* discovery then in-file order, and no ruleset for any other type (the   *)
(* spec's grouping property and its "insertion order" assumption).         *)
ReadyIsGroupingOfListed ==
  phase = "ready" =>
    /\ DOMAIN rulesets = {ListedRules[j].type : j \in DOMAIN ListedRules}
    /\ \A k \in DOMAIN rulesets : rulesets[k] = RulesOfType(ListedRules, k)

\* The defect that makes each stage reject an item.
Defective(kind, at) ==
  CASE kind = "RuleListing" -> ~patternOk
    [] kind = "RuleLoading" -> dir[at].kind = "unreadable"
    [] kind = "RuleParsing" -> dir[at].kind = "malformed"
    [] kind = "PayloadTypeNotFound" -> userRules[at].type \notin Keys
    [] kind = "DslError" -> userRules[at].type \in Keys
                              /\ userRules[at].cond = "syntax"
    [] kind = "RuleCompile" -> \E j \in DOMAIN groups[error.key] :
                                  groups[error.key][j].cond = "illtyped"

(* The error new() returns names an item that really has that defect, and  *)
(* is the first defective item of its stage in load order: a rule with an  *)
(* unknown type is reported as PayloadTypeNotFound whatever its condition, *)
(* and an earlier bad file or rule is never hidden behind a later one.     *)
ErrorIsFirstDefect ==
  phase = "failed" =>
    /\ Defective(error.kind, error.at)
    /\ error.kind = "RuleLoading" =>
         \A j \in 1..error.at - 1 : dir[j].kind # "unreadable"
    /\ error.kind = "RuleParsing" =>
         \A j \in 1..error.at - 1 : dir[j].kind # "malformed"
    /\ error.kind \in {"PayloadTypeNotFound", "DslError"} =>
         \A j \in 1..error.at - 1 : ParseRule(userRules[j]) = "none"

(* All-or-nothing loading (spec 4.1, 7): an engine is built only when every *)
(* rule under the directory tree is active in it.                           *)
AllOrNothing ==
  phase = "ready" =>
    \A j \in DOMAIN dir : \A l \in DOMAIN dir[j].rules :
      LET r == dir[j].rules[l] IN
        r.type \in DOMAIN rulesets /\ \E m \in DOMAIN rulesets[r.type] : rulesets[r.type][m] = r

-----------------------------------------------------------------------------
\* The refinement mapping: every phase before new() returns is "loading",
\* and the rulesets exist only once it has returned Ok.
Abstract == INSTANCE AbstractLoader WITH
  outcome <- IF phase \in {"ready", "failed"} THEN phase ELSE "loading",
  rulesets <- IF phase = "ready" THEN rulesets ELSE <<>>

(* The staged loader, with its fail-fast loops and the arbitrary HashMap   *)
(* order of building, implements the one-step loader: new() always        *)
(* returns, and it fails exactly when the directory has a defect, with the *)
(* rulesets of a success being the discovery-order grouping.               *)
ImplementsAbstractLoader == Abstract!Spec

=============================================================================
