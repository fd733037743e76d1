--------------------------- MODULE AbstractLoader ---------------------------
(***************************************************************************)
(* What PulsarEngine::new (rules-engine/src/engine.rs) promises, as one    *)
(* step on a given rule directory: either the engine is built, holding for *)
(* each type named by some listed rule the listed rules of that type in    *)
(* discovery order, or new() fails; it fails exactly when the pattern is   *)
(* invalid, a listed file cannot be read or parsed, or a listed rule names *)
(* an unknown type or has a condition that does not compile.  Entries the  *)
(* glob iterator yields as errors are skipped, as the code does (see       *)
(* AllOrNothing in RuleLoader).  The outcome never depends on the order   *)
(* in which the HashMap hands out the groups, and new() always returns.    *)
(***************************************************************************)
EXTENDS Naturals, Sequences
LOCAL INSTANCE SequencesExt

CONSTANTS Keys, TypeNames, RawRules, FileBodies, MaxEntries

VARIABLES patternOk, dir, outcome, rulesets

avars == <<patternOk, dir, outcome, rulesets>>

EntryKinds == {"globError", "unreadable", "malformed", "ok"}
Entry == [kind : EntryKinds, rules : FileBodies]

\* The entries the glob iterator lists, and their rules in listing order.
Listed == SelectSeq(dir, LAMBDA e : e.kind # "globError")
ListedRules == FlattenSeq([j \in DOMAIN Listed |-> Listed[j].rules])

\* Something in the directory new() must reject.
Broken ==
  \/ ~patternOk
  \/ \E j \in DOMAIN Listed : Listed[j].kind # "ok"
  \/ \E j \in DOMAIN ListedRules :
       ListedRules[j].type \notin Keys \/ ListedRules[j].cond # "ok"

(* new() returns: Err when the directory is broken, else the grouping.     *)
Load ==
  /\ outcome = "loading"
  /\ \/ /\ Broken
        /\ outcome' = "failed"
        /\ UNCHANGED rulesets
     \/ /\ ~Broken
        /\ outcome' = "ready"
        /\ rulesets' = [k \in {ListedRules[j].type : j \in DOMAIN ListedRules} |->
                          SelectSeq(ListedRules, LAMBDA r : r.type = k)]
  /\ UNCHANGED <<patternOk, dir>>

Init ==
  /\ patternOk \in BOOLEAN
  /\ dir \in UNION {[1..n -> Entry] : n \in 0..MaxEntries}
  /\ outcome = "loading"
  /\ rulesets = <<>>

Next == Load

Spec == Init /\ [][Next]_avars /\ WF_avars(Load)

=============================================================================
