---------------------------- MODULE MCRuleLoader ----------------------------
(* Rule directories of up to two entries over eight rules: good rules of   *)
(* two types, rules of an unknown type with a good and a bad condition, a  *)
(* rule whose condition does not parse, and two whose conditions parse    *)
(* but do not build, in different type groups.                            *)
EXTENDS RuleLoader

R1 == [name |-> "netcat", type |-> "Exec", cond |-> "ok"]
R2 == [name |-> "dns", type |-> "Send", cond |-> "ok"]
R3 == [name |-> "shell", type |-> "Exec", cond |-> "ok"]
R4 == [name |-> "bogus", type |-> "Nope", cond |-> "syntax"]
R5 == [name |-> "typo", type |-> "Exec", cond |-> "syntax"]
R6 == [name |-> "mistyped", type |-> "Send", cond |-> "illtyped"]
R7 == [name |-> "wrongfield", type |-> "Exec", cond |-> "illtyped"]
R8 == [name |-> "unknown", type |-> "Nope", cond |-> "ok"]

MCKeys == {"Exec", "Send"}
MCTypeNames == {"Exec", "Send", "Nope"}
MCRawRules == {R1, R2, R3, R4, R5, R6, R7, R8}
MCFileBodies == {<<R1, R2>>, <<R3>>, <<R4>>, <<R5>>, <<R6, R3>>, <<R7>>, <<R8>>}
=============================================================================
