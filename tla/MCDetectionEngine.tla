------------------------- MODULE MCDetectionEngine -------------------------
(* Instantiates DetectionEngine with three payload types, two of which have *)
(* rulesets, and the rule "Open netcat" of engine.rs test_rule_parse.       *)
EXTENDS DetectionEngine, TLC

CONSTANTS Exec, Send, Close,                  \* discriminants
          ExecNc, ExecLs, SendData, CloseConn, \* payloads
          OpenNetcat, AnyExec, SendRule,       \* rules
          w1, w2

MCKeys == {Exec, Send, Close}
MCPayloads == {ExecNc, ExecLs, SendData, CloseConn}
MCDiscriminant ==
  [p \in MCPayloads |->
     CASE p \in {ExecNc, ExecLs} -> Exec
       [] p = SendData -> Send
       [] p = CloseConn -> Close]
MCRules == {OpenNetcat, AnyExec, SendRule}
\* Exec has two rules, Send one, Close none.
MCRulesets == (Exec :> <<OpenNetcat, AnyExec>>) @@ (Send :> <<SendRule>>)
MCCondition ==
  (OpenNetcat :> {ExecNc}) @@ (AnyExec :> {ExecNc, ExecLs}) @@ (SendRule :> {SendData})
\* The two Exec rules share the name of test_rule_parse's rule, as when two
\* rule files both define "Open netcat".
MCNames == {"Open netcat", "Data sent"}
MCName ==
  (OpenNetcat :> "Open netcat") @@ (AnyExec :> "Open netcat") @@ (SendRule :> "Data sent")
MCWorkers == {w1, w2}
=============================================================================
