---------------------------- MODULE MCAuditTrail ----------------------------
(* Small instances of AuditTrail: deployments where everything in a request  *)
(* may fail, and one with the queued handler and an error of its sink.       *)
EXTENDS AuditTrail

CONSTANTS w1, w2, c1

MCWorkers == {w1, w2}

Setting(queued, rules, faults, answers, requests) ==
  [queued |-> queued, logOk |-> ~rules, consumers |-> rules, sessions |-> ~queued,
   faults |-> faults, ignored |-> IF queued THEN {FALSE} ELSE BOOLEAN, answers |-> answers,
   requests |-> requests, events |-> IF queued THEN 0 ELSE 1]

\* The third lets two requests mint an id for the same session and a third one follow.
MCSettings ==
  {Setting(FALSE, TRUE, AuditFaultKinds, {"good", "bad", "raise"}, 2),
   Setting(FALSE, FALSE, {"prepare_error"}, {"good", "bad", "unlisted"}, 2),
   [Setting(FALSE, TRUE, {}, {"good"}, 3) EXCEPT !.events = 0, !.ignored = {FALSE}],
   Setting(TRUE, FALSE, {}, {"bad"}, 3)}
=============================================================================
