---------------------------- MODULE MCRuleStores ----------------------------
(* The stores behind the rules of one process: the failure counters and the  *)
(* event history share a backend and a clock (RuleStores).                    *)
(* A run looks at one of them at a time:                                      *)
(*   windows   failures of one address over several windows                   *)
(*   crowd     more addresses than the in-process store keeps counters for    *)
(*   history   threads appending to the event history                         *)
EXTENDS MCLoginCounters, EventHistory

ASSUME HistoryAssumption

VARIABLE focus  \* never changes

CrowdEnds == 2

counterVars == <<store, history>>

StoresInit ==
  /\ focus \in {"windows", "crowd", "history"}
  /\ Init /\ HistoryInit
  /\ focus = "crowd" => backend = "memory"

Windows ==
  /\ focus = "windows" /\ (LoginStep({ip1}) \/ Tick)
  /\ UNCHANGED <<historyStore, task, historyLogs>>

Crowd ==
  /\ focus = "crowd" /\ (LoginStep(Ips) \/ Tick)
  /\ now' <= CrowdEnds /\ \A ip \in Ips, t \in 0..now : seen'[ip][t] <= 1
  /\ UNCHANGED <<historyStore, task, historyLogs>>

History ==
  /\ focus = "history" /\ (EngineStep \/ HistoryTick)
  /\ UNCHANGED counterVars

StoresNext ==
  /\ Windows \/ Crowd \/ History
  /\ UNCHANGED <<backend, focus>>

StoresSpec == StoresInit /\ [][StoresNext]_<<vars, historyVars, focus>>

StoresSymmetry ==
  Permutations(Workers) \union Permutations(Keys) \union Permutations({ip2, ip3})

\* The type of every variable of both stores, and the history's caps on rows and keys.
StoresTypeOK == TypeOK /\ (focus = "history" => HistoryTypeOK)
=============================================================================
