-------------------------- MODULE MCAuditAnalytics --------------------------
(* AuditAnalytics for TLC: one model at both levels, and audits without     *)
(* targets.                                                                 *)
EXTENDS AuditAnalytics, TLC

BothLevels == ("t1" :> "L1") @@ ("t2" :> "L2")
OneModel == ("t1" :> "m") @@ ("t2" :> "m")

LegacyTargets == {NoTarget}
LegacyLevel == NoTarget :> "L1"
LegacyModel == NoTarget :> "openai"
=============================================================================
