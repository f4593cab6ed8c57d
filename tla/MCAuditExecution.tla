-------------------------- MODULE MCAuditExecution --------------------------
(* Instances of AuditExecution for TLC. *)
EXTENDS AuditExecution

\* one query against two targets, with execution providers of their own
TwoProviders == <<"openai", "anthropic">>

\* one query against one target
OneProvider == <<"openai">>

\* two models behind one gateway: one execution provider
SharedProvider == <<"openrouter", "openrouter">>
=============================================================================
