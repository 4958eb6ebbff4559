-------------------------- MODULE MCAutomationRuns --------------------------
(* Model-checking instances of AutomationRuns.                             *)
EXTENDS AutomationRuns
=============================================================================
