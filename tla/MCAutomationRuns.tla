-------------------------- MODULE MCAutomationRuns --------------------------
(* Small instances of AutomationRuns for TLC. *)
EXTENDS AutomationRuns, TLC

CONSTANTS x, y, t1, t2, j1, j2, j3, j4
Mixed == {<<>>, <<"wait", "email">>, <<"tag", "email">>}
Places == Permutations(Jobs)
=============================================================================
