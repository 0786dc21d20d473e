----------------------------- MODULE MCStateTx -----------------------------
(***************************************************************************)
(* Instances of StateTx for TLC: who runs which commands.                  *)
(***************************************************************************)
EXTENDS StateTx

CONSTANTS op, shell, timer

\* One shell in which commands that recover first alternate.
SoloCli  == {op}
SoloRuns == [p \in SoloCli |-> {"instance", "node", "backup", "cleanup", "recover", "cert"}]

\* Two shells, which between them use every command, and the daily timer.
PairCli  == {op, shell, timer}
PairRuns == [p \in PairCli |->
               CASE p = op    -> {"hysteria2", "backup", "rollback", "recover"}
                 [] p = shell -> {"node", "cleanup", "restore"}
                 [] p = timer -> {"cert"}]

\* An operator's changes in one shell and `recover` in another.
RaceCli  == {op, shell}
RaceRuns == [p \in RaceCli |-> IF p = shell THEN {"recover"} ELSE {"instance", "node"}]

\* The operator also uses a command recovery does not know of.
RulesRuns == [p \in SoloCli |-> {"rules", "node", "recover"}]

\* The operator restores backups.
RestoreRuns == [p \in SoloCli |-> {"restore", "node", "recover"}]
=============================================================================
