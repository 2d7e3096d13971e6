--------------------------- MODULE MCShellExecution ---------------------------
(***************************************************************************)
(* Two commands, one in a terminal and one as a child process.             *)
(***************************************************************************)
EXTENDS ShellExecution, TLC

CONSTANTS p1, p2

NotifyAndInject == p1 :> "notify" @@ p2 :> "inject"
=============================================================================
