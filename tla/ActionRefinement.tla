--------------------------- MODULE ActionRefinement ---------------------------
(***************************************************************************)
(* ActionExecution implements ActionContract as long as its requests and   *)
(* sweeps run one at a time.  What reviewers see is the committed status.  *)
(***************************************************************************)
EXTENDS ActionExecution

Contract == INSTANCE ActionContract WITH
    status    <- [a \in Actions |-> row[a].status],
    unchecked <- Unchecked,
    written   <- writes

\* One request at a time, the approval lifecycle keeps its contract: every outcome is
\* final, a refused proposal is never written, and none is written twice before one that
\* is not checked is written, whatever crashes, lapses or is edited on the ticket between
\* the statements of approveActionRequest, executeSingleApprovedAction and the sweeper.
KeepsContract == Contract!Spec
===============================================================================
