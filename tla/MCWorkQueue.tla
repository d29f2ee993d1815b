------------------------------ MODULE MCWorkQueue ------------------------------
(***************************************************************************)
(* Small instances of WorkQueue for TLC, each with some of the items still *)
(* to come, up to the first write that rests on what is no longer so.      *)
(***************************************************************************)
EXTENDS WorkQueue, TLC

CONSTANTS Triage, SeniorTriage, Monitoring, Person

\* Two proposals of a run of SeniorTriage, one of the others: enough for a set decided in part.
MCWidth == [x \in Agents |-> IF x = SeniorTriage THEN 2 ELSE 1]

\* An alert, two items of one agent, or one item each of two agents on one ticket.
ToCome == {Alerts, {<<Triage, 1>>, <<Triage, 2>>}, {<<Triage, 1>>, <<SeniorTriage, 1>>}}

MCInit == Init /\ {i \in Items : item[i] = NotQueued} \in ToCome

MCSpec == MCInit /\ [][~ stale /\ Next]_vars /\ Fairness
================================================================================
