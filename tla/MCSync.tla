----------------------------- MODULE MCSync -----------------------------
(* One instance publishes two summaries with overlapping pushes; another   *)
(* reads them with overlapping pulls.                                      *)
EXTENDS CollaborationSync

CONSTANTS writer, reader, push1, push2, pull1, pull2

MCBy == [k \in Pushes \cup Pulls |-> IF k \in Pushes THEN writer ELSE reader]
MCMaxChanges == [i \in Instances |-> IF i = writer THEN 2 ELSE 0]
==========================================================================
