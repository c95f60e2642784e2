---------------------------- MODULE MCEventStore ----------------------------
(* Two processes, one record and one claim; of the S0 logs the second is the *)
(* first, grown by a line, the third has a secret in one, and the fourth has *)
(* a line twice.                                                             *)
EXTENDS EventStore, TLC

CONSTANTS p1, p2, record, claim, old, grown, leaky, twice, line1, line2, v1, v2, secret

MCProcesses == {p1, p2}
MCRecords == {record}
MCClaims == {claim}
MCValues == {v1, v2, secret}
MCSecrets == {secret}
MCFiles == {old, grown, leaky, twice}
MCLines == old :> <<line1>> @@ grown :> <<line1, line2>>
           @@ leaky :> <<line1, secret>> @@ twice :> <<line2, line2>>
Symmetry == Permutations(MCProcesses) \cup Permutations({v1, v2})
=============================================================================
