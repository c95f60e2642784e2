---------------------------- MODULE MCProvider ----------------------------
(* Two attempts compete for one request, two retries compete to follow the *)
(* first, a third retry may follow one of them; a second request is        *)
(* executed besides, in two processes.                                     *)
EXTENDS ProviderProperties

CONSTANTS first, rival, retry, again, retry2, other, p1, p2, c1, c2, c3

MCAttempts == {first, rival, retry, again, retry2, other}
MCRequest == [a \in MCAttempts |-> IF a = other THEN 2 ELSE 1]
MCPrior == [a \in MCAttempts |->
    CASE a \in {retry, again} -> first [] a = retry2 -> retry [] OTHER -> None]
MCGranted == {retry}
MCProcesses == {p1, p2}
MCTwoHome == [c \in {c1, c3} |-> IF c = c1 THEN p1 ELSE p2]
===========================================================================
