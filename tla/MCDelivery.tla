--------------------------- MODULE MCDelivery ---------------------------
(* Two pull requests that may be ordered, and two overlapping observations *)
EXTENDS GitHubDelivery, TLC

CONSTANTS pull1, pull2, observation1, observation2

DeliverySymmetry ==
    Permutations({pull1, pull2}) \cup Permutations({observation1, observation2})
==========================================================================
