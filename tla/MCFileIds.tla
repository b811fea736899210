----------------------------- MODULE MCFileIds ------------------------------
(* A tree for the model checker; the numbers are those of RAIDA_Agent.h. *)
EXTENDS FileIds

path(place, coin, serial) == [place |-> place, coin |-> coin, serial |-> serial]

\* The smallest and the greatest serial numbers of half the width, in every directory.
SmallSerials ==
    {path("my_id_coins", 255, 1001), path("owners", 254, 7), path("statements", 254, 7),
     path("ANs", 0, 0), path("ANs", 1, 1), path("ANs", 1, Half - 1)}
=============================================================================
