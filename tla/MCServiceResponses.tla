------------------------- MODULE MCServiceResponses -------------------------
(* Instances of ServiceResponses for TLC. *)
EXTENDS ServiceResponses, TLC

CONSTANTS data, coin_0, coin_1, ANs, note, a, b, c, d

\* data/note, data/coin_0/{d, ANs/{a, b}}, data/coin_1/c
Tree == (data   :> {note, coin_0, coin_1}) @@ (coin_0 :> {ANs, d}) @@
        (ANs    :> {a, b})                 @@ (coin_1 :> {c})

FilesUnder == (data   :> {note, a, b, c, d}) @@ (coin_0 :> {a, b, d}) @@
              (ANs    :> {a, b})             @@ (coin_1 :> {c})
Levels     == (data :> 1) @@ (coin_0 :> 2) @@ (ANs :> 3) @@ (coin_1 :> 2)
=============================================================================
