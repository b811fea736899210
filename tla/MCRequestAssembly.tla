------------------------- MODULE MCRequestAssembly --------------------------
(* Requests for the model checker: three clients, two of them on one host. *)
EXTENDS RequestAssembly

page(n)     == [frames |-> n, header |-> "NO_ERR_CODE", ends |-> TRUE,
                known |-> TRUE, fits |-> TRUE]
wrongLength == [page(2) EXCEPT !.fits = FALSE]
unknown     == [page(1) EXCEPT !.known = FALSE]
wrongRaida  == [page(1) EXCEPT !.header = "WRONG_RAIDA"]

AnyRequest == {page(2), wrongLength, unknown, wrongRaida}

OneHost == [c \in Clients |-> IF c = "c" THEN "c" ELSE "a"]
=============================================================================
