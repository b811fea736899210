--------------------------- MODULE MCCoinConverter --------------------------
(* Requests for the model checker. *)
EXTENDS CoinConverter

ticketRequest(n) == [frames |-> n, header |-> "NO_ERR_CODE", ends |-> TRUE,
                     known |-> TRUE, fits |-> TRUE]
plain            == [ticketRequest(1) EXCEPT !.fits = FALSE]
unknown          == [ticketRequest(1) EXCEPT !.known = FALSE]

\* Requests of the wrong length are not encrypted, nor what b sends in two datagrams.
Requests == {ticketRequest(1), ticketRequest(2), plain, unknown}
Ciphers  == [c \in Clients, kind \in Kinds |-> kind # plain /\ ~ (c = "b" /\ kind.frames = 2)]

OneEach == [c \in Clients |-> c]
=============================================================================
