----------------------------- MODULE MCStartUp ------------------------------
(* Files for the model checker. *)
EXTENDS StartUp

text(t)  == [there |-> TRUE, text |-> t]
noNumber == [there |-> FALSE, text |-> <<>>]

\* RAIDA 0, 1 and 13; with a line feed, 1 reads like 228 and 13 like 1.
LineFeed == 10 - 48
numbers  == {noNumber, text(<<0>>), text(<<1>>), text(<<1, 3>>), text(<<1, LineFeed>>),
             text(<<1, 3, LineFeed>>)}

Numbers == [agent |-> numbers, services |-> numbers,
            converter |-> {noNumber, text(<<1>>)}]

ports(n, m) == [there |-> TRUE, mirror |-> "mirror", port |-> n, mirror_port |-> m,
                bytes_per_frame |-> 0]
noConfig    == [ports(0, 0) EXCEPT !.there = FALSE, !.mirror = "none"]
malformed   == [ports(0, 0) EXCEPT !.mirror = "none"]
configs     == {noConfig, malformed, ports(1, 2), ports(2, 1)}

\* server.bin, with frames that are long enough for a header or not.
server(n)   == [ports(1, 0) EXCEPT !.bytes_per_frame = n]

Configs == [agent |-> configs, services |-> configs,
            converter |-> {noConfig, server(1024), server(REQ_HEAD_MIN_LEN - 1)}]
=============================================================================
