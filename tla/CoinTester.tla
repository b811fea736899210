----------------------------- MODULE CoinTester -----------------------------
(***************************************************************************)
(* The program that tests which coin converters run (Old/test_program.c).  *)
(* It asks the RAIDAs one after the other, each from a socket of its own,  *)
(* waits a second for any answer, and prints SUCCESS or FAIL.  A RAIDA     *)
(* that does not answer in time costs a socket that is never closed, so    *)
(* that the descriptors grow during a sweep; select() looks at the first   *)
(* WatchedMax of them.                                                     *)
(*                                                                         *)
(* RAIDA k has one request and one answer.  The network loses and delays   *)
(* both; what is in an answer is not looked at.                            *)
(***************************************************************************)
EXTENDS Naturals

CONSTANTS
    Raidas,         \* how many RAIDAs it asks (25)
    FirstFree,      \* the first descriptor a new process may get (3)
    WatchedMax,     \* the first argument of select (32)
    KeyFiles        \* what opening and reading encryption_key.bin may give

ASSUME NumbersAssumption == Raidas \in Nat \ {0} /\ FirstFree \in Nat /\ WatchedMax \in Nat
ASSUME KeyAssumption == KeyFiles \subseteq {"whole", "missing", "short"}

\* A sweep in which nobody answers leaks a socket a RAIDA; a short key file
\* another descriptor, which this rules out.
ASSUME DescriptorsFit == FirstFree + Raidas <= WatchedMax /\ "short" \notin KeyFiles

Asked == 0..Raidas - 1

VARIABLES
    pc,             \* "create", "key", "select" or "done"
    k,              \* the RAIDA it tests
    open,           \* its descriptors, from FirstFree on
    sockfd,         \* the socket of RAIDA k
    port,           \* the port each socket was given, by the RAIDA asked
    traffic,        \* how far the request to each RAIDA and its answer are
    status,         \* what is printed
    heard           \* history: whose answer a SUCCESS stands for

vars == <<pc, k, open, sockfd, port, traffic, status, heard>>

NoPort == Raidas

Init ==
    /\ pc = "create" /\ k = 0
    /\ open = {} /\ sockfd = 0
    /\ port = [r \in Asked |-> NoPort]
    /\ traffic = [r \in Asked |-> "none"]
    /\ status = [r \in Asked |-> "none"]
    /\ heard = [r \in Asked |-> NoPort]

\* The system gives the lowest descriptor that is free.
IsLowestFree(d, fds) ==
    /\ d >= FirstFree /\ d \notin fds
    /\ \A e \in FirstFree..d - 1 : e \in fds

\* Seeded fault: one socket is bound for the whole sweep.
OnePort(r) == 0

\* A new socket has a port of its own, and keeps it.
NewPort(r) == r

CreateSocket ==
    /\ pc = "create"
    /\ \E d \in FirstFree..FirstFree + 2 * Raidas :
        /\ IsLowestFree(d, open)
        /\ sockfd' = d
        /\ open' = open \cup {d}
    /\ port' = [port EXCEPT ![k] = NewPort(k)]
    /\ pc' = "key"
    /\ UNCHANGED <<k, traffic, status, heard>>

\* Seeded fault: the key file is never closed.
LeftOpen(file, d) == IF file = "missing" THEN {} ELSE {d}

\* load_encrypt_key closes a file it has read, and not one that is short.
StaysOpen(file, d) == IF file = "short" THEN {d} ELSE {}

\* The request is sent whatever became of the key.
LoadKeyAndSend ==
    /\ pc = "key"
    /\ \E file \in KeyFiles, d \in FirstFree..FirstFree + 2 * Raidas :
        /\ IsLowestFree(d, open)
        /\ open' = open \cup StaysOpen(file, d)
    /\ traffic' = [traffic EXCEPT ![k] = "asked"]
    /\ pc' = "select"
    /\ UNCHANGED <<k, sockfd, port, status, heard>>

\* select() looks at sockfd, and there is a datagram.
Waiting(r)  == traffic[r] = "arrived" /\ port[r] = port[k]
Readable    == sockfd < WatchedMax /\ \E r \in Asked : Waiting(r)

\* Seeded fault: the loop ends one later.
OneMore(r) == IF r <= Raidas THEN "create" ELSE "done"

LoopAt(r) == IF r < Raidas THEN "create" ELSE "done"

Advance ==
    /\ k' = k + 1
    /\ pc' = LoopAt(k + 1)

\* Nothing within a second: `continue` leaves the socket open.
TimeOut ==
    /\ pc = "select" /\ ~ Readable
    /\ status' = [status EXCEPT ![k] = "FAIL"]
    /\ Advance
    /\ UNCHANGED <<open, sockfd, port, traffic, heard>>

\* Seeded fault: recvfrom without select.
WaitForever == FALSE /\ TimeOut

GiveUp == TimeOut

\* The first datagram at the socket is an answer, whoever sent it.
ReceiveAnswer ==
    /\ pc = "select" /\ Readable
    /\ \E r \in Asked :
        /\ Waiting(r)
        /\ heard' = [heard EXCEPT ![k] = r]
        /\ traffic' = [traffic EXCEPT ![r] = "received"]
    /\ status' = [status EXCEPT ![k] = "SUCCESS"]
    /\ open' = open \ {sockfd}
    /\ Advance
    /\ UNCHANGED <<sockfd, port>>

Tester == CreateSocket \/ LoadKeyAndSend \/ GiveUp \/ ReceiveAnswer

-----------------------------------------------------------------------------
(***************************************************************************)
(* The network and the RAIDAs: a request is answered or lost, an answer    *)
(* arrives, sooner or later, or is lost.                                   *)
(***************************************************************************)
Network ==
    \E r \in Asked :
        /\ \/ traffic[r] = "asked" /\ traffic' = [traffic EXCEPT ![r] = "answered"]
           \/ traffic[r] = "answered" /\ traffic' = [traffic EXCEPT ![r] = "arrived"]
           \/ /\ traffic[r] \in {"asked", "answered"}
              /\ traffic' = [traffic EXCEPT ![r] = "lost"]
        /\ UNCHANGED <<pc, k, open, sockfd, port, status, heard>>

Next == Tester \/ Network

Spec     == Init /\ [][Next]_vars
LiveSpec == Spec /\ WF_vars(Tester)

-----------------------------------------------------------------------------
\* Every variable has its type.
TypeOK ==
    /\ pc \in {"create", "key", "select", "done"}
    /\ k \in IF pc = "done" THEN {Raidas} ELSE Asked
    /\ open \subseteq Nat /\ sockfd \in Nat
    /\ port \in [Asked -> 0..Raidas]
    /\ traffic \in [Asked -> {"none", "asked", "answered", "arrived", "received", "lost"}]
    /\ status \in [Asked -> {"none", "SUCCESS", "FAIL"}]
    /\ heard \in [Asked -> 0..Raidas]

(***************************************************************************)
(* SUCCESS is printed for a RAIDA that has answered.  (recvfrom takes any  *)
(* datagram, and the answer of a RAIDA given up may come while the next    *)
(* ones are tested: it must go to the socket that was left open.)          *)
(***************************************************************************)
SuccessIsFromAsked == \A r \in Asked : status[r] = "SUCCESS" => heard[r] = r

(***************************************************************************)
(* FAIL is printed only if no answer is there when the second is over.     *)
(* (select() looks at 32 descriptors.  With every socket of the sweep      *)
(* leaked, the last of 25 is still one of them.)                           *)
(***************************************************************************)
FailMeansSilence ==
    [][\A r \in Asked : status[r] = "none" /\ status'[r] = "FAIL" =>
        traffic[r] # "arrived"]_vars

\* A sweep ends, and says something of every RAIDA, whatever is lost.
SweepEnds == <>(pc = "done" /\ \A r \in Asked : status[r] # "none")

-----------------------------------------------------------------------------
(***************************************************************************)
(* What the proofs rest on.  The descriptors are the lowest ones, the      *)
(* socket in use is the last of them, and there is one a RAIDA at most;    *)
(* ports are not shared.                                                   *)
(***************************************************************************)
InUse == pc \in {"key", "select"}

DescriptorsInv ==
    /\ \A d \in open : /\ FirstFree <= d
                       /\ d < FirstFree + k + (IF InUse THEN 1 ELSE 0)
                       /\ FirstFree..d \subseteq open
    /\ InUse => sockfd \in open /\ \A d \in open : d <= sockfd

PortsInv ==
    /\ \A r \in Asked : port[r] \in {r, NoPort}
    /\ InUse => port[k] = k
=============================================================================
