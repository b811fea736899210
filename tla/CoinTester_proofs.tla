-------------------------- MODULE CoinTester_proofs --------------------------
(***************************************************************************)
(* What the tester of coin converters promises, proved for any number of   *)
(* RAIDAs that select() has descriptors for.                               *)
(***************************************************************************)
EXTENDS CoinTester, TLAPS

\* The strengthening that every step of a sweep keeps.
SweepInv == TypeOK /\ DescriptorsInv /\ PortsInv /\ SuccessIsFromAsked

\* A sweep begins with no descriptor and no port.
LEMMA InitialSweep == Init => SweepInv
BY NumbersAssumption DEF Init, SweepInv, TypeOK, DescriptorsInv, PortsInv, InUse,
    SuccessIsFromAsked, Asked, NoPort

\* The lowest free descriptor is the one after those in use.
LEMMA NextDescriptor ==
    ASSUME TypeOK, DescriptorsInv, NEW d \in Nat, IsLowestFree(d, open)
    PROVE  /\ \A e \in open : e < d
           /\ d <= FirstFree + k + (IF InUse THEN 1 ELSE 0)
           /\ FirstFree..d \subseteq open \cup {d}
<1> USE NumbersAssumption
<1>1. \A e \in open : e \in Nat
    BY DEF TypeOK
<1>2. k \in Nat
    BY DEF TypeOK, Asked
<1>3. \A e \in open : e < d
    <2>1. SUFFICES ASSUME NEW e \in open, d <= e PROVE FALSE
        BY <1>1
    <2>2. d \in FirstFree..e
        BY <1>1, <2>1 DEF IsLowestFree
    <2> QED BY <2>1, <2>2 DEF DescriptorsInv, IsLowestFree
<1>4. d <= FirstFree + k + (IF InUse THEN 1 ELSE 0)
    <2>1. CASE d = FirstFree
        BY <1>2, <2>1 DEF InUse
    <2>2. CASE d # FirstFree
        <3>1. d - 1 \in open
            BY <2>2 DEF IsLowestFree
        <3>2. d - 1 < FirstFree + k + (IF InUse THEN 1 ELSE 0)
            BY <3>1 DEF DescriptorsInv
        <3> QED BY <3>2, <1>2 DEF InUse
    <2> QED BY <2>1, <2>2
<1>5. FirstFree..d \subseteq open \cup {d}
    BY DEF IsLowestFree
<1> QED BY <1>3, <1>4, <1>5

\* A new socket is the last descriptor and has a port of its own.
LEMMA CreateStep == SweepInv /\ CreateSocket => SweepInv'
<1> USE NumbersAssumption
<1> SUFFICES ASSUME SweepInv, CreateSocket PROVE SweepInv'
    OBVIOUS
<1>1. PICK d \in FirstFree..FirstFree + 2 * Raidas :
        IsLowestFree(d, open) /\ sockfd' = d /\ open' = open \cup {d}
    BY DEF CreateSocket
<1>2. d \in Nat /\ k \in Asked /\ k' = k /\ pc' = "key" /\ ~ InUse /\ InUse'
    BY DEF CreateSocket, SweepInv, TypeOK, InUse
<1>3. TypeOK'
    BY <1>1, <1>2 DEF CreateSocket, SweepInv, TypeOK, Asked, NewPort
<1>4. DescriptorsInv'
    <2>1. /\ \A e \in open : e < d
          /\ d <= FirstFree + k
          /\ FirstFree..d \subseteq open \cup {d}
        BY <1>1, <1>2, NextDescriptor DEF SweepInv, Asked
    <2>2. \A e \in open : /\ FirstFree <= e /\ e < FirstFree + k + 1
                          /\ FirstFree..e \subseteq open'
        BY <1>1, <1>2 DEF SweepInv, TypeOK, DescriptorsInv, Asked
    <2>3. FirstFree <= d /\ d < FirstFree + k + 1 /\ FirstFree..d \subseteq open'
        BY <1>1, <1>2, <2>1 DEF Asked
    <2>4. \A e \in open' : e <= sockfd'
        BY <1>1, <1>2, <2>1 DEF SweepInv, TypeOK
    <2> QED BY <1>1, <1>2, <2>2, <2>3, <2>4 DEF DescriptorsInv
<1>5. PortsInv'
    BY <1>2 DEF CreateSocket, SweepInv, TypeOK, PortsInv, NewPort, Asked
<1>6. SuccessIsFromAsked'
    BY DEF CreateSocket, SweepInv, SuccessIsFromAsked
<1> QED BY <1>3, <1>4, <1>5, <1>6 DEF SweepInv

\* The key file is closed again.
LEMMA KeyStep == SweepInv /\ LoadKeyAndSend => SweepInv'
<1> SUFFICES ASSUME SweepInv, LoadKeyAndSend PROVE SweepInv'
    OBVIOUS
<1>1. open' = open
    BY DescriptorsFit DEF LoadKeyAndSend, StaysOpen
<1>2. k \in Asked /\ k' = k /\ InUse /\ InUse' /\ UNCHANGED <<sockfd, port>>
    BY DEF LoadKeyAndSend, SweepInv, TypeOK, InUse
<1>3. TypeOK'
    BY <1>1 DEF LoadKeyAndSend, SweepInv, TypeOK
<1>4. DescriptorsInv'
    BY <1>1, <1>2 DEF SweepInv, DescriptorsInv
<1>5. PortsInv'
    BY <1>2 DEF SweepInv, PortsInv
<1>6. SuccessIsFromAsked'
    BY DEF LoadKeyAndSend, SweepInv, SuccessIsFromAsked
<1> QED BY <1>3, <1>4, <1>5, <1>6 DEF SweepInv

\* The next RAIDA is one that is asked, or the sweep is over.
LEMMA LoopType ==
    ASSUME TypeOK, InUse, Advance
    PROVE  /\ k' = k + 1 /\ ~ InUse'
           /\ pc' \in {"create", "key", "select", "done"}
           /\ k' \in IF pc' = "done" THEN {Raidas} ELSE Asked
BY NumbersAssumption DEF TypeOK, InUse, Advance, LoopAt, Asked

\* A socket given up makes room for one more.
LEMMA TimeOutStep == SweepInv /\ GiveUp => SweepInv'
<1> USE NumbersAssumption
<1> SUFFICES ASSUME SweepInv, GiveUp PROVE SweepInv'
    OBVIOUS
<1> USE DEF GiveUp
<1>1. k \in Asked /\ InUse
    BY DEF TimeOut, SweepInv, TypeOK, InUse
<1>2. /\ k' = k + 1 /\ ~ InUse' /\ open' = open
      /\ pc' \in {"create", "key", "select", "done"}
      /\ k' \in IF pc' = "done" THEN {Raidas} ELSE Asked
    BY <1>1, LoopType DEF TimeOut, SweepInv
<1>3. TypeOK'
    BY <1>1, <1>2 DEF TimeOut, SweepInv, TypeOK
<1>4. DescriptorsInv'
    BY <1>1, <1>2 DEF SweepInv, DescriptorsInv, Asked
<1>5. PortsInv'
    BY <1>2 DEF TimeOut, SweepInv, PortsInv
<1>6. SuccessIsFromAsked'
    BY <1>1 DEF TimeOut, SweepInv, TypeOK, SuccessIsFromAsked
<1> QED BY <1>3, <1>4, <1>5, <1>6 DEF SweepInv

\* The datagram at the socket of RAIDA k is the answer of RAIDA k.
LEMMA OwnAnswer ==
    ASSUME SweepInv, InUse, NEW r \in Asked, Waiting(r)
    PROVE  r = k
<1>1. k \in Asked
    BY DEF SweepInv, TypeOK, InUse
<1> QED BY <1>1, NumbersAssumption DEF SweepInv, PortsInv, Waiting, Asked, NoPort

\* The socket that is closed is the last one.
LEMMA ReceiveStep == SweepInv /\ ReceiveAnswer => SweepInv'
<1> USE NumbersAssumption
<1> SUFFICES ASSUME SweepInv, ReceiveAnswer PROVE SweepInv'
    OBVIOUS
<1>1. k \in Asked /\ InUse
    BY DEF ReceiveAnswer, SweepInv, TypeOK, InUse
<1>2. /\ k' = k + 1 /\ ~ InUse' /\ open' = open \ {sockfd}
      /\ pc' \in {"create", "key", "select", "done"}
      /\ k' \in IF pc' = "done" THEN {Raidas} ELSE Asked
    BY <1>1, LoopType DEF ReceiveAnswer, SweepInv
<1>3. heard' = [heard EXCEPT ![k] = k] /\ traffic' = [traffic EXCEPT ![k] = "received"]
    BY <1>1, OwnAnswer DEF ReceiveAnswer
<1>4. TypeOK'
    BY <1>1, <1>2, <1>3 DEF ReceiveAnswer, SweepInv, TypeOK, Asked
<1>5. DescriptorsInv'
    <2>1. sockfd \in Nat /\ \A d \in open : d \in Nat /\ d <= sockfd
        BY <1>1 DEF SweepInv, TypeOK, DescriptorsInv
    <2>2. \A d \in open' : FirstFree <= d /\ d < FirstFree + k'
        BY <1>1, <1>2 DEF SweepInv, TypeOK, DescriptorsInv, Asked
    <2>3. \A d \in open' : FirstFree..d \subseteq open'
        <3>1. SUFFICES ASSUME NEW d \in open', NEW e \in FirstFree..d PROVE e \in open'
            OBVIOUS
        <3>2. d \in open /\ d < sockfd
            BY <1>2, <2>1, <3>1
        <3>3. e \in open
            BY <3>1, <3>2 DEF SweepInv, DescriptorsInv
        <3> QED BY <1>2, <2>1, <3>1, <3>2, <3>3
    <2> QED BY <1>1, <1>2, <2>2, <2>3 DEF DescriptorsInv, Asked
<1>6. PortsInv'
    BY <1>2 DEF ReceiveAnswer, SweepInv, PortsInv
<1>7. SuccessIsFromAsked'
    BY <1>1, <1>3 DEF ReceiveAnswer, SweepInv, TypeOK, SuccessIsFromAsked
<1> QED BY <1>4, <1>5, <1>6, <1>7 DEF SweepInv

\* The network touches nothing of the tester.
LEMMA NetworkStep == SweepInv /\ Network => SweepInv'
<1> SUFFICES ASSUME SweepInv, Network PROVE SweepInv'
    OBVIOUS
<1>1. UNCHANGED <<pc, k, open, sockfd, port, status, heard>>
    BY DEF Network
<1>2. traffic' \in [Asked -> {"none", "asked", "answered", "arrived", "received", "lost"}]
    BY DEF Network, SweepInv, TypeOK
<1> QED BY <1>1, <1>2 DEF SweepInv, TypeOK, DescriptorsInv, PortsInv, InUse,
            SuccessIsFromAsked

\* Every step keeps the strengthening.
THEOREM SweepIsInvariant == Spec => []SweepInv
<1>1. SweepInv /\ [Next]_vars => SweepInv'
    <2>1. SweepInv /\ UNCHANGED vars => SweepInv'
        BY DEF vars, SweepInv, TypeOK, DescriptorsInv, PortsInv, InUse, SuccessIsFromAsked
    <2> QED BY <2>1, CreateStep, KeyStep, TimeOutStep, ReceiveStep, NetworkStep
            DEF Next, Tester
<1> QED BY <1>1, InitialSweep, PTL DEF Spec

\* Every variable of the tester keeps its type.
THEOREM TypesHold == Spec => []TypeOK
<1>1. SweepInv => TypeOK
    BY DEF SweepInv
<1> QED BY <1>1, SweepIsInvariant, PTL

\* SUCCESS is printed only for a RAIDA whose own answer was received, whatever
\* answers of others are still under way.
THEOREM SuccessIsOwn == Spec => []SuccessIsFromAsked
<1>1. SweepInv => SuccessIsFromAsked
    BY DEF SweepInv
<1> QED BY <1>1, SweepIsInvariant, PTL

\* FAIL is printed only if the answer was not there, because select() sees
\* every socket of a sweep.
THEOREM FailIsSilence == Spec => FailMeansSilence
<1> DEFINE Silence == \A r \in Asked : status[r] = "none" /\ status'[r] = "FAIL" =>
                        traffic[r] # "arrived"
<1>1. SweepInv /\ [Next]_vars => [Silence]_vars
    <2> SUFFICES ASSUME SweepInv, Next, NEW r \in Asked,
                        status[r] = "none", status'[r] = "FAIL"
                 PROVE  traffic[r] # "arrived"
        BY DEF Silence
    <2>1. TimeOut /\ r = k
        <3>1. status \in [Asked -> {"none", "SUCCESS", "FAIL"}]
            BY DEF SweepInv, TypeOK
        <3>2. status' # status
            OBVIOUS
        <3>3. CASE GiveUp
            BY <3>1, <3>3 DEF GiveUp, TimeOut
        <3>4. CASE ReceiveAnswer
            BY <3>1, <3>4 DEF ReceiveAnswer
        <3> QED BY <3>2, <3>3, <3>4
                DEF Next, Tester, Network, CreateSocket, LoadKeyAndSend
    <2>2. k \in Asked /\ InUse
        BY <2>1 DEF TimeOut, SweepInv, TypeOK, InUse
    <2>3. sockfd < WatchedMax
        <3>1. sockfd \in open /\ sockfd \in Nat /\ sockfd < FirstFree + k + 1
            BY <2>2 DEF SweepInv, TypeOK, DescriptorsInv
        <3> QED BY <2>2, <3>1, NumbersAssumption, DescriptorsFit DEF Asked
    <2>4. ~ Waiting(k)
        BY <2>1, <2>2, <2>3 DEF TimeOut, Readable
    <2> QED BY <2>1, <2>4 DEF Waiting
<1> QED BY <1>1, SweepIsInvariant, PTL DEF Spec, FailMeansSilence
=============================================================================
