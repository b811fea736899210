--------------------------- MODULE StartUp_proofs ---------------------------
(***************************************************************************)
(* Who serves an agent, proved for any hosts and any files that FilesFit   *)
(* allows.                                                                 *)
(***************************************************************************)
EXTENDS StartUp, TLAPS

\* Every variable has its type, except for the numbers read.
ShapeInv ==
    /\ FilesFit
    /\ pc \in [Programs -> PcStates]
    /\ raida_id \in [Programs -> 0..255]
    /\ bytes_per_frame \in [Programs -> Nat]
    /\ port_number \in [Programs -> Nat]
    /\ echoed \in [Programs -> BOOLEAN]
    /\ request \in [to : Programs, raida_id : 0..255]
    /\ answer \in [from : Programs, raida_id : 0..255, frames : 0..1, echo : BOOLEAN,
                   status : Errors \cup {"none", "MIRROR_REPORT_RETURNED"}]
    /\ served_by \in Programs

StartInv == ShapeInv /\ GlobalsInv /\ RequestInv /\ AnswerInv /\ ServedInv

\* The agent is none of the servers.
LEMMA AgentIsNoServer == Agent \in Programs /\ Agent \notin Services /\ Services \subseteq Programs
BY DEF Programs, Agent, Services

\* A file that is there has a number of eight bits, and a port.
LEMMA FilesRead ==
    ASSUME FilesFit, NEW p \in Programs
    PROVE  /\ number[p].there => RaidaId(number[p].text) \in 0..255
           /\ BytesPerFrame(number[p]) \in Nat
           /\ config[p].bytes_per_frame \in Nat
           /\ number[p].there \in BOOLEAN /\ config[p].there \in BOOLEAN
           /\ Port(p) \in Nat
<1>1. p.role \in Roles
    BY DEF Programs, Agent, Services, Converters, Roles
<1>2. number[p] \in NumberFile /\ (number[p].there => number[p].text # <<>>)
    BY <1>1, FilesAssumption DEF FilesFit
<1>3. config[p] \in ConfigFile
    BY <1>1, FilesAssumption DEF FilesFit
<1>4. ASSUME number[p].there PROVE RaidaId(number[p].text) \in 0..255
    <2> DEFINE t == number[p].text
    <2>1. t \in Seq(Int) /\ t # <<>>
        BY <1>2, <1>4 DEF NumberFile, Texts
    <2>2. t[1] \in Int /\ (Len(t) = 2 => t[2] \in Int)
        BY <2>1
    <2>3. (IF Len(t) = 2 THEN t[1] * 10 + t[2] ELSE t[1]) \in Int
        BY <2>2
    <2> HIDE DEF t
    <2> QED BY <2>3 DEF RaidaId, t
<1> QED BY <1>2, <1>3, <1>4 DEF NumberFile, ConfigFile, BytesPerFrame, Port

\* Programs start with nothing read, and nothing is under way.
LEMMA InitialStart == Init => StartInv
BY AgentIsNoServer DEF Init, StartInv, ShapeInv, GlobalsInv, RequestInv, AnswerInv,
    ServedInv, Nothing, NoAnswer, PcStates, Configured, Errors

\* A program that has a file may use it; services goes on without.
LEMMA LoadStep ==
    ASSUME StartInv, NEW p \in Programs, LoadRaidaNo(p)
    PROVE  StartInv'
<1> USE AgentIsNoServer
<1>1. FilesFit' /\ UNCHANGED <<number, config>>
    BY DEF LoadRaidaNo, files, StartInv, ShapeInv, FilesFit
<1>2. /\ pc' \in [Programs -> PcStates]
      /\ pc'[p] \in {"numbered", "exited"}
      /\ pc'[p] = "numbered" => number[p].there \/ p \in Services
      /\ \A q \in Programs \ {p} : pc'[q] = pc[q]
    BY DEF LoadRaidaNo, After, StartInv, ShapeInv, PcStates
<1>3. /\ raida_id' \in [Programs -> 0..255]
      /\ raida_id'[p] = IF number[p].there THEN RaidaId(number[p].text) ELSE 0
      /\ \A q \in Programs \ {p} : raida_id'[q] = raida_id[q]
    <2>1. raida_id \in [Programs -> 0..255] /\ raida_id[p] = 0
        BY DEF LoadRaidaNo, StartInv, ShapeInv, GlobalsInv
    <2>2. number[p].there => RaidaId(number[p].text) \in 0..255
        BY FilesRead DEF StartInv, ShapeInv
    <2> QED BY <2>1, <2>2 DEF LoadRaidaNo
<1>4. /\ bytes_per_frame' \in [Programs -> Nat]
      /\ p \in Services => bytes_per_frame'[p] = BytesPerFrame(number[p])
      /\ \A q \in Programs \ {p} : bytes_per_frame'[q] = bytes_per_frame[q]
    <2>1. bytes_per_frame \in [Programs -> Nat]
        BY DEF StartInv, ShapeInv
    <2>2. BytesPerFrame(number[p]) \in Nat
        BY FilesRead DEF StartInv, ShapeInv
    <2>3. bytes_per_frame' = [bytes_per_frame EXCEPT ![p] =
                                 IF p \in Converters THEN @ ELSE BytesPerFrame(number[p])]
        BY DEF LoadRaidaNo
    <2>4. p \in Services => p \notin Converters
        BY DEF Services, Converters
    <2> QED BY <2>1, <2>2, <2>3, <2>4
<1>5. pc[p] = "start" /\ UNCHANGED <<port_number, echoed, request, answer>>
    BY DEF LoadRaidaNo
<1>6. served_by' \in {served_by, Agent}
    BY DEF LoadRaidaNo
<1>7. ShapeInv'
    BY <1>1, <1>2, <1>3, <1>4, <1>5, <1>6 DEF StartInv, ShapeInv
<1>8. GlobalsInv'
    <2> SUFFICES ASSUME NEW q \in Programs PROVE GlobalsInv!(q)'
        BY DEF GlobalsInv
    <2>1. CASE q = p
        BY <2>1, <1>1, <1>2, <1>3, <1>4, <1>5 DEF StartInv, GlobalsInv, Configured
    <2>2. CASE q # p
        BY <2>2, <1>1, <1>2, <1>3, <1>4, <1>5 DEF StartInv, GlobalsInv, Configured, Port
    <2> QED BY <2>1, <2>2
<1>9. RequestInv'
    <2>1. request.to # Agent => p # Agent /\ p # request.to
        BY <1>5 DEF StartInv, RequestInv
    <2> QED BY <2>1, <1>2, <1>3, <1>5 DEF StartInv, ShapeInv, RequestInv
<1>10. AnswerInv' /\ ServedInv'
    <2>1. answer # NoAnswer => p # Agent
        BY <1>5 DEF StartInv, AnswerInv
    <2> QED BY <1>1, <1>2, <1>5, <1>6, <2>1 DEF StartInv, AnswerInv, ServedInv, Served
<1> QED BY <1>7, <1>8, <1>9, <1>10 DEF StartInv

\* The same of the second file.
LEMMA ConfigurationStep ==
    ASSUME StartInv, NEW p \in Programs, ReadConfiguration(p)
    PROVE  StartInv'
<1> USE AgentIsNoServer
<1>1. FilesFit' /\ UNCHANGED <<number, config>>
    BY DEF ReadConfiguration, files, StartInv, ShapeInv, FilesFit
<1>2. /\ pc' \in [Programs -> PcStates]
      /\ pc'[p] \in {"configured", "exited"}
      /\ pc'[p] = "configured" => config[p].there \/ p \in Services
      /\ \A q \in Programs \ {p} : pc'[q] = pc[q]
    BY DEF ReadConfiguration, After, StartInv, ShapeInv, PcStates
<1>3. /\ port_number' \in [Programs -> Nat]
      /\ port_number'[p] = IF config[p].there THEN Port(p) ELSE port_number[p]
      /\ \A q \in Programs \ {p} : port_number'[q] = port_number[q]
    <2>1. port_number \in [Programs -> Nat]
        BY DEF StartInv, ShapeInv
    <2>2. Port(p) \in Nat
        BY FilesRead DEF StartInv, ShapeInv
    <2>3. port_number' = [port_number EXCEPT ![p] = IF config[p].there THEN Port(p) ELSE @]
        BY DEF ReadConfiguration
    <2> QED BY <2>1, <2>2, <2>3
<1>4. pc[p] = "numbered"
      /\ UNCHANGED <<raida_id, echoed, request, answer, served_by>>
    BY DEF ReadConfiguration
<1>4a. /\ bytes_per_frame' \in [Programs -> Nat]
      /\ \A q \in Services : bytes_per_frame'[q] = bytes_per_frame[q]
    <2>1. bytes_per_frame \in [Programs -> Nat]
        BY DEF StartInv, ShapeInv
    <2>2. config[p].bytes_per_frame \in Nat
        BY FilesRead DEF StartInv, ShapeInv
    <2>3. bytes_per_frame' = [bytes_per_frame EXCEPT ![p] =
             IF p \in Converters /\ config[p].there THEN config[p].bytes_per_frame ELSE @]
        BY DEF ReadConfiguration
    <2>4. p \in Services => p \notin Converters
        BY DEF Services, Converters
    <2> QED BY <2>1, <2>2, <2>3, <2>4
<1>5. ShapeInv'
    BY <1>1, <1>2, <1>3, <1>4, <1>4a DEF StartInv, ShapeInv
<1>6. GlobalsInv'
    <2> SUFFICES ASSUME NEW q \in Programs PROVE GlobalsInv!(q)'
        BY DEF GlobalsInv
    <2>1. CASE q = p
        BY <2>1, <1>1, <1>2, <1>3, <1>4, <1>4a DEF StartInv, GlobalsInv, Configured, Port
    <2>2. CASE q # p
        BY <2>2, <1>1, <1>2, <1>3, <1>4, <1>4a DEF StartInv, GlobalsInv, Configured, Port
    <2> QED BY <2>1, <2>2
<1>7. RequestInv'
    <2>1. request.to # Agent => p # Agent /\ p # request.to
        BY <1>4 DEF StartInv, RequestInv
    <2> QED BY <2>1, <1>2, <1>3, <1>4 DEF StartInv, ShapeInv, RequestInv
<1>8. AnswerInv' /\ ServedInv'
    <2>1. answer # NoAnswer => p # Agent
        BY <1>4 DEF StartInv, AnswerInv
    <2> QED BY <1>1, <1>2, <1>4, <2>1 DEF StartInv, AnswerInv, ServedInv, Served
<1> QED BY <1>5, <1>6, <1>7, <1>8 DEF StartInv

\* Binding moves a server only.
LEMMA SocketStep ==
    ASSUME StartInv, NEW p \in Programs, InitUdpSocket(p)
    PROVE  StartInv'
<1> USE AgentIsNoServer
<1>1. FilesFit' /\ UNCHANGED <<number, config, raida_id, bytes_per_frame, port_number,
                               echoed, request, answer, served_by>>
    BY DEF InitUdpSocket, files, globals, StartInv, ShapeInv, FilesFit
<1>2. /\ p # Agent /\ pc[p] = "configured"
      /\ pc' \in [Programs -> PcStates]
      /\ pc'[p] \in {"listening", "exited"}
      /\ \A q \in Programs \ {p} : pc'[q] = pc[q]
    BY DEF InitUdpSocket, StartInv, ShapeInv, PcStates
<1>3. ShapeInv'
    BY <1>1, <1>2 DEF StartInv, ShapeInv
<1>4. GlobalsInv'
    <2> SUFFICES ASSUME NEW q \in Programs PROVE GlobalsInv!(q)'
        BY DEF GlobalsInv
    <2>1. CASE q = p
        BY <2>1, <1>1, <1>2 DEF StartInv, GlobalsInv, Configured, Port
    <2>2. CASE q # p
        BY <2>2, <1>1, <1>2 DEF StartInv, GlobalsInv, Configured, Port
    <2> QED BY <2>1, <2>2
<1>5. RequestInv'
    <2>1. request.to # Agent => p # request.to
        BY <1>2 DEF StartInv, RequestInv
    <2> QED BY <2>1, <1>1, <1>2 DEF StartInv, ShapeInv, RequestInv
<1>6. AnswerInv' /\ ServedInv'
    BY <1>1, <1>2 DEF StartInv, AnswerInv, ServedInv, Served
<1> QED BY <1>3, <1>4, <1>5, <1>6 DEF StartInv

\* The agent asks somebody who listens, or nobody.
LEMMA CallStep == StartInv /\ CallReportChanges => StartInv'
<1> SUFFICES ASSUME StartInv, CallReportChanges PROVE StartInv'
    OBVIOUS
<1> USE AgentIsNoServer
<1>1. FilesFit' /\ UNCHANGED <<number, config, raida_id, bytes_per_frame, port_number,
                               echoed, answer, served_by>>
    BY DEF CallReportChanges, files, globals, StartInv, ShapeInv, FilesFit
<1>2. /\ pc[Agent] = "configured"
      /\ pc' \in [Programs -> PcStates]
      /\ pc'[Agent] = "waiting"
      /\ \A q \in Programs \ {Agent} : pc'[q] = pc[q]
    BY DEF CallReportChanges, StartInv, ShapeInv, PcStates
<1>3. /\ request' \in [to : Programs, raida_id : 0..255]
      /\ request'.to # Agent => /\ request'.raida_id = raida_id[Agent]
                                /\ pc[request'.to] = "listening"
                                /\ port_number[request'.to] # 0
    <2>1. CASE UNCHANGED request
        BY <2>1, <1>2 DEF StartInv, ShapeInv, RequestInv
    <2>2. ASSUME NEW p \in Programs, Holds(p, config[Agent].mirror, port_number[Agent]),
                 request' = [to |-> p, raida_id |-> raida_id[Agent]]
          PROVE <1>3
        BY <2>2 DEF Holds, StartInv, ShapeInv
    <2> QED BY <2>1, <2>2 DEF CallReportChanges
<1>4. ShapeInv'
    BY <1>1, <1>2, <1>3 DEF StartInv, ShapeInv
<1>5. GlobalsInv'
    <2> SUFFICES ASSUME NEW q \in Programs PROVE GlobalsInv!(q)'
        BY DEF GlobalsInv
    <2>1. CASE q = Agent
        BY <2>1, <1>1, <1>2 DEF StartInv, GlobalsInv, Configured, Port
    <2>2. CASE q # Agent
        BY <2>2, <1>1, <1>2 DEF StartInv, GlobalsInv, Configured, Port
    <2> QED BY <2>1, <2>2
<1>6. RequestInv'
    BY <1>1, <1>2, <1>3 DEF StartInv, ShapeInv, RequestInv
<1>7. AnswerInv' /\ ServedInv'
    BY <1>1, <1>2 DEF StartInv, AnswerInv, ServedInv, Served
<1> QED BY <1>4, <1>5, <1>6, <1>7 DEF StartInv

\* Only services with both files and the agent's number return a report.
LEMMA ListenStep ==
    ASSUME StartInv, NEW p \in Programs, ListenRequest(p)
    PROVE  StartInv'
<1> USE AgentIsNoServer
<1>1. FilesFit' /\ UNCHANGED <<number, config, pc, raida_id, bytes_per_frame, port_number,
                               served_by>>
    BY DEF ListenRequest, files, globals, StartInv, ShapeInv, FilesFit
<1>2. request.to = p /\ p # Agent /\ request' = Nothing
    BY DEF ListenRequest
<1>3. PICK status \in HeaderStatus(p, request) :
        /\ echoed' = [echoed EXCEPT ![p] = @ \/ status = "NO_ERR_CODE"]
        /\ answer' = [from |-> p, raida_id |-> raida_id[p], echo |-> echoed'[p],
                      status |-> IF status # "NO_ERR_CODE" THEN status
                                 ELSE IF p \in Services THEN "MIRROR_REPORT_RETURNED"
                                 ELSE "INVALID_END_OF_REQ",
                      frames |-> IF p \in Services THEN 1 ELSE 0]
    BY DEF ListenRequest
<1>4. echoed' \in [Programs -> BOOLEAN] /\ echoed'[p] \in BOOLEAN
    BY <1>3 DEF StartInv, ShapeInv
<1>5. status \in {"INVALID_EN_CODE", "INVALID_PACKET_LEN", "WRONG_RAIDA", "NO_ERR_CODE"}
    BY <1>3 DEF HeaderStatus
<1>6. answer'.status \in Errors \cup {"none", "MIRROR_REPORT_RETURNED"}
    BY <1>3, <1>5 DEF Errors
<1>7. ShapeInv'
    <2>1. answer' \in [from : Programs, raida_id : 0..255, frames : 0..1, echo : BOOLEAN,
                       status : Errors \cup {"none", "MIRROR_REPORT_RETURNED"}]
        BY <1>3, <1>4, <1>6 DEF StartInv, ShapeInv
    <2>2. request' \in [to : Programs, raida_id : 0..255]
        BY <1>2 DEF Nothing
    <2> QED BY <1>1, <1>4, <2>1, <2>2 DEF StartInv, ShapeInv
<1>8. GlobalsInv' /\ ServedInv'
    BY <1>1 DEF StartInv, GlobalsInv, ServedInv, Served, Port
<1>9. RequestInv'
    BY <1>2 DEF RequestInv, Nothing
<1>10. AnswerInv'
    <2>0. pc[Agent] = "waiting" /\ request'.to = Agent
        BY <1>2 DEF StartInv, RequestInv, Nothing
    <2> SUFFICES ASSUME answer'.status = "MIRROR_REPORT_RETURNED" PROVE Served(p)
        <3>1. answer'.from = p
            BY <1>3
        <3> QED BY <1>1, <2>0, <3>1 DEF AnswerInv, Served
    <2>1. status = "NO_ERR_CODE" /\ p \in Services
        BY <1>3, <1>5
    <2>2. bytes_per_frame[p] >= REQ_HEAD_MIN_LEN /\ request.raida_id = raida_id[p]
        <3>1. bytes_per_frame[p] \in Nat
            BY DEF StartInv, ShapeInv
        <3> QED BY <1>3, <2>1, <3>1 DEF HeaderStatus, REQ_HEAD_MIN_LEN
    <2>3. pc[Agent] = "waiting" /\ raida_id[p] = raida_id[Agent]
          /\ pc[p] = "listening" /\ port_number[p] # 0
        BY <1>2, <2>2 DEF StartInv, RequestInv
    <2>4. number[p].there /\ config[p].there /\ raida_id[p] = RaidaId(number[p].text)
        BY <2>1, <2>2, <2>3 DEF StartInv, GlobalsInv, BytesPerFrame, REQ_HEAD_MIN_LEN
    <2>5. number[Agent].there /\ config[Agent].there
          /\ raida_id[Agent] = RaidaId(number[Agent].text)
        BY <2>3 DEF StartInv, GlobalsInv, Configured
    <2> QED BY <2>1, <2>3, <2>4, <2>5 DEF Served
<1> QED BY <1>7, <1>8, <1>9, <1>10 DEF StartInv

\* The end of a run, with or without an answer: the agent is a new process.
LEMMA EndStep ==
    ASSUME StartInv, EndRun, UNCHANGED <<files, echoed, request>>,
           request.to = Agent, answer' = NoAnswer,
           served_by' \in Programs, served_by' # Agent => Served(served_by')
    PROVE  StartInv'
<1> USE AgentIsNoServer
<1>1. FilesFit' /\ UNCHANGED <<number, config>>
    BY DEF files, StartInv, ShapeInv, FilesFit
<1>2. /\ pc' \in [Programs -> PcStates] /\ raida_id' \in [Programs -> 0..255]
      /\ bytes_per_frame' \in [Programs -> Nat] /\ port_number' \in [Programs -> Nat]
      /\ pc'[Agent] = "start" /\ raida_id'[Agent] = 0
      /\ bytes_per_frame'[Agent] = 0 /\ port_number'[Agent] = 0
      /\ \A q \in Programs \ {Agent} :
            /\ pc'[q] = pc[q] /\ raida_id'[q] = raida_id[q]
            /\ bytes_per_frame'[q] = bytes_per_frame[q] /\ port_number'[q] = port_number[q]
    BY DEF EndRun, StartInv, ShapeInv, PcStates
<1>3. ShapeInv'
    <2>1. NoAnswer \in [from : Programs, raida_id : 0..255, frames : 0..1, echo : BOOLEAN,
                        status : Errors \cup {"none", "MIRROR_REPORT_RETURNED"}]
        BY DEF NoAnswer
    <2> QED BY <1>1, <1>2, <2>1 DEF StartInv, ShapeInv
<1>4. GlobalsInv'
    <2> SUFFICES ASSUME NEW q \in Programs PROVE GlobalsInv!(q)'
        BY DEF GlobalsInv
    <2>1. CASE q = Agent
        BY <2>1, <1>1, <1>2 DEF StartInv, GlobalsInv, Configured
    <2>2. CASE q # Agent
        BY <2>2, <1>1, <1>2 DEF StartInv, GlobalsInv, Configured, Port
    <2> QED BY <2>1, <2>2
<1>5. RequestInv'
    BY DEF RequestInv
<1>6. AnswerInv'
    <2>1. NoAnswer.status = "none"
        BY DEF NoAnswer
    <2> QED BY <2>1 DEF AnswerInv
<1>7. ServedInv'
    BY <1>1 DEF ServedInv, Served
<1> QED BY <1>3, <1>4, <1>5, <1>6, <1>7 DEF StartInv

\* A report is taken from whoever answered.
LEMMA ReceiveStep == StartInv /\ ReceiveResponse => StartInv'
<1> SUFFICES ASSUME StartInv, ReceiveResponse PROVE StartInv'
    OBVIOUS
<1>1. request.to = Agent
    BY DEF ReceiveResponse, StartInv, AnswerInv
<1>2. served_by' \in Programs /\ (served_by' # Agent => Served(served_by'))
    BY AgentIsNoServer DEF ReceiveResponse, StartInv, ShapeInv, AnswerInv
<1> QED BY <1>1, <1>2, EndStep DEF ReceiveResponse

\* Without an answer nothing was served.
LEMMA TimeOutStep == StartInv /\ TimeOut => StartInv'
<1> SUFFICES ASSUME StartInv, TimeOut PROVE StartInv'
    OBVIOUS
<1>1. request.to = Agent /\ answer' = NoAnswer
    BY DEF TimeOut, Nothing
<1>2. served_by' \in Programs /\ (served_by' # Agent => Served(served_by'))
    BY DEF TimeOut, StartInv, ShapeInv, ServedInv
<1> QED BY <1>1, <1>2, EndStep DEF TimeOut

\* Every step keeps the strengthening.
THEOREM StartIsInvariant == Spec => []StartInv
<1>1. StartInv /\ [Next]_vars => StartInv'
    <2> SUFFICES ASSUME StartInv, [Next]_vars PROVE StartInv'
        OBVIOUS
    <2>1. CASE UNCHANGED vars
        BY <2>1 DEF vars, files, globals, StartInv, ShapeInv, FilesFit, GlobalsInv, Port,
            RequestInv, AnswerInv, ServedInv, Served
    <2>2. ASSUME NEW p \in Programs, Run(p) PROVE StartInv'
        BY <2>2, LoadStep, ConfigurationStep, SocketStep, ListenStep DEF Run
    <2>3. CASE AgentRun
        BY <2>3, CallStep, ReceiveStep, TimeOutStep DEF AgentRun
    <2> QED BY <2>1, <2>2, <2>3 DEF Next
<1> QED BY <1>1, InitialStart, PTL DEF Spec

\* Every variable has its type, whatever is in the files.
THEOREM TypesHold == Spec => []TypeOK
<1>1. StartInv => TypeOK
    BY DEF StartInv, ShapeInv, TypeOK
<1> QED BY <1>1, StartIsInvariant, PTL

\* Only services that have read both of their files serve an agent that has
\* read its own.
THEOREM ConfiguredServe == Spec => []OnlyConfiguredServe
<1>1. StartInv => OnlyConfiguredServe
    BY DEF StartInv, ServedInv, Served, OnlyConfiguredServe
<1> QED BY <1>1, StartIsInvariant, PTL

\* Of one or two digits both programs make the number that they spell.
LEMMA PlainIsWritten ==
    ASSUME NEW text, Plain(text)
    PROVE  RaidaId(text) = Written(text)
<1>1. Len(text) \in {1, 2}
    BY DEF Plain
<1>2. text[1] \in 0..9 /\ (Len(text) = 2 => text[2] \in 0..9)
    BY <1>1 DEF Plain
<1> QED BY <1>1, <1>2 DEF RaidaId, Written

\* An agent is served by its own RAIDA number, if the files are plain.
THEOREM OwnNumberServes == Spec => []ServedByOwnNumber
<1>1. StartInv => ServedByOwnNumber
    BY PlainIsWritten DEF StartInv, ServedInv, Served, ServedByOwnNumber
<1> QED BY <1>1, StartIsInvariant, PTL
=============================================================================
