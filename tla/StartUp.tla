------------------------------- MODULE StartUp -------------------------------
(***************************************************************************)
(* How the programs start: what they make of raida_no.txt and of their     *)
(* configuration, which failure ends them and which does not, the ports    *)
(* they bind, and whether an agent that asks is then served by the right   *)
(* one.  `agent` (RAIDA_AGENT.c) runs on the primary again and again;      *)
(* `services` (Services_main.c) and the older converter server             *)
(* (raida_server.c) start once on each host, in any order, and may want    *)
(* the same port.                                                          *)
(*                                                                         *)
(* Files do not change while programs start, and nothing is lost on the    *)
(* way.  The responses are told apart by their headers only.               *)
(***************************************************************************)
EXTENDS Integers, Sequences

CONSTANTS
    Hosts,          \* the hosts that may be a mirror
    NumberFiles,    \* what raida_no.txt may be, by the role of a program
    ConfigFiles     \* what the file with addresses and ports may be, also

\* A text is its characters, each less '0'.
Texts == Seq(Int)
NumberFile == [there : BOOLEAN, text : Texts]
\* there: is it where getcurrentpath says?  What fscanf does not get to is 0.
ConfigFile == [there : BOOLEAN, mirror : Hosts \cup {"none"}, port : Nat,
               mirror_port : Nat,
               bytes_per_frame : Nat]      \* of server.bin only

REQ_HEAD_MIN_LEN == 22

Roles == {"agent", "services", "converter"}

ASSUME FilesAssumption ==
    \A role \in Roles :
        /\ NumberFiles[role] \subseteq {f \in NumberFile : f.there => f.text # <<>>}
        /\ ConfigFiles[role] \subseteq ConfigFile

Agent      == [role |-> "agent", host |-> "primary"]
Services   == [role : {"services"}, host : Hosts]
Converters == [role : {"converter"}, host : Hosts]
Programs   == {Agent} \cup Services \cup Converters

VARIABLES
    number,         \* the raida_no.txt each program reads
    config,         \* agent_config.txt; for a converter, server.bin
    pc,             \* where each program is
    raida_id,       \* server_config_obj.raida_id
    bytes_per_frame,\* server_config_obj.bytes_per_frame
    port_number,    \* the port it asks at or binds
    echoed,         \* did udp_buffer ever hold a request of the agent?
    request,        \* the request under way
    answer,         \* the answer under way
    served_by       \* history: whose report the latest run of the agent took

files   == <<number, config>>
globals == <<raida_id, bytes_per_frame, port_number>>
vars    == <<files, pc, globals, echoed, request, answer, served_by>>

Nothing == [to |-> Agent, raida_id |-> 0]
NoAnswer == [from |-> Agent, status |-> "none", raida_id |-> 0, frames |-> 0,
             echo |-> FALSE]

FilesFit ==
    /\ number \in [Programs -> UNION {NumberFiles[role] : role \in Roles}]
    /\ config \in [Programs -> UNION {ConfigFiles[role] : role \in Roles}]
    /\ \A p \in Programs : /\ number[p] \in NumberFiles[p.role]
                           /\ config[p] \in ConfigFiles[p.role]

Init ==
    /\ FilesFit
    /\ pc = [p \in Programs |-> "start"]
    /\ raida_id = [p \in Programs |-> 0]
    /\ bytes_per_frame = [p \in Programs |-> 0]
    /\ port_number = [p \in Programs |-> 0]
    /\ echoed = [p \in Programs |-> FALSE]
    /\ request = Nothing /\ answer = NoAnswer
    /\ served_by = Agent

(***************************************************************************)
(* load_raida_no.  Two characters are two digits, whatever they are; of    *)
(* any other text the first is the number.                                 *)
(***************************************************************************)
\* Seeded fault: the sum is kept as it is.
Unreduced(text) == IF Len(text) = 2 THEN text[1] * 10 + text[2] ELSE text[1]

\* Seeded fault: the number has one digit.
FirstDigit(text) == text[1] % 256

\* raida_id is an unsigned char.
RaidaId(text) == (IF Len(text) = 2 THEN text[1] * 10 + text[2] ELSE text[1]) % 256

\* Seeded fault: the size of a frame is set before the file is opened.
AlwaysSet(file) == 1024

\* Set at the end.
BytesPerFrame(file) == IF file.there THEN 1024 ELSE 0

\* A failure ends the agent and the converter.  services looks at no result.
After(p, file, next) == IF file.there \/ p \in Services THEN next ELSE "exited"

LoadRaidaNo(p) ==
    /\ pc[p] = "start"
    /\ raida_id' = [raida_id EXCEPT ![p] =
                        IF number[p].there THEN RaidaId(number[p].text) ELSE @]
    /\ bytes_per_frame' = [bytes_per_frame EXCEPT ![p] =
                               IF p \in Converters THEN @ ELSE BytesPerFrame(number[p])]
    /\ pc' = [pc EXCEPT ![p] = After(p, number[p], "numbered")]
    /\ served_by' = IF p = Agent THEN Agent ELSE served_by
    /\ UNCHANGED <<files, port_number, echoed, request, answer>>

(***************************************************************************)
(* Read_Agent_Configuration_Files, load_server_config.  agent and services *)
(* both use port_primary_agent; port_mirror_agent is read and not used.  A *)
(* converter has the size of a frame from server.bin, too.                 *)
(***************************************************************************)
\* Seeded fault: the mirror's services take port_mirror_agent.
MirrorPort(p) == IF p \in Services THEN config[p].mirror_port ELSE config[p].port

Port(p) == config[p].port

ReadConfiguration(p) ==
    /\ pc[p] = "numbered"
    /\ port_number' = [port_number EXCEPT ![p] = IF config[p].there THEN Port(p) ELSE @]
    /\ bytes_per_frame' = [bytes_per_frame EXCEPT ![p] =
           IF p \in Converters /\ config[p].there THEN config[p].bytes_per_frame ELSE @]
    /\ pc' = [pc EXCEPT ![p] = After(p, config[p], "configured")]
    /\ UNCHANGED <<files, raida_id, echoed, request, answer, served_by>>

(***************************************************************************)
(* init_udp_socket of the servers.  Port 0 is one that the system chooses, *)
(* and that nobody asks at; a port in use ends the program.                *)
(***************************************************************************)
Holds(p, host, n) == p.host = host /\ pc[p] = "listening" /\ port_number[p] = n /\ n # 0

InitUdpSocket(p) ==
    /\ p # Agent
    /\ pc[p] = "configured"
    /\ pc' = [pc EXCEPT ![p] = IF \E q \in Programs : Holds(q, p.host, port_number[p])
                                 THEN "exited" ELSE "listening"]
    /\ UNCHANGED <<files, globals, echoed, request, answer, served_by>>

(***************************************************************************)
(* The agent asks for the report, at the address it has read.              *)
(***************************************************************************)
CallReportChanges ==
    /\ pc[Agent] = "configured"
    /\ pc' = [pc EXCEPT ![Agent] = "waiting"]
    /\ \/ \E p \in Programs :
            /\ Holds(p, config[Agent].mirror, port_number[Agent])
            /\ request' = [to |-> p, raida_id |-> raida_id[Agent]]
       \/ /\ \A p \in Programs : ~ Holds(p, config[Agent].mirror, port_number[Agent])
          /\ UNCHANGED request
    /\ UNCHANGED <<files, globals, echoed, answer, served_by>>

(***************************************************************************)
(* listen_request.  recvfrom takes no more than a frame of a datagram: of  *)
(* none but its sender when the frame has 0 bytes, and too little for a    *)
(* header when it is shorter than one.                                     *)
(* The converter decrypts what is not encrypted and finds no end; its      *)
(* answers announce no frames.                                             *)
(***************************************************************************)
HeaderStatus(p, rq) ==
    IF bytes_per_frame[p] < REQ_HEAD_MIN_LEN THEN {"INVALID_EN_CODE", "INVALID_PACKET_LEN"}
    ELSE {IF rq.raida_id = raida_id[p] THEN "NO_ERR_CODE" ELSE "WRONG_RAIDA"}

ListenRequest(p) ==
    /\ request.to = p /\ p # Agent
    /\ \E status \in HeaderStatus(p, request) :
        /\ echoed' = [echoed EXCEPT ![p] = @ \/ status = "NO_ERR_CODE"]
        /\ answer' = [from |-> p, raida_id |-> raida_id[p], echo |-> echoed'[p],
                      status |-> IF status # "NO_ERR_CODE" THEN status
                                 ELSE IF p \in Services THEN "MIRROR_REPORT_RETURNED"
                                 ELSE "INVALID_END_OF_REQ",
                      frames |-> IF p \in Services THEN 1 ELSE 0]
    /\ request' = Nothing
    /\ UNCHANGED <<files, pc, globals, served_by>>

(***************************************************************************)
(* Process_response_Report_Changes, and the end of the run: the next one   *)
(* is a new process.                                                       *)
(***************************************************************************)
ValidHeader(a) == a.frames > 0 /\ a.raida_id = raida_id[Agent] /\ a.echo

EndRun ==
    /\ pc' = [pc EXCEPT ![Agent] = "start"]
    /\ raida_id' = [raida_id EXCEPT ![Agent] = 0]
    /\ bytes_per_frame' = [bytes_per_frame EXCEPT ![Agent] = 0]
    /\ port_number' = [port_number EXCEPT ![Agent] = 0]

ReceiveResponse ==
    /\ pc[Agent] = "waiting"
    /\ answer # NoAnswer
    /\ served_by' = IF ValidHeader(answer) /\ answer.status = "MIRROR_REPORT_RETURNED"
                      THEN answer.from ELSE Agent
    /\ answer' = NoAnswer
    /\ EndRun
    /\ UNCHANGED <<files, echoed, request>>

TimeOut ==
    /\ pc[Agent] = "waiting"
    /\ request = Nothing /\ answer = NoAnswer
    /\ EndRun
    /\ UNCHANGED <<files, echoed, request, answer, served_by>>

Run(p) ==
    \/ LoadRaidaNo(p)
    \/ ReadConfiguration(p)
    \/ InitUdpSocket(p)
    \/ ListenRequest(p)

AgentRun == CallReportChanges \/ ReceiveResponse \/ TimeOut

Next == (\E p \in Programs : Run(p)) \/ AgentRun

Spec     == Init /\ [][Next]_vars
LiveSpec == Spec /\ WF_vars(AgentRun) /\ \A p \in Programs : WF_vars(Run(p))

-----------------------------------------------------------------------------
\* Every variable has its type.
PcStates == {"start", "numbered", "configured", "listening", "waiting", "exited"}
Errors   == {"INVALID_EN_CODE", "INVALID_PACKET_LEN", "WRONG_RAIDA", "INVALID_END_OF_REQ"}

TypeOK ==
    /\ FilesFit
    /\ pc \in [Programs -> PcStates]
    /\ raida_id \in [Programs -> 0..255]
    /\ bytes_per_frame \in [Programs -> Nat]
    /\ port_number \in [Programs -> Nat]
    /\ echoed \in [Programs -> BOOLEAN]
    /\ request \in [to : Programs, raida_id : 0..255]
    /\ answer \in [from : Programs, raida_id : 0..255, frames : 0..1, echo : BOOLEAN,
                   status : Errors \cup {"none", "MIRROR_REPORT_RETURNED"}]
    /\ served_by \in Programs

(***************************************************************************)
(* Only `services` that have read both files serve an agent, although      *)
(* those that have not listen all the same ("Cannot be opened , exiting",  *)
(* Services_main.c:52, and then goes on): without a number they would be   *)
(* RAIDA 0, but they receive frames of 0 bytes; without a configuration    *)
(* nobody knows their port.                                                *)
(***************************************************************************)
OnlyConfiguredServe ==
    served_by # Agent =>
        /\ served_by \in Services
        /\ \A p \in {Agent, served_by} : number[p].there /\ config[p].there

(***************************************************************************)
(* The host that serves a run has the RAIDA number of the primary in its   *)
(* raida_no.txt, if both files hold the digits of a number and nothing     *)
(* else.  (Both programs make the number out of the characters, and the    *)
(* two must agree.  A line feed after the number is taken for a digit, or  *)
(* makes of 13 the number 1.)                                              *)
(***************************************************************************)
Plain(text)   == Len(text) \in 1..2 /\ \A i \in 1..Len(text) : text[i] \in 0..9
Written(text) == IF Len(text) = 1 THEN text[1] ELSE text[1] * 10 + text[2]

ServedByOwnNumber ==
    served_by # Agent /\ Plain(number[served_by].text) /\ Plain(number[Agent].text) =>
        Written(number[served_by].text) = Written(number[Agent].text)

(***************************************************************************)
(* An agent is served in the end, if its mirror has the same texts, and no *)
(* other program of the mirror the same port.                              *)
(***************************************************************************)
WellConfigured(s) ==
    LET c == [role |-> "converter", host |-> s.host] IN
    /\ \A p \in {Agent, s} : number[p].there /\ config[p].there
    /\ number[s].text = number[Agent].text
    /\ config[Agent].mirror = s.host
    /\ config[s].port = config[Agent].port /\ config[s].port # 0
    /\ config[c].there => config[c].port # config[s].port

WellConfiguredIsServed == \A s \in Services : WellConfigured(s) ~> served_by = s

-----------------------------------------------------------------------------
(***************************************************************************)
(* What the proofs rest on: what each program has in its globals, and that *)
(* what is under way was sent by programs that are still as they were.     *)
(***************************************************************************)
Configured == {"configured", "listening", "waiting"}

GlobalsInv ==
    \A p \in Programs :
        /\ raida_id[p] = IF pc[p] # "start" /\ number[p].there THEN RaidaId(number[p].text) ELSE 0
        /\ p \in Services =>
              bytes_per_frame[p] = IF pc[p] # "start" THEN BytesPerFrame(number[p]) ELSE 0
        /\ pc[p] # "exited" => port_number[p] = IF pc[p] \in Configured /\ config[p].there
                                                  THEN Port(p) ELSE 0
        /\ pc[p] = "listening" => p # Agent
        /\ pc[p] = "waiting" => p = Agent
        /\ p \notin Services /\ pc[p] \notin {"start", "exited"} => number[p].there
        /\ p \notin Services /\ pc[p] \in Configured => config[p].there

RequestInv ==
    request.to # Agent =>
        /\ pc[Agent] = "waiting" /\ request.raida_id = raida_id[Agent]
        /\ pc[request.to] = "listening" /\ port_number[request.to] # 0

Served(p) ==
    /\ p \in Services
    /\ \A q \in {Agent, p} : number[q].there /\ config[q].there
    /\ RaidaId(number[p].text) = RaidaId(number[Agent].text)

AnswerInv ==
    /\ answer # NoAnswer => pc[Agent] = "waiting" /\ request.to = Agent
    /\ answer.status = "MIRROR_REPORT_RETURNED" => Served(answer.from)

ServedInv == served_by # Agent => Served(served_by)
=============================================================================
