-------------------------- MODULE RequestAssembly ---------------------------
(***************************************************************************)
(* How `services` puts a request together from datagrams (listen_request), *)
(* when several clients send to its one socket: the four states of the     *)
(* loop, the checks of header, end and body, the time-out, and the address *)
(* answers go to, which every datagram overwrites.  MirrorServices, whose  *)
(* requests are single datagrams of one agent, takes from here that what   *)
(* is processed is one client's request.                                   *)
(*                                                                         *)
(* Not modelled: requests longer than UDP_BUFF_SIZE, and a body frame that *)
(* reads like a valid request header.                                      *)
(***************************************************************************)
EXTENDS Integers, Sequences

CONSTANTS
    Clients,        \* the sockets that send to the service
    Hosts, HostOf,  \* the host of each
    Kinds,          \* the requests they send
    FramesMax,      \* FRAMES_MAX
    MaxRequests,    \* bound: the requests of one client
    MaxFaults       \* bound: datagrams lost or duplicated

HeaderErrors == {"INVALID_EN_CODE", "INVALID_PACKET_LEN", "INVALID_FRAME_CNT",
                 "INVALID_CLOUD_ID", "INVALID_SPLIT_ID", "WRONG_RAIDA"}

\* A request: its frames (announced and sent), what validate_request_header
\* makes of its header, whether it ends with REQ_END, whether its command is one
\* that process_request knows, and whether it has the length the command asks for.
KindType == [frames : 1..FramesMax, header : HeaderErrors \cup {"NO_ERR_CODE"},
             ends : BOOLEAN, known : BOOLEAN, fits : BOOLEAN]

ASSUME ClientsAssumption == HostOf \in [Clients -> Hosts] /\ Clients # {}
ASSUME KindsAssumption   == FramesMax \in Nat \ {0} /\ Kinds \subseteq KindType
ASSUME BoundsAssumption  == MaxRequests \in Nat /\ MaxFaults \in Nat

VARIABLES
    state,          \* the state of the loop
    buffer,         \* the datagram received last
    frames_expected, curr_frame_no,
    client_s_addr,  \* the host of the first datagram
    cliaddr,        \* the client of the last datagram
    udp_buffer,     \* the datagrams of the request
    replies,        \* what was sent since the last first datagram
    inbox,          \* the datagrams in the socket
    unsent,         \* what each client still has to send of its request
    requests,       \* the requests of each client so far
    faults          \* the faults so far

loopVars   == <<state, buffer, frames_expected, curr_frame_no, client_s_addr, cliaddr,
                udp_buffer, replies>>
clientVars == <<unsent, requests, faults>>
vars       == <<loopVars, inbox, clientVars>>

\* The no-th datagram of a request of kind `kind`, the req-th of client `from`.
Frame == [from : Clients, req : 1..MaxRequests, kind : Kinds, no : 1..FramesMax]

\* The first values of the datagram and addresses are never looked at.
Init ==
    /\ state = "WAIT_START"
    /\ buffer = <<>>
    /\ frames_expected = 0 /\ curr_frame_no = 0
    /\ client_s_addr = "none" /\ cliaddr = "none"
    /\ udp_buffer = <<>>
    /\ replies = <<>>
    /\ inbox = <<>>
    /\ unsent = [c \in Clients |-> <<>>]
    /\ requests = [c \in Clients |-> 0]
    /\ faults = 0

(***************************************************************************)
(* The clients and the network.                                            *)
(***************************************************************************)
StartRequest(c, kind) ==
    /\ unsent[c] = <<>>
    /\ requests[c] < MaxRequests
    /\ requests' = [requests EXCEPT ![c] = @ + 1]
    /\ unsent' = [unsent EXCEPT ![c] =
           [i \in 1..kind.frames |->
               [from |-> c, req |-> requests'[c], kind |-> kind, no |-> i]]]
    /\ UNCHANGED <<loopVars, inbox, faults>>

SendDatagram(c) ==
    /\ unsent[c] # <<>>
    /\ inbox' = Append(inbox, Head(unsent[c]))
    /\ unsent' = [unsent EXCEPT ![c] = Tail(@)]
    /\ UNCHANGED <<loopVars, requests, faults>>

LoseDatagram(c) ==
    /\ unsent[c] # <<>>
    /\ faults < MaxFaults
    /\ unsent' = [unsent EXCEPT ![c] = Tail(@)]
    /\ faults' = faults + 1
    /\ UNCHANGED <<loopVars, inbox, requests>>

DuplicateDatagram(c) ==
    /\ unsent[c] # <<>>
    /\ faults < MaxFaults
    /\ inbox' = Append(inbox, Head(unsent[c]))
    /\ faults' = faults + 1
    /\ UNCHANGED <<loopVars, unsent, requests>>

(***************************************************************************)
(* Answers.  The echo is that of the request in udp_buffer, be it the one  *)
(* that is answered or not; the address is that of the last datagram.      *)
(***************************************************************************)
NoRequest == [from |-> "none", req |-> 0]
Echo(frames) ==
    IF frames = <<>> THEN NoRequest ELSE [from |-> frames[1].from, req |-> frames[1].req]

Reply(status) == [to |-> cliaddr, status |-> status, echo |-> Echo(udp_buffer)]

GoBack(answers) ==
    /\ replies' = answers
    /\ state' = "WAIT_START"

(***************************************************************************)
(* listen_request, one case of its switch after the other.                 *)
(***************************************************************************)
WaitStart ==
    /\ state = "WAIT_START"
    /\ inbox # <<>>
    /\ buffer' = Head(inbox) /\ inbox' = Tail(inbox)
    /\ cliaddr' = Head(inbox).from
    /\ curr_frame_no' = 1
    /\ client_s_addr' = "none"
    /\ replies' = <<>>
    /\ state' = "START_RECVD"
    /\ UNCHANGED <<frames_expected, udp_buffer, clientVars>>

\* What validate_request_header says of a datagram taken for a first one.
HeaderStatus(frame) == IF frame.no = 1 THEN {frame.kind.header} ELSE HeaderErrors

StartReceived ==
    /\ state = "START_RECVD"
    /\ \E status \in HeaderStatus(buffer) :
        \/ /\ status # "NO_ERR_CODE"
           /\ GoBack(<<Reply(status)>>)
           /\ UNCHANGED <<frames_expected, udp_buffer, client_s_addr>>
        \/ /\ status = "NO_ERR_CODE"
           /\ frames_expected' = buffer.kind.frames
           /\ udp_buffer' = <<buffer>>
           /\ client_s_addr' = HostOf[cliaddr]
           /\ state' = IF frames_expected' = 1 THEN "END_RECVD" ELSE "WAIT_END"
           /\ UNCHANGED replies
    /\ UNCHANGED <<buffer, curr_frame_no, cliaddr, inbox, clientVars>>

\* Seeded fault: the loop waits for the next datagram for ever.
NoTimeOut == FALSE

TimeOut ==
    /\ state = "WAIT_END"
    /\ inbox = <<>>
    /\ GoBack(<<Reply("FRAME_TIME_OUT")>>)
    /\ UNCHANGED <<buffer, frames_expected, curr_frame_no, client_s_addr, cliaddr,
                   udp_buffer, inbox, clientVars>>

\* Seeded fault: the sender is not looked at.
AnySender(c) == TRUE

\* Does the datagram belong to the request?
SameSender(c) == client_s_addr = HostOf[c]

\* Seeded fault: one datagram too many is waited for.
OneTooMany(frame_no) == frame_no > frames_expected

\* Is this the last datagram of the request?
AllReceived(frame_no) == frame_no = frames_expected

WaitEnd ==
    /\ state = "WAIT_END"
    /\ inbox # <<>>
    /\ buffer' = Head(inbox) /\ inbox' = Tail(inbox)
    /\ cliaddr' = buffer'.from
    /\ IF SameSender(cliaddr')
         THEN /\ udp_buffer' = Append(udp_buffer, buffer')
              /\ curr_frame_no' = curr_frame_no + 1
              /\ state' = IF AllReceived(curr_frame_no') THEN "END_RECVD" ELSE state
         ELSE UNCHANGED <<udp_buffer, curr_frame_no, state>>
    /\ UNCHANGED <<frames_expected, client_s_addr, replies, clientVars>>

\* Are the last two bytes REQ_END?
ValidEnd(frames) ==
    LET last == frames[Len(frames)] IN last.no = last.kind.frames /\ last.kind.ends

(***************************************************************************)
(* validate_request_body_general looks at the length only.  It is that of  *)
(* the request when all frames are of one kind, and all but the last of    *)
(* them full; of any other mixture it may be right or wrong.               *)
(***************************************************************************)
FullFrames(frames) ==
    \A i \in DOMAIN frames :
        /\ frames[i].kind = frames[1].kind
        /\ i < Len(frames) => frames[i].no < frames[i].kind.frames

ValidBody(frames) == IF FullFrames(frames) THEN {frames[1].kind.fits} ELSE BOOLEAN

\* process_request; a body of the wrong length is answered twice.
ProcessRequest ==
    IF ~ udp_buffer[1].kind.known
      THEN {<<Reply("INVALID_CMD")>>}
      ELSE {IF valid THEN <<Reply("executed")>>
            ELSE <<Reply("INVALID_PACKET_LEN"), Reply("EMPTY_REQ_BODY")>> :
              valid \in ValidBody(udp_buffer)}

EndReceived ==
    /\ state = "END_RECVD"
    /\ \E answers \in IF ValidEnd(udp_buffer) THEN ProcessRequest
                      ELSE {<<Reply("INVALID_END_OF_REQ")>>} : GoBack(answers)
    /\ UNCHANGED <<buffer, frames_expected, curr_frame_no, client_s_addr, cliaddr,
                   udp_buffer, inbox, clientVars>>

ListenRequest == WaitStart \/ StartReceived \/ TimeOut \/ WaitEnd \/ EndReceived

Next ==
    \/ \E c \in Clients : \/ \E kind \in Kinds : StartRequest(c, kind)
                          \/ SendDatagram(c)
                          \/ LoseDatagram(c)
                          \/ DuplicateDatagram(c)
    \/ WaitStart
    \/ StartReceived
    \/ TimeOut
    \/ WaitEnd
    \/ EndReceived

Spec     == Init /\ [][Next]_vars
LiveSpec == Spec /\ WF_vars(ListenRequest)

-----------------------------------------------------------------------------
\* Every variable has its type.
States   == {"WAIT_START", "START_RECVD", "WAIT_END", "END_RECVD"}
Statuses == HeaderErrors \cup {"FRAME_TIME_OUT", "INVALID_END_OF_REQ", "INVALID_CMD",
                               "EMPTY_REQ_BODY", "executed"}
Replies  == [to : Clients, status : Statuses,
             echo : {NoRequest} \cup [from : Clients, req : 1..MaxRequests]]

TypeOK ==
    /\ state \in States
    /\ state # "WAIT_START" => buffer \in Frame /\ cliaddr \in Clients
    /\ frames_expected \in 0..FramesMax /\ curr_frame_no \in 0..FramesMax
    /\ client_s_addr \in Hosts \cup {"none"}
    /\ udp_buffer \in Seq(Frame)
    /\ replies \in Seq(Replies)
    /\ inbox \in Seq(Frame)
    /\ unsent \in [Clients -> Seq(Frame)]
    /\ requests \in [Clients -> 0..MaxRequests]
    /\ faults \in 0..MaxFaults

(***************************************************************************)
(* The datagrams of a request under way come from one host, and a request  *)
(* received as a whole is answered there.                                  *)
(***************************************************************************)
FromOneHost(frames) == \A i \in DOMAIN frames : HostOf[frames[i].from] = client_s_addr

RequestOfOneHost ==
    /\ state \in {"WAIT_END", "END_RECVD"} => FromOneHost(udp_buffer)
    /\ state = "END_RECVD" => HostOf[cliaddr] = client_s_addr

(***************************************************************************)
(* What becomes of a request received as a whole is told to its host, with *)
(* its own echo.  (An error in a first datagram carries the echo of an     *)
(* earlier request, and a time-out may be told to whoever sent last.)      *)
(***************************************************************************)
AnswersGoHome ==
    \A i \in DOMAIN replies :
        replies[i].status \in {"executed", "INVALID_CMD", "EMPTY_REQ_BODY",
                               "INVALID_END_OF_REQ"}
            => /\ replies[i].echo = Echo(udp_buffer)
               /\ HostOf[replies[i].to] = HostOf[replies[i].echo.from]

(***************************************************************************)
(* Only whole requests are executed, all their frames and no others, in    *)
(* order, as long as nothing was lost or duplicated and the clients that   *)
(* have sent requests are on hosts of their own.                           *)
(***************************************************************************)
Undisturbed ==
    /\ faults = 0
    /\ \A c, d \in Clients :
          c # d /\ requests[c] > 0 /\ requests[d] > 0 => HostOf[c] # HostOf[d]

OnlyWholeRequestsExecuted ==
    Undisturbed /\ (\E i \in DOMAIN replies : replies[i].status = "executed") =>
        LET first == udp_buffer[1] IN
        udp_buffer = [i \in 1..first.kind.frames |-> [first EXCEPT !.no = i]]

\* `services` comes back to its first state, whatever it was sent.
ComesBack == state # "WAIT_START" ~> state = "WAIT_START"

(***************************************************************************)
(* What holds between two steps: there is a first datagram to compare      *)
(* with, frames are still missing, and nothing has been answered yet.      *)
(***************************************************************************)
LoopInv ==
    /\ state = "START_RECVD" => curr_frame_no = 1 /\ cliaddr = buffer.from
    /\ state = "WAIT_END" => curr_frame_no < frames_expected
    /\ state \in {"WAIT_END", "END_RECVD"} => udp_buffer # <<>>
    /\ state # "WAIT_START" => replies = <<>>

OneHostInv ==
    /\ TypeOK
    /\ LoopInv
    /\ RequestOfOneHost
    /\ AnswersGoHome
(***************************************************************************)
(* Without faults a client's datagrams come one after the other: behind    *)
(* each one but the last of its request, in the socket or still to be      *)
(* sent, the next one of that client is the next of that request.          *)
(***************************************************************************)
NextOf(x) == [x EXCEPT !.no = @ + 1]

\* The places in q behind the i-th with a datagram of client c.
Behind(q, i, c) == {j \in DOMAIN q : j > i /\ q[j].from = c}

Followed(q, u, i, x) ==
    x.no < x.kind.frames =>
        \/ \E j \in Behind(q, i, x.from) :
              q[j] = NextOf(x) /\ \A k \in Behind(q, i, x.from) : j <= k
        \/ Behind(q, i, x.from) = {} /\ u[x.from] # <<>> /\ u[x.from][1] = NextOf(x)

StreamInv ==
    /\ \A c \in Clients : \A i \in DOMAIN unsent[c] :
          LET x == unsent[c][i] IN
          /\ x.from = c /\ requests[c] > 0
          /\ x.no < x.kind.frames =>
                i + 1 \in DOMAIN unsent[c] /\ unsent[c][i + 1] = NextOf(x)
    /\ \A i \in DOMAIN inbox :
          requests[inbox[i].from] > 0 /\ Followed(inbox, unsent, i, inbox[i])
    /\ state = "START_RECVD" =>
          requests[buffer.from] > 0 /\ Followed(inbox, unsent, 0, buffer)
    /\ state = "WAIT_END" => Followed(inbox, unsent, 0, udp_buffer[Len(udp_buffer)])

\* The frames are the beginning of one request.
Beginning(frames) == \A i \in DOMAIN frames : frames[i] = [frames[1] EXCEPT !.no = i]

AssembledInv ==
    /\ state \in {"WAIT_END", "END_RECVD"} =>
          /\ Beginning(udp_buffer)
          /\ Len(udp_buffer) = curr_frame_no
          /\ frames_expected = udp_buffer[1].kind.frames
          /\ requests[udp_buffer[1].from] > 0
    /\ state = "END_RECVD" => curr_frame_no = frames_expected

WholeInv ==
    Undisturbed => StreamInv /\ AssembledInv /\ OnlyWholeRequestsExecuted
=============================================================================
