----------------------- MODULE RequestAssembly_proofs -----------------------
(***************************************************************************)
(* Proofs about RequestAssembly: however many clients there are, on        *)
(* whatever hosts, whatever they send and whatever is lost or duplicated,  *)
(* the datagrams of a request come from one host, which is told what       *)
(* became of it.                                                           *)
(***************************************************************************)
EXTENDS RequestAssembly, SequenceTheorems, TLAPS

\* The address variables hold a client, and the datagrams have a first one.
LEMMA EchoType ==
    ASSUME NEW frames \in Seq(Frame)
    PROVE  Echo(frames) \in {NoRequest} \cup [from : Clients, req : 1..MaxRequests]
<1>1. CASE frames = <<>>
    BY <1>1 DEF Echo
<1>2. CASE frames # <<>>
  <2>1. frames[1] \in Frame
    BY <1>2, EmptySeq, ElementOfSeq
  <2> QED BY <1>2, <2>1 DEF Echo, Frame
<1> QED BY <1>1, <1>2

LEMMA ReplyType ==
    ASSUME TypeOK, state # "WAIT_START", NEW s \in Statuses
    PROVE  Reply(s) \in Replies
<1>1. cliaddr \in Clients /\ udp_buffer \in Seq(Frame)
    BY DEF TypeOK
<1>2. Echo(udp_buffer) \in {NoRequest} \cup [from : Clients, req : 1..MaxRequests]
    BY <1>1, EchoType
<1> QED BY <1>1, <1>2 DEF Reply, Replies

LEMMA OneReply ==
    ASSUME NEW S, NEW r \in S
    PROVE  /\ <<r>> \in Seq(S) /\ DOMAIN <<r>> = {1} /\ <<r>>[1] = r
    OBVIOUS

LEMMA TwoReplies ==
    ASSUME NEW S, NEW r \in S, NEW q \in S
    PROVE  /\ <<r, q>> \in Seq(S) /\ DOMAIN <<r, q>> = {1, 2}
           /\ <<r, q>>[1] = r /\ <<r, q>>[2] = q
    OBVIOUS

\* The datagram a step takes out of the socket.
LEMMA HeadOfInbox ==
    ASSUME TypeOK, inbox # <<>>
    PROVE  Head(inbox) \in Frame /\ Head(inbox).from \in Clients /\ Tail(inbox) \in Seq(Frame)
<1>1. Head(inbox) \in Frame /\ Tail(inbox) \in Seq(Frame)
    BY HeadTailProperties DEF TypeOK
<1> QED BY <1>1 DEF Frame

-----------------------------------------------------------------------------
LEMMA InitialState == Init => OneHostInv
<1> SUFFICES ASSUME Init PROVE OneHostInv
    OBVIOUS
<1>1. /\ <<>> \in Seq(Frame) /\ <<>> \in Seq(Replies) /\ DOMAIN replies = {}
    BY EmptySeq DEF Init
<1>2. TypeOK
    BY <1>1, KindsAssumption, BoundsAssumption DEF Init, TypeOK, States
<1> QED BY <1>1, <1>2 DEF Init, OneHostInv, LoopInv, RequestOfOneHost, AnswersGoHome

LEMMA ClientStep ==
    ASSUME OneHostInv, NEW c \in Clients,
           \/ \E kind \in Kinds : StartRequest(c, kind)
           \/ SendDatagram(c) \/ LoseDatagram(c) \/ DuplicateDatagram(c)
    PROVE  OneHostInv'
<1>1. UNCHANGED loopVars
    BY DEF StartRequest, SendDatagram, LoseDatagram, DuplicateDatagram
<1>2. /\ inbox \in Seq(Frame) /\ unsent \in [Clients -> Seq(Frame)]
      /\ requests \in [Clients -> 0..MaxRequests] /\ faults \in 0..MaxFaults
    BY DEF OneHostInv, TypeOK
<1>3. unsent[c] # <<>> => Head(unsent[c]) \in Frame /\ Tail(unsent[c]) \in Seq(Frame)
    BY <1>2, HeadTailProperties
<1>4. /\ inbox' \in Seq(Frame) /\ unsent' \in [Clients -> Seq(Frame)]
      /\ requests' \in [Clients -> 0..MaxRequests] /\ faults' \in 0..MaxFaults
  <2>1. ASSUME NEW kind \in Kinds, StartRequest(c, kind) PROVE <1>4
    <3>1. requests' \in [Clients -> 0..MaxRequests] /\ requests'[c] \in 1..MaxRequests
      BY <1>2, <2>1, BoundsAssumption DEF StartRequest
    <3> DEFINE frames == [i \in 1..kind.frames |->
                   [from |-> c, req |-> requests'[c], kind |-> kind, no |-> i]]
    <3>2. kind.frames \in 1..FramesMax /\ kind.frames \in Nat
      BY KindsAssumption DEF KindType
    <3>3. frames \in [1..kind.frames -> Frame]
      BY <3>1, <3>2, KindsAssumption DEF Frame
    <3>4. frames \in Seq(Frame)
      BY <3>2, <3>3, SeqDef
    <3>5. unsent' = [unsent EXCEPT ![c] = frames] /\ UNCHANGED <<inbox, faults>>
      BY <2>1 DEF StartRequest
    <3> HIDE DEF frames
    <3> QED BY <1>2, <3>1, <3>4, <3>5
  <2>2. CASE SendDatagram(c)
    BY <1>2, <1>3, <2>2, AppendProperties DEF SendDatagram
  <2>3. CASE LoseDatagram(c)
    BY <1>2, <1>3, <2>3, BoundsAssumption DEF LoseDatagram
  <2>4. CASE DuplicateDatagram(c)
    BY <1>2, <1>3, <2>4, AppendProperties, BoundsAssumption DEF DuplicateDatagram
  <2> QED BY <2>1, <2>2, <2>3, <2>4
<1> QED BY <1>1, <1>4
        DEF OneHostInv, TypeOK, LoopInv, RequestOfOneHost, FromOneHost, AnswersGoHome,
            Reply, loopVars

LEMMA WaitStartStep ==
    ASSUME OneHostInv, WaitStart
    PROVE  OneHostInv'
<1>1. /\ inbox # <<>> /\ buffer' = Head(inbox) /\ inbox' = Tail(inbox)
      /\ cliaddr' = Head(inbox).from /\ curr_frame_no' = 1 /\ client_s_addr' = "none"
      /\ replies' = <<>> /\ state' = "START_RECVD"
      /\ UNCHANGED <<frames_expected, udp_buffer, clientVars>>
    BY DEF WaitStart
<1>2. TypeOK
    BY DEF OneHostInv
<1>3. buffer' \in Frame /\ cliaddr' \in Clients /\ inbox' \in Seq(Frame)
    BY <1>1, <1>2, HeadOfInbox
<1>4. <<>> \in Seq(Replies) /\ DOMAIN replies' = {}
    BY <1>1, EmptySeq
<1>5. TypeOK'
    BY <1>1, <1>2, <1>3, <1>4, KindsAssumption DEF TypeOK, States, clientVars
<1> QED BY <1>1, <1>4, <1>5
        DEF OneHostInv, LoopInv, RequestOfOneHost, AnswersGoHome

\* Steps that answer and go back to the first state, all else unchanged.
LEMMA GoBackType ==
    ASSUME TypeOK, NEW answers \in Seq(Replies), GoBack(answers),
           UNCHANGED <<buffer, frames_expected, curr_frame_no, client_s_addr, cliaddr,
                       udp_buffer, inbox, clientVars>>
    PROVE  TypeOK'
BY DEF TypeOK, States, GoBack, clientVars

LEMMA StartReceivedStep ==
    ASSUME OneHostInv, StartReceived
    PROVE  OneHostInv'
<1>1. /\ TypeOK /\ state = "START_RECVD" /\ curr_frame_no = 1 /\ replies = <<>>
      /\ buffer \in Frame /\ cliaddr \in Clients
      /\ UNCHANGED <<buffer, curr_frame_no, cliaddr, inbox, clientVars>>
    BY DEF OneHostInv, TypeOK, LoopInv, StartReceived
<1>2. PICK status \in HeaderStatus(buffer) :
        \/ /\ status # "NO_ERR_CODE"
           /\ GoBack(<<Reply(status)>>)
           /\ UNCHANGED <<frames_expected, udp_buffer, client_s_addr>>
        \/ /\ status = "NO_ERR_CODE"
           /\ frames_expected' = buffer.kind.frames
           /\ udp_buffer' = <<buffer>>
           /\ client_s_addr' = HostOf[cliaddr]
           /\ state' = IF frames_expected' = 1 THEN "END_RECVD" ELSE "WAIT_END"
           /\ UNCHANGED replies
    BY DEF StartReceived
<1>3. buffer.kind \in KindType /\ buffer.kind.frames \in 1..FramesMax
    BY <1>1, KindsAssumption DEF Frame, KindType
<1>4. CASE status # "NO_ERR_CODE"
  <2>1. /\ GoBack(<<Reply(status)>>)
        /\ UNCHANGED <<frames_expected, udp_buffer, client_s_addr>>
    BY <1>2, <1>4
  <2>2. status \in HeaderErrors
    BY <1>3, <1>4 DEF HeaderStatus, KindType
  <2>3. /\ Reply(status) \in Replies /\ Reply(status).status = status
        /\ status \notin {"executed", "INVALID_CMD", "EMPTY_REQ_BODY", "INVALID_END_OF_REQ"}
    BY <1>1, <2>2, ReplyType DEF Statuses, Reply, HeaderErrors
  <2> DEFINE r == Reply(status)
  <2> HIDE DEF r
  <2>4. /\ <<r>> \in Seq(Replies) /\ DOMAIN <<r>> = {1} /\ <<r>>[1] = r
    BY <2>3, OneReply DEF r
  <2>5. TypeOK'
    BY <1>1, <2>1, <2>4, GoBackType DEF r
  <2>6. state' = "WAIT_START" /\ replies' = <<r>>
    BY <2>1 DEF GoBack, r
  <2>7. AnswersGoHome'
    BY <2>3, <2>4, <2>6 DEF AnswersGoHome, r
  <2> QED BY <2>5, <2>6, <2>7 DEF OneHostInv, LoopInv, RequestOfOneHost
<1>5. CASE status = "NO_ERR_CODE"
  <2>1. /\ frames_expected' = buffer.kind.frames
        /\ udp_buffer' = <<buffer>>
        /\ client_s_addr' = HostOf[cliaddr]
        /\ state' = IF frames_expected' = 1 THEN "END_RECVD" ELSE "WAIT_END"
        /\ replies' = <<>>
    BY <1>1, <1>2, <1>5
  <2>2. /\ udp_buffer' \in Seq(Frame) /\ DOMAIN udp_buffer' = {1}
        /\ udp_buffer'[1] = buffer /\ udp_buffer' # <<>>
    BY <1>1, <2>1
  <2>3. HostOf[cliaddr] \in Hosts
    BY <1>1, ClientsAssumption
  <2>4. TypeOK'
    BY <1>1, <1>3, <2>1, <2>2, <2>3 DEF TypeOK, States, clientVars
  <2>5. buffer.from = cliaddr
    BY <1>1 DEF OneHostInv, LoopInv
  <2> QED BY <1>1, <1>3, <2>1, <2>2, <2>4, <2>5
          DEF OneHostInv, LoopInv, RequestOfOneHost, FromOneHost, AnswersGoHome
<1> QED BY <1>4, <1>5

LEMMA WaitEndStep ==
    ASSUME OneHostInv, WaitEnd
    PROVE  OneHostInv'
<1>1. /\ TypeOK /\ state = "WAIT_END" /\ curr_frame_no < frames_expected
      /\ replies = <<>> /\ udp_buffer # <<>> /\ udp_buffer \in Seq(Frame)
      /\ FromOneHost(udp_buffer)
      /\ inbox # <<>> /\ buffer' = Head(inbox) /\ inbox' = Tail(inbox)
      /\ cliaddr' = buffer'.from
      /\ UNCHANGED <<frames_expected, client_s_addr, replies, clientVars>>
    BY DEF OneHostInv, TypeOK, LoopInv, RequestOfOneHost, WaitEnd
<1>2. buffer' \in Frame /\ cliaddr' \in Clients /\ inbox' \in Seq(Frame)
    BY <1>1, HeadOfInbox
<1>3. CASE SameSender(cliaddr')
  <2>1. /\ udp_buffer' = Append(udp_buffer, buffer')
        /\ curr_frame_no' = curr_frame_no + 1
        /\ state' = IF curr_frame_no' = frames_expected THEN "END_RECVD" ELSE state
        /\ HostOf[cliaddr'] = client_s_addr
    BY <1>3 DEF WaitEnd, SameSender, AllReceived
  <2>2. /\ udp_buffer' \in Seq(Frame) /\ udp_buffer' # <<>>
        /\ Len(udp_buffer') = Len(udp_buffer) + 1
        /\ \A i \in 1..Len(udp_buffer) : udp_buffer'[i] = udp_buffer[i]
        /\ udp_buffer'[Len(udp_buffer) + 1] = buffer'
    BY <1>1, <1>2, <2>1, AppendProperties
  <2>3. /\ DOMAIN udp_buffer = 1..Len(udp_buffer) /\ Len(udp_buffer) \in Nat
        /\ DOMAIN udp_buffer' = 1..(Len(udp_buffer) + 1)
    BY <1>1, <2>2, LenProperties
  <2>4. FromOneHost(udp_buffer)'
    <3>1. ASSUME NEW i \in 1..(Len(udp_buffer) + 1)
          PROVE  HostOf[udp_buffer'[i].from] = client_s_addr
      <4>1. CASE i \in 1..Len(udp_buffer)
        BY <1>1, <2>2, <2>3, <4>1 DEF FromOneHost
      <4>2. CASE i = Len(udp_buffer) + 1
        BY <1>1, <2>1, <2>2, <4>2
      <4> QED BY <2>3, <4>1, <4>2
    <3>2. client_s_addr' = client_s_addr
      BY <1>1
    <3> QED BY <2>3, <3>1, <3>2 DEF FromOneHost
  <2>5. curr_frame_no' \in 0..FramesMax
    <3>1. /\ curr_frame_no \in 0..FramesMax /\ frames_expected \in 0..FramesMax
          /\ curr_frame_no < frames_expected /\ FramesMax \in Nat
      BY <1>1, KindsAssumption DEF TypeOK
    <3>2. curr_frame_no' = curr_frame_no + 1
      BY <2>1
    <3> QED BY <3>1, <3>2
  <2>6. TypeOK'
    BY <1>1, <1>2, <2>1, <2>2, <2>5 DEF TypeOK, States, clientVars
  <2>7. LoopInv'
    BY <1>1, <2>1, <2>2, <2>5 DEF LoopInv, TypeOK
  <2> QED BY <1>1, <2>1, <2>4, <2>6, <2>7 DEF OneHostInv, RequestOfOneHost, AnswersGoHome
<1>4. CASE ~ SameSender(cliaddr')
  <2>1. UNCHANGED <<udp_buffer, curr_frame_no, state>>
    BY <1>4 DEF WaitEnd, AllReceived
  <2>2. TypeOK'
    BY <1>1, <1>2, <2>1 DEF TypeOK, clientVars
  <2> QED BY <1>1, <2>1, <2>2
          DEF OneHostInv, LoopInv, RequestOfOneHost, FromOneHost, AnswersGoHome
<1> QED BY <1>3, <1>4

(***************************************************************************)
(* The answers to a request received as a whole.                           *)
(***************************************************************************)
LEMMA WholeAnswers ==
    ASSUME OneHostInv, state = "END_RECVD", NEW answers,
           answers \in {<<Reply("INVALID_END_OF_REQ")>>, <<Reply("INVALID_CMD")>>,
                       <<Reply("executed")>>,
                       <<Reply("INVALID_PACKET_LEN"), Reply("EMPTY_REQ_BODY")>>}
    PROVE  /\ answers \in Seq(Replies)
           /\ \A i \in DOMAIN answers :
                 /\ answers[i].echo = Echo(udp_buffer)
                 /\ answers[i].to = cliaddr
<1>1. \A s : Reply(s).echo = Echo(udp_buffer) /\ Reply(s).to = cliaddr
    BY DEF Reply
<1>2. \A s \in Statuses : Reply(s) \in Replies
    BY ReplyType DEF OneHostInv
<1>3. {"INVALID_END_OF_REQ", "INVALID_CMD", "executed", "INVALID_PACKET_LEN",
       "EMPTY_REQ_BODY"} \subseteq Statuses
    BY DEF Statuses, HeaderErrors
<1>4. ASSUME NEW s \in Statuses, answers = <<Reply(s)>>
      PROVE  /\ answers \in Seq(Replies)
             /\ \A i \in DOMAIN answers :
                   answers[i].echo = Echo(udp_buffer) /\ answers[i].to = cliaddr
    BY <1>1, <1>2, <1>4, OneReply
<1>5. ASSUME answers = <<Reply("INVALID_PACKET_LEN"), Reply("EMPTY_REQ_BODY")>>
      PROVE  /\ answers \in Seq(Replies)
             /\ \A i \in DOMAIN answers :
                   answers[i].echo = Echo(udp_buffer) /\ answers[i].to = cliaddr
  <2> DEFINE r == Reply("INVALID_PACKET_LEN")
             q == Reply("EMPTY_REQ_BODY")
  <2>1. r \in Replies /\ q \in Replies
    BY <1>2, <1>3
  <2>2. /\ r.echo = Echo(udp_buffer) /\ r.to = cliaddr
        /\ q.echo = Echo(udp_buffer) /\ q.to = cliaddr
    BY <1>1
  <2>3. answers = <<r, q>>
    BY <1>5
  <2> HIDE DEF r, q
  <2> QED BY <2>1, <2>2, <2>3, TwoReplies
<1> QED BY <1>3, <1>4, <1>5

LEMMA EndReceivedStep ==
    ASSUME OneHostInv, EndReceived
    PROVE  OneHostInv'
<1>0. PICK answers \in IF ValidEnd(udp_buffer) THEN ProcessRequest
                       ELSE {<<Reply("INVALID_END_OF_REQ")>>} : GoBack(answers)
    BY DEF EndReceived
<1>1. /\ TypeOK /\ state = "END_RECVD" /\ udp_buffer # <<>> /\ udp_buffer \in Seq(Frame)
      /\ FromOneHost(udp_buffer) /\ HostOf[cliaddr] = client_s_addr
      /\ GoBack(answers)
      /\ UNCHANGED <<buffer, frames_expected, curr_frame_no, client_s_addr, cliaddr,
                     udp_buffer, inbox, clientVars>>
    BY <1>0 DEF OneHostInv, TypeOK, LoopInv, RequestOfOneHost, EndReceived
<1>2. answers \in {<<Reply("INVALID_END_OF_REQ")>>, <<Reply("INVALID_CMD")>>,
                   <<Reply("executed")>>,
                   <<Reply("INVALID_PACKET_LEN"), Reply("EMPTY_REQ_BODY")>>}
    BY <1>0 DEF ProcessRequest
<1>3. /\ answers \in Seq(Replies)
      /\ \A i \in DOMAIN answers :
            answers[i].echo = Echo(udp_buffer) /\ answers[i].to = cliaddr
    BY <1>1, <1>2, WholeAnswers
<1>4. TypeOK'
    BY <1>1, <1>3, GoBackType
<1>5. HostOf[cliaddr] = HostOf[Echo(udp_buffer).from]
  <2>1. 1 \in DOMAIN udp_buffer
    BY <1>1, EmptySeq, LenProperties
  <2>2. HostOf[udp_buffer[1].from] = client_s_addr
    BY <1>1, <2>1 DEF FromOneHost
  <2> QED BY <1>1, <2>2 DEF Echo
<1>6. state' = "WAIT_START" /\ replies' = answers /\ udp_buffer' = udp_buffer
    BY <1>1 DEF GoBack
<1>7. AnswersGoHome'
    BY <1>3, <1>5, <1>6 DEF AnswersGoHome
<1> QED BY <1>4, <1>6, <1>7 DEF OneHostInv, LoopInv, RequestOfOneHost

LEMMA TimeOutStep ==
    ASSUME OneHostInv, TimeOut
    PROVE  OneHostInv'
<1> DEFINE r == Reply("FRAME_TIME_OUT")
<1>1. /\ TypeOK /\ state = "WAIT_END" /\ GoBack(<<r>>)
      /\ UNCHANGED <<buffer, frames_expected, curr_frame_no, client_s_addr, cliaddr,
                     udp_buffer, inbox, clientVars>>
    BY DEF OneHostInv, TimeOut
<1>2. r \in Replies /\ r.status = "FRAME_TIME_OUT"
    BY <1>1, ReplyType DEF Reply, Statuses
<1> HIDE DEF r
<1>3. <<r>> \in Seq(Replies) /\ DOMAIN <<r>> = {1} /\ <<r>>[1] = r
    BY <1>2, OneReply
<1>4. TypeOK'
    BY <1>1, <1>3, GoBackType
<1>5. state' = "WAIT_START" /\ replies' = <<r>>
    BY <1>1 DEF GoBack
<1>6. AnswersGoHome'
    BY <1>2, <1>3, <1>5 DEF AnswersGoHome
<1> QED BY <1>4, <1>5, <1>6 DEF OneHostInv, LoopInv, RequestOfOneHost

LEMMA StutterStep ==
    ASSUME OneHostInv, UNCHANGED vars
    PROVE  OneHostInv'
BY DEF OneHostInv, TypeOK, LoopInv, RequestOfOneHost, FromOneHost, AnswersGoHome,
       vars, loopVars, clientVars

-----------------------------------------------------------------------------
LEMMA InductiveInvariant == Spec => []OneHostInv
<1>1. OneHostInv /\ [Next]_vars => OneHostInv'
    BY ClientStep, WaitStartStep, StartReceivedStep, WaitEndStep, EndReceivedStep,
       TimeOutStep, StutterStep DEF Next
<1> QED BY InitialState, <1>1, PTL DEF Spec

\* Two clients are never mixed up in one request (listen_request).
THEOREM NoMixedRequest == Spec => []RequestOfOneHost
<1>1. OneHostInv => RequestOfOneHost
    BY DEF OneHostInv
<1> QED BY InductiveInvariant, <1>1, PTL

\* The answer to a request goes to the host it came from, and names that request.
THEOREM AnswersReachTheirHost == Spec => []AnswersGoHome
<1>1. OneHostInv => AnswersGoHome
    BY DEF OneHostInv
<1> QED BY InductiveInvariant, <1>1, PTL

\* Every variable has its type.
THEOREM TypesHold == Spec => []TypeOK
<1>1. OneHostInv => TypeOK
    BY DEF OneHostInv
<1> QED BY InductiveInvariant, <1>1, PTL
-----------------------------------------------------------------------------
(* Only whole requests are executed: how the datagrams of a client follow  *)
(* one another when one is taken from the socket, or sent.                 *)

LEMMA TailPlaces ==
    ASSUME NEW q \in Seq(Frame), q # <<>>
    PROVE  /\ DOMAIN q = 1..Len(q) /\ Len(q) \in Nat /\ Len(q) >= 1
           /\ Tail(q) \in Seq(Frame) /\ DOMAIN Tail(q) = 1..(Len(q) - 1)
           /\ \A k \in 1..(Len(q) - 1) : Tail(q)[k] = q[k + 1]
           /\ Head(q) = q[1]
<1>1. Len(q) \in Nat /\ DOMAIN q = 1..Len(q) /\ Len(q) # 0
    BY EmptySeq, LenProperties
<1>2. /\ Tail(q) \in Seq(Frame) /\ Len(Tail(q)) = Len(q) - 1
      /\ \A k \in 1..Len(Tail(q)) : Tail(q)[k] = q[k + 1]
    BY HeadTailProperties
<1>3. DOMAIN Tail(q) = 1..Len(Tail(q))
    BY <1>2, LenProperties
<1>4. Head(q) = q[1]
    BY <1>1
<1> QED BY <1>1, <1>2, <1>3, <1>4

LEMMA TailFollowed ==
    ASSUME NEW q \in Seq(Frame), q # <<>>, NEW u, NEW x, NEW i \in Nat,
           Followed(q, u, i, x), i >= 1 \/ q[1].from # x.from
    PROVE  Followed(Tail(q), u, IF i = 0 THEN 0 ELSE i - 1, x)
<1> DEFINE j == IF i = 0 THEN 0 ELSE i - 1
           B == Behind(q, i, x.from)
           T == Behind(Tail(q), j, x.from)
<1>1. /\ DOMAIN q = 1..Len(q) /\ Len(q) \in Nat /\ Len(q) >= 1
      /\ DOMAIN Tail(q) = 1..(Len(q) - 1)
      /\ \A k \in 1..(Len(q) - 1) : Tail(q)[k] = q[k + 1]
    BY TailPlaces
<1>2. j \in Nat
    OBVIOUS
<1>3. ASSUME NEW k \in T PROVE k \in 1..(Len(q) - 1) /\ k + 1 \in B
  <2>1. k \in 1..(Len(q) - 1) /\ k > j /\ Tail(q)[k].from = x.from
    BY <1>1 DEF Behind
  <2>2. k + 1 \in 1..Len(q) /\ k + 1 > i /\ q[k + 1].from = x.from
    BY <1>1, <2>1
  <2> QED BY <1>1, <2>1, <2>2 DEF Behind
<1>4. ASSUME NEW k \in B PROVE k - 1 \in T /\ k \in Nat /\ k - 1 \in 1..(Len(q) - 1)
  <2>1. k \in 1..Len(q) /\ k > i /\ q[k].from = x.from
    BY <1>1 DEF Behind
  <2>2. k # 1
    BY <2>1
  <2>3. k - 1 \in 1..(Len(q) - 1) /\ k - 1 > j /\ (k - 1) + 1 = k
    BY <1>1, <2>1, <2>2
  <2>4. Tail(q)[k - 1].from = x.from
    BY <1>1, <2>1, <2>3
  <2> QED BY <1>1, <2>1, <2>3, <2>4 DEF Behind
<1> SUFFICES ASSUME x.no < x.kind.frames
             PROVE  \/ \E k \in T : Tail(q)[k] = NextOf(x) /\ \A h \in T : k <= h
                    \/ T = {} /\ u[x.from] # <<>> /\ u[x.from][1] = NextOf(x)
    BY DEF Followed
<1>5. CASE \E k \in B : q[k] = NextOf(x) /\ \A h \in B : k <= h
  <2>1. PICK k \in B : q[k] = NextOf(x) /\ \A h \in B : k <= h
    BY <1>5
  <2>2. k - 1 \in T /\ k \in Nat /\ k - 1 \in 1..(Len(q) - 1) /\ (k - 1) + 1 = k
    BY <1>4
  <2>3. Tail(q)[k - 1] = NextOf(x)
    BY <1>1, <2>1, <2>2
  <2>4. ASSUME NEW h \in T PROVE k - 1 <= h
    BY <1>1, <1>3, <2>1, <2>2
  <2> QED BY <2>2, <2>3, <2>4
<1>6. CASE B = {} /\ u[x.from] # <<>> /\ u[x.from][1] = NextOf(x)
  <2>1. T = {}
    BY <1>3, <1>6
  <2> QED BY <1>6, <2>1
<1> QED BY <1>5, <1>6 DEF Followed

LEMMA SendFollowed ==
    ASSUME NEW q \in Seq(Frame), NEW u \in [Clients -> Seq(Frame)], NEW c \in Clients,
           u[c] # <<>>, u[c][1].from = c, NEW x \in Frame, NEW i \in 0..Len(q),
           Followed(q, u, i, x)
    PROVE  Followed(Append(q, u[c][1]), [u EXCEPT ![c] = Tail(@)], i, x)
<1> DEFINE d == x.from
           s == Append(q, u[c][1])
           w == [u EXCEPT ![c] = Tail(@)]
           B == Behind(q, i, d)
           S == Behind(s, i, d)
<1>1. u[c][1] \in Frame /\ d \in Clients
  <2>1. u[c] \in Seq(Frame)
    OBVIOUS
  <2>2. u[c][1] \in Frame
    BY <2>1, EmptySeq, ElementOfSeq
  <2> QED BY <2>2 DEF Frame
<1>2. /\ Len(q) \in Nat /\ DOMAIN q = 1..Len(q) /\ DOMAIN s = 1..(Len(q) + 1)
      /\ \A k \in 1..Len(q) : s[k] = q[k]
      /\ s[Len(q) + 1] = u[c][1]
    BY <1>1, AppendProperties, LenProperties
<1>3. B \subseteq 1..Len(q) /\ B \subseteq S
    BY <1>2 DEF Behind
<1>4. ASSUME NEW k \in S PROVE k \in B \/ (k = Len(q) + 1 /\ d = c)
  <2>1. k \in 1..(Len(q) + 1) /\ k > i /\ s[k].from = d
    BY <1>2 DEF Behind
  <2>2. CASE k \in 1..Len(q)
    BY <1>2, <2>1, <2>2 DEF Behind
  <2>3. CASE k = Len(q) + 1
    BY <1>2, <2>1, <2>3
  <2> QED BY <1>2, <2>1, <2>2, <2>3
<1> HIDE DEF s
<1> SUFFICES ASSUME x.no < x.kind.frames
             PROVE  \/ \E k \in S : s[k] = NextOf(x) /\ \A h \in S : k <= h
                    \/ S = {} /\ w[d] # <<>> /\ w[d][1] = NextOf(x)
    BY DEF Followed, s
<1>5. CASE \E k \in B : q[k] = NextOf(x) /\ \A h \in B : k <= h
  <2>1. PICK k \in B : q[k] = NextOf(x) /\ \A h \in B : k <= h
    BY <1>5
  <2>2. k \in S /\ s[k] = NextOf(x) /\ k \in 1..Len(q)
    BY <1>2, <1>3, <2>1
  <2>3. ASSUME NEW h \in S PROVE k <= h
    BY <1>2, <1>4, <2>1, <2>2
  <2> QED BY <2>2, <2>3
<1>6. CASE B = {} /\ u[d] # <<>> /\ u[d][1] = NextOf(x)
  <2>1. CASE d = c
    <3>1. Len(q) + 1 \in S
      BY <1>2, <2>1 DEF Behind
    <3>2. \A h \in S : h = Len(q) + 1
      BY <1>4, <1>6
    <3>3. s[Len(q) + 1] = NextOf(x)
      BY <1>2, <1>6, <2>1
    <3> QED BY <1>2, <3>1, <3>2, <3>3
  <2>2. CASE d # c
    <3>1. S = {}
      BY <1>4, <1>6, <2>2
    <3>2. w[d] = u[d]
      BY <1>1, <2>2
    <3> QED BY <1>6, <3>1, <3>2
  <2> QED BY <2>1, <2>2
<1> QED BY <1>5, <1>6 DEF Followed

LEMMA NotEmpty ==
    ASSUME NEW s, 1 \in DOMAIN s
    PROVE  s # <<>>
    OBVIOUS

\* The datagram just sent.
LEMMA SentFollowed ==
    ASSUME NEW q \in Seq(Frame), NEW u \in [Clients -> Seq(Frame)], NEW c \in Clients,
           u[c] # <<>>, u[c][1].from = c,
           u[c][1].no < u[c][1].kind.frames => 2 \in DOMAIN u[c] /\ u[c][2] = NextOf(u[c][1])
    PROVE  Followed(Append(q, u[c][1]), [u EXCEPT ![c] = Tail(@)], Len(q) + 1, u[c][1])
<1> DEFINE x == u[c][1]
           s == Append(q, x)
           w == [u EXCEPT ![c] = Tail(@)]
<1>1. u[c] \in Seq(Frame) /\ x \in Frame
    BY EmptySeq, ElementOfSeq
<1>2. Len(q) \in Nat /\ DOMAIN s = 1..(Len(q) + 1)
    BY <1>1, AppendProperties, LenProperties
<1>3. Behind(s, Len(q) + 1, x.from) = {}
    BY <1>2 DEF Behind
<1>4. ASSUME x.no < x.kind.frames PROVE w[c] # <<>> /\ w[c][1] = NextOf(x)
  <2>1. 2 \in DOMAIN u[c] /\ u[c][2] = NextOf(x)
    BY <1>4
  <2>2. /\ DOMAIN u[c] = 1..Len(u[c]) /\ Len(u[c]) \in Nat
        /\ Tail(u[c]) \in Seq(Frame) /\ DOMAIN Tail(u[c]) = 1..(Len(u[c]) - 1)
        /\ \A k \in 1..(Len(u[c]) - 1) : Tail(u[c])[k] = u[c][k + 1]
    BY <1>1, TailPlaces
  <2>3. 1 \in 1..(Len(u[c]) - 1)
    BY <2>1, <2>2
  <2>4. Tail(u[c])[1] = u[c][2] /\ Tail(u[c]) # <<>>
    <3>1. Tail(u[c])[1] = u[c][1 + 1] /\ 1 \in DOMAIN Tail(u[c])
      BY <2>2, <2>3
    <3>2. Tail(u[c])[1] = u[c][2]
      BY <3>1
    <3>3. Tail(u[c]) # <<>>
      BY <3>1, NotEmpty
    <3> QED BY <3>2, <3>3
  <2>5. w[c] = Tail(u[c])
    OBVIOUS
  <2> QED BY <2>1, <2>4, <2>5
<1> HIDE DEF s, w
<1>5. x.from = c
    OBVIOUS
<1>6. Followed(s, w, Len(q) + 1, x)
    BY <1>3, <1>4, <1>5 DEF Followed
<1> QED BY <1>6 DEF s, w

LEMMA StartFollowed ==
    ASSUME NEW q, NEW u \in [Clients -> Seq(Frame)], NEW c \in Clients, u[c] = <<>>,
           NEW s, NEW x \in Frame, NEW i, Followed(q, u, i, x)
    PROVE  Followed(q, [u EXCEPT ![c] = s], i, x)
<1>1. x.from \in Clients
    BY DEF Frame
<1>2. CASE x.from = c
    BY <1>2 DEF Followed
<1>3. CASE x.from # c
  <2>1. [u EXCEPT ![c] = s][x.from] = u[x.from]
    BY <1>1, <1>3
  <2> QED BY <2>1 DEF Followed
<1> QED BY <1>2, <1>3

(***************************************************************************)
(* The steps, while no fault has happened and no two clients that send     *)
(* share a host.                                                           *)
(***************************************************************************)
Sound == StreamInv /\ AssembledInv /\ OnlyWholeRequestsExecuted

\* Whoever has sent from the host of another is that other.
LEMMA OneClientPerHost ==
    ASSUME Undisturbed, NEW c \in Clients, NEW d \in Clients,
           requests[c] > 0, requests[d] > 0, HostOf[c] = HostOf[d]
    PROVE  c = d
BY DEF Undisturbed

\* The first datagram of the request.
LEMMA FirstOfBuffer ==
    ASSUME OneHostInv, state \in {"WAIT_END", "END_RECVD"}
    PROVE  /\ udp_buffer \in Seq(Frame) /\ udp_buffer # <<>>
           /\ Len(udp_buffer) \in Nat /\ Len(udp_buffer) >= 1
           /\ DOMAIN udp_buffer = 1..Len(udp_buffer)
           /\ udp_buffer[1] \in Frame /\ udp_buffer[1].from \in Clients
<1>1. udp_buffer \in Seq(Frame) /\ udp_buffer # <<>>
    BY DEF OneHostInv, LoopInv, TypeOK
<1>2. udp_buffer[1] \in Frame
    BY <1>1, EmptySeq, ElementOfSeq
<1>3. /\ Len(udp_buffer) \in Nat /\ Len(udp_buffer) >= 1
      /\ DOMAIN udp_buffer = 1..Len(udp_buffer)
    BY <1>1, TailPlaces
<1> QED BY <1>1, <1>2, <1>3 DEF Frame

\* Sending and the states of the loop do not touch what is assembled.
LEMMA AssembledKept ==
    ASSUME OneHostInv, AssembledInv, OnlyWholeRequestsExecuted, Undisturbed,
           UNCHANGED loopVars,
           \A c \in Clients : requests'[c] >= requests[c], requests' \in [Clients -> Nat]
    PROVE  AssembledInv' /\ OnlyWholeRequestsExecuted'
<1> USE DEF loopVars
<1>1. state \in {"WAIT_END", "END_RECVD"} => udp_buffer[1].from \in Clients
    BY FirstOfBuffer
<1>2. /\ requests \in [Clients -> Nat]
      /\ \A c \in Clients : requests[c] > 0 => requests'[c] > 0
    BY BoundsAssumption DEF OneHostInv, TypeOK
<1>3. AssembledInv'
    BY <1>1, <1>2 DEF AssembledInv, Beginning
<1> QED BY <1>3 DEF OnlyWholeRequestsExecuted

LEMMA StartWhole ==
    ASSUME OneHostInv, Sound, Undisturbed, NEW c \in Clients, NEW kind \in Kinds,
           StartRequest(c, kind)
    PROVE  Sound'
<1> DEFINE frames == [i \in 1..kind.frames |->
               [from |-> c, req |-> requests'[c], kind |-> kind, no |-> i]]
<1>1. /\ unsent \in [Clients -> Seq(Frame)] /\ inbox \in Seq(Frame)
      /\ requests \in [Clients -> 0..MaxRequests] /\ MaxRequests \in Nat
      /\ unsent[c] = <<>>
      /\ requests' = [requests EXCEPT ![c] = @ + 1]
      /\ unsent' = [unsent EXCEPT ![c] = frames]
      /\ UNCHANGED <<loopVars, inbox>>
    BY BoundsAssumption DEF OneHostInv, TypeOK, StartRequest
<1>2. /\ requests' \in [Clients -> Nat] /\ requests'[c] > 0
      /\ \A d \in Clients : requests'[d] >= requests[d]
    BY <1>1
<1>3. AssembledInv' /\ OnlyWholeRequestsExecuted'
    BY <1>1, <1>2, AssembledKept DEF Sound
<1>4. kind.frames \in Nat
    BY KindsAssumption DEF KindType
<1>5. ASSUME NEW i \in DOMAIN frames
      PROVE  /\ frames[i].from = c
             /\ frames[i].no < frames[i].kind.frames =>
                   i + 1 \in DOMAIN frames /\ frames[i + 1] = NextOf(frames[i])
    BY <1>4 DEF NextOf
<1> HIDE DEF frames
<1>6. \A d \in Clients : unsent'[d] = IF d = c THEN frames ELSE unsent[d]
    BY <1>1
<1>7. ASSUME NEW d \in Clients, NEW i \in DOMAIN unsent'[d]
      PROVE  LET x == unsent'[d][i] IN
             /\ x.from = d /\ requests'[d] > 0
             /\ x.no < x.kind.frames =>
                   i + 1 \in DOMAIN unsent'[d] /\ unsent'[d][i + 1] = NextOf(x)
  <2>1. CASE d = c
    BY <1>2, <1>5, <1>6, <2>1
  <2>2. CASE d # c
    <3>1. unsent'[d] = unsent[d] /\ requests'[d] = requests[d]
      BY <1>1, <1>6, <2>2
    <3> QED BY <3>1 DEF Sound, StreamInv
  <2> QED BY <2>1, <2>2
<1>8. ASSUME NEW x \in Frame, NEW i, Followed(inbox, unsent, i, x)
      PROVE  Followed(inbox', unsent', i, x)
    BY <1>1, <1>8, StartFollowed
<1>9. ASSUME NEW i \in DOMAIN inbox'
      PROVE  requests'[inbox'[i].from] > 0 /\ Followed(inbox', unsent', i, inbox'[i])
  <2>1. inbox' = inbox /\ inbox[i] \in Frame /\ inbox[i].from \in Clients
    <3>1. inbox' = inbox /\ i \in 1..Len(inbox)
      BY <1>1, <1>9, LenProperties
    <3>2. inbox[i] \in Frame
      BY <1>1, <3>1, ElementOfSeq
    <3> QED BY <3>1, <3>2 DEF Frame
  <2>2. requests[inbox[i].from] > 0 /\ Followed(inbox, unsent, i, inbox[i])
    BY <1>9, <2>1 DEF Sound, StreamInv
  <2> QED BY <1>1, <1>2, <1>8, <2>1, <2>2
<1>10. state' = "START_RECVD" =>
          requests'[buffer'.from] > 0 /\ Followed(inbox', unsent', 0, buffer')
  <2> SUFFICES ASSUME state = "START_RECVD"
               PROVE  requests'[buffer.from] > 0 /\ Followed(inbox', unsent', 0, buffer)
    BY <1>1 DEF loopVars
  <2>1. buffer \in Frame /\ buffer.from \in Clients
    BY DEF OneHostInv, TypeOK, Frame
  <2>2. requests[buffer.from] > 0 /\ Followed(inbox, unsent, 0, buffer)
    BY DEF Sound, StreamInv
  <2> QED BY <1>1, <1>2, <1>8, <2>1, <2>2
<1>11. state' = "WAIT_END" =>
          Followed(inbox', unsent', 0, udp_buffer'[Len(udp_buffer')])
  <2> SUFFICES ASSUME state = "WAIT_END"
               PROVE  Followed(inbox', unsent', 0, udp_buffer[Len(udp_buffer)])
    BY <1>1 DEF loopVars
  <2>1. udp_buffer[Len(udp_buffer)] \in Frame
    BY FirstOfBuffer, ElementOfSeq
  <2>2. Followed(inbox, unsent, 0, udp_buffer[Len(udp_buffer)])
    BY DEF Sound, StreamInv
  <2> QED BY <1>8, <2>1, <2>2
<1>12. StreamInv'
    BY <1>7, <1>9, <1>10, <1>11 DEF StreamInv
<1> QED BY <1>3, <1>12 DEF Sound

LEMMA SendWhole ==
    ASSUME OneHostInv, Sound, Undisturbed, NEW c \in Clients, SendDatagram(c)
    PROVE  Sound'
<1> DEFINE h == unsent[c][1]
<1>1. /\ unsent \in [Clients -> Seq(Frame)] /\ inbox \in Seq(Frame)
      /\ requests \in [Clients -> 0..MaxRequests] /\ MaxRequests \in Nat
      /\ unsent[c] # <<>> /\ unsent[c] \in Seq(Frame)
      /\ unsent' = [unsent EXCEPT ![c] = Tail(@)]
      /\ UNCHANGED <<loopVars, requests>>
    BY BoundsAssumption DEF OneHostInv, TypeOK, SendDatagram
<1>2. /\ DOMAIN unsent[c] = 1..Len(unsent[c]) /\ Len(unsent[c]) \in Nat
      /\ Len(unsent[c]) >= 1
      /\ DOMAIN Tail(unsent[c]) = 1..(Len(unsent[c]) - 1)
      /\ \A k \in 1..(Len(unsent[c]) - 1) : Tail(unsent[c])[k] = unsent[c][k + 1]
      /\ Head(unsent[c]) = h
    BY <1>1, TailPlaces
<1>3. inbox' = Append(inbox, h) /\ h \in Frame
    BY <1>1, <1>2, ElementOfSeq DEF SendDatagram
<1>4. /\ Len(inbox) \in Nat /\ DOMAIN inbox = 1..Len(inbox)
      /\ DOMAIN inbox' = 1..(Len(inbox) + 1)
      /\ \A k \in 1..Len(inbox) : inbox'[k] = inbox[k]
      /\ inbox'[Len(inbox) + 1] = h
    BY <1>1, <1>3, AppendProperties, LenProperties
<1>5. AssembledInv' /\ OnlyWholeRequestsExecuted'
  <2>1. requests' \in [Clients -> Nat] /\ \A d \in Clients : requests'[d] >= requests[d]
    BY <1>1
  <2> QED BY <1>1, <2>1, AssembledKept DEF Sound
<1>6. ASSUME NEW d \in Clients, NEW i \in DOMAIN unsent[d]
      PROVE  /\ unsent[d][i].from = d /\ requests[d] > 0
             /\ unsent[d][i].no < unsent[d][i].kind.frames =>
                   i + 1 \in DOMAIN unsent[d] /\ unsent[d][i + 1] = NextOf(unsent[d][i])
    BY DEF Sound, StreamInv
<1>7. /\ h.from = c /\ requests[c] > 0
      /\ h.no < h.kind.frames => 2 \in DOMAIN unsent[c] /\ unsent[c][2] = NextOf(h)
  <2>1. 1 \in DOMAIN unsent[c] /\ 1 + 1 = 2
    BY <1>2
  <2> QED BY <1>6, <2>1
<1>8. ASSUME NEW d \in Clients, NEW i \in DOMAIN unsent'[d]
      PROVE  LET x == unsent'[d][i] IN
             /\ x.from = d /\ requests'[d] > 0
             /\ x.no < x.kind.frames =>
                   i + 1 \in DOMAIN unsent'[d] /\ unsent'[d][i + 1] = NextOf(x)
  <2>1. CASE d = c
    <3>1. unsent'[d] = Tail(unsent[c])
      BY <1>1, <2>1
    <3>2. i \in 1..(Len(unsent[c]) - 1) /\ unsent'[d][i] = unsent[c][i + 1]
      BY <1>2, <3>1
    <3>3. i + 1 \in DOMAIN unsent[c]
      BY <1>2, <3>2
    <3>4. ASSUME (i + 1) + 1 \in DOMAIN unsent[c]
          PROVE  i + 1 \in DOMAIN unsent'[d] /\ unsent'[d][i + 1] = unsent[c][(i + 1) + 1]
      BY <1>2, <3>1, <3>2, <3>4
    <3> QED BY <1>1, <1>6, <2>1, <3>2, <3>3, <3>4
  <2>2. CASE d # c
    <3>1. unsent'[d] = unsent[d]
      BY <1>1, <2>2
    <3> QED BY <1>1, <1>6, <3>1
  <2> QED BY <2>1, <2>2
<1>9. ASSUME NEW x \in Frame, NEW i \in 0..Len(inbox), Followed(inbox, unsent, i, x)
      PROVE  Followed(inbox', unsent', i, x)
    BY <1>1, <1>3, <1>7, <1>9, SendFollowed
<1>10. ASSUME NEW i \in DOMAIN inbox'
       PROVE  requests'[inbox'[i].from] > 0 /\ Followed(inbox', unsent', i, inbox'[i])
  <2>1. CASE i \in 1..Len(inbox)
    <3>1. inbox'[i] = inbox[i] /\ inbox[i] \in Frame /\ i \in 0..Len(inbox)
      BY <1>1, <1>4, <2>1, ElementOfSeq
    <3>2. requests[inbox[i].from] > 0 /\ Followed(inbox, unsent, i, inbox[i])
      BY <1>4, <2>1 DEF Sound, StreamInv
    <3> QED BY <1>1, <1>9, <3>1, <3>2
  <2>2. CASE i = Len(inbox) + 1
    <3>1. Followed(Append(inbox, h), [unsent EXCEPT ![c] = Tail(@)], Len(inbox) + 1, h)
      BY <1>1, <1>7, SentFollowed
    <3> QED BY <1>1, <1>3, <1>4, <1>7, <2>2, <3>1
  <2> QED BY <1>4, <2>1, <2>2
<1>11. state' = "START_RECVD" =>
          requests'[buffer'.from] > 0 /\ Followed(inbox', unsent', 0, buffer')
  <2> SUFFICES ASSUME state = "START_RECVD"
               PROVE  requests[buffer.from] > 0 /\ Followed(inbox', unsent', 0, buffer)
    BY <1>1 DEF loopVars
  <2>1. buffer \in Frame /\ 0 \in 0..Len(inbox)
    BY <1>4 DEF OneHostInv, TypeOK
  <2>2. requests[buffer.from] > 0 /\ Followed(inbox, unsent, 0, buffer)
    BY DEF Sound, StreamInv
  <2> QED BY <1>9, <2>1, <2>2
<1>12. state' = "WAIT_END" =>
          Followed(inbox', unsent', 0, udp_buffer'[Len(udp_buffer')])
  <2> SUFFICES ASSUME state = "WAIT_END"
               PROVE  Followed(inbox', unsent', 0, udp_buffer[Len(udp_buffer)])
    BY <1>1 DEF loopVars
  <2>1. udp_buffer[Len(udp_buffer)] \in Frame /\ 0 \in 0..Len(inbox)
    BY <1>4, FirstOfBuffer, ElementOfSeq
  <2>2. Followed(inbox, unsent, 0, udp_buffer[Len(udp_buffer)])
    BY DEF Sound, StreamInv
  <2> QED BY <1>9, <2>1, <2>2
<1>13. StreamInv'
    BY <1>8, <1>10, <1>11, <1>12 DEF StreamInv
<1> QED BY <1>5, <1>13 DEF Sound

\* The streams when the first datagram in the socket is taken.
LEMMA TakenStream ==
    ASSUME OneHostInv, StreamInv, inbox # <<>>, inbox' = Tail(inbox), UNCHANGED clientVars
    PROVE  /\ \A c \in Clients : \A i \in DOMAIN unsent'[c] :
                 LET x == unsent'[c][i] IN
                 /\ x.from = c /\ requests'[c] > 0
                 /\ x.no < x.kind.frames =>
                       i + 1 \in DOMAIN unsent'[c] /\ unsent'[c][i + 1] = NextOf(x)
           /\ \A i \in DOMAIN inbox' :
                 requests'[inbox'[i].from] > 0 /\ Followed(inbox', unsent', i, inbox'[i])
           /\ Head(inbox) \in Frame
           /\ requests'[Head(inbox).from] > 0
           /\ Followed(inbox', unsent', 0, Head(inbox))
<1>1. /\ inbox \in Seq(Frame) /\ unsent' = unsent /\ requests' = requests
    BY DEF OneHostInv, TypeOK, clientVars
<1>2. /\ DOMAIN inbox = 1..Len(inbox) /\ Len(inbox) \in Nat /\ Len(inbox) >= 1
      /\ DOMAIN inbox' = 1..(Len(inbox) - 1)
      /\ \A k \in 1..(Len(inbox) - 1) : inbox'[k] = inbox[k + 1]
      /\ Head(inbox) = inbox[1]
    BY <1>1, TailPlaces
<1>3. Head(inbox) \in Frame
    BY <1>1, <1>2, ElementOfSeq
<1>4. ASSUME NEW i \in DOMAIN inbox
      PROVE  requests[inbox[i].from] > 0 /\ Followed(inbox, unsent, i, inbox[i])
    BY DEF StreamInv
<1>5. ASSUME NEW i \in Nat, i >= 1, NEW x, Followed(inbox, unsent, i, x)
      PROVE  Followed(inbox', unsent', i - 1, x)
  <2>1. Followed(Tail(inbox), unsent, IF i = 0 THEN 0 ELSE i - 1, x)
    BY <1>1, <1>5, TailFollowed
  <2> QED BY <1>1, <1>5, <2>1
<1>6. ASSUME NEW i \in DOMAIN inbox'
      PROVE  requests'[inbox'[i].from] > 0 /\ Followed(inbox', unsent', i, inbox'[i])
  <2>1. inbox'[i] = inbox[i + 1] /\ i + 1 \in DOMAIN inbox /\ i + 1 \in Nat /\ i + 1 >= 1
    BY <1>2
  <2>2. requests[inbox[i + 1].from] > 0 /\ Followed(inbox, unsent, i + 1, inbox[i + 1])
    BY <1>4, <2>1
  <2>3. Followed(inbox', unsent', (i + 1) - 1, inbox[i + 1])
    BY <1>5, <2>1, <2>2
  <2>4. (i + 1) - 1 = i
    BY <1>2
  <2> QED BY <1>1, <2>1, <2>2, <2>3, <2>4
<1>7. requests'[inbox[1].from] > 0 /\ Followed(inbox', unsent', 0, inbox[1])
  <2>1. 1 \in DOMAIN inbox /\ 1 - 1 = 0
    BY <1>2
  <2>2. requests[inbox[1].from] > 0 /\ Followed(inbox, unsent, 1, inbox[1])
    BY <1>4, <2>1
  <2>3. Followed(inbox', unsent', 1 - 1, inbox[1])
    BY <1>5, <2>2
  <2> QED BY <1>1, <2>1, <2>2, <2>3
<1> QED BY <1>1, <1>2, <1>3, <1>6, <1>7 DEF StreamInv

LEMMA WaitStartWhole ==
    ASSUME OneHostInv, Sound, Undisturbed, WaitStart
    PROVE  Sound'
<1>1. /\ inbox # <<>> /\ buffer' = Head(inbox) /\ inbox' = Tail(inbox)
      /\ replies' = <<>> /\ state' = "START_RECVD" /\ UNCHANGED clientVars
    BY DEF WaitStart
<1>2. StreamInv'
    BY <1>1, TakenStream DEF Sound, StreamInv
<1>3. DOMAIN replies' = {}
    BY <1>1
<1> QED BY <1>1, <1>2, <1>3 DEF Sound, AssembledInv, OnlyWholeRequestsExecuted

\* The last of one datagram is the first of it.
LEMMA OneFrame ==
    ASSUME NEW x
    PROVE  Len(<<x>>) = 1 /\ DOMAIN <<x>> = {1} /\ <<x>>[1] = x
    OBVIOUS

LEMMA StartReceivedWhole ==
    ASSUME OneHostInv, Sound, Undisturbed, StartReceived
    PROVE  Sound'
<1>1. /\ TypeOK /\ state = "START_RECVD" /\ curr_frame_no = 1 /\ replies = <<>>
      /\ buffer \in Frame
      /\ UNCHANGED <<buffer, curr_frame_no, cliaddr, inbox, clientVars>>
    BY DEF OneHostInv, TypeOK, LoopInv, StartReceived
<1>2. /\ unsent' = unsent /\ requests' = requests /\ inbox' = inbox
    BY <1>1 DEF clientVars
<1>3. requests[buffer.from] > 0 /\ Followed(inbox, unsent, 0, buffer)
    BY <1>1 DEF Sound, StreamInv
<1>4. PICK status \in HeaderStatus(buffer) :
        \/ /\ status # "NO_ERR_CODE"
           /\ GoBack(<<Reply(status)>>)
           /\ UNCHANGED <<frames_expected, udp_buffer, client_s_addr>>
        \/ /\ status = "NO_ERR_CODE"
           /\ frames_expected' = buffer.kind.frames
           /\ udp_buffer' = <<buffer>>
           /\ client_s_addr' = HostOf[cliaddr]
           /\ state' = IF frames_expected' = 1 THEN "END_RECVD" ELSE "WAIT_END"
           /\ UNCHANGED replies
    BY DEF StartReceived
<1>5. CASE status # "NO_ERR_CODE"
  <2> DEFINE r == Reply(status)
  <2>1. state' = "WAIT_START" /\ replies' = <<r>>
    BY <1>4, <1>5 DEF GoBack
  <2>2. r.status # "executed"
    <3>1. status \in HeaderErrors
      BY <1>1, <1>5, KindsAssumption DEF HeaderStatus, Frame, KindType
    <3> QED BY <3>1 DEF Reply, HeaderErrors
  <2> HIDE DEF r
  <2>3. DOMAIN replies' = {1} /\ replies'[1] = r
    BY <2>1, OneFrame
  <2>4. OnlyWholeRequestsExecuted'
    BY <2>2, <2>3 DEF OnlyWholeRequestsExecuted
  <2> QED BY <1>2, <2>1, <2>4 DEF Sound, StreamInv, AssembledInv
<1>6. CASE status = "NO_ERR_CODE"
  <2>1. /\ frames_expected' = buffer.kind.frames
        /\ udp_buffer' = <<buffer>>
        /\ state' = IF frames_expected' = 1 THEN "END_RECVD" ELSE "WAIT_END"
        /\ replies' = <<>> /\ curr_frame_no' = 1
    BY <1>1, <1>4, <1>6
  <2>2. buffer.no = 1
    BY <1>6 DEF HeaderStatus, HeaderErrors
  <2>3. /\ Len(udp_buffer') = 1 /\ DOMAIN udp_buffer' = {1} /\ udp_buffer'[1] = buffer
        /\ DOMAIN replies' = {}
    BY <2>1, OneFrame
  <2>4. buffer = [buffer EXCEPT !.no = 1]
    BY <1>1, <2>2 DEF Frame
  <2>5. Beginning(udp_buffer)'
    BY <2>3, <2>4 DEF Beginning
  <2>6. AssembledInv'
    BY <1>2, <1>3, <2>1, <2>3, <2>5 DEF AssembledInv
  <2>7. StreamInv'
    BY <1>2, <1>3, <2>1, <2>3 DEF Sound, StreamInv
  <2> QED BY <2>3, <2>6, <2>7 DEF Sound, OnlyWholeRequestsExecuted
<1> QED BY <1>5, <1>6

LEMMA TimeOutWhole ==
    ASSUME OneHostInv, Sound, Undisturbed, TimeOut
    PROVE  Sound'
<1> DEFINE r == Reply("FRAME_TIME_OUT")
<1>1. /\ state' = "WAIT_START" /\ replies' = <<r>>
      /\ unsent' = unsent /\ requests' = requests /\ inbox' = inbox
    BY DEF TimeOut, GoBack, clientVars
<1>2. r.status # "executed"
    BY DEF Reply
<1> HIDE DEF r
<1>3. DOMAIN replies' = {1} /\ replies'[1] = r
    BY <1>1, OneFrame
<1>4. OnlyWholeRequestsExecuted'
    BY <1>2, <1>3 DEF OnlyWholeRequestsExecuted
<1> QED BY <1>1, <1>4 DEF Sound, StreamInv, AssembledInv

\* The next datagram of the host under way is the next one of the request.
LEMMA NextIsNext ==
    ASSUME OneHostInv, Sound, Undisturbed, state = "WAIT_END", inbox # <<>>
    PROVE  LET last == udp_buffer[Len(udp_buffer)] IN
           /\ last.from = udp_buffer[1].from
           /\ HostOf[Head(inbox).from] = client_s_addr =>
                 Head(inbox) = [udp_buffer[1] EXCEPT !.no = Len(udp_buffer) + 1]
           /\ HostOf[Head(inbox).from] # client_s_addr => Head(inbox).from # last.from
<1> DEFINE n == Len(udp_buffer)
           first == udp_buffer[1]
           last == udp_buffer[n]
<1>1. /\ n \in Nat /\ n >= 1 /\ DOMAIN udp_buffer = 1..n
      /\ first \in Frame /\ first.from \in Clients
    BY FirstOfBuffer
<1>2. /\ Beginning(udp_buffer) /\ n < first.kind.frames /\ requests[first.from] > 0
      /\ HostOf[first.from] = client_s_addr
      /\ Followed(inbox, unsent, 0, last)
  <2>1. FromOneHost(udp_buffer) /\ curr_frame_no < frames_expected
    BY DEF OneHostInv, RequestOfOneHost, LoopInv
  <2>2. 1 \in DOMAIN udp_buffer
    BY <1>1
  <2> QED BY <2>1, <2>2 DEF Sound, StreamInv, AssembledInv, FromOneHost
<1>3. last = [first EXCEPT !.no = n]
    BY <1>1, <1>2 DEF Beginning
<1>4. last.from = first.from /\ last.no = n /\ last.kind = first.kind
    BY <1>1, <1>3 DEF Frame
<1>5. /\ inbox \in Seq(Frame) /\ 1 \in DOMAIN inbox /\ Head(inbox) = inbox[1]
      /\ DOMAIN inbox = 1..Len(inbox) /\ Len(inbox) \in Nat
      /\ Head(inbox) \in Frame /\ Head(inbox).from \in Clients
  <2>1. inbox \in Seq(Frame)
    BY DEF OneHostInv, TypeOK
  <2> QED BY <2>1, TailPlaces, HeadOfInbox DEF OneHostInv
<1> HIDE DEF n, first, last
<1>6. CASE HostOf[Head(inbox).from] = client_s_addr
  <2>1. requests[Head(inbox).from] > 0
    BY <1>5 DEF Sound, StreamInv
  <2>2. Head(inbox).from = first.from
    BY <1>1, <1>2, <1>5, <1>6, <2>1, OneClientPerHost
  <2>3. 1 \in Behind(inbox, 0, last.from)
    BY <1>4, <1>5, <2>2 DEF Behind
  <2>4. PICK j \in Behind(inbox, 0, last.from) :
            inbox[j] = NextOf(last) /\ \A k \in Behind(inbox, 0, last.from) : j <= k
    BY <1>2, <1>4, <2>3 DEF Followed
  <2>5. j = 1
    BY <1>5, <2>3, <2>4 DEF Behind
  <2>6. NextOf(last) = [first EXCEPT !.no = n + 1]
    BY <1>1, <1>3, <1>4 DEF NextOf, Frame
  <2> QED BY <1>4, <1>5, <1>6, <2>4, <2>5, <2>6 DEF n, first, last
<1>7. CASE HostOf[Head(inbox).from] # client_s_addr
    BY <1>2, <1>4, <1>7 DEF n, first, last
<1> QED BY <1>6, <1>7

LEMMA WaitEndWhole ==
    ASSUME OneHostInv, Sound, Undisturbed, WaitEnd
    PROVE  Sound'
<1> DEFINE n == Len(udp_buffer)
<1>1. /\ state = "WAIT_END" /\ inbox # <<>> /\ buffer' = Head(inbox)
      /\ inbox' = Tail(inbox) /\ cliaddr' = Head(inbox).from
      /\ replies' = <<>> /\ frames_expected' = frames_expected
      /\ UNCHANGED clientVars
    BY DEF WaitEnd, OneHostInv, LoopInv
<1>2. unsent' = unsent /\ requests' = requests
    BY <1>1 DEF clientVars
<1>3. /\ udp_buffer \in Seq(Frame) /\ n \in Nat /\ n >= 1 /\ DOMAIN udp_buffer = 1..n
      /\ udp_buffer[1] \in Frame
    BY <1>1, FirstOfBuffer
<1>4. /\ Beginning(udp_buffer) /\ n = curr_frame_no
      /\ frames_expected = udp_buffer[1].kind.frames
      /\ requests[udp_buffer[1].from] > 0
      /\ Followed(inbox, unsent, 0, udp_buffer[n])
    BY <1>1 DEF Sound, StreamInv, AssembledInv
<1>5. /\ udp_buffer[n].from = udp_buffer[1].from
      /\ HostOf[Head(inbox).from] = client_s_addr =>
            Head(inbox) = [udp_buffer[1] EXCEPT !.no = n + 1]
      /\ HostOf[Head(inbox).from] # client_s_addr => Head(inbox).from # udp_buffer[n].from
    BY <1>1, NextIsNext
<1>6. OnlyWholeRequestsExecuted'
  <2>1. DOMAIN replies' = {}
    BY <1>1
  <2> QED BY <2>1 DEF OnlyWholeRequestsExecuted
<1>7. CASE SameSender(cliaddr')
  <2>1. /\ udp_buffer' = Append(udp_buffer, Head(inbox))
        /\ curr_frame_no' = curr_frame_no + 1
        /\ state' = IF curr_frame_no' = frames_expected THEN "END_RECVD" ELSE state
        /\ HostOf[Head(inbox).from] = client_s_addr
    BY <1>1, <1>7 DEF WaitEnd, SameSender, AllReceived
  <2>2. Head(inbox) \in Frame
    BY <1>1, HeadOfInbox DEF OneHostInv
  <2>3. /\ Len(udp_buffer') = n + 1 /\ DOMAIN udp_buffer' = 1..(n + 1)
        /\ \A i \in 1..n : udp_buffer'[i] = udp_buffer[i]
        /\ udp_buffer'[n + 1] = Head(inbox)
    BY <1>3, <2>1, <2>2, AppendProperties, LenProperties
  <2>4. udp_buffer'[1] = udp_buffer[1]
    BY <1>3, <2>3
  <2>5. Beginning(udp_buffer)'
    <3>1. ASSUME NEW i \in 1..(n + 1)
          PROVE  udp_buffer'[i] = [udp_buffer[1] EXCEPT !.no = i]
      <4>1. CASE i \in 1..n
        BY <1>3, <1>4, <2>3, <4>1 DEF Beginning
      <4>2. CASE i = n + 1
        BY <1>5, <2>1, <2>3, <4>2
      <4> QED BY <1>3, <4>1, <4>2
    <3> QED BY <2>3, <2>4, <3>1 DEF Beginning
  <2>6. AssembledInv'
    BY <1>1, <1>2, <1>3, <1>4, <2>1, <2>3, <2>4, <2>5 DEF AssembledInv
  <2>7. StreamInv'
    <3>1. state' # "START_RECVD"
      BY <1>1, <2>1
    <3>2. state' = "WAIT_END" => Followed(inbox', unsent', 0, udp_buffer'[Len(udp_buffer')])
      BY <1>1, <2>3, TakenStream DEF Sound
    <3> QED BY <1>1, <3>1, <3>2, TakenStream DEF Sound, StreamInv
  <2> QED BY <1>6, <2>6, <2>7 DEF Sound
<1>8. CASE ~ SameSender(cliaddr')
  <2>1. UNCHANGED <<udp_buffer, curr_frame_no, state>>
    BY <1>8 DEF WaitEnd, AllReceived
  <2>2. AssembledInv'
    BY <1>1, <1>2, <1>4, <2>1 DEF AssembledInv
  <2>3. Head(inbox) = inbox[1] /\ inbox \in Seq(Frame)
    BY <1>1, TailPlaces DEF OneHostInv, TypeOK
  <2>4. Head(inbox).from # udp_buffer[n].from
    BY <1>1, <1>5, <1>8 DEF SameSender
  <2>5. Followed(Tail(inbox), unsent, IF 0 = 0 THEN 0 ELSE 0 - 1, udp_buffer[n])
    BY <1>1, <1>4, <2>3, <2>4, TailFollowed
  <2>6. Followed(inbox', unsent', 0, udp_buffer'[Len(udp_buffer')])
    BY <1>1, <1>2, <2>1, <2>5
  <2>7. StreamInv'
    <3>1. state' # "START_RECVD"
      BY <1>1, <2>1
    <3> QED BY <1>1, <2>6, <3>1, TakenStream DEF Sound, StreamInv
  <2> QED BY <1>6, <2>2, <2>7 DEF Sound
<1> QED BY <1>7, <1>8

LEMMA EndReceivedWhole ==
    ASSUME OneHostInv, Sound, Undisturbed, EndReceived
    PROVE  Sound'
<1>1. /\ state = "END_RECVD" /\ state' = "WAIT_START"
      /\ udp_buffer' = udp_buffer /\ inbox' = inbox
      /\ unsent' = unsent /\ requests' = requests
    BY DEF EndReceived, GoBack, clientVars
<1>2. /\ DOMAIN udp_buffer = 1..Len(udp_buffer) /\ udp_buffer[1] \in Frame
      /\ udp_buffer \in Seq(Frame)
    BY <1>1, FirstOfBuffer
<1>3. Beginning(udp_buffer) /\ Len(udp_buffer) = udp_buffer[1].kind.frames
    BY <1>1 DEF Sound, AssembledInv
<1>4. udp_buffer = [i \in 1..udp_buffer[1].kind.frames |-> [udp_buffer[1] EXCEPT !.no = i]]
  <2>1. udp_buffer = [i \in 1..Len(udp_buffer) |-> udp_buffer[i]]
    BY <1>2
  <2>2. \A i \in 1..Len(udp_buffer) : udp_buffer[i] = [udp_buffer[1] EXCEPT !.no = i]
    BY <1>2, <1>3 DEF Beginning
  <2> QED BY <1>3, <2>1, <2>2
<1>5. OnlyWholeRequestsExecuted'
    BY <1>1, <1>4 DEF OnlyWholeRequestsExecuted
<1> QED BY <1>1, <1>5 DEF Sound, StreamInv, AssembledInv

\* What has happened stays so.
LEMMA UndisturbedBefore ==
    ASSUME OneHostInv, [Next]_vars, Undisturbed'
    PROVE  Undisturbed
<1>1. /\ requests \in [Clients -> 0..MaxRequests] /\ faults \in 0..MaxFaults
      /\ MaxFaults \in Nat /\ MaxRequests \in Nat
    BY BoundsAssumption DEF OneHostInv, TypeOK
<1>2. faults' >= faults /\ \A c \in Clients : requests'[c] >= requests[c]
  <2>1. CASE UNCHANGED clientVars
    BY <1>1, <2>1 DEF clientVars
  <2>2. ASSUME NEW c \in Clients, NEW kind \in Kinds, StartRequest(c, kind) PROVE <1>2
    BY <1>1, <2>2 DEF StartRequest
  <2>3. ASSUME NEW c \in Clients,
               SendDatagram(c) \/ LoseDatagram(c) \/ DuplicateDatagram(c)
        PROVE  <1>2
    BY <1>1, <2>3 DEF SendDatagram, LoseDatagram, DuplicateDatagram
  <2>4. WaitStart \/ StartReceived \/ TimeOut \/ WaitEnd \/ EndReceived \/ UNCHANGED vars
            => UNCHANGED clientVars
    BY DEF WaitStart, StartReceived, TimeOut, WaitEnd, EndReceived, vars
  <2> QED BY <2>1, <2>2, <2>3, <2>4 DEF Next
<1>3. faults = 0
    BY <1>1, <1>2 DEF Undisturbed
<1>4. ASSUME NEW c \in Clients, NEW d \in Clients, c # d, requests[c] > 0, requests[d] > 0
      PROVE  HostOf[c] # HostOf[d]
  <2>1. requests'[c] > 0 /\ requests'[d] > 0
    <3>1. /\ requests'[c] >= requests[c] /\ requests'[d] >= requests[d]
          /\ requests[c] \in Nat /\ requests[d] \in Nat
      BY <1>1, <1>2
    <3>2. requests' \in [Clients -> Int]
      <4>1. CASE UNCHANGED requests
        BY <1>1, <4>1
      <4>2. ASSUME NEW b \in Clients, NEW kind \in Kinds, StartRequest(b, kind) PROVE <3>2
        BY <1>1, <4>2 DEF StartRequest
      <4> QED BY <4>1, <4>2
              DEF Next, SendDatagram, LoseDatagram, DuplicateDatagram, WaitStart,
                  StartReceived, TimeOut, WaitEnd, EndReceived, vars, clientVars
    <3> QED BY <1>4, <3>1, <3>2
  <2> QED BY <1>4, <2>1 DEF Undisturbed
<1> QED BY <1>3, <1>4 DEF Undisturbed

LEMMA WholeInitially == Init => WholeInv
<1> SUFFICES ASSUME Init PROVE Sound
    BY DEF WholeInv, Sound
<1>1. /\ DOMAIN inbox = {} /\ DOMAIN replies = {} /\ \A c \in Clients : DOMAIN unsent[c] = {}
      /\ state = "WAIT_START"
    BY DEF Init
<1> QED BY <1>1 DEF Sound, StreamInv, AssembledInv, OnlyWholeRequestsExecuted

LEMMA WholeStep == OneHostInv /\ WholeInv /\ [Next]_vars => WholeInv'
<1> SUFFICES ASSUME OneHostInv, WholeInv, [Next]_vars, Undisturbed' PROVE Sound'
    BY DEF WholeInv, Sound
<1>1. Undisturbed /\ Sound
    BY UndisturbedBefore DEF WholeInv, Sound
<1>2. ASSUME NEW c \in Clients, NEW kind \in Kinds, StartRequest(c, kind) PROVE Sound'
    BY <1>1, <1>2, StartWhole
<1>3. ASSUME NEW c \in Clients, SendDatagram(c) PROVE Sound'
    BY <1>1, <1>3, SendWhole
<1>4. ASSUME NEW c \in Clients, LoseDatagram(c) \/ DuplicateDatagram(c) PROVE FALSE
    BY <1>1, <1>4 DEF LoseDatagram, DuplicateDatagram, Undisturbed
<1>5. CASE WaitStart
    BY <1>1, <1>5, WaitStartWhole
<1>6. CASE StartReceived
    BY <1>1, <1>6, StartReceivedWhole
<1>7. CASE TimeOut
    BY <1>1, <1>7, TimeOutWhole
<1>8. CASE WaitEnd
    BY <1>1, <1>8, WaitEndWhole
<1>9. CASE EndReceived
    BY <1>1, <1>9, EndReceivedWhole
<1>10. CASE UNCHANGED vars
    BY <1>1, <1>10
       DEF Sound, StreamInv, AssembledInv, OnlyWholeRequestsExecuted, Undisturbed,
           vars, loopVars, clientVars
<1> QED BY <1>2, <1>3, <1>4, <1>5, <1>6, <1>7, <1>8, <1>9, <1>10 DEF Next

\* With no datagram lost or doubled and clients on hosts of their own, a request
\* executed is all of one request, in its order, however clients are interleaved
\* (listen_request checks the host of a datagram, not its number).
THEOREM WholeRequestsOnly == Spec => []OnlyWholeRequestsExecuted
<1>1. WholeInv => OnlyWholeRequestsExecuted
    BY DEF WholeInv, OnlyWholeRequestsExecuted
<1> QED BY InductiveInvariant, WholeInitially, WholeStep, <1>1, PTL DEF Spec
=============================================================================
