------------------------ MODULE CoinConverter_proofs ------------------------
(***************************************************************************)
(* Proofs about CoinConverter: whatever is sent, lost or duplicated, and   *)
(* whenever the key file cannot be read, the tickets of clients that       *)
(* encrypt them are looked up as they were sent, and such clients can read *)
(* the answers.                                                            *)
(***************************************************************************)
EXTENDS CoinConverter, SequenceTheorems, TLAPS

LEMMA InitialState == ConverterInit => LookUpInv
<1> SUFFICES ASSUME ConverterInit PROVE LookUpInv
    OBVIOUS
<1>1. <<>> \in Seq(Frame) /\ DOMAIN replies = {}
    BY EmptySeq DEF ConverterInit, Init
<1> QED BY <1>1, BoundsAssumption
        DEF ConverterInit, Init, LookUpInv, DatagramsInv, TicketIsAsSent,
            AnswerIsReadable, Answered, NoTicket

\* An answer that is not SUCCESS says nothing that had to be encrypted.
LEMMA OtherAnswer ==
    ASSUME NEW status, status # "SUCCESS", replies' = <<Reply(status)>>
    PROVE  AnswerIsReadable'
<1>1. DOMAIN replies' = {1} /\ replies'[1].status = status
    BY DEF Reply
<1> QED BY <1>1 DEF AnswerIsReadable, Answered

LEMMA ClientStep ==
    ASSUME LookUpInv, ClientOrNetwork, UNCHANGED converterVars
    PROVE  LookUpInv'
<1>1. PICK c \in Clients : \/ \E kind \in Kinds : StartRequest(c, kind)
                           \/ SendDatagram(c) \/ LoseDatagram(c) \/ DuplicateDatagram(c)
    BY DEF ClientOrNetwork
<1>2. UNCHANGED loopVars
    BY <1>1 DEF StartRequest, SendDatagram, LoseDatagram, DuplicateDatagram
<1>3. /\ inbox \in Seq(Frame) /\ unsent \in [Clients -> Seq(Frame)]
      /\ requests \in [Clients -> 0..MaxRequests]
    BY DEF LookUpInv, DatagramsInv
<1>4. unsent[c] # <<>> => Head(unsent[c]) \in Frame /\ Tail(unsent[c]) \in Seq(Frame)
    BY <1>3, HeadTailProperties
<1>5. /\ inbox' \in Seq(Frame) /\ unsent' \in [Clients -> Seq(Frame)]
      /\ requests' \in [Clients -> 0..MaxRequests]
  <2>1. ASSUME NEW kind \in Kinds, StartRequest(c, kind) PROVE <1>5
    <3>1. requests' \in [Clients -> 0..MaxRequests] /\ requests'[c] \in 1..MaxRequests
      BY <1>3, <2>1, BoundsAssumption DEF StartRequest
    <3> DEFINE frames == [i \in 1..kind.frames |->
                   [from |-> c, req |-> requests'[c], kind |-> kind, no |-> i]]
    <3>2. kind.frames \in 1..FramesMax /\ kind.frames \in Nat
      BY KindsAssumption DEF KindType
    <3>3. frames \in [1..kind.frames -> Frame]
      BY <3>1, <3>2, KindsAssumption DEF Frame
    <3>4. frames \in Seq(Frame)
      BY <3>2, <3>3, SeqDef
    <3>5. unsent' = [unsent EXCEPT ![c] = frames] /\ UNCHANGED inbox
      BY <2>1 DEF StartRequest
    <3> HIDE DEF frames
    <3> QED BY <1>3, <3>1, <3>4, <3>5
  <2>2. CASE SendDatagram(c)
    BY <1>3, <1>4, <2>2, AppendProperties DEF SendDatagram
  <2>3. CASE LoseDatagram(c)
    BY <1>3, <1>4, <2>3 DEF LoseDatagram
  <2>4. CASE DuplicateDatagram(c)
    BY <1>3, <1>4, <2>4, AppendProperties DEF DuplicateDatagram
  <2> QED BY <1>1, <2>1, <2>2, <2>3, <2>4
<1> QED BY <1>2, <1>5
        DEF LookUpInv, DatagramsInv, TicketIsAsSent, AnswerIsReadable,
            Answered, loopVars, converterVars

LEMMA ReceiveStep ==
    ASSUME LookUpInv, Receive, UNCHANGED converterVars
    PROVE  LookUpInv'
<1>1. TicketIsAsSent'
    BY DEF LookUpInv, TicketIsAsSent, converterVars
<1>2. /\ udp_buffer \in Seq(Frame) /\ inbox \in Seq(Frame)
      /\ unsent \in [Clients -> Seq(Frame)] /\ requests \in [Clients -> 0..MaxRequests]
    BY DEF LookUpInv, DatagramsInv
<1>3. inbox # <<>> => Head(inbox) \in Frame /\ Tail(inbox) \in Seq(Frame)
    BY <1>2, HeadTailProperties
<1>4. CASE WaitStart
  <2>1. replies' = <<>> /\ DOMAIN replies' = {}
    BY <1>4, EmptySeq DEF WaitStart
  <2>2. AnswerIsReadable'
    BY <2>1 DEF AnswerIsReadable, Answered
  <2> QED BY <1>1, <1>2, <1>3, <1>4, <2>2
          DEF LookUpInv, DatagramsInv, WaitStart, clientVars
<1>5. CASE CheckHeader
  <2>1. /\ state = "START_RECVD" /\ buffer \in Frame
        /\ UNCHANGED <<buffer, inbox, clientVars>>
    BY <1>5 DEF CheckHeader, StartReceived, LookUpInv, DatagramsInv
  <2>2. PICK status \in HeaderStatus(buffer) :
            \/ /\ status # "NO_ERR_CODE"
               /\ GoBack(<<Reply(status)>>)
               /\ UNCHANGED udp_buffer
            \/ /\ status = "NO_ERR_CODE"
               /\ frames_expected' = buffer.kind.frames
               /\ udp_buffer' = <<buffer>>
               /\ state' = IF frames_expected' = 1 THEN "END_RECVD" ELSE "WAIT_END"
               /\ UNCHANGED replies
    BY <1>5 DEF CheckHeader, StartReceived
  <2>3. buffer.kind.header \in HeaderErrors \cup {"NO_ERR_CODE"}
        /\ buffer.kind.frames \in 1..FramesMax
    BY <2>1, KindsAssumption DEF Frame, KindType
  <2>4. status \in HeaderErrors \cup {"NO_ERR_CODE"}
    BY <2>3 DEF HeaderStatus
  <2>5. status # "SUCCESS"
    BY <2>4 DEF HeaderErrors
  <2>6. CASE status # "NO_ERR_CODE"
    <3>1. state' = "WAIT_START" /\ replies' = <<Reply(status)>> /\ UNCHANGED udp_buffer
      BY <2>2, <2>6 DEF GoBack
    <3>2. AnswerIsReadable'
      BY <2>5, <3>1, OtherAnswer
    <3> QED BY <1>1, <1>2, <2>1, <3>1, <3>2 DEF LookUpInv, DatagramsInv, clientVars
  <2>7. CASE status = "NO_ERR_CODE"
    <3>1. /\ udp_buffer' = <<buffer>> /\ UNCHANGED replies
          /\ state' = IF buffer.kind.frames = 1 THEN "END_RECVD" ELSE "WAIT_END"
      BY <2>2, <2>7
    <3>2. udp_buffer' \in Seq(Frame) /\ state' # "START_RECVD"
      BY <2>1, <3>1
    <3>3. AnswerIsReadable'
      BY <3>1 DEF LookUpInv, AnswerIsReadable, Answered, converterVars
    <3> QED BY <1>1, <1>2, <2>1, <3>1, <3>2, <3>3 DEF LookUpInv, DatagramsInv, clientVars
  <2> QED BY <2>6, <2>7
<1>6. CASE TimeOut
  <2>1. /\ state' = "WAIT_START" /\ replies' = <<Reply("FRAME_TIME_OUT")>>
        /\ UNCHANGED <<udp_buffer, inbox, clientVars>>
    BY <1>6 DEF TimeOut, GoBack
  <2>2. AnswerIsReadable'
    BY <2>1, OtherAnswer
  <2> QED BY <1>1, <1>2, <2>1, <2>2 DEF LookUpInv, DatagramsInv, clientVars
<1>7. CASE WaitEnd
  <2>1. /\ state = "WAIT_END" /\ inbox # <<>>
        /\ buffer' = Head(inbox) /\ inbox' = Tail(inbox)
        /\ UNCHANGED <<replies, clientVars>>
    BY <1>7 DEF WaitEnd
  <2>2. AnswerIsReadable'
    BY <2>1 DEF LookUpInv, AnswerIsReadable, Answered, converterVars
  <2>3. /\ state' \in {"WAIT_END", "END_RECVD"}
        /\ udp_buffer' = udp_buffer \/ udp_buffer' = Append(udp_buffer, buffer')
    BY <1>7, <2>1 DEF WaitEnd
  <2>4. udp_buffer' \in Seq(Frame)
    <3>1. buffer' \in Frame
      BY <1>3, <2>1
    <3>2. CASE udp_buffer' = Append(udp_buffer, buffer')
      BY <1>2, <3>1, <3>2, AppendProperties
    <3> QED BY <1>2, <2>3, <3>2
  <2> QED BY <1>1, <1>2, <1>3, <2>1, <2>2, <2>3, <2>4
          DEF LookUpInv, DatagramsInv, clientVars
<1> QED BY <1>4, <1>5, <1>6, <1>7 DEF Receive

\* A request that is encrypted as a whole passes the test of the end only when it was
\* decrypted as a whole, and with its own nonce.
LEMMA LookedUpAsSent ==
    ASSUME udp_buffer \in Seq(Frame), EndReads(udp_buffer),
           NEW t \in TicketsRead(udp_buffer), t.encrypted
    PROVE  t.asSent /\ nounce' = Echo(udp_buffer)
<1>1. Len(udp_buffer) \in Nat /\ DOMAIN udp_buffer = 1..Len(udp_buffer)
    BY LenProperties
<1>2. \A i \in DOMAIN udp_buffer : WasEncrypted(udp_buffer[i])
    BY DEF TicketsRead
<1>3. CASE Len(udp_buffer) > 1
  <2>1. Len(udp_buffer) \in DOMAIN udp_buffer
    BY <1>1, <1>3
  <2> QED BY <1>2, <1>3, <2>1 DEF EndReads, ReadsAsSent
<1>4. CASE ~ (Len(udp_buffer) > 1)
  <2>1. Len(udp_buffer) = 1 /\ ReadsAsSent(udp_buffer)
    BY <1>4 DEF EndReads, ReadsAsSent
  <2>2. t.asSent = ReadsAsSent(udp_buffer)
    BY <2>1 DEF TicketsRead
  <2> QED BY <2>1, <2>2 DEF ReadsAsSent
<1> QED BY <1>3, <1>4

LEMMA ProcessStep ==
    ASSUME LookUpInv, DecryptAndProcess
    PROVE  LookUpInv'
<1>1. /\ state = "END_RECVD"
      /\ UNCHANGED <<buffer, udp_buffer, inbox, clientVars>>
    BY DEF DecryptAndProcess
<1>2. state' = "WAIT_START"
    BY DEF DecryptAndProcess, ExecuteCoinConverter, Query, Send, GoBack
<1>3. DatagramsInv'
    BY <1>1, <1>2 DEF LookUpInv, DatagramsInv, clientVars
<1>4. TicketIsAsSent' /\ AnswerIsReadable'
  <2>1. ASSUME NEW status, status # "SUCCESS", Send(status), ticket' = ticket
        PROVE  TicketIsAsSent' /\ AnswerIsReadable'
    BY <2>1, OtherAnswer DEF Send, GoBack, LookUpInv, TicketIsAsSent
  <2>2. CASE EndReads(udp_buffer) /\ ExecuteCoinConverter
    <3>1. CASE /\ GoBack(<<Reply("INVALID_PACKET_LEN"), Reply("EMPTY_REQ_BODY")>>)
               /\ ticket' = ticket
      <4>1. replies' = <<Reply("INVALID_PACKET_LEN"), Reply("EMPTY_REQ_BODY")>>
        BY <3>1 DEF GoBack
      <4>2. /\ DOMAIN replies' = {1, 2} /\ replies'[1].status = "INVALID_PACKET_LEN"
            /\ replies'[2].status = "EMPTY_REQ_BODY"
        BY <4>1 DEF Reply
      <4> QED BY <3>1, <4>2
              DEF LookUpInv, TicketIsAsSent, AnswerIsReadable, Answered
    <3>2. CASE GoBack(<<>>) /\ ticket' = ticket
      <4>1. replies' = <<>> /\ DOMAIN replies' = {}
        BY <3>2, EmptySeq DEF GoBack
      <4> QED BY <3>2, <4>1 DEF LookUpInv, TicketIsAsSent, AnswerIsReadable, Answered
    <3>3. CASE Query
      <4>1. udp_buffer \in Seq(Frame) /\ ticket' \in TicketsRead(udp_buffer)
        BY <3>3 DEF Query, LookUpInv, DatagramsInv
      <4>2. ticket'.encrypted => ticket'.asSent /\ nounce' = Echo(udp_buffer)
        BY <2>2, <4>1, LookedUpAsSent
      <4>3. TicketIsAsSent'
        BY <4>2 DEF TicketIsAsSent
      <4>4. CASE Send("FAIL") \/ Send("NO_TICKET_FOUND")
        BY <4>3, <4>4, OtherAnswer DEF Send, GoBack
      <4>5. CASE Send("SUCCESS") /\ sealed' = nounce'
        <5>1. replies' = <<Reply("SUCCESS")>> /\ replies'[1].echo = Echo(udp_buffer)
          BY <4>5 DEF Send, GoBack, Reply
        <5> QED BY <4>2, <4>3, <4>5, <5>1 DEF AnswerIsReadable
      <4> QED BY <3>3, <4>4, <4>5 DEF Query
    <3> QED BY <2>1, <2>2, <3>1, <3>2, <3>3 DEF ExecuteCoinConverter
  <2> QED BY <2>1, <2>2 DEF DecryptAndProcess
<1> QED BY <1>3, <1>4 DEF LookUpInv

LEMMA StutterStep ==
    ASSUME LookUpInv, UNCHANGED allVars
    PROVE  LookUpInv'
BY DEF LookUpInv, DatagramsInv, TicketIsAsSent, AnswerIsReadable, Answered,
       allVars, vars, loopVars, clientVars, converterVars

-----------------------------------------------------------------------------
LEMMA InductiveInvariant == ConverterSpec => []LookUpInv
<1>1. LookUpInv /\ [ConverterNext]_allVars => LookUpInv'
    BY ClientStep, ReceiveStep, ProcessStep, StutterStep DEF ConverterNext
<1> QED BY InitialState, <1>1, PTL DEF ConverterSpec

\* No ticket that was sent encrypted is looked up garbled (decrypt_request_body,
\* execute_coin_converter), whatever key and nonce were left over.
THEOREM TicketsAreAsSent == ConverterSpec => []TicketIsAsSent
<1>1. LookUpInv => TicketIsAsSent
    BY DEF LookUpInv
<1> QED BY InductiveInvariant, <1>1, PTL

\* Serial numbers asked for with an encrypted request are encrypted with its nonce.
THEOREM AnswersAreReadable == ConverterSpec => []AnswerIsReadable
<1>1. LookUpInv => AnswerIsReadable
    BY DEF LookUpInv
<1> QED BY InductiveInvariant, <1>1, PTL

\* Connections are left open only when the ticket is not found; no other return
\* of execute_coin_converter forgets mysql_close.
THEOREM UnknownTicketsLeak == ConverterSpec => OnlyUnknownTicketsLeak
<1>1. [ConverterNext]_allVars =>
        [connections' # connections => Answered("NO_TICKET_FOUND")']_allVars
    <2> SUFFICES ASSUME ConverterNext, connections' # connections
                 PROVE  Answered("NO_TICKET_FOUND")'
        OBVIOUS
    <2>1. ExecuteCoinConverter
        BY DEF ConverterNext, DecryptAndProcess, converterVars
    <2>2. Query
        BY <2>1 DEF ExecuteCoinConverter
    <2>3. Send("NO_TICKET_FOUND")
        BY <2>2 DEF Query, Closed
    <2>4. DOMAIN replies' = {1} /\ replies'[1].status = "NO_TICKET_FOUND"
        BY <2>3 DEF Send, GoBack, Reply
    <2> QED BY <2>4 DEF Answered
<1> QED BY <1>1, PTL DEF ConverterSpec, OnlyUnknownTicketsLeak

-----------------------------------------------------------------------------
\* What the types of the loop rest on: its counters and its buffers.
CountersInv ==
    /\ DatagramsInv
    /\ ConverterTypeOK
    /\ frames_expected \in 0..FramesMax
    /\ state = "START_RECVD" => curr_frame_no = 1
    /\ state = "WAIT_END" => curr_frame_no < frames_expected
    /\ state = "END_RECVD" => udp_buffer # <<>>
    /\ state = "WAIT_END" => udp_buffer # <<>>

LEMMA InitialCounters == ConverterInit => CountersInv
<1> SUFFICES ASSUME ConverterInit PROVE CountersInv
    OBVIOUS
<1>1. <<>> \in Seq(Frame)
    BY EmptySeq
<1>2. DatagramsInv
    BY InitialState DEF LookUpInv
<1>3. NoTicket \in [of : RequestNames, encrypted : BOOLEAN, asSent : BOOLEAN] /\ NoRequest \in RequestNames
    BY DEF NoTicket, RequestNames
<1>4. 0 \in 0..FramesMax /\ 0 \in 0..ConnectionsMax
    BY KindsAssumption, ConnectionsAssumption
<1> QED BY <1>1, <1>2, <1>3, <1>4
        DEF ConverterInit, Init, CountersInv, ConverterTypeOK, States

\* The name of the request whose nonce is taken.
LEMMA EchoName ==
    ASSUME NEW received \in Seq(Frame)
    PROVE  Echo(received) \in RequestNames
<1>1. received # <<>> => received[1] \in Frame
    BY EmptySeq, ElementOfSeq
<1> QED BY <1>1 DEF Echo, RequestNames, Frame

LEMMA ReceiveCounts ==
    ASSUME LookUpInv, CountersInv, Receive, UNCHANGED converterVars, DatagramsInv'
    PROVE  CountersInv'
<1>1. FramesMax \in Nat \ {0}
    BY KindsAssumption
<1>2. /\ key' \in BOOLEAN /\ nounce' \in RequestNames /\ sealed' \in RequestNames
      /\ ticket' \in [of : RequestNames, encrypted : BOOLEAN, asSent : BOOLEAN]
      /\ connections' \in 0..ConnectionsMax
    BY DEF CountersInv, ConverterTypeOK, converterVars
<1>3. udp_buffer' \in Seq(Frame)
    BY DEF DatagramsInv
<1>4. CASE WaitStart
    BY <1>1, <1>2, <1>3, <1>4 DEF WaitStart, CountersInv, ConverterTypeOK, States
<1>5. CASE TimeOut
    BY <1>1, <1>2, <1>3, <1>5 DEF TimeOut, GoBack, CountersInv, ConverterTypeOK, States
<1>6. CASE CheckHeader
    <2>1. buffer.kind.frames \in 1..FramesMax
        <3>1. buffer \in Frame
            BY <1>6 DEF CheckHeader, StartReceived, CountersInv, DatagramsInv
        <3> QED BY <3>1, KindsAssumption DEF Frame, KindType
    <2>2. /\ curr_frame_no = 1 /\ curr_frame_no' = 1
          /\ \/ state' = "WAIT_START" /\ UNCHANGED frames_expected
             \/ /\ frames_expected' = buffer.kind.frames /\ udp_buffer' = <<buffer>>
                /\ state' = IF frames_expected' = 1 THEN "END_RECVD" ELSE "WAIT_END"
        BY <1>6 DEF CheckHeader, StartReceived, GoBack, CountersInv
    <2>3. curr_frame_no' \in 0..FramesMax /\ frames_expected' \in 0..FramesMax
        BY <1>1, <2>1, <2>2 DEF CountersInv
    <2>4. CASE state' = "WAIT_START"
        BY <1>2, <1>3, <2>3, <2>4 DEF CountersInv, ConverterTypeOK, States
    <2>5. CASE state' # "WAIT_START"
        <3>1. /\ udp_buffer' # <<>> /\ state' \in {"END_RECVD", "WAIT_END"}
              /\ state' = "WAIT_END" => curr_frame_no' < frames_expected'
            BY <1>1, <2>1, <2>2, <2>5
        <3>2. ConverterTypeOK'
            BY <1>2, <1>3, <2>3, <3>1 DEF ConverterTypeOK, States
        <3> QED BY <2>3, <3>1, <3>2 DEF CountersInv
    <2> QED BY <2>4, <2>5
<1>7. CASE WaitEnd
    <2>1. Head(inbox) \in Frame /\ udp_buffer # <<>>
        BY <1>7, HeadTailProperties DEF WaitEnd, CountersInv, DatagramsInv
    <2>2. /\ state = "WAIT_END" /\ frames_expected' = frames_expected
          /\ \/ /\ udp_buffer' = Append(udp_buffer, Head(inbox))
                /\ curr_frame_no' = curr_frame_no + 1
                /\ state' = IF curr_frame_no + 1 = frames_expected THEN "END_RECVD" ELSE state
             \/ UNCHANGED <<udp_buffer, curr_frame_no, state>>
        BY <1>7 DEF WaitEnd, AllReceived
    <2>3. udp_buffer' # <<>>
        BY <2>1, <2>2, AppendProperties DEF CountersInv, DatagramsInv
    <2> QED BY <1>1, <1>2, <1>3, <2>2, <2>3 DEF CountersInv, ConverterTypeOK, States
<1> QED BY <1>4, <1>5, <1>6, <1>7 DEF Receive

LEMMA ProcessCounts ==
    ASSUME LookUpInv, CountersInv, DecryptAndProcess, DatagramsInv'
    PROVE  CountersInv'
<1>1. /\ state' = "WAIT_START" /\ connections' \in 0..ConnectionsMax
      /\ sealed' \in {sealed, nounce'}
      /\ ticket' = ticket \/ ticket' \in TicketsRead(udp_buffer)
    <2>1. connections \in 0..ConnectionsMax
        BY DEF CountersInv, ConverterTypeOK
    <2>2. CASE /\ state' = "WAIT_START"
               /\ UNCHANGED <<ticket, sealed, connections>>
        BY <2>1, <2>2
    <2>3. CASE Query
        <3>1. ticket' \in TicketsRead(udp_buffer) /\ connections < ConnectionsMax
            BY <2>3 DEF Query
        <3>2. state' = "WAIT_START" /\ sealed' \in {sealed, nounce'}
              /\ connections' \in {connections, connections + 1}
            BY <2>3 DEF Query, Send, GoBack, Closed
        <3> QED BY <2>1, <3>1, <3>2, ConnectionsAssumption
    <2> QED BY <2>2, <2>3 DEF DecryptAndProcess, ExecuteCoinConverter, Send, GoBack
<1>2. key' \in BOOLEAN /\ nounce' \in RequestNames
    BY EchoName DEF DecryptAndProcess, LoadEncryptKey, CountersInv, ConverterTypeOK
<1>3. Echo(udp_buffer) \in RequestNames
    BY EchoName DEF CountersInv, ConverterTypeOK
<1>4. /\ ReadsAsSent(udp_buffer) \in BOOLEAN
      /\ (\A i \in DOMAIN udp_buffer : WasEncrypted(udp_buffer[i])) \in BOOLEAN
    BY DEF ReadsAsSent
<1>5. ticket' \in [of : RequestNames, encrypted : BOOLEAN, asSent : BOOLEAN]
    BY <1>1, <1>3, <1>4 DEF TicketsRead, CountersInv, ConverterTypeOK
<1> QED BY <1>1, <1>2, <1>5
        DEF DecryptAndProcess, CountersInv, ConverterTypeOK, States

LEMMA ClientCounts ==
    ASSUME CountersInv, ClientOrNetwork, UNCHANGED converterVars, DatagramsInv'
    PROVE  CountersInv'
<1>1. UNCHANGED loopVars
    BY DEF ClientOrNetwork, StartRequest, SendDatagram, LoseDatagram, DuplicateDatagram
<1> QED BY <1>1 DEF CountersInv, ConverterTypeOK, loopVars, converterVars

\* Every variable of the converter has its type.
THEOREM TypesHold == ConverterSpec => []ConverterTypeOK
<1>1. LookUpInv /\ LookUpInv' /\ CountersInv /\ [ConverterNext]_allVars => CountersInv'
    <2>1. ASSUME CountersInv, UNCHANGED allVars PROVE CountersInv'
        BY <2>1 DEF CountersInv, DatagramsInv, ConverterTypeOK, allVars, vars, loopVars,
            clientVars, converterVars
    <2>2. LookUpInv' => DatagramsInv'
        BY DEF LookUpInv
    <2> QED BY <2>1, <2>2, ClientCounts, ReceiveCounts, ProcessCounts DEF ConverterNext
<1>2. CountersInv => ConverterTypeOK
    BY DEF CountersInv
<1> QED BY <1>1, <1>2, InitialCounters, InductiveInvariant, PTL DEF ConverterSpec

=============================================================================
