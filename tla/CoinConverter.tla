---------------------------- MODULE CoinConverter ---------------------------
(***************************************************************************)
(* The older server (src/Old/udp_socket.c).  Its loop is that of           *)
(* RequestAssembly; it decrypts a request before it looks at the end, with *)
(* a key that is loaded anew and a nonce out of the request, looks up the  *)
(* ticket in a database, and sends the serial numbers encrypted.           *)
(*                                                                         *)
(* The encryption code in the header is tested for 0 or 1 and then         *)
(* ignored: every request is decrypted.  Bytes garbled by a wrong key or   *)
(* nonce never pass for REQ_END, and crypt_ctr leaves the nonce as it is.  *)
(***************************************************************************)
EXTENDS RequestAssembly

CONSTANTS
    Encrypted,      \* does the client encrypt requests of the kind?
    ConnectionsMax  \* the connections the database allows

ASSUME EncryptedAssumption   == Encrypted \in [Clients \X Kinds -> BOOLEAN]
ASSUME ConnectionsAssumption == ConnectionsMax \in Nat

VARIABLES
    key,            \* is the key of encryption_key.bin in encrypt_key?
    nounce,         \* the request the nonce was taken from last
    ticket,         \* the last ticket looked up: whose, was all of its request
                    \* encrypted, and is it the one that was sent?
    sealed,         \* the request whose nonce encrypted the last answer
    connections     \* the database connections left open

converterVars == <<key, nounce, ticket, sealed, connections>>
allVars       == <<vars, converterVars>>

NoTicket == [of |-> NoRequest, encrypted |-> TRUE, asSent |-> TRUE]

ConverterInit ==
    /\ Init
    /\ key = FALSE
    /\ nounce = NoRequest
    /\ ticket = NoTicket
    /\ sealed = NoRequest
    /\ connections = 0

(***************************************************************************)
(* load_encrypt_key.  If the file cannot be read, key and nonce stay as    *)
(* they are; decrypt_request_body goes on with them.                       *)
(***************************************************************************)
LoadEncryptKey ==
    \/ key' = TRUE /\ nounce' = Echo(udp_buffer)
    \/ UNCHANGED <<key, nounce>>

(***************************************************************************)
(* decrypt_request_body.  What is decrypted is as long as the body of the  *)
(* last datagram would be if it had a header: all of a request of one      *)
(* datagram, and less than the end of any other.                           *)
(***************************************************************************)
WasEncrypted(frame) == Encrypted[frame.from, frame.kind]

ReadsAsSent(frames) ==
    Len(frames) = 1 /\ WasEncrypted(frames[1]) /\ key' /\ nounce' = Echo(frames)

\* Seeded fault: the end is compared before the request is decrypted.
EndBeforeDecryption(frames) == TRUE

EndReads(frames) ==
    \/ ReadsAsSent(frames)
    \/ Len(frames) > 1 /\ ~ WasEncrypted(frames[Len(frames)])

(***************************************************************************)
(* What is looked up.  In a request of several datagrams, it depends on    *)
(* their sizes whether decrypt_request_body gets as far as the ticket.     *)
(***************************************************************************)
TicketsRead(frames) ==
    [of : {Echo(frames)},
     encrypted : {\A i \in DOMAIN frames : WasEncrypted(frames[i])},
     asSent : IF Len(frames) = 1 THEN {ReadsAsSent(frames)} ELSE BOOLEAN]

(***************************************************************************)
(* execute_coin_converter.  Every failure after mysql_init is answered     *)
(* with FAIL; a missing Coin_Converter.config is not answered at all.      *)
(***************************************************************************)
\* Seeded fault: mysql_close is left out.
LeftOpen(open) == open + 1

\* mysql_close.
Closed(open) == open

\* send_err_resp_header, send_response: one answer, and back to the first state.
Send(status) == GoBack(<<Reply(status)>>)

\* The connection fails, at the latest when no more are allowed, or it is used.
Query ==
    /\ connections < ConnectionsMax
    /\ ticket' \in TicketsRead(udp_buffer)
    /\ \/ /\ Send("FAIL")                        \* mysql_query, mysql_store_result
          /\ connections' = Closed(connections)
          /\ UNCHANGED sealed
       \/ /\ Send("NO_TICKET_FOUND")             \* no mysql_close
          /\ connections' = connections + 1
          /\ UNCHANGED sealed
       \/ /\ Send("SUCCESS")
          /\ connections' = Closed(connections)
          /\ sealed' = nounce'

ExecuteCoinConverter ==
    \E valid \in ValidBody(udp_buffer) :
        \/ /\ ~ valid
           /\ GoBack(<<Reply("INVALID_PACKET_LEN"), Reply("EMPTY_REQ_BODY")>>)
           /\ UNCHANGED <<ticket, sealed, connections>>
        \/ /\ valid
           /\ \/ /\ GoBack(<<>>)                        \* no configuration file
                 /\ UNCHANGED <<ticket, sealed, connections>>
              \/ /\ Send("FAIL")                     \* mysql_init, mysql_real_connect
                 /\ UNCHANGED <<ticket, sealed, connections>>
              \/ Query

\* listen_request (STATE_END_RECVD), process_request.
DecryptAndProcess ==
    /\ state = "END_RECVD"
    /\ LoadEncryptKey
    /\ \/ /\ ~ (EndReads(udp_buffer) /\ ValidEnd(udp_buffer))
          /\ Send("INVALID_END_OF_REQ")
          /\ UNCHANGED <<ticket, sealed, connections>>
       \/ /\ EndReads(udp_buffer) /\ ValidEnd(udp_buffer)
          /\ ~ udp_buffer[1].kind.known
          /\ Send("INVALID_CMD")
          /\ UNCHANGED <<ticket, sealed, connections>>
       \/ /\ EndReads(udp_buffer) /\ ValidEnd(udp_buffer)
          /\ udp_buffer[1].kind.known
          /\ ExecuteCoinConverter
    /\ UNCHANGED <<buffer, frames_expected, curr_frame_no, client_s_addr, cliaddr,
                   udp_buffer, inbox, clientVars>>

ClientOrNetwork ==
    \E c \in Clients : \/ \E kind \in Kinds : StartRequest(c, kind)
                       \/ SendDatagram(c)
                       \/ LoseDatagram(c)
                       \/ DuplicateDatagram(c)

\* validate_request_header: the same checks in another order.
CheckHeader == StartReceived

Receive == WaitStart \/ CheckHeader \/ TimeOut \/ WaitEnd

ConverterNext ==
    \/ ClientOrNetwork /\ UNCHANGED converterVars
    \/ Receive /\ UNCHANGED converterVars
    \/ DecryptAndProcess

ConverterSpec == ConverterInit /\ [][ConverterNext]_allVars

-----------------------------------------------------------------------------
Answered(status) == \E i \in DOMAIN replies : replies[i].status = status

\* Every variable of the loop and of the converter has its type.
RequestNames == {NoRequest} \cup [from : Clients, req : 1..MaxRequests]

ConverterTypeOK ==
    /\ state \in States
    /\ curr_frame_no \in 0..FramesMax
    /\ udp_buffer \in Seq(Frame)
    /\ key \in BOOLEAN
    /\ nounce \in RequestNames
    /\ ticket \in [of : RequestNames, encrypted : BOOLEAN, asSent : BOOLEAN]
    /\ sealed \in RequestNames
    /\ connections \in 0..ConnectionsMax

(***************************************************************************)
(* The ticket of a client that encrypts what it sends is looked up as it   *)
(* was sent, or not at all: a request garbled by a wrong key, a nonce left *)
(* over from another request or too short a decryption fails the test of   *)
(* the end first (decrypt_request_body).  A request that is not encrypted, *)
(* or in part, may pass that test when it has several datagrams, and then  *)
(* any ticket is looked up.                                                *)
(***************************************************************************)
TicketIsAsSent == ticket.encrypted => ticket.asSent

(***************************************************************************)
(* Such a client can read its serial numbers: they are encrypted with the  *)
(* nonce of the request they answer, although nounce is global and         *)
(* load_encrypt_key may fail (execute_coin_converter).                     *)
(***************************************************************************)
AnswerIsReadable ==
    Answered("SUCCESS") /\ ticket.encrypted => sealed = replies[1].echo

(***************************************************************************)
(* A connection to the database stays open only when the ticket was not    *)
(* found.                                                                  *)
(***************************************************************************)
OnlyUnknownTicketsLeak ==
    [][connections' # connections => Answered("NO_TICKET_FOUND")']_allVars

\* What is received are datagrams, and requests grow only if their header says so.
DatagramsInv ==
    /\ state = "START_RECVD" => buffer \in Frame
    /\ udp_buffer \in Seq(Frame)
    /\ inbox \in Seq(Frame)
    /\ unsent \in [Clients -> Seq(Frame)]
    /\ requests \in [Clients -> 0..MaxRequests]

LookUpInv ==
    /\ DatagramsInv
    /\ TicketIsAsSent
    /\ AnswerIsReadable
=============================================================================
