---------------------------- MODULE PrimaryAgent ----------------------------
(***************************************************************************)
(* The program `agent` on the primary (RAIDA_AGENT.c,                      *)
(* Agent_Call_Services.c).  One run of it looks for the youngest           *)
(* modification time among the primary's data files, asks the mirror which *)
(* files changed after that, asks for these files one by one, overwrites   *)
(* its own, and exits.  The run is started again from outside.             *)
(***************************************************************************)
EXTENDS SyncBase

CONSTANTS
    Creatable,      \* the files whose directory exists on the primary
    MaxRuns,        \* bound: ports the runs of the agent use, one each
    RunsForever     \* do the ports start again from 1, so that runs never end?

ASSUME CreatableAreFiles == Creatable \subseteq Files
ASSUME RunBounds == MaxRuns \in Nat \ {0} /\ RunsForever \in BOOLEAN

VARIABLES
    apc,            \* where the run is
    port,           \* the port of the current or last run
    files_id,       \* the file ids the mirror reported
    cur,            \* the file being asked for, 0 while asking for the report
    recv,           \* the response being received, header left out of its body
    pending,        \* the items fwrite or fclose has still to write
    data,           \* the contents of the primary's files
    ptime,          \* their modification times, 0 while there is no such file
    outcome         \* how the run ended

agentVars == <<apc, port, files_id, cur, recv, pending, data, ptime, outcome>>

NothingReceived == [status |-> NoHeader, frames |-> 0, got |-> 0, body |-> <<>>]
Responses == [status : Status \cup {NoHeader}, frames : Nat, got : Nat,
              body : Seq(Item)]
AgentStates == {"idle", "wait_first", "wait_more", "received", "call", "write",
                "close"}
Outcomes    == {"none", "no_changes", "error", "ended", "killed"}

AgentInit ==
    /\ apc = "idle"
    /\ port = 0
    /\ files_id = <<>>
    /\ cur = 0
    /\ recv = NothingReceived
    /\ pending = <<>>
    /\ data = [f \in Files |-> <<>>]
    /\ ptime = [f \in Files |-> 0]
    /\ outcome = "none"

(***************************************************************************)
(* get_latest_timestamp keeps the youngest modification time it meets.     *)
(* Without any file the fields stay zero, a date before every file's.      *)
(***************************************************************************)
IsLatestTimestamp(t) ==
    /\ t \in {0} \cup {ptime[f] : f \in Files}
    /\ \A f \in Files : ptime[f] <= t

\* main up to Call_Report_Changes_Service: a new process, a new socket.
AgentMain ==
    /\ apc = "idle"
    /\ port < MaxRuns \/ RunsForever
    /\ port' = IF port < MaxRuns THEN port + 1 ELSE 1
    /\ sock' = port'
    /\ \E t \in {0} \cup {ptime[f] : f \in Files} :
          /\ IsLatestTimestamp(t)
          /\ toMirror' = Append(toMirror, ReportRequest(port', t))
    /\ toAgent' = <<>>
    /\ files_id' = <<>>
    /\ cur' = 0
    /\ apc' = "wait_first"
    /\ outcome' = "none"
    /\ UNCHANGED <<now, faults, recv, pending, data, ptime>>

\* The process exits: its socket and what is queued there are gone.
Exit(how) ==
    /\ apc' = "idle"
    /\ outcome' = how
    /\ sock' = 0
    /\ toAgent' = <<>>
    /\ recv' = NothingReceived
    /\ pending' = <<>>

(***************************************************************************)
(* What follows a response that was not received or not accepted: without  *)
(* a report the run is over, without a page the loop of main goes on, with *)
(* whatever is left in the socket queue.                                   *)
(***************************************************************************)
\* Seeded fault: the run is over after the first page that does not come.
GiveUpAll(queue) == Exit("ended")

GiveUp(queue) ==
    IF cur = 0
      THEN Exit("error")
      ELSE /\ apc' = "call"
           /\ recv' = NothingReceived
           /\ toAgent' = queue
           /\ UNCHANGED <<outcome, sock, pending>>

(***************************************************************************)
(* Receive_response.  The header of the first datagram is validated; every *)
(* further datagram is appended, whatever it holds, until as many have     *)
(* come as the header announced.  Data that is not a header does not pass  *)
(* for one (raida id, frame count and echo bytes would have to agree).     *)
(***************************************************************************)
ValidHeader(fr) == fr.status # NoHeader /\ fr.frames \in 1..AgentFramesMax

\* Seeded fault: the received frame is kept, not its bytes.
RawFrame(fr) == <<fr>>

\* The bytes of a datagram that is appended: its header comes along.
Raw(fr) == (IF fr.status = NoHeader THEN <<>> ELSE <<Header>>) \o fr.body

\* Seeded fault: frames are counted from 0.
AllButOneReceived(r) == r.got + 1 >= r.frames

AllReceived(r) == r.got = r.frames

ReceiveFirst ==
    LET fr == Head(toAgent) IN
    /\ apc = "wait_first"
    /\ toAgent # <<>>
    /\ IF ValidHeader(fr)
         THEN /\ recv' = [status |-> fr.status, frames |-> fr.frames, got |-> 1,
                          body |-> fr.body]
              /\ apc' = IF AllReceived(recv') THEN "received" ELSE "wait_more"
              /\ toAgent' = Tail(toAgent)
              /\ UNCHANGED <<outcome, sock, pending>>
         ELSE GiveUp(Tail(toAgent))
    /\ UNCHANGED <<now, toMirror, faults, port, files_id, cur, data, ptime>>

ReceiveMore ==
    /\ apc = "wait_more"
    /\ toAgent # <<>>
    /\ recv' = [status |-> recv.status, frames |-> recv.frames,
                got |-> recv.got + 1, body |-> recv.body \o Raw(Head(toAgent))]
    /\ apc' = IF AllReceived(recv') THEN "received" ELSE "wait_more"
    /\ toAgent' = Tail(toAgent)
    /\ UNCHANGED <<now, sock, toMirror, faults, port, files_id, cur, pending,
                   data, ptime, outcome>>

\* Seeded fault: only the first frame is waited for with a time limit.
WaitingForFirst == apc = "wait_first"
Waiting == apc \in {"wait_first", "wait_more"}

\* select runs into RESPONSE_TIME_OUT_SECS or FRAME_TIME_OUT_SECS.
TimeOut ==
    /\ Waiting
    /\ toAgent = <<>>
    /\ GiveUp(toAgent)
    /\ UNCHANGED <<now, toMirror, faults, port, files_id, cur, data, ptime>>

(***************************************************************************)
(* Process_response_Report_Changes.  The body must not be empty, must end  *)
(* with the end bytes and consist of file ids: a stray header or stray end *)
(* bytes make its length no multiple of 7.                                 *)
(***************************************************************************)
ClosedBody(r) == Len(r.body) > 1 /\ r.body[Len(r.body)] = EndMark
InnerBody(r)  == SubSeq(r.body, 1, Len(r.body) - 1)

ReportAccepted(r) ==
    /\ r.status = "report_returned"
    /\ ClosedBody(r)
    /\ \A i \in DOMAIN InnerBody(r) : r.body[i] \in Files

ProcessReport ==
    /\ apc = "received"
    /\ cur = 0
    /\ \/ /\ ReportAccepted(recv)
          /\ files_id' = InnerBody(recv)
          /\ apc' = "call"
          /\ recv' = NothingReceived
          /\ UNCHANGED <<sock, toAgent, pending, outcome>>
       \/ /\ ~ ReportAccepted(recv)
          /\ Exit(IF recv.status = "no_changes" THEN "no_changes" ELSE "error")
          /\ UNCHANGED files_id
    /\ UNCHANGED <<now, toMirror, faults, port, cur, data, ptime>>

\* The loop of main: the next file is asked for, or the run is over.
CallGetPage ==
    /\ apc = "call"
    /\ cur < Len(files_id)
    /\ cur' = cur + 1
    /\ toMirror' = Append(toMirror, PageRequest(port, files_id[cur']))
    /\ apc' = "wait_first"
    /\ UNCHANGED <<now, sock, toAgent, faults, port, files_id, recv, pending,
                   data, ptime, outcome>>

AgentEnd ==
    /\ apc = "call"
    /\ cur = Len(files_id)
    /\ Exit("ended")
    /\ UNCHANGED <<now, toMirror, faults, port, files_id, cur, data, ptime>>

(***************************************************************************)
(* Process_response_Get_Page: the page must carry the id that was asked    *)
(* for.  Update_File_Contents truncates the file, then writes it.          *)
(***************************************************************************)
\* Seeded fault: the id of the page is not compared.
AnyPageAccepted(r, f) == r.status = "pages_returned" /\ ClosedBody(r)

PageAccepted(r, f) ==
    /\ r.status = "pages_returned"
    /\ ClosedBody(r)
    /\ r.body[1] = f

\* Seeded fault: the file is opened "ab".
OpenedToAppend(contents) == contents

\* fopen "wb".
Opened(contents) == <<>>

ProcessPage ==
    LET f == files_id[cur] IN
    /\ apc = "received"
    /\ cur # 0
    /\ recv' = NothingReceived
    /\ IF PageAccepted(recv, f) /\ f \in Creatable
         THEN /\ data' = [data EXCEPT ![f] = Opened(@)]
              /\ ptime' = [ptime EXCEPT ![f] = now]
              /\ pending' = Tail(InnerBody(recv))
              /\ apc' = "write"
         ELSE /\ apc' = "call"
              /\ UNCHANGED <<data, ptime, pending>>
    /\ UNCHANGED <<now, sock, netVars, port, files_id, cur, outcome>>

(***************************************************************************)
(* fwrite writes piece by piece and leaves the rest in the buffer of the   *)
(* stream (all of it, if it is small); fclose writes what is left there.   *)
(***************************************************************************)
WriteFile ==
    LET f == files_id[cur] IN
    /\ apc \in {"write", "close"}
    /\ pending # <<>>
    /\ data' = [data EXCEPT ![f] = Append(@, Head(pending))]
    /\ ptime' = [ptime EXCEPT ![f] = now]
    /\ pending' = Tail(pending)
    /\ UNCHANGED <<now, sock, netVars, apc, port, files_id, cur, recv, outcome>>

\* fwrite says that all was written.
Buffered ==
    /\ apc = "write"
    /\ apc' = "close"
    /\ UNCHANGED <<now, sock, netVars, port, files_id, cur, recv, pending, data,
                   ptime, outcome>>

\* The disk is full: fwrite comes back short, and the function returns.
WriteFails ==
    /\ apc = "write"
    /\ pending # <<>>
    /\ Spend("disk")
    /\ pending' = <<>>
    /\ apc' = "call"
    /\ UNCHANGED <<now, sock, toMirror, toAgent, port, files_id, cur, recv, data,
                   ptime, outcome>>

\* fclose is done, and the file is said to be synchronised.
WriteDone ==
    /\ apc = "close"
    /\ pending = <<>>
    /\ apc' = "call"
    /\ UNCHANGED <<now, sock, netVars, port, files_id, cur, recv, pending, data,
                   ptime, outcome>>

\* The disk is full only now: the result of fclose is not tested, and the file is said
\* to be synchronised all the same.
CloseFails ==
    /\ apc = "close"
    /\ pending # <<>>
    /\ Spend("disk")
    /\ pending' = <<>>
    /\ apc' = "call"
    /\ UNCHANGED <<now, sock, toMirror, toAgent, port, files_id, cur, recv, data,
                   ptime, outcome>>

\* The process is killed.
Kill ==
    /\ apc # "idle"
    /\ Spend("kill")
    /\ Exit("killed")
    /\ UNCHANGED <<now, toMirror, port, files_id, cur, data, ptime>>

AgentTypeOK ==
    /\ apc \in AgentStates
    /\ port \in Nat
    /\ files_id \in Seq(Files)
    /\ cur \in 0..Len(files_id)
    /\ recv \in Responses
    /\ pending \in Seq(Item)
    /\ data \in [Files -> Seq(Item)]
    /\ ptime \in [Files -> Nat]
    /\ outcome \in Outcomes
=============================================================================
