------------------------------ MODULE SyncBase ------------------------------
(***************************************************************************)
(* What the two programs of the agent share: the files that are kept in    *)
(* step, the datagrams that travel between `agent` (on the primary) and    *)
(* `services` (on the mirror), and the UDP network that carries them.      *)
(*                                                                         *)
(* Bytes are abstracted to items.  A file id (7 bytes), the part of a file *)
(* that one 1024-byte frame holds, a response header (12 bytes) and the    *)
(* two end bytes 62 62 are one item each.                                  *)
(***************************************************************************)
EXTENDS Integers, Sequences, FiniteSets, SequencesExt

CONSTANTS
    Files,          \* the file ids (coin_id, table_id, serial_no)
    Header,         \* the item a response header is when it lands in a body
    EndMark,        \* the item for the two closing bytes RESP_END RESP_END
    Lengths,        \* the file lengths considered, in frames (0: an empty file)
    AgentFramesMax, \* the frames of the longest response the agent accepts
    Faults          \* how many faults of each kind the environment may inject

FaultKind == {"loss", "head", "dup", "swap", "disk", "kill"}

ASSUME MarksAreNotFiles == {Header, EndMark} \cap Files = {}
ASSUME LengthsFit       == AgentFramesMax \in Nat \ {0} /\ Lengths \subseteq 0..AgentFramesMax
ASSUME FaultsAreCounted == Faults \in [FaultKind -> Nat]

VARIABLES
    now,            \* the clock, in seconds (both hosts keep the same time)
    toMirror,       \* requests in flight or in the socket queue of `services`
    toAgent,        \* frames in flight or in the socket queue of `agent`
    sock,           \* the port of the agent's open socket, 0 when there is none
    faults          \* the faults of each kind still allowed

netVars == <<toMirror, toAgent, faults>>

(***************************************************************************)
(* Items and frames.  Part k of n of version v of file f.  The version is  *)
(* a tag of the model: the bytes on the wire carry no version number.      *)
(***************************************************************************)
Part(f, v, k, n) == [file |-> f, ver |-> v, part |-> k, of |-> n]
Parts            == [file : Files, ver : Nat, part : Nat, of : Nat]
Content(f, v, n) == [k \in 1..n |-> Part(f, v, k, n)]
Item             == Files \cup Parts \cup {Header, EndMark}

Status   == {"pages_returned", "no_changes", "report_returned", "file_not_exist"}
NoHeader == "no_header"     \* a frame that continues a response

Frame    == [status : Status \cup {NoHeader}, frames : Nat, body : Seq(Item)]

(***************************************************************************)
(* Requests.  Every request of the agent fits one frame.                   *)
(***************************************************************************)
ReportRequest(p, t) == [port |-> p, cmd |-> "MIRROR_REPORT_CHANGES", since |-> t]
PageRequest(p, f)   == [port |-> p, cmd |-> "AGENT_GET_PAGE", file |-> f]
Request == [port : Nat, cmd : {"MIRROR_REPORT_CHANGES"}, since : Nat]
             \cup [port : Nat, cmd : {"AGENT_GET_PAGE"}, file : Files]

(***************************************************************************)
(* The network.  A frame reaches the agent only if the socket it was sent  *)
(* to is still open: every run of the agent opens a socket of its own.     *)
(***************************************************************************)
Deliver(fr, p) == toAgent' = IF p = sock THEN Append(toAgent, fr) ELSE toAgent

Spend(kind) == /\ faults[kind] > 0
               /\ faults' = [faults EXCEPT ![kind] = @ - 1]

Exchange(s, i) == [s EXCEPT ![i] = s[i + 1], ![i + 1] = s[i]]

\* Losses of the first frame of a page are counted apart when two frames or more are
\* left of it: the agent takes them for answers to its next requests.
LossOf(fr) == IF fr.status = "pages_returned" /\ fr.frames > 2 THEN "head" ELSE "loss"

\* A datagram is lost.
Lose ==
    \/ /\ Spend("loss")
       /\ \E i \in DOMAIN toMirror : toMirror' = RemoveAt(toMirror, i)
       /\ UNCHANGED toAgent
    \/ /\ \E i \in DOMAIN toAgent : /\ Spend(LossOf(toAgent[i]))
                                    /\ toAgent' = RemoveAt(toAgent, i)
       /\ UNCHANGED toMirror

\* A datagram arrives twice, the second time behind some of those in flight.
Duplicate ==
    /\ Spend("dup")
    /\ \/ /\ \E i \in DOMAIN toMirror : \E j \in (i + 1)..(Len(toMirror) + 1) :
                toMirror' = InsertAt(toMirror, j, toMirror[i])
          /\ UNCHANGED toAgent
       \/ /\ \E i \in DOMAIN toAgent : \E j \in (i + 1)..(Len(toAgent) + 1) :
                toAgent' = InsertAt(toAgent, j, toAgent[i])
          /\ UNCHANGED toMirror

\* Two datagrams change places.
Reorder ==
    /\ Spend("swap")
    /\ \/ /\ \E i \in 1..(Len(toMirror) - 1) : toMirror' = Exchange(toMirror, i)
          /\ UNCHANGED toAgent
       \/ /\ \E i \in 1..(Len(toAgent) - 1) : toAgent' = Exchange(toAgent, i)
          /\ UNCHANGED toMirror

NetworkFault == Lose \/ Duplicate \/ Reorder

BaseTypeOK ==
    /\ now \in Nat
    /\ toMirror \in Seq(Request)
    /\ toAgent \in Seq(Frame)
    /\ sock \in Nat
    /\ faults \in [FaultKind -> Nat]
=============================================================================
