-------------------------- MODULE ServiceResponses --------------------------
(***************************************************************************)
(* How `services` builds and sends its responses, in bytes                 *)
(* (Primary_Services.c): the recursive scan of the data directory with its *)
(* early returns, the reading of one file, the response buffer, its        *)
(* division into frames, and the streams (DIR, FILE) that stay open.       *)
(* MirrorServices, where a response is a sequence of items, takes from     *)
(* here that what is announced is what is sent.                            *)
(***************************************************************************)
EXTENDS Integers, Sequences, FiniteSets

CONSTANTS
    Root,           \* the data directory
    Entries,        \* what each directory holds: files and directories
    Under,          \* the files below each directory, at any depth
    Depth, DepthMax,\* how deep each directory lies, the root at 1
    ResponseSizeMax,\* RESPONSE_SIZE_MAX
    HeaderLen,      \* RESP_HEADER_MIN_LEN
    IdLen,          \* RAIDA_AGENT_FILE_ID_BYTES_CNT
    EndLen,         \* RESP_BODY_END_BYTES
    MaxLine,        \* MAXLINE, the bytes of a frame
    AgentFramesMax, \* AGENT_FRAMES_MAX
    FilesCountMax,  \* FILES_COUNT_MAX, the places of the agent's list
    StreamsMax,     \* the streams the operating system lets the process open
    Sizes,          \* the sizes of the files asked for
    FilesChange     \* may a file be cut off or removed while it is read?

Dirs == DOMAIN Entries
AllEntries == UNION {Entries[d] : d \in Dirs}
Files == AllEntries \ Dirs

ASSUME TreeAssumption == Root \in Dirs
ASSUME UnderAssumption ==
    /\ DOMAIN Under = Dirs
    /\ \A d \in Dirs : Under[d] = (Entries[d] \cap Files)
                                    \cup UNION {Under[e] : e \in Entries[d] \cap Dirs}
ASSUME DepthAssumption ==
    /\ DepthMax \in Nat /\ Depth \in [Dirs -> 1..DepthMax] /\ Depth[Root] = 1
    /\ \A d \in Dirs : \A e \in Entries[d] \cap Dirs : Depth[e] = Depth[d] + 1
ASSUME ResponseAssumption ==
    /\ ResponseSizeMax \in Nat /\ HeaderLen \in Nat /\ IdLen \in Nat /\ EndLen \in Nat
    /\ HeaderLen + IdLen + EndLen <= ResponseSizeMax
    /\ HeaderLen > 0 /\ IdLen > 0 /\ EndLen > 0
ASSUME FrameAssumption ==
    /\ MaxLine \in Nat /\ AgentFramesMax \in Nat /\ FilesCountMax \in Nat
    /\ HeaderLen + EndLen <= MaxLine
    /\ ResponseSizeMax <= MaxLine * AgentFramesMax
    /\ ResponseSizeMax < HeaderLen + IdLen * (FilesCountMax + 1) + EndLen
ASSUME StreamsAssumption == StreamsMax \in Nat
\* A larger file would be read past the end of response.
ASSUME PageAssumption ==
    /\ Sizes \subseteq 0..(ResponseSizeMax - HeaderLen - IdLen - EndLen)
    /\ FilesChange \in BOOLEAN

VARIABLES
    pc,             \* where the request is
    service,        \* the service it asks for
    newer,          \* the files modified after the time of the request
    walk,           \* the calls of get_ModifiedFiles under way, the latest last
    ids,            \* the files whose ids are in the response
    index_resp,     \* the next free byte of response
    current_length, \* the bytes still to send
    index,          \* the bytes sent
    frames,         \* the frames sent
    total_frames,   \* the number of frames the header announces
    streams         \* the streams open

scanVars  == <<newer, walk, ids>>
frameVars == <<current_length, index, frames, total_frames>>
vars      == <<pc, service, scanVars, index_resp, frameVars, streams>>

Calls    == [dir : Dirs, left : SUBSET AllEntries]
PcStates == {"idle", "walk", "returned", "build", "send", "crashed"}

Init ==
    /\ pc = "idle"
    /\ service = "none"
    /\ newer = {} /\ walk = <<>> /\ ids = <<>>
    /\ index_resp = HeaderLen
    /\ current_length = 0 /\ index = 0 /\ frames = 0 /\ total_frames = 0
    /\ streams = 0

(***************************************************************************)
(* get_ModifiedFiles.  opendir fails when no stream is left; the call then *)
(* returns at once, and as silently as from an empty directory.            *)
(***************************************************************************)
CallScan(calls, d) ==
    IF streams < StreamsMax
      THEN /\ walk' = Append(calls, [dir |-> d, left |-> Entries[d]])
           /\ streams' = streams + 1
           /\ pc' = "walk"
      ELSE /\ walk' = calls
           /\ pc' = "returned"
           /\ UNCHANGED streams

\* execute_Report_Changes up to the scan; the time tells which files are newer.
ReportChanges(changed) ==
    /\ pc = "idle"
    /\ service' = "report"
    /\ newer' = changed
    /\ ids' = <<>>
    /\ index_resp' = HeaderLen
    /\ CallScan(<<>>, Root)
    /\ UNCHANGED frameVars

Latest      == walk[Len(walk)]
Callers     == SubSeq(walk, 1, Len(walk) - 1)
Without(e)  == Append(Callers, [dir |-> Latest.dir, left |-> Latest.left \ {e}])

\* Seeded fault: room for the end bytes is not kept.
FullWithoutEnd(i) == i + IdLen > ResponseSizeMax

\* One more id might not fit the response.
Full(i) == i + IdLen + EndLen > ResponseSizeMax

\* Files of the root itself are passed over.
ScanFile(f) ==
    /\ pc = "walk"
    /\ f \in Latest.left \cap Files
    /\ \/ /\ f \in newer /\ Latest.dir # Root
          /\ ids' = Append(ids, f)
          /\ index_resp' = index_resp + IdLen
          /\ IF Full(index_resp')
               THEN pc' = "returned" /\ walk' = Callers   \* no closedir
               ELSE walk' = Without(f) /\ UNCHANGED pc
       \/ /\ f \notin newer \/ Latest.dir = Root
          /\ walk' = Without(f)
          /\ UNCHANGED <<pc, ids, index_resp>>
    /\ UNCHANGED <<service, newer, frameVars, streams>>

ScanDirectory(d) ==
    /\ pc = "walk"
    /\ d \in Latest.left \cap Dirs
    /\ CallScan(Without(d), d)
    /\ UNCHANGED <<service, newer, ids, index_resp, frameVars>>

\* Seeded fault: closedir is left out.
LeaveDirectory ==
    /\ pc = "walk"
    /\ Latest.left = {}
    /\ walk' = Callers
    /\ pc' = "returned"
    /\ UNCHANGED <<service, newer, ids, index_resp, frameVars, streams>>

CloseDirectory ==
    /\ pc = "walk"
    /\ Latest.left = {}
    /\ walk' = Callers
    /\ streams' = streams - 1
    /\ pc' = "returned"
    /\ UNCHANGED <<service, newer, ids, index_resp, frameVars>>

\* Seeded fault: the caller goes on with the scan of its own directory.
GoesOn(i) == FALSE

\* Seeded fault: the caller never goes on.
StopsAlways(i) == TRUE

\* Does the caller, too, return once the call has returned?
StopsToo(i) == Full(i)

CallReturned ==
    /\ pc = "returned"
    /\ IF walk = <<>>
         THEN pc' = "build" /\ UNCHANGED walk
         ELSE IF StopsToo(index_resp)
                THEN walk' = Callers /\ UNCHANGED pc      \* no closedir
                ELSE pc' = "walk" /\ UNCHANGED walk
    /\ UNCHANGED <<service, newer, ids, index_resp, frameVars, streams>>

(***************************************************************************)
(* execute_Get_Page, Get_File_Contents: one fopen to count the size, one   *)
(* to read.  What is not read as a whole leaves nothing but the header; a  *)
(* read that comes short leaves its stream open.                           *)
(***************************************************************************)
GetPage(size) ==
    /\ pc = "idle"
    /\ service' = "page"
    /\ \/ /\ streams < StreamsMax                          \* read as a whole
          /\ index_resp' = IF size = 0 THEN HeaderLen ELSE HeaderLen + IdLen + size
          /\ pc' = "build"
          /\ UNCHANGED streams
       \/ /\ index_resp' = HeaderLen                       \* no such file, no stream
          /\ pc' = "build"
          /\ UNCHANGED streams
       \/ /\ FilesChange /\ streams < StreamsMax /\ size > 0 \* shorter by now
          /\ index_resp' = HeaderLen
          /\ pc' = "build"
          /\ streams' = streams + 1                        \* no fclose
       \/ /\ FilesChange /\ streams < StreamsMax           \* gone by now
          /\ pc' = "crashed"
          /\ UNCHANGED <<index_resp, streams>>
    /\ UNCHANGED <<scanVars, frameVars>>

(***************************************************************************)
(* prepare_udp_resp_body.  A response without a body is one frame.         *)
(***************************************************************************)
\* Seeded fault: a full last frame is counted twice.
FramesRoundedUp(length) == (length \div MaxLine) + 1

FramesOf(length) ==
    IF length % MaxLine = 0 THEN length \div MaxLine ELSE (length \div MaxLine) + 1

SendEmptyResponse ==
    /\ pc = "build"
    /\ index_resp = HeaderLen
    /\ total_frames' = 1 /\ frames' = 1
    /\ index' = HeaderLen + EndLen /\ current_length' = 0
    /\ pc' = "idle"
    /\ UNCHANGED <<service, scanVars, index_resp, streams>>

StartFrames ==
    /\ pc = "build"
    /\ index_resp # HeaderLen
    /\ current_length' = index_resp + EndLen
    /\ total_frames' = FramesOf(current_length')
    /\ index' = 0 /\ frames' = 0
    /\ pc' = "send"
    /\ UNCHANGED <<service, scanVars, index_resp, streams>>

\* Seeded fault: the last frame is sent as a full one.
FullFrame(length) == MaxLine

FrameSize(length) == IF length <= MaxLine THEN length ELSE MaxLine

SendFrame ==
    LET size == FrameSize(current_length) IN
    /\ pc = "send"
    /\ index' = index + size
    /\ current_length' = current_length - size
    /\ frames' = frames + 1
    /\ IF frames' < total_frames
         THEN UNCHANGED <<pc, index_resp>>
         ELSE pc' = "idle" /\ index_resp' = HeaderLen
    /\ UNCHANGED <<service, scanVars, total_frames, streams>>

Next ==
    \/ \E changed \in SUBSET Files : ReportChanges(changed)
    \/ \E f \in Files : ScanFile(f)
    \/ \E d \in Dirs : ScanDirectory(d)
    \/ CloseDirectory
    \/ CallReturned
    \/ \E size \in Sizes : GetPage(size)
    \/ SendEmptyResponse
    \/ StartFrames
    \/ SendFrame

Spec == Init /\ [][Next]_vars

-----------------------------------------------------------------------------
\* Every variable has its type.
TypeOK ==
    /\ pc \in PcStates
    /\ service \in {"none", "report", "page"}
    /\ newer \subseteq Files
    /\ walk \in Seq(Calls)
    /\ ids \in Seq(Files)
    /\ index_resp \in Nat
    /\ current_length \in Nat /\ index \in Nat
    /\ frames \in Nat /\ total_frames \in Nat
    /\ streams \in Nat

(***************************************************************************)
(* What holds between two steps: there is room for an id as long as the    *)
(* scan goes on, the response consists of the ids listed, every call under *)
(* way has a stream, and the bytes left are just enough for the frames     *)
(* left.                                                                   *)
(***************************************************************************)
FramesLeft == total_frames - frames

IdsFit == HeaderLen + IdLen * Len(ids) + EndLen <= ResponseSizeMax

ScanInv ==
    /\ pc = "walk" => walk # <<>> /\ ~ Full(index_resp)
    /\ pc \in {"walk", "returned"} => index_resp = HeaderLen + IdLen * Len(ids)
    /\ pc \notin {"walk", "returned"} => walk = <<>>
    /\ Len(walk) <= streams
    /\ IdsFit

SendInv ==
    pc = "send" =>
        /\ frames < total_frames
        /\ MaxLine * (FramesLeft - 1) < current_length
        /\ current_length <= MaxLine * FramesLeft

(***************************************************************************)
(* Nothing is written past the end of response: whenever ids, a page or    *)
(* the end bytes are put there, the end bytes still fit behind them.  (Two *)
(* tests in get_ModifiedFiles, one after an id and one after a nested      *)
(* call, keep it so; neither would do alone.)                              *)
(***************************************************************************)
ResponseFits == index_resp + EndLen <= ResponseSizeMax

(***************************************************************************)
(* The frames announced are the frames needed: as long as there is a frame *)
(* to send there are bytes for it, and after the last one none are left.   *)
(* (The agent counts on the announcement alone, Receive_response.)         *)
(***************************************************************************)
FramesAddUp ==
    /\ pc = "send" => /\ current_length > 0
                      /\ index + current_length = index_resp + EndLen
    /\ pc = "idle" => current_length = 0

(***************************************************************************)
(* What `services` announces, the agent takes: no more frames than         *)
(* validate_response_header lets pass, no more ids than files_id holds.    *)
(***************************************************************************)
AgentTakesIt == total_frames <= AgentFramesMax /\ Len(ids) <= FilesCountMax

IndInv ==
    /\ TypeOK
    /\ ScanInv
    /\ SendInv
    /\ ResponseFits
    /\ FramesAddUp
    /\ total_frames <= AgentFramesMax

ReportBuilt == pc = "build" /\ service = "report"
BelowRoot   == UNION {Under[d] : d \in Entries[Root] \cap Dirs}

\* The streams that no call under way will close.
Leaked == streams - Len(walk)

(***************************************************************************)
(* A report names every newer file below the root, unless the response is  *)
(* full or the streams left do not reach to the bottom of the tree.        *)
(***************************************************************************)
Hampered == Full(index_resp) \/ Leaked + DepthMax > StreamsMax

ReportIsComplete ==
    ReportBuilt /\ ~ Hampered => newer \cap BelowRoot \subseteq {ids[i] : i \in DOMAIN ids}

(***************************************************************************)
(* A stream is left open only by a report that is cut off (in each call    *)
(* under way, one by one) or by a page that was cut off while it was read. *)
(***************************************************************************)
OnlyCutOffLeaks ==
    [][Leaked' > Leaked =>
          /\ Leaked' = Leaked + 1
          /\ \/ service' = "report" /\ Full(index_resp')
             \/ service' = "page" /\ index_resp' = HeaderLen]_vars

(***************************************************************************)
(* "No Changes. All Files already Synchronized"                            *)
(* (Agent_Call_Services.c:290) is what the agent makes of a report without *)
(* ids: then no file below the root is newer.                              *)
(***************************************************************************)
NoChangesMeansNoneNewer ==
    ReportBuilt /\ index_resp = HeaderLen => newer \cap BelowRoot = {}

(***************************************************************************)
(* What holds during a scan: the calls under way go down the tree level by *)
(* level, and what is not yet named is still to come.                      *)
(***************************************************************************)
Pending(call) ==
    (IF call.dir = Root THEN {} ELSE call.left \cap Files)
        \cup UNION {Under[d] : d \in call.left \cap Dirs}

PendingIn(calls) == UNION {Pending(calls[i]) : i \in DOMAIN calls}

Descends(calls) ==
    \A i \in DOMAIN calls : /\ Depth[calls[i].dir] = i
                            /\ calls[i].left \subseteq Entries[calls[i].dir]

LevelInv == Descends(walk) /\ (pc \in {"walk", "returned"} => service = "report")

CoverInv ==
    pc \in {"walk", "returned"} \/ ReportBuilt =>
        Hampered \/ newer \cap BelowRoot \subseteq
                        {ids[i] : i \in DOMAIN ids} \cup PendingIn(walk)
=============================================================================
