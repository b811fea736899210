--------------------------- MODULE MirrorServices ---------------------------
(***************************************************************************)
(* The program `services` on the mirror (Services_main.c,                  *)
(* Primary_Services.c): one process that takes one request at a time,      *)
(* reads the data files, and sends the response frame by frame.  The data  *)
(* files belong to another program, the RAIDA server of the same host,     *)
(* which may rewrite them at any time.                                     *)
(***************************************************************************)
EXTENDS SyncBase

CONSTANTS
    FilesCountMax,  \* file ids that fit one response
    IdsPerFrame,    \* file ids that fit one frame
    TzShifts,       \* what mktime may add to a UTC time on the mirror host
    MaxVersion,     \* bound: how often a file is written or removed
    Removals        \* may the RAIDA server remove files?

ASSUME ReportLimits  == FilesCountMax \in Nat \ {0} /\ IdsPerFrame \in Nat \ {0}
ASSUME TzShiftsAreInt == TzShifts \subseteq Int
ASSUME MirrorBounds   == MaxVersion \in Nat /\ Removals \in BOOLEAN

VARIABLES
    ver,            \* how often each mirror file was written or removed
    len,            \* its length in frames
    mtime,          \* its modification time, 0 while there is no such file
    svc,            \* what `services` is doing
    request,        \* the request in udp_buffer, with cliaddr as its port
    t1,             \* the time the report compares with
    unscanned,      \* the files the directory scan has not come to
    size,           \* the size Get_File_Contents counted
    body,           \* the response body up to index_resp, header left out
    sent            \* how many of its frames have been sent

fileVars == <<ver, len, mtime>>
svcVars  == <<svc, request, t1, unscanned, size, body, sent>>

NoRequest == [port |-> 0, cmd |-> "none"]
SvcStates == {"wait_start", "scan", "count", "read", "send", "crashed"}

Exists(f) == mtime[f] > 0

MirrorInit ==
    /\ \E present \in SUBSET Files :
          /\ mtime = [f \in Files |-> IF f \in present THEN 1 ELSE 0]
          /\ ver   = [f \in Files |-> IF f \in present THEN 1 ELSE 0]
          /\ len \in [Files -> Lengths \cup {0}]
          /\ \A f \in Files : IF f \in present THEN len[f] \in Lengths ELSE len[f] = 0
    /\ svc = "wait_start"
    /\ request = NoRequest
    /\ t1 = 0
    /\ unscanned = {}
    /\ size = 0
    /\ body = <<>>
    /\ sent = 0

(***************************************************************************)
(* The RAIDA server rewrites a file with n frames of new content, or       *)
(* removes it.                                                             *)
(***************************************************************************)
MirrorWrite(f, n) ==
    /\ ver[f] < MaxVersion
    /\ ver' = [ver EXCEPT ![f] = @ + 1]
    /\ len' = [len EXCEPT ![f] = n]
    /\ mtime' = [mtime EXCEPT ![f] = now]
    /\ UNCHANGED <<now, sock, netVars, svcVars>>

MirrorRemove(f) ==
    /\ Removals
    /\ Exists(f)
    /\ ver[f] < MaxVersion
    /\ ver' = [ver EXCEPT ![f] = @ + 1]
    /\ len' = [len EXCEPT ![f] = 0]
    /\ mtime' = [mtime EXCEPT ![f] = 0]
    /\ UNCHANGED <<now, sock, netVars, svcVars>>

(***************************************************************************)
(* listen_request, process_request: the next request is taken from the     *)
(* socket and dispatched.  mktime reads the UTC fields of the request as   *)
(* local time, with tm_isdst never set.                                    *)
(***************************************************************************)
Dispatch(rq) ==
    \/ /\ rq.cmd = "MIRROR_REPORT_CHANGES"
       /\ svc' = "scan"
       /\ \E shift \in TzShifts : t1' = rq.since + shift
       /\ unscanned' = Files
    \/ /\ rq.cmd = "AGENT_GET_PAGE"
       /\ svc' = "count"
       /\ UNCHANGED <<t1, unscanned>>

ListenRequest ==
    /\ svc = "wait_start"
    /\ toMirror # <<>>
    /\ request' = Head(toMirror)
    /\ toMirror' = Tail(toMirror)
    /\ Dispatch(Head(toMirror))
    /\ UNCHANGED <<now, sock, toAgent, faults, fileVars, size, body, sent>>

(***************************************************************************)
(* get_ModifiedFiles: the directory scan comes to the files in an order of *)
(* readdir's choosing, keeps those modified after t1, and returns as soon  *)
(* as one more file id might not fit the response.                         *)
(***************************************************************************)
\* Seeded fault: a change one second after t is taken for an old one.
NewerByMoreThanOne(t2, t) == t2 > t + 1
\* Seeded fault: a file as old as the youngest of the primary is reported.
NewerOrSame(t2, t) == t2 >= t
Newer(t2, t) == t2 > t

\* Seeded fault: the last place of the report is never used.
ReportFullEarly(b) == Len(b) >= FilesCountMax - 1
ReportFull(b) == Len(b) >= FilesCountMax

ScanFile(f) ==
    /\ svc = "scan"
    /\ f \in unscanned
    /\ unscanned' = unscanned \ {f}
    /\ IF Exists(f) /\ Newer(mtime[f], t1)
         THEN body' = Append(body, f)
         ELSE UNCHANGED body
    /\ svc' = IF ReportFull(body') THEN "send" ELSE "scan"
    /\ UNCHANGED <<now, sock, netVars, fileVars, request, t1, size, sent>>

ScanEnd ==
    /\ svc = "scan"
    /\ unscanned = {}
    /\ svc' = "send"
    /\ UNCHANGED <<now, sock, netVars, fileVars, request, t1, unscanned, size,
                   body, sent>>

(***************************************************************************)
(* Get_File_Contents: the size is counted through one fopen, the contents  *)
(* are read through a second one.  A missing or empty file, and one that   *)
(* became shorter in between, leave the response empty.  The second fopen  *)
(* is not tested: fread on the NULL of a file that has gone crashes the    *)
(* process.                                                                *)
(***************************************************************************)
\* Seeded fault: the count of the size stops one short.
CountedShort(f) == IF len[f] = 0 THEN 0 ELSE len[f] - 1
Counted(f) == len[f]

CountSize ==
    /\ svc = "count"
    /\ IF Exists(request.file)
         THEN svc' = "read" /\ size' = Counted(request.file)
         ELSE svc' = "send" /\ UNCHANGED size
    /\ UNCHANGED <<now, sock, netVars, fileVars, request, t1, unscanned, body,
                   sent>>

ReadContents ==
    LET f == request.file IN
    /\ svc = "read"
    /\ IF Exists(f)
         THEN /\ body' = IF size = 0 \/ len[f] < size
                           THEN <<>>
                           ELSE <<f>> \o SubSeq(Content(f, ver[f], len[f]), 1, size)
              /\ svc' = "send"
         ELSE svc' = "crashed" /\ UNCHANGED body
    /\ UNCHANGED <<now, sock, netVars, fileVars, request, t1, unscanned, size,
                   sent>>

(***************************************************************************)
(* prepare_udp_resp_body: the status depends on whether the body is empty; *)
(* the loop sends one frame after the other to cliaddr.  The first frame   *)
(* starts with the header, the last one closes with the end bytes.         *)
(***************************************************************************)
IsReport == request.cmd = "MIRROR_REPORT_CHANGES"

ResponseStatus ==
    IF IsReport
      THEN IF body = <<>> THEN "no_changes" ELSE "report_returned"
      ELSE IF body = <<>> THEN "file_not_exist" ELSE "pages_returned"

TotalFrames ==
    CASE body = <<>> -> 1
      [] body # <<>> /\ IsReport ->
            (Len(body) + IdsPerFrame - 1) \div IdsPerFrame
      [] OTHER -> Len(body) - 1

\* The items of frame k: some file ids; or part k, after the id in frame 1.
FrameItems(k) ==
    CASE body = <<>> -> <<>>
      [] body # <<>> /\ IsReport ->
            SubSeq(body, (k - 1) * IdsPerFrame + 1,
                   IF k * IdsPerFrame <= Len(body)
                     THEN k * IdsPerFrame ELSE Len(body))
      [] OTHER ->
            IF k = 1 THEN SubSeq(body, 1, 2)
                     ELSE SubSeq(body, k + 1, k + 1)

ResponseFrame(k) ==
    [status |-> IF k = 1 THEN ResponseStatus ELSE NoHeader,
     frames |-> IF k = 1 THEN TotalFrames ELSE 0,
     body   |-> FrameItems(k) \o (IF k = TotalFrames THEN <<EndMark>> ELSE <<>>)]

SendResponse ==
    /\ svc = "send"
    /\ Deliver(ResponseFrame(sent + 1), request.port)
    /\ IF sent + 1 < TotalFrames
         THEN /\ sent' = sent + 1
              /\ UNCHANGED <<svc, request, t1, unscanned, size, body>>
         ELSE /\ svc' = "wait_start"   \* what the next request overwrites is dropped
              /\ request' = NoRequest
              /\ t1' = 0
              /\ unscanned' = {}
              /\ size' = 0
              /\ body' = <<>>
              /\ sent' = 0
    /\ UNCHANGED <<now, sock, toMirror, faults, fileVars>>

ServiceStep ==
    \/ ListenRequest
    \/ \E f \in Files : ScanFile(f)
    \/ ScanEnd
    \/ CountSize
    \/ ReadContents
    \/ SendResponse

MirrorTypeOK ==
    /\ ver \in [Files -> Nat]
    /\ len \in [Files -> Nat]
    /\ mtime \in [Files -> Nat]
    /\ svc \in SvcStates
    /\ request \in Request \cup {NoRequest}
    /\ t1 \in Int
    /\ unscanned \subseteq Files
    /\ size \in Nat
    /\ body \in Seq(Item)
    /\ sent \in Nat
=============================================================================
