---------------------------- MODULE Completeness ----------------------------
(***************************************************************************)
(* What a run of the agent brings over, what it may leave behind, and what *)
(* it leaves alone: the invariants behind LossCostsOneFile,                *)
(* ReportedFilesSynchronized, NoChangesMeansSynchronized, UpToDateIsKept.  *)
(*                                                                         *)
(* If no answer comes later than the agent waits for it (Timely), a run    *)
(* has one exchange under way at a time: a request, then the frames of its *)
(* answer.  Either all of the answer is still there, and then it brings    *)
(* what was asked for; or a datagram of this very exchange was lost.  What *)
(* is left of it does not outlast the exchange, unless the first frame of  *)
(* three or more is the one that was lost (NoHeadLost excludes that).      *)
(***************************************************************************)
EXTENDS Integrity

\* f has not changed since the run began.
Steady(f) == QuietRuns \/ mtime[f] < began

Asking == apc \in {"wait_first", "wait_more", "received"}

-----------------------------------------------------------------------------
(* One exchange at a time. *)

Unanswered == OnTheWay \/ (Busy /\ sent = 0)
Quiet      == toAgent = <<>> /\ ~ OnTheWay /\ ~ Busy

\* The frames `services` has still to send, and all that can still be received.
Left      == IF Busy /\ svc = "send" THEN TotalFrames - sent ELSE 0
InSight   == recv.got + Len(toAgent) + Left
FirstGone == recv.got = 0 /\ (toAgent = <<>> \/ toAgent[1].status = NoHeader)

\* What is under way is, or is left of, an answer of m frames.
AnswerOf(m) ==
    /\ Busy => svc = "send" /\ TotalFrames = m
    /\ recv.got > 0 => recv.frames = m
    /\ \A i \in DOMAIN toAgent :
          toAgent[i].status # NoHeader => i = 1 /\ recv.got = 0 /\ toAgent[i].frames = m
    /\ InSight <= m
    /\ FirstGone => InSight < m /\ (cur > 0 => m <= 2)

\* The end bytes are under way, or in the agent's buffer.
Marked(b) == b # <<>> /\ b[Len(b)] = EndMark
EndInSight ==
    ~ Busy => Marked(IF toAgent = <<>> THEN recv.body ELSE toAgent[Len(toAgent)].body)

Intact == Unanswered \/ (AnswerOf(InSight) /\ EndInSight)

\* The requests of this run are for what the agent waits for.
ForCurrent(rq) ==
    rq.port = sock => IF cur = 0 THEN rq.cmd = "MIRROR_REPORT_CHANGES" ELSE rq = Current

ExchangeInv ==
    Running =>
        /\ \A i, j \in DOMAIN toMirror :
              toMirror[i].port = sock /\ toMirror[j].port = sock => i = j
        /\ OnTheWay => ~ Busy
        /\ \A i \in DOMAIN toMirror : ForCurrent(toMirror[i])
        /\ ForCurrent(request)
        /\ Unanswered => toAgent = <<>> /\ apc = "wait_first"
        /\ apc \in {"call", "write", "close"} => Quiet
        /\ apc \in {"wait_more", "received"} => recv.got > 0
        /\ Asking /\ ~ Unanswered => \E m \in Nat \ {0} : AnswerOf(m)

-----------------------------------------------------------------------------
(* What an answer says: the present version of the file, or that there is nothing of it. *)

\* What is sent of f as m frames is all of the mirror's f as it is now.
Present(f, b, m) == b[2] = Part(f, ver[f], 1, len[f]) /\ m = len[f]

\* An answer of m frames that starts with s and b.
Proper(s, b, m) ==
    IF cur = 0
      THEN s \in {"no_changes", "report_returned"}
      ELSE \/ /\ s = "pages_returned"
              /\ Len(b) >= 2 /\ b[1] = CurFile
              /\ Steady(CurFile) => Present(CurFile, b, m)
           \/ /\ s = "file_not_exist" /\ m = 1
              /\ Steady(CurFile) => ~ Exists(CurFile) \/ len[CurFile] = 0

AnswerInv ==
    Running =>
        /\ Busy /\ svc = "read" /\ Steady(request.file) => size = len[request.file]
        /\ Busy /\ svc = "send" => Proper(ResponseStatus, body, TotalFrames)
        /\ \A i \in DOMAIN toAgent :
              toAgent[i].status # NoHeader =>
                  Proper(toAgent[i].status, toAgent[i].body, toAgent[i].frames)
        /\ recv.got > 0 => Proper(recv.status, recv.body, recv.frames)

\* What is written and what is still to write make up the mirror's file.
WritingInv ==
    apc \in {"write", "close"} /\ Steady(CurFile) =>
        LET first == IF data[CurFile] = <<>> THEN pending[1] ELSE data[CurFile][1]
        IN  /\ first = Part(CurFile, ver[CurFile], 1, len[CurFile])
            /\ Len(data[CurFile]) + Len(pending) = len[CurFile]

-----------------------------------------------------------------------------
(* What is left behind. *)

\* Of the first k files on the list, those that were not brought over.
Missed(k) ==
    {f \in Files : ~ Synchronized(f) /\ Steady(f) /\ \E i \in 1..k : files_id[i] = f}

\* The files this run is done with cost so much, and so does what it waits for in vain.
DoneWith == IF apc = "call" THEN cur ELSE cur - 1
Cost     == Cardinality(Missed(DoneWith)) + (IF Asking /\ ~ Intact THEN 1 ELSE 0)

CostInv ==
    Running => outcome # "ended" /\ Cost <= Lost

\* No first frame of a page of three frames or more was lost.
NoHeadLost == faults["head"] = Faults["head"]

\* The clock does not run back; faults are spent; `services` is there.
RestInv ==
    /\ now > 0 /\ began <= now
    /\ NoHeadLost
    /\ faults["loss"] <= Faults["loss"]
    /\ faults["disk"] <= Faults["disk"]
    /\ svc # "crashed"
    /\ svc = "read" => Exists(request.file)

LossInv ==
    /\ RestInv
    /\ ExchangeInv
    /\ AnswerInv
    /\ WritingInv
    /\ CostInv
    /\ LossCostsOneFile

-----------------------------------------------------------------------------
(***************************************************************************)
(* If moreover nothing is lost, and the mirror changes between runs only   *)
(* (QuietRuns), what the primary lacks is younger than all it has, until   *)
(* it is on the list of the run.                                           *)
(***************************************************************************)
Stale == {f \in Files : ~ Synchronized(f)}

\* Nothing can be lost, fail or be killed any more.
NothingFails == \A kind \in FaultKind : faults[kind] = 0

YoungerThanAll(f) == \A g \in Files : mtime[f] > ptime[g]

\* f is in what is received, on the way, or still to be sent of the report.
InReport(f) ==
    \/ f \in ToSet(recv.body)
    \/ \E i \in DOMAIN toAgent : f \in ToSet(toAgent[i].body)
    \/ Busy /\ f \in Unsent

\* f will be in the report.
WillBeFound(f) ==
    \/ \E i \in DOMAIN toMirror : toMirror[i].port = sock /\ mtime[f] > toMirror[i].since
    \/ /\ Busy /\ svc = "scan"
       /\ f \in ToSet(body) \/ (f \in unscanned /\ mtime[f] > t1)

StaleInv ==
    /\ NothingFails
    /\ ~ Running => \A f \in Stale : YoungerThanAll(f)
    /\ Running /\ cur = 0 /\ Asking =>
          /\ \A f \in Stale : YoungerThanAll(f) /\ (WillBeFound(f) \/ InReport(f))
          /\ \A i \in DOMAIN toAgent : toAgent[i].status = "no_changes" => Stale = {}
          /\ recv.status = "no_changes" => Stale = {}
    /\ Running /\ (cur > 0 \/ ~ Asking) => Stale \subseteq ToSet(files_id)

-----------------------------------------------------------------------------
(***************************************************************************)
(* What is up to date is not asked for.  The agent's copy of it is younger *)
(* than the mirror's file, so that the request names a time that is no     *)
(* older, and no file that is reported, is on the way, or is still on the  *)
(* list is one of them.                                                    *)
(***************************************************************************)
TimesInv ==
    \A f \in Files :
        /\ mtime[f] <= now
        /\ data[f] # <<>> /\ data[f][1].ver = ver[f] => mtime[f] <= ptime[f]

NoneYounger(t) == \A f \in Files : ptime[f] <= t
Done           == {f \in Files : UpToDate(f)}

AskedForOld ==
    Running /\ cur = 0 /\ Asking =>
        /\ \A i \in DOMAIN toMirror : toMirror[i].port = sock => NoneYounger(toMirror[i].since)
        /\ Busy => Lacks(body, Done) /\ (svc = "scan" => NoneYounger(t1))
        /\ \A i \in DOMAIN toAgent : Lacks(toAgent[i].body, Done)
        /\ Lacks(recv.body, Done)

\* The files on the list up to this one were asked for, and dealt with.
Fetched == IF apc \in {"call", "write", "close"} THEN cur ELSE cur - 1

ListedOld ==
    Running /\ (cur > 0 \/ ~ Asking) =>
        \A i \in DOMAIN files_id : i > Fetched => files_id[i] \notin Done

KeepInv == TimesInv /\ AskedForOld /\ ListedOld
=============================================================================
