------------------------------ MODULE Integrity ------------------------------
(***************************************************************************)
(* What is under way when the agent asks for a page, and why no file of    *)
(* the primary is ever a mixture: the invariants behind FileIntegrity, on  *)
(* a network that loses and delays datagrams but neither doubles nor       *)
(* exchanges them.                                                         *)
(*                                                                         *)
(* Nothing on the wire says which response a frame belongs to.  What keeps *)
(* responses apart is that `services` takes one request after the other,   *)
(* that the file asked for last has been asked for once in this run, and   *)
(* that a run has a port of its own.                                       *)
(***************************************************************************)
EXTENDS AgentSync

\* The file asked for, and all those asked for in this run.
CurFile == files_id[cur]
Asked   == {files_id[i] : i \in 1..cur}
Current == PageRequest(sock, CurFile)

\* `services` works on a request of the present run; one is on its way.
Busy     == request.port = sock
OnTheWay == \E i \in DOMAIN toMirror : toMirror[i].port = sock

Running  == apc # "idle"
Paging   == apc # "idle" /\ cur > 0

\* No network fault is left but loss.
NoDisorder == faults["dup"] = 0 /\ faults["swap"] = 0

(***************************************************************************)
(* Ports, and the states of the two programs.                              *)
(***************************************************************************)
RunInv ==
    /\ sock = IF apc = "idle" THEN 0 ELSE port
    /\ Running => port > 0
    /\ \A i \in DOMAIN toMirror : toMirror[i].port \in 1..port
    /\ IF svc = "wait_start" THEN request = NoRequest ELSE request.port \in 1..port
    /\ apc = "idle" => toAgent = <<>>
    /\ apc \notin {"wait_more", "received"} => recv = NothingReceived
    /\ apc = "wait_more" => recv.got < recv.frames
    /\ apc = "received" => recv.got = recv.frames
    /\ recv.status = "pages_returned" => recv.body # <<>>

\* A file that is there has a version and a length; copies are not younger.
FilesInv ==
    \A f \in Files :
        /\ Exists(f) => ver[f] > 0 /\ len[f] \in Lengths
        /\ held[f] <= ver[f]
        /\ data[f] # <<>> => held[f] = data[f][1].ver

(***************************************************************************)
(* Reports: no file is on the report twice, nor on the agent's list.       *)
(***************************************************************************)
Distinct(s) == \A i, j \in DOMAIN s : s[i] = s[j] /\ s[i] \in Files => i = j
Apart(s, t) == \A i \in DOMAIN s, j \in DOMAIN t : s[i] \in Files => s[i] # t[j]

ScanInv ==
    svc \in {"scan", "send"} /\ IsReport =>
        /\ Distinct(body)
        /\ \A i \in DOMAIN body : body[i] \in Files
        /\ svc = "scan" => \A i \in DOMAIN body : body[i] \notin unscanned

\* Before the report is asked for nothing else is, and nothing has come.
ReportFirst ==
    /\ \A i, j \in DOMAIN toMirror :
          toMirror[i].port = sock /\ toMirror[j].port = sock => i = j
    /\ OnTheWay \/ (Busy /\ sent = 0) => toAgent = <<>> /\ recv = NothingReceived
    /\ OnTheWay => ~ Busy

\* What has come of the report, what is in the queue, and what is still to send.
ReportOnce ==
    /\ Distinct(recv.body)
    /\ \A i \in DOMAIN toAgent :
          Distinct(toAgent[i].body) /\ Apart(recv.body, toAgent[i].body)
    /\ \A i, j \in DOMAIN toAgent : i < j => Apart(toAgent[i].body, toAgent[j].body)

Unsent == {body[x] : x \in (sent * IdsPerFrame + 1)..Len(body)}
Lacks(s, ids) == \A i \in DOMAIN s : s[i] \notin ids

UnsentIsNew ==
    Busy /\ svc = "send" =>
        Lacks(recv.body, Unsent) /\ \A i \in DOMAIN toAgent : Lacks(toAgent[i].body, Unsent)

ReportInv == Running /\ cur = 0 => ReportFirst /\ ReportOnce /\ UnsentIsNew

ListInv == Distinct(files_id)

(***************************************************************************)
(* Requests of the present run are for files it has asked for, and the     *)
(* request for the current file is the last of them.                       *)
(***************************************************************************)
IsPage(fr) == fr.status = "pages_returned"
ForAsked(rq) == rq.port = sock /\ rq.cmd = "AGENT_GET_PAGE" => rq.file \in Asked

AskedInv ==
    Running =>
        /\ \A i \in DOMAIN toMirror : ForAsked(toMirror[i])
        /\ ForAsked(request)
        /\ \A i \in DOMAIN toAgent :
              IsPage(toAgent[i]) => toAgent[i].body # <<>> /\ toAgent[i].body[1] \in Asked

LastInv ==
    Paging =>
        /\ \A i, j \in DOMAIN toMirror :
              i < j /\ toMirror[j].port = sock => toMirror[i] # Current
        /\ request = Current => ~ OnTheWay

(***************************************************************************)
(* The pages: what `services` sends for a file are the first parts of one  *)
(* version, and the version is no older than what the primary holds.       *)
(***************************************************************************)
PageBody(b, f, v, n) ==
    /\ Len(b) \in 2..(n + 1)
    /\ b[1] = f
    /\ \A k \in 1..(Len(b) - 1) : b[k + 1] = Part(f, v, k, n)

ServeInv ==
    svc = "send" /\ ~ IsReport /\ body # <<>> =>
        \E v \in 1..ver[request.file], n \in Lengths :
            /\ PageBody(body, request.file, v, n)
            /\ Paging /\ request = Current => held[request.file] <= v

(***************************************************************************)
(* A page of m frames on its way, parts of version v of f with n parts.    *)
(***************************************************************************)
EndLen(k, m) == IF k = m THEN 1 ELSE 0
PartNo(fr)   == fr.body[1].part

FirstOf(fr, f, v, n, m) ==
    /\ fr.frames = m
    /\ Len(fr.body) = 2 + EndLen(1, m)
    /\ fr.body[1] = f
    /\ fr.body[2] = Part(f, v, 1, n)

MoreOf(fr, f, v, n, m) ==
    /\ fr.status = NoHeader
    /\ PartNo(fr) \in 2..m
    /\ Len(fr.body) = 1 + EndLen(PartNo(fr), m)
    /\ fr.body[1] = Part(f, v, PartNo(fr), n)

\* Behind the i-th frame of q are parts after part k only, in order.
InOrder(q, i, k, f, v, n, m) ==
    /\ \A j \in DOMAIN q : j > i => MoreOf(q[j], f, v, n, m) /\ PartNo(q[j]) > k
    /\ \A h, j \in DOMAIN q : i < h /\ h < j => PartNo(q[h]) < PartNo(q[j])

\* And `services`, if it is busy, sends the parts that come after them.
SendsOn(i, k, v, n, m) ==
    Busy =>
        /\ request = Current
        /\ svc = "send"
        /\ k <= sent
        /\ PageBody(body, CurFile, v, n)
        /\ Len(body) = m + 1
        /\ \A j \in DOMAIN toAgent : j > i => PartNo(toAgent[j]) <= sent

Served(f, v, n, m) == v \in 1..ver[f] /\ held[f] <= v /\ n \in Lengths /\ m \in 1..n

Follows(i, k, v, n, m) ==
    /\ Served(CurFile, v, n, m)
    /\ ~ OnTheWay
    /\ InOrder(toAgent, i, k, CurFile, v, n, m)
    /\ SendsOn(i, k, v, n, m)

QueueInv ==
    Paging =>
        \A i \in DOMAIN toAgent :
            IsPage(toAgent[i]) /\ toAgent[i].body[1] = CurFile =>
                LET m == toAgent[i].frames IN
                \E v \in 1..ver[CurFile], n \in Lengths :
                    FirstOf(toAgent[i], CurFile, v, n, m) /\ Follows(i, 1, v, n, m)

\* The page received is the beginning of it, or can never be completed.
Exact(r, f, v, n, m) ==
    /\ Len(r.body) = r.got + 1 + EndLen(r.got, m)
    /\ \A k \in 1..r.got : r.body[k + 1] = Part(f, v, k, n)

ReceivedInv ==
    Paging /\ IsPage(recv) /\ recv.body[1] = CurFile =>
        /\ recv.got >= 1
        /\ \E v \in 1..ver[CurFile], n \in Lengths, k \in {recv.got, recv.got + 1} :
              /\ k <= recv.frames
              /\ Follows(0, k, v, n, recv.frames)
              /\ k = recv.got => Exact(recv, CurFile, v, n, recv.frames)

(***************************************************************************)
(* What is written and what is still to write are one version from its     *)
(* start, and nothing else is under way.                                   *)
(***************************************************************************)
Writes(f, v, n) ==
    /\ held[f] <= v
    /\ Len(data[f]) + Len(pending) <= n
    /\ \A k \in 1..Len(data[f]) : data[f][k] = Part(f, v, k, n)
    /\ \A k \in 1..Len(pending) : pending[k] = Part(f, v, Len(data[f]) + k, n)

WriteInv ==
    apc \in {"write", "close"} =>
        /\ toAgent = <<>> /\ ~ OnTheWay /\ ~ Busy
        /\ \E v \in 1..ver[CurFile], n \in Lengths : Writes(CurFile, v, n)

MixInv ==
    /\ NoDisorder
    /\ RunInv
    /\ FilesInv
    /\ ScanInv
    /\ ReportInv
    /\ ListInv
    /\ AskedInv
    /\ LastInv
    /\ ServeInv
    /\ QueueInv
    /\ ReceivedInv
    /\ WriteInv
    /\ FileIntegrity

(***************************************************************************)
(* If the mirror's files stay as they are while a run is under way         *)
(* (QuietRuns), the size counted is the length read, and every page has    *)
(* all parts of its version: it is written as a whole or not at all.       *)
(***************************************************************************)
AllParts(b, m) == Len(b) >= 2 /\ b[2].of = m

CountIsRight == Running /\ Busy /\ svc = "read" => size = len[request.file]

PagesWhole ==
    Running =>
        /\ Busy /\ svc = "send" /\ ~ IsReport /\ body # <<>> => AllParts(body, Len(body) - 1)
        /\ \A i \in DOMAIN toAgent :
              IsPage(toAgent[i]) => AllParts(toAgent[i].body, toAgent[i].frames)
        /\ IsPage(recv) => AllParts(recv.body, recv.frames)

\* What is written and what is still to write, together.
WriteWhole ==
    apc \in {"write", "close"} =>
        LET written == data[CurFile]
            first   == IF written = <<>> THEN pending[1] ELSE written[1]
            all     == Len(written) + Len(pending)
        IN  all > 0 /\ first.of = all

WholePages == CountIsRight /\ PagesWhole /\ WriteWhole
=============================================================================
