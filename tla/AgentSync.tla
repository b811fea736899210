----------------------------- MODULE AgentSync -----------------------------
(***************************************************************************)
(* The synchronisation of the primary's data files with the mirror's: the  *)
(* agent, the services of the mirror, the network between them, the RAIDA  *)
(* server that writes the mirror's files, and the clock.                   *)
(***************************************************************************)
EXTENDS MirrorServices, PrimaryAgent

CONSTANTS
    MaxTime,        \* bound: the last second of the model
    Timely,         \* does a response always arrive before the agent times out?
    QuietRuns       \* does the mirror change only between runs?

ASSUME SyncBounds == /\ MaxTime \in Nat
                     /\ Timely \in BOOLEAN
                     /\ QuietRuns \in BOOLEAN

VARIABLES
    began,          \* history: when the current or last run started
    held            \* history: the version each primary file holds or held last

histVars == <<began, held>>
vars == <<now, sock, netVars, fileVars, svcVars, agentVars, histVars>>

Init ==
    /\ now = 1
    /\ toMirror = <<>>
    /\ toAgent = <<>>
    /\ sock = 0
    /\ faults = Faults
    /\ MirrorInit
    /\ AgentInit
    /\ began = 0
    /\ held = [f \in Files |-> 0]

Tick ==
    /\ now < MaxTime
    /\ now' = now + 1
    /\ UNCHANGED <<sock, netVars, fileVars, svcVars, agentVars, histVars>>

\* With QuietRuns no run is under way, nor was there one in this second.
MirrorMayChange ==
    QuietRuns => apc = "idle" /\ \A f \in Files : ptime[f] < now

NothingUnderWay == svc \in {"wait_start", "crashed"} /\ toMirror = <<>>

ServiceNext == ServiceStep /\ UNCHANGED <<agentVars, histVars>>

\* The version the contents start with; v while they hold nothing of a version.
HeldVersion(contents, v) ==
    IF contents # <<>> /\ contents[1] \in Parts THEN contents[1].ver ELSE v

AgentRun ==
    /\ \/ ReceiveFirst
       \/ ReceiveMore
       \/ (Timely => NothingUnderWay) /\ TimeOut
       \/ ProcessReport
       \/ CallGetPage
       \/ AgentEnd
       \/ ProcessPage
       \/ WriteFile
       \/ Buffered
       \/ WriteDone
    /\ held' = [f \in Files |-> HeldVersion(data'[f], held[f])]
    /\ UNCHANGED <<fileVars, svcVars, began>>

AgentStart ==
    AgentMain /\ began' = now /\ UNCHANGED <<fileVars, svcVars, held>>

AgentBreaks ==
    (WriteFails \/ CloseFails \/ Kill) /\ UNCHANGED <<fileVars, svcVars, histVars>>

MirrorChange ==
    /\ MirrorMayChange
    /\ \E f \in Files : MirrorRemove(f) \/ \E n \in Lengths : MirrorWrite(f, n)
    /\ UNCHANGED <<agentVars, histVars>>

Network ==
    NetworkFault /\ UNCHANGED <<now, sock, fileVars, svcVars, agentVars, histVars>>

Next ==
    \/ Tick
    \/ MirrorChange
    \/ ServiceNext
    \/ AgentStart
    \/ AgentRun
    \/ AgentBreaks
    \/ Network

Spec == Init /\ [][Next]_vars

(***************************************************************************)
(* Fairness: a running process goes on, the operating system delivers what *)
(* is in a socket queue, and a select that waits long enough times out.    *)
(***************************************************************************)
RunningFairly == WF_vars(ServiceNext) /\ WF_vars(AgentRun)
FairSpec      == Spec /\ RunningFairly
\* The run is started again and again (the flowchart: every minute).
RestartedSpec == FairSpec /\ WF_vars(AgentStart) /\ WF_vars(Tick)

-----------------------------------------------------------------------------
\* Every variable has its type.
TypeOK ==
    /\ BaseTypeOK
    /\ MirrorTypeOK
    /\ AgentTypeOK
    /\ began \in Nat
    /\ held \in [Files -> Nat]

(***************************************************************************)
(* What holds between two steps of a program: `services` keeps a request   *)
(* while it works on it, builds the response the request calls for, and    *)
(* has frames left to send as long as it sends; the agent writes only      *)
(* while it asks for a page.                                               *)
(***************************************************************************)
ServiceInv ==
    /\ svc # "wait_start" => request \in Request
    /\ svc = "scan" => IsReport
    /\ svc \in {"count", "read"} => ~ IsReport
    /\ svc \in {"wait_start", "count", "read"} => body = <<>>
    /\ svc # "send" => sent = 0
    /\ svc = "send" => sent < TotalFrames
    /\ svc = "send" /\ ~ IsReport /\ body # <<>> => Len(body) >= 2

AgentInv == apc \in {"write", "close"} => cur # 0

IndInv == TypeOK /\ ServiceInv /\ AgentInv

\* The primary's copy of f is a prefix of version v of f, which had n frames.
IsPrefixOf(f, v, n) ==
    /\ Len(data[f]) <= n
    /\ \A k \in DOMAIN data[f] : data[f][k] = Part(f, v, k, n)

HasContentOf(f, v, n) == Len(data[f]) = n /\ IsPrefixOf(f, v, n)

(***************************************************************************)
(* Integrity.  Whatever is lost or late, however the mirror writes while   *)
(* it is read, a file of the primary never mixes two versions, two files,  *)
(* or protocol bytes: it holds the beginning of one version the mirror had.*)
(* (Receive_response appends blindly; only the id of the page is tested.)  *)
(***************************************************************************)
FileIntegrity ==
    \A f \in Files :
        data[f] # <<>> => \E v \in 1..ver[f], n \in Lengths : IsPrefixOf(f, v, n)

\* f needs no synchronisation: it is the mirror's, or cannot be transferred.
Synchronized(f) ==
    \/ Exists(f) /\ HasContentOf(f, ver[f], len[f])
    \/ ~ Exists(f)
    \/ f \notin Creatable
    \/ len[f] = 0

(***************************************************************************)
(* "No Changes. All Files already Synchronized"                            *)
(* (Agent_Call_Services.c:290): when the agent prints it, every file of    *)
(* the mirror that was last modified before the run began is the same on   *)
(* the primary.                                                            *)
(***************************************************************************)
PrintsNoChanges == outcome # "no_changes" /\ outcome' = "no_changes"

NoChangesMeansSynchronized ==
    [][PrintsNoChanges =>
          \A f \in Files : Synchronized(f) \/ mtime[f] >= began]_vars

(***************************************************************************)
(* The agent asks for what changed since the youngest of its files.  A     *)
(* file that is up to date is not asked for: it stays as it is until the   *)
(* mirror changes it, and is never truncated to be written once more.      *)
(***************************************************************************)
UpToDate(f) == data[f] # <<>> /\ HasContentOf(f, ver[f], len[f])

UpToDateIsKept ==
    [][\A f \in Files : UpToDate(f) /\ ver'[f] = ver[f] => UpToDate(f)']_vars

(***************************************************************************)
(* A run that went through its list has fetched every file on it that was  *)
(* last modified before the run began.                                     *)
(***************************************************************************)
ReportedFilesSynchronized ==
    outcome = "ended" =>
        \A i \in DOMAIN files_id :
            LET f == files_id[i] IN Synchronized(f) \/ mtime[f] >= began

(***************************************************************************)
(* "File modified and synchronized with the Mirror Raida"                  *)
(* (Agent_Call_Services.c:536): when the agent prints it, the file it has  *)
(* written is a whole version of the mirror's file, unless the disk was    *)
(* full at the very fclose before (line 535), whose result is not tested.  *)
(***************************************************************************)
PrintsSynchronized == apc = "close" /\ apc' = "call"
DiskIsFull         == faults'["disk"] # faults["disk"]

WrittenFileIsWhole ==
    [][PrintsSynchronized /\ ~ DiskIsFull =>
          LET f == files_id[cur] IN
          \E v \in 1..ver[f], n \in Lengths : HasContentOf(f, v, n)]_vars

(***************************************************************************)
(* A lost datagram or a full disk costs one file at most: when no answer   *)
(* is late, a run leaves no more of the reported files behind than there   *)
(* were losses and full disks.  (The loop of main goes on after a page     *)
(* that did not come; what is left of a response in the socket queue could *)
(* spoil the following ones.  It does when the first frame of a page of    *)
(* three frames or more is lost, and then all files left may be lost.)     *)
(***************************************************************************)
LeftBehind == {f \in ToSet(files_id) : ~ Synchronized(f) /\ mtime[f] < began}

\* The losses and full disks so far, in all runs.
Lost == (Faults["loss"] - faults["loss"]) + (Faults["disk"] - faults["disk"])

LossCostsOneFile ==
    outcome = "ended" /\ faults["head"] = Faults["head"] =>
        Cardinality(LeftBehind) <= Lost

\* Every run of the agent ends, whatever becomes of its requests.
AgentTerminates == apc # "idle" ~> apc = "idle"

\* If runs are repeated, every file is synchronised in the end and stays so.
EventuallySynchronized == <>[](\A f \in Files : Synchronized(f))

-----------------------------------------------------------------------------
(***************************************************************************)
(* The primary's files are copies in the sense of Replica, the mirror's    *)
(* files the master.  A copy that mixes contents has no version at all.    *)
(***************************************************************************)
CopyOf(f) ==
    IF data[f] = <<>>
      THEN [ver |-> held[f], state |-> "empty"]
      ELSE LET v == data[f][1].ver
               n == data[f][1].of
           IN  IF ~ IsPrefixOf(f, v, n)     THEN [ver |-> 0, state |-> "mixed"]
               ELSE IF HasContentOf(f, v, n) THEN [ver |-> v, state |-> "whole"]
               ELSE [ver |-> v, state |-> "partial"]

Copies == INSTANCE Replica WITH master <- ver, copy <- [f \in Files |-> CopyOf(f)]

\* The synchronisation implements Replica.
ImplementsReplica == Copies!Spec
=============================================================================
