-------------------------- MODULE AgentSync_proofs --------------------------
(***************************************************************************)
(* Proofs about AgentSync, for every set of files, every size of frames    *)
(* and reports, and any number of runs, faults and versions: every         *)
(* variable has its type; and, on a network that neither doubles nor       *)
(* exchanges datagrams, no file of the primary is ever a mixture, its      *)
(* files are copies in the sense of Replica, and what is written while the *)
(* mirror is quiet is a whole file.                                        *)
(***************************************************************************)
EXTENDS Integrity, SequenceTheorems, TLAPS

USE DEF FaultKind

-----------------------------------------------------------------------------
(* Sequences. *)

\* A part of a sequence has the elements of the sequence.
LEMMA SubSeqOfSeq ==
    ASSUME NEW S, NEW s \in Seq(S), NEW m \in Nat \ {0}, NEW n \in Int, n <= Len(s)
    PROVE  /\ SubSeq(s, m, n) \in Seq(S)
           /\ Len(SubSeq(s, m, n)) = IF m <= n THEN n - m + 1 ELSE 0
           /\ \A i \in 1..(n - m + 1) : SubSeq(s, m, n)[i] = s[m + i - 1]
<1>1. \A i \in m..n : s[i] \in S
    BY ElementOfSeq, LenProperties
<1> QED BY <1>1, SubSeqProperties

\* What the three faults of the network make of a channel is a channel.
LEMMA DisturbedChannel ==
    ASSUME NEW S, NEW s \in Seq(S)
    PROVE  /\ \A i \in DOMAIN s : RemoveAt(s, i) \in Seq(S)
           /\ \A i \in DOMAIN s : \A j \in (i + 1)..(Len(s) + 1) :
                  InsertAt(s, j, s[i]) \in Seq(S)
           /\ \A i \in 1..(Len(s) - 1) : Exchange(s, i) \in Seq(S)
<1>0. DOMAIN s = 1..Len(s) /\ Len(s) \in Nat
    BY LenProperties
<1>1. ASSUME NEW i \in DOMAIN s PROVE RemoveAt(s, i) \in Seq(S)
  <2>1. SubSeq(s, 1, i - 1) \in Seq(S)
    BY <1>0, SubSeqOfSeq
  <2>2. SubSeq(s, i + 1, Len(s)) \in Seq(S)
    BY <1>0, SubSeqOfSeq
  <2> QED BY <2>1, <2>2, ConcatProperties DEF RemoveAt
<1>2. ASSUME NEW i \in DOMAIN s, NEW j \in (i + 1)..(Len(s) + 1)
      PROVE  InsertAt(s, j, s[i]) \in Seq(S)
  <2>1. SubSeq(s, 1, j - 1) \in Seq(S)
    BY <1>0, SubSeqOfSeq
  <2>2. SubSeq(s, j, Len(s)) \in Seq(S)
    BY <1>0, SubSeqOfSeq
  <2>3. <<s[i]>> \in Seq(S)
    BY <1>0, ElementOfSeq
  <2> QED BY <2>1, <2>2, <2>3, ConcatProperties DEF InsertAt
<1>3. ASSUME NEW i \in 1..(Len(s) - 1) PROVE Exchange(s, i) \in Seq(S)
  <2>1. s[i] \in S /\ s[i + 1] \in S
    BY <1>0, ElementOfSeq
  <2>2. [s EXCEPT ![i] = s[i + 1]] \in Seq(S) /\ Len([s EXCEPT ![i] = s[i + 1]]) = Len(s)
    BY <1>0, <2>1, ExceptSeq
  <2>3. [[s EXCEPT ![i] = s[i + 1]] EXCEPT ![i + 1] = s[i]] \in Seq(S)
    BY <1>0, <2>1, <2>2, ExceptSeq
  <2> QED BY <2>3 DEF Exchange
<1> QED BY <1>1, <1>2, <1>3

-----------------------------------------------------------------------------
(* Facts about the state that several steps need. *)

LEMMA MarksAreItems == Header \in Item /\ EndMark \in Item /\ Files \subseteq Item
BY DEF Item

\* A program that takes no step keeps its state.
LEMMA ServiceUnchanged ==
    ASSUME MirrorTypeOK, ServiceInv, UNCHANGED fileVars, UNCHANGED svcVars
    PROVE  MirrorTypeOK' /\ ServiceInv'
<1>1. UNCHANGED <<ver, len, mtime, svc, request, t1, unscanned, size, body, sent>>
    BY DEF fileVars, svcVars
<1>2. TotalFrames' = TotalFrames /\ IsReport' = IsReport
    BY <1>1 DEF TotalFrames, IsReport
<1>3. MirrorTypeOK'
    BY <1>1 DEF MirrorTypeOK
<1>4. ServiceInv'
    BY <1>1, <1>2 DEF ServiceInv
<1> QED BY <1>3, <1>4

LEMMA AgentUnchanged ==
    ASSUME AgentTypeOK, AgentInv, UNCHANGED agentVars
    PROVE  AgentTypeOK' /\ AgentInv'
BY DEF AgentTypeOK, AgentInv, agentVars

LEMMA InitialState == Init => IndInv
<1> SUFFICES ASSUME Init PROVE IndInv
    OBVIOUS
<1>1. BaseTypeOK
    BY FaultsAreCounted, EmptySeq DEF Init, BaseTypeOK
<1>2. MirrorTypeOK
  <2>1. len \in [Files -> Nat]
    <3>1. len \in [Files -> Lengths \cup {0}]
      BY DEF Init, MirrorInit
    <3>2. Lengths \cup {0} \subseteq Nat
      BY LengthsFit
    <3> QED BY <3>1, <3>2
  <2>2. mtime \in [Files -> Nat] /\ ver \in [Files -> Nat]
    <3>1. PICK present \in SUBSET Files :
             /\ mtime = [f \in Files |-> IF f \in present THEN 1 ELSE 0]
             /\ ver   = [f \in Files |-> IF f \in present THEN 1 ELSE 0]
      BY DEF Init, MirrorInit
    <3> QED BY <3>1
  <2>3. svc \in SvcStates /\ request \in Request \cup {NoRequest}
    BY DEF Init, MirrorInit, SvcStates
  <2>4. t1 \in Int /\ unscanned \subseteq Files /\ size \in Nat /\ sent \in Nat
    BY DEF Init, MirrorInit
  <2>5. body \in Seq(Item)
    BY EmptySeq DEF Init, MirrorInit
  <2> QED BY <2>1, <2>2, <2>3, <2>4, <2>5 DEF MirrorTypeOK
<1>3. AgentTypeOK
    BY EmptySeq DEF Init, AgentInit, AgentTypeOK, NothingReceived, Responses,
                    AgentStates, Outcomes
<1>4. ServiceInv /\ AgentInv
    BY DEF Init, MirrorInit, AgentInit, ServiceInv, AgentInv
<1> QED BY <1>1, <1>2, <1>3, <1>4 DEF IndInv, TypeOK, Init

-----------------------------------------------------------------------------
(* The clock, the RAIDA server and the network. *)

LEMMA TickStep ==
    ASSUME IndInv, Tick
    PROVE  IndInv'
<1>1. MirrorTypeOK' /\ ServiceInv' /\ AgentTypeOK' /\ AgentInv'
    BY ServiceUnchanged, AgentUnchanged DEF IndInv, TypeOK, Tick
<1>2. BaseTypeOK' /\ began' \in Nat /\ held' \in [Files -> Nat]
    BY DEF IndInv, TypeOK, BaseTypeOK, Tick, netVars, histVars
<1> QED BY <1>1, <1>2 DEF IndInv, TypeOK

LEMMA MirrorChangeStep ==
    ASSUME IndInv, MirrorChange
    PROVE  IndInv'
<1>0. /\ ver \in [Files -> Nat] /\ len \in [Files -> Nat]
      /\ mtime \in [Files -> Nat] /\ now \in Nat
    BY DEF IndInv, TypeOK, BaseTypeOK, MirrorTypeOK
<1>1. ver' \in [Files -> Nat] /\ len' \in [Files -> Nat] /\ mtime' \in [Files -> Nat]
  <2>1. ASSUME NEW f \in Files, MirrorRemove(f)
        PROVE  ver' \in [Files -> Nat] /\ len' \in [Files -> Nat] /\ mtime' \in [Files -> Nat]
    BY <1>0, <2>1 DEF MirrorRemove
  <2>2. ASSUME NEW f \in Files, NEW n \in Lengths, MirrorWrite(f, n)
        PROVE  ver' \in [Files -> Nat] /\ len' \in [Files -> Nat] /\ mtime' \in [Files -> Nat]
    BY <1>0, <2>2, LengthsFit DEF MirrorWrite
  <2> QED BY <2>1, <2>2 DEF MirrorChange
<1>2. UNCHANGED <<now, sock, netVars, svcVars, agentVars, histVars>>
    BY DEF MirrorChange, MirrorRemove, MirrorWrite
<1>3. UNCHANGED <<svc, request, t1, unscanned, size, body, sent>>
    BY <1>2 DEF svcVars
<1>4. MirrorTypeOK'
    BY <1>1, <1>3 DEF IndInv, TypeOK, MirrorTypeOK
<1>5. ServiceInv'
  <2>1. TotalFrames' = TotalFrames /\ IsReport' = IsReport
    BY <1>3 DEF TotalFrames, IsReport
  <2> QED BY <1>3, <2>1 DEF IndInv, ServiceInv
<1>6. AgentTypeOK' /\ AgentInv'
    BY <1>2, AgentUnchanged DEF IndInv, TypeOK
<1>7. BaseTypeOK' /\ began' \in Nat /\ held' \in [Files -> Nat]
    BY <1>2 DEF IndInv, TypeOK, BaseTypeOK, netVars, histVars
<1> QED BY <1>4, <1>5, <1>6, <1>7 DEF IndInv, TypeOK

LEMMA NetworkStep ==
    ASSUME IndInv, Network
    PROVE  IndInv'
<1>0. toMirror \in Seq(Request) /\ toAgent \in Seq(Frame) /\ faults \in [FaultKind -> Nat]
    BY DEF IndInv, TypeOK, BaseTypeOK
<1>1. faults' \in [FaultKind -> Nat]
    BY <1>0 DEF Network, NetworkFault, Lose, Duplicate, Reorder, Spend
<1>2. toMirror' \in Seq(Request) /\ toAgent' \in Seq(Frame)
  <2>1. CASE Lose
    BY <1>0, <2>1, DisturbedChannel DEF Lose
  <2>2. CASE Duplicate
    BY <1>0, <2>2, DisturbedChannel DEF Duplicate
  <2>3. CASE Reorder
    BY <1>0, <2>3, DisturbedChannel DEF Reorder
  <2> QED BY <2>1, <2>2, <2>3 DEF Network, NetworkFault
<1>3. MirrorTypeOK' /\ ServiceInv' /\ AgentTypeOK' /\ AgentInv'
    BY ServiceUnchanged, AgentUnchanged DEF IndInv, TypeOK, Network
<1>4. BaseTypeOK' /\ began' \in Nat /\ held' \in [Files -> Nat]
    BY <1>1, <1>2 DEF IndInv, TypeOK, BaseTypeOK, Network, histVars
<1> QED BY <1>3, <1>4 DEF IndInv, TypeOK

-----------------------------------------------------------------------------
(* The services of the mirror. *)

\* A step of `services` keeps what it may not touch.
LEMMA ServiceFrame ==
    ASSUME IndInv, ServiceNext,
           toMirror' \in Seq(Request), toAgent' \in Seq(Frame),
           MirrorTypeOK', ServiceInv'
    PROVE  IndInv'
<1>1. UNCHANGED <<now, sock, faults, agentVars, histVars>>
    BY DEF ServiceNext, ServiceStep, ListenRequest, ScanFile, ScanEnd, CountSize,
           ReadContents, SendResponse, netVars
<1>2. AgentTypeOK' /\ AgentInv'
    BY <1>1, AgentUnchanged DEF IndInv, TypeOK
<1>3. BaseTypeOK' /\ began' \in Nat /\ held' \in [Files -> Nat]
    BY <1>1 DEF IndInv, TypeOK, BaseTypeOK, histVars
<1> QED BY <1>2, <1>3 DEF IndInv, TypeOK

\* The number of frames of a response.
LEMMA CeilDiv ==
    ASSUME NEW n \in Nat \ {0}, NEW d \in Nat \ {0}
    PROVE  (n + d - 1) \div d \in Nat \ {0}
OBVIOUS

LEMMA FramesOfResponse ==
    ASSUME body \in Seq(Item), ~ IsReport /\ body # <<>> => Len(body) >= 2
    PROVE  TotalFrames \in Nat \ {0}
<1>1. CASE body = <<>>
    BY <1>1 DEF TotalFrames
<1>2. CASE body # <<>> /\ IsReport
  <2>1. Len(body) \in Nat \ {0}
    BY <1>2, EmptySeq
  <2>2. TotalFrames = (Len(body) + IdsPerFrame - 1) \div IdsPerFrame
    BY <1>2 DEF TotalFrames
  <2> QED BY <2>1, <2>2, CeilDiv, ReportLimits
<1>3. CASE body # <<>> /\ ~ IsReport
  <2>1. TotalFrames = Len(body) - 1
    BY <1>3 DEF TotalFrames
  <2> QED BY <1>3, <2>1, LenProperties
<1> QED BY <1>1, <1>2, <1>3

LEMMA ListenStep ==
    ASSUME IndInv, ListenRequest
    PROVE  MirrorTypeOK' /\ ServiceInv' /\ toMirror' \in Seq(Request) /\ toAgent' \in Seq(Frame)
<1>1. Head(toMirror) \in Request /\ toMirror' \in Seq(Request) /\ toAgent' \in Seq(Frame)
    BY HeadTailProperties DEF IndInv, TypeOK, BaseTypeOK, ListenRequest
<1>2. CASE Head(toMirror).cmd = "MIRROR_REPORT_CHANGES"
  <2>1. Head(toMirror).since \in Nat
    BY <1>1, <1>2 DEF Request
  <2>2. t1' \in Int /\ unscanned' \subseteq Files /\ svc' = "scan"
    BY <1>2, <2>1, TzShiftsAreInt DEF ListenRequest, Dispatch
  <2>3. MirrorTypeOK'
    BY <1>1, <2>2 DEF IndInv, TypeOK, MirrorTypeOK, ListenRequest, fileVars, SvcStates
  <2>4. ServiceInv'
    BY <1>1, <1>2, <2>2 DEF IndInv, ServiceInv, ListenRequest, IsReport
  <2> QED BY <1>1, <2>3, <2>4
<1>3. CASE Head(toMirror).cmd # "MIRROR_REPORT_CHANGES"
  <2>1. svc' = "count" /\ UNCHANGED <<t1, unscanned>>
    BY <1>3 DEF ListenRequest, Dispatch
  <2>2. MirrorTypeOK'
    BY <1>1, <2>1 DEF IndInv, TypeOK, MirrorTypeOK, ListenRequest, fileVars, SvcStates
  <2>3. ServiceInv'
    BY <1>1, <1>3, <2>1 DEF IndInv, ServiceInv, ListenRequest, IsReport
  <2> QED BY <1>1, <2>2, <2>3
<1> QED BY <1>2, <1>3

\* The scan of the directories.
LEMMA ScanStep ==
    ASSUME IndInv, ScanEnd \/ \E f \in Files : ScanFile(f)
    PROVE  MirrorTypeOK' /\ ServiceInv' /\ toMirror' \in Seq(Request) /\ toAgent' \in Seq(Frame)
<1>0. /\ svc = "scan" /\ IsReport /\ sent = 0 /\ body \in Seq(Item) /\ request \in Request
      /\ UNCHANGED <<ver, len, mtime, request, t1, size, sent, toMirror, toAgent>>
    BY DEF IndInv, TypeOK, MirrorTypeOK, ServiceInv, ScanEnd, ScanFile, fileVars, netVars
<1>1. body' \in Seq(Item) /\ unscanned' \subseteq Files /\ svc' \in {"scan", "send"}
  <2>1. CASE ScanEnd
    BY <1>0, <2>1 DEF IndInv, TypeOK, MirrorTypeOK, ScanEnd
  <2>2. ASSUME NEW f \in Files, ScanFile(f)
        PROVE  body' \in Seq(Item) /\ unscanned' \subseteq Files /\ svc' \in {"scan", "send"}
    <3>1. f \in Item
      BY MarksAreItems
    <3>2. body' \in Seq(Item)
      BY <1>0, <2>2, <3>1, AppendProperties DEF ScanFile
    <3> QED BY <2>2, <3>2 DEF IndInv, TypeOK, MirrorTypeOK, ScanFile
  <2> QED BY <2>1, <2>2
<1>2. MirrorTypeOK'
    BY <1>0, <1>1 DEF IndInv, TypeOK, MirrorTypeOK, SvcStates
<1>3. IsReport'
    BY <1>0 DEF IsReport
<1>4. (TotalFrames \in Nat \ {0})'
  <2>1. CASE body' = <<>>
    BY <2>1 DEF TotalFrames
  <2>2. CASE body' # <<>>
    <3>1. Len(body') \in Nat \ {0}
      BY <1>1, <2>2, EmptySeq
    <3>2. TotalFrames' = (Len(body') + IdsPerFrame - 1) \div IdsPerFrame
      BY <1>3, <2>2 DEF TotalFrames
    <3> QED BY <3>1, <3>2, CeilDiv, ReportLimits
  <2> QED BY <2>1, <2>2
<1>5. ServiceInv'
    BY <1>0, <1>1, <1>3, <1>4 DEF ServiceInv
<1> QED BY <1>0, <1>2, <1>5 DEF IndInv, TypeOK, BaseTypeOK

\* The reading of a file.
LEMMA ReadStep ==
    ASSUME IndInv, CountSize \/ ReadContents
    PROVE  MirrorTypeOK' /\ ServiceInv' /\ toMirror' \in Seq(Request) /\ toAgent' \in Seq(Frame)
<1> DEFINE f == request.file
<1>0. /\ svc \in {"count", "read"} /\ ~ IsReport /\ sent = 0 /\ body = <<>> /\ request \in Request
      /\ UNCHANGED <<ver, len, mtime, request, t1, unscanned, sent, toMirror, toAgent>>
    BY DEF IndInv, TypeOK, MirrorTypeOK, ServiceInv, CountSize, ReadContents, fileVars, netVars
<1>1. f \in Files /\ f \in Item
    BY <1>0, MarksAreItems DEF Request, IsReport
<1>2. /\ body' \in Seq(Item) /\ size' \in Nat
      /\ svc' = "read" => body' = <<>>
      /\ body' # <<>> => Len(body') >= 2
  <2>1. CASE CountSize
    BY <1>0, <1>1, <2>1, EmptySeq DEF IndInv, TypeOK, MirrorTypeOK, CountSize, Counted
  <2>2. CASE ReadContents /\ body' = <<>>
    BY <2>2, EmptySeq DEF IndInv, TypeOK, MirrorTypeOK, ReadContents
  <2>3. CASE ReadContents /\ body' # <<>>
    <3> DEFINE content == Content(f, ver[f], len[f])
    <3>1. /\ body' = <<f>> \o SubSeq(content, 1, size)
          /\ size # 0 /\ size <= len[f] /\ len[f] \in Nat /\ ver[f] \in Nat /\ size \in Nat
          /\ svc' = "send" /\ size' = size
      BY <1>0, <1>1, <2>3 DEF IndInv, TypeOK, MirrorTypeOK, ReadContents
    <3>2. content \in [1..len[f] -> Item]
      BY <1>1, <3>1 DEF Content, Part, Item, Parts
    <3>3. content \in Seq(Item) /\ Len(content) = len[f]
      BY <3>1, <3>2
    <3>4. SubSeq(content, 1, size) \in Seq(Item) /\ Len(SubSeq(content, 1, size)) = size
      BY <3>1, <3>3, SubSeqOfSeq
    <3>5. <<f>> \in Seq(Item) /\ Len(<<f>>) = 1
      BY <1>1
    <3>6. body' \in Seq(Item) /\ Len(body') = 1 + size
      BY <3>1, <3>4, <3>5, ConcatProperties
    <3> QED BY <3>1, <3>6
  <2> QED BY <2>1, <2>2, <2>3
<1>3. svc' \in {"read", "send", "crashed"}
    BY DEF CountSize, ReadContents
<1>4. svc' = "crashed" => body' = <<>>
    BY <1>0 DEF CountSize, ReadContents
<1>5. MirrorTypeOK'
    BY <1>0, <1>2, <1>3 DEF IndInv, TypeOK, MirrorTypeOK, SvcStates
<1>6. ~ IsReport'
    BY <1>0 DEF IsReport
<1>7. (TotalFrames \in Nat \ {0})'
  <2>1. CASE body' = <<>>
    BY <2>1 DEF TotalFrames
  <2>2. CASE body' # <<>>
    <3>1. TotalFrames' = Len(body') - 1
      BY <1>6, <2>2 DEF TotalFrames
    <3> QED BY <1>2, <2>2, <3>1, LenProperties
  <2> QED BY <2>1, <2>2
<1>8. ServiceInv'
    BY <1>0, <1>2, <1>3, <1>6, <1>7 DEF ServiceInv
<1> QED BY <1>0, <1>5, <1>8 DEF IndInv, TypeOK, BaseTypeOK

\* The items of a frame of a response are items.
LEMMA FrameItemsType ==
    ASSUME IndInv, svc = "send"
    PROVE  FrameItems(sent + 1) \in Seq(Item)
<1> DEFINE k == sent + 1
<1>0. /\ body \in Seq(Item) /\ Len(body) \in Nat /\ sent \in Nat /\ sent < TotalFrames
      /\ ~ IsReport /\ body # <<>> => Len(body) >= 2
    BY LenProperties DEF IndInv, TypeOK, MirrorTypeOK, ServiceInv
<1>1. CASE body = <<>>
    BY <1>1, EmptySeq DEF FrameItems
<1>2. CASE body # <<>> /\ IsReport
  <2> DEFINE m == (k - 1) * IdsPerFrame + 1
             n == IF k * IdsPerFrame <= Len(body) THEN k * IdsPerFrame ELSE Len(body)
  <2>1. m \in Nat \ {0} /\ n \in Int /\ n <= Len(body)
    BY <1>0, ReportLimits
  <2>2. FrameItems(k) = SubSeq(body, m, n)
    BY <1>2 DEF FrameItems
  <2>3. body \in Seq(Item)
    BY <1>0
  <2> HIDE DEF m, n, k
  <2>4. SubSeq(body, m, n) \in Seq(Item)
    BY <2>1, <2>3, SubSeqOfSeq
  <2> QED BY <2>2, <2>4 DEF k
<1>3. CASE body # <<>> /\ ~ IsReport
  <2>1. TotalFrames = Len(body) - 1
    BY <1>3 DEF TotalFrames
  <2>2. k + 1 <= Len(body) /\ 2 <= Len(body)
    BY <1>0, <1>3, <2>1
  <2>3. FrameItems(k) = IF k = 1 THEN SubSeq(body, 1, 2) ELSE SubSeq(body, k + 1, k + 1)
    BY <1>3 DEF FrameItems
  <2>4. SubSeq(body, 1, 2) \in Seq(Item)
    BY <1>0, <2>2, SubSeqOfSeq
  <2>5. SubSeq(body, k + 1, k + 1) \in Seq(Item)
    BY <1>0, <2>2, SubSeqOfSeq
  <2> QED BY <2>3, <2>4, <2>5
<1> QED BY <1>1, <1>2, <1>3

LEMMA ResponseFrameType ==
    ASSUME IndInv, svc = "send"
    PROVE  ResponseFrame(sent + 1) \in Frame /\ TotalFrames \in Nat \ {0}
<1> DEFINE k == sent + 1
<1>0. /\ body \in Seq(Item) /\ Len(body) \in Nat /\ sent \in Nat /\ sent < TotalFrames
      /\ ~ IsReport /\ body # <<>> => Len(body) >= 2
    BY LenProperties DEF IndInv, TypeOK, MirrorTypeOK, ServiceInv
<1>1. TotalFrames \in Nat \ {0}
    BY <1>0, FramesOfResponse
<1>2. FrameItems(k) \in Seq(Item)
    BY FrameItemsType
<1>3. (IF k = TotalFrames THEN <<EndMark>> ELSE <<>>) \in Seq(Item)
    BY MarksAreItems
<1>4. ResponseStatus \in Status
    BY DEF ResponseStatus, Status
<1> QED BY <1>1, <1>2, <1>3, <1>4, ConcatProperties DEF ResponseFrame, Frame

LEMMA SendStep ==
    ASSUME IndInv, SendResponse
    PROVE  MirrorTypeOK' /\ ServiceInv' /\ toMirror' \in Seq(Request) /\ toAgent' \in Seq(Frame)
<1>0. svc = "send" /\ sent \in Nat /\ toMirror \in Seq(Request) /\ toAgent \in Seq(Frame)
    BY DEF IndInv, TypeOK, BaseTypeOK, MirrorTypeOK, SendResponse
<1>1. ResponseFrame(sent + 1) \in Frame /\ TotalFrames \in Nat \ {0}
    BY <1>0, ResponseFrameType
<1>2. toMirror' \in Seq(Request) /\ toAgent' \in Seq(Frame)
    BY <1>0, <1>1, AppendProperties DEF SendResponse, Deliver
<1>3. CASE sent + 1 < TotalFrames
  <2>1. sent' = sent + 1 /\ UNCHANGED <<ver, len, mtime, svc, request, t1, unscanned, size, body>>
    BY <1>3 DEF SendResponse, fileVars
  <2>2. TotalFrames' = TotalFrames /\ IsReport' = IsReport
    BY <2>1 DEF TotalFrames, IsReport
  <2>3. MirrorTypeOK'
    BY <1>0, <2>1 DEF IndInv, TypeOK, MirrorTypeOK
  <2>4. ServiceInv'
    BY <1>0, <1>3, <2>1, <2>2 DEF IndInv, ServiceInv
  <2> QED BY <1>2, <2>3, <2>4
<1>4. CASE ~ (sent + 1 < TotalFrames)
  <2>1. /\ svc' = "wait_start" /\ request' = NoRequest /\ t1' = 0 /\ unscanned' = {}
        /\ size' = 0 /\ body' = <<>> /\ sent' = 0
        /\ UNCHANGED <<ver, len, mtime>>
    BY <1>4 DEF SendResponse, fileVars
  <2>2. MirrorTypeOK'
    BY <2>1, EmptySeq DEF IndInv, TypeOK, MirrorTypeOK, SvcStates
  <2>3. ServiceInv'
    BY <2>1 DEF ServiceInv
  <2> QED BY <1>2, <2>2, <2>3
<1> QED BY <1>3, <1>4

LEMMA ServiceNextStep ==
    ASSUME IndInv, ServiceNext
    PROVE  IndInv'
BY ListenStep, ScanStep, ReadStep, SendStep, ServiceFrame DEF ServiceNext, ServiceStep

-----------------------------------------------------------------------------
(* The agent. *)

\* A step of the agent keeps what it may not touch.
LEMMA AgentFrame ==
    ASSUME IndInv, AgentStart \/ AgentRun \/ AgentBreaks, BaseTypeOK', AgentTypeOK', AgentInv'
    PROVE  IndInv'
<1>1. UNCHANGED fileVars /\ UNCHANGED svcVars
    BY DEF AgentStart, AgentRun, AgentBreaks
<1>2. MirrorTypeOK' /\ ServiceInv'
    BY <1>1, ServiceUnchanged DEF IndInv, TypeOK
<1>3. began' \in Nat
    BY DEF IndInv, TypeOK, BaseTypeOK, AgentStart, AgentRun, AgentBreaks, histVars
<1>4. held' \in [Files -> Nat]
  <2>1. CASE AgentRun
    <3>1. \A f \in Files : HeldVersion(data'[f], held[f]) \in Nat
      BY DEF HeldVersion, IndInv, TypeOK, Parts
    <3> QED BY <2>1, <3>1 DEF AgentRun
  <2>2. CASE AgentStart \/ AgentBreaks
    BY <2>2 DEF AgentStart, AgentBreaks, histVars, IndInv, TypeOK
  <2> QED BY <2>1, <2>2
<1> QED BY <1>2, <1>3, <1>4 DEF IndInv, TypeOK

LEMMA NothingReceivedType == NothingReceived \in Responses
BY EmptySeq DEF NothingReceived, Responses

LEMMA StartStep ==
    ASSUME IndInv, AgentMain
    PROVE  BaseTypeOK' /\ AgentTypeOK' /\ AgentInv'
<1>0. /\ ptime \in [Files -> Nat] /\ port \in Nat /\ MaxRuns \in Nat /\ toMirror \in Seq(Request)
    BY RunBounds DEF IndInv, TypeOK, BaseTypeOK, AgentTypeOK
<1>1. port' \in Nat /\ sock' = port'
    BY <1>0 DEF AgentMain
<1>2. PICK t \in {0} \cup {ptime[f] : f \in Files} :
         toMirror' = Append(toMirror, ReportRequest(port', t))
    BY DEF AgentMain
<1>3. t \in Nat
    BY <1>0, <1>2
<1>4. ReportRequest(port', t) \in Request
    BY <1>1, <1>3 DEF ReportRequest, Request
<1>5. toMirror' \in Seq(Request)
    BY <1>0, <1>2, <1>4, AppendProperties
<1>6. BaseTypeOK'
    BY <1>1, <1>5, EmptySeq DEF IndInv, TypeOK, BaseTypeOK, AgentMain
<1>7. AgentTypeOK' /\ AgentInv'
    BY <1>1, EmptySeq
       DEF IndInv, TypeOK, AgentTypeOK, AgentInv, AgentMain, AgentStates, Outcomes
<1> QED BY <1>6, <1>7

\* What the exit of the process leaves behind.
LEMMA ExitType ==
    ASSUME IndInv, NEW how \in Outcomes, Exit(how)
    PROVE  /\ apc' = "idle" /\ outcome' \in Outcomes /\ sock' \in Nat
           /\ toAgent' \in Seq(Frame) /\ recv' \in Responses /\ pending' \in Seq(Item)
BY EmptySeq, NothingReceivedType DEF Exit

LEMMA GiveUpType ==
    ASSUME IndInv, NEW queue \in Seq(Frame), GiveUp(queue)
    PROVE  /\ apc' \in {"idle", "call"} /\ outcome' \in Outcomes /\ sock' \in Nat
           /\ toAgent' \in Seq(Frame) /\ recv' \in Responses /\ pending' \in Seq(Item)
<1>1. CASE cur = 0
    BY <1>1, ExitType DEF GiveUp, Outcomes
<1>2. CASE cur # 0
    BY <1>2, NothingReceivedType DEF GiveUp, IndInv, TypeOK, BaseTypeOK, AgentTypeOK
<1> QED BY <1>1, <1>2

LEMMA OneMoreFrame ==
    ASSUME NEW r \in Responses, NEW b \in Seq(Item)
    PROVE  [status |-> r.status, frames |-> r.frames, got |-> r.got + 1, body |-> b]
             \in Responses
BY DEF Responses

LEMMA ReceiveStep ==
    ASSUME IndInv, ReceiveFirst \/ ReceiveMore \/ TimeOut
    PROVE  BaseTypeOK' /\ AgentTypeOK' /\ AgentInv'
<1>0. /\ toAgent \in Seq(Frame) /\ recv \in Responses
      /\ UNCHANGED <<now, toMirror, faults, port, files_id, cur, data, ptime>>
    BY DEF IndInv, TypeOK, BaseTypeOK, AgentTypeOK, ReceiveFirst, ReceiveMore, TimeOut
<1>1. /\ apc' \in AgentStates \ {"write", "close"} /\ outcome' \in Outcomes /\ sock' \in Nat
      /\ toAgent' \in Seq(Frame) /\ recv' \in Responses /\ pending' \in Seq(Item)
  <2>1. CASE TimeOut
    BY <1>0, <2>1, GiveUpType DEF TimeOut, AgentStates
  <2>2. CASE ReceiveFirst /\ ~ ValidHeader(Head(toAgent))
    BY <1>0, <2>2, GiveUpType, HeadTailProperties DEF ReceiveFirst, AgentStates
  <2>3. CASE ReceiveFirst /\ ValidHeader(Head(toAgent))
    <3>1. Head(toAgent) \in Frame /\ toAgent' \in Seq(Frame)
      BY <1>0, <2>3, HeadTailProperties DEF ReceiveFirst
    <3>2. recv' \in Responses /\ apc' \in {"received", "wait_more"}
      BY <2>3, <3>1 DEF ReceiveFirst, Frame, Responses
    <3> QED BY <2>3, <3>1, <3>2
            DEF ReceiveFirst, AgentStates, IndInv, TypeOK, BaseTypeOK, AgentTypeOK
  <2>4. CASE ReceiveMore
    <3>1. Head(toAgent) \in Frame /\ toAgent' \in Seq(Frame)
      BY <1>0, <2>4, HeadTailProperties DEF ReceiveMore
    <3>2. Raw(Head(toAgent)) \in Seq(Item)
      <4>1. Head(toAgent).body \in Seq(Item)
        BY <3>1 DEF Frame
      <4>2. <<Header>> \in Seq(Item) /\ <<>> \in Seq(Item)
        BY MarksAreItems, EmptySeq
      <4> QED BY <4>1, <4>2, ConcatProperties DEF Raw
    <3>3. recv.body \o Raw(Head(toAgent)) \in Seq(Item)
      BY <1>0, <3>2, ConcatProperties DEF Responses
    <3>4. recv' = [status |-> recv.status, frames |-> recv.frames,
                   got |-> recv.got + 1, body |-> recv.body \o Raw(Head(toAgent))]
      BY <2>4 DEF ReceiveMore
    <3>5. recv' \in Responses
      BY <1>0, <3>3, <3>4, OneMoreFrame
    <3>6. apc' \in {"received", "wait_more"}
      BY <2>4 DEF ReceiveMore
    <3> QED BY <2>4, <3>1, <3>5, <3>6
            DEF ReceiveMore, AgentStates, IndInv, TypeOK, BaseTypeOK, AgentTypeOK
  <2> QED BY <2>1, <2>2, <2>3, <2>4
<1> QED BY <1>0, <1>1 DEF IndInv, TypeOK, BaseTypeOK, AgentTypeOK, AgentInv

\* The body of an accepted response without its end bytes.
LEMMA InnerBodyType ==
    ASSUME NEW r \in Responses, ClosedBody(r)
    PROVE  /\ InnerBody(r) \in Seq(Item) /\ InnerBody(r) # <<>>
           /\ Len(InnerBody(r)) = Len(r.body) - 1
           /\ \A i \in 1..(Len(r.body) - 1) : InnerBody(r)[i] = r.body[i]
<1>1. r.body \in Seq(Item) /\ Len(r.body) \in Nat /\ Len(r.body) > 1
    BY LenProperties DEF Responses, ClosedBody
<1>2. /\ InnerBody(r) \in Seq(Item) /\ Len(InnerBody(r)) = Len(r.body) - 1
      /\ \A i \in 1..(Len(r.body) - 1) : InnerBody(r)[i] = r.body[i]
    BY <1>1, SubSeqOfSeq DEF InnerBody
<1> QED BY <1>1, <1>2, EmptySeq

LEMMA ReportStep ==
    ASSUME IndInv, ProcessReport
    PROVE  BaseTypeOK' /\ AgentTypeOK' /\ AgentInv'
<1>0. recv \in Responses /\ cur = 0
      /\ UNCHANGED <<now, toMirror, faults, port, cur, data, ptime>>
    BY DEF IndInv, TypeOK, AgentTypeOK, ProcessReport
<1>1. CASE ReportAccepted(recv)
  <2>1. /\ files_id' = InnerBody(recv) /\ apc' = "call" /\ recv' = NothingReceived
        /\ UNCHANGED <<sock, toAgent, pending, outcome>>
    BY <1>1 DEF ProcessReport
  <2>2. InnerBody(recv) \in Seq(Files)
    <3>1. /\ InnerBody(recv) \in Seq(Item) /\ Len(InnerBody(recv)) = Len(recv.body) - 1
          /\ \A i \in 1..(Len(recv.body) - 1) : InnerBody(recv)[i] = recv.body[i]
      BY <1>0, <1>1, InnerBodyType DEF ReportAccepted
    <3>2. \A i \in DOMAIN InnerBody(recv) : InnerBody(recv)[i] \in Files
      BY <1>1, <3>1, LenProperties DEF ReportAccepted
    <3>3. \A i \in 1..Len(InnerBody(recv)) : InnerBody(recv)[i] \in Files
      BY <3>1, <3>2, LenProperties
    <3>4. SubSeq(InnerBody(recv), 1, Len(InnerBody(recv))) \in Seq(Files)
      BY <3>1, <3>3, SubSeqProperties, LenProperties
    <3> QED BY <3>1, <3>4, SubSeqFull
  <2>3. cur' \in 0..Len(files_id')
    BY <1>0, <2>1, <2>2, LenProperties
  <2> QED BY <1>0, <2>1, <2>2, <2>3, NothingReceivedType
          DEF IndInv, TypeOK, BaseTypeOK, AgentTypeOK, AgentInv, AgentStates
<1>2. CASE ~ ReportAccepted(recv)
  <2>1. UNCHANGED files_id
    BY <1>2 DEF ProcessReport
  <2>2. \E how \in Outcomes : Exit(how)
    BY <1>2 DEF ProcessReport, Outcomes
  <2> QED BY <1>0, <2>1, <2>2, ExitType
          DEF IndInv, TypeOK, BaseTypeOK, AgentTypeOK, AgentInv, AgentStates
<1> QED BY <1>1, <1>2

LEMMA CallStep ==
    ASSUME IndInv, CallGetPage \/ AgentEnd
    PROVE  BaseTypeOK' /\ AgentTypeOK' /\ AgentInv'
<1>0. /\ files_id \in Seq(Files) /\ Len(files_id) \in Nat /\ cur \in 0..Len(files_id)
      /\ port \in Nat /\ toMirror \in Seq(Request)
    BY LenProperties DEF IndInv, TypeOK, BaseTypeOK, AgentTypeOK
<1>1. CASE CallGetPage
  <2>1. cur' \in 1..Len(files_id)
    BY <1>0, <1>1 DEF CallGetPage
  <2>2. files_id[cur'] \in Files
    BY <1>0, <2>1, ElementOfSeq
  <2>3. PageRequest(port, files_id[cur']) \in Request
    BY <1>0, <2>2 DEF PageRequest, Request
  <2>4. toMirror' \in Seq(Request)
    BY <1>0, <1>1, <2>3, AppendProperties DEF CallGetPage
  <2>5. cur' \in 0..Len(files_id') /\ apc' = "wait_first"
    BY <1>0, <1>1, <2>1 DEF CallGetPage
  <2>6. UNCHANGED <<now, sock, toAgent, faults, port, files_id, recv, pending, data, ptime, outcome>>
    BY <1>1 DEF CallGetPage
  <2> QED BY <2>4, <2>5, <2>6
          DEF IndInv, TypeOK, BaseTypeOK, AgentTypeOK, AgentInv, AgentStates
<1>2. CASE AgentEnd
  <2>1. Exit("ended") /\ "ended" \in Outcomes
    BY <1>2 DEF AgentEnd, Outcomes
  <2> QED BY <1>2, <2>1, ExitType
          DEF AgentEnd, IndInv, TypeOK, BaseTypeOK, AgentTypeOK, AgentInv, AgentStates
<1> QED BY <1>1, <1>2

LEMMA PageStep ==
    ASSUME IndInv, ProcessPage
    PROVE  BaseTypeOK' /\ AgentTypeOK' /\ AgentInv'
<1> DEFINE f == files_id[cur]
<1>0. /\ recv \in Responses /\ cur # 0 /\ now \in Nat
      /\ data \in [Files -> Seq(Item)] /\ ptime \in [Files -> Nat] /\ pending \in Seq(Item)
      /\ recv' = NothingReceived
      /\ UNCHANGED <<now, sock, toMirror, toAgent, faults, port, files_id, cur, outcome>>
    BY DEF IndInv, TypeOK, BaseTypeOK, AgentTypeOK, ProcessPage, netVars
<1>1. /\ data' \in [Files -> Seq(Item)] /\ ptime' \in [Files -> Nat]
      /\ pending' \in Seq(Item) /\ apc' \in {"write", "call"}
  <2>1. CASE PageAccepted(recv, f) /\ f \in Creatable
    <3>1. data' = [data EXCEPT ![f] = <<>>] /\ ptime' = [ptime EXCEPT ![f] = now]
      BY <2>1 DEF ProcessPage, Opened
    <3>2. pending' = Tail(InnerBody(recv)) /\ apc' = "write"
      BY <2>1 DEF ProcessPage
    <3>3. Tail(InnerBody(recv)) \in Seq(Item)
      BY <1>0, <2>1, InnerBodyType, HeadTailProperties DEF PageAccepted
    <3> QED BY <1>0, <3>1, <3>2, <3>3, EmptySeq
  <2>2. CASE ~ (PageAccepted(recv, f) /\ f \in Creatable)
    BY <1>0, <2>2 DEF ProcessPage
  <2> QED BY <2>1, <2>2
<1> QED BY <1>0, <1>1, NothingReceivedType
        DEF IndInv, TypeOK, BaseTypeOK, AgentTypeOK, AgentInv, AgentStates

LEMMA WriteStep ==
    ASSUME IndInv, WriteFile \/ Buffered \/ WriteDone
    PROVE  BaseTypeOK' /\ AgentTypeOK' /\ AgentInv'
<1>0. /\ pending \in Seq(Item) /\ data \in [Files -> Seq(Item)] /\ now \in Nat
      /\ ptime \in [Files -> Nat]
      /\ UNCHANGED <<now, sock, toMirror, toAgent, faults, port, files_id, cur, recv, outcome>>
    BY DEF IndInv, TypeOK, BaseTypeOK, AgentTypeOK, WriteFile, Buffered, WriteDone, netVars
<1>1. CASE WriteFile
  <2>1. Head(pending) \in Item /\ pending' \in Seq(Item)
    BY <1>0, <1>1, HeadTailProperties DEF WriteFile
  <2>2. \A g \in Files : Append(data[g], Head(pending)) \in Seq(Item)
    BY <1>0, <2>1, AppendProperties
  <2>3. data' \in [Files -> Seq(Item)] /\ ptime' \in [Files -> Nat]
    BY <1>0, <1>1, <2>2 DEF WriteFile
  <2> QED BY <1>0, <1>1, <2>1, <2>3
          DEF WriteFile, IndInv, TypeOK, BaseTypeOK, AgentTypeOK, AgentInv
<1>2. CASE Buffered \/ WriteDone
  <2>1. apc \in {"write", "close"} /\ apc' \in {"close", "call"} /\ pending' = pending
        /\ UNCHANGED <<data, ptime>>
    BY <1>2 DEF Buffered, WriteDone
  <2> QED BY <1>0, <2>1 DEF IndInv, TypeOK, BaseTypeOK, AgentTypeOK, AgentInv, AgentStates
<1> QED BY <1>1, <1>2

LEMMA BreakStep ==
    ASSUME IndInv, WriteFails \/ CloseFails \/ Kill
    PROVE  BaseTypeOK' /\ AgentTypeOK' /\ AgentInv'
<1>0. faults' \in [FaultKind -> Nat]
    BY DEF IndInv, TypeOK, BaseTypeOK, WriteFails, CloseFails, Kill, Spend
<1>1. CASE WriteFails \/ CloseFails
  <2>1. /\ pending' \in Seq(Item) /\ apc' = "call"
        /\ UNCHANGED <<now, sock, toMirror, toAgent, port, files_id, cur, recv, data, ptime,
                       outcome>>
    BY <1>1, EmptySeq DEF WriteFails, CloseFails
  <2> QED BY <1>0, <2>1 DEF IndInv, TypeOK, BaseTypeOK, AgentTypeOK, AgentInv, AgentStates
<1>2. CASE Kill
  <2>1. Exit("killed") /\ "killed" \in Outcomes
    BY <1>2 DEF Kill, Outcomes
  <2> QED BY <1>0, <1>2, <2>1, ExitType
          DEF Kill, IndInv, TypeOK, BaseTypeOK, AgentTypeOK, AgentInv, AgentStates
<1> QED BY <1>1, <1>2

LEMMA AgentStep ==
    ASSUME IndInv, AgentStart \/ AgentRun \/ AgentBreaks
    PROVE  IndInv'
<1>1. CASE AgentStart
    BY <1>1, StartStep, AgentFrame DEF AgentStart
<1>2. CASE AgentRun
    BY <1>2, ReceiveStep, ReportStep, CallStep, PageStep, WriteStep, AgentFrame DEF AgentRun
<1>3. CASE AgentBreaks
    BY <1>3, BreakStep, AgentFrame DEF AgentBreaks
<1> QED BY <1>1, <1>2, <1>3

-----------------------------------------------------------------------------
LEMMA StutterStep ==
    ASSUME IndInv, UNCHANGED vars
    PROVE  IndInv'
<1>1. MirrorTypeOK' /\ ServiceInv' /\ AgentTypeOK' /\ AgentInv'
    BY ServiceUnchanged, AgentUnchanged DEF IndInv, TypeOK, vars
<1>2. BaseTypeOK' /\ began' \in Nat /\ held' \in [Files -> Nat]
    BY DEF IndInv, TypeOK, BaseTypeOK, vars, netVars, histVars
<1> QED BY <1>1, <1>2 DEF IndInv, TypeOK

\* The invariant of the two programs is inductive: every step of either of them,
\* of the network, of the RAIDA server and of the clock keeps it.
THEOREM InductiveInvariant == Spec => []IndInv
<1>1. IndInv /\ [Next]_vars => IndInv'
    BY TickStep, MirrorChangeStep, ServiceNextStep, AgentStep, NetworkStep, StutterStep
       DEF Next
<1> QED BY InitialState, <1>1, PTL DEF Spec

\* Type correctness of every variable of the programs, the network and the files.
THEOREM TypeCorrect == Spec => []TypeOK
<1>1. IndInv => TypeOK
    BY DEF IndInv
<1> QED BY InductiveInvariant, <1>1, PTL

HIDE DEF FaultKind

-----------------------------------------------------------------------------
(* What is left of a queue when some of it is received or lost. *)

\* t is s without some of its elements; h says where the others were.
Embeds(t, s, h) ==
    /\ h \in [DOMAIN t -> DOMAIN s]
    /\ \A j \in DOMAIN t : t[j] = s[h[j]]
    /\ \A i, j \in DOMAIN t : i < j => h[i] < h[j]

Thin(t, s) == \E h : Embeds(t, s, h)

LEMMA ThinSelf ==
    ASSUME NEW S, NEW s \in Seq(S)
    PROVE  Thin(s, s)
<1>1. DOMAIN s \subseteq Int
    BY LenProperties
<1>2. Embeds(s, s, [j \in DOMAIN s |-> j])
    BY <1>1 DEF Embeds
<1> QED BY <1>2 DEF Thin

LEMMA ThinTail ==
    ASSUME NEW S, NEW s \in Seq(S), s # <<>>
    PROVE  /\ Thin(Tail(s), s)
           /\ Len(Tail(s)) = Len(s) - 1
           /\ \A j \in DOMAIN Tail(s) : j \in Nat /\ j + 1 \in DOMAIN s /\ Tail(s)[j] = s[j + 1]
<1>1. /\ Len(s) \in Nat \ {0} /\ DOMAIN s = 1..Len(s)
      /\ Tail(s) \in Seq(S) /\ Len(Tail(s)) = Len(s) - 1
      /\ \A j \in 1..(Len(s) - 1) : Tail(s)[j] = s[j + 1]
    BY HeadTailProperties, LenProperties, EmptySeq
<1>2. DOMAIN Tail(s) = 1..(Len(s) - 1)
    BY <1>1, LenProperties
<1>3. \A j \in DOMAIN Tail(s) : j \in Nat /\ j + 1 \in DOMAIN s /\ Tail(s)[j] = s[j + 1]
    BY <1>1, <1>2
<1>4. Embeds(Tail(s), s, [j \in DOMAIN Tail(s) |-> j + 1])
    BY <1>3 DEF Embeds
<1> QED BY <1>1, <1>3, <1>4 DEF Thin

\* t is s without its i-th element.
Without(t, s, i) ==
    /\ Len(t) = Len(s) - 1 /\ DOMAIN t = 1..(Len(s) - 1)
    /\ \A j \in DOMAIN t : /\ t[j] = IF j < i THEN s[j] ELSE s[j + 1]
                          /\ j \in DOMAIN s /\ j + 1 \in DOMAIN s

LEMMA RemovedAt ==
    ASSUME NEW S, NEW s \in Seq(S), NEW i \in DOMAIN s
    PROVE  Without(RemoveAt(s, i), s, i)
<1> DEFINE a == SubSeq(s, 1, i - 1)
           b == SubSeq(s, i + 1, Len(s))
           t == RemoveAt(s, i)
<1>0. DOMAIN s = 1..Len(s) /\ Len(s) \in Nat
    BY LenProperties
<1>1. a \in Seq(S) /\ Len(a) = i - 1 /\ \A j \in 1..(i - 1) : a[j] = s[j]
    BY <1>0, SubSeqOfSeq
<1>2. b \in Seq(S) /\ Len(b) = Len(s) - i /\ \A j \in 1..(Len(s) - i) : b[j] = s[j + i]
  <2>1. /\ b \in Seq(S) /\ Len(b) = IF i + 1 <= Len(s) THEN Len(s) - (i + 1) + 1 ELSE 0
        /\ \A j \in 1..(Len(s) - (i + 1) + 1) : b[j] = s[(i + 1) + j - 1]
    BY <1>0, SubSeqOfSeq
  <2> QED BY <1>0, <2>1
<1>3. t = a \o b
    BY DEF RemoveAt
<1>4. /\ t \in Seq(S) /\ Len(t) = Len(s) - 1
      /\ \A j \in 1..Len(t) : t[j] = IF j < i THEN s[j] ELSE s[j + 1]
  <2> HIDE DEF a, b, t
  <2>1. /\ t \in Seq(S) /\ Len(t) = Len(a) + Len(b)
        /\ \A j \in 1..(Len(a) + Len(b)) : t[j] = IF j <= Len(a) THEN a[j] ELSE b[j - Len(a)]
    BY <1>1, <1>2, <1>3, ConcatProperties
  <2>2. i \in 1..Len(s) /\ Len(t) = Len(s) - 1
    BY <1>0, <1>1, <1>2, <2>1
  <2>3. ASSUME NEW j \in 1..Len(t), j < i PROVE t[j] = s[j]
    BY <1>0, <1>1, <1>2, <2>1, <2>2, <2>3
  <2>4. ASSUME NEW j \in 1..Len(t), ~ (j < i) PROVE t[j] = s[j + 1]
    <3>1. t[j] = b[j - (i - 1)] /\ j - (i - 1) \in 1..(Len(s) - i)
      BY <1>0, <1>1, <1>2, <2>1, <2>2, <2>4
    <3>2. b[j - (i - 1)] = s[j - (i - 1) + i]
      BY <1>2, <3>1
    <3>3. j - (i - 1) + i = j + 1
      BY <1>0, <2>2
    <3> QED BY <3>1, <3>2, <3>3
  <2> QED BY <2>1, <2>2, <2>3, <2>4
<1>5. DOMAIN t = 1..(Len(s) - 1)
    BY <1>4, LenProperties
<1> HIDE DEF t
<1>6. \A j \in 1..(Len(s) - 1) : j \in DOMAIN s /\ j + 1 \in DOMAIN s
    BY <1>0
<1>7. Without(t, s, i)
    BY <1>4, <1>5, <1>6 DEF Without
<1> QED BY <1>7 DEF t

LEMMA ThinWithout ==
    ASSUME NEW S, NEW s \in Seq(S), NEW i \in DOMAIN s, NEW t, Without(t, s, i)
    PROVE  Thin(t, s)
<1>1. DOMAIN s = 1..Len(s) /\ Len(s) \in Nat
    BY LenProperties
<1>2. Embeds(t, s, [j \in DOMAIN t |-> IF j < i THEN j ELSE j + 1])
    BY <1>1 DEF Embeds, Without
<1> QED BY <1>2 DEF Thin

LEMMA ThinRemove ==
    ASSUME NEW S, NEW s \in Seq(S), NEW i \in DOMAIN s
    PROVE  Thin(RemoveAt(s, i), s)
BY RemovedAt, ThinWithout

\* What holds of all elements, or of all pairs of them, holds of fewer.
LEMMA ThinElement ==
    ASSUME NEW t, NEW s, Thin(t, s), NEW j \in DOMAIN t
    PROVE  \E i \in DOMAIN s : t[j] = s[i]
BY DEF Thin, Embeds

LEMMA ThinEmpty ==
    ASSUME NEW S, NEW t \in Seq(S), Thin(t, <<>>)
    PROVE  t = <<>>
<1>1. DOMAIN t = {}
    BY DEF Thin, Embeds
<1> QED BY <1>1, LenProperties, EmptySeq

-----------------------------------------------------------------------------
(* Facts about the state that several steps need. *)

LEMMA Types ==
    ASSUME IndInv
    PROVE  /\ toMirror \in Seq(Request) /\ toAgent \in Seq(Frame)
           /\ DOMAIN toMirror = 1..Len(toMirror) /\ Len(toMirror) \in Nat
           /\ DOMAIN toAgent = 1..Len(toAgent) /\ Len(toAgent) \in Nat
           /\ sock \in Nat /\ port \in Nat /\ faults \in [FaultKind -> Nat]
           /\ ver \in [Files -> Nat] /\ len \in [Files -> Nat] /\ mtime \in [Files -> Nat]
           /\ held \in [Files -> Nat] /\ data \in [Files -> Seq(Item)]
           /\ request \in Request \cup {NoRequest} /\ sent \in Nat
           /\ svc \in SvcStates /\ apc \in AgentStates
           /\ body \in Seq(Item) /\ DOMAIN body = 1..Len(body) /\ Len(body) \in Nat
           /\ files_id \in Seq(Files) /\ DOMAIN files_id = 1..Len(files_id)
           /\ Len(files_id) \in Nat /\ cur \in 0..Len(files_id)
           /\ recv \in Responses /\ pending \in Seq(Item)
           /\ Lengths \subseteq Nat
BY LenProperties, LengthsFit
   DEF IndInv, TypeOK, BaseTypeOK, MirrorTypeOK, AgentTypeOK

LEMMA TypesAfter ==
    ASSUME IndInv'
    PROVE  /\ toMirror' \in Seq(Request) /\ toAgent' \in Seq(Frame)
           /\ DOMAIN toMirror' = 1..Len(toMirror') /\ Len(toMirror') \in Nat
           /\ DOMAIN toAgent' = 1..Len(toAgent') /\ Len(toAgent') \in Nat
           /\ body' \in Seq(Item) /\ DOMAIN body' = 1..Len(body') /\ Len(body') \in Nat
           /\ recv' \in Responses /\ pending' \in Seq(Item)
           /\ held' \in [Files -> Nat] /\ data' \in [Files -> Seq(Item)]
BY LenProperties DEF IndInv, TypeOK, BaseTypeOK, MirrorTypeOK, AgentTypeOK

\* An element of a sequence is one.
LEMMA Elements ==
    ASSUME IndInv
    PROVE  /\ \A i \in DOMAIN toMirror : toMirror[i] \in Request
           /\ \A i \in DOMAIN toAgent : toAgent[i] \in Frame
           /\ cur > 0 => CurFile \in Files
<1>1. /\ toMirror \in Seq(Request) /\ toAgent \in Seq(Frame) /\ files_id \in Seq(Files)
      /\ DOMAIN toMirror = 1..Len(toMirror) /\ DOMAIN toAgent = 1..Len(toAgent)
      /\ cur \in 0..Len(files_id) /\ Len(files_id) \in Nat
    BY Types
<1>2. \A i \in 1..Len(toMirror) : toMirror[i] \in Request
    BY <1>1, ElementOfSeq
<1>3. \A i \in 1..Len(toAgent) : toAgent[i] \in Frame
    BY <1>1, ElementOfSeq
<1>4. cur > 0 => CurFile \in Files
    BY <1>1, ElementOfSeq DEF CurFile
<1> QED BY <1>1, <1>2, <1>3, <1>4

\* A request in progress has a port; the socket of a run is not port 0.
LEMMA BusyMeans ==
    ASSUME IndInv, RunInv, Running, Busy
    PROVE  svc # "wait_start" /\ request \in Request /\ sock = port /\ port > 0
<1>1. sock = port /\ port > 0
    BY DEF RunInv, Running
<1>2. svc # "wait_start"
    BY <1>1, Types DEF RunInv, Busy, NoRequest
<1> QED BY <1>1, <1>2 DEF IndInv, ServiceInv

LEMMA MixInitially ==
    ASSUME Init, Faults["dup"] = 0, Faults["swap"] = 0
    PROVE  MixInv
<1>0. /\ toMirror = <<>> /\ toAgent = <<>> /\ sock = 0 /\ faults = Faults /\ apc = "idle"
      /\ port = 0 /\ files_id = <<>> /\ cur = 0 /\ recv = NothingReceived
      /\ svc = "wait_start" /\ request = NoRequest /\ body = <<>>
      /\ data = [f \in Files |-> <<>>] /\ held = [f \in Files |-> 0]
    BY DEF Init, MirrorInit, AgentInit
<1>1. NoDisorder
    BY <1>0 DEF NoDisorder
<1>2. RunInv
    BY <1>0 DEF RunInv, Running, NothingReceived, NoHeader
<1>3. FilesInv
  <2>1. PICK present \in SUBSET Files :
           /\ mtime = [f \in Files |-> IF f \in present THEN 1 ELSE 0]
           /\ ver   = [f \in Files |-> IF f \in present THEN 1 ELSE 0]
           /\ \A f \in Files : IF f \in present THEN len[f] \in Lengths ELSE len[f] = 0
    BY DEF Init, MirrorInit
  <2> QED BY <1>0, <2>1 DEF FilesInv, Exists
<1>4. ScanInv /\ ServeInv /\ WriteInv
    BY <1>0 DEF ScanInv, ServeInv, WriteInv
<1>5. ReportInv /\ AskedInv /\ LastInv /\ QueueInv /\ ReceivedInv
    BY <1>0 DEF ReportInv, AskedInv, LastInv, QueueInv, ReceivedInv, Running, Paging
<1>6. ListInv /\ FileIntegrity
    BY <1>0 DEF ListInv, Distinct, FileIntegrity
<1> QED BY <1>1, <1>2, <1>3, <1>4, <1>5, <1>6 DEF MixInv

-----------------------------------------------------------------------------
(* The clock, the RAIDA server and the network. *)

\* The mirror's files grow older: what is under way stays what it was.
LEMMA FilesChange ==
    ASSUME IndInv, MixInv, UNCHANGED <<sock, netVars, svcVars, agentVars, held>>,
           ver' \in [Files -> Nat], \A f \in Files : ver[f] <= ver'[f], FilesInv'
    PROVE  MixInv'
<1>0. UNCHANGED <<sock, toMirror, toAgent, faults, svc, request, body, sent, unscanned,
                  apc, port, files_id, cur, recv, pending, data, held>>
    BY DEF netVars, svcVars, agentVars
<1>1. \A f \in Files : 1..ver[f] \subseteq 1..ver'[f]
    BY Types
<1>2. NoDisorder' /\ RunInv' /\ ListInv'
    BY <1>0 DEF MixInv, NoDisorder, RunInv, ListInv, Running
<1>3. ScanInv'
    BY <1>0 DEF MixInv, ScanInv, IsReport
<1>4. Busy' = Busy /\ OnTheWay' = OnTheWay /\ Running' = Running /\ Paging' = Paging
      /\ CurFile' = CurFile /\ Current' = Current /\ Asked' = Asked /\ IsReport' = IsReport
    BY <1>0 DEF Busy, OnTheWay, Running, Paging, CurFile, Current, Asked, IsReport
<1>5. ReportInv'
  <2>1. ReportFirst' = ReportFirst /\ ReportOnce' = ReportOnce /\ UnsentIsNew' = UnsentIsNew
    BY <1>0, <1>4 DEF ReportFirst, ReportOnce, UnsentIsNew, Unsent
  <2> QED BY <1>0, <1>4, <2>1 DEF MixInv, ReportInv
<1>6. AskedInv'
    BY <1>0, <1>4 DEF MixInv, AskedInv, ForAsked
<1>7. LastInv'
    BY <1>0, <1>4 DEF MixInv, LastInv
<1>8. ServeInv'
  <2> SUFFICES ASSUME svc = "send", ~ IsReport, body # <<>>
               PROVE  \E v \in 1..ver'[request.file], n \in Lengths :
                         /\ PageBody(body, request.file, v, n)
                         /\ Paging /\ request = Current => held[request.file] <= v
    BY <1>0, <1>4 DEF ServeInv
  <2>1. request.file \in Files
    BY DEF IndInv, ServiceInv, IsReport, Request
  <2> QED BY <1>1, <2>1 DEF MixInv, ServeInv
<1>9. ASSUME NEW i, NEW k, NEW v, NEW n, NEW m, cur > 0, Follows(i, k, v, n, m)
      PROVE  Follows(i, k, v, n, m)'
  <2>1. Served(CurFile, v, n, m)'
    BY <1>0, <1>1, <1>4, <1>9, Elements DEF Follows, Served
  <2>2. SendsOn(i, k, v, n, m)'
    BY <1>0, <1>4, <1>9 DEF Follows, SendsOn
  <2> QED BY <1>0, <1>4, <1>9, <2>1, <2>2 DEF Follows
<1>10. QueueInv'
    BY <1>0, <1>1, <1>4, <1>9, Elements DEF MixInv, QueueInv, Paging
<1>11. ReceivedInv'
    BY <1>0, <1>1, <1>4, <1>9, Elements DEF MixInv, ReceivedInv, Paging
<1>12. WriteInv'
  <2> SUFFICES ASSUME apc \in {"write", "close"} PROVE WriteInv'
    BY <1>0 DEF WriteInv
  <2>1. cur > 0
    BY Types DEF IndInv, AgentInv
  <2>2. \A v, n : Writes(CurFile, v, n)' = Writes(CurFile, v, n)
    BY <1>0, <1>4 DEF Writes
  <2> QED BY <1>0, <1>1, <1>4, <2>1, <2>2, Elements DEF MixInv, WriteInv
<1>13. FileIntegrity'
  <2>1. \A v, n : \A f \in Files : IsPrefixOf(f, v, n)' = IsPrefixOf(f, v, n)
    BY <1>0 DEF IsPrefixOf
  <2> QED BY <1>0, <1>1, <2>1 DEF MixInv, FileIntegrity
<1> QED BY <1>2, <1>3, <1>5, <1>6, <1>7, <1>8, <1>10, <1>11, <1>12, <1>13 DEF MixInv

LEMMA TickMix ==
    ASSUME IndInv, MixInv, Tick \/ UNCHANGED vars
    PROVE  MixInv'
<1>1. UNCHANGED <<sock, netVars, fileVars, svcVars, agentVars, histVars>>
    BY DEF Tick, vars
<1>2. ver' = ver /\ len' = len /\ mtime' = mtime /\ held' = held /\ data' = data
    BY <1>1 DEF fileVars, histVars, agentVars
<1>3. FilesInv'
    BY <1>2 DEF MixInv, FilesInv, Exists
<1> QED BY <1>1, <1>2, <1>3, FilesChange, Types

LEMMA MirrorChangeMix ==
    ASSUME IndInv, MixInv, MirrorChange
    PROVE  MixInv'
<1>0. /\ ver \in [Files -> Nat] /\ len \in [Files -> Nat] /\ mtime \in [Files -> Nat]
      /\ held \in [Files -> Nat] /\ data' = data /\ held' = held
    BY Types DEF MirrorChange, agentVars, histVars
<1>1. /\ ver' \in [Files -> Nat] /\ \A f \in Files : ver[f] <= ver'[f]
      /\ \A f \in Files : mtime'[f] > 0 => ver'[f] > 0 /\ len'[f] \in Lengths
  <2>0. \A f \in Files : mtime[f] > 0 => ver[f] > 0 /\ len[f] \in Lengths
    BY DEF MixInv, FilesInv, Exists
  <2>1. ASSUME NEW g \in Files, MirrorRemove(g)
        PROVE  /\ ver' \in [Files -> Nat] /\ \A f \in Files : ver[f] <= ver'[f]
               /\ \A f \in Files : mtime'[f] > 0 => ver'[f] > 0 /\ len'[f] \in Lengths
    BY <1>0, <2>0, <2>1 DEF MirrorRemove
  <2>2. ASSUME NEW g \in Files, NEW n \in Lengths, MirrorWrite(g, n)
        PROVE  /\ ver' \in [Files -> Nat] /\ \A f \in Files : ver[f] <= ver'[f]
               /\ \A f \in Files : mtime'[f] > 0 => ver'[f] > 0 /\ len'[f] \in Lengths
    BY <1>0, <2>0, <2>2 DEF MirrorWrite
  <2> QED BY <2>1, <2>2 DEF MirrorChange
<1>2. FilesInv'
  <2>1. \A f \in Files : held[f] <= ver[f] /\ (data[f] # <<>> => held[f] = data[f][1].ver)
    BY DEF MixInv, FilesInv
  <2>2. \A f \in Files : held[f] <= ver'[f]
    BY <1>0, <1>1, <2>1
  <2> QED BY <1>0, <1>1, <2>1, <2>2 DEF FilesInv, Exists
<1>3. UNCHANGED <<sock, netVars, svcVars, agentVars, held>>
    BY DEF MirrorChange, MirrorRemove, MirrorWrite, histVars
<1> QED BY <1>1, <1>2, <1>3, FilesChange

\* Frames that are left are in the order they were in.
LEMMA InOrderThin ==
    ASSUME NEW t, NEW s, NEW h, Embeds(t, s, h), NEW i, NEW i0,
           \A j \in DOMAIN t : j > i => h[j] > i0,
           NEW k, NEW f, NEW v, NEW n, NEW m, InOrder(s, i0, k, f, v, n, m)
    PROVE  InOrder(t, i, k, f, v, n, m)
<1>1. ASSUME NEW j \in DOMAIN t, j > i
      PROVE  MoreOf(t[j], f, v, n, m) /\ PartNo(t[j]) > k
  <2>1. h[j] \in DOMAIN s /\ h[j] > i0 /\ t[j] = s[h[j]]
    BY <1>1 DEF Embeds
  <2> QED BY <2>1 DEF InOrder
<1>2. ASSUME NEW a \in DOMAIN t, NEW j \in DOMAIN t, i < a, a < j
      PROVE  PartNo(t[a]) < PartNo(t[j])
  <2>1. h[a] \in DOMAIN s /\ h[a] > i0 /\ t[a] = s[h[a]]
    BY <1>2 DEF Embeds
  <2>2. h[j] \in DOMAIN s /\ h[a] < h[j] /\ t[j] = s[h[j]]
    BY <1>2 DEF Embeds
  <2> QED BY <2>1, <2>2 DEF InOrder
<1> QED BY <1>1, <1>2 DEF InOrder

\* The agent is where it was, or goes on without what it has received.
SameOrDropped ==
    \/ UNCHANGED <<apc, recv, pending>>
    \/ apc = "write" /\ apc' = "close" /\ UNCHANGED <<recv, pending>>
    \/ apc # "idle" /\ apc' = "call" /\ recv' = NothingReceived

\* Datagrams are lost or left aside: what is under way was so before.
LEMMA LessMix ==
    ASSUME IndInv, MixInv, IndInv', NoDisorder',
           UNCHANGED <<sock, port, files_id, cur, data, held, fileVars, svcVars>>,
           Thin(toMirror', toMirror), Thin(toAgent', toAgent), SameOrDropped
    PROVE  MixInv'
<1>0. UNCHANGED <<sock, ver, len, mtime, svc, request, body, sent, unscanned,
                  port, files_id, cur, data, held>>
    BY DEF fileVars, svcVars
<1>1. /\ Busy' = Busy /\ Running' = Running /\ Paging' = Paging /\ Asked' = Asked
      /\ CurFile' = CurFile /\ Current' = Current /\ IsReport' = IsReport /\ Unsent' = Unsent
      /\ recv' \in {recv, NothingReceived}
    BY <1>0 DEF SameOrDropped, Busy, Running, Paging, CurFile, Current, Asked, IsReport, Unsent
<1>2. PICK g : Embeds(toMirror', toMirror, g)
    BY DEF Thin
<1>3. PICK h : Embeds(toAgent', toAgent, h)
    BY DEF Thin
<1>4. \A i \in DOMAIN toMirror' : g[i] \in DOMAIN toMirror /\ toMirror'[i] = toMirror[g[i]]
    BY <1>2 DEF Embeds
<1>5. \A i \in DOMAIN toAgent' : h[i] \in DOMAIN toAgent /\ toAgent'[i] = toAgent[h[i]]
    BY <1>3 DEF Embeds
<1>6. DOMAIN toMirror' \subseteq Int /\ DOMAIN toAgent' \subseteq Int
    BY TypesAfter
<1>7. OnTheWay' => OnTheWay
    BY <1>0, <1>4 DEF OnTheWay
<1>8. toAgent = <<>> => toAgent' = <<>>
    BY TypesAfter, ThinEmpty
<1>9. RunInv'
  <2>1. UNCHANGED sock /\ \A i \in DOMAIN toMirror' : toMirror'[i].port \in 1..port
    BY <1>4 DEF MixInv, RunInv
  <2>2. CASE UNCHANGED <<apc, recv, pending>>
    BY <1>0, <1>1, <1>8, <2>1, <2>2 DEF MixInv, RunInv
  <2>3. CASE apc # "idle" /\ apc' = "call" /\ recv' = NothingReceived
    BY <1>0, <1>1, <2>1, <2>3 DEF MixInv, RunInv, NothingReceived, NoHeader
  <2>4. CASE apc = "write" /\ apc' = "close" /\ UNCHANGED <<recv, pending>>
    BY <1>0, <1>1, <2>1, <2>4 DEF MixInv, RunInv
  <2> QED BY <2>2, <2>3, <2>4 DEF SameOrDropped
<1>10. FilesInv' /\ ScanInv' /\ ListInv' /\ FileIntegrity'
    BY <1>0, <1>1 DEF MixInv, FilesInv, Exists, ScanInv, ListInv, FileIntegrity, IsPrefixOf
<1>11. ReportInv'
  <2> SUFFICES ASSUME Running, cur = 0 PROVE ReportFirst' /\ ReportOnce' /\ UnsentIsNew'
    BY <1>0, <1>1 DEF ReportInv
  <2>0. ReportFirst /\ ReportOnce /\ UnsentIsNew
    BY DEF MixInv, ReportInv
  <2>1. ReportFirst'
    <3>1. ASSUME NEW i \in DOMAIN toMirror', NEW j \in DOMAIN toMirror',
                 toMirror'[i].port = sock, toMirror'[j].port = sock
          PROVE  i = j
      <4>1. g[i] = g[j]
        BY <1>4, <2>0, <3>1 DEF ReportFirst
      <4>2. ~ (g[i] < g[j]) /\ ~ (g[j] < g[i])
        BY <1>4, <4>1, Types
      <4>3. ~ (i < j) /\ ~ (j < i)
        BY <1>2, <4>2 DEF Embeds
      <4> QED BY <4>3, <1>6
    <3> QED BY <1>0, <1>1, <1>7, <1>8, <2>0, <3>1 DEF ReportFirst
  <2>2. ReportOnce'
    <3>1. \A i, j \in DOMAIN toAgent' : i < j => h[i] < h[j]
      BY <1>3 DEF Embeds
    <3>2. /\ Distinct(NothingReceived.body)
          /\ \A x : Apart(NothingReceived.body, x)
      BY DEF Distinct, Apart, NothingReceived
    <3>3. Distinct(recv'.body) /\ \A i \in DOMAIN toAgent' : Apart(recv'.body, toAgent'[i].body)
      BY <1>1, <1>5, <2>0, <3>2 DEF ReportOnce
    <3> QED BY <1>0, <1>5, <2>0, <3>1, <3>3 DEF ReportOnce
  <2>3. UnsentIsNew'
    <3>1. \A x : Lacks(NothingReceived.body, x)
      BY DEF Lacks, NothingReceived
    <3> QED BY <1>0, <1>1, <1>5, <2>0, <3>1 DEF UnsentIsNew
  <2> QED BY <2>1, <2>2, <2>3
<1>12. AskedInv'
    BY <1>0, <1>1, <1>4, <1>5 DEF MixInv, AskedInv, ForAsked
<1>13. LastInv'
  <2>1. \A i, j \in DOMAIN toMirror' : i < j => g[i] < g[j]
    BY <1>2 DEF Embeds
  <2> QED BY <1>0, <1>1, <1>4, <1>7, <2>1 DEF MixInv, LastInv
<1>14. ServeInv'
    BY <1>0, <1>1 DEF MixInv, ServeInv
<1>15. ASSUME NEW i, NEW i0, NEW k, NEW v, NEW n, NEW m, Follows(i0, k, v, n, m),
              \A j \in DOMAIN toAgent' : j > i => h[j] > i0
       PROVE  Follows(i, k, v, n, m)'
  <2>1. Served(CurFile, v, n, m)' /\ ~ OnTheWay'
    BY <1>0, <1>1, <1>7, <1>15 DEF Follows, Served
  <2>2. InOrder(toAgent', i, k, CurFile, v, n, m)
    BY <1>3, <1>15, InOrderThin DEF Follows
  <2>3. SendsOn(i, k, v, n, m)'
    BY <1>0, <1>1, <1>5, <1>15 DEF Follows, SendsOn
  <2> QED BY <1>1, <2>1, <2>2, <2>3 DEF Follows
<1>16. QueueInv'
  <2> SUFFICES ASSUME Paging, NEW i \in DOMAIN toAgent',
                      IsPage(toAgent'[i]), toAgent'[i].body[1] = CurFile,
                      NEW m, m = toAgent'[i].frames
               PROVE  \E v \in 1..ver[CurFile], n \in Lengths :
                         FirstOf(toAgent'[i], CurFile, v, n, m) /\ Follows(i, 1, v, n, m)'
    BY <1>0, <1>1 DEF QueueInv
  <2>1. PICK v \in 1..ver[CurFile], n \in Lengths :
           FirstOf(toAgent[h[i]], CurFile, v, n, m) /\ Follows(h[i], 1, v, n, m)
    BY <1>5 DEF MixInv, QueueInv
  <2>2. \A j \in DOMAIN toAgent' : j > i => h[j] > h[i]
    BY <1>3, <1>5, <1>6, Types DEF Embeds
  <2>3. Follows(i, 1, v, n, m)'
    BY <1>15, <2>1, <2>2
  <2> QED BY <1>5, <2>1, <2>3
<1>17. ReceivedInv'
  <2>0. ~ IsPage(NothingReceived)
    BY DEF IsPage, NothingReceived, NoHeader
  <2> SUFFICES ASSUME Paging, recv' = recv, IsPage(recv), recv.body[1] = CurFile,
                      NEW m, m = recv.frames
               PROVE  ReceivedInv'
    BY <1>0, <1>1, <2>0 DEF ReceivedInv
  <2>1. PICK v \in 1..ver[CurFile], n \in Lengths, k \in {recv.got, recv.got + 1} :
           /\ k <= m
           /\ Follows(0, k, v, n, m)
           /\ k = recv.got => Exact(recv, CurFile, v, n, m)
    BY DEF MixInv, ReceivedInv
  <2>2. \A j \in DOMAIN toAgent' : j > 0 => h[j] > 0
    BY <1>5, Types
  <2>3. Follows(0, k, v, n, m)'
    BY <1>15, <2>1, <2>2
  <2> QED BY <1>0, <1>1, <2>1, <2>3 DEF MixInv, ReceivedInv
<1>18. WriteInv'
  <2> SUFFICES ASSUME apc \in {"write", "close"}, pending' = pending PROVE WriteInv'
    BY DEF SameOrDropped, WriteInv
  <2>1. \A v, n : Writes(CurFile, v, n)' = Writes(CurFile, v, n)
    BY <1>0, <1>1 DEF Writes
  <2> QED BY <1>0, <1>1, <1>7, <1>8, <2>1 DEF MixInv, WriteInv
<1> QED BY <1>9, <1>10, <1>11, <1>12, <1>13, <1>14, <1>16, <1>17, <1>18 DEF MixInv

LEMMA NetworkMix ==
    ASSUME IndInv, MixInv, IndInv', Network
    PROVE  MixInv'
<1>0. /\ UNCHANGED <<sock, port, files_id, cur, data, held, fileVars, svcVars>>
      /\ SameOrDropped
    BY DEF Network, histVars, agentVars, SameOrDropped
<1>1. faults \in [FaultKind -> Nat] /\ faults["dup"] = 0 /\ faults["swap"] = 0
    BY Types DEF MixInv, NoDisorder
<1>2. Lose
    BY <1>1 DEF Network, NetworkFault, Duplicate, Reorder, Spend
<1>3. NoDisorder'
  <2>1. \E kind \in {"loss", "head"} : faults' = [faults EXCEPT ![kind] = faults[kind] - 1]
    BY <1>2 DEF Lose, LossOf, Spend
  <2> QED BY <1>1, <2>1 DEF NoDisorder
<1>4. toMirror \in Seq(Request) /\ toAgent \in Seq(Frame)
    BY Types
<1>5. Thin(toMirror', toMirror) /\ Thin(toAgent', toAgent)
    BY <1>2, <1>4, ThinRemove, ThinSelf DEF Lose
<1> QED BY <1>0, <1>3, <1>5, LessMix

-----------------------------------------------------------------------------
(* The services of the mirror. *)

\* Unless `services` sends a response to the present run, nothing it does
\* concerns what is under way.
LEMMA PagesKept ==
    ASSUME IndInv, MixInv, ~ (Busy /\ svc = "send"),
           UNCHANGED <<sock, toAgent, faults, fileVars, agentVars, histVars>>,
           Running /\ ~ OnTheWay /\ ~ Busy => ~ OnTheWay' /\ ~ Busy'
    PROVE  /\ NoDisorder' /\ FilesInv' /\ ListInv' /\ FileIntegrity'
           /\ QueueInv' /\ ReceivedInv' /\ WriteInv'
<1>0. UNCHANGED <<sock, toAgent, faults, ver, len, mtime, apc, port, files_id, cur, recv,
                  pending, data, held>>
    BY DEF fileVars, agentVars, histVars
<1>1. Running' = Running /\ Paging' = Paging /\ CurFile' = CurFile
    BY <1>0 DEF Running, Paging, CurFile
<1>2. NoDisorder' /\ FilesInv' /\ ListInv' /\ FileIntegrity'
    BY <1>0 DEF MixInv, NoDisorder, FilesInv, Exists, ListInv, FileIntegrity, IsPrefixOf
<1>3. ASSUME Paging, NEW i, NEW k, NEW v, NEW n, NEW m, Follows(i, k, v, n, m)
      PROVE  Follows(i, k, v, n, m)'
  <2>1. ~ OnTheWay /\ ~ Busy
    BY <1>3 DEF Follows, SendsOn
  <2>2. ~ OnTheWay' /\ ~ Busy'
    BY <1>3, <2>1 DEF Paging, Running
  <2>3. Served(CurFile, v, n, m)'
    BY <1>0, <1>1, <1>3 DEF Follows, Served
  <2>4. SendsOn(i, k, v, n, m)'
    BY <2>2 DEF SendsOn
  <2> QED BY <1>0, <1>1, <1>3, <2>2, <2>3, <2>4 DEF Follows
<1>4. QueueInv'
    BY <1>0, <1>1, <1>3 DEF MixInv, QueueInv
<1>5. ReceivedInv'
    BY <1>0, <1>1, <1>3 DEF MixInv, ReceivedInv
<1>6. WriteInv'
  <2>1. \A v, n : Writes(CurFile, v, n)' = Writes(CurFile, v, n)
    BY <1>0, <1>1 DEF Writes
  <2> QED BY <1>0, <1>1, <2>1 DEF MixInv, WriteInv, Running
<1> QED BY <1>2, <1>4, <1>5, <1>6

LEMMA ListenMix ==
    ASSUME IndInv, MixInv, ListenRequest, UNCHANGED <<agentVars, histVars>>
    PROVE  MixInv'
<1> DEFINE rq == toMirror[1]
<1>0. /\ svc = "wait_start" /\ body = <<>> /\ sent = 0 /\ request = NoRequest
      /\ UNCHANGED <<sock, toAgent, faults, fileVars, ver, len, mtime, body, sent, apc, port,
                     files_id, cur, recv, pending, data, held>>
    BY DEF ListenRequest, IndInv, ServiceInv, MixInv, RunInv, agentVars, histVars, fileVars
<1>1. /\ request' = rq /\ rq \in Request /\ 1 \in DOMAIN toMirror
      /\ Thin(toMirror', toMirror)
      /\ \A j \in DOMAIN toMirror' : /\ j \in Nat \ {0} /\ j + 1 \in DOMAIN toMirror
                                     /\ toMirror'[j] = toMirror[j + 1]
  <2>1. toMirror \in Seq(Request) /\ toMirror # <<>> /\ toMirror' = Tail(toMirror)
    BY Types DEF ListenRequest
  <2>2. 1 \in DOMAIN toMirror /\ Head(toMirror) = toMirror[1] /\ DOMAIN Tail(toMirror) \subseteq 1..Len(Tail(toMirror))
    BY <2>1, EmptySeq, HeadTailProperties, LenProperties
  <2> QED BY <2>1, <2>2, ThinTail, Elements DEF ListenRequest
<1> HIDE DEF rq
<1>2. svc' \in {"scan", "count"} /\ (svc' = "scan" => unscanned' = Files)
    BY DEF ListenRequest, Dispatch
<1>3. /\ Running' = Running /\ Paging' = Paging /\ Asked' = Asked /\ CurFile' = CurFile
      /\ Current' = Current
    BY <1>0 DEF Running, Paging, Asked, CurFile, Current
<1>4. (OnTheWay' => OnTheWay) /\ (Busy' => OnTheWay)
    BY <1>0, <1>1 DEF OnTheWay, Busy, rq
<1>5. /\ NoDisorder' /\ FilesInv' /\ ListInv' /\ FileIntegrity'
      /\ QueueInv' /\ ReceivedInv' /\ WriteInv'
    BY <1>0, <1>4, PagesKept
<1>6. RunInv'
  <2>1. \A j \in DOMAIN toMirror' : toMirror'[j].port \in 1..port
    BY <1>1 DEF MixInv, RunInv
  <2>2. rq.port \in 1..port
    BY <1>1 DEF MixInv, RunInv, rq
  <2> QED BY <1>0, <1>1, <1>2, <1>3, <2>1, <2>2 DEF MixInv, RunInv
<1>7. ScanInv' /\ ServeInv'
    BY <1>0, <1>2, Types DEF ScanInv, ServeInv, Distinct
<1>8. ReportInv'
  <2> SUFFICES ASSUME Running, cur = 0 PROVE ReportFirst' /\ ReportOnce' /\ UnsentIsNew'
    BY <1>0, <1>3 DEF ReportInv
  <2>0. ReportFirst /\ ReportOnce
    BY DEF MixInv, ReportInv
  <2>1. ReportOnce' /\ UnsentIsNew'
    BY <1>0, <1>2, <2>0 DEF ReportOnce, UnsentIsNew
  <2>2. \A i, j \in DOMAIN toMirror' :
            toMirror'[i].port = sock /\ toMirror'[j].port = sock => i = j
    BY <1>1, <2>0 DEF ReportFirst
  <2>3. OnTheWay' => ~ Busy'
    BY <1>0, <1>1, <2>0 DEF ReportFirst, OnTheWay, Busy, rq
  <2> QED BY <1>0, <1>4, <2>0, <2>1, <2>2, <2>3 DEF ReportFirst
<1>9. AskedInv'
  <2> SUFFICES ASSUME Running PROVE AskedInv'
    BY <1>3 DEF AskedInv
  <2>1. /\ \A i \in DOMAIN toMirror : ForAsked(toMirror[i])
        /\ \A i \in DOMAIN toAgent :
              IsPage(toAgent[i]) => toAgent[i].body # <<>> /\ toAgent[i].body[1] \in Asked
    BY DEF MixInv, AskedInv
  <2>2. \A i \in DOMAIN toMirror' : ForAsked(toMirror[i])'
    BY <1>0, <1>1, <1>3, <2>1 DEF ForAsked
  <2>3. ForAsked(request)'
    BY <1>0, <1>1, <1>3, <2>1 DEF ForAsked, rq
  <2> QED BY <1>0, <1>3, <2>1, <2>2, <2>3 DEF AskedInv
<1>10. LastInv'
  <2> SUFFICES ASSUME Paging PROVE LastInv'
    BY <1>3 DEF LastInv
  <2>0. \A i, j \in DOMAIN toMirror : i < j /\ toMirror[j].port = sock => toMirror[i] # Current
    BY DEF MixInv, LastInv
  <2>1. \A i, j \in DOMAIN toMirror' : i < j /\ toMirror'[j].port = sock => toMirror'[i] # Current
    BY <1>1, <2>0
  <2>2. rq = Current => ~ OnTheWay'
    BY <1>0, <1>1, <2>0 DEF OnTheWay, rq
  <2> QED BY <1>0, <1>1, <1>3, <2>1, <2>2 DEF LastInv
<1> QED BY <1>5, <1>6, <1>7, <1>8, <1>9, <1>10 DEF MixInv

\* `services` works on its request and sends nothing yet.
LEMMA WorkMix ==
    ASSUME IndInv, MixInv, svc \in {"scan", "count", "read"}, svc' # "wait_start",
           UNCHANGED <<sock, netVars, fileVars, request, sent, agentVars, histVars>>,
           ScanInv', ServeInv'
    PROVE  MixInv'
<1>0. /\ sent = 0
      /\ UNCHANGED <<sock, toMirror, toAgent, faults, ver, len, mtime, request, sent, apc, port,
                     files_id, cur, recv, pending, data, held>>
    BY DEF IndInv, ServiceInv, netVars, fileVars, agentVars, histVars
<1>1. /\ Running' = Running /\ Paging' = Paging /\ Asked' = Asked /\ CurFile' = CurFile
      /\ Current' = Current /\ Busy' = Busy /\ OnTheWay' = OnTheWay
    BY <1>0 DEF Running, Paging, Asked, CurFile, Current, Busy, OnTheWay
<1>2. /\ NoDisorder' /\ FilesInv' /\ ListInv' /\ FileIntegrity'
      /\ QueueInv' /\ ReceivedInv' /\ WriteInv'
    BY <1>0, <1>1, PagesKept
<1>3. RunInv'
    BY <1>0, <1>1 DEF MixInv, RunInv
<1>4. ReportInv'
  <2> SUFFICES ASSUME Running, cur = 0 PROVE ReportFirst' /\ ReportOnce' /\ UnsentIsNew'
    BY <1>0, <1>1 DEF ReportInv
  <2>0. ReportFirst /\ ReportOnce
    BY DEF MixInv, ReportInv
  <2>1. ReportFirst' /\ ReportOnce'
    BY <1>0, <1>1, <2>0 DEF ReportFirst, ReportOnce
  <2>2. UnsentIsNew'
    BY <1>0, <1>1, <2>0 DEF ReportFirst, UnsentIsNew, Lacks, NothingReceived
  <2> QED BY <2>1, <2>2
<1>5. AskedInv' /\ LastInv'
    BY <1>0, <1>1 DEF MixInv, AskedInv, ForAsked, LastInv
<1> QED BY <1>2, <1>3, <1>4, <1>5 DEF MixInv

LEMMA ScanMix ==
    ASSUME IndInv, MixInv, ScanEnd \/ \E f \in Files : ScanFile(f),
           UNCHANGED <<agentVars, histVars>>
    PROVE  MixInv'
<1>0. /\ svc = "scan" /\ svc' \in {"scan", "send"} /\ IsReport /\ IsReport'
      /\ UNCHANGED <<sock, netVars, fileVars, request, sent>>
    BY DEF IndInv, ServiceInv, IsReport, ScanEnd, ScanFile
<1>1. /\ Distinct(body) /\ \A i \in DOMAIN body : body[i] \in Files /\ body[i] \notin unscanned
      /\ body \in Seq(Item) /\ DOMAIN body = 1..Len(body) /\ Len(body) \in Nat
    BY <1>0, Types DEF MixInv, ScanInv
<1>2. CASE ScanEnd
  <2>1. body' = body /\ svc' = "send"
    BY <1>2 DEF ScanEnd
  <2>2. ScanInv' /\ ServeInv'
    BY <1>0, <1>1, <2>1 DEF ScanInv, ServeInv
  <2> QED BY <1>0, <2>2, WorkMix
<1>3. ASSUME NEW f \in Files, ScanFile(f) PROVE MixInv'
  <2>1. f \in unscanned /\ unscanned' = unscanned \ {f}
    BY <1>3 DEF ScanFile
  <2>2. /\ Distinct(body') /\ \A i \in DOMAIN body' : body'[i] \in Files /\ body'[i] \notin unscanned'
    <3>1. CASE body' = body
      BY <1>1, <2>1, <3>1
    <3>2. CASE body' = Append(body, f)
      <4>1. f \in Item
        BY MarksAreItems
      <4>2. /\ DOMAIN body' = 1..(Len(body) + 1) /\ body'[Len(body) + 1] = f
            /\ \A i \in 1..Len(body) : body'[i] = body[i]
        BY <1>1, <3>2, <4>1, AppendProperties, LenProperties
      <4>3. Distinct(body')
        BY <1>1, <2>1, <4>2 DEF Distinct
      <4> QED BY <1>1, <2>1, <4>2, <4>3
    <3> QED BY <1>3, <3>1, <3>2 DEF ScanFile
  <2>3. ScanInv' /\ ServeInv'
    BY <1>0, <2>2 DEF ScanInv, ServeInv
  <2> QED BY <1>0, <2>3, WorkMix
<1> QED BY <1>2, <1>3

LEMMA ReadMix ==
    ASSUME IndInv, MixInv, CountSize \/ ReadContents, UNCHANGED <<agentVars, histVars>>
    PROVE  MixInv'
<1> DEFINE f == request.file
<1>0. /\ svc \in {"count", "read"} /\ svc' \in {"read", "send", "crashed"} /\ ~ IsReport
      /\ body = <<>> /\ UNCHANGED <<sock, netVars, fileVars, request, sent>>
    BY DEF IndInv, ServiceInv, CountSize, ReadContents
<1>1. ~ IsReport' /\ f \in Files /\ f' = f /\ ver' = ver /\ held' = held
    BY <1>0 DEF IsReport, IndInv, ServiceInv, Request, fileVars, histVars
<1>2. ScanInv'
    BY <1>1 DEF ScanInv
<1>3. ServeInv'
  <2> SUFFICES ASSUME svc' = "send", body' # <<>>
               PROVE  \E v \in 1..ver[f], n \in Lengths : PageBody(body', f, v, n) /\ held[f] <= v
    BY <1>0, <1>1 DEF ServeInv
  <2> DEFINE content == Content(f, ver[f], len[f])
  <2>1. /\ Exists(f) /\ size # 0 /\ ~ (len[f] < size)
        /\ body' = <<f>> \o SubSeq(content, 1, size)
    BY <1>0 DEF CountSize, ReadContents
  <2>2. /\ ver[f] \in Nat /\ ver[f] > 0 /\ len[f] \in Lengths /\ len[f] \in Nat
        /\ held[f] <= ver[f] /\ size \in Nat
    BY <1>1, <2>1, Types DEF MixInv, FilesInv, IndInv, TypeOK, MirrorTypeOK
  <2>3. content \in Seq(Item) /\ Len(content) = len[f]
    <3>1. content \in [1..len[f] -> Item]
      BY <1>1, <2>2 DEF Content, Part, Item, Parts
    <3> QED BY <2>2, <3>1
  <2>4. \A k \in 1..len[f] : content[k] = Part(f, ver[f], k, len[f])
    BY DEF Content
  <2>5. SubSeq(content, 1, size) \in Seq(Item) /\ Len(SubSeq(content, 1, size)) = size
        /\ \A k \in 1..size : SubSeq(content, 1, size)[k] = content[k]
    <3> HIDE DEF content
    <3>1. /\ SubSeq(content, 1, size) \in Seq(Item)
          /\ Len(SubSeq(content, 1, size)) = IF 1 <= size THEN size - 1 + 1 ELSE 0
          /\ \A k \in 1..(size - 1 + 1) : SubSeq(content, 1, size)[k] = content[1 + k - 1]
      BY <2>1, <2>2, <2>3, SubSeqOfSeq
    <3> QED BY <2>1, <2>2, <3>1
  <2>6. <<f>> \in Seq(Item) /\ Len(<<f>>) = 1 /\ <<f>>[1] = f
    BY <1>1, MarksAreItems
  <2>7. /\ Len(body') = 1 + size
        /\ body'[1] = f
        /\ \A k \in 1..size : body'[k + 1] = SubSeq(content, 1, size)[k]
    <3> DEFINE c == SubSeq(content, 1, size)
               h == <<f>>
    <3>1. body' = h \o c /\ c \in Seq(Item) /\ h \in Seq(Item) /\ Len(c) = size /\ Len(h) = 1 /\ h[1] = f
      BY <2>1, <2>5, <2>6
    <3> HIDE DEF c, h
    <3>2. /\ Len(body') = Len(h) + Len(c)
          /\ \A i \in 1..(Len(h) + Len(c)) :
                body'[i] = IF i <= Len(h) THEN h[i] ELSE c[i - Len(h)]
      BY <3>1, ConcatProperties
    <3>3. ASSUME NEW k \in 1..size PROVE body'[k + 1] = c[k]
      <4>1. k + 1 \in 1..(Len(h) + Len(c)) /\ ~ (k + 1 <= Len(h)) /\ k + 1 - Len(h) = k
        BY <2>2, <3>1
      <4> QED BY <3>2, <4>1
    <3> QED BY <2>2, <3>1, <3>2, <3>3 DEF c
  <2>8. PageBody(body', f, ver[f], len[f])
    BY <2>1, <2>2, <2>4, <2>5, <2>7 DEF PageBody
  <2> QED BY <2>2, <2>8
<1> QED BY <1>0, <1>2, <1>3, WorkMix

-----------------------------------------------------------------------------
(* The agent, but for what it receives. *)

\* A run that truncates or leaves alone the files keeps the versions held.
LEMMA HeldKept ==
    ASSUME IndInv, MixInv, AgentRun, \A f \in Files : data'[f] \in {data[f], <<>>}
    PROVE  held' = held
<1>1. held' = [f \in Files |-> HeldVersion(data'[f], held[f])] /\ held \in [Files -> Nat]
    BY Types DEF AgentRun
<1>2. ASSUME NEW f \in Files PROVE HeldVersion(data'[f], held[f]) = held[f]
    BY <1>2 DEF MixInv, FilesInv, HeldVersion
<1> QED BY <1>1, <1>2

\* When the process exits, nothing is under way any more.
LEMMA ExitMix ==
    ASSUME IndInv, MixInv, NEW how, Exit(how), NoDisorder',
           UNCHANGED <<toMirror, port, files_id, cur, data, held, fileVars, svcVars>>
    PROVE  MixInv'
<1>0. /\ apc' = "idle" /\ sock' = 0 /\ toAgent' = <<>> /\ recv' = NothingReceived
      /\ UNCHANGED <<ver, len, mtime, svc, request, body, sent, unscanned, toMirror,
                     port, files_id, cur, data, held>>
    BY DEF Exit, fileVars, svcVars
<1>1. ~ Running' /\ ~ Paging' /\ apc' \notin {"write", "close"} /\ IsReport' = IsReport
    BY <1>0 DEF Running, Paging, IsReport
<1>2. RunInv'
    BY <1>0, <1>1 DEF MixInv, RunInv, NothingReceived, NoHeader
<1>3. FilesInv' /\ ScanInv' /\ ListInv' /\ FileIntegrity'
    BY <1>0, <1>1 DEF MixInv, FilesInv, Exists, ScanInv, ListInv, FileIntegrity, IsPrefixOf
<1>4. ServeInv'
    BY <1>0, <1>1 DEF MixInv, ServeInv
<1>5. ReportInv' /\ AskedInv' /\ LastInv' /\ QueueInv' /\ ReceivedInv' /\ WriteInv'
    BY <1>1 DEF ReportInv, AskedInv, LastInv, QueueInv, ReceivedInv, WriteInv
<1> QED BY <1>2, <1>3, <1>4, <1>5 DEF MixInv

LEMMA GiveUpMix ==
    ASSUME IndInv, MixInv, IndInv', NEW queue, GiveUp(queue), Thin(queue, toAgent),
           apc # "idle", faults' = faults,
           UNCHANGED <<toMirror, port, files_id, cur, data, held, fileVars, svcVars>>
    PROVE  MixInv'
<1>1. NoDisorder'
    BY DEF MixInv, NoDisorder
<1>2. CASE cur = 0
    BY <1>1, <1>2, ExitMix DEF GiveUp
<1>3. CASE cur # 0
  <2>1. toAgent' = queue /\ sock' = sock /\ SameOrDropped
    BY <1>3 DEF GiveUp, SameOrDropped
  <2>2. Thin(toMirror', toMirror)
    BY Types, ThinSelf
  <2> QED BY <1>1, <2>1, <2>2, LessMix
<1> QED BY <1>2, <1>3

LEMMA StartMix ==
    ASSUME IndInv, MixInv, AgentStart, ~ RunsForever
    PROVE  MixInv'
<1>0. /\ apc = "idle" /\ apc' = "wait_first" /\ port \in Nat /\ port' = port + 1
      /\ sock' = port' /\ toAgent' = <<>> /\ files_id' = <<>> /\ cur' = 0
      /\ recv = NothingReceived
      /\ UNCHANGED <<faults, ver, len, mtime, svc, request, body, sent, unscanned, recv, data, held>>
    BY Types DEF AgentStart, AgentMain, fileVars, svcVars, MixInv, RunInv
<1>1. /\ \A i \in DOMAIN toMirror : toMirror[i].port \in 1..port
      /\ request.port \in 0..port
    BY <1>0 DEF MixInv, RunInv, NoRequest
<1>2. PICK t \in {0} \cup {ptime[f] : f \in Files} :
         toMirror' = Append(toMirror, ReportRequest(port', t))
    BY DEF AgentStart, AgentMain
<1>3. /\ toMirror'[Len(toMirror) + 1] = ReportRequest(port', t)
      /\ DOMAIN toMirror' = 1..(Len(toMirror) + 1)
      /\ \A i \in 1..Len(toMirror) : toMirror'[i] = toMirror[i] /\ toMirror'[i].port \in 1..port
  <2>1. t \in Nat
    BY RunBounds DEF IndInv, TypeOK, AgentTypeOK
  <2>2. ReportRequest(port', t) \in Request
    BY <1>0, <2>1 DEF ReportRequest, Request
  <2>3. toMirror \in Seq(Request) /\ DOMAIN toMirror = 1..Len(toMirror) /\ Len(toMirror) \in Nat
    BY Types
  <2> QED BY <1>1, <1>2, <2>2, <2>3, AppendProperties, LenProperties
<1>4. /\ \A i \in DOMAIN toMirror' : toMirror'[i].port = sock' => i = Len(toMirror) + 1
      /\ \A i \in DOMAIN toMirror' : toMirror'[i].port \in 1..port'
      /\ \A i \in DOMAIN toMirror' : toMirror'[i].port = sock' => toMirror'[i].cmd # "AGENT_GET_PAGE"
  <2>0. Len(toMirror) \in Nat
    BY Types
  <2>1. /\ ReportRequest(port', t).port = port'
        /\ ReportRequest(port', t).cmd = "MIRROR_REPORT_CHANGES"
    BY DEF ReportRequest
  <2>2. \A i \in 1..(Len(toMirror) + 1) : i = Len(toMirror) + 1 \/ i \in 1..Len(toMirror)
    BY <2>0
  <2>3. ASSUME NEW i \in DOMAIN toMirror', i # Len(toMirror) + 1
        PROVE  toMirror'[i].port # port' /\ toMirror'[i].port \in 1..port'
    BY <1>0, <1>3, <2>2, <2>3
  <2>4. toMirror'[Len(toMirror) + 1].port \in 1..port'
    BY <1>0, <1>3, <2>1
  <2> QED BY <1>0, <1>3, <2>1, <2>3, <2>4
<1>5. ~ Busy' /\ ~ Paging' /\ apc' \notin {"write", "close"} /\ Running' /\ IsReport' = IsReport
    BY <1>0, <1>1 DEF Busy, Paging, Running, IsReport
<1>6. NoDisorder' /\ ListInv' /\ ScanInv' /\ FilesInv' /\ FileIntegrity'
    BY <1>0, <1>5 DEF MixInv, NoDisorder, ListInv, Distinct, ScanInv, FilesInv, Exists,
                      FileIntegrity, IsPrefixOf
<1>7. RunInv'
  <2>1. IF svc' = "wait_start" THEN request' = NoRequest ELSE request'.port \in 1..port'
    BY <1>0 DEF MixInv, RunInv
  <2> QED BY <1>0, <1>4, <2>1 DEF RunInv, Running, NothingReceived, NoHeader
<1>8. ServeInv'
    BY <1>0, <1>5 DEF MixInv, ServeInv
<1>9. AskedInv'
    BY <1>0, <1>4, <1>5 DEF AskedInv, ForAsked, Busy
<1>10. ReportInv'
  <2>1. ReportFirst'
    BY <1>0, <1>4, <1>5 DEF ReportFirst
  <2>2. ReportOnce' /\ UnsentIsNew'
    BY <1>0, <1>5 DEF ReportOnce, UnsentIsNew, Distinct, NothingReceived
  <2> QED BY <2>1, <2>2 DEF ReportInv
<1>11. LastInv' /\ QueueInv' /\ ReceivedInv' /\ WriteInv'
    BY <1>5 DEF LastInv, QueueInv, ReceivedInv, WriteInv
<1> QED BY <1>6, <1>7, <1>8, <1>9, <1>10, <1>11 DEF MixInv

LEMMA TimeOutMix ==
    ASSUME IndInv, MixInv, IndInv', AgentRun, TimeOut
    PROVE  MixInv'
<1>1. held' = held
    BY HeldKept DEF TimeOut
<1>2. Thin(toAgent, toAgent)
    BY Types, ThinSelf
<1>3. apc # "idle"
    BY DEF TimeOut, Waiting
<1> QED BY <1>1, <1>2, <1>3, GiveUpMix DEF TimeOut, AgentRun

LEMMA ReportMix ==
    ASSUME IndInv, MixInv, IndInv', AgentRun, ProcessReport
    PROVE  MixInv'
<1>0. held' = held
    BY HeldKept DEF ProcessReport
<1>1. NoDisorder'
    BY DEF ProcessReport, MixInv, NoDisorder
<1>2. CASE ~ ReportAccepted(recv)
    BY <1>0, <1>1, <1>2, ExitMix DEF ProcessReport, AgentRun
<1>3. CASE ReportAccepted(recv)
  <2>0. /\ cur = 0 /\ apc = "received" /\ apc' = "call" /\ recv' = NothingReceived
        /\ UNCHANGED <<sock, toMirror, toAgent, faults, ver, len, mtime, svc, request, body, sent,
                       unscanned, port, cur, data, held>>
    BY <1>0, <1>3 DEF ProcessReport, AgentRun, fileVars, svcVars
  <2>1. Running /\ Running' /\ ~ Paging /\ ~ Paging' /\ IsReport' = IsReport /\ Busy' = Busy
        /\ OnTheWay' = OnTheWay /\ Asked = {} /\ Asked' = {} /\ Unsent' = Unsent
    BY <2>0 DEF Running, Paging, IsReport, Busy, OnTheWay, Asked, Unsent
  <2>2. ListInv'
    <3>1. /\ files_id' = InnerBody(recv) /\ Distinct(recv.body) /\ recv \in Responses
          /\ recv.body \in Seq(Item) /\ ClosedBody(recv)
      BY <1>3, <2>0, <2>1, Types
         DEF ProcessReport, MixInv, ReportInv, ReportOnce, ReportAccepted, Responses
    <3>2. /\ Len(files_id') = Len(recv.body) - 1 /\ files_id' \in Seq(Item)
          /\ \A i \in 1..(Len(recv.body) - 1) : files_id'[i] = recv.body[i]
      BY <3>1, InnerBodyType
    <3>3. DOMAIN files_id' = 1..(Len(recv.body) - 1) /\ DOMAIN recv.body = 1..Len(recv.body)
          /\ Len(recv.body) \in Nat
      BY <3>1, <3>2, LenProperties
    <3> QED BY <3>1, <3>2, <3>3 DEF ListInv, Distinct
  <2>3. RunInv'
    BY <2>0, <2>1 DEF MixInv, RunInv, NothingReceived, NoHeader
  <2>4. FilesInv' /\ ScanInv' /\ FileIntegrity'
    BY <2>0, <2>1 DEF MixInv, FilesInv, Exists, ScanInv, FileIntegrity, IsPrefixOf
  <2>5. ReportInv'
    <3>1. ReportFirst /\ ReportOnce /\ UnsentIsNew
      BY <2>0, <2>1 DEF MixInv, ReportInv
    <3>2. ReportFirst'
      BY <2>0, <2>1, <3>1 DEF ReportFirst
    <3>3. ReportOnce' /\ UnsentIsNew'
      BY <2>0, <2>1, <3>1
         DEF ReportOnce, UnsentIsNew, Distinct, Apart, Lacks, NothingReceived
    <3> QED BY <3>2, <3>3 DEF ReportInv
  <2>6. AskedInv' /\ ServeInv'
    BY <2>0, <2>1 DEF MixInv, AskedInv, ForAsked, ServeInv
  <2>7. LastInv' /\ QueueInv' /\ ReceivedInv' /\ WriteInv'
    BY <2>0, <2>1 DEF LastInv, QueueInv, ReceivedInv, WriteInv
  <2> QED BY <1>1, <2>2, <2>3, <2>4, <2>5, <2>6, <2>7 DEF MixInv
<1> QED BY <1>2, <1>3

LEMMA EndMix ==
    ASSUME IndInv, MixInv, AgentRun, AgentEnd
    PROVE  MixInv'
<1>0. held' = held
    BY HeldKept DEF AgentEnd
<1>1. NoDisorder'
    BY DEF AgentEnd, MixInv, NoDisorder
<1> QED BY <1>0, <1>1, ExitMix DEF AgentEnd, AgentRun

LEMMA BreakMix ==
    ASSUME IndInv, MixInv, IndInv', AgentBreaks
    PROVE  MixInv'
<1>0. held' = held /\ UNCHANGED <<fileVars, svcVars>>
    BY DEF AgentBreaks, histVars
<1>1. NoDisorder'
  <2>1. faults \in [FaultKind -> Nat] /\ faults["dup"] = 0 /\ faults["swap"] = 0
    BY Types DEF MixInv, NoDisorder
  <2>2. Spend("disk") \/ Spend("kill")
    BY DEF AgentBreaks, WriteFails, CloseFails, Kill
  <2>3. PICK kind \in {"disk", "kill"} : faults' = [faults EXCEPT ![kind] = faults[kind] - 1]
    BY <2>2 DEF Spend
  <2>4. kind # "dup" /\ kind # "swap" /\ "dup" \in FaultKind /\ "swap" \in FaultKind
    BY DEF FaultKind
  <2>5. faults'["dup"] = faults["dup"] /\ faults'["swap"] = faults["swap"]
    BY <2>1, <2>3, <2>4
  <2> QED BY <2>1, <2>5 DEF NoDisorder
<1>2. CASE Kill
    BY <1>0, <1>1, <1>2, ExitMix DEF Kill
<1>3. CASE WriteFails \/ CloseFails
  <2>1. /\ apc \in {"write", "close"} /\ apc' = "call" /\ recv' = recv
        /\ UNCHANGED <<sock, toMirror, toAgent, port, files_id, cur, data>>
    BY <1>3 DEF WriteFails, CloseFails
  <2>2. recv = NothingReceived
    BY <2>1 DEF MixInv, RunInv
  <2>3. SameOrDropped
    BY <2>1, <2>2 DEF SameOrDropped
  <2>4. Thin(toMirror', toMirror) /\ Thin(toAgent', toAgent)
    BY <2>1, Types, ThinSelf
  <2> QED BY <1>0, <1>1, <2>1, <2>3, <2>4, LessMix
<1> QED BY <1>2, <1>3 DEF AgentBreaks

LEMMA WriteDoneMix ==
    ASSUME IndInv, MixInv, IndInv', AgentRun, Buffered \/ WriteDone
    PROVE  MixInv'
<1>0. held' = held
    BY HeldKept DEF Buffered, WriteDone
<1>1. NoDisorder' /\ UNCHANGED <<sock, port, files_id, cur, data, fileVars, svcVars>>
    BY DEF Buffered, WriteDone, MixInv, NoDisorder, AgentRun, netVars
<1>2. SameOrDropped
    BY DEF Buffered, WriteDone, SameOrDropped, MixInv, RunInv
<1>3. Thin(toMirror', toMirror) /\ Thin(toAgent', toAgent)
    BY Types, ThinSelf DEF Buffered, WriteDone, netVars
<1> QED BY <1>0, <1>1, <1>2, <1>3, LessMix

\* The next file is one that has not been asked for.
LEMMA CallMix ==
    ASSUME IndInv, MixInv, AgentRun, CallGetPage
    PROVE  MixInv'
<1> DEFINE g == files_id[cur + 1]
           rq == PageRequest(port, g)
<1>0. held' = held
    BY HeldKept DEF CallGetPage
<1>1. /\ apc = "call" /\ apc' = "wait_first" /\ cur' = cur + 1 /\ cur < Len(files_id)
      /\ toMirror' = Append(toMirror, rq) /\ cur \in Nat
      /\ UNCHANGED <<sock, toAgent, faults, ver, len, mtime, svc, request, body, sent,
                     unscanned, port, files_id, recv, pending, data, held>>
    BY <1>0, Types DEF CallGetPage, AgentRun, fileVars, svcVars
<1>2. /\ recv = NothingReceived /\ sock = port /\ Running /\ Running' /\ Paging'
      /\ Busy' = Busy /\ IsReport' = IsReport /\ CurFile' = g /\ Current' = rq
    BY <1>1 DEF MixInv, RunInv, Running, Paging, Busy, IsReport, CurFile, Current
<1>3. g \in Files /\ g \notin Asked
  <2>1. files_id \in Seq(Files) /\ DOMAIN files_id = 1..Len(files_id) /\ Len(files_id) \in Nat
    BY Types
  <2>2. g \in Files
    BY <1>1, <2>1, ElementOfSeq
  <2>3. \A i \in 1..cur : i \in DOMAIN files_id /\ i # cur + 1 /\ cur + 1 \in DOMAIN files_id
    BY <1>1, <2>1
  <2> QED BY <2>2, <2>3 DEF MixInv, ListInv, Distinct, Asked
<1>4. Asked \subseteq Asked' /\ g \in Asked'
  <2>1. Asked' = {files_id[i] : i \in 1..(cur + 1)} /\ cur + 1 \in 1..(cur + 1)
    BY <1>1 DEF Asked
  <2> QED BY <1>1, <2>1 DEF Asked
<1>5. rq \in Request /\ rq.port = port /\ rq.cmd = "AGENT_GET_PAGE" /\ rq.file = g
    BY <1>3, Types DEF PageRequest, Request
<1>6. /\ toMirror'[Len(toMirror) + 1] = rq /\ Len(toMirror) \in Nat
      /\ DOMAIN toMirror' = 1..(Len(toMirror) + 1)
      /\ \A i \in 1..Len(toMirror) : i \in DOMAIN toMirror /\ toMirror'[i] = toMirror[i]
      /\ \A i \in DOMAIN toMirror' : i = Len(toMirror) + 1 \/ i \in 1..Len(toMirror)
  <2>1. toMirror \in Seq(Request) /\ DOMAIN toMirror = 1..Len(toMirror) /\ Len(toMirror) \in Nat
    BY Types
  <2>2. rq \in Request
    BY <1>5
  <2> HIDE DEF rq
  <2>3. /\ toMirror'[Len(toMirror) + 1] = rq /\ DOMAIN toMirror' = 1..(Len(toMirror) + 1)
        /\ \A i \in 1..Len(toMirror) : toMirror'[i] = toMirror[i]
    BY <1>1, <2>1, <2>2, AppendProperties, LenProperties
  <2> QED BY <2>1, <2>3
<1> HIDE DEF g, rq
<1>7. /\ \A i \in DOMAIN toMirror : ForAsked(toMirror[i])
      /\ ForAsked(request)
      /\ \A i \in DOMAIN toAgent :
            IsPage(toAgent[i]) => toAgent[i].body # <<>> /\ toAgent[i].body[1] \in Asked
    BY <1>2 DEF MixInv, AskedInv
<1>8. /\ \A i \in DOMAIN toMirror : toMirror[i] # rq
      /\ request # rq
    BY <1>2, <1>3, <1>5, <1>7 DEF ForAsked
<1>9. RunInv'
  <2>1. port \in 1..port /\ \A i \in DOMAIN toMirror : toMirror[i].port \in 1..port
    BY <1>2, Types DEF MixInv, RunInv
  <2>2. \A i \in DOMAIN toMirror' : toMirror'[i].port \in 1..port
    BY <1>5, <1>6, <2>1
  <2> QED BY <1>1, <1>2, <2>2 DEF MixInv, RunInv
<1>10. NoDisorder' /\ FilesInv' /\ ScanInv' /\ ListInv' /\ FileIntegrity'
    BY <1>1, <1>2 DEF MixInv, NoDisorder, FilesInv, Exists, ScanInv, ListInv, FileIntegrity,
                      IsPrefixOf
<1>11. ReportInv'
    BY <1>1 DEF ReportInv
<1>12. AskedInv'
  <2>1. \A i \in DOMAIN toMirror' : ForAsked(toMirror[i])'
    BY <1>1, <1>4, <1>5, <1>6, <1>7 DEF ForAsked
  <2>2. ForAsked(request)'
    BY <1>1, <1>4, <1>7 DEF ForAsked
  <2> QED BY <1>1, <1>4, <1>7, <2>1, <2>2 DEF AskedInv
<1>13. LastInv'
  <2>1. \A i, j \in DOMAIN toMirror' : i < j => toMirror'[i] # rq
    BY <1>6, <1>8
  <2> QED BY <1>1, <1>2, <1>8, <2>1 DEF LastInv
<1>14. ServeInv'
    BY <1>1, <1>2, <1>8 DEF MixInv, ServeInv
<1>15. QueueInv'
    BY <1>1, <1>2, <1>3, <1>7 DEF QueueInv
<1>16. ReceivedInv' /\ WriteInv'
    BY <1>1, <1>2 DEF ReceivedInv, WriteInv, IsPage, NothingReceived, NoHeader
<1> QED BY <1>9, <1>10, <1>11, <1>12, <1>13, <1>14, <1>15, <1>16 DEF MixInv

\* A page that is accepted is complete, and the last thing that was under way.
LEMMA PageMix ==
    ASSUME IndInv, MixInv, IndInv', AgentRun, ProcessPage
    PROVE  MixInv'
<1> DEFINE f == CurFile
<1>0. /\ apc = "received" /\ cur # 0 /\ recv' = NothingReceived /\ recv \in Responses
      /\ UNCHANGED <<sock, toMirror, toAgent, faults, ver, len, mtime, svc, request, body, sent,
                     unscanned, port, files_id, cur>>
    BY Types DEF ProcessPage, AgentRun, netVars, fileVars, svcVars
<1>1. NoDisorder'
    BY <1>0 DEF MixInv, NoDisorder
<1>2. Thin(toMirror', toMirror) /\ Thin(toAgent', toAgent)
    BY <1>0, Types, ThinSelf
<1>3. held' = held
    BY HeldKept, Types DEF ProcessPage, Opened
<1>4. CASE ~ (PageAccepted(recv, f) /\ f \in Creatable)
  <2>1. apc' = "call" /\ data' = data
    BY <1>4 DEF ProcessPage, CurFile
  <2>2. SameOrDropped
    BY <1>0, <2>1 DEF SameOrDropped
  <2> QED BY <1>0, <1>1, <1>2, <1>3, <2>1, <2>2, LessMix DEF AgentRun
<1>5. CASE PageAccepted(recv, f) /\ f \in Creatable
  <2>1. /\ data' = [data EXCEPT ![f] = <<>>] /\ pending' = Tail(InnerBody(recv))
        /\ apc' = "write" /\ data \in [Files -> Seq(Item)]
    BY <1>5, Types DEF ProcessPage, Opened, CurFile
  <2>2. /\ f \in Files /\ Paging /\ Paging' /\ Running' /\ Busy' = Busy /\ OnTheWay' = OnTheWay
        /\ IsReport' = IsReport /\ CurFile' = f /\ Current' = Current /\ Asked' = Asked
    BY <1>0, <2>1, Elements, Types DEF Paging, Running, Busy, OnTheWay, IsReport, CurFile,
                                       Current, Asked
  <2> HIDE DEF f
  <2>3. data'[f] = <<>> /\ \A g \in Files : data'[g] \in {data[g], <<>>}
    BY <2>1, <2>2
  <2>4. IsPage(recv) /\ recv.body[1] = f /\ ClosedBody(recv) /\ recv.got = recv.frames
    BY <1>0, <1>5 DEF PageAccepted, IsPage, MixInv, RunInv
  <2>5. PICK v \in 1..ver[f], n \in Lengths, m \in {recv.frames} :
           /\ m = recv.frames /\ Follows(0, m, v, n, m) /\ Exact(recv, f, v, n, m)
    <3>1. PICK v \in 1..ver[f], n \in Lengths, k \in {recv.got, recv.got + 1} :
             /\ k <= recv.frames
             /\ Follows(0, k, v, n, recv.frames)
             /\ k = recv.got => Exact(recv, f, v, n, recv.frames)
      BY <2>2, <2>4 DEF MixInv, ReceivedInv, f
    <3>2. k = recv.frames /\ k = recv.got
      BY <1>0, <2>4, <3>1 DEF Responses
    <3> QED BY <3>1, <3>2
  <2>6. held[f] <= v /\ n \in Nat /\ m \in 1..n /\ ~ OnTheWay
    BY <2>5, LengthsFit DEF Follows, Served, f
  <2>7. toAgent = <<>>
    <3> SUFFICES ASSUME toAgent # <<>> PROVE FALSE
      OBVIOUS
    <3>1. 1 \in DOMAIN toAgent
      BY Types, EmptySeq
    <3>2. PartNo(toAgent[1]) \in 2..m /\ PartNo(toAgent[1]) > m
      BY <2>5, <3>1 DEF Follows, InOrder, MoreOf
    <3> QED BY <2>6, <3>2
  <2>8. ~ Busy
    <3> SUFFICES ASSUME Busy PROVE FALSE
      OBVIOUS
    <3>1. request = Current /\ svc = "send" /\ m <= sent /\ Len(body) = m + 1
      BY <2>5 DEF Follows, SendsOn
    <3>2. ~ IsReport /\ body # <<>>
      BY <2>6, <3>1, EmptySeq DEF Current, PageRequest, IsReport
    <3>3. TotalFrames = m /\ sent < TotalFrames /\ sent \in Nat
      BY <2>6, <3>1, <3>2, Types DEF TotalFrames, IndInv, ServiceInv
    <3> QED BY <2>6, <3>1, <3>3
  <2>9. /\ pending' \in Seq(Item) /\ Len(pending') = m
        /\ \A k \in 1..m : pending'[k] = Part(f, v, k, n)
    <3> DEFINE b == InnerBody(recv)
    <3>1. /\ Len(recv.body) = m + 2 /\ \A k \in 1..m : recv.body[k + 1] = Part(f, v, k, n)
      BY <1>0, <2>4, <2>5, <2>6 DEF Exact, EndLen
    <3>2. /\ b \in Seq(Item) /\ b # <<>> /\ Len(b) = m + 1
          /\ \A i \in 1..(m + 1) : b[i] = recv.body[i]
      <4>1. /\ b \in Seq(Item) /\ b # <<>> /\ Len(b) = Len(recv.body) - 1
            /\ \A i \in 1..(Len(recv.body) - 1) : b[i] = recv.body[i]
        BY <1>0, <2>4, InnerBodyType
      <4> QED BY <2>6, <3>1, <4>1
    <3>3. pending' = Tail(b)
      BY <2>1
    <3> HIDE DEF b
    <3>4. /\ Tail(b) \in Seq(Item) /\ Len(Tail(b)) = Len(b) - 1
          /\ \A i \in 1..(Len(b) - 1) : Tail(b)[i] = b[i + 1]
      BY <3>2, HeadTailProperties
    <3>5. ASSUME NEW k \in 1..m PROVE pending'[k] = Part(f, v, k, n)
      <4>1. k + 1 \in 1..(m + 1) /\ k \in 1..(Len(b) - 1)
        BY <2>6, <3>2
      <4> QED BY <3>1, <3>2, <3>3, <3>4, <4>1
    <3> QED BY <2>6, <3>2, <3>3, <3>4, <3>5
  <2>10. WriteInv'
    <3>1. Len(data'[f]) = 0
      BY <2>3
    <3>2. Len(pending') = m /\ m \in Nat /\ 0 + m <= n
      BY <2>6, <2>9
    <3>3. \A k \in 1..m : pending'[k] = Part(f, v, 0 + k, n)
      BY <2>6, <2>9
    <3>4. /\ held'[f] <= v
          /\ Len(data'[f]) + Len(pending') <= n
          /\ \A k \in 1..Len(data'[f]) : data'[f][k] = Part(f, v, k, n)
          /\ \A k \in 1..Len(pending') : pending'[k] = Part(f, v, Len(data'[f]) + k, n)
      BY <1>3, <2>6, <3>1, <3>2, <3>3
    <3>5. Writes(CurFile, v, n)'
      BY <2>2, <3>4 DEF Writes
    <3>6. ver'[f] = ver[f] /\ toAgent' = <<>> /\ ~ OnTheWay' /\ ~ Busy'
      BY <1>0, <2>2, <2>7, <2>8, <2>6
    <3> QED BY <2>2, <2>5, <3>5, <3>6 DEF WriteInv
  <2>11. RunInv'
    BY <1>0, <2>1, <2>2 DEF MixInv, RunInv, Running, NothingReceived, NoHeader
  <2>12. FilesInv'
    BY <1>0, <1>3, <2>3 DEF MixInv, FilesInv, Exists
  <2>13. FileIntegrity'
    <3> SUFFICES ASSUME NEW g \in Files, data'[g] # <<>>
                 PROVE  \E w \in 1..ver[g], l \in Lengths : IsPrefixOf(g, w, l)'
      BY <1>0 DEF FileIntegrity
    <3>1. data'[g] = data[g] /\ \A w, l : IsPrefixOf(g, w, l)' = IsPrefixOf(g, w, l)
      BY <2>3 DEF IsPrefixOf
    <3> QED BY <3>1 DEF MixInv, FileIntegrity
  <2>14. ScanInv' /\ ListInv' /\ ReportInv'
    BY <1>0, <2>2 DEF MixInv, ScanInv, ListInv, ReportInv
  <2>15. AskedInv' /\ LastInv'
    BY <1>0, <2>2 DEF MixInv, AskedInv, ForAsked, LastInv, Paging, Running
  <2>16. ServeInv'
    BY <1>0, <1>3, <2>2 DEF MixInv, ServeInv
  <2>17. QueueInv' /\ ReceivedInv'
    BY <1>0, <2>7 DEF QueueInv, ReceivedInv, IsPage, NothingReceived, NoHeader
  <2> QED BY <1>1, <2>10, <2>11, <2>12, <2>13, <2>14, <2>15, <2>16, <2>17 DEF MixInv
<1> QED BY <1>4, <1>5

\* What is written to f, which has d parts, is the next part of its version.
NextPiece(f, d) ==
    \E v \in 1..ver[f], n \in Lengths :
       /\ held[f] <= v /\ d + Len(pending) <= n /\ v \in Nat /\ n \in Nat
       /\ Len(pending) \in Nat \ {0} /\ d \in Nat /\ f \in Files
       /\ \A k \in 1..d : data[f][k] = Part(f, v, k, n)
       /\ \A k \in 1..Len(pending) : pending[k] = Part(f, v, d + k, n)
       /\ Len(data'[f]) = d + 1 /\ data'[f] # <<>> /\ DOMAIN data'[f] = 1..(d + 1)
       /\ \A k \in 1..(d + 1) : data'[f][k] = Part(f, v, k, n)
       /\ held'[f] = v
       /\ \A g \in Files : g # f => held'[g] = held[g] /\ data'[g] = data[g]

LEMMA PieceWritten ==
    ASSUME IndInv, MixInv, AgentRun, WriteFile
    PROVE  NextPiece(CurFile, Len(data[CurFile]))
<1> DEFINE f == CurFile
           d == Len(data[f])
<1>0. /\ apc \in {"write", "close"} /\ pending # <<>>
      /\ data' = [data EXCEPT ![f] = Append(data[f], Head(pending))]
      /\ held' = [g \in Files |-> HeldVersion(data'[g], held[g])]
    BY DEF WriteFile, AgentRun, CurFile
<1>1. /\ cur > 0 /\ f \in Files /\ data \in [Files -> Seq(Item)] /\ pending \in Seq(Item)
      /\ held \in [Files -> Nat] /\ ver \in [Files -> Nat] /\ Lengths \subseteq Nat
      /\ d \in Nat
  <2>1. cur > 0 /\ data \in [Files -> Seq(Item)]
    <3>1. cur # 0
      BY <1>0 DEF IndInv, AgentInv
    <3>2. cur \in 0..Len(files_id) /\ Len(files_id) \in Nat /\ data \in [Files -> Seq(Item)]
      BY Types
    <3> QED BY <3>1, <3>2
  <2>2. f \in Files
    BY <2>1, Elements
  <2> HIDE DEF f
  <2>3. data[f] \in Seq(Item)
    BY <2>1, <2>2
  <2>4. d \in Nat
    BY <2>3, LenProperties
  <2> QED BY <2>1, <2>2, <2>4, Types
<1> HIDE DEF f, d
<1>4. PICK v \in 1..ver[f], n \in Lengths : Writes(f, v, n)
    BY <1>0 DEF MixInv, WriteInv, f
<1>5. /\ held[f] <= v /\ d + Len(pending) <= n
      /\ \A k \in 1..d : data[f][k] = Part(f, v, k, n)
      /\ \A k \in 1..Len(pending) : pending[k] = Part(f, v, d + k, n)
      /\ v \in Nat /\ n \in Nat
    BY <1>1, <1>4 DEF Writes, d
<1>6. /\ Len(pending) \in Nat \ {0} /\ Head(pending) = pending[1]
      /\ Tail(pending) \in Seq(Item) /\ Len(Tail(pending)) = Len(pending) - 1
      /\ \A k \in 1..(Len(pending) - 1) : Tail(pending)[k] = pending[k + 1]
    BY <1>0, <1>1, HeadTailProperties, LenProperties, EmptySeq
<1>7. Head(pending) = Part(f, v, d + 1, n) /\ Head(pending) \in Item
  <2>1. Head(pending) = Part(f, v, d + 1, n)
    BY <1>5, <1>6
  <2>2. pending[1] \in Item
    BY <1>1, <1>6, ElementOfSeq
  <2> QED BY <1>6, <2>1, <2>2
<1>8. /\ data'[f] = Append(data[f], Head(pending))
      /\ \A g \in Files : g # f => data'[g] = data[g]
    BY <1>0, <1>1
<1>9. /\ Len(data'[f]) = d + 1 /\ data'[f] # <<>> /\ data'[f] \in Seq(Item)
      /\ \A k \in 1..(d + 1) : data'[f][k] = Part(f, v, k, n)
  <2>1. /\ Len(data'[f]) = d + 1 /\ data'[f] \in Seq(Item)
        /\ \A k \in 1..d : data'[f][k] = data[f][k]
        /\ data'[f][d + 1] = Head(pending)
    BY <1>1, <1>7, <1>8, AppendProperties DEF d
  <2>2. \A k \in 1..(d + 1) : k \in 1..d \/ k = d + 1
    BY <1>1
  <2>3. \A k \in 1..(d + 1) : data'[f][k] = Part(f, v, k, n)
    BY <1>5, <1>7, <2>1, <2>2
  <2>4. data'[f] # <<>>
    BY <1>1, <2>1, EmptySeq
  <2> QED BY <2>1, <2>3, <2>4
<1>10. held'[f] = v /\ \A g \in Files : g # f => held'[g] = held[g]
  <2>1. data'[f][1] = Part(f, v, 1, n)
    BY <1>1, <1>9
  <2>2. data'[f][1] \in Parts /\ data'[f][1].ver = v
    BY <1>1, <1>5, <2>1 DEF Part, Parts
  <2>3. held'[f] = v
    BY <1>0, <1>1, <1>9, <2>2 DEF HeldVersion
  <2>4. ASSUME NEW g \in Files, g # f PROVE held'[g] = held[g]
    BY <1>0, <1>8, <2>4 DEF HeldVersion, MixInv, FilesInv
  <2> QED BY <2>3, <2>4
<1>11. DOMAIN data'[f] = 1..(d + 1)
    BY <1>1, <1>9, LenProperties
<1>12. NextPiece(f, d)
    BY <1>1, <1>4, <1>5, <1>6, <1>8, <1>9, <1>10, <1>11 DEF NextPiece
<1> QED BY <1>12 DEF f, d

LEMMA WriteFileMix ==
    ASSUME IndInv, MixInv, AgentRun, WriteFile
    PROVE  MixInv'
<1> DEFINE f == CurFile
           d == Len(data[f])
<1>0. /\ apc \in {"write", "close"} /\ apc' = apc /\ pending # <<>> /\ pending' = Tail(pending)
      /\ data' = [data EXCEPT ![f] = Append(data[f], Head(pending))]
      /\ held' = [g \in Files |-> HeldVersion(data'[g], held[g])]
      /\ UNCHANGED <<sock, toMirror, toAgent, faults, ver, len, mtime, svc, request, body, sent,
                     unscanned, port, files_id, cur, recv>>
    BY DEF WriteFile, AgentRun, netVars, fileVars, svcVars, CurFile
<1>1. /\ cur > 0 /\ f \in Files /\ data \in [Files -> Seq(Item)] /\ pending \in Seq(Item)
      /\ held \in [Files -> Nat] /\ ver \in [Files -> Nat] /\ Lengths \subseteq Nat
      /\ d \in Nat
  <2>1. cur > 0 /\ data \in [Files -> Seq(Item)]
    <3>1. cur # 0
      BY <1>0 DEF IndInv, AgentInv
    <3>2. cur \in 0..Len(files_id) /\ Len(files_id) \in Nat /\ data \in [Files -> Seq(Item)]
      BY Types
    <3> QED BY <3>1, <3>2
  <2>2. f \in Files
    BY <2>1, Elements
  <2> HIDE DEF f
  <2>3. data[f] \in Seq(Item)
    BY <2>1, <2>2
  <2>4. d \in Nat
    BY <2>3, LenProperties
  <2> QED BY <2>1, <2>2, <2>4, Types
<1>2. /\ Running /\ Paging /\ Running' /\ Paging' /\ Busy' = Busy /\ OnTheWay' = OnTheWay
      /\ IsReport' = IsReport /\ CurFile' = f /\ Current' = Current /\ Asked' = Asked
    BY <1>0, <1>1 DEF Running, Paging, Busy, OnTheWay, IsReport, CurFile, Current, Asked
<1>a. f = CurFile /\ d = Len(data[f])
    OBVIOUS
<1> HIDE DEF f, d
<1>3. /\ toAgent = <<>> /\ ~ OnTheWay /\ ~ Busy /\ recv = NothingReceived
    BY <1>0 DEF MixInv, WriteInv, RunInv
<1>4. PICK v \in 1..ver[f], n \in Lengths :
         /\ held[f] <= v /\ d + Len(pending) <= n /\ v \in Nat /\ n \in Nat
         /\ Len(pending) \in Nat \ {0} /\ d \in Nat /\ f \in Files
         /\ \A k \in 1..d : data[f][k] = Part(f, v, k, n)
         /\ \A k \in 1..Len(pending) : pending[k] = Part(f, v, d + k, n)
         /\ Len(data'[f]) = d + 1 /\ data'[f] # <<>> /\ DOMAIN data'[f] = 1..(d + 1)
         /\ \A k \in 1..(d + 1) : data'[f][k] = Part(f, v, k, n)
         /\ held'[f] = v
         /\ \A g \in Files : g # f => held'[g] = held[g] /\ data'[g] = data[g]
  <2>1. NextPiece(f, d)
    BY <1>a, PieceWritten
  <2> QED BY <2>1 DEF NextPiece
<1>5. /\ held[f] <= v /\ d + Len(pending) <= n /\ v \in Nat /\ n \in Nat
      /\ \A k \in 1..Len(pending) : pending[k] = Part(f, v, d + k, n)
    BY <1>4
<1>6. /\ Len(pending) \in Nat \ {0} /\ Head(pending) = pending[1]
      /\ Tail(pending) \in Seq(Item) /\ Len(Tail(pending)) = Len(pending) - 1
      /\ \A k \in 1..(Len(pending) - 1) : Tail(pending)[k] = pending[k + 1]
    BY <1>0, <1>1, HeadTailProperties, LenProperties, EmptySeq
<1>8. \A g \in Files : g # f => data'[g] = data[g]
    BY <1>4
<1>9. /\ Len(data'[f]) = d + 1 /\ data'[f] # <<>> /\ DOMAIN data'[f] = 1..(d + 1)
      /\ \A k \in 1..(d + 1) : data'[f][k] = Part(f, v, k, n)
    BY <1>4
<1>10. held'[f] = v /\ \A g \in Files : g # f => held'[g] = held[g]
    BY <1>4
<1>11. FilesInv'
  <2>1. data'[f][1].ver = v
    <3>1. data'[f][1] = Part(f, v, 1, n)
      BY <1>1, <1>9
    <3> QED BY <3>1 DEF Part
  <2>2. held'[f] <= ver[f]
    BY <1>1, <1>4, <1>10
  <2>3. ASSUME NEW g \in Files
        PROVE  /\ mtime[g] > 0 => ver[g] > 0 /\ len[g] \in Lengths
               /\ held'[g] <= ver[g]
               /\ data'[g] # <<>> => held'[g] = data'[g][1].ver
    BY <1>8, <1>10, <2>1, <2>2 DEF MixInv, FilesInv, Exists
  <2> QED BY <1>0, <2>3 DEF FilesInv, Exists
<1>12. WriteInv'
  <2>1. /\ held'[f] <= v /\ Len(data'[f]) + Len(pending') <= n
        /\ \A k \in 1..Len(data'[f]) : data'[f][k] = Part(f, v, k, n)
    BY <1>0, <1>1, <1>5, <1>6, <1>9, <1>10
  <2>2. ASSUME NEW k \in 1..Len(pending')
        PROVE  pending'[k] = Part(f, v, Len(data'[f]) + k, n)
    <3>1. k \in 1..(Len(pending) - 1) /\ k + 1 \in 1..Len(pending) /\ d + (k + 1) = d + 1 + k
      BY <1>0, <1>1, <1>6
    <3> QED BY <1>0, <1>5, <1>6, <1>9, <3>1
  <2>3. Writes(CurFile, v, n)'
    BY <1>2, <2>1, <2>2 DEF Writes
  <2>4. ver'[f] = ver[f] /\ toAgent' = <<>> /\ ~ OnTheWay' /\ ~ Busy'
    BY <1>0, <1>2, <1>3
  <2> QED BY <1>2, <1>4, <2>3, <2>4 DEF WriteInv
<1>13. FileIntegrity'
  <2>1. IsPrefixOf(f, v, n)'
    <3>1. Len(data'[f]) <= n /\ DOMAIN data'[f] = 1..(d + 1)
      BY <1>1, <1>5, <1>6, <1>9, LenProperties
    <3>2. \A k \in 1..(d + 1) : data'[f][k] = Part(f, v, k, n)
      BY <1>9
    <3>3. f' = f
      BY <1>2 DEF f
    <3> QED BY <3>1, <3>2, <3>3 DEF IsPrefixOf
  <2>2. ASSUME NEW g \in Files, g # f, data'[g] # <<>>
        PROVE  \E w \in 1..ver[g], l \in Lengths : IsPrefixOf(g, w, l)'
    <3>1. data'[g] = data[g] /\ \A w, l : IsPrefixOf(g, w, l)' = IsPrefixOf(g, w, l)
      BY <1>8, <2>2 DEF IsPrefixOf
    <3> QED BY <2>2, <3>1 DEF MixInv, FileIntegrity
  <2>3. f' = f
    BY <1>2 DEF f
  <2>4. ASSUME NEW g \in Files, data'[g] # <<>>
        PROVE  \E w \in 1..ver[g], l \in Lengths : IsPrefixOf(g, w, l)'
    <3>1. CASE g = f
      <4>1. IsPrefixOf(g, v, n)'
        BY <2>1, <2>3, <3>1 DEF IsPrefixOf
      <4> QED BY <1>4, <3>1, <4>1
    <3> QED BY <2>2, <2>4, <3>1
  <2> QED BY <1>0, <2>4 DEF FileIntegrity
<1>14. NoDisorder' /\ ScanInv' /\ ListInv' /\ ReportInv'
    BY <1>0, <1>1, <1>2 DEF MixInv, NoDisorder, ScanInv, ListInv, ReportInv
<1>15. RunInv'
    BY <1>0, <1>2, <1>3 DEF MixInv, RunInv, NothingReceived, NoHeader
<1>16. AskedInv' /\ LastInv'
    BY <1>0, <1>2 DEF MixInv, AskedInv, ForAsked, LastInv
<1>17. ServeInv'
  <2>1. request # Current
    BY <1>3 DEF Current, PageRequest, Busy
  <2> QED BY <1>0, <1>2, <2>1 DEF MixInv, ServeInv
<1>18. QueueInv' /\ ReceivedInv'
    BY <1>0, <1>3 DEF QueueInv, ReceivedInv, IsPage, NothingReceived, NoHeader
<1> QED BY <1>11, <1>12, <1>13, <1>14, <1>15, <1>16, <1>17, <1>18 DEF MixInv

-----------------------------------------------------------------------------
(* What the agent receives. *)

\* The queue without its first frame, in terms of the queue.
LEMMA TailOfQueue ==
    ASSUME IndInv, toAgent # <<>>
    PROVE  /\ 1 \in DOMAIN toAgent /\ Head(toAgent) = toAgent[1] /\ toAgent[1] \in Frame
           /\ Thin(Tail(toAgent), toAgent)
           /\ DOMAIN Tail(toAgent) \subseteq Nat \ {0}
           /\ \A j \in DOMAIN Tail(toAgent) :
                 j + 1 \in DOMAIN toAgent /\ Tail(toAgent)[j] = toAgent[j + 1]
<1>1. toAgent \in Seq(Frame) /\ DOMAIN toAgent = 1..Len(toAgent) /\ Len(toAgent) \in Nat \ {0}
    BY Types, EmptySeq
<1>2. 1 \in DOMAIN toAgent /\ Head(toAgent) = toAgent[1] /\ toAgent[1] \in Frame
    BY <1>1, HeadTailProperties, Elements
<1>3. /\ Thin(Tail(toAgent), toAgent) /\ Len(Tail(toAgent)) = Len(toAgent) - 1
      /\ \A j \in DOMAIN Tail(toAgent) :
            j \in Nat /\ j + 1 \in DOMAIN toAgent /\ Tail(toAgent)[j] = toAgent[j + 1]
    BY <1>1, ThinTail
<1>4. Tail(toAgent) \in Seq(Frame)
    BY <1>1, HeadTailProperties
<1>5. DOMAIN Tail(toAgent) = 1..Len(Tail(toAgent))
    BY <1>4, LenProperties
<1>6. DOMAIN Tail(toAgent) \subseteq Nat \ {0}
    BY <1>5
<1> QED BY <1>2, <1>3, <1>6

\* When the first frame is taken from the queue, the others move up.
LEMMA FollowsTail ==
    ASSUME IndInv, toAgent # <<>>, toAgent' = Tail(toAgent),
           UNCHANGED <<sock, toMirror, svc, request, body, sent, ver, held, files_id, cur>>,
           NEW i \in Nat, NEW i0 \in Nat, i0 <= i + 1,
           NEW k0, NEW k, NEW v, NEW n, NEW m, Follows(i0, k0, v, n, m),
           \A j \in DOMAIN toAgent : j > i + 1 => PartNo(toAgent[j]) > k,
           Busy => k <= sent
    PROVE  Follows(i, k, v, n, m)'
<1>1. /\ Busy' = Busy /\ OnTheWay' = OnTheWay /\ CurFile' = CurFile /\ Current' = Current
    BY DEF Busy, OnTheWay, CurFile, Current
<1>2. /\ DOMAIN toAgent' \subseteq Nat \ {0}
      /\ \A j \in DOMAIN toAgent' : j + 1 \in DOMAIN toAgent /\ toAgent'[j] = toAgent[j + 1]
    BY TailOfQueue
<1>3. \A j \in DOMAIN toAgent' : j > i => j + 1 > i0 /\ j + 1 > i + 1
    BY <1>2
<1>4. Served(CurFile, v, n, m)' /\ ~ OnTheWay'
    BY <1>1 DEF Follows, Served
<1>5. InOrder(toAgent', i, k, CurFile, v, n, m)
  <2>1. \A j \in DOMAIN toAgent' :
           j > i => MoreOf(toAgent'[j], CurFile, v, n, m) /\ PartNo(toAgent'[j]) > k
    BY <1>2, <1>3 DEF Follows, InOrder
  <2>2. ASSUME NEW h \in DOMAIN toAgent', NEW j \in DOMAIN toAgent', i < h, h < j
        PROVE  PartNo(toAgent'[h]) < PartNo(toAgent'[j])
    <3>1. i0 < h + 1 /\ h + 1 < j + 1
      BY <1>2, <2>2
    <3> QED BY <1>2, <2>2, <3>1 DEF Follows, InOrder
  <2> QED BY <2>1, <2>2 DEF InOrder
<1>6. SendsOn(i, k, v, n, m)'
  <2> SUFFICES ASSUME Busy PROVE SendsOn(i, k, v, n, m)'
    BY <1>1 DEF SendsOn
  <2>1. /\ request = Current /\ svc = "send" /\ PageBody(body, CurFile, v, n)
        /\ Len(body) = m + 1
        /\ \A j \in DOMAIN toAgent : j > i0 => PartNo(toAgent[j]) <= sent
    BY DEF Follows, SendsOn
  <2>2. \A j \in DOMAIN toAgent' : j > i => PartNo(toAgent'[j]) <= sent
    BY <1>2, <1>3, <2>1
  <2> QED BY <1>1, <2>1, <2>2 DEF SendsOn
<1> QED BY <1>1, <1>4, <1>5, <1>6 DEF Follows

\* The pages in the queue, when the first frame has been taken.
LEMMA QueueTail ==
    ASSUME IndInv, MixInv, toAgent # <<>>, toAgent' = Tail(toAgent), Running,
           UNCHANGED <<sock, toMirror, svc, request, body, sent, ver, held, files_id, cur>>
    PROVE  QueueInv'
<1>1. CurFile' = CurFile
    BY DEF CurFile
<1>2. /\ DOMAIN toAgent' \subseteq Nat \ {0}
      /\ \A j \in DOMAIN toAgent' : j + 1 \in DOMAIN toAgent /\ toAgent'[j] = toAgent[j + 1]
    BY TailOfQueue
<1> SUFFICES ASSUME Paging, NEW i \in DOMAIN toAgent',
                    IsPage(toAgent'[i]), toAgent'[i].body[1] = CurFile,
                    NEW m, m = toAgent'[i].frames
             PROVE  \E v \in 1..ver[CurFile], n \in Lengths :
                       FirstOf(toAgent'[i], CurFile, v, n, m) /\ Follows(i, 1, v, n, m)'
    BY <1>1 DEF QueueInv, Paging, Running
<1>3. PICK v \in 1..ver[CurFile], n \in Lengths :
         FirstOf(toAgent[i + 1], CurFile, v, n, m) /\ Follows(i + 1, 1, v, n, m)
    BY <1>2 DEF MixInv, QueueInv
<1>4. /\ \A j \in DOMAIN toAgent : j > i + 1 => PartNo(toAgent[j]) > 1
      /\ Busy => 1 <= sent
    BY <1>3 DEF Follows, InOrder, SendsOn
<1>5. i \in Nat /\ i + 1 \in Nat /\ i + 1 <= i + 1
    BY <1>2
<1>6. Follows(i, 1, v, n, m)'
    BY <1>3, <1>4, <1>5, FollowsTail
<1> QED BY <1>2, <1>3, <1>6

\* The places in a report of the file ids of the next frame.
LEMMA NextFrame ==
    ASSUME NEW s \in Nat, NEW d \in Nat \ {0}
    PROVE  s * d \in Nat /\ (s + 1) * d = s * d + d /\ (s + 1 - 1) * d = s * d
OBVIOUS

LEMMA UnsentFiles ==
    ASSUME IndInv, MixInv, svc = "send", IsReport
    PROVE  Unsent \subseteq Files
<1> DEFINE a == sent * IdsPerFrame
<1>1. a \in Nat
    BY NextFrame, ReportLimits, Types
<1>2. \A i \in DOMAIN body : body[i] \in Files
    BY DEF MixInv, ScanInv
<1>3. Unsent = {body[x] : x \in (a + 1)..Len(body)}
    BY DEF Unsent
<1>4. DOMAIN body = 1..Len(body) /\ Len(body) \in Nat
    BY Types
<1> HIDE DEF a
<1> QED BY <1>1, <1>2, <1>3, <1>4

\* Reports: what has been received is what was in the queue before.
LEMMA ReportTail ==
    ASSUME IndInv, MixInv, toAgent # <<>>, toAgent' = Tail(toAgent), Running, Running',
           UNCHANGED <<sock, toMirror, svc, request, body, sent, cur>>,
           cur = 0 /\ ReportOnce => Distinct(recv'.body),
           \A s : cur = 0 /\ Apart(recv.body, s) /\ Apart(toAgent[1].body, s) => Apart(recv'.body, s),
           \A s : s \subseteq Files /\ Lacks(recv.body, s) /\ Lacks(toAgent[1].body, s) => Lacks(recv'.body, s)
    PROVE  ReportInv'
<1> SUFFICES ASSUME cur = 0 PROVE ReportFirst' /\ ReportOnce' /\ UnsentIsNew'
    BY DEF ReportInv
<1>0. ReportFirst /\ ReportOnce /\ UnsentIsNew
    BY DEF MixInv, ReportInv
<1>1. Busy' = Busy /\ OnTheWay' = OnTheWay /\ Unsent' = Unsent
    BY DEF Busy, OnTheWay, Unsent
<1>2. /\ DOMAIN toAgent' \subseteq Nat \ {0} /\ 1 \in DOMAIN toAgent
      /\ \A j \in DOMAIN toAgent' : j + 1 \in DOMAIN toAgent /\ toAgent'[j] = toAgent[j + 1]
    BY TailOfQueue
<1>3. ReportFirst'
    BY <1>0, <1>1 DEF ReportFirst
<1>4. ReportOnce'
  <2>1. ASSUME NEW i \in DOMAIN toAgent'
        PROVE  Distinct(toAgent'[i].body) /\ Apart(recv'.body, toAgent'[i].body)
    <3>1. i + 1 \in DOMAIN toAgent /\ 1 < i + 1
      BY <1>2
    <3>2. /\ Distinct(toAgent[i + 1].body) /\ Apart(recv.body, toAgent[i + 1].body)
          /\ Apart(toAgent[1].body, toAgent[i + 1].body)
      BY <1>0, <1>2, <3>1 DEF ReportOnce
    <3> QED BY <1>2, <3>2
  <2>2. ASSUME NEW i \in DOMAIN toAgent', NEW j \in DOMAIN toAgent', i < j
        PROVE  Apart(toAgent'[i].body, toAgent'[j].body)
    <3>1. i + 1 < j + 1
      BY <1>2, <2>2
    <3> QED BY <1>0, <1>2, <3>1 DEF ReportOnce
  <2> QED BY <1>0, <2>1, <2>2 DEF ReportOnce
<1>5. UnsentIsNew'
  <2> SUFFICES ASSUME Busy, svc = "send" PROVE UnsentIsNew'
    BY <1>1 DEF UnsentIsNew
  <2>1. Unsent \subseteq Files
    <3>1. IsReport
      BY BusyMeans DEF MixInv, AskedInv, ForAsked, Asked, Busy, IsReport, Request
    <3> QED BY <3>1, UnsentFiles
  <2>2. Lacks(recv'.body, Unsent)
    BY <1>0, <1>2, <2>1 DEF UnsentIsNew
  <2>3. \A i \in DOMAIN toAgent' : Lacks(toAgent'[i].body, Unsent)
    BY <1>0, <1>2 DEF UnsentIsNew
  <2> QED BY <1>1, <2>2, <2>3 DEF UnsentIsNew
<1> QED BY <1>3, <1>4, <1>5

\* A frame is taken from the queue and kept.
LEMMA TakenMix ==
    ASSUME IndInv, MixInv, toAgent # <<>>, toAgent' = Tail(toAgent),
           apc \in {"wait_first", "wait_more"}, apc' \in {"wait_more", "received"},
           UNCHANGED <<sock, toMirror, faults, port, files_id, cur, data, held,
                       fileVars, svcVars>>,
           apc' = "wait_more" => recv'.got < recv'.frames,
           apc' = "received" => recv'.got = recv'.frames,
           recv'.status = "pages_returned" => recv'.body # <<>>,
           ReportInv', ReceivedInv'
    PROVE  MixInv'
<1>0. UNCHANGED <<sock, toMirror, faults, ver, len, mtime, svc, request, body, sent, unscanned,
                  port, files_id, cur, data, held>>
    BY DEF fileVars, svcVars
<1>1. /\ Running /\ Running' /\ Paging' = Paging /\ Busy' = Busy /\ OnTheWay' = OnTheWay
      /\ IsReport' = IsReport /\ CurFile' = CurFile /\ Current' = Current /\ Asked' = Asked
    BY <1>0 DEF Running, Paging, Busy, OnTheWay, IsReport, CurFile, Current, Asked
<1>2. QueueInv'
    BY <1>0, <1>1, QueueTail
<1>3. RunInv'
    BY <1>0, <1>1 DEF MixInv, RunInv, Running
<1>4. NoDisorder' /\ FilesInv' /\ ScanInv' /\ ListInv' /\ FileIntegrity'
    BY <1>0, <1>1 DEF MixInv, NoDisorder, FilesInv, Exists, ScanInv, ListInv, FileIntegrity,
                      IsPrefixOf
<1>5. AskedInv'
  <2>1. \A i \in DOMAIN toAgent' :
           IsPage(toAgent'[i]) => toAgent'[i].body # <<>> /\ toAgent'[i].body[1] \in Asked
    BY <1>1, TailOfQueue DEF MixInv, AskedInv
  <2> QED BY <1>0, <1>1, <2>1 DEF MixInv, AskedInv, ForAsked
<1>6. LastInv' /\ ServeInv'
    BY <1>0, <1>1 DEF MixInv, LastInv, ServeInv
<1>7. WriteInv'
    BY DEF WriteInv
<1> QED BY <1>2, <1>3, <1>4, <1>5, <1>6, <1>7 DEF MixInv

LEMMA ReceiveFirstMix ==
    ASSUME IndInv, MixInv, IndInv', AgentRun, ReceiveFirst
    PROVE  MixInv'
<1> DEFINE fr == toAgent[1]
<1>0. /\ apc = "wait_first" /\ toAgent # <<>>
      /\ UNCHANGED <<toMirror, faults, port, files_id, cur, data, fileVars, svcVars>>
    BY DEF ReceiveFirst, AgentRun
<1>1. held' = held
    BY <1>0, HeldKept
<1>2. /\ 1 \in DOMAIN toAgent /\ Head(toAgent) = fr /\ fr \in Frame
      /\ Thin(Tail(toAgent), toAgent)
    BY <1>0, TailOfQueue
<1> HIDE DEF fr
<1>3. CASE ~ ValidHeader(fr)
  <2>1. GiveUp(Tail(toAgent))
    BY <1>2, <1>3 DEF ReceiveFirst
  <2> QED BY <1>0, <1>1, <1>2, <2>1, GiveUpMix
<1>4. CASE ValidHeader(fr)
  <2>1. /\ recv' = [status |-> fr.status, frames |-> fr.frames, got |-> 1, body |-> fr.body]
        /\ apc' = IF AllReceived(recv') THEN "received" ELSE "wait_more"
        /\ toAgent' = Tail(toAgent) /\ sock' = sock
    BY <1>2, <1>4 DEF ReceiveFirst
  <2>2. /\ recv'.status = fr.status /\ recv'.frames = fr.frames /\ recv'.got = 1
        /\ recv'.body = fr.body
    BY <2>1
  <2>3. fr.frames \in Nat \ {0}
    BY <1>2, <1>4, LengthsFit DEF ValidHeader, Frame
  <2>4. /\ apc' \in {"wait_more", "received"}
        /\ apc' = "wait_more" => recv'.got < recv'.frames
        /\ apc' = "received" => recv'.got = recv'.frames
    BY <2>1, <2>2, <2>3 DEF AllReceived
  <2>5. UNCHANGED <<sock, toMirror, svc, request, body, sent, ver, held, files_id, cur>>
    BY <1>0, <1>1, <2>1 DEF fileVars, svcVars
  <2>6. Running /\ Running' /\ Paging' = Paging /\ CurFile' = CurFile /\ recv = NothingReceived
    BY <1>0, <2>4, <2>5 DEF Running, Paging, CurFile, MixInv, RunInv
  <2>7. recv'.status = "pages_returned" => recv'.body # <<>>
    BY <1>2, <2>2, <2>6 DEF MixInv, AskedInv, IsPage, fr
  <2>8. ReportInv'
    <3>1. cur = 0 /\ ReportOnce => Distinct(recv'.body)
      BY <1>2, <2>2 DEF ReportOnce, fr
    <3>2. /\ \A s : Apart(toAgent[1].body, s) => Apart(recv'.body, s)
          /\ \A s : Lacks(toAgent[1].body, s) => Lacks(recv'.body, s)
      BY <2>2 DEF fr
    <3> QED BY <1>0, <2>1, <2>5, <2>6, <3>1, <3>2, ReportTail
  <2>9. ReceivedInv'
    <3> SUFFICES ASSUME Paging, IsPage(fr), fr.body[1] = CurFile, NEW m, m = fr.frames
                 PROVE  /\ recv'.got >= 1
                        /\ \E v \in 1..ver[CurFile], n \in Lengths :
                              /\ recv'.got <= recv'.frames
                              /\ Follows(0, 1, v, n, m)'
                              /\ Exact(recv', CurFile, v, n, m)
      BY <2>2, <2>5, <2>6 DEF ReceivedInv, IsPage
    <3>1. PICK v \in 1..ver[CurFile], n \in Lengths :
             FirstOf(fr, CurFile, v, n, m) /\ Follows(1, 1, v, n, m)
      BY <1>2 DEF MixInv, QueueInv, fr
    <3>2. /\ \A j \in DOMAIN toAgent : j > 0 + 1 => PartNo(toAgent[j]) > 1
          /\ Busy => 1 <= sent
      BY <3>1 DEF Follows, InOrder, SendsOn
    <3>3. Follows(0, 1, v, n, m)'
      BY <1>0, <2>1, <2>5, <3>1, <3>2, FollowsTail
    <3>4. Exact(recv', CurFile, v, n, m)
      <4>1. Len(recv'.body) = recv'.got + 1 + EndLen(recv'.got, m)
        BY <2>2, <3>1 DEF FirstOf, EndLen
      <4>2. \A k \in 1..recv'.got : k = 1
        BY <2>2
      <4> QED BY <2>2, <3>1, <4>1, <4>2 DEF FirstOf, Exact
    <3> QED BY <2>2, <2>3, <3>3, <3>4
  <2> QED BY <1>0, <1>1, <2>1, <2>4, <2>7, <2>8, <2>9, TakenMix
<1> QED BY <1>3, <1>4

\* The elements of a joined sequence are those of its parts.
LEMMA JoinElement ==
    ASSUME NEW S, NEW a \in Seq(S), NEW b \in Seq(S), NEW i \in DOMAIN (a \o b)
    PROVE  \/ i \in DOMAIN a /\ (a \o b)[i] = a[i]
           \/ i - Len(a) \in DOMAIN b /\ (a \o b)[i] = b[i - Len(a)] /\ i \in Int /\ i > Len(a)
<1> DEFINE t == a \o b
<1>1. /\ t \in Seq(S) /\ Len(t) = Len(a) + Len(b)
      /\ \A j \in 1..(Len(a) + Len(b)) : t[j] = IF j <= Len(a) THEN a[j] ELSE b[j - Len(a)]
    BY ConcatProperties
<1>2. /\ Len(a) \in Nat /\ Len(b) \in Nat /\ DOMAIN t = 1..Len(t)
      /\ DOMAIN a = 1..Len(a) /\ DOMAIN b = 1..Len(b)
    BY <1>1, LenProperties
<1>3. i \in DOMAIN t
    OBVIOUS
<1> HIDE DEF t
<1>4. \/ i \in DOMAIN a /\ t[i] = a[i]
      \/ i - Len(a) \in DOMAIN b /\ t[i] = b[i - Len(a)] /\ i \in Int /\ i > Len(a)
    BY <1>1, <1>2, <1>3
<1> QED BY <1>4 DEF t

LEMMA JoinDistinct ==
    ASSUME NEW S, NEW a \in Seq(S), NEW b \in Seq(S),
           Distinct(a), Distinct(b), Apart(a, b)
    PROVE  Distinct(a \o b)
<1> DEFINE t == a \o b
           inA(i) == i \in DOMAIN a /\ t[i] = a[i]
           inB(i) == i - Len(a) \in DOMAIN b /\ t[i] = b[i - Len(a)] /\ i \in Int /\ i > Len(a)
<1>1. ASSUME NEW i \in DOMAIN t PROVE inA(i) \/ inB(i)
    BY JoinElement
<1>2. Len(a) \in Nat /\ DOMAIN a = 1..Len(a)
    BY LenProperties
<1> HIDE DEF t
<1> SUFFICES ASSUME NEW i \in DOMAIN t, NEW j \in DOMAIN t, t[i] = t[j], t[i] \in Files
             PROVE  i = j
    BY DEF Distinct, t
<1>3. CASE inA(i) /\ inA(j)
    BY <1>3 DEF Distinct
<1>4. CASE inB(i) /\ inB(j)
  <2>1. i - Len(a) = j - Len(a)
    BY <1>4 DEF Distinct
  <2> QED BY <1>2, <1>4, <2>1
<1>5. CASE (inA(i) /\ inB(j)) \/ (inB(i) /\ inA(j))
    BY <1>5 DEF Apart
<1> QED BY <1>1, <1>3, <1>4, <1>5

LEMMA JoinApart ==
    ASSUME NEW S, NEW a \in Seq(S), NEW b \in Seq(S), NEW s
    PROVE  /\ Apart(a, s) /\ Apart(b, s) => Apart(a \o b, s)
           /\ Apart(s, a) /\ Apart(s, b) => Apart(s, a \o b)
           /\ Lacks(a, s) /\ Lacks(b, s) => Lacks(a \o b, s)
<1> DEFINE t == a \o b
<1>1. ASSUME NEW i \in DOMAIN t
      PROVE  (\E j \in DOMAIN a : t[i] = a[j]) \/ \E j \in DOMAIN b : t[i] = b[j]
    BY JoinElement
<1> HIDE DEF t
<1>2. Apart(a, s) /\ Apart(b, s) => Apart(t, s)
    BY <1>1 DEF Apart
<1>3. Apart(s, a) /\ Apart(s, b) => Apart(s, t)
    BY <1>1 DEF Apart
<1>4. Lacks(a, s) /\ Lacks(b, s) => Lacks(t, s)
    BY <1>1 DEF Lacks
<1> QED BY <1>2, <1>3, <1>4 DEF t

\* A header that lands in a body is no file id.
LEMMA RawFiles ==
    ASSUME NEW fr \in Frame
    PROVE  /\ Raw(fr) \in Seq(Item) /\ fr.body \in Seq(Item)
           /\ Distinct(fr.body) => Distinct(Raw(fr))
           /\ \A s : Apart(fr.body, s) => Apart(Raw(fr), s)
           /\ \A s : Apart(s, fr.body) => Apart(s, Raw(fr))
           /\ \A s : s \subseteq Files /\ Lacks(fr.body, s) => Lacks(Raw(fr), s)
<1> DEFINE h == IF fr.status = NoHeader THEN <<>> ELSE <<Header>>
<1>1. fr.body \in Seq(Item)
    BY DEF Frame
<1>2. h \in Seq(Item) /\ \A i \in DOMAIN h : h[i] = Header
    BY MarksAreItems, EmptySeq
<1>3. Header \notin Files
    BY MarksAreNotFiles
<1>4. Raw(fr) = h \o fr.body
    BY DEF Raw
<1> HIDE DEF h
<1>5. Raw(fr) \in Seq(Item)
    BY <1>1, <1>2, <1>4, ConcatProperties
<1>6. /\ Distinct(h) /\ Apart(h, fr.body) /\ \A s : Apart(h, s) /\ Apart(s, h)
      /\ \A s : s \subseteq Files => Lacks(h, s)
    BY <1>2, <1>3 DEF Distinct, Apart, Lacks
<1>7. Distinct(fr.body) => Distinct(Raw(fr))
    BY <1>1, <1>2, <1>4, <1>6, JoinDistinct
<1>8. ASSUME NEW s
      PROVE  /\ Apart(fr.body, s) => Apart(Raw(fr), s)
             /\ Apart(s, fr.body) => Apart(s, Raw(fr))
             /\ s \subseteq Files /\ Lacks(fr.body, s) => Lacks(Raw(fr), s)
    BY <1>1, <1>2, <1>4, <1>6, JoinApart
<1> QED BY <1>1, <1>5, <1>7, <1>8

\* Part p of m behind the first got parts of a page: the next one, or a gap.
LEMMA NextPart ==
    ASSUME NEW f, NEW v, NEW n, NEW m \in Nat, NEW r \in Responses, NEW fr \in Frame,
           NEW new, new.got = r.got + 1, new.body = r.body \o fr.body,
           r.got < PartNo(fr), PartNo(fr) = r.got + 1,
           Exact(r, f, v, n, m), MoreOf(fr, f, v, n, m)
    PROVE  Exact(new, f, v, n, m)
<1> DEFINE g == r.got
           a == r.body
           b == fr.body
           t == new.body
<1>1. /\ g \in Nat /\ a \in Seq(Item) /\ b \in Seq(Item) /\ Len(a) \in Nat /\ Len(b) \in Nat
    BY LenProperties DEF Responses, Frame
<1>2. /\ g + 1 \in 2..m /\ Len(a) = g + 1 /\ Len(b) = 1 + EndLen(g + 1, m)
      /\ b[1] = Part(f, v, g + 1, n)
      /\ \A k \in 1..g : a[k + 1] = Part(f, v, k, n)
    BY <1>1 DEF Exact, MoreOf, EndLen
<1>3. t = a \o b /\ new.got = g + 1
    OBVIOUS
<1> HIDE DEF a, b, t, g
<1>4. /\ Len(t) = Len(a) + Len(b)
      /\ \A j \in 1..(Len(a) + Len(b)) : t[j] = IF j <= Len(a) THEN a[j] ELSE b[j - Len(a)]
    BY <1>1, <1>3, ConcatProperties
<1>5. Len(t) = (g + 1) + 1 + EndLen(g + 1, m)
    BY <1>1, <1>2, <1>4 DEF EndLen
<1>6. ASSUME NEW k \in 1..(g + 1) PROVE t[k + 1] = Part(f, v, k, n)
  <2>0. EndLen(g + 1, m) \in Nat
    BY DEF EndLen
  <2>1. CASE k \in 1..g
    <3>1. k + 1 \in 1..(Len(a) + Len(b)) /\ k + 1 <= Len(a)
      BY <1>1, <1>2, <2>0, <2>1
    <3> QED BY <1>2, <1>4, <2>1, <3>1
  <2>2. CASE k = g + 1
    <3>1. k + 1 \in 1..(Len(a) + Len(b)) /\ ~ (k + 1 <= Len(a)) /\ k + 1 - Len(a) = 1
      BY <1>1, <1>2, <2>0, <2>2
    <3> QED BY <1>2, <1>4, <2>2, <3>1
  <2> QED BY <1>1, <2>1, <2>2
<1> QED BY <1>3, <1>5, <1>6 DEF Exact, t

LEMMA ReceiveMoreMix ==
    ASSUME IndInv, MixInv, IndInv', AgentRun, ReceiveMore
    PROVE  MixInv'
<1> DEFINE fr == toAgent[1]
<1>0. /\ apc = "wait_more" /\ toAgent # <<>> /\ toAgent' = Tail(toAgent) /\ sock' = sock
      /\ UNCHANGED <<toMirror, faults, port, files_id, cur, data, fileVars, svcVars>>
    BY DEF ReceiveMore, AgentRun
<1>1. held' = held
    BY <1>0, HeldKept
<1>2. 1 \in DOMAIN toAgent /\ Head(toAgent) = fr /\ fr \in Frame /\ recv \in Responses
    BY <1>0, TailOfQueue, Types
<1>3. recv' = [status |-> recv.status, frames |-> recv.frames,
               got |-> recv.got + 1, body |-> recv.body \o Raw(fr)]
    BY <1>2 DEF ReceiveMore
<1> HIDE DEF fr
<1>4. /\ recv'.status = recv.status /\ recv'.frames = recv.frames /\ recv'.got = recv.got + 1
      /\ recv'.body = recv.body \o Raw(fr)
    BY <1>3
<1>5. /\ recv.got \in Nat /\ recv.frames \in Nat /\ recv.got < recv.frames
      /\ recv.body \in Seq(Item) /\ Raw(fr) \in Seq(Item)
      /\ recv.status = "pages_returned" => recv.body # <<>>
    BY <1>0, <1>2, RawFiles DEF Responses, MixInv, RunInv
<1>6. /\ apc' \in {"wait_more", "received"}
      /\ apc' = "wait_more" => recv'.got < recv'.frames
      /\ apc' = "received" => recv'.got = recv'.frames
    BY <1>4, <1>5 DEF ReceiveMore, AllReceived
<1>7. UNCHANGED <<sock, toMirror, svc, request, body, sent, ver, held, files_id, cur>>
    BY <1>0, <1>1 DEF fileVars, svcVars
<1>8. Running /\ Running' /\ Paging' = Paging /\ CurFile' = CurFile
    BY <1>0, <1>6, <1>7 DEF Running, Paging, CurFile
<1>9. recv.body # <<>> => recv'.body # <<>> /\ recv'.body[1] = recv.body[1]
  <2> SUFFICES ASSUME recv.body # <<>> PROVE recv'.body # <<>> /\ recv'.body[1] = recv.body[1]
    OBVIOUS
  <2>1. Len(recv.body) \in Nat \ {0} /\ Len(Raw(fr)) \in Nat
    BY <1>5, LenProperties, EmptySeq
  <2>2. /\ Len(recv'.body) = Len(recv.body) + Len(Raw(fr))
        /\ \A j \in 1..(Len(recv.body) + Len(Raw(fr))) :
              recv'.body[j] = IF j <= Len(recv.body) THEN recv.body[j] ELSE Raw(fr)[j - Len(recv.body)]
    BY <1>4, <1>5, ConcatProperties
  <2> QED BY <2>1, <2>2
<1>10. recv'.status = "pages_returned" => recv'.body # <<>>
    BY <1>4, <1>5, <1>9
<1>11. ReportInv'
  <2>1. cur = 0 /\ ReportOnce => Distinct(recv'.body)
    <3> SUFFICES ASSUME ReportOnce PROVE Distinct(recv'.body)
      OBVIOUS
    <3>1. Distinct(recv.body) /\ Distinct(fr.body) /\ Apart(recv.body, fr.body)
      BY <1>2 DEF ReportOnce, fr
    <3>2. Distinct(Raw(fr)) /\ Apart(recv.body, Raw(fr))
      BY <1>2, <3>1, RawFiles
    <3> QED BY <1>4, <1>5, <3>1, <3>2, JoinDistinct
  <2>2. ASSUME NEW s, Apart(recv.body, s), Apart(fr.body, s) PROVE Apart(recv'.body, s)
    <3>1. Apart(Raw(fr), s)
      BY <1>2, <2>2, RawFiles
    <3> QED BY <1>4, <1>5, <2>2, <3>1, JoinApart
  <2>3. ASSUME NEW s, s \subseteq Files, Lacks(recv.body, s), Lacks(fr.body, s)
        PROVE  Lacks(recv'.body, s)
    <3>1. Lacks(Raw(fr), s)
      BY <1>2, <2>3, RawFiles
    <3> QED BY <1>4, <1>5, <2>3, <3>1, JoinApart
  <2>4. /\ \A s : Apart(recv.body, s) /\ Apart(toAgent[1].body, s) => Apart(recv'.body, s)
        /\ \A s : s \subseteq Files /\ Lacks(recv.body, s) /\ Lacks(toAgent[1].body, s)
                    => Lacks(recv'.body, s)
    BY <2>2, <2>3 DEF fr
  <2> QED BY <1>0, <1>7, <1>8, <2>1, <2>4, ReportTail
<1>12. ReceivedInv'
  <2> SUFFICES ASSUME Paging, IsPage(recv), recv.body[1] = CurFile, NEW m, m = recv.frames
               PROVE  \E v \in 1..ver[CurFile], n \in Lengths, l \in {recv'.got, recv'.got + 1} :
                         /\ l <= m
                         /\ Follows(0, l, v, n, m)'
                         /\ l = recv'.got => Exact(recv', CurFile, v, n, m)
    BY <1>4, <1>5, <1>7, <1>8, <1>9 DEF ReceivedInv, IsPage
  <2>1. PICK v \in 1..ver[CurFile], n \in Lengths, k \in {recv.got, recv.got + 1} :
           /\ k <= m
           /\ Follows(0, k, v, n, m)
           /\ k = recv.got => Exact(recv, CurFile, v, n, m)
    BY DEF MixInv, ReceivedInv
  <2> DEFINE p == PartNo(fr)
  <2>2. /\ MoreOf(fr, CurFile, v, n, m) /\ p > k /\ p \in 2..m /\ m \in Nat
        /\ \A j \in DOMAIN toAgent : j > 0 + 1 => PartNo(toAgent[j]) > p
        /\ Busy => p <= sent
    BY <1>2, <1>5, <2>1 DEF Follows, InOrder, SendsOn, MoreOf, fr
  <2>3. Raw(fr) = fr.body
    <3>1. fr.body \in Seq(Item)
      BY <1>2, RawFiles
    <3> QED BY <2>2, <3>1, ConcatEmptySeq DEF MoreOf, Raw
  <2> HIDE DEF p
  <2>4. \A j \in DOMAIN toAgent : j > 1 => PartNo(toAgent[j]) \in Int
    BY <2>1 DEF Follows, InOrder, MoreOf
  <2>5. ASSUME NEW l \in Nat, l <= p PROVE Follows(0, l, v, n, m)'
    <3>1. /\ \A j \in DOMAIN toAgent : j > 0 + 1 => PartNo(toAgent[j]) > l
          /\ Busy => l <= sent
      BY <2>2, <2>4, <2>5, Types
    <3> QED BY <1>0, <1>7, <2>1, <3>1, FollowsTail
  <2>6. CASE k = recv.got /\ p = recv.got + 1
    <3>1. Exact(recv', CurFile, v, n, m)
      BY <1>2, <1>4, <1>5, <2>1, <2>2, <2>3, <2>6, NextPart DEF p
    <3> QED BY <1>4, <1>5, <2>1, <2>2, <2>5, <2>6, <3>1
  <2>7. CASE ~ (k = recv.got /\ p = recv.got + 1)
    <3>1. recv'.got + 1 <= p /\ recv'.got + 1 \in Nat /\ recv'.got + 1 <= m
          /\ recv'.got + 1 # recv'.got
      BY <1>4, <1>5, <2>1, <2>2, <2>7
    <3> QED BY <2>1, <2>5, <3>1
  <2> QED BY <2>6, <2>7
<1> QED BY <1>0, <1>1, <1>6, <1>10, <1>11, <1>12, TakenMix

-----------------------------------------------------------------------------
(* What `services` sends. *)

\* The next frame of a page is its first frame, or the next part of it.
LEMMA PageFrame ==
    ASSUME IndInv, svc = "send", ~ IsReport, NEW f, NEW v, NEW n \in Nat,
           PageBody(body, f, v, n), NEW m, m = Len(body) - 1,
           NEW fr, fr = ResponseFrame(sent + 1)
    PROVE  /\ m \in 1..n /\ TotalFrames = m /\ sent < m
           /\ sent = 0 => FirstOf(fr, f, v, n, m)
           /\ sent # 0 => ~ IsPage(fr) /\ MoreOf(fr, f, v, n, m) /\ PartNo(fr) = sent + 1
<1> DEFINE k == sent + 1
           mark == IF k = m THEN <<EndMark>> ELSE <<>>
<1>0. /\ body \in Seq(Item) /\ Len(body) \in Nat /\ body # <<>> /\ sent \in Nat
      /\ m \in 1..n /\ TotalFrames = m /\ sent < m /\ k \in 1..m /\ Len(body) = m + 1
  <2>1. body \in Seq(Item) /\ Len(body) \in Nat /\ sent \in Nat /\ Len(body) \in 2..(n + 1)
    BY Types DEF PageBody
  <2>2. body # <<>> /\ m \in 1..n
    BY <2>1
  <2>3. TotalFrames = m
    BY <2>2 DEF TotalFrames
  <2>4. sent < m
    BY <2>3 DEF IndInv, ServiceInv
  <2> QED BY <2>1, <2>2, <2>3, <2>4
<1>1. /\ body[1] = f /\ \A x \in 1..m : body[x + 1] = Part(f, v, x, n)
    BY DEF PageBody
<1>2. /\ fr.status = IF k = 1 THEN ResponseStatus ELSE NoHeader
      /\ fr.frames = IF k = 1 THEN m ELSE 0
      /\ fr.body = FrameItems(k) \o mark
    BY <1>0 DEF ResponseFrame
<1>3. /\ mark \in Seq(Item) /\ Len(mark) = EndLen(k, m)
    BY MarksAreItems, EmptySeq DEF EndLen
<1>4. ResponseStatus = "pages_returned"
    BY <1>0 DEF ResponseStatus
<1>a. FrameItems(k) = IF k = 1 THEN SubSeq(body, 1, 2) ELSE SubSeq(body, k + 1, k + 1)
    BY <1>0 DEF FrameItems
<1> DEFINE bd == fr.body
<1>5. CASE sent = 0
  <2>1. FrameItems(k) = SubSeq(body, 1, 2)
    BY <1>a, <1>0, <1>5
  <2> DEFINE c == SubSeq(body, 1, 2)
  <2>2. c \in Seq(Item) /\ Len(c) = 2 /\ c[1] = f /\ c[2] = Part(f, v, 1, n)
    <3>1. /\ c \in Seq(Item) /\ Len(c) = IF 1 <= 2 THEN 2 - 1 + 1 ELSE 0
          /\ \A i \in 1..(2 - 1 + 1) : c[i] = body[1 + i - 1]
      BY <1>0, SubSeqOfSeq
    <3>2. c[1] = body[1] /\ c[2] = body[2] /\ Len(c) = 2
      BY <3>1
    <3> QED BY <1>0, <1>1, <3>1, <3>2
  <2>3. bd = c \o mark
    BY <1>2, <2>1
  <2> HIDE DEF c, mark, bd
  <2>4. /\ Len(bd) = 2 + EndLen(1, m) /\ bd[1] = f /\ bd[2] = Part(f, v, 1, n)
    <3>0. c \in Seq(Item) /\ mark \in Seq(Item)
      BY <1>3, <2>2
    <3>1. /\ Len(bd) = Len(c) + Len(mark)
          /\ \A i \in 1..(Len(c) + Len(mark)) :
                bd[i] = IF i <= Len(c) THEN c[i] ELSE mark[i - Len(c)]
      BY <2>3, <3>0, ConcatProperties
    <3>2. EndLen(1, m) \in Nat /\ Len(mark) = EndLen(1, m)
      BY <1>3, <1>5 DEF EndLen
    <3> QED BY <2>2, <3>1, <3>2
  <2>5. FirstOf(fr, f, v, n, m)
    BY <1>2, <1>5, <2>4 DEF FirstOf, bd
  <2> QED BY <1>0, <1>5, <2>5
<1>6. CASE sent # 0
  <2>1. FrameItems(k) = SubSeq(body, k + 1, k + 1)
    <3>1. k # 1
      BY <1>0, <1>6
    <3> QED BY <1>a, <3>1
  <2> DEFINE c == SubSeq(body, k + 1, k + 1)
  <2>2. c \in Seq(Item) /\ Len(c) = 1 /\ c[1] = Part(f, v, k, n)
    <3>1. k + 1 \in Nat \ {0} /\ k + 1 <= Len(body)
      BY <1>0
    <3>2. /\ c \in Seq(Item) /\ Len(c) = IF k + 1 <= k + 1 THEN k + 1 - (k + 1) + 1 ELSE 0
          /\ \A i \in 1..(k + 1 - (k + 1) + 1) : c[i] = body[k + 1 + i - 1]
      BY <1>0, <3>1, SubSeqOfSeq
    <3>3. Len(c) = 1 /\ c[1] = body[k + 1]
      BY <1>0, <3>2
    <3> QED BY <1>0, <1>1, <3>2, <3>3
  <2>3. bd = c \o mark
    BY <1>2, <2>1
  <2> HIDE DEF c, mark, bd
  <2>4. Len(bd) = 1 + EndLen(k, m) /\ bd[1] = Part(f, v, k, n)
    <3>0. c \in Seq(Item) /\ mark \in Seq(Item)
      BY <1>3, <2>2
    <3>1. /\ Len(bd) = Len(c) + Len(mark)
          /\ \A i \in 1..(Len(c) + Len(mark)) :
                bd[i] = IF i <= Len(c) THEN c[i] ELSE mark[i - Len(c)]
      BY <2>3, <3>0, ConcatProperties
    <3>2. EndLen(k, m) \in Nat
      BY DEF EndLen
    <3> QED BY <1>3, <2>2, <3>1, <3>2
  <2>5. PartNo(fr) = k /\ k \in 2..m /\ fr.status = NoHeader
    <3>1. k \in 2..m /\ k # 1
      BY <1>0, <1>6
    <3>2. Part(f, v, k, n).part = k
      BY DEF Part
    <3>3. PartNo(fr) = k
      BY <2>4, <3>2 DEF PartNo, bd
    <3> QED BY <1>2, <3>1, <3>3
  <2>6. MoreOf(fr, f, v, n, m) /\ ~ IsPage(fr)
    BY <2>4, <2>5 DEF MoreOf, IsPage, NoHeader, bd
  <2> QED BY <1>0, <1>6, <2>5, <2>6
<1> QED BY <1>5, <1>6

\* The file ids of a frame of a report.
LEMMA ReportItems ==
    ASSUME body # <<>>, IsReport, NEW k
    PROVE  FrameItems(k) = SubSeq(body, (k - 1) * IdsPerFrame + 1,
                                  IF k * IdsPerFrame <= Len(body)
                                    THEN k * IdsPerFrame ELSE Len(body))
<1> DEFINE l == (k - 1) * IdsPerFrame + 1
           h == IF k * IdsPerFrame <= Len(body) THEN k * IdsPerFrame ELSE Len(body)
<1>1. FrameItems(k) = CASE body = <<>> -> <<>>
                        [] body # <<>> /\ IsReport -> SubSeq(body, l, h)
                        [] OTHER -> IF k = 1 THEN SubSeq(body, 1, 2)
                                             ELSE SubSeq(body, k + 1, k + 1)
    BY DEF FrameItems
<1> HIDE DEF l, h
<1>2. FrameItems(k) = SubSeq(body, l, h)
    BY <1>1
<1> QED BY <1>2 DEF l, h

\* The next frame of a report holds the next file ids, and at most the end mark.
LEMMA ReportFrame ==
    ASSUME IndInv, MixInv, svc = "send", IsReport, NEW fr, fr = ResponseFrame(sent + 1),
           NEW later, later = {body[x] : x \in ((sent + 1) * IdsPerFrame + 1)..Len(body)}
    PROVE  /\ ~ IsPage(fr) /\ Distinct(fr.body) /\ Lacks(fr.body, later)
           /\ later \subseteq Unsent
           /\ \A s : Lacks(s, Unsent) => Apart(s, fr.body)
<1> DEFINE a == sent * IdsPerFrame
           b == IF a + IdsPerFrame <= Len(body) THEN a + IdsPerFrame ELSE Len(body)
           mark == IF sent + 1 = TotalFrames THEN <<EndMark>> ELSE <<>>
           k == sent + 1
           c == FrameItems(k)
<1>0. /\ body \in Seq(Item) /\ DOMAIN body = 1..Len(body) /\ Len(body) \in Nat
      /\ a \in Nat /\ sent \in Nat /\ IdsPerFrame \in Nat \ {0}
      /\ (sent + 1) * IdsPerFrame = a + IdsPerFrame /\ (sent + 1 - 1) * IdsPerFrame = a
    BY NextFrame, ReportLimits, Types
<1>1. fr.body = c \o mark
    BY DEF ResponseFrame
<1>2. ~ IsPage(fr)
    BY DEF ResponseFrame, ResponseStatus, IsPage, NoHeader
<1>3. /\ mark \in Seq(Item) /\ \A i \in DOMAIN mark : mark[i] = EndMark
    BY MarksAreItems, EmptySeq
<1>4. EndMark \notin Files
    BY MarksAreNotFiles
<1>5. /\ Distinct(body) /\ \A i \in DOMAIN body : body[i] \in Files
    BY DEF MixInv, ScanInv
<1>6. Unsent = {body[x] : x \in (a + 1)..Len(body)}
    BY DEF Unsent
<1>7. later = {body[x] : x \in (a + IdsPerFrame + 1)..Len(body)}
    BY <1>0
<1>a. k * IdsPerFrame = a + IdsPerFrame /\ (k - 1) * IdsPerFrame = a
    BY <1>0
<1> HIDE DEF a, k, mark
<1>8. /\ c \in Seq(Item)
      /\ \A i \in DOMAIN c : i \in Nat /\ a + i \in (a + 1)..Len(body) /\ i <= IdsPerFrame
                             /\ c[i] = body[a + i]
  <2>1. CASE body = <<>>
    BY <2>1, EmptySeq DEF FrameItems, k
  <2>2. CASE body # <<>>
    <3>1. c = SubSeq(body, a + 1, b)
      <4>1. FrameItems(k) = SubSeq(body, (k - 1) * IdsPerFrame + 1,
                                   IF k * IdsPerFrame <= Len(body)
                                     THEN k * IdsPerFrame ELSE Len(body))
        BY <2>2, ReportItems
      <4> QED BY <1>a, <4>1 DEF c
    <3>2. a + 1 \in Nat \ {0} /\ b \in Int /\ b <= Len(body) /\ b <= a + IdsPerFrame
      BY <1>0
    <3> HIDE DEF b, c
    <3>3. /\ c \in Seq(Item) /\ Len(c) = IF a + 1 <= b THEN b - (a + 1) + 1 ELSE 0
          /\ \A i \in 1..(b - (a + 1) + 1) : c[i] = body[a + 1 + i - 1]
      BY <1>0, <3>1, <3>2, SubSeqOfSeq
    <3>4. DOMAIN c = 1..Len(c)
      BY <3>3, LenProperties
    <3>5. ASSUME NEW i \in DOMAIN c
          PROVE  /\ i \in Nat /\ a + i \in (a + 1)..Len(body) /\ i <= IdsPerFrame
                 /\ c[i] = body[a + i]
      <4>1. i \in 1..(b - (a + 1) + 1) /\ a + 1 + i - 1 = a + i
        BY <1>0, <3>2, <3>3, <3>4
      <4>2. c[i] = body[a + i]
        BY <3>3, <4>1
      <4>3. i \in Nat /\ a + i <= b /\ i <= b - a /\ a + 1 <= a + i
        BY <1>0, <3>2, <4>1
      <4>4. a + i \in (a + 1)..Len(body) /\ i <= IdsPerFrame
        BY <1>0, <3>2, <4>3
      <4> QED BY <4>2, <4>3, <4>4
    <3> QED BY <3>3, <3>5
  <2> QED BY <2>1, <2>2
<1> HIDE DEF c, b
<1>9. \A i \in DOMAIN c : a + i \in DOMAIN body /\ c[i] \in Files /\ c[i] \in Unsent
  <2>1. \A x \in (a + 1)..Len(body) : x \in DOMAIN body
    BY <1>0
  <2> QED BY <1>5, <1>6, <1>8, <2>1
<1>10. Distinct(c)
    BY <1>0, <1>5, <1>8, <1>9 DEF Distinct
<1>11. Distinct(mark) /\ Apart(c, mark)
    BY <1>3, <1>4 DEF Distinct, Apart
<1>12. Distinct(fr.body)
    BY <1>1, <1>3, <1>8, <1>10, <1>11, JoinDistinct
<1>13. later \subseteq Unsent /\ later \subseteq Files
    BY <1>0, <1>5, <1>6, <1>7
<1>14. Lacks(fr.body, later)
  <2>1. Lacks(mark, later)
    BY <1>3, <1>4, <1>13 DEF Lacks
  <2>2. Lacks(c, later)
    <3> SUFFICES ASSUME NEW i \in DOMAIN c, c[i] \in later PROVE FALSE
      BY DEF Lacks
    <3>1. PICK x \in (a + IdsPerFrame + 1)..Len(body) : c[i] = body[x]
      BY <1>7
    <3>2. x \in DOMAIN body /\ a + i # x
      BY <1>0, <1>8
    <3> QED BY <1>5, <1>8, <1>9, <3>1, <3>2 DEF Distinct
  <2> QED BY <1>1, <1>3, <1>8, <2>1, <2>2, JoinApart
<1>15. ASSUME NEW s, Lacks(s, Unsent) PROVE Apart(s, fr.body)
  <2>1. Apart(s, mark)
    BY <1>3, <1>4 DEF Apart
  <2>2. Apart(s, c)
    BY <1>9, <1>15 DEF Apart, Lacks
  <2> QED BY <1>1, <1>3, <1>8, <2>1, <2>2, JoinApart
<1> QED BY <1>2, <1>12, <1>13, <1>14, <1>15

\* A frame is sent, and another one is to follow or the request is done.
SendOutcome ==
    \/ svc' = "send" /\ sent' = sent + 1 /\ request' = request /\ body' = body
    \/ svc' = "wait_start" /\ sent' = 0 /\ request' = NoRequest /\ body' = <<>>

LEMMA Sent ==
    ASSUME IndInv, SendResponse, UNCHANGED <<agentVars, histVars>>
    PROVE  /\ svc = "send" /\ SendOutcome /\ sent \in Nat /\ request \in Request
           /\ UNCHANGED <<sock, toMirror, faults, fileVars, ver, len, mtime, apc, port, files_id,
                          cur, recv, pending, data, held>>
<1>1. UNCHANGED <<sock, toMirror, faults, fileVars, ver, len, mtime, apc, port, files_id,
                  cur, recv, pending, data, held>>
    BY DEF SendResponse, fileVars, agentVars, histVars
<1>2. svc = "send" /\ sent \in Nat /\ request \in Request
    BY Types DEF SendResponse, IndInv, ServiceInv
<1>3. SendOutcome
    BY <1>2 DEF SendResponse, SendOutcome
<1> QED BY <1>1, <1>2, <1>3

\* To a socket that is closed the frame is sent in vain.
LEMMA SendInVainMix ==
    ASSUME IndInv, MixInv, SendResponse, ~ Busy, UNCHANGED <<agentVars, histVars>>
    PROVE  MixInv'
<1>0. /\ svc = "send" /\ SendOutcome /\ toAgent' = toAgent
      /\ UNCHANGED <<sock, toMirror, faults, fileVars, ver, len, mtime, apc, port, files_id,
                     cur, recv, pending, data, held>>
    BY Sent DEF SendResponse, Deliver, Busy
<1>1. /\ Running' = Running /\ Paging' = Paging /\ Asked' = Asked /\ CurFile' = CurFile
      /\ Current' = Current /\ OnTheWay' = OnTheWay
    BY <1>0 DEF Running, Paging, Asked, CurFile, Current, OnTheWay
<1>2. NoRequest.port = 0 /\ (Running => sock = port /\ port > 0 /\ sock # 0)
    BY Types DEF MixInv, RunInv, Running, NoRequest
<1>3. Running => ~ Busy'
    BY <1>0, <1>2 DEF SendOutcome, Busy
<1>4. /\ NoDisorder' /\ FilesInv' /\ ListInv' /\ FileIntegrity'
      /\ QueueInv' /\ ReceivedInv' /\ WriteInv'
    BY <1>0, <1>1, <1>3, PagesKept
<1>5. RunInv'
    BY <1>0, <1>1 DEF MixInv, RunInv, SendOutcome
<1>6. ScanInv' /\ ServeInv'
    BY <1>0, <1>1 DEF MixInv, ScanInv, ServeInv, SendOutcome, IsReport
<1>7. ReportInv'
    BY <1>0, <1>1, <1>3 DEF MixInv, ReportInv, ReportFirst, ReportOnce, UnsentIsNew
<1>8. AskedInv'
    BY <1>0, <1>1, <1>2 DEF MixInv, AskedInv, ForAsked, SendOutcome
<1>9. LastInv'
  <2>1. Paging /\ request' = Current => request = Current
    BY <1>0, <1>2 DEF SendOutcome, Current, PageRequest, Paging, Running
  <2> QED BY <1>0, <1>1, <2>1 DEF MixInv, LastInv
<1> QED BY <1>4, <1>5, <1>6, <1>7, <1>8, <1>9 DEF MixInv

\* The frame that is sent comes behind all others.
LEMMA Appended ==
    ASSUME IndInv, NEW fr \in Frame, toAgent' = Append(toAgent, fr)
    PROVE  LET z == Len(toAgent) + 1 IN
           /\ z \in Nat /\ z \in DOMAIN toAgent' /\ toAgent'[z] = fr
           /\ DOMAIN toAgent \subseteq Nat
           /\ \A i \in DOMAIN toAgent : i < z /\ toAgent'[i] = toAgent[i]
           /\ \A i \in DOMAIN toAgent' : i = z \/ i \in DOMAIN toAgent
<1>1. toAgent \in Seq(Frame) /\ DOMAIN toAgent = 1..Len(toAgent) /\ Len(toAgent) \in Nat
    BY Types
<1>2. /\ toAgent'[Len(toAgent) + 1] = fr /\ DOMAIN toAgent' = 1..(Len(toAgent) + 1)
      /\ \A i \in 1..Len(toAgent) : toAgent'[i] = toAgent[i]
    BY <1>1, AppendProperties, LenProperties
<1> QED BY <1>1, <1>2

\* And continues the page it is part of.
LEMMA FollowsSent ==
    ASSUME IndInv, MixInv, Running, Busy, svc = "send", SendOutcome, sent \in Nat,
           NEW fr \in Frame, fr = ResponseFrame(sent + 1), toAgent' = Append(toAgent, fr),
           UNCHANGED <<sock, toMirror, ver, held, files_id, cur>>,
           NEW i \in Nat, i <= Len(toAgent), NEW k \in Nat \ {0}, NEW v, NEW n, NEW m,
           Follows(i, k, v, n, m)
    PROVE  Follows(i, k, v, n, m)'
<1> DEFINE z == Len(toAgent) + 1
<1>1. /\ CurFile' = CurFile /\ Current' = Current /\ OnTheWay' = OnTheWay
    BY DEF OnTheWay, CurFile, Current
<1>2. /\ z \in Nat /\ z \in DOMAIN toAgent' /\ toAgent'[z] = fr /\ i < z
      /\ DOMAIN toAgent \subseteq Nat
      /\ \A j \in DOMAIN toAgent : j < z /\ toAgent'[j] = toAgent[j]
      /\ \A j \in DOMAIN toAgent' : j = z \/ j \in DOMAIN toAgent
    BY Appended, Types
<1> HIDE DEF z
<1>3. /\ request = Current /\ k <= sent /\ PageBody(body, CurFile, v, n) /\ Len(body) = m + 1
      /\ \A j \in DOMAIN toAgent : j > i => PartNo(toAgent[j]) <= sent
      /\ InOrder(toAgent, i, k, CurFile, v, n, m)
      /\ Served(CurFile, v, n, m) /\ ~ OnTheWay
    BY DEF Follows, SendsOn
<1>4. n \in Nat /\ m \in 1..n /\ m = Len(body) - 1 /\ sent # 0
    BY <1>3, Types DEF Served
<1>5. ~ IsReport
    BY <1>3 DEF IsReport, Current, PageRequest
<1>6. MoreOf(fr, CurFile, v, n, m) /\ PartNo(fr) = sent + 1
    BY <1>3, <1>4, <1>5, PageFrame
<1>7. \A j \in DOMAIN toAgent :
         j > i => /\ MoreOf(toAgent[j], CurFile, v, n, m)
                  /\ PartNo(toAgent[j]) > k /\ PartNo(toAgent[j]) \in Int
                  /\ PartNo(toAgent[j]) <= sent
    BY <1>3 DEF InOrder, MoreOf
<1>8. InOrder(toAgent', i, k, CurFile, v, n, m)
  <2>1. \A j \in DOMAIN toAgent' :
           j > i => MoreOf(toAgent'[j], CurFile, v, n, m) /\ PartNo(toAgent'[j]) > k
    BY <1>2, <1>3, <1>6, <1>7
  <2>2. ASSUME NEW h \in DOMAIN toAgent', NEW j \in DOMAIN toAgent', i < h, h < j
        PROVE  PartNo(toAgent'[h]) < PartNo(toAgent'[j])
    <3>1. h \in DOMAIN toAgent
      BY <1>2, <2>2
    <3>2. CASE j = z
      BY <1>2, <1>6, <1>7, <2>2, <3>1, <3>2
    <3>3. CASE j \in DOMAIN toAgent
      BY <1>2, <1>3, <2>2, <3>1, <3>3 DEF InOrder
    <3> QED BY <1>2, <3>2, <3>3
  <2> QED BY <2>1, <2>2 DEF InOrder
<1>9. SendsOn(i, k, v, n, m)'
  <2> SUFFICES ASSUME Busy' PROVE SendsOn(i, k, v, n, m)'
    BY DEF SendsOn
  <2>1. svc' = "send" /\ sent' = sent + 1 /\ request' = request /\ body' = body
    <3>1. sock # 0 /\ NoRequest.port = 0
      BY BusyMeans DEF MixInv, NoRequest
    <3> QED BY <3>1 DEF SendOutcome, Busy
  <2>2. \A j \in DOMAIN toAgent' : j > i => PartNo(toAgent'[j]) <= sent + 1
    BY <1>2, <1>6, <1>7
  <2> QED BY <1>1, <1>3, <2>1, <2>2 DEF SendsOn
<1>10. Served(CurFile, v, n, m)'
    BY <1>1, <1>3 DEF Served
<1> QED BY <1>1, <1>3, <1>8, <1>9, <1>10 DEF Follows

\* A page that begins is the answer to the request for the current file, or to
\* one for a file asked for before.
LEMMA PageSent ==
    ASSUME IndInv, MixInv, Running, Busy, svc = "send", SendOutcome, sent \in Nat,
           request \in Request,
           NEW fr \in Frame, fr = ResponseFrame(sent + 1), toAgent' = Append(toAgent, fr),
           UNCHANGED <<sock, toMirror, ver, held, files_id, cur>>,
           IsPage(fr), NEW z, z = Len(toAgent) + 1, NEW m, m = fr.frames
    PROVE  /\ fr.body # <<>> /\ fr.body[1] \in Asked
           /\ Paging /\ fr.body[1] = CurFile =>
                \E v \in 1..ver[CurFile], n \in Lengths :
                   /\ FirstOf(fr, CurFile, v, n, m)
                   /\ Follows(z, 1, v, n, m)'
<1> DEFINE f == request.file
<1>1. sent = 0 /\ ~ IsReport /\ body # <<>>
  <2>1. sent + 1 = 1 /\ ResponseStatus = "pages_returned"
    BY DEF IsPage, ResponseFrame, NoHeader
  <2> QED BY <2>1 DEF ResponseStatus
<1>2. request.port = sock /\ request.cmd = "AGENT_GET_PAGE" /\ f \in Files
      /\ request = PageRequest(request.port, f)
    BY <1>1 DEF Request, IsReport, Busy, PageRequest
<1>3. f \in Asked
    BY <1>2 DEF MixInv, AskedInv, ForAsked
<1>4. PICK v \in 1..ver[f], n \in Lengths :
         PageBody(body, f, v, n) /\ (Paging /\ request = Current => held[f] <= v)
    BY <1>1 DEF MixInv, ServeInv
<1> HIDE DEF f
<1>5. m = Len(body) - 1 /\ n \in Nat /\ m \in 1..n /\ FirstOf(fr, f, v, n, m)
  <2>1. PICK l : l = Len(body) - 1
    OBVIOUS
  <2>2. n \in Nat
    BY Types
  <2>3. l \in 1..n /\ FirstOf(fr, f, v, n, l)
    BY <1>1, <1>4, <2>1, <2>2, PageFrame
  <2> QED BY <2>1, <2>2, <2>3 DEF FirstOf
<1>7. fr.body[1] = f /\ fr.body # <<>>
    BY <1>5, EmptySeq DEF FirstOf, EndLen
<1>8. ASSUME Paging, f = CurFile PROVE Follows(z, 1, v, n, m)'
  <2>1. /\ CurFile' = CurFile /\ Current' = Current /\ OnTheWay' = OnTheWay
    BY DEF OnTheWay, CurFile, Current
  <2>2. request = Current /\ ~ OnTheWay
    BY <1>2, <1>8 DEF Current, MixInv, LastInv
  <2>3. Served(CurFile, v, n, m)'
    BY <1>4, <1>5, <1>8, <2>1, <2>2 DEF Served
  <2>4. \A j \in DOMAIN toAgent' : ~ (j > z)
    BY Appended
  <2>5. SendsOn(z, 1, v, n, m)'
    <3> SUFFICES ASSUME Busy' PROVE SendsOn(z, 1, v, n, m)'
      BY DEF SendsOn
    <3>1. sock # 0 /\ NoRequest.port = 0
      BY BusyMeans DEF MixInv, NoRequest
    <3>2. svc' = "send" /\ sent' = sent + 1 /\ request' = request /\ body' = body
      BY <3>1 DEF SendOutcome, Busy
    <3>3. 1 <= sent' /\ Len(body') = m + 1
      <4>1. Len(body) \in Nat
        BY Types
      <4>2. Len(body') = Len(body) /\ sent' = 0 + 1
        BY <1>1, <3>2
      <4> QED BY <1>5, <4>1, <4>2
    <3> QED BY <1>4, <1>8, <2>1, <2>2, <2>4, <3>2, <3>3 DEF SendsOn
  <2>6. InOrder(toAgent', z, 1, CurFile, v, n, m)
    <3>1. \A j \in DOMAIN toAgent' : j \in Nat
      BY Appended
    <3>2. z \in Nat
      BY Types
    <3>3. \A h, j \in DOMAIN toAgent' : ~ (z < h /\ h < j)
      BY <2>4, <3>1, <3>2
    <3> QED BY <2>4, <3>3 DEF InOrder
  <2> QED BY <2>1, <2>2, <2>3, <2>5, <2>6 DEF Follows
<1> QED BY <1>3, <1>4, <1>5, <1>7, <1>8

\* The next frame of a report: nothing in it has been sent before.
LEMMA ReportSent ==
    ASSUME IndInv, MixInv, Running, Busy, svc = "send", SendOutcome, sent \in Nat,
           request \in Request,
           NEW fr \in Frame, fr = ResponseFrame(sent + 1), toAgent' = Append(toAgent, fr),
           UNCHANGED <<sock, toMirror, recv, cur>>, cur = 0
    PROVE  ReportFirst' /\ ReportOnce' /\ UnsentIsNew'
<1> DEFINE z == Len(toAgent) + 1
           later == {body[x] : x \in ((sent + 1) * IdsPerFrame + 1)..Len(body)}
<1>0. ReportFirst /\ ReportOnce /\ UnsentIsNew
    BY DEF MixInv, ReportInv
<1>1. OnTheWay' = OnTheWay /\ ~ OnTheWay
    BY <1>0 DEF OnTheWay, ReportFirst
<1>2. Busy' => /\ svc' = "send" /\ sent' = sent + 1 /\ sent' # 0 /\ body' = body
  <2>1. sock # 0 /\ NoRequest.port = 0
    BY BusyMeans DEF MixInv, NoRequest
  <2> QED BY <2>1 DEF SendOutcome, Busy
<1>3. ReportFirst'
    BY <1>0, <1>1, <1>2 DEF ReportFirst
<1>4. IsReport
  <2>1. Asked = {}
    BY DEF Asked
  <2>2. ForAsked(request)
    BY DEF MixInv, AskedInv
  <2> QED BY <2>1, <2>2 DEF ForAsked, Busy, IsReport, Request
<1>5. /\ Distinct(fr.body) /\ Lacks(fr.body, later) /\ later \subseteq Unsent
      /\ \A s : Lacks(s, Unsent) => Apart(s, fr.body)
    BY <1>4, ReportFrame
<1>6. Lacks(recv.body, Unsent) /\ \A i \in DOMAIN toAgent : Lacks(toAgent[i].body, Unsent)
    BY <1>0 DEF UnsentIsNew
<1>7. /\ z \in Nat /\ z \in DOMAIN toAgent' /\ toAgent'[z] = fr
      /\ DOMAIN toAgent \subseteq Nat
      /\ \A j \in DOMAIN toAgent : j < z /\ toAgent'[j] = toAgent[j]
      /\ \A j \in DOMAIN toAgent' : j = z \/ j \in DOMAIN toAgent
    BY Appended
<1> HIDE DEF z
<1>8. ReportOnce'
  <2>1. \A i \in DOMAIN toAgent' :
           Distinct(toAgent'[i].body) /\ Apart(recv.body, toAgent'[i].body)
    BY <1>0, <1>5, <1>6, <1>7 DEF ReportOnce
  <2>2. ASSUME NEW i \in DOMAIN toAgent', NEW j \in DOMAIN toAgent', i < j
        PROVE  Apart(toAgent'[i].body, toAgent'[j].body)
    <3>1. i \in DOMAIN toAgent
      BY <1>7, <2>2
    <3>2. CASE j = z
      BY <1>5, <1>6, <1>7, <3>1, <3>2
    <3>3. CASE j \in DOMAIN toAgent
      BY <1>0, <1>7, <2>2, <3>1, <3>3 DEF ReportOnce
    <3> QED BY <1>7, <3>2, <3>3
  <2> QED BY <1>0, <2>1, <2>2 DEF ReportOnce
<1>9. UnsentIsNew'
  <2> SUFFICES ASSUME Busy'
               PROVE  /\ Lacks(recv.body, Unsent')
                      /\ \A i \in DOMAIN toAgent' : Lacks(toAgent'[i].body, Unsent')
    BY DEF UnsentIsNew
  <2>1. Unsent' = later
    BY <1>2 DEF Unsent
  <2> HIDE DEF later
  <2>2. \A s : Lacks(s, Unsent) => Lacks(s, later)
    BY <1>5 DEF Lacks
  <2> QED BY <1>5, <1>6, <1>7, <2>1, <2>2
<1> QED BY <1>3, <1>8, <1>9

\* To the socket of the run the next frame is sent.
LEMMA SendToRunMix ==
    ASSUME IndInv, MixInv, SendResponse, Busy, UNCHANGED <<agentVars, histVars>>
    PROVE  MixInv'
<1> DEFINE fr == ResponseFrame(sent + 1)
<1>0. /\ svc = "send" /\ SendOutcome /\ sent \in Nat /\ request \in Request
      /\ toAgent' = Append(toAgent, fr)
      /\ UNCHANGED <<sock, toMirror, faults, fileVars, ver, len, mtime, apc, port, files_id,
                     cur, recv, pending, data, held>>
    BY Sent DEF SendResponse, Deliver, Busy
<1>1. fr \in Frame
    BY <1>0, ResponseFrameType
<1> HIDE DEF fr
<1>2. Running /\ sock # 0 /\ NoRequest.port = 0
  <2>1. request.port \in 1..port /\ port \in Nat
    BY <1>0, Types DEF MixInv, RunInv
  <2> QED BY <2>1 DEF Busy, MixInv, RunInv, Running, NoRequest
<1>3. /\ Running' /\ Paging' = Paging /\ Asked' = Asked /\ CurFile' = CurFile
      /\ Current' = Current /\ OnTheWay' = OnTheWay
    BY <1>0, <1>2 DEF Running, Paging, Asked, CurFile, Current, OnTheWay
<1>4. \A i \in DOMAIN toAgent' :
         \/ i = Len(toAgent) + 1 /\ toAgent'[i] = fr
         \/ i \in DOMAIN toAgent /\ i \in Nat /\ i <= Len(toAgent) /\ toAgent'[i] = toAgent[i]
    BY <1>0, <1>1, Appended, Types
<1>5. ASSUME NEW i \in Nat, i <= Len(toAgent), NEW k \in Nat \ {0}, NEW v, NEW n, NEW m,
             Follows(i, k, v, n, m)
      PROVE  Follows(i, k, v, n, m)'
    BY <1>0, <1>1, <1>2, <1>5, FollowsSent DEF fr
<1>6. NoDisorder' /\ FilesInv' /\ ListInv' /\ FileIntegrity'
    BY <1>0 DEF MixInv, NoDisorder, FilesInv, Exists, ListInv, FileIntegrity, IsPrefixOf
<1>7. RunInv'
    BY <1>0, <1>2, <1>3 DEF MixInv, RunInv, SendOutcome, Running
<1>8. ScanInv' /\ ServeInv'
    BY <1>0, <1>3 DEF MixInv, ScanInv, ServeInv, SendOutcome, IsReport
<1>9. ReportInv'
    BY <1>0, <1>1, <1>2, ReportSent DEF ReportInv, fr
<1>10. ASSUME IsPage(fr), NEW z, z = Len(toAgent) + 1, NEW m, m = fr.frames
       PROVE  /\ fr.body # <<>> /\ fr.body[1] \in Asked
              /\ Paging /\ fr.body[1] = CurFile =>
                   \E v \in 1..ver[CurFile], n \in Lengths :
                      FirstOf(fr, CurFile, v, n, m) /\ Follows(z, 1, v, n, m)'
    BY <1>0, <1>1, <1>2, <1>10, PageSent DEF fr
<1>11. AskedInv'
  <2>1. ForAsked(request)' /\ \A i \in DOMAIN toMirror : ForAsked(toMirror[i])'
    BY <1>0, <1>2, <1>3 DEF MixInv, AskedInv, ForAsked, SendOutcome
  <2>2. \A i \in DOMAIN toAgent' :
           IsPage(toAgent'[i]) => toAgent'[i].body # <<>> /\ toAgent'[i].body[1] \in Asked
    BY <1>2, <1>4, <1>10 DEF MixInv, AskedInv
  <2> QED BY <1>0, <1>3, <2>1, <2>2 DEF AskedInv
<1>12. LastInv'
  <2>1. request' = Current => request = Current
    BY <1>0, <1>2 DEF SendOutcome, Current, PageRequest
  <2> QED BY <1>0, <1>3, <2>1 DEF MixInv, LastInv
<1>13. QueueInv'
  <2> SUFFICES ASSUME Paging, NEW i \in DOMAIN toAgent',
                      IsPage(toAgent'[i]), toAgent'[i].body[1] = CurFile,
                      NEW m, m = toAgent'[i].frames
               PROVE  \E v \in 1..ver[CurFile], n \in Lengths :
                         FirstOf(toAgent'[i], CurFile, v, n, m) /\ Follows(i, 1, v, n, m)'
    BY <1>0, <1>3 DEF QueueInv
  <2>1. CASE i = Len(toAgent) + 1 /\ toAgent'[i] = fr
    BY <1>10, <2>1
  <2>2. CASE i \in DOMAIN toAgent /\ i \in Nat /\ i <= Len(toAgent) /\ toAgent'[i] = toAgent[i]
    <3>1. PICK v \in 1..ver[CurFile], n \in Lengths :
             FirstOf(toAgent[i], CurFile, v, n, m) /\ Follows(i, 1, v, n, m)
      BY <2>2 DEF MixInv, QueueInv
    <3>2. Follows(i, 1, v, n, m)'
      BY <1>5, <2>2, <3>1
    <3> QED BY <2>2, <3>1, <3>2
  <2> QED BY <1>4, <2>1, <2>2
<1>14. ReceivedInv'
  <2> SUFFICES ASSUME Paging, IsPage(recv), recv.body[1] = CurFile, NEW m, m = recv.frames
               PROVE  /\ recv.got >= 1
                      /\ \E v \in 1..ver[CurFile], n \in Lengths, k \in {recv.got, recv.got + 1} :
                            /\ k <= m
                            /\ Follows(0, k, v, n, m)'
                            /\ k = recv.got => Exact(recv, CurFile, v, n, m)
    BY <1>0, <1>3 DEF ReceivedInv
  <2>1. recv.got >= 1 /\ recv.got \in Nat
    BY Types DEF MixInv, ReceivedInv, Responses
  <2>2. PICK v \in 1..ver[CurFile], n \in Lengths, k \in {recv.got, recv.got + 1} :
           /\ k <= m
           /\ Follows(0, k, v, n, m)
           /\ k = recv.got => Exact(recv, CurFile, v, n, m)
    BY DEF MixInv, ReceivedInv
  <2>3. k \in Nat \ {0}
    BY <2>1, <2>2
  <2>4. 0 \in Nat /\ 0 <= Len(toAgent)
    BY Types
  <2>5. Follows(0, k, v, n, m)'
    BY <1>5, <2>2, <2>3, <2>4
  <2> QED BY <2>1, <2>2, <2>5
<1>15. WriteInv'
    BY <1>0 DEF MixInv, WriteInv
<1> QED BY <1>6, <1>7, <1>8, <1>9, <1>11, <1>12, <1>13, <1>14, <1>15 DEF MixInv

LEMMA SendMix ==
    ASSUME IndInv, MixInv, SendResponse, UNCHANGED <<agentVars, histVars>>
    PROVE  MixInv'
BY SendInVainMix, SendToRunMix

-----------------------------------------------------------------------------
LEMMA MixStep ==
    ASSUME ~ RunsForever, IndInv, IndInv', MixInv, [Next]_vars
    PROVE  MixInv'
<1>1. CASE Tick \/ UNCHANGED vars
    BY <1>1, TickMix
<1>2. CASE MirrorChange
    BY <1>2, MirrorChangeMix
<1>3. CASE ServiceNext
  <2>1. UNCHANGED <<agentVars, histVars>>
    BY <1>3 DEF ServiceNext
  <2> QED BY <1>3, <2>1, ListenMix, ScanMix, ReadMix, SendMix DEF ServiceNext, ServiceStep
<1>4. CASE AgentStart
    BY <1>4, StartMix
<1>5. CASE AgentRun
    BY <1>5, ReceiveFirstMix, ReceiveMoreMix, TimeOutMix, ReportMix, CallMix, EndMix, PageMix,
       WriteFileMix, WriteDoneMix DEF AgentRun
<1>6. CASE AgentBreaks
    BY <1>6, BreakMix
<1>7. CASE Network
    BY <1>7, NetworkMix
<1> QED BY <1>1, <1>2, <1>3, <1>4, <1>5, <1>6, <1>7 DEF Next

\* What is under way belongs together: the invariant that keeps files whole.
THEOREM UnderWayBelongsTogether ==
    ASSUME ~ RunsForever, Faults["dup"] = 0, Faults["swap"] = 0
    PROVE  Spec => []MixInv
<1>1. Init => MixInv
    BY MixInitially
<1>2. IndInv /\ IndInv' /\ MixInv /\ [Next]_vars => MixInv'
    BY MixStep
<1> QED BY InductiveInvariant, <1>1, <1>2, PTL DEF Spec

\* However many datagrams are lost or late, however the mirror writes while it
\* is read and the process is killed: Receive_response, which has nothing but the
\* id to tell pages apart, never puts two versions or two files into one.
THEOREM NoFileIsMixed ==
    ASSUME ~ RunsForever, Faults["dup"] = 0, Faults["swap"] = 0
    PROVE  Spec => []FileIntegrity
<1>1. MixInv => FileIntegrity
    BY DEF MixInv
<1> QED BY UnderWayBelongsTogether, <1>1, PTL

-----------------------------------------------------------------------------
(* The files of the primary are copies of the mirror's: Replica. *)

\* The copy of a file that holds the beginning of one version.
CopyIs(f, v, n) ==
    [ver |-> v, state |-> IF Len(data[f]) = n THEN "whole" ELSE "partial"]

LEMMA CopyOfPrefix ==
    ASSUME NEW f, NEW v, NEW n, IsPrefixOf(f, v, n), data[f] # <<>>,
           1 \in DOMAIN data[f]
    PROVE  CopyOf(f) = CopyIs(f, v, n)
<1>1. data[f][1] = Part(f, v, 1, n)
    BY DEF IsPrefixOf
<1>2. data[f][1].ver = v /\ data[f][1].of = n
    BY <1>1 DEF Part
<1> QED BY <1>2 DEF CopyOf, CopyIs, HasContentOf

\* No copy is mixed, and its version is the one held.
LEMMA CopyNow ==
    ASSUME IndInv, MixInv, NEW f \in Files
    PROVE  /\ data[f] = <<>> => CopyOf(f) = [ver |-> held[f], state |-> "empty"]
           /\ data[f] # <<>> =>
                \E n \in Lengths : IsPrefixOf(f, held[f], n) /\ CopyOf(f) = CopyIs(f, held[f], n)
<1>1. CASE data[f] = <<>>
    BY <1>1 DEF CopyOf
<1>2. CASE data[f] # <<>>
  <2>1. PICK v \in 1..ver[f], n \in Lengths : IsPrefixOf(f, v, n)
    BY <1>2 DEF MixInv, FileIntegrity
  <2>2. data[f] \in Seq(Item)
    BY Types
  <2>3. 1 \in DOMAIN data[f]
    BY <1>2, <2>2, LenProperties, EmptySeq
  <2>4. held[f] = v
    <3>1. data[f][1] = Part(f, v, 1, n)
      BY <2>1, <2>3 DEF IsPrefixOf
    <3>2. data[f][1].ver = v
      BY <3>1 DEF Part
    <3> QED BY <1>2, <3>2 DEF MixInv, FilesInv
  <2>5. CopyOf(f) = CopyIs(f, v, n)
    BY <1>2, <2>1, <2>3, CopyOfPrefix
  <2> QED BY <1>2, <2>1, <2>4, <2>5
<1> QED BY <1>1, <1>2

\* A copy depends on the contents and on the version held only.
LEMMA CopyKept ==
    ASSUME NEW f, data'[f] = data[f], held'[f] = held[f]
    PROVE  CopyOf(f)' = CopyOf(f)
<1>1. \A v, n : IsPrefixOf(f, v, n)' = IsPrefixOf(f, v, n)
    BY DEF IsPrefixOf
<1>2. \A v, n : HasContentOf(f, v, n)' = HasContentOf(f, v, n)
    BY <1>1 DEF HasContentOf
<1> QED BY <1>1, <1>2 DEF CopyOf

LEMMA CopyInitially ==
    ASSUME Init
    PROVE  Copies!Init
<1>1. data = [f \in Files |-> <<>>] /\ held = [f \in Files |-> 0]
    BY DEF Init, AgentInit
<1>2. ver \in [Files -> Nat]
    BY InitialState, Types
<1>3. \A f \in Files : CopyOf(f) = [ver |-> 0, state |-> "empty"]
    BY <1>1 DEF CopyOf
<1> QED BY <1>2, <1>3 DEF Copies!Init

\* Neither the mirror's files nor the copies change.
LEMMA CopyStutters ==
    ASSUME UNCHANGED <<ver, data, held>>
    PROVE  UNCHANGED Copies!vars
<1>1. \A f \in Files : CopyOf(f)' = CopyOf(f)
    BY CopyKept
<1> QED BY <1>1 DEF Copies!vars

LEMMA CopyPublish ==
    ASSUME IndInv, MirrorChange
    PROVE  Copies!Next
<1>1. ver \in [Files -> Nat] /\ data' = data /\ held' = held
    BY Types DEF MirrorChange, agentVars, histVars
<1>2. PICK f \in Files : ver' = [ver EXCEPT ![f] = @ + 1]
    BY DEF MirrorChange, MirrorWrite, MirrorRemove
<1>3. \A g \in Files : CopyOf(g)' = CopyOf(g)
    BY <1>1, CopyKept
<1>4. Copies!Publish(f)
    BY <1>2, <1>3 DEF Copies!Publish
<1> QED BY <1>4 DEF Copies!Next

LEMMA CopyEmpty ==
    ASSUME IndInv, MixInv, NEW f \in Files, data' = [data EXCEPT ![f] = <<>>],
           held' = held, ver' = ver
    PROVE  Copies!Next
<1>1. data \in [Files -> Seq(Item)]
    BY Types
<1>2. \A g \in Files : g # f => CopyOf(g)' = CopyOf(g)
    BY <1>1, CopyKept
<1>3. CopyOf(f)' = [ver |-> held[f], state |-> "empty"]
    BY <1>1 DEF CopyOf
<1>4. \/ CopyOf(f) = [ver |-> held[f], state |-> "empty"]
      \/ \E n : CopyOf(f) = [ver |-> held[f], state |-> IF Len(data[f]) = n THEN "whole" ELSE "partial"]
    BY CopyNow DEF CopyIs
<1>5. CopyOf(f)' = [CopyOf(f) EXCEPT !.state = "empty"]
    BY <1>3, <1>4
<1>6. Copies!Empty(f)
    BY <1>2, <1>5 DEF Copies!Empty
<1> QED BY <1>6 DEF Copies!Next

LEMMA CopyChanges ==
    ASSUME NEW g \in Files, NEW c, CopyOf(g)' = c,
           \A h \in Files : h # g => CopyOf(h)' = CopyOf(h)
    PROVE  /\ [f \in Files |-> CopyOf(f)]' = [[f \in Files |-> CopyOf(f)] EXCEPT ![g] = c]
           /\ [f \in Files |-> CopyOf(f)][g] = CopyOf(g)
OBVIOUS

\* With the first piece a copy begins; any other continues or completes it.
LEMMA CopyWritten ==
    ASSUME IndInv, MixInv, AgentRun, WriteFile, ver' = ver
    PROVE  Copies!Next \/ UNCHANGED Copies!vars
<1> DEFINE f == CurFile
           d == Len(data[f])
           copy == [h \in Files |-> CopyOf(h)]
<1>a. NextPiece(f, d) /\ d = Len(data[f])
    BY PieceWritten
<1> HIDE DEF f, d
<1>1. PICK v \in 1..ver[f], n \in Lengths :
         /\ held[f] <= v /\ d + Len(pending) <= n /\ v \in Nat /\ n \in Nat
         /\ Len(pending) \in Nat \ {0} /\ d \in Nat /\ f \in Files
         /\ \A k \in 1..d : data[f][k] = Part(f, v, k, n)
         /\ Len(data'[f]) = d + 1 /\ data'[f] # <<>> /\ DOMAIN data'[f] = 1..(d + 1)
         /\ \A k \in 1..(d + 1) : data'[f][k] = Part(f, v, k, n)
         /\ held'[f] = v
         /\ \A g \in Files : g # f => held'[g] = held[g] /\ data'[g] = data[g]
    BY <1>a DEF NextPiece
<1>2. \A g \in Files : g # f => CopyOf(g)' = CopyOf(g)
    BY <1>1, CopyKept
<1>3. PICK g : g = f
    OBVIOUS
<1>4. CopyOf(g)' = [ver |-> v, state |-> IF d + 1 = n THEN "whole" ELSE "partial"]
  <2>1. IsPrefixOf(g, v, n)'
    BY <1>1, <1>3 DEF IsPrefixOf
  <2>2. data'[g][1].ver = v /\ data'[g][1].of = n
    <3>1. data'[g][1] = Part(f, v, 1, n)
      BY <1>1, <1>3
    <3> QED BY <3>1 DEF Part
  <2>3. HasContentOf(g, v, n)' <=> d + 1 = n
    BY <1>1, <1>3, <2>1 DEF HasContentOf
  <2> QED BY <1>1, <1>3, <2>1, <2>2, <2>3 DEF CopyOf
<1>5. g \in Files /\ held[g] <= v /\ v \in held[g]..ver[g]
    BY <1>1, <1>3, Types
<1>6. CASE data[g] = <<>>
  <2>1. CopyOf(g) = [ver |-> held[g], state |-> "empty"]
    BY <1>5, <1>6, CopyNow
  <2>2. PICK s \in {"partial", "whole"} : CopyOf(g)' = [ver |-> v, state |-> s]
    BY <1>4
  <2>3. /\ copy' = [copy EXCEPT ![g] = [ver |-> v, state |-> s]]
        /\ copy[g] = [ver |-> held[g], state |-> "empty"]
    BY <1>2, <1>3, <1>5, <2>1, <2>2, CopyChanges
  <2>4. Copies!Begin(g)
    <3> HIDE DEF copy
    <3>1. copy[g].state = "empty" /\ copy[g].ver = held[g]
      BY <2>3
    <3>2. UNCHANGED ver
      OBVIOUS
    <3>3. v \in copy[g].ver..ver[g]
      BY <1>5, <3>1
    <3>4. \E w \in copy[g].ver..ver[g], t \in {"partial", "whole"} :
             copy' = [copy EXCEPT ![g] = [ver |-> w, state |-> t]]
      BY <2>3, <3>3
    <3> QED BY <3>1, <3>2, <3>4 DEF Copies!Begin, copy
  <2> QED BY <1>5, <2>4 DEF Copies!Next
<1>7. CASE data[g] # <<>>
  <2>0. ver' = ver
    OBVIOUS
  <2>1. d \in Nat \ {0} /\ DOMAIN data[g] = 1..d
    <3>1. data[g] \in Seq(Item)
      BY <1>5, Types
    <3> QED BY <1>a, <1>3, <1>7, <3>1, LenProperties, EmptySeq
  <2>2. IsPrefixOf(g, v, n)
    BY <1>a, <1>1, <1>3, <2>1 DEF IsPrefixOf
  <2>3. CopyOf(g) = [ver |-> v, state |-> "partial"]
    <3>1. CopyOf(g) = CopyIs(g, v, n)
      BY <1>7, <2>1, <2>2, CopyOfPrefix
    <3>2. Len(data[g]) # n
      BY <1>a, <1>1, <1>3
    <3> QED BY <3>1, <3>2 DEF CopyIs
  <2>4. CASE d + 1 = n
    <3>1. CopyOf(g)' = [ver |-> v, state |-> "whole"]
      BY <1>4, <2>4
    <3>2. /\ copy' = [copy EXCEPT ![g] = [ver |-> v, state |-> "whole"]]
          /\ copy[g] = [ver |-> v, state |-> "partial"]
      BY <1>2, <1>3, <1>5, <2>3, <3>1, CopyChanges
    <3>3. Copies!Complete(g)
      <4> HIDE DEF copy
      <4>1. copy[g].state = "partial" /\ UNCHANGED ver
        BY <2>0, <3>2
      <4>2. [copy[g] EXCEPT !.state = "whole"] = [ver |-> v, state |-> "whole"]
        BY <3>2
      <4>3. copy' = [copy EXCEPT ![g].state = "whole"]
        BY <3>2, <4>2
      <4> QED BY <4>1, <4>3 DEF Copies!Complete, copy
    <3> QED BY <1>5, <3>3 DEF Copies!Next
  <2>5. CASE d + 1 # n
    <3>1. \A h \in Files : CopyOf(h)' = CopyOf(h)
      BY <1>2, <1>3, <1>4, <2>3, <2>5
    <3> QED BY <3>1 DEF Copies!vars
  <2> QED BY <2>4, <2>5
<1> QED BY <1>6, <1>7

LEMMA CopyStep ==
    ASSUME IndInv, MixInv, [Next]_vars
    PROVE  [Copies!Next]_(Copies!vars)
<1>1. CASE Tick \/ UNCHANGED vars \/ ServiceNext \/ AgentStart \/ AgentBreaks \/ Network
  <2>1. data' = data /\ held' = held
    BY <1>1 DEF Tick, vars, agentVars, histVars, ServiceNext, AgentStart, AgentMain, AgentBreaks,
                WriteFails, CloseFails, Kill, Network
  <2>2. ver' = ver
    BY <1>1 DEF Tick, vars, fileVars, AgentStart, AgentBreaks, Network, ServiceNext, ServiceStep,
                ListenRequest, ScanFile, ScanEnd, CountSize, ReadContents, SendResponse
  <2> QED BY <2>1, <2>2, CopyStutters
<1>2. CASE MirrorChange
    BY <1>2, CopyPublish
<1>3. CASE AgentRun
  <2>0. ver' = ver
    BY <1>3 DEF AgentRun, fileVars
  <2>1. CASE WriteFile
    BY <1>3, <2>0, <2>1, CopyWritten
  <2>2. CASE ProcessPage /\ data' # data
    <3>1. data' = [data EXCEPT ![CurFile] = <<>>] /\ cur # 0
      BY <2>2 DEF ProcessPage, Opened, CurFile
    <3>2. CurFile \in Files /\ data \in [Files -> Seq(Item)]
      <4>1. cur \in Nat /\ data \in [Files -> Seq(Item)]
        BY Types
      <4>2. cur > 0
        BY <3>1, <4>1
      <4> QED BY <4>1, <4>2, Elements
    <3>3. \A f \in Files : data'[f] \in {data[f], <<>>}
      BY <3>1, <3>2
    <3>4. held' = held
      BY <1>3, <3>3, HeldKept
    <3> QED BY <2>0, <3>1, <3>2, <3>4, CopyEmpty
  <2>3. CASE data' = data
    <3>1. held' = held
      BY <1>3, <2>3, HeldKept
    <3> QED BY <2>0, <2>3, <3>1, CopyStutters
  <2>4. WriteFile \/ ProcessPage \/ data' = data
    BY <1>3 DEF AgentRun, ReceiveFirst, ReceiveMore, TimeOut, ProcessReport, CallGetPage, AgentEnd,
                Buffered, WriteDone
  <2> QED BY <2>1, <2>2, <2>3, <2>4
<1> QED BY <1>1, <1>2, <1>3 DEF Next

\* The synchronisation implements Replica: a file of the primary is emptied,
\* then filled with one version, never an older one than it held before.
THEOREM SynchronisationIsReplica ==
    ASSUME ~ RunsForever, Faults["dup"] = 0, Faults["swap"] = 0
    PROVE  Spec => ImplementsReplica
<1>1. IndInv /\ MixInv /\ [Next]_vars => [Copies!Next]_(Copies!vars)
    BY CopyStep
<1> QED BY InductiveInvariant, UnderWayBelongsTogether, CopyInitially, <1>1, PTL
        DEF Spec, ImplementsReplica, Copies!Spec

-----------------------------------------------------------------------------
(* Whole pages, if the mirror changes between the runs only. *)

\* A state in which no run is under way, or nothing of it concerns pages.
LEMMA NotRunning ==
    ASSUME apc = "idle"
    PROVE  WholePages
BY DEF WholePages, CountIsRight, PagesWhole, WriteWhole, Running

LEMMA WholeInitially == Init => WholePages
BY NotRunning DEF Init, AgentInit

\* The agent receives, or gives up, and writes nothing.
LEMMA AgentPages ==
    ASSUME IndInv, MixInv, WholePages, Running, UNCHANGED svcVars, UNCHANGED fileVars,
           sock' = sock, apc' \notin {"write", "close"},
           \A i \in DOMAIN toAgent' : \E j \in DOMAIN toAgent : toAgent'[i] = toAgent[j],
           IsPage(recv') => AllParts(recv'.body, recv'.frames)
    PROVE  WholePages'
<1>1. UNCHANGED <<svc, request, body, size, len, sock>>
    BY DEF svcVars, fileVars
<1>2. Busy' = Busy /\ IsReport' = IsReport
    BY <1>1 DEF Busy, IsReport
<1>3. CountIsRight'
    BY <1>1, <1>2 DEF WholePages, CountIsRight
<1>4. PagesWhole'
    BY <1>1, <1>2 DEF WholePages, PagesWhole
<1> QED BY <1>3, <1>4 DEF WholePages, WriteWhole

LEMMA NothingIsNoPage == ~ IsPage(NothingReceived)
BY DEF IsPage, NothingReceived, NoHeader

LEMMA GiveUpPages ==
    ASSUME IndInv, MixInv, WholePages, Running, UNCHANGED svcVars, UNCHANGED fileVars,
           NEW queue, GiveUp(queue), Thin(queue, toAgent)
    PROVE  WholePages'
<1>1. CASE cur = 0
  <2>1. apc' = "idle"
    BY <1>1 DEF GiveUp, Exit
  <2> QED BY <2>1, NotRunning
       DEF WholePages, CountIsRight, PagesWhole, WriteWhole, Running
<1>2. CASE cur # 0
  <2>1. apc' = "call" /\ recv' = NothingReceived /\ toAgent' = queue /\ sock' = sock
    BY <1>2 DEF GiveUp
  <2> QED BY <2>1, ThinElement, NothingIsNoPage, AgentPages
<1> QED BY <1>1, <1>2

LEMMA ReceivePages ==
    ASSUME IndInv, MixInv, WholePages, AgentRun, ReceiveFirst \/ ReceiveMore
    PROVE  WholePages'
<1> DEFINE fr == toAgent[1]
<1>1. /\ apc \in {"wait_first", "wait_more"} /\ Running /\ toAgent # <<>>
      /\ UNCHANGED svcVars /\ UNCHANGED fileVars
    BY DEF ReceiveFirst, ReceiveMore, AgentRun, Running
<1>2. /\ 1 \in DOMAIN toAgent /\ Head(toAgent) = fr /\ fr \in Frame
      /\ Thin(Tail(toAgent), toAgent)
    BY <1>1, TailOfQueue
<1> HIDE DEF fr
<1>3. CASE ReceiveFirst /\ ~ ValidHeader(fr)
  <2>1. GiveUp(Tail(toAgent))
    BY <1>2, <1>3 DEF ReceiveFirst
  <2> QED BY <1>1, <1>2, <2>1, GiveUpPages
<1>4. CASE ReceiveFirst /\ ValidHeader(fr)
  <2>1. /\ recv' = [status |-> fr.status, frames |-> fr.frames, got |-> 1, body |-> fr.body]
        /\ apc' \notin {"write", "close"} /\ toAgent' = Tail(toAgent) /\ sock' = sock
    BY <1>2, <1>4 DEF ReceiveFirst
  <2>2. IsPage(fr) => AllParts(fr.body, fr.frames)
    BY <1>1, <1>2 DEF WholePages, PagesWhole, fr
  <2>3. IsPage(recv') => AllParts(recv'.body, recv'.frames)
    BY <2>1, <2>2 DEF IsPage
  <2>4. \A i \in DOMAIN toAgent' : \E j \in DOMAIN toAgent : toAgent'[i] = toAgent[j]
    BY <1>2, <2>1, ThinElement
  <2>5. apc' \notin {"write", "close"} /\ sock' = sock
    BY <2>1
  <2> QED BY <1>1, <2>3, <2>4, <2>5, AgentPages
<1>5. CASE ReceiveMore
  <2>1. /\ recv'.status = recv.status /\ recv'.frames = recv.frames
        /\ recv'.body = recv.body \o Raw(fr)
        /\ apc' \notin {"write", "close"} /\ toAgent' = Tail(toAgent) /\ sock' = sock
    BY <1>2, <1>5 DEF ReceiveMore
  <2>2. recv.body \in Seq(Item) /\ Raw(fr) \in Seq(Item)
    BY <1>2, Types, RawFiles DEF Responses
  <2>3. ASSUME IsPage(recv) PROVE AllParts(recv'.body, recv'.frames)
    <3>1. Len(recv.body) >= 2 /\ recv.body[2].of = recv.frames
      BY <1>1, <2>3 DEF WholePages, PagesWhole, AllParts
    <3>2. /\ Len(recv'.body) = Len(recv.body) + Len(Raw(fr))
          /\ \A i \in 1..(Len(recv.body) + Len(Raw(fr))) :
                recv'.body[i] = IF i <= Len(recv.body) THEN recv.body[i]
                                ELSE Raw(fr)[i - Len(recv.body)]
          /\ Len(recv.body) \in Nat /\ Len(Raw(fr)) \in Nat
      BY <2>1, <2>2, ConcatProperties, LenProperties
    <3>3. Len(recv'.body) >= 2 /\ recv'.body[2] = recv.body[2]
      BY <3>1, <3>2
    <3> QED BY <2>1, <3>1, <3>3 DEF AllParts
  <2>4. IsPage(recv') => AllParts(recv'.body, recv'.frames)
    BY <2>1, <2>3 DEF IsPage
  <2>5. \A i \in DOMAIN toAgent' : \E j \in DOMAIN toAgent : toAgent'[i] = toAgent[j]
    <3>1. toAgent' = Tail(toAgent)
      BY <2>1
    <3>2. Thin(toAgent', toAgent)
      BY <1>2, <3>1
    <3> QED BY <3>2, ThinElement
  <2>6. apc' \notin {"write", "close"} /\ sock' = sock
    BY <2>1
  <2> QED BY <1>1, <2>4, <2>5, <2>6, AgentPages
<1> QED BY <1>3, <1>4, <1>5

\* A page that is accepted has the id, the parts of one version, and the end bytes.
LEMMA PageExact ==
    ASSUME IndInv, MixInv, apc = "received", cur # 0, PageAccepted(recv, CurFile)
    PROVE  /\ CurFile \in Files /\ Paging /\ IsPage(recv)
           /\ recv.frames \in Nat \ {0} /\ Len(recv.body) = recv.frames + 2
           /\ recv.body \in Seq(Item)
<1> DEFINE f == CurFile
<1>1. /\ f \in Files /\ Paging /\ recv \in Responses /\ recv.body \in Seq(Item)
      /\ IsPage(recv) /\ recv.body[1] = f /\ recv.got = recv.frames
      /\ recv.got \in Nat /\ recv.frames \in Nat
  <2>1. cur > 0 /\ recv \in Responses
    BY Types
  <2>2. f \in Files /\ Paging
    BY <2>1, Elements DEF Paging
  <2>3. IsPage(recv) /\ recv.body[1] = f
    BY DEF PageAccepted, IsPage
  <2>4. recv.got = recv.frames
    BY DEF MixInv, RunInv
  <2> QED BY <2>1, <2>2, <2>3, <2>4 DEF Responses
<1>2. /\ recv.got >= 1
      /\ \E v \in 1..ver[f], n \in Lengths, k \in {recv.got, recv.got + 1} :
            /\ k <= recv.frames
            /\ Follows(0, k, v, n, recv.frames)
            /\ k = recv.got => Exact(recv, f, v, n, recv.frames)
    BY <1>1 DEF MixInv, ReceivedInv
<1> HIDE DEF f
<1>3. PICK v \in 1..ver[f], n \in Lengths : Exact(recv, f, v, n, recv.frames)
    BY <1>1, <1>2
<1>4. Len(recv.body) = recv.frames + 2
    BY <1>1, <1>3 DEF Exact, EndLen
<1> QED BY <1>1, <1>2, <1>4 DEF f

LEMMA ProcessPages ==
    ASSUME IndInv, MixInv, WholePages, AgentRun, ProcessPage
    PROVE  WholePages'
<1> DEFINE f == CurFile
<1>0. /\ apc = "received" /\ cur # 0 /\ recv' = NothingReceived /\ Running
      /\ UNCHANGED svcVars /\ UNCHANGED fileVars
      /\ UNCHANGED <<sock, toAgent, files_id, cur>>
    BY DEF ProcessPage, AgentRun, netVars, Running
<1>1. CASE ~ (PageAccepted(recv, f) /\ f \in Creatable)
  <2>1. apc' \notin {"write", "close"}
    BY <1>1 DEF ProcessPage, CurFile
  <2> QED BY <1>0, <2>1, NothingIsNoPage, AgentPages
<1>2. CASE PageAccepted(recv, f) /\ f \in Creatable
  <2>1. /\ data' = [data EXCEPT ![f] = <<>>] /\ pending' = Tail(InnerBody(recv))
        /\ apc' = "write" /\ CurFile' = f /\ data \in [Files -> Seq(Item)]
    BY <1>0, <1>2, Types DEF ProcessPage, Opened, CurFile
  <2>2. /\ f \in Files /\ IsPage(recv) /\ recv.frames \in Nat \ {0}
        /\ Len(recv.body) = recv.frames + 2 /\ recv.body \in Seq(Item)
    BY <1>0, <1>2, PageExact
  <2>3. recv.body[2].of = recv.frames
    BY <1>0, <2>2 DEF WholePages, PagesWhole, AllParts
  <2>4. data'[f] = <<>>
    BY <2>1, <2>2
  <2>5. Len(pending') = recv.frames /\ pending'[1] = recv.body[2]
    <3> DEFINE b == InnerBody(recv)
    <3>1. /\ b \in Seq(Item) /\ b # <<>> /\ Len(b) = Len(recv.body) - 1
          /\ \A i \in 1..(Len(recv.body) - 1) : b[i] = recv.body[i]
      BY <1>2, Types, InnerBodyType DEF PageAccepted
    <3>2. pending' = Tail(b)
      BY <2>1
    <3> HIDE DEF b
    <3>3. Len(Tail(b)) = Len(b) - 1 /\ \A i \in 1..(Len(b) - 1) : Tail(b)[i] = b[i + 1]
      BY <3>1, HeadTailProperties
    <3>4. 1 \in 1..(Len(b) - 1) /\ 2 \in 1..(Len(recv.body) - 1) /\ 1 + 1 = 2
      BY <2>2, <3>1
    <3> QED BY <2>2, <3>1, <3>2, <3>3, <3>4
  <2>6. WriteWhole'
    <3>1. Len(data'[f]) = 0 /\ 0 + recv.frames = recv.frames /\ recv.frames > 0
      BY <2>2, <2>4
    <3> QED BY <2>1, <2>3, <2>4, <2>5, <3>1 DEF WriteWhole
  <2>7. UNCHANGED <<svc, request, body, size, len>> /\ Busy' = Busy /\ IsReport' = IsReport
    BY <1>0 DEF svcVars, fileVars, Busy, IsReport
  <2>8. CountIsRight'
    BY <1>0, <2>7 DEF WholePages, CountIsRight
  <2>9. PagesWhole'
    BY <1>0, <2>7, NothingIsNoPage DEF WholePages, PagesWhole
  <2> QED BY <2>6, <2>8, <2>9 DEF WholePages
<1> QED BY <1>1, <1>2

\* What is written and what is still to write make up the same as before.
LEMMA WritePages ==
    ASSUME IndInv, MixInv, WholePages, AgentRun, WriteFile
    PROVE  WholePages'
<1> DEFINE f == CurFile
           w == data[f]
<1>0. /\ apc \in {"write", "close"} /\ apc' = apc /\ pending # <<>> /\ pending' = Tail(pending)
      /\ data' = [data EXCEPT ![f] = Append(w, Head(pending))] /\ CurFile' = f
      /\ UNCHANGED <<svc, request, body, size, len, sock, toAgent, recv>>
    BY DEF WriteFile, AgentRun, netVars, svcVars, fileVars, CurFile
<1>1. /\ f \in Files /\ data \in [Files -> Seq(Item)] /\ w \in Seq(Item)
      /\ pending \in Seq(Item) /\ Running
  <2>1. cur # 0
    BY <1>0 DEF IndInv, AgentInv
  <2>2. f \in Files
    BY <2>1, Types, Elements
  <2>3. data \in [Files -> Seq(Item)] /\ pending \in Seq(Item)
    BY Types
  <2> HIDE DEF f
  <2> QED BY <1>0, <2>2, <2>3 DEF Running
<1>2. /\ Len(w) + Len(pending) > 0
      /\ (IF w = <<>> THEN pending[1] ELSE w[1]).of = Len(w) + Len(pending)
    BY <1>0 DEF WholePages, WriteWhole
<1>3. /\ Len(pending) \in Nat \ {0} /\ Head(pending) = pending[1] /\ pending[1] \in Item
      /\ Len(pending') = Len(pending) - 1
  <2>1. /\ Len(pending) \in Nat \ {0} /\ Head(pending) = pending[1]
        /\ Len(Tail(pending)) = Len(pending) - 1
    BY <1>0, <1>1, HeadTailProperties, LenProperties, EmptySeq
  <2>2. pending[1] \in Item
    BY <1>1, <2>1, ElementOfSeq
  <2> QED BY <1>0, <2>1, <2>2
<1> HIDE DEF f
<1>4. data'[f] = Append(w, Head(pending))
    BY <1>0, <1>1
<1> HIDE DEF w
<1>5. /\ Len(data'[f]) = Len(w) + 1 /\ Len(w) \in Nat
      /\ \A i \in 1..Len(w) : data'[f][i] = w[i]
      /\ data'[f][Len(w) + 1] = pending[1]
    BY <1>1, <1>3, <1>4, AppendProperties, LenProperties
<1>6. data'[f] # <<>> /\ Len(data'[f]) + Len(pending') = Len(w) + Len(pending)
    BY <1>3, <1>5
<1>7. data'[f][1] = IF w = <<>> THEN pending[1] ELSE w[1]
  <2>1. CASE w = <<>>
    <3>1. Len(w) + 1 = 1
      BY <2>1
    <3> QED BY <1>5, <2>1, <3>1
  <2>2. CASE w # <<>>
    <3>1. 1 \in 1..Len(w)
      BY <1>1, <1>5, <2>2, EmptySeq
    <3> QED BY <1>5, <2>2, <3>1
  <2> QED BY <2>1, <2>2
<1>8. WriteWhole'
    BY <1>0, <1>2, <1>6, <1>7 DEF WriteWhole
<1>9. Busy' = Busy /\ IsReport' = IsReport
    BY <1>0 DEF Busy, IsReport
<1>10. CountIsRight' /\ PagesWhole'
    BY <1>0, <1>1, <1>9 DEF WholePages, CountIsRight, PagesWhole
<1> QED BY <1>8, <1>10 DEF WholePages

LEMMA AgentStepPages ==
    ASSUME IndInv, MixInv, WholePages, AgentRun
    PROVE  WholePages'
<1>0. UNCHANGED svcVars /\ UNCHANGED fileVars
    BY DEF AgentRun
<1>1. CASE ReceiveFirst \/ ReceiveMore
    BY <1>1, ReceivePages
<1>2. CASE TimeOut
  <2>1. Running /\ GiveUp(toAgent) /\ Thin(toAgent, toAgent)
    BY <1>2, Types, ThinSelf DEF TimeOut, Waiting, Running
  <2> QED BY <1>0, <2>1, GiveUpPages
<1>3. CASE ProcessReport \/ AgentEnd
  <2>1. CASE apc' = "idle"
    BY <2>1 DEF WholePages, CountIsRight, PagesWhole, WriteWhole, Running
  <2>2. CASE apc' # "idle"
    <3>1. /\ apc' = "call" /\ recv' = NothingReceived /\ UNCHANGED <<sock, toAgent>>
          /\ Running
      BY <1>3, <2>2 DEF ProcessReport, AgentEnd, Exit, Running
    <3> QED BY <1>0, <3>1, NothingIsNoPage, AgentPages
  <2> QED BY <2>1, <2>2
<1>4. CASE CallGetPage \/ WriteDone
  <2>1. apc' \notin {"write", "close"} /\ UNCHANGED <<sock, toAgent, recv>> /\ Running
    BY <1>4 DEF CallGetPage, WriteDone, netVars, Running
  <2>2. IsPage(recv') => AllParts(recv'.body, recv'.frames)
    BY <2>1 DEF WholePages, PagesWhole
  <2> QED BY <1>0, <2>1, <2>2, AgentPages
<1>5. CASE ProcessPage
    BY <1>5, ProcessPages
<1>6. CASE WriteFile
    BY <1>6, WritePages
<1>7. CASE Buffered
  <2>1. /\ apc = "write" /\ apc' = "close" /\ Running /\ Running'
        /\ UNCHANGED <<toAgent, sock, svc, request, body, size, len, cur, files_id, recv,
                       pending, data>>
    BY <1>0, <1>7 DEF Buffered, Running, netVars, svcVars, fileVars
  <2> QED BY <2>1 DEF WholePages, CountIsRight, PagesWhole, WriteWhole, Busy, IsReport, CurFile
<1> QED BY <1>1, <1>2, <1>3, <1>4, <1>5, <1>6, <1>7 DEF AgentRun

LEMMA BreakPages ==
    ASSUME IndInv, MixInv, WholePages, AgentBreaks
    PROVE  WholePages'
<1>1. CASE Kill
  <2>1. apc' = "idle"
    BY <1>1 DEF Kill, Exit
  <2> QED BY <2>1 DEF WholePages, CountIsRight, PagesWhole, WriteWhole, Running
<1>2. CASE WriteFails \/ CloseFails
  <2>1. /\ apc' \notin {"write", "close"} /\ UNCHANGED <<sock, toAgent, recv>> /\ Running
        /\ UNCHANGED svcVars /\ UNCHANGED fileVars
    BY <1>2 DEF WriteFails, CloseFails, Running, AgentBreaks
  <2>2. IsPage(recv') => AllParts(recv'.body, recv'.frames)
    BY <2>1 DEF WholePages, PagesWhole
  <2> QED BY <2>1, <2>2, AgentPages
<1> QED BY <1>1, <1>2 DEF AgentBreaks

LEMMA StartPages ==
    ASSUME IndInv, MixInv, AgentStart, ~ RunsForever
    PROVE  WholePages'
<1>0. /\ apc = "idle" /\ apc' = "wait_first" /\ port \in Nat /\ port' = port + 1
      /\ sock' = port' /\ toAgent' = <<>> /\ recv = NothingReceived
      /\ UNCHANGED <<request, recv>>
    BY Types DEF AgentStart, AgentMain, svcVars, MixInv, RunInv
<1>1. request.port \in 0..port
    BY <1>0 DEF MixInv, RunInv, NoRequest
<1>2. ~ Busy'
    BY <1>0, <1>1 DEF Busy
<1>3. DOMAIN toAgent' = {}
    BY <1>0
<1> QED BY <1>0, <1>2, <1>3, NothingIsNoPage
        DEF WholePages, CountIsRight, PagesWhole, WriteWhole

\* Nothing is read yet of the request that is taken, or nothing of a page.
LEMMA TakePages ==
    ASSUME IndInv, MixInv, WholePages,
           ListenRequest \/ ScanEnd \/ \E f \in Files : ScanFile(f),
           UNCHANGED <<agentVars, histVars>>
    PROVE  WholePages'
<1>1. /\ svc' \in {"scan", "count", "send"} /\ (svc' = "send" => IsReport')
      /\ UNCHANGED <<apc, cur, files_id, sock, toAgent, recv, pending, data>>
    BY DEF IndInv, ServiceInv, IsReport, ListenRequest, Dispatch, ScanEnd, ScanFile, agentVars,
           netVars
<1>2. CountIsRight' /\ PagesWhole' /\ WriteWhole'
    BY <1>1 DEF WholePages, CountIsRight, PagesWhole, WriteWhole, Running, CurFile
<1> QED BY <1>2 DEF WholePages

LEMMA CountPages ==
    ASSUME IndInv, MixInv, WholePages, CountSize, UNCHANGED <<agentVars, histVars>>
    PROVE  WholePages'
<1>1. /\ svc' \in {"read", "send"} /\ body' = <<>>
      /\ svc' = "read" => size' = len[request.file]
      /\ UNCHANGED <<apc, cur, files_id, sock, toAgent, recv, pending, data, len, request>>
    BY DEF IndInv, ServiceInv, CountSize, Counted, agentVars, netVars, fileVars
<1>2. CountIsRight' /\ PagesWhole' /\ WriteWhole'
    BY <1>1 DEF WholePages, CountIsRight, PagesWhole, WriteWhole, Running, CurFile
<1> QED BY <1>2 DEF WholePages

\* As many parts are read as the file has.
LEMMA ReadPages ==
    ASSUME IndInv, MixInv, WholePages, ReadContents, UNCHANGED <<agentVars, histVars>>
    PROVE  WholePages'
<1> DEFINE f == request.file
<1>1. /\ svc = "read" /\ svc' \in {"send", "crashed"} /\ body = <<>> /\ ~ IsReport
      /\ UNCHANGED <<apc, cur, files_id, sock, toAgent, recv, pending, data, request>>
    BY DEF IndInv, ServiceInv, ReadContents, agentVars, netVars
<1>2. Running' = Running /\ Busy' = Busy
    BY <1>1 DEF Running, Busy
<1>3. ASSUME Running, Busy, body' # <<>> PROVE AllParts(body', Len(body') - 1)
  <2> DEFINE content == Content(f, ver[f], len[f])
  <2>1. /\ size # 0 /\ size = len[f] /\ Exists(f)
        /\ body' = <<f>> \o SubSeq(content, 1, size)
    BY <1>1, <1>3 DEF WholePages, CountIsRight, ReadContents
  <2>2. f \in Files /\ ver[f] \in Nat /\ len[f] \in Nat \ {0}
    <3>1. f \in Files
      BY <1>1 DEF IndInv, ServiceInv, IsReport, Request
    <3> QED BY <2>1, <3>1, Types
  <2>3. content \in Seq(Item) /\ Len(content) = len[f]
    <3>1. content \in [1..len[f] -> Item]
      BY <2>2 DEF Content, Part, Item, Parts
    <3> QED BY <2>2, <3>1
  <2>4. content[1].of = len[f]
    BY <2>2 DEF Content, Part
  <2> HIDE DEF content
  <2>5. /\ SubSeq(content, 1, size) \in Seq(Item) /\ Len(SubSeq(content, 1, size)) = len[f]
        /\ SubSeq(content, 1, size)[1] = content[1]
    <3>1. /\ SubSeq(content, 1, size) \in Seq(Item)
          /\ Len(SubSeq(content, 1, size)) = IF 1 <= size THEN size - 1 + 1 ELSE 0
          /\ \A k \in 1..(size - 1 + 1) : SubSeq(content, 1, size)[k] = content[1 + k - 1]
      BY <2>1, <2>2, <2>3, SubSeqOfSeq
    <3>2. 1 \in 1..(size - 1 + 1) /\ 1 + 1 - 1 = 1
      BY <2>1, <2>2
    <3> QED BY <2>1, <2>2, <3>1, <3>2
  <2>6. <<f>> \in Seq(Item) /\ Len(<<f>>) = 1
    BY <2>2, MarksAreItems
  <2>7. Len(body') = 1 + len[f] /\ body'[2] = content[1]
    <3> DEFINE c == SubSeq(content, 1, size)
               h == <<f>>
    <3>1. /\ body' = h \o c /\ c \in Seq(Item) /\ h \in Seq(Item)
          /\ Len(c) = len[f] /\ Len(h) = 1 /\ c[1] = content[1]
      BY <2>1, <2>5, <2>6
    <3> HIDE DEF c, h
    <3>2. /\ Len(body') = Len(h) + Len(c)
          /\ \A i \in 1..(Len(h) + Len(c)) :
                body'[i] = IF i <= Len(h) THEN h[i] ELSE c[i - Len(h)]
      BY <3>1, ConcatProperties
    <3>3. 2 \in 1..(Len(h) + Len(c)) /\ ~ (2 <= Len(h)) /\ 2 - Len(h) = 1
      BY <2>2, <3>1
    <3> QED BY <3>1, <3>2, <3>3
  <2>8. Len(body') - 1 = len[f] /\ Len(body') >= 2
    BY <2>2, <2>7
  <2> QED BY <2>4, <2>7, <2>8 DEF AllParts
<1>4. CountIsRight' /\ PagesWhole' /\ WriteWhole'
    BY <1>1, <1>2, <1>3 DEF WholePages, CountIsRight, PagesWhole, WriteWhole, CurFile
<1> QED BY <1>4 DEF WholePages

LEMMA SendPages ==
    ASSUME IndInv, MixInv, WholePages, SendResponse, UNCHANGED <<agentVars, histVars>>
    PROVE  WholePages'
<1> DEFINE fr == ResponseFrame(sent + 1)
<1>1. /\ svc = "send" /\ SendOutcome /\ sent \in Nat
      /\ UNCHANGED <<apc, cur, files_id, sock, recv, pending, data, ver>>
      /\ toAgent' = IF Busy THEN Append(toAgent, fr) ELSE toAgent
    BY Sent DEF SendResponse, Deliver, Busy
<1>2. Running' = Running /\ CurFile' = CurFile
    BY <1>1 DEF Running, CurFile
<1>3. CountIsRight' /\ WriteWhole'
    BY <1>1, <1>2 DEF WholePages, CountIsRight, WriteWhole, SendOutcome
<1>4. PagesWhole'
  <2> SUFFICES ASSUME Running PROVE PagesWhole'
    BY <1>2 DEF PagesWhole
  <2>1. IsPage(recv') => AllParts(recv'.body, recv'.frames)
    BY <1>1 DEF WholePages, PagesWhole
  <2>2. Busy' /\ svc' = "send" /\ ~ IsReport' /\ body' # <<>> => AllParts(body', Len(body') - 1)
    BY <1>1 DEF WholePages, PagesWhole, SendOutcome, Busy, IsReport
  <2>3. ASSUME Busy, IsPage(fr) PROVE AllParts(fr.body, fr.frames)
    <3>1. sent = 0 /\ ~ IsReport /\ body # <<>>
      <4>1. sent = 0
        BY <1>1, <2>3 DEF IsPage, ResponseFrame, NoHeader
      <4>2. sent + 1 = 1
        BY <4>1
      <4> QED BY <2>3, <4>1, <4>2 DEF IsPage, ResponseFrame, ResponseStatus
    <3>2. AllParts(body, Len(body) - 1)
      BY <1>1, <2>3, <3>1 DEF WholePages, PagesWhole
    <3>3. PICK v \in 1..ver[request.file], n \in Lengths : PageBody(body, request.file, v, n)
      BY <1>1, <3>1 DEF MixInv, ServeInv
    <3>4. n \in Nat
      BY Types
    <3>5. FirstOf(fr, request.file, v, n, Len(body) - 1) /\ Len(body) - 1 \in 1..n
      BY <1>1, <3>1, <3>3, <3>4, PageFrame
    <3>6. n = Len(body) - 1
      <4>1. 1 \in 1..(Len(body) - 1)
        BY <3>4, <3>5
      <4>2. body[2] = Part(request.file, v, 1, n)
        <5>1. body[1 + 1] = Part(request.file, v, 1, n)
          BY <3>3, <4>1 DEF PageBody
        <5> QED BY <5>1
      <4> QED BY <3>2, <4>2 DEF AllParts, Part
    <3> HIDE DEF fr
    <3>7. fr.frames = n /\ fr.body[2].of = n
      BY <3>5, <3>6 DEF FirstOf, Part
    <3>8. Len(fr.body) >= 2
      BY <3>5, <3>6, <3>4 DEF FirstOf, EndLen
    <3> QED BY <3>7, <3>8 DEF AllParts
  <2>4. \A i \in DOMAIN toAgent' :
           IsPage(toAgent'[i]) => AllParts(toAgent'[i].body, toAgent'[i].frames)
    <3>1. \A i \in DOMAIN toAgent :
             IsPage(toAgent[i]) => AllParts(toAgent[i].body, toAgent[i].frames)
      BY DEF WholePages, PagesWhole
    <3>2. CASE ~ Busy
      BY <1>1, <3>1, <3>2
    <3>3. CASE Busy
      <4>1. fr \in Frame /\ toAgent' = Append(toAgent, fr)
        BY <1>1, <3>3, ResponseFrameType
      <4> HIDE DEF fr
      <4>2. \A i \in DOMAIN toAgent' :
               \/ toAgent'[i] = fr
               \/ i \in DOMAIN toAgent /\ toAgent'[i] = toAgent[i]
        BY <4>1, Appended
      <4> QED BY <2>3, <3>1, <3>3, <4>2
    <3> QED BY <3>2, <3>3
  <2> QED BY <2>1, <2>2, <2>4 DEF PagesWhole
<1> QED BY <1>3, <1>4 DEF WholePages

LEMMA NetworkPages ==
    ASSUME IndInv, MixInv, WholePages, Network
    PROVE  WholePages'
<1>1. UNCHANGED <<sock, svc, request, body, size, len, apc, cur, files_id, recv, pending, data>>
    BY DEF Network, fileVars, svcVars, agentVars
<1>2. Lose
  <2>1. faults["dup"] = 0 /\ faults["swap"] = 0
    BY DEF MixInv, NoDisorder
  <2> QED BY <2>1 DEF Network, NetworkFault, Duplicate, Reorder, Spend
<1>3. Thin(toAgent', toAgent)
  <2>1. toAgent \in Seq(Frame)
    BY Types
  <2> QED BY <1>2, <2>1, ThinRemove, ThinSelf DEF Lose
<1>4. Busy' = Busy /\ IsReport' = IsReport /\ Running' = Running /\ CurFile' = CurFile
    BY <1>1 DEF Busy, IsReport, Running, CurFile
<1>5. \A i \in DOMAIN toAgent' : \E j \in DOMAIN toAgent : toAgent'[i] = toAgent[j]
    BY <1>3, ThinElement
<1>6. CountIsRight' /\ WriteWhole'
    BY <1>1, <1>4 DEF WholePages, CountIsRight, WriteWhole
<1>7. PagesWhole'
    BY <1>1, <1>4, <1>5 DEF WholePages, PagesWhole
<1> QED BY <1>6, <1>7 DEF WholePages

LEMMA WholeStep ==
    ASSUME QuietRuns, ~ RunsForever, IndInv, MixInv, WholePages, [Next]_vars
    PROVE  WholePages'
<1>1. CASE Tick \/ UNCHANGED vars
  <2>1. UNCHANGED <<toAgent, sock, svc, request, body, size, len, apc, cur, files_id, recv,
                    pending, data>>
    BY <1>1 DEF Tick, vars, netVars, fileVars, svcVars, agentVars
  <2> QED BY <2>1 DEF WholePages, CountIsRight, PagesWhole, WriteWhole, Running, Busy, IsReport,
                      CurFile
<1>2. CASE MirrorChange
  <2>1. apc' = "idle"
    BY <1>2 DEF MirrorChange, MirrorMayChange, agentVars
  <2> QED BY <2>1 DEF WholePages, CountIsRight, PagesWhole, WriteWhole, Running
<1>3. CASE ServiceNext
  <2>1. UNCHANGED <<agentVars, histVars>>
    BY <1>3 DEF ServiceNext
  <2> QED BY <1>3, <2>1, TakePages, CountPages, ReadPages, SendPages DEF ServiceNext, ServiceStep
<1>4. CASE AgentStart
    BY <1>4, StartPages
<1>5. CASE AgentRun
    BY <1>5, AgentStepPages
<1>6. CASE AgentBreaks
    BY <1>6, BreakPages
<1>7. CASE Network
    BY <1>7, NetworkPages
<1> QED BY <1>1, <1>2, <1>3, <1>4, <1>5, <1>6, <1>7 DEF Next

\* The agent goes on from fclose when all is written, or the disk is full.
LEMMA LastPieceClosed ==
    ASSUME IndInv, [Next]_vars, PrintsSynchronized, ~ DiskIsFull
    PROVE  apc = "close" /\ pending = <<>>
<1>0. apc = "close" /\ apc' = "call" /\ faults'["disk"] = faults["disk"]
    BY DEF PrintsSynchronized, DiskIsFull
<1>1. apc' # apc
    BY <1>0
<1>2. AgentStart \/ AgentRun \/ AgentBreaks
    BY <1>1 DEF Next, vars, agentVars, Tick, MirrorChange, ServiceNext, Network
<1>3. ~ AgentBreaks
  <2>1. ASSUME Spend("disk") PROVE FALSE
    <3>1. faults \in [FaultKind -> Nat] /\ "disk" \in FaultKind
      BY Types DEF FaultKind
    <3>2. faults'["disk"] = faults["disk"] - 1 /\ faults["disk"] \in Nat
      BY <2>1, <3>1 DEF Spend
    <3> QED BY <1>0, <3>2
  <2> QED BY <1>0, <2>1 DEF AgentBreaks, WriteFails, CloseFails, Kill, Exit
<1> QED BY <1>0, <1>2, <1>3 DEF AgentStart, AgentMain, AgentRun, ReceiveFirst, ReceiveMore, TimeOut,
        Waiting, ProcessReport, CallGetPage, AgentEnd, ProcessPage, WriteFile, Buffered, WriteDone

\* If the mirror changes between the runs only, every file the agent calls
\* synchronised is one version of the mirror's as a whole, unless the disk was full
\* at the fclose just before.
THEOREM WrittenFilesAreWhole ==
    ASSUME QuietRuns, ~ RunsForever, Faults["dup"] = 0, Faults["swap"] = 0
    PROVE  Spec => WrittenFileIsWhole
<1> DEFINE Printed == LET f == files_id[cur] IN
                      \E v \in 1..ver[f], n \in Lengths : HasContentOf(f, v, n)
<1>1. Init => WholePages
    BY WholeInitially
<1>2. IndInv /\ MixInv /\ WholePages /\ [Next]_vars => WholePages'
    BY WholeStep
<1>3. IndInv /\ MixInv /\ WholePages /\ [Next]_vars
         => (PrintsSynchronized /\ ~ DiskIsFull => Printed)
  <2>0. ASSUME IndInv, [Next]_vars, PrintsSynchronized, ~ DiskIsFull
        PROVE  apc = "close" /\ pending = <<>>
    BY <2>0, LastPieceClosed
  <2> SUFFICES ASSUME IndInv, MixInv, WholePages, apc = "close", pending = <<>>
               PROVE  Printed
    BY <2>0
  <2> DEFINE w == data[CurFile]
  <2>1. PICK v \in 1..ver[CurFile], n \in Lengths : Writes(CurFile, v, n)
    BY DEF MixInv, WriteInv
  <2>2. w \in Seq(Item) /\ Len(w) \in Nat /\ DOMAIN w = 1..Len(w) /\ n \in Nat
    <3>0. cur # 0
      BY DEF IndInv, AgentInv
    <3>1. cur > 0 /\ data \in [Files -> Seq(Item)] /\ n \in Nat
      <4>1. /\ cur \in 0..Len(files_id) /\ Len(files_id) \in Nat
            /\ data \in [Files -> Seq(Item)] /\ Lengths \subseteq Nat
        BY Types
      <4> QED BY <3>0, <4>1
    <3>2. CurFile \in Files
      BY <3>1, Elements
    <3>3. w \in Seq(Item)
      BY <3>1, <3>2
    <3> QED BY <3>1, <3>3, LenProperties
  <2>3. Len(pending) = 0 /\ w # <<>> /\ w[1].of = Len(w)
    <3>1. Len(pending) = 0
      OBVIOUS
    <3>2. /\ Len(w) + Len(pending) > 0
          /\ (IF w = <<>> THEN pending[1] ELSE w[1]).of = Len(w) + Len(pending)
      BY DEF WholePages, WriteWhole
    <3>3. Len(w) > 0 /\ Len(w) + Len(pending) = Len(w)
      BY <2>2, <3>1, <3>2
    <3>4. w # <<>>
      BY <3>3
    <3> QED BY <3>1, <3>2, <3>3, <3>4
  <2>4. /\ Len(w) <= n
        /\ \A k \in 1..Len(w) : w[k] = Part(CurFile, v, k, n)
    BY <2>1, <2>2, <2>3 DEF Writes
  <2>5. 1 \in 1..Len(w)
    BY <2>2, <2>3, EmptySeq
  <2>6. Len(w) = n
    <3>1. w[1] = Part(CurFile, v, 1, n)
      BY <2>4, <2>5
    <3> QED BY <2>3, <3>1 DEF Part
  <2>7. HasContentOf(CurFile, v, n)
    BY <2>2, <2>4, <2>6 DEF HasContentOf, IsPrefixOf
  <2> QED BY <2>1, <2>7 DEF CurFile
<1> HIDE DEF Printed
<1>4. IndInv /\ MixInv /\ WholePages /\ [Next]_vars => [PrintsSynchronized /\ ~ DiskIsFull => Printed]_vars
    BY <1>3
<1>5. WrittenFileIsWhole <=> [][PrintsSynchronized /\ ~ DiskIsFull => Printed]_vars
    BY PTL DEF WrittenFileIsWhole, Printed
<1> QED BY InductiveInvariant, UnderWayBelongsTogether, <1>1, <1>2, <1>4, <1>5, PTL DEF Spec
=============================================================================
