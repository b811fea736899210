------------------------- MODULE Completeness_proofs -------------------------
(***************************************************************************)
(* Proofs of what a run brings over: a lost datagram or a full disk costs  *)
(* one file, except for the first frame of a page of three frames or more; *)
(* a run without losses fetches all that is on its list; "No Changes" is   *)
(* true; and what is up to date is not fetched again.  This holds for      *)
(* every set of files, every length of files and size of reports, and any  *)
(* number of runs and versions.                                            *)
(***************************************************************************)
EXTENDS Completeness, AgentSync_proofs, FiniteSetTheorems

\* Answers are in time and in order, and files stay.
InTime ==
    /\ Timely
    /\ ~ RunsForever
    /\ ~ Removals
    /\ Faults["dup"] = 0 /\ Faults["swap"] = 0

-----------------------------------------------------------------------------
(* What a step leaves as it was. *)

LEMMA SameExchange ==
    ASSUME UNCHANGED <<sock, toMirror, toAgent, request, svc, sent, body, recv, cur, files_id>>
    PROVE  /\ Busy' = Busy /\ OnTheWay' = OnTheWay /\ Unanswered' = Unanswered /\ Quiet' = Quiet
           /\ IsReport' = IsReport /\ ResponseStatus' = ResponseStatus
           /\ TotalFrames' = TotalFrames /\ Left' = Left /\ InSight' = InSight
           /\ FirstGone' = FirstGone /\ CurFile' = CurFile /\ Current' = Current
           /\ Intact' = Intact
           /\ \A m : AnswerOf(m)' = AnswerOf(m)
           /\ \A rq : ForCurrent(rq)' = ForCurrent(rq)
<1>1. Busy' = Busy /\ OnTheWay' = OnTheWay /\ IsReport' = IsReport
      /\ CurFile' = CurFile /\ Current' = Current
    BY DEF Busy, OnTheWay, IsReport, CurFile, Current
<1>2. ResponseStatus' = ResponseStatus /\ TotalFrames' = TotalFrames
    BY <1>1 DEF ResponseStatus, TotalFrames
<1>3. Left' = Left
    BY <1>1, <1>2 DEF Left
<1>4. InSight' = InSight
    BY <1>3 DEF InSight
<1>5. FirstGone' = FirstGone /\ Unanswered' = Unanswered /\ Quiet' = Quiet
    BY <1>1 DEF FirstGone, Unanswered, Quiet
<1>6. \A m : AnswerOf(m)' = AnswerOf(m)
    BY <1>1, <1>2, <1>4, <1>5 DEF AnswerOf
<1>7. Intact' = Intact
  <2>1. EndInSight' = EndInSight
    BY <1>1 DEF EndInSight, Marked
  <2>2. AnswerOf(InSight)' = AnswerOf(InSight)
    BY <1>1, <1>2, <1>4, <1>5 DEF AnswerOf
  <2> QED BY <1>5, <2>1, <2>2 DEF Intact
<1>8. \A rq : ForCurrent(rq)' = ForCurrent(rq)
    BY <1>1 DEF ForCurrent
<1> QED BY <1>1, <1>2, <1>3, <1>4, <1>5, <1>6, <1>7, <1>8

LEMMA ExchangeKept ==
    ASSUME ExchangeInv, apc' = apc,
           UNCHANGED <<sock, toMirror, toAgent, request, svc, sent, body, recv, cur, files_id>>
    PROVE  ExchangeInv'
<1>1. Running' = Running /\ Asking' = Asking
    BY DEF Running, Asking
<1> QED BY <1>1, SameExchange DEF ExchangeInv

LEMMA SameProper ==
    ASSUME UNCHANGED <<cur, files_id, ver, len, mtime, began>>
    PROVE  \A s, b, m : Proper(s, b, m)' = Proper(s, b, m)
<1>1. CurFile' = CurFile
    BY DEF CurFile
<1>2. Steady(CurFile)' = Steady(CurFile) /\ Exists(CurFile)' = Exists(CurFile)
      /\ len[CurFile]' = len[CurFile]
    BY <1>1 DEF Steady, Exists
<1>3. \A b, m : Present(CurFile, b, m)' = Present(CurFile, b, m)
    BY <1>1 DEF Present
<1> QED BY <1>1, <1>2, <1>3 DEF Proper

LEMMA SameMissed ==
    ASSUME UNCHANGED <<ver, len, mtime, data, began, files_id>>
    PROVE  /\ \A f : Synchronized(f)' = Synchronized(f) /\ Steady(f)' = Steady(f)
           /\ \A k : Missed(k)' = Missed(k)
<1>1. \A f : Synchronized(f)' = Synchronized(f) /\ Steady(f)' = Steady(f)
    BY DEF Synchronized, Steady, Exists, HasContentOf, IsPrefixOf
<1> QED BY <1>1 DEF Missed

\* Once a run is over, or before it has come to an end.
LEMMA LossAtEnd ==
    ASSUME RestInv', apc' = "idle", LossCostsOneFile'
    PROVE  LossInv'
BY DEF LossInv, ExchangeInv, AnswerInv, WritingInv, CostInv, Running, Asking

LEMMA NoCostYet ==
    ASSUME outcome # "ended"
    PROVE  LossCostsOneFile
BY DEF LossCostsOneFile

\* While a run is under way it has not ended.
LEMMA LossUnderWay ==
    ASSUME LossInv, Running, outcome' = outcome,
           RestInv', ExchangeInv', AnswerInv', WritingInv', Cost' <= Lost'
    PROVE  LossInv'
<1>1. outcome # "ended"
    BY DEF LossInv, CostInv
<1>2. LossCostsOneFile'
    BY <1>1 DEF LossCostsOneFile
<1> QED BY <1>1, <1>2 DEF LossInv, CostInv

-----------------------------------------------------------------------------
(* Counting the files that are left behind. *)

LEMMA MissedFinite ==
    ASSUME NEW k \in Int
    PROVE  IsFiniteSet(Missed(k)) /\ Cardinality(Missed(k)) \in Nat
<1> DEFINE listed == {f \in Files : \E i \in 1..k : files_id[i] = f}
           names  == {i \in 1..k : files_id[i] \in Files}
           g      == [i \in names |-> files_id[i]]
<1>1. IsFiniteSet(1..k) /\ names \in SUBSET (1..k)
    BY FS_Interval
<1>2. IsFiniteSet(names)
    BY <1>1, FS_Subset
<1>3. g \in Surjection(names, listed)
  <2>1. g \in [names -> listed]
    OBVIOUS
  <2>2. \A f \in listed : \E i \in names : g[i] = f
    OBVIOUS
  <2> QED BY <2>1, <2>2 DEF Surjection
<1>4. IsFiniteSet(listed)
    BY <1>2, <1>3, FS_Surjection
<1>5. Missed(k) \in SUBSET listed
    BY DEF Missed
<1>6. IsFiniteSet(Missed(k))
    BY <1>4, <1>5, FS_Subset
<1> QED BY <1>6, FS_CardinalityType

\* Done with one file more: it costs one, or nothing if it was brought over.
LEMMA MissedNext ==
    ASSUME NEW k \in Nat, NEW f, f = files_id[k + 1]
    PROVE  /\ Cardinality(Missed(k + 1)) <= Cardinality(Missed(k)) + 1
           /\ Synchronized(f) \/ ~ Steady(f) => Missed(k + 1) = Missed(k)
<1>1. 1..(k + 1) = (1..k) \cup {k + 1}
    OBVIOUS
<1>2. Missed(k + 1) \in SUBSET (Missed(k) \cup {f})
    BY <1>1 DEF Missed
<1>3. Missed(k) \subseteq Missed(k + 1)
    BY <1>1 DEF Missed
<1>4. Synchronized(f) \/ ~ Steady(f) => f \notin Missed(k + 1)
    BY DEF Missed
<1>5. Cardinality(Missed(k + 1)) <= Cardinality(Missed(k)) + 1
  <2>1. IsFiniteSet(Missed(k)) /\ Cardinality(Missed(k)) \in Nat
    BY MissedFinite
  <2>2. /\ IsFiniteSet(Missed(k) \cup {f})
        /\ Cardinality(Missed(k) \cup {f}) <= Cardinality(Missed(k)) + 1
    BY <2>1, FS_AddElement
  <2>3. /\ Cardinality(Missed(k + 1)) <= Cardinality(Missed(k) \cup {f})
        /\ Cardinality(Missed(k + 1)) \in Nat /\ Cardinality(Missed(k) \cup {f}) \in Nat
    BY <1>2, <2>2, FS_Subset, FS_CardinalityType, MissedFinite
  <2> QED BY <2>1, <2>2, <2>3
<1> QED BY <1>2, <1>3, <1>4, <1>5

\* Fewer are missed if none is missed that was not.
LEMMA MissedLess ==
    ASSUME NEW k \in Int, Missed(k)' \subseteq Missed(k)
    PROVE  Cardinality(Missed(k)') \in Nat /\ Cardinality(Missed(k)') <= Cardinality(Missed(k))
BY MissedFinite, FS_Subset, FS_CardinalityType

LEMMA CostType ==
    ASSUME IndInv
    PROVE  DoneWith \in Int /\ Cardinality(Missed(DoneWith)) \in Nat /\ Cost \in Nat
<1>1. DoneWith \in Int
    BY Types DEF DoneWith
<1>2. Cardinality(Missed(DoneWith)) \in Nat
    BY <1>1, MissedFinite
<1> QED BY <1>1, <1>2 DEF Cost

LEMMA LostType ==
    ASSUME IndInv
    PROVE  /\ Lost \in Int
           /\ \A k \in {"loss", "disk", "head"} : faults[k] \in Nat /\ Faults[k] \in Nat
<1>1. \A k \in {"loss", "disk", "head"} : faults[k] \in Nat /\ Faults[k] \in Nat
  <2>1. {"loss", "disk", "head"} \subseteq FaultKind
    BY DEF FaultKind
  <2>2. faults \in [FaultKind -> Nat] /\ Faults \in [FaultKind -> Nat]
    BY Types, FaultsAreCounted
  <2> QED BY <2>1, <2>2
<1> QED BY <1>1 DEF Lost

\* The files on the list are finitely many.
LEMMA ListedFiles ==
    ASSUME IndInv
    PROVE  /\ ToSet(files_id) = {files_id[i] : i \in 1..Len(files_id)}
           /\ ToSet(files_id) \subseteq Files
           /\ IsFiniteSet(ToSet(files_id)) /\ IsFiniteSet(LeftBehind)
<1>1. /\ DOMAIN files_id = 1..Len(files_id) /\ Len(files_id) \in Nat
      /\ \A i \in 1..Len(files_id) : files_id[i] \in Files
    BY Types, ElementOfSeq
<1>2. ToSet(files_id) = {files_id[i] : i \in 1..Len(files_id)}
    BY <1>1 DEF ToSet
<1> DEFINE g == [i \in 1..Len(files_id) |-> files_id[i]]
<1>3. g \in Surjection(1..Len(files_id), ToSet(files_id))
  <2>1. g \in [1..Len(files_id) -> ToSet(files_id)]
    BY <1>2
  <2>2. \A f \in ToSet(files_id) : \E i \in 1..Len(files_id) : g[i] = f
    BY <1>2
  <2> QED BY <2>1, <2>2 DEF Surjection
<1>4. IsFiniteSet(ToSet(files_id))
    BY <1>1, <1>3, FS_Interval, FS_Surjection
<1>5. LeftBehind \in SUBSET ToSet(files_id)
    BY DEF LeftBehind
<1> QED BY <1>1, <1>2, <1>4, <1>5, FS_Subset

-----------------------------------------------------------------------------
(* The clock, and the mirror's files. *)

LEMMA TickLoss ==
    ASSUME IndInv, LossInv, Tick \/ UNCHANGED vars
    PROVE  LossInv'
<1>1. UNCHANGED <<sock, toMirror, toAgent, faults, ver, len, mtime, svc, request, body, sent, size,
                  apc, files_id, cur, recv, pending, data, outcome, began>>
    BY DEF Tick, vars, netVars, fileVars, svcVars, agentVars, histVars
<1>2. RestInv'
  <2>1. began <= now /\ now' \in {now, now + 1} /\ now \in Nat /\ began \in Nat
    BY DEF LossInv, RestInv, Tick, vars, IndInv, TypeOK, BaseTypeOK
  <2> QED BY <1>1, <2>1 DEF LossInv, RestInv, NoHeadLost, Exists
<1>3. ExchangeInv'
    BY <1>1, ExchangeKept DEF LossInv
<1>4. Running' = Running /\ Asking' = Asking /\ Lost' = Lost
    BY <1>1 DEF Running, Asking, Lost
<1>5. AnswerInv'
    BY <1>1, <1>4, SameExchange, SameProper, SameMissed DEF LossInv, AnswerInv
<1>6. WritingInv'
    BY <1>1, SameExchange, SameMissed DEF LossInv, WritingInv
<1>7. DoneWith' = DoneWith
    BY <1>1 DEF DoneWith
<1>8. Missed(DoneWith)' = Missed(DoneWith)
    BY <1>1, <1>7, SameMissed DEF Missed
<1>9. CostInv'
    BY <1>1, <1>4, <1>8, SameExchange DEF LossInv, CostInv, Cost
<1>10. LossCostsOneFile'
  <2>1. LeftBehind' = LeftBehind
    BY <1>1, SameMissed DEF LeftBehind
  <2> QED BY <1>1, <1>4, <2>1 DEF LossInv, LossCostsOneFile
<1> QED BY <1>2, <1>3, <1>5, <1>6, <1>9, <1>10 DEF LossInv

\* A file that is changed is not steady, as long as a run is under way.
LEMMA SteadyKept ==
    ASSUME IndInv, RestInv, InTime, MirrorChange, NEW f \in Files,
           (Running /\ Steady(f)') \/ mtime'[f] < began'
    PROVE  /\ ver'[f] = ver[f] /\ len'[f] = len[f] /\ mtime'[f] = mtime[f] /\ Steady(f)
           /\ (mtime'[f] < began' => mtime[f] < began)
<1>0. /\ ver \in [Files -> Nat] /\ len \in [Files -> Nat] /\ mtime \in [Files -> Nat]
      /\ began' = began /\ began <= now /\ now \in Nat /\ began \in Nat
    BY Types DEF MirrorChange, histVars, RestInv, IndInv, TypeOK, BaseTypeOK
<1>1. PICK g \in Files, n \in Lengths : MirrorWrite(g, n)
    BY DEF MirrorChange, InTime, MirrorRemove
<1>2. mtime'[f] < began
    BY <1>0 DEF MirrorChange, MirrorMayChange, Running, Steady
<1>3. f # g
    BY <1>0, <1>1, <1>2 DEF MirrorWrite
<1> QED BY <1>0, <1>1, <1>2, <1>3 DEF MirrorWrite, Steady

\* In none of the files that are steady anything is missed that was not.
LEMMA MirrorKeepsMissed ==
    ASSUME IndInv, RestInv, InTime, MirrorChange, NEW f \in Files,
           (Running /\ Steady(f)') \/ mtime'[f] < began', ~ Synchronized(f)'
    PROVE  ~ Synchronized(f) /\ Steady(f) /\ (mtime'[f] < began' => mtime[f] < began)
<1>1. ver'[f] = ver[f] /\ len'[f] = len[f] /\ mtime'[f] = mtime[f] /\ data' = data
    BY SteadyKept DEF MirrorChange, agentVars
<1>2. Synchronized(f)' = Synchronized(f)
    BY <1>1 DEF Synchronized, Exists, HasContentOf, IsPrefixOf
<1> QED BY <1>2, SteadyKept

LEMMA MirrorLoss ==
    ASSUME IndInv, MixInv, LossInv, InTime, MirrorChange
    PROVE  LossInv'
<1>1. UNCHANGED <<sock, toMirror, toAgent, faults, svc, request, body, sent, size, now,
                  apc, files_id, cur, recv, pending, data, outcome, began>>
  <2>1. UNCHANGED <<agentVars, histVars>>
    BY DEF MirrorChange
  <2>2. UNCHANGED <<now, sock, netVars, svcVars>>
    BY DEF MirrorChange, MirrorWrite, MirrorRemove
  <2> QED BY <2>1, <2>2 DEF netVars, svcVars, agentVars, histVars
<1>0. /\ ver \in [Files -> Nat] /\ len \in [Files -> Nat] /\ mtime \in [Files -> Nat]
      /\ RestInv /\ now \in Nat
    BY Types DEF LossInv, IndInv, TypeOK, BaseTypeOK
<1>2. RestInv'
  <2>1. \A f \in Files : Exists(f) => Exists(f)'
    <3>1. PICK g \in Files, n \in Lengths : MirrorWrite(g, n)
      BY DEF MirrorChange, InTime, MirrorRemove
    <3>2. now > 0
      BY <1>0 DEF RestInv
    <3> QED BY <1>0, <3>1, <3>2 DEF MirrorWrite, Exists
  <2>2. svc = "read" => request.file \in Files
    BY DEF IndInv, ServiceInv, IsReport, Request
  <2> QED BY <1>0, <1>1, <2>1, <2>2 DEF RestInv, NoHeadLost
<1>3. CASE ~ Running
  <2>1. apc' = "idle"
    BY <1>1, <1>3 DEF Running
  <2>2. LossCostsOneFile'
    <3>1. LeftBehind' \subseteq LeftBehind
      BY <1>0, <1>1, ListedFiles, MirrorKeepsMissed DEF LeftBehind
    <3>2. Cardinality(LeftBehind') <= Cardinality(LeftBehind) /\ Cardinality(LeftBehind') \in Nat
          /\ Cardinality(LeftBehind) \in Nat
      BY <3>1, ListedFiles, FS_Subset, FS_CardinalityType
    <3>3. outcome = "ended" => Cardinality(LeftBehind) <= Lost
      BY DEF LossInv, LossCostsOneFile, RestInv, NoHeadLost
    <3>4. Lost' = Lost /\ Lost \in Int
      BY <1>1, LostType DEF Lost
    <3> HIDE DEF Lost
    <3>5. outcome' = "ended" => Cardinality(LeftBehind') <= Lost'
      BY <1>1, <3>2, <3>3, <3>4
    <3> QED BY <3>5 DEF LossCostsOneFile, Lost
  <2> QED BY <1>2, <2>1, <2>2, LossAtEnd
<1>4. CASE Running
  <2>1. Running' = Running /\ Asking' = Asking /\ Lost' = Lost /\ DoneWith' = DoneWith
    BY <1>1 DEF Running, Asking, Lost, DoneWith
  <2>2. ExchangeInv'
    BY <1>1, ExchangeKept DEF LossInv
  <2>0. \A f \in Files : QuietRuns \/ mtime'[f] < began' =>
            /\ Steady(f) /\ ver'[f] = ver[f] /\ len'[f] = len[f] /\ mtime'[f] = mtime[f]
    BY <1>0, <1>4, SteadyKept DEF Steady
  <2>3. \A s, b, m : Proper(s, b, m) => Proper(s, b, m)'
    <3> SUFFICES ASSUME NEW s, NEW b, NEW m, Proper(s, b, m) PROVE Proper(s, b, m)'
      OBVIOUS
    <3>1. CASE cur = 0
      BY <1>1, <3>1 DEF Proper
    <3>2. CASE cur # 0
      <4>1. CurFile \in Files /\ CurFile' = CurFile
        BY <1>1, <3>2, Types, Elements DEF CurFile
      <4>2. Steady(CurFile)' => /\ Steady(CurFile) /\ ver'[CurFile] = ver[CurFile]
                                /\ len'[CurFile] = len[CurFile] /\ mtime'[CurFile] = mtime[CurFile]
        BY <2>0, <4>1 DEF Steady
      <4> QED BY <1>1, <3>2, <4>1, <4>2 DEF Proper, Present, Exists
    <3> QED BY <3>1, <3>2
  <2>4. AnswerInv'
    <3>1. Busy /\ svc = "read" /\ Steady(request.file)' => size = len'[request.file]
      <4>1. svc = "read" => request.file \in Files
        BY DEF IndInv, ServiceInv, IsReport, Request
      <4>2. Busy /\ svc = "read" /\ Steady(request.file) => size = len[request.file]
        BY <1>4 DEF LossInv, AnswerInv
      <4> QED BY <1>1, <2>0, <4>1, <4>2 DEF Steady
    <3> QED BY <1>1, <1>4, <2>1, <2>3, <3>1, SameExchange DEF LossInv, AnswerInv
  <2>5. WritingInv'
    <3>1. apc \in {"write", "close"} => CurFile \in Files
      BY Types, Elements DEF IndInv, AgentInv
    <3>2. CurFile' = CurFile
      BY <1>1 DEF CurFile
    <3>3. apc \in {"write", "close"} /\ Steady(CurFile)' =>
             Steady(CurFile) /\ ver'[CurFile] = ver[CurFile] /\ len'[CurFile] = len[CurFile]
      BY <2>0, <3>1, <3>2 DEF Steady
    <3> QED BY <1>1, <3>2, <3>3 DEF LossInv, WritingInv
  <2>6. Cost' <= Lost'
    <3>1. Missed(DoneWith)' \subseteq Missed(DoneWith)
      BY <1>0, <1>1, <1>4, <2>1, MirrorKeepsMissed DEF Missed
    <3>2. DoneWith \in Int /\ Cardinality(Missed(DoneWith)) \in Nat
      BY CostType
    <3>3. /\ Cardinality(Missed(DoneWith)') <= Cardinality(Missed(DoneWith))
          /\ Cardinality(Missed(DoneWith)') \in Nat
      BY <3>1, <3>2, MissedFinite, FS_Subset, FS_CardinalityType
    <3>4. Cost <= Lost /\ Lost \in Int
      BY <1>4, LostType DEF LossInv, CostInv
    <3> QED BY <1>1, <2>1, <3>2, <3>3, <3>4, SameExchange DEF Cost
  <2> QED BY <1>1, <1>2, <1>4, <2>2, <2>4, <2>5, <2>6, LossUnderWay
<1> QED BY <1>3, <1>4

-----------------------------------------------------------------------------
(* The beginning and the end of a run. *)

LEMMA NoneMissed ==
    ASSUME NEW k \in Int, k <= 0
    PROVE  Missed(k) = {} /\ Cardinality(Missed(k)) = 0
<1>1. 1..k = {}
    OBVIOUS
<1>2. Missed(k) = {}
    BY <1>1 DEF Missed
<1> QED BY <1>2, FS_EmptySet

LEMMA StartLoss ==
    ASSUME IndInv, MixInv, LossInv, InTime, AgentStart
    PROVE  LossInv'
<1>0. /\ apc = "idle" /\ recv = NothingReceived /\ port \in Nat /\ now \in Nat /\ now > 0
      /\ UNCHANGED <<now, faults, recv, pending, data, mtime, svc, request, body, sent, size>>
      /\ began' = now /\ sock' = port' /\ port' = port + 1 /\ toAgent' = <<>> /\ cur' = 0
      /\ apc' = "wait_first" /\ outcome' = "none"
    BY Types DEF AgentStart, AgentMain, MixInv, RunInv, LossInv, RestInv, fileVars, svcVars,
                 InTime, IndInv, TypeOK, BaseTypeOK
<1>1. /\ \A i \in DOMAIN toMirror : toMirror[i].port \in 1..port
      /\ request.port \in 0..port
  <2>1. request.port = 0 \/ request.port \in 1..port
    BY DEF MixInv, RunInv, NoRequest
  <2> QED BY <1>0, <2>1 DEF MixInv, RunInv
<1>2. PICK t \in Nat : toMirror' = Append(toMirror, ReportRequest(port', t))
  <2>1. \A t \in {0} \cup {ptime[f] : f \in Files} : t \in Nat
    BY DEF IndInv, TypeOK, AgentTypeOK
  <2> QED BY <2>1 DEF AgentStart, AgentMain
<1>3. /\ DOMAIN toMirror' = 1..(Len(toMirror) + 1) /\ Len(toMirror) \in Nat
      /\ toMirror'[Len(toMirror) + 1] = ReportRequest(port', t)
      /\ \A i \in 1..Len(toMirror) : toMirror'[i] = toMirror[i] /\ toMirror'[i].port # sock'
  <2>1. ReportRequest(port', t) \in Request
    BY <1>0 DEF ReportRequest, Request
  <2>2. toMirror \in Seq(Request) /\ DOMAIN toMirror = 1..Len(toMirror) /\ Len(toMirror) \in Nat
    BY Types
  <2>3. /\ toMirror' \in Seq(Request) /\ Len(toMirror') = Len(toMirror) + 1
        /\ \A i \in 1..Len(toMirror) : toMirror'[i] = toMirror[i]
        /\ toMirror'[Len(toMirror) + 1] = ReportRequest(port', t)
    BY <1>2, <2>1, <2>2, AppendProperties
  <2>4. \A i \in 1..Len(toMirror) : toMirror[i].port # port + 1
    BY <1>0, <1>1, <2>2
  <2> QED BY <1>0, <2>2, <2>3, <2>4, LenProperties
<1>4. OnTheWay' /\ ~ Busy' /\ Unanswered' /\ Intact' /\ Running'
  <2>1. toMirror'[Len(toMirror) + 1].port = sock'
    BY <1>0, <1>3 DEF ReportRequest
  <2>2. request'.port # sock'
    BY <1>0, <1>1
  <2> QED BY <1>0, <1>3, <2>1, <2>2 DEF OnTheWay, Busy, Unanswered, Intact, Running
<1>5. RestInv'
    BY <1>0 DEF LossInv, RestInv, NoHeadLost, Exists
<1>6. ExchangeInv'
  <2>1. \A i, j \in DOMAIN toMirror' :
            toMirror'[i].port = sock' /\ toMirror'[j].port = sock' => i = j
    BY <1>3
  <2>2. \A i \in DOMAIN toMirror' : ForCurrent(toMirror[i])'
    BY <1>0, <1>3 DEF ForCurrent, ReportRequest
  <2>3. ForCurrent(request)'
    BY <1>4 DEF ForCurrent, Busy
  <2> QED BY <1>0, <1>4, <2>1, <2>2, <2>3 DEF ExchangeInv
<1>7. AnswerInv' /\ WritingInv'
    BY <1>0, <1>4 DEF AnswerInv, WritingInv, NothingReceived
<1>8. Cost' <= Lost'
  <2>1. DoneWith' = -1
    BY <1>0 DEF DoneWith
  <2>2. Missed(-1) = {}
    BY NoneMissed
  <2>3. Missed(DoneWith)' = {}
    BY <2>1 DEF Missed
  <2>4. Lost' = Lost /\ Lost >= 0
    BY <1>0, LostType DEF LossInv, RestInv, Lost
  <2> QED BY <1>4, <2>3, <2>4, FS_EmptySet DEF Cost
<1> QED BY <1>0, <1>5, <1>6, <1>7, <1>8 DEF LossInv, CostInv, LossCostsOneFile

\* A run that ends without having gone through its list.
LEMMA ExitLoss ==
    ASSUME IndInv, MixInv, LossInv, apc' = "idle", outcome' # "ended",
           UNCHANGED <<now, began, fileVars, svcVars>>,
           \A k \in {"loss", "disk", "head"} : faults'[k] = faults[k]
    PROVE  LossInv'
<1>1. RestInv'
    BY DEF LossInv, RestInv, NoHeadLost, fileVars, svcVars, Exists
<1>2. LossCostsOneFile'
    BY DEF LossCostsOneFile
<1> QED BY <1>1, <1>2, LossAtEnd

LEMMA KillLoss ==
    ASSUME IndInv, MixInv, LossInv, Kill, UNCHANGED <<fileVars, svcVars, histVars>>
    PROVE  LossInv'
<1>1. \A k \in {"loss", "disk", "head"} : faults'[k] = faults[k]
    BY Types DEF Kill, Spend, FaultKind
<1> QED BY <1>1, ExitLoss DEF Kill, Exit, histVars

-----------------------------------------------------------------------------
(* The end of an exchange. *)

LEMMA ExchangeTypes ==
    ASSUME IndInv
    PROVE  /\ recv.got \in Nat /\ recv.frames \in Nat /\ recv.body \in Seq(Item)
           /\ Len(toAgent) \in Nat /\ Left \in Nat /\ InSight \in Nat
           /\ Busy /\ svc = "send" => Left > 0
           /\ svc = "send" => TotalFrames \in Nat \ {0}
<1>1. recv.got \in Nat /\ recv.frames \in Nat /\ recv.body \in Seq(Item) /\ Len(toAgent) \in Nat
    BY Types DEF Responses
<1>2. svc = "send" => TotalFrames \in Nat \ {0}
    BY ResponseFrameType
<1>3. svc = "send" => sent < TotalFrames /\ sent \in Nat
    BY Types DEF IndInv, ServiceInv
<1>4. Left \in Nat /\ (Busy /\ svc = "send" => Left > 0)
    BY <1>2, <1>3 DEF Left
<1> QED BY <1>1, <1>2, <1>4 DEF InSight

\* The exchange of a run that asks and whose request has been served.
LEMMA InExchange ==
    ASSUME IndInv, LossInv, Asking, ~ Unanswered
    PROVE  \E m \in Nat \ {0} : AnswerOf(m)
BY DEF LossInv, ExchangeInv, Running, Asking

\* When all has been received, nothing more is under way.
LEMMA AllCome ==
    ASSUME IndInv, MixInv, LossInv, apc = "received"
    PROVE  Quiet /\ recv.got > 0
<1>1. Running /\ Asking /\ recv.got > 0 /\ ~ Unanswered
    BY DEF LossInv, ExchangeInv, Running, Asking
<1>2. PICK m \in Nat \ {0} : AnswerOf(m)
    BY <1>1, InExchange
<1>3. recv.got = m
    BY <1>1, <1>2 DEF AnswerOf, MixInv, RunInv
<1>4. InSight <= m /\ (Busy => svc = "send")
    BY <1>2 DEF AnswerOf
<1>5. Len(toAgent) = 0 /\ Left = 0
    BY <1>3, <1>4, ExchangeTypes DEF InSight
<1>6. toAgent = <<>>
    BY <1>5, Types, EmptySeq
<1>7. ~ Busy
    BY <1>4, <1>5, ExchangeTypes
<1> QED BY <1>1, <1>6, <1>7 DEF Quiet, Unanswered

\* What is given up costs one file, which its loss has paid for.
LEMMA GiveUpLoss ==
    ASSUME IndInv, MixInv, LossInv, Asking, cur # 0, apc' = "call", recv' = NothingReceived,
           UNCHANGED <<now, began, fileVars, svcVars, sock, toMirror, faults, files_id, cur,
                       data, outcome>>,
           ~ OnTheWay, ~ Busy, toAgent' = <<>>,
           ~ Intact \/ Synchronized(CurFile) \/ ~ Steady(CurFile)
    PROVE  LossInv'
<1>0. /\ UNCHANGED <<sock, toMirror, svc, request, body, sent, size, ver, len, mtime>>
      /\ Running /\ apc # "call" /\ cur \in Nat \ {0}
    BY Types DEF fileVars, svcVars, Running, Asking
<1>1. /\ Running' /\ ~ Asking' /\ Busy' = Busy /\ OnTheWay' = OnTheWay /\ Quiet'
      /\ CurFile' = CurFile /\ Current' = Current
    BY <1>0 DEF Running, Asking, Busy, OnTheWay, Quiet, CurFile, Current
<1>2. RestInv'
    BY <1>0 DEF LossInv, RestInv, NoHeadLost, Exists
<1>3. ExchangeInv'
  <2>1. \A rq : ForCurrent(rq)' = ForCurrent(rq)
    BY <1>0, <1>1 DEF ForCurrent
  <2> QED BY <1>0, <1>1, <2>1 DEF LossInv, ExchangeInv, Unanswered
<1>4. AnswerInv' /\ WritingInv'
    BY <1>1 DEF AnswerInv, WritingInv, NothingReceived, Quiet
<1>5. Cost' <= Lost'
  <2> DEFINE k == cur - 1
             a == Cardinality(Missed(k))
             b == Cardinality(Missed(k + 1))
  <2>1. DoneWith = k /\ DoneWith' = k + 1 /\ k \in Nat /\ k + 1 = cur
    BY <1>0 DEF DoneWith
  <2>2. /\ b <= a + 1
        /\ Synchronized(CurFile) \/ ~ Steady(CurFile) => b = a
    BY <2>1, MissedNext DEF CurFile
  <2>3. a \in Nat /\ b \in Nat
    BY <2>1, MissedFinite
  <2>4. Missed(DoneWith)' = Missed(k + 1)
    BY <1>0, <2>1, SameMissed DEF Missed
  <2>5. Cost' = b
    BY <1>1, <2>3, <2>4 DEF Cost
  <2>6. Cost = a + (IF Intact THEN 0 ELSE 1)
    BY <2>1 DEF Cost
  <2>7. Cost <= Lost /\ Lost' = Lost /\ Lost \in Int
    BY <1>0, LostType DEF LossInv, CostInv, Lost
  <2> HIDE DEF k, a, b
  <2> QED BY <2>2, <2>3, <2>5, <2>6, <2>7
<1> QED BY <1>0, <1>2, <1>3, <1>4, <1>5, LossUnderWay

LEMMA TimeOutLoss ==
    ASSUME IndInv, MixInv, LossInv, InTime, AgentRun, TimeOut, NothingUnderWay
    PROVE  LossInv'
<1>0. /\ toAgent = <<>> /\ Asking /\ Running /\ UNCHANGED <<now, began, fileVars, svcVars>>
      /\ UNCHANGED <<toMirror, faults, files_id, cur, data>>
    BY DEF TimeOut, Waiting, Asking, Running, AgentRun
<1>1. ~ OnTheWay /\ ~ Busy
  <2>1. toMirror = <<>> /\ request = NoRequest
    BY DEF NothingUnderWay, LossInv, RestInv, MixInv, RunInv
  <2>2. sock > 0
    BY <1>0, Types DEF MixInv, RunInv, Running
  <2> QED BY <2>1, <2>2 DEF OnTheWay, Busy, NoRequest
<1>2. ~ Intact
  <2>1. ~ Unanswered /\ InSight = recv.got
    BY <1>0, <1>1, ExchangeTypes DEF Unanswered, InSight, Left
  <2>2. apc = "wait_more" => recv.got < recv.frames /\ recv.got > 0
    BY <1>0 DEF MixInv, RunInv, LossInv, ExchangeInv
  <2>3. apc = "wait_first" => recv.got = 0
    BY DEF MixInv, RunInv, NothingReceived
  <2>4. FirstGone \/ (recv.got > 0 /\ recv.got < recv.frames)
    BY <1>0, <2>2, <2>3 DEF FirstGone, TimeOut, Waiting
  <2> QED BY <2>1, <2>4, ExchangeTypes DEF Intact, AnswerOf
<1>3. CASE cur = 0
    BY <1>0, <1>3, ExitLoss DEF TimeOut, GiveUp, Exit
<1>4. CASE cur # 0
    BY <1>0, <1>1, <1>2, <1>4, GiveUpLoss DEF TimeOut, GiveUp
<1> QED BY <1>3, <1>4

LEMMA ProcessReportLoss ==
    ASSUME IndInv, MixInv, LossInv, AgentRun, ProcessReport
    PROVE  LossInv'
<1>0. /\ apc = "received" /\ cur = 0 /\ cur' = 0 /\ Running
      /\ UNCHANGED <<now, began, fileVars, svcVars, toMirror, faults, data>>
    BY DEF ProcessReport, AgentRun, Running
<1>1. CASE ~ ReportAccepted(recv)
    BY <1>0, <1>1, ExitLoss DEF ProcessReport, Exit
<1>2. CASE ReportAccepted(recv)
  <2>0. /\ apc' = "call" /\ recv' = NothingReceived /\ Running' /\ ~ Asking'
        /\ UNCHANGED <<sock, toAgent, outcome, svc, request, body, sent, size, ver, len, mtime>>
    BY <1>0, <1>2 DEF ProcessReport, Running, Asking, fileVars, svcVars
  <2>1. Quiet
    BY <1>0, AllCome
  <2>2. Busy' = Busy /\ OnTheWay' = OnTheWay /\ Quiet'
    BY <1>0, <2>0, <2>1 DEF Busy, OnTheWay, Quiet
  <2>3. RestInv'
    BY <1>0, <2>0 DEF LossInv, RestInv, NoHeadLost, Exists
  <2>4. ExchangeInv'
    <3>1. ForCurrent(request)' /\ \A i \in DOMAIN toMirror' : ForCurrent(toMirror[i])'
      BY <2>2 DEF ForCurrent, Quiet, Busy, OnTheWay
    <3> QED BY <2>0, <2>2, <3>1 DEF ExchangeInv, Quiet, Unanswered, OnTheWay
  <2>5. AnswerInv' /\ WritingInv'
    BY <2>0, <2>2 DEF AnswerInv, WritingInv, NothingReceived, Quiet
  <2>6. Cost' <= Lost'
    <3>1. DoneWith' = 0
      BY <1>0, <2>0 DEF DoneWith
    <3>2. Missed(DoneWith)' = {}
      BY <3>1 DEF Missed
    <3>3. Lost' = Lost /\ Lost >= 0
      BY <1>0, LostType DEF LossInv, RestInv, Lost
    <3> QED BY <2>0, <3>2, <3>3, FS_EmptySet DEF Cost
  <2> QED BY <1>0, <2>0, <2>3, <2>4, <2>5, <2>6, LossUnderWay
<1> QED BY <1>1, <1>2

-----------------------------------------------------------------------------
(* A frame of the answer is received. *)

\* Being appended to, a body begins as it did.
LEMMA JoinBegins ==
    ASSUME NEW a \in Seq(Item), NEW b \in Seq(Item)
    PROVE  /\ a \o b \in Seq(Item) /\ Len(a \o b) = Len(a) + Len(b)
           /\ \A i \in 1..Len(a) : (a \o b)[i] = a[i]
           /\ Marked(b) => Marked(a \o b)
           /\ Len(a) = 0 => a \o b = b
<1>1. /\ a \o b \in Seq(Item) /\ Len(a \o b) = Len(a) + Len(b)
      /\ \A i \in 1..(Len(a) + Len(b)) : (a \o b)[i] = IF i <= Len(a) THEN a[i] ELSE b[i - Len(a)]
      /\ Len(a) \in Nat /\ Len(b) \in Nat
    BY ConcatProperties, LenProperties
<1>2. \A i \in 1..Len(a) : (a \o b)[i] = a[i]
    BY <1>1
<1>3. ASSUME Marked(b) PROVE Marked(a \o b)
  <2>1. Len(b) > 0 /\ b[Len(b)] = EndMark
    BY <1>1, <1>3, EmptySeq DEF Marked
  <2>2. (a \o b)[Len(a) + Len(b)] = b[Len(b)]
    <3>1. Len(a) + Len(b) \in 1..(Len(a) + Len(b)) /\ ~ (Len(a) + Len(b) <= Len(a))
          /\ Len(a) + Len(b) - Len(a) = Len(b)
      BY <1>1, <2>1
    <3> QED BY <1>1, <3>1
  <2>3. a \o b # <<>>
    BY <1>1, <2>1, EmptySeq
  <2> QED BY <1>1, <2>1, <2>2, <2>3 DEF Marked
<1>4. ASSUME Len(a) = 0 PROVE a \o b = b
  <2>1. a = <<>>
    BY <1>4, EmptySeq
  <2> QED BY <2>1, ConcatEmptySeq
<1> QED BY <1>1, <1>2, <1>3, <1>4

\* What a body begins with is all that counts.
LEMMA ProperJoin ==
    ASSUME NEW a \in Seq(Item), NEW b \in Seq(Item), NEW s, NEW m, Proper(s, a, m)
    PROVE  Proper(s, a \o b, m)
<1>1. Len(a) >= 2 => /\ Len(a \o b) >= 2
                     /\ (a \o b)[1] = a[1] /\ (a \o b)[2] = a[2]
  <2>1. Len(a) \in Nat /\ Len(b) \in Nat
    BY LenProperties
  <2> QED BY <2>1, JoinBegins
<1> QED BY <1>1 DEF Proper, Present

\* A frame goes from the queue into the response.
LEMMA TakenLoss ==
    ASSUME IndInv, MixInv, LossInv, Asking, ~ Unanswered, toAgent # <<>>,
           apc' \in {"wait_more", "received"}, toAgent' = Tail(toAgent),
           UNCHANGED <<now, began, fileVars, svcVars, sock, toMirror, faults, files_id, cur,
                       data, outcome>>,
           recv' \in Responses, recv'.got = recv.got + 1,
           NEW m \in Nat \ {0}, AnswerOf(m),
           recv'.frames = m, recv'.body = recv.body \o toAgent[1].body,
           recv.got > 0 \/ toAgent[1].status # NoHeader,
           Proper(recv'.status, recv'.body, recv'.frames)
    PROVE  LossInv'
<1>0. /\ UNCHANGED <<sock, toMirror, svc, request, body, sent, size, ver, len, mtime>>
      /\ Running /\ Running' /\ Asking' /\ apc # "call" /\ apc' # "call"
    BY DEF fileVars, svcVars, Running, Asking
<1>1. /\ Busy' = Busy /\ OnTheWay' = OnTheWay /\ Unanswered' = Unanswered /\ IsReport' = IsReport
      /\ CurFile' = CurFile /\ Current' = Current
    BY <1>0 DEF Busy, OnTheWay, Unanswered, CurFile, Current, IsReport
<1>2. TotalFrames' = TotalFrames /\ ResponseStatus' = ResponseStatus
    BY <1>0, <1>1 DEF TotalFrames, ResponseStatus
<1>3. Left' = Left
    BY <1>0, <1>1, <1>2 DEF Left
<1>4. /\ 1 \in DOMAIN toAgent /\ toAgent[1] \in Frame /\ toAgent[1].body \in Seq(Item)
      /\ Len(toAgent') = Len(toAgent) - 1 /\ Len(toAgent) \in Nat \ {0}
      /\ DOMAIN toAgent' = 1..(Len(toAgent) - 1)
      /\ \A j \in DOMAIN toAgent' : j + 1 \in DOMAIN toAgent /\ toAgent'[j] = toAgent[j + 1]
                                    /\ j + 1 # 1
  <2>1. toAgent \in Seq(Frame) /\ Len(toAgent) \in Nat \ {0} /\ DOMAIN toAgent = 1..Len(toAgent)
    BY Types, EmptySeq
  <2>2. /\ Len(Tail(toAgent)) = Len(toAgent) - 1 /\ Tail(toAgent) \in Seq(Frame)
        /\ \A j \in DOMAIN Tail(toAgent) :
              j \in Nat /\ j + 1 \in DOMAIN toAgent /\ Tail(toAgent)[j] = toAgent[j + 1]
    BY <2>1, ThinTail, HeadTailProperties
  <2>3. DOMAIN Tail(toAgent) = 1..(Len(toAgent) - 1)
    BY <2>2, LenProperties
  <2> QED BY <2>1, <2>2, <2>3, TailOfQueue DEF Frame
<1>5. InSight' = InSight
  <2>1. recv.got \in Nat /\ Left \in Nat
    BY ExchangeTypes
  <2> QED BY <1>3, <1>4, <2>1 DEF InSight
<1>6. recv'.got > 0 /\ ~ FirstGone'
  <2>1. recv'.got > 0
    <3>1. recv.got \in Nat
      BY ExchangeTypes
    <3> QED BY <3>1
  <2> QED BY <2>1 DEF FirstGone
<1>7. \A i \in DOMAIN toAgent' : toAgent'[i].status = NoHeader
    BY <1>4 DEF AnswerOf
<1>8. AnswerOf(m)'
  <2>1. Busy' => svc' = "send" /\ TotalFrames' = m
    BY <1>0, <1>1, <1>2 DEF AnswerOf
  <2>2. InSight' <= m
    BY <1>5 DEF AnswerOf
  <2> QED BY <1>6, <1>7, <2>1, <2>2 DEF AnswerOf
<1>9. Intact => Intact'
  <2> SUFFICES ASSUME Intact PROVE Intact'
    OBVIOUS
  <2>1. AnswerOf(InSight) /\ EndInSight
    BY DEF Intact
  <2>2. InSight = m
    BY <1>4, <2>1 DEF AnswerOf
  <2>3. AnswerOf(InSight)'
    <3>1. InSight' = m
      BY <1>5, <2>2
    <3> QED BY <1>8, <3>1 DEF AnswerOf
  <2>4. EndInSight'
    <3> SUFFICES ASSUME ~ Busy
                 PROVE  Marked(IF toAgent' = <<>> THEN recv'.body
                               ELSE toAgent'[Len(toAgent')].body)
      BY <1>1 DEF EndInSight
    <3>1. Marked(toAgent[Len(toAgent)].body)
      BY <2>1 DEF EndInSight
    <3>2. CASE toAgent' = <<>>
      <4>1. Len(toAgent) = 1
        <5>1. Len(toAgent') = 0
          BY <3>2, EmptySeq
        <5>2. Len(toAgent) - 1 = 0
          BY <1>4, <5>1
        <5>3. Len(toAgent) \in Nat
          BY <1>4
        <5> QED BY <5>2, <5>3
      <4>2. Marked(toAgent[1].body)
        BY <3>1, <4>1
      <4> QED BY <1>4, <3>2, <4>2, JoinBegins, ExchangeTypes
    <3>3. CASE toAgent' # <<>>
      <4>1. toAgent' \in Seq(Frame)
        BY Types, HeadTailProperties
      <4>2. Len(toAgent') # 0
        BY <3>3, <4>1, EmptySeq
      <4>3. Len(toAgent') \in DOMAIN toAgent' /\ Len(toAgent') + 1 = Len(toAgent)
        BY <1>4, <4>2
      <4>4. toAgent'[Len(toAgent')] = toAgent[Len(toAgent)]
        BY <1>4, <4>3
      <4> QED BY <3>1, <3>3, <4>4
    <3> QED BY <3>2, <3>3
  <2> QED BY <2>3, <2>4 DEF Intact
<1>10. RestInv'
    BY <1>0 DEF LossInv, RestInv, NoHeadLost, Exists
<1>11. ExchangeInv'
  <2>1. \A rq : ForCurrent(rq)' = ForCurrent(rq)
    BY <1>0, <1>1 DEF ForCurrent
  <2>2. apc' \notin {"call", "write", "close"}
    OBVIOUS
  <2> HIDE DEF Unanswered
  <2> QED BY <1>0, <1>1, <1>6, <1>8, <2>1, <2>2 DEF LossInv, ExchangeInv
<1>12. AnswerInv' /\ WritingInv'
  <2>1. \A x, y, z : Proper(x, y, z)' = Proper(x, y, z)
    BY <1>0, SameProper
  <2>2. Steady(request.file)' = Steady(request.file)
    BY <1>0 DEF Steady
  <2>3. Proper(recv.status, recv.body, recv.frames)'
    BY <2>1
  <2> QED BY <1>0, <1>1, <1>2, <1>7, <2>1, <2>2, <2>3 DEF LossInv, AnswerInv, WritingInv
<1>13. Cost' <= Lost'
  <2>1. DoneWith' = DoneWith
    BY <1>0 DEF DoneWith
  <2>2. Missed(DoneWith)' = Missed(DoneWith)
    BY <1>0, <2>1, SameMissed DEF Missed
  <2>3. Lost' = Lost /\ Cost <= Lost /\ Lost \in Int
    BY <1>0, LostType DEF LossInv, CostInv, Lost
  <2>4. Cardinality(Missed(DoneWith)) \in Nat
    BY CostType
  <2> QED BY <1>0, <1>9, <2>2, <2>3, <2>4 DEF Cost
<1> QED BY <1>0, <1>10, <1>11, <1>12, <1>13, LossUnderWay

LEMMA ReceiveFirstLoss ==
    ASSUME IndInv, IndInv', MixInv, LossInv, InTime, AgentRun, ReceiveFirst
    PROVE  LossInv'
<1> DEFINE fr == toAgent[1]
<1>0. /\ apc = "wait_first" /\ toAgent # <<>> /\ Asking /\ Running /\ recv = NothingReceived
      /\ UNCHANGED <<now, began, fileVars, svcVars, toMirror, faults, files_id, cur, data>>
    BY DEF ReceiveFirst, AgentRun, Asking, Running, MixInv, RunInv
<1>1. /\ 1 \in DOMAIN toAgent /\ Head(toAgent) = fr /\ fr \in Frame
    BY <1>0, TailOfQueue
<1>2. ~ Unanswered
    BY <1>0 DEF LossInv, ExchangeInv
<1>3. PICK m \in Nat \ {0} : AnswerOf(m)
    BY <1>0, <1>2, InExchange
<1>4. fr.status # NoHeader => fr.frames = m /\ (cur > 0 => ValidHeader(fr))
  <2>1. fr.status # NoHeader => fr.frames = m
    BY <1>1, <1>3 DEF AnswerOf
  <2>2. fr.status # NoHeader /\ cur > 0 => m <= AgentFramesMax
    <3> SUFFICES ASSUME fr.status # NoHeader, cur > 0 PROVE m <= AgentFramesMax
      OBVIOUS
    <3>1. Proper(fr.status, fr.body, m)
      BY <1>0, <1>1, <2>1 DEF LossInv, AnswerInv
    <3>2. CASE fr.status = "file_not_exist"
      BY <3>1, <3>2, LengthsFit DEF Proper
    <3>3. CASE fr.status = "pages_returned" /\ fr.body[1] = CurFile
      <4>1. \E v \in 1..ver[CurFile], n \in Lengths : Follows(1, 1, v, n, m)
        BY <1>0, <1>1, <2>1, <3>3 DEF MixInv, QueueInv, Paging, Running, IsPage
      <4>2. PICK n \in Lengths : m \in 1..n
        BY <4>1 DEF Follows, Served
      <4> QED BY <4>2, LengthsFit
    <3>4. cur # 0
      BY Types
    <3>5. \/ fr.status = "file_not_exist"
          \/ fr.status = "pages_returned" /\ fr.body[1] = CurFile
      BY <3>1, <3>4 DEF Proper
    <3> QED BY <3>2, <3>3, <3>5
  <2> QED BY <2>1, <2>2, LengthsFit DEF ValidHeader
<1>5. CASE ~ ValidHeader(fr) /\ cur = 0
    BY <1>0, <1>1, <1>5, ExitLoss DEF ReceiveFirst, GiveUp, Exit
<1>6. CASE ~ ValidHeader(fr) /\ cur # 0
  <2>0. cur > 0 /\ fr.status = NoHeader
    <3>1. cur > 0
      BY <1>6, Types
    <3> QED BY <1>4, <1>6, <3>1
  <2>1. FirstGone /\ recv.got = 0
    BY <1>0, <2>0 DEF FirstGone, NothingReceived
  <2>2. ~ Intact
    BY <1>2, <2>1, ExchangeTypes DEF Intact, AnswerOf
  <2>3. m <= 2
    BY <1>3, <2>0, <2>1 DEF AnswerOf
  <2>5. InSight < m /\ InSight = Len(toAgent) + Left
    BY <1>3, <2>1, ExchangeTypes DEF AnswerOf, InSight
  <2>6. Len(toAgent) > 0
    BY <1>0, Types, EmptySeq
  <2>7. Len(toAgent) = 1 /\ Left = 0
    <3>1. Len(toAgent) \in Nat /\ Left \in Nat
      BY ExchangeTypes
    <3>2. Len(toAgent) + Left < 2
      BY <2>3, <2>5, <3>1
    <3> HIDE DEF Left, InSight
    <3>3. \A x, y \in Nat : x > 0 /\ x + y < 2 => x = 1 /\ y = 0
      OBVIOUS
    <3> QED BY <2>6, <3>1, <3>2, <3>3
  <2>8. ~ Busy /\ ~ OnTheWay
    BY <1>2, <1>3, <2>7, ExchangeTypes DEF AnswerOf, Unanswered
  <2>9. Tail(toAgent) = <<>>
    <3>1. toAgent \in Seq(Frame)
      BY Types
    <3>2. Tail(toAgent) \in Seq(Frame) /\ Len(Tail(toAgent)) = Len(toAgent) - 1
      BY <1>0, <3>1, HeadTailProperties
    <3>3. Len(Tail(toAgent)) = 0
      BY <2>7, <3>2
    <3> QED BY <3>2, <3>3, EmptySeq
  <2> QED BY <1>0, <1>1, <1>6, <2>2, <2>8, <2>9, GiveUpLoss DEF ReceiveFirst, GiveUp
<1>7. CASE ValidHeader(fr)
  <2>1. /\ recv' = [status |-> fr.status, frames |-> fr.frames, got |-> 1, body |-> fr.body]
        /\ apc' \in {"wait_more", "received"} /\ toAgent' = Tail(toAgent)
        /\ UNCHANGED <<outcome, sock>>
    BY <1>1, <1>7 DEF ReceiveFirst
  <2>2. fr.status # NoHeader /\ fr.frames = m
    BY <1>4, <1>7 DEF ValidHeader
  <2>3. recv'.got = recv.got + 1 /\ recv'.frames = m /\ recv'.status = fr.status
        /\ recv'.body = recv.body \o fr.body
    <3>1. recv.got = 0 /\ Len(recv.body) = 0 /\ recv.body \in Seq(Item) /\ fr.body \in Seq(Item)
      BY <1>0, <1>1, EmptySeq DEF NothingReceived, Frame
    <3>2. recv.body \o fr.body = fr.body
      BY <3>1, JoinBegins
    <3> QED BY <2>1, <2>2, <3>1, <3>2
  <2>4. Proper(fr.status, fr.body, fr.frames)
    BY <1>0, <1>1, <2>2 DEF LossInv, AnswerInv
  <2>5. Proper(recv'.status, recv'.body, recv'.frames)
    BY <2>1, <2>4
  <2>6. recv' \in Responses
    BY TypesAfter
  <2> QED BY <1>0, <1>2, <1>3, <2>1, <2>2, <2>3, <2>5, <2>6, TakenLoss
<1> QED BY <1>5, <1>6, <1>7

LEMMA ReceiveMoreLoss ==
    ASSUME IndInv, IndInv', MixInv, LossInv, AgentRun, ReceiveMore
    PROVE  LossInv'
<1> DEFINE fr == toAgent[1]
<1>0. /\ apc = "wait_more" /\ toAgent # <<>> /\ Asking /\ Running /\ recv.got > 0
      /\ UNCHANGED <<now, began, fileVars, svcVars, sock, toMirror, faults, files_id, cur, data,
                     outcome>>
      /\ apc' \in {"wait_more", "received"} /\ toAgent' = Tail(toAgent)
    BY DEF ReceiveMore, AgentRun, Asking, Running, LossInv, ExchangeInv
<1>1. 1 \in DOMAIN toAgent /\ Head(toAgent) = fr /\ fr \in Frame
    BY <1>0, TailOfQueue
<1>2. ~ Unanswered
    BY <1>0 DEF LossInv, ExchangeInv
<1>3. PICK m \in Nat \ {0} : AnswerOf(m)
    BY <1>0, <1>2, InExchange
<1>4. fr.status = NoHeader /\ recv.frames = m
    BY <1>0, <1>1, <1>3 DEF AnswerOf
<1>5. fr.body \in Seq(Item) /\ recv.body \in Seq(Item)
    BY <1>1, ExchangeTypes DEF Frame
<1>6. Raw(fr) = fr.body
    BY <1>4, <1>5, ConcatEmptySeq DEF Raw
<1>7. recv' = [status |-> recv.status, frames |-> m, got |-> recv.got + 1,
               body |-> recv.body \o fr.body]
    BY <1>1, <1>4, <1>6 DEF ReceiveMore
<1>8. Proper(recv'.status, recv'.body, recv'.frames)
  <2>1. Proper(recv.status, recv.body, m)
    BY <1>0, <1>4 DEF LossInv, AnswerInv
  <2>2. Proper(recv.status, recv.body \o fr.body, m)
    BY <1>5, <2>1, ProperJoin
  <2> QED BY <1>7, <2>2
<1>9. recv' \in Responses
    BY TypesAfter
<1> QED BY <1>0, <1>2, <1>3, <1>7, <1>8, <1>9, TakenLoss

-----------------------------------------------------------------------------
(* The list of the run, and the pages. *)

LEMMA CallLoss ==
    ASSUME IndInv, MixInv, LossInv, AgentRun, CallGetPage
    PROVE  LossInv'
<1> DEFINE g == files_id[cur + 1]
           rq == PageRequest(port, g)
<1>0. /\ apc = "call" /\ apc' = "wait_first" /\ cur' = cur + 1 /\ cur < Len(files_id)
      /\ toMirror' = Append(toMirror, rq) /\ cur \in Nat
      /\ UNCHANGED <<now, began, fileVars, svcVars, sock, toAgent, faults, svc, request, body,
                     sent, size, ver, len, mtime, files_id, recv, data, outcome>>
    BY Types DEF CallGetPage, AgentRun, fileVars, svcVars
<1>1. /\ recv = NothingReceived /\ sock = port /\ Running /\ Running' /\ Asking' /\ Quiet
      /\ Busy' = Busy /\ CurFile' = g /\ Current' = rq
    BY <1>0 DEF MixInv, RunInv, Running, Asking, Busy, CurFile, Current, LossInv, ExchangeInv
<1>2. g \in Files
    BY <1>0, Types, ElementOfSeq
<1>3. rq \in Request /\ rq.port = port
    BY <1>2, Types DEF PageRequest, Request
<1> HIDE DEF rq, g
<1>4. /\ toMirror'[Len(toMirror) + 1] = rq /\ Len(toMirror) \in Nat
      /\ DOMAIN toMirror' = 1..(Len(toMirror) + 1)
      /\ \A i \in 1..Len(toMirror) : toMirror'[i].port # sock
  <2>1. toMirror \in Seq(Request) /\ DOMAIN toMirror = 1..Len(toMirror) /\ Len(toMirror) \in Nat
    BY Types
  <2>2. /\ toMirror' \in Seq(Request) /\ Len(toMirror') = Len(toMirror) + 1
        /\ \A i \in 1..Len(toMirror) : toMirror'[i] = toMirror[i]
        /\ toMirror'[Len(toMirror) + 1] = rq
    BY <1>0, <1>3, <2>1, AppendProperties
  <2>3. \A i \in 1..Len(toMirror) : toMirror[i].port # sock
    BY <1>1, <2>1 DEF Quiet, OnTheWay
  <2> QED BY <2>1, <2>2, <2>3, LenProperties
<1>5. \A i \in DOMAIN toMirror' : toMirror'[i].port = sock => i = Len(toMirror) + 1
  <2>1. \A i \in 1..(Len(toMirror) + 1) : i = Len(toMirror) + 1 \/ i \in 1..Len(toMirror)
    BY <1>4
  <2> QED BY <1>4, <2>1
<1>6. OnTheWay' /\ ~ Busy' /\ Unanswered' /\ Intact' /\ toAgent' = <<>>
  <2>1. Len(toMirror) + 1 \in DOMAIN toMirror' /\ toMirror'[Len(toMirror) + 1].port = sock'
    BY <1>0, <1>1, <1>3, <1>4
  <2> QED BY <1>0, <1>1, <2>1 DEF OnTheWay, Quiet, Unanswered, Intact
<1>7. RestInv'
    BY <1>0 DEF LossInv, RestInv, NoHeadLost, Exists
<1>8. ExchangeInv'
  <2>1. \A i \in DOMAIN toMirror' : ForCurrent(toMirror[i])'
    BY <1>0, <1>1, <1>4, <1>5 DEF ForCurrent
  <2>2. ForCurrent(request)'
    BY <1>6 DEF ForCurrent, Busy
  <2> QED BY <1>0, <1>1, <1>5, <1>6, <2>1, <2>2 DEF ExchangeInv
<1>9. AnswerInv' /\ WritingInv'
    BY <1>0, <1>1, <1>6 DEF AnswerInv, WritingInv, NothingReceived
<1>10. Cost' <= Lost'
  <2>1. DoneWith' = DoneWith
    BY <1>0 DEF DoneWith
  <2>2. Missed(DoneWith)' = Missed(DoneWith)
    BY <1>0, <2>1, SameMissed DEF Missed
  <2>3. Lost' = Lost /\ Cost <= Lost
    BY <1>0, <1>1 DEF LossInv, CostInv, Lost
  <2>4. Cost = Cardinality(Missed(DoneWith)) /\ Cost' = Cardinality(Missed(DoneWith))'
    <3>1. ~ Asking /\ Intact'
      BY <1>0, <1>6 DEF Asking
    <3>2. Cardinality(Missed(DoneWith)) \in Nat /\ Cardinality(Missed(DoneWith))' \in Nat
      BY <2>2, CostType
    <3> QED BY <3>1, <3>2 DEF Cost
  <2> QED BY <2>2, <2>3, <2>4
<1> QED BY <1>0, <1>1, <1>7, <1>8, <1>9, <1>10, LossUnderWay

LEMMA EndLoss ==
    ASSUME IndInv, MixInv, LossInv, AgentRun, AgentEnd
    PROVE  LossInv'
<1>0. /\ apc = "call" /\ apc' = "idle" /\ cur = Len(files_id) /\ Running /\ ~ Asking
      /\ UNCHANGED <<now, began, ver, len, mtime, svc, request, faults, files_id, data>>
    BY DEF AgentEnd, AgentRun, Exit, fileVars, svcVars, Running, Asking
<1>1. RestInv'
    BY <1>0 DEF LossInv, RestInv, NoHeadLost, Exists
<1>2. LossCostsOneFile'
  <2>1. LeftBehind' = LeftBehind /\ Lost' = Lost
    BY <1>0, SameMissed DEF LeftBehind, Lost
  <2>2. DoneWith = cur
    BY <1>0 DEF DoneWith
  <2>3. LeftBehind \subseteq Missed(DoneWith)
    BY <1>0, <2>2, ListedFiles DEF LeftBehind, Missed, Steady
  <2>4. /\ Cardinality(LeftBehind) <= Cardinality(Missed(DoneWith))
        /\ Cardinality(LeftBehind) \in Nat
    <3>1. DoneWith \in Int
      BY CostType
    <3>2. IsFiniteSet(Missed(DoneWith))
      BY <3>1, MissedFinite
    <3>3. LeftBehind \in SUBSET Missed(DoneWith)
      BY <2>3
    <3>4. IsFiniteSet(LeftBehind) /\ Cardinality(LeftBehind) <= Cardinality(Missed(DoneWith))
      BY <3>2, <3>3, FS_Subset
    <3> QED BY <3>4, FS_CardinalityType
  <2>5. Cardinality(Missed(DoneWith)) <= Lost
    BY <1>0, CostType DEF LossInv, CostInv, Cost
  <2>6. Cardinality(LeftBehind) <= Lost
    BY <2>4, <2>5, CostType, LostType
  <2> QED BY <2>1, <2>6 DEF LossCostsOneFile, Lost
<1> QED BY <1>0, <1>1, <1>2, LossAtEnd

\* While the file that was asked for is written, nothing else on the list is.
LEMMA WritesOne ==
    ASSUME IndInv, MixInv, LossInv, cur # 0, apc # "call", apc' # "call", ~ Asking',
           UNCHANGED <<ver, len, mtime, began, files_id, cur, faults>>, Running,
           NEW d, data' = [data EXCEPT ![CurFile] = d]
    PROVE  Cost' <= Lost'
<1> DEFINE k == cur - 1
<1>1. DoneWith = k /\ DoneWith' = k /\ k \in Nat /\ cur \in DOMAIN files_id
      /\ \A i \in 1..k : i \in DOMAIN files_id /\ i # cur
  <2>1. cur \in 1..Len(files_id) /\ DOMAIN files_id = 1..Len(files_id) /\ Len(files_id) \in Nat
    BY Types
  <2> QED BY <2>1 DEF DoneWith
<1>2. \A i \in 1..k : files_id[i] \in Files => files_id[i] # CurFile
    BY <1>1 DEF MixInv, ListInv, Distinct, CurFile
<1>3. Missed(k)' \subseteq Missed(k)
  <2> SUFFICES ASSUME NEW f \in Files, ~ Synchronized(f)', Steady(f)',
                      NEW i \in 1..k, files_id[i] = f
               PROVE  f \in Missed(k)
    BY <1>1 DEF Missed
  <2>1. f # CurFile /\ data \in [Files -> Seq(Item)]
    BY <1>2, Types
  <2>2. data'[f] = data[f]
    BY <2>1
  <2>3. Synchronized(f)' = Synchronized(f) /\ Steady(f)' = Steady(f)
    BY <2>2 DEF Synchronized, Exists, HasContentOf, IsPrefixOf, Steady
  <2> QED BY <2>3 DEF Missed
<1>4. Cardinality(Missed(k)') \in Nat /\ Cardinality(Missed(k)') <= Cardinality(Missed(k))
    BY <1>1, <1>3, MissedLess
<1>5. Cost' = Cardinality(Missed(k)')
    BY <1>1, <1>4 DEF Cost, Missed
<1>6. Cardinality(Missed(k)) <= Lost /\ Cardinality(Missed(k)) \in Nat
  <2>1. Cost <= Lost
    BY DEF LossInv, CostInv
  <2>2. Cardinality(Missed(k)) \in Nat /\ Lost \in Int
    BY <1>1, CostType, LostType
  <2>3. Cost = Cardinality(Missed(k)) \/ Cost = Cardinality(Missed(k)) + 1
    BY <1>1, <2>2 DEF Cost
  <2> HIDE DEF k
  <2> QED BY <2>1, <2>2, <2>3
<1>7. Lost' = Lost /\ Lost \in Int
    BY LostType DEF Lost
<1> QED BY <1>4, <1>5, <1>6, <1>7

\* The page as it is written, from its start.
LEMMA PageWritten ==
    ASSUME IndInv, MixInv, apc = "received", cur # 0, PageAccepted(recv, CurFile)
    PROVE  LET p == Tail(InnerBody(recv)) IN
           p \in Seq(Item) /\ Len(p) = recv.frames /\ p[1] = recv.body[2]
<1> DEFINE b == InnerBody(recv)
<1>1. recv.frames \in Nat \ {0} /\ Len(recv.body) = recv.frames + 2
    BY PageExact
<1>2. /\ b \in Seq(Item) /\ b # <<>> /\ Len(b) = Len(recv.body) - 1
      /\ \A i \in 1..(Len(recv.body) - 1) : b[i] = recv.body[i]
    BY Types, InnerBodyType DEF PageAccepted
<1> HIDE DEF b
<1>3. /\ Tail(b) \in Seq(Item) /\ Len(Tail(b)) = Len(b) - 1
      /\ \A i \in 1..(Len(b) - 1) : Tail(b)[i] = b[i + 1]
    BY <1>2, HeadTailProperties
<1>4. 1 \in 1..(Len(b) - 1) /\ 2 \in 1..(Len(recv.body) - 1) /\ 1 + 1 = 2
    BY <1>1, <1>2
<1>5. Len(Tail(b)) = recv.frames /\ Tail(b)[1] = recv.body[2]
    BY <1>1, <1>2, <1>3, <1>4
<1> QED BY <1>3, <1>5 DEF b

\* A page that does not pass is lost in part, or there is nothing of the file.
LEMMA PageFails ==
    ASSUME IndInv, MixInv, LossInv, apc = "received", cur # 0,
           ~ (PageAccepted(recv, CurFile) /\ CurFile \in Creatable)
    PROVE  ~ Intact \/ Synchronized(CurFile) \/ ~ Steady(CurFile)
<1> SUFFICES ASSUME Intact, Steady(CurFile), CurFile \in Creatable
             PROVE  Synchronized(CurFile)
    BY DEF Synchronized
<1>1. Quiet /\ recv.got > 0 /\ Running
    BY AllCome DEF Running
<1>2. Proper(recv.status, recv.body, recv.frames)
    BY <1>1 DEF LossInv, AnswerInv
<1>3. CASE recv.status = "file_not_exist"
    BY <1>2, <1>3 DEF Proper, Synchronized
<1>4. CASE recv.status # "file_not_exist"
  <2>1. recv.status = "pages_returned" /\ Len(recv.body) >= 2 /\ recv.body[1] = CurFile
    BY <1>2, <1>4 DEF Proper
  <2>2. Marked(recv.body)
    BY <1>1 DEF Intact, Quiet, Unanswered, EndInSight
  <2>3. PageAccepted(recv, CurFile)
    <3>1. Len(recv.body) > 1
      BY <2>1, ExchangeTypes, LenProperties
    <3> QED BY <2>1, <2>2, <3>1 DEF PageAccepted, ClosedBody, Marked
  <2> QED BY <2>3
<1> QED BY <1>3, <1>4

LEMMA ProcessPageLoss ==
    ASSUME IndInv, MixInv, LossInv, AgentRun, ProcessPage
    PROVE  LossInv'
<1> DEFINE f == CurFile
<1>0. /\ apc = "received" /\ cur # 0 /\ recv' = NothingReceived /\ Running /\ Asking
      /\ UNCHANGED <<now, began, fileVars, svcVars, sock, toMirror, toAgent, faults, svc, request,
                     body, sent, size, ver, len, mtime, files_id, cur, outcome>>
    BY DEF ProcessPage, AgentRun, Running, Asking, netVars, fileVars, svcVars
<1>1. Quiet /\ recv.got > 0
    BY <1>0, AllCome
<1>2. CASE ~ (PageAccepted(recv, f) /\ f \in Creatable)
  <2>1. apc' = "call" /\ UNCHANGED data
    BY <1>2 DEF ProcessPage, CurFile
  <2>2. ~ Intact \/ Synchronized(CurFile) \/ ~ Steady(CurFile)
    BY <1>0, <1>2, PageFails
  <2>3. ~ OnTheWay /\ ~ Busy /\ toAgent' = <<>>
    BY <1>0, <1>1 DEF Quiet
  <2> QED BY <1>0, <2>1, <2>2, <2>3, GiveUpLoss
<1>3. CASE PageAccepted(recv, f) /\ f \in Creatable
  <2>1. /\ data' = [data EXCEPT ![f] = <<>>] /\ pending' = Tail(InnerBody(recv))
        /\ apc' = "write" /\ Running' /\ ~ Asking' /\ data \in [Files -> Seq(Item)]
    BY <1>0, <1>3, Types DEF ProcessPage, Opened, CurFile, Running, Asking
  <2>2. Busy' = Busy /\ OnTheWay' = OnTheWay /\ CurFile' = f /\ Current' = Current /\ Quiet'
    BY <1>0, <1>1 DEF Busy, OnTheWay, CurFile, Current, Quiet
  <2>3. f \in Files
    BY <1>0, <1>3, PageExact
  <2>4. RestInv'
    BY <1>0 DEF LossInv, RestInv, NoHeadLost, Exists
  <2>5. ExchangeInv'
    <3>1. \A rq : ForCurrent(rq)' = ForCurrent(rq)
      BY <1>0, <2>2 DEF ForCurrent
    <3>2. ~ Unanswered'
      BY <2>2 DEF Unanswered, Quiet
    <3> QED BY <1>0, <2>1, <2>2, <3>1, <3>2 DEF LossInv, ExchangeInv
  <2>6. AnswerInv'
    BY <1>0, <2>2 DEF AnswerInv, NothingReceived, Quiet
  <2>7. WritingInv'
    <3> SUFFICES ASSUME Steady(f)
                 PROVE  /\ pending'[1] = Part(f, ver[f], 1, len[f])
                        /\ Len(data'[f]) + Len(pending') = len[f] /\ data'[f] = <<>>
      <4>1. Steady(CurFile)' = Steady(f)
        BY <1>0, <2>2 DEF Steady
      <4> HIDE DEF f
      <4> QED BY <1>0, <2>2, <4>1 DEF WritingInv
    <3>1. data'[f] = <<>>
      BY <2>1, <2>3
    <3>2. Proper(recv.status, recv.body, recv.frames) /\ recv.status = "pages_returned"
      BY <1>0, <1>1, <1>3 DEF LossInv, AnswerInv, PageAccepted
    <3>3. recv.body[2] = Part(f, ver[f], 1, len[f]) /\ recv.frames = len[f]
      BY <1>0, <3>2 DEF Proper, Present
    <3>4. Len(pending') = recv.frames /\ pending'[1] = recv.body[2] /\ recv.frames \in Nat
      BY <1>0, <1>3, <2>1, PageWritten, PageExact
    <3>5. Len(data'[f]) = 0
      BY <3>1, EmptySeq
    <3> HIDE DEF f
    <3> QED BY <3>1, <3>3, <3>4, <3>5
  <2>8. Cost' <= Lost'
    BY <1>0, <2>1, WritesOne
  <2> QED BY <1>0, <2>1, <2>4, <2>5, <2>6, <2>7, <2>8, LossUnderWay
<1> QED BY <1>2, <1>3

LEMMA WriteFileLoss ==
    ASSUME IndInv, MixInv, LossInv, AgentRun, WriteFile
    PROVE  LossInv'
<1> DEFINE f == CurFile
           w == data[f]
<1>0. /\ apc \in {"write", "close"} /\ apc' = apc /\ pending # <<>> /\ pending' = Tail(pending)
      /\ data' = [data EXCEPT ![f] = Append(w, Head(pending))]
      /\ Running /\ Running' /\ ~ Asking' /\ cur # 0
      /\ UNCHANGED <<now, began, sock, toMirror, toAgent, faults, svc, request, body, sent, size,
                     ver, len, mtime, files_id, cur, recv, outcome>>
    BY DEF WriteFile, AgentRun, Running, Asking, netVars, fileVars, svcVars, CurFile, IndInv,
           AgentInv
<1>1. f \in Files /\ data \in [Files -> Seq(Item)] /\ w \in Seq(Item) /\ pending \in Seq(Item)
  <2>1. f \in Files
    BY <1>0, Types, Elements
  <2>2. data \in [Files -> Seq(Item)] /\ pending \in Seq(Item)
    BY Types
  <2> HIDE DEF f
  <2> QED BY <2>1, <2>2
<1>2. CurFile' = f
    BY <1>0 DEF CurFile
<1>3. RestInv'
    BY <1>0 DEF LossInv, RestInv, NoHeadLost, Exists
<1>4. ExchangeInv'
    BY <1>0, ExchangeKept DEF LossInv
<1>5. AnswerInv'
    BY <1>0, SameExchange, SameProper DEF LossInv, AnswerInv, Steady
<1>6. WritingInv'
  <2>1. /\ Len(pending) \in Nat \ {0} /\ Head(pending) = pending[1] /\ pending[1] \in Item
        /\ Len(pending') = Len(pending) - 1
    <3>1. /\ Len(pending) \in Nat \ {0} /\ Head(pending) = pending[1]
          /\ Len(Tail(pending)) = Len(pending) - 1
      BY <1>0, <1>1, HeadTailProperties, LenProperties, EmptySeq
    <3>2. pending[1] \in Item
      BY <1>1, <3>1, ElementOfSeq
    <3> QED BY <1>0, <3>1, <3>2
  <2>2. Steady(f)' = Steady(f) /\ ver'[f] = ver[f] /\ len'[f] = len[f]
    BY <1>0, <1>2 DEF Steady
  <2>3. Steady(f) => /\ (IF w = <<>> THEN pending[1] ELSE w[1]) = Part(f, ver[f], 1, len[f])
                     /\ Len(w) + Len(pending) = len[f]
    BY <1>0 DEF LossInv, WritingInv
  <2> HIDE DEF f
  <2>4. data'[f] = Append(w, Head(pending))
    BY <1>0, <1>1
  <2> HIDE DEF w
  <2>5. /\ Len(data'[f]) = Len(w) + 1 /\ Len(w) \in Nat /\ data'[f] # <<>>
        /\ \A i \in 1..Len(w) : data'[f][i] = w[i]
        /\ data'[f][Len(w) + 1] = pending[1]
    BY <1>1, <2>1, <2>4, AppendProperties, LenProperties
  <2>6. Len(data'[f]) + Len(pending') = Len(w) + Len(pending)
    BY <2>1, <2>5
  <2>7. data'[f][1] = IF w = <<>> THEN pending[1] ELSE w[1]
    <3>1. CASE w = <<>>
      <4>1. Len(w) + 1 = 1
        BY <3>1
      <4> QED BY <2>5, <3>1, <4>1
    <3>2. CASE w # <<>>
      <4>1. 1 \in 1..Len(w)
        BY <1>1, <2>5, <3>2, EmptySeq
      <4> QED BY <2>5, <3>2, <4>1
    <3> QED BY <3>1, <3>2
  <2>8. Steady(CurFile)' = Steady(f)
    BY <1>0, <1>2 DEF Steady
  <2> QED BY <1>2, <2>2, <2>3, <2>5, <2>6, <2>7, <2>8 DEF WritingInv
<1>7. Cost' <= Lost'
    BY <1>0, WritesOne
<1> QED BY <1>0, <1>3, <1>4, <1>5, <1>6, <1>7, LossUnderWay

LEMMA BufferedLoss ==
    ASSUME IndInv, MixInv, LossInv, AgentRun, Buffered
    PROVE  LossInv'
<1>0. /\ apc = "write" /\ apc' = "close" /\ Running /\ Running' /\ ~ Asking /\ ~ Asking'
      /\ UNCHANGED <<now, began, sock, toMirror, toAgent, faults, svc, request, body, sent, size,
                     ver, len, mtime, files_id, cur, recv, outcome, data, pending>>
    BY DEF Buffered, AgentRun, Running, Asking, netVars, fileVars, svcVars
<1>1. RestInv'
    BY <1>0 DEF LossInv, RestInv, NoHeadLost, Exists
<1>2. ExchangeInv'
  <2>1. \A rq : ForCurrent(rq)' = ForCurrent(rq)
    BY <1>0, SameExchange
  <2>2. Quiet' = Quiet /\ Unanswered' = Unanswered /\ Busy' = Busy /\ OnTheWay' = OnTheWay
    BY <1>0, SameExchange
  <2> HIDE DEF Quiet, Unanswered, Busy, OnTheWay
  <2> QED BY <1>0, <2>1, <2>2 DEF LossInv, ExchangeInv
<1>3. AnswerInv' /\ WritingInv'
    BY <1>0, SameExchange, SameProper DEF LossInv, AnswerInv, WritingInv, Steady
<1>4. Cost' <= Lost'
  <2>1. DoneWith' = DoneWith
    BY <1>0 DEF DoneWith
  <2>2. Missed(DoneWith)' = Missed(DoneWith)
    BY <1>0, <2>1, SameMissed DEF Missed
  <2>3. Lost' = Lost /\ Cost <= Lost
    BY <1>0 DEF LossInv, CostInv, Lost
  <2> QED BY <1>0, <2>2, <2>3, CostType DEF Cost
<1> QED BY <1>0, <1>1, <1>2, <1>3, <1>4, LossUnderWay

\* A file that did not change is written as a whole, and as it is.
LEMMA WrittenAsItIs ==
    ASSUME IndInv, MixInv, LossInv, apc = "close", pending = <<>>
    PROVE  Synchronized(CurFile) \/ ~ Steady(CurFile)
<1> DEFINE f == CurFile
<1>0. cur # 0
    BY DEF IndInv, AgentInv
<1>1. f \in Files /\ data[f] \in Seq(Item) /\ ver \in [Files -> Nat] /\ len \in [Files -> Nat]
  <2>1. f \in Files
    BY <1>0, Types, Elements
  <2> HIDE DEF f
  <2> QED BY <2>1, Types
<1>2. ASSUME Steady(f) PROVE Synchronized(f)
  <2>1. PICK v \in 1..ver[f], n \in Lengths :
           \A k \in 1..Len(data[f]) : data[f][k] = Part(f, v, k, n)
    BY DEF MixInv, WriteInv, Writes
  <2>2. Len(data[f]) + Len(pending) = len[f]
    BY <1>2 DEF LossInv, WritingInv
  <2>3. data[f] # <<>> => data[f][1] = Part(f, ver[f], 1, len[f])
    BY <1>2 DEF LossInv, WritingInv
  <2> HIDE DEF f
  <2>4. Len(data[f]) = len[f] /\ Len(data[f]) \in Nat /\ DOMAIN data[f] = 1..Len(data[f])
    BY <1>1, <2>2, LenProperties, EmptySeq
  <2>5. CASE data[f] = <<>>
    BY <2>4, <2>5, EmptySeq DEF Synchronized
  <2>6. CASE data[f] # <<>>
    <3>1. 1 \in 1..Len(data[f])
      BY <1>1, <2>4, <2>6, EmptySeq
    <3>2. Part(f, v, 1, n) = Part(f, ver[f], 1, len[f])
      BY <2>1, <2>3, <2>6, <3>1
    <3>3. v = ver[f] /\ n = len[f]
      BY <3>2 DEF Part
    <3> QED BY <2>1, <2>4, <3>3 DEF Synchronized, HasContentOf, IsPrefixOf
  <2> QED BY <2>5, <2>6
<1> QED BY <1>2

\* The agent is done with the page it writes: it is there, or its loss has been paid for.
LEMMA PageDoneLoss ==
    ASSUME IndInv, MixInv, LossInv, apc \in {"write", "close"}, apc' = "call", RestInv',
           UNCHANGED <<now, began, sock, toMirror, toAgent, svc, request, body, sent, size,
                       ver, len, mtime, files_id, cur, recv, outcome, data>>,
           Lost' = Lost + 1 \/ (Lost' = Lost /\ (Synchronized(CurFile) \/ ~ Steady(CurFile)))
    PROVE  LossInv'
<1>0. Running /\ Running' /\ ~ Asking /\ ~ Asking' /\ cur # 0
    BY DEF Running, Asking, IndInv, AgentInv
<1>1. ExchangeInv'
  <2>1. \A rq : ForCurrent(rq)' = ForCurrent(rq)
    BY SameExchange
  <2>2. Quiet' = Quiet /\ Unanswered' = Unanswered /\ Busy' = Busy /\ OnTheWay' = OnTheWay
    BY SameExchange
  <2> HIDE DEF Quiet, Unanswered, Busy, OnTheWay
  <2> QED BY <1>0, <2>1, <2>2 DEF LossInv, ExchangeInv
<1>2. AnswerInv' /\ WritingInv'
    BY <1>0, SameExchange, SameProper DEF LossInv, AnswerInv, WritingInv, Steady
<1>3. Cost' <= Lost'
  <2> DEFINE k == cur - 1
             a == Cardinality(Missed(k))
             b == Cardinality(Missed(k + 1))
  <2>1. DoneWith = k /\ DoneWith' = k + 1 /\ k \in Nat /\ k + 1 = cur
    <3>1. cur \in Nat \ {0}
      BY <1>0, Types
    <3>2. DoneWith = cur - 1 /\ DoneWith' = cur
      BY DEF DoneWith
    <3> QED BY <3>1, <3>2
  <2>2. /\ b <= a + 1
        /\ Synchronized(CurFile) \/ ~ Steady(CurFile) => b = a
    BY <2>1, MissedNext DEF CurFile
  <2>3. a \in Nat /\ b \in Nat
    BY <2>1, MissedFinite
  <2>4. Missed(DoneWith)' = Missed(k + 1)
    BY <2>1, SameMissed DEF Missed
  <2>5. Cost' = b /\ Cost = a
    BY <1>0, <2>1, <2>3, <2>4 DEF Cost
  <2>6. Cost <= Lost /\ Lost \in Int
    BY <1>0, LostType DEF LossInv, CostInv
  <2> HIDE DEF k, a, b, Lost
  <2> QED BY <2>2, <2>3, <2>5, <2>6
<1> QED BY <1>0, <1>1, <1>2, <1>3, LossUnderWay

LEMMA WriteDoneLoss ==
    ASSUME IndInv, MixInv, LossInv, AgentRun, WriteDone
    PROVE  LossInv'
<1>1. /\ apc = "close" /\ apc' = "call" /\ pending = <<>>
      /\ UNCHANGED <<now, began, sock, toMirror, toAgent, faults, svc, request, body, sent, size,
                     ver, len, mtime, files_id, cur, recv, outcome, data>>
    BY DEF WriteDone, AgentRun, netVars, fileVars, svcVars
<1>2. RestInv' /\ Lost' = Lost
    BY <1>1 DEF LossInv, RestInv, NoHeadLost, Exists, Lost
<1>3. Synchronized(CurFile) \/ ~ Steady(CurFile)
    BY <1>1, WrittenAsItIs
<1> QED BY <1>1, <1>2, <1>3, PageDoneLoss

\* The disk is full: the page is not written as a whole, and this fault pays for it.
LEMMA FullDiskLoss ==
    ASSUME IndInv, MixInv, LossInv, WriteFails \/ CloseFails,
           UNCHANGED <<fileVars, svcVars, histVars>>
    PROVE  LossInv'
<1>1. /\ apc \in {"write", "close"} /\ apc' = "call" /\ Spend("disk")
      /\ UNCHANGED <<now, began, sock, toMirror, toAgent, svc, request, body, sent, size,
                     ver, len, mtime, files_id, cur, recv, outcome, data>>
    BY DEF WriteFails, CloseFails, fileVars, svcVars, histVars
<1>2. /\ faults'["disk"] = faults["disk"] - 1
      /\ faults'["loss"] = faults["loss"] /\ faults'["head"] = faults["head"]
    BY <1>1, Types DEF Spend, FaultKind
<1>3. Lost' = Lost + 1
    BY <1>2, LostType DEF Lost
<1>4. RestInv'
  <2>1. faults'["disk"] <= Faults["disk"]
    BY <1>2, LostType DEF LossInv, RestInv
  <2> QED BY <1>1, <1>2, <2>1 DEF LossInv, RestInv, NoHeadLost, Exists
<1> QED BY <1>1, <1>3, <1>4, PageDoneLoss

LEMMA BreakLoss ==
    ASSUME IndInv, MixInv, LossInv, AgentBreaks
    PROVE  LossInv'
<1>1. UNCHANGED <<fileVars, svcVars, histVars>>
    BY DEF AgentBreaks
<1>2. CASE Kill
    BY <1>1, <1>2, KillLoss
<1>3. CASE WriteFails \/ CloseFails
    BY <1>1, <1>3, FullDiskLoss
<1> QED BY <1>2, <1>3 DEF AgentBreaks

-----------------------------------------------------------------------------
(* The services of the mirror. *)

\* Between runs only the files matter.
LEMMA IdleLoss ==
    ASSUME IndInv, LossInv, ~ Running, RestInv', Lost' \in {Lost, Lost + 1},
           UNCHANGED <<agentVars, histVars, ver, len, mtime>>
    PROVE  LossInv'
<1>0. apc' = "idle" /\ UNCHANGED <<data, outcome, began, files_id>>
    BY DEF agentVars, histVars, Running
<1>1. LeftBehind' = LeftBehind
    BY <1>0, SameMissed DEF LeftBehind
<1>2. LossCostsOneFile'
  <2>1. Cardinality(LeftBehind) \in Nat
    BY ListedFiles, FS_CardinalityType
  <2>2. outcome = "ended" => Cardinality(LeftBehind) <= Lost
    BY DEF LossInv, LossCostsOneFile, RestInv, NoHeadLost
  <2>3. Lost \in Int
    BY LostType
  <2> HIDE DEF Lost
  <2>4. outcome' = "ended" => Cardinality(LeftBehind') <= Lost'
    BY <1>0, <1>1, <2>1, <2>2, <2>3
  <2> QED BY <2>4 DEF LossCostsOneFile, Lost
<1> QED BY <1>0, <1>2, LossAtEnd

\* For which files the agent waits, and what this costs, is the agent's alone.
LEMMA SameCost ==
    ASSUME IndInv, LossInv, Running,
           UNCHANGED <<agentVars, histVars, ver, len, mtime>>, Intact => Intact', Lost' = Lost
    PROVE  Cost' <= Lost'
<1>1. Asking' = Asking /\ DoneWith' = DoneWith
    BY DEF agentVars, Asking, DoneWith
<1>2. UNCHANGED <<ver, len, mtime, data, began, files_id>>
    BY DEF agentVars, histVars
<1>3. Missed(DoneWith)' = Missed(DoneWith)
    BY <1>1, <1>2, SameMissed DEF Missed
<1>4. Cost <= Lost /\ Lost \in Int /\ Cardinality(Missed(DoneWith)) \in Nat
    BY LostType, CostType DEF LossInv, CostInv
<1> QED BY <1>1, <1>3, <1>4 DEF Cost

LEMMA ListenLoss ==
    ASSUME IndInv, MixInv, LossInv, ListenRequest, UNCHANGED <<agentVars, histVars>>
    PROVE  LossInv'
<1> DEFINE rq == toMirror[1]
<1>0. /\ svc = "wait_start" /\ body = <<>> /\ sent = 0 /\ request = NoRequest
      /\ UNCHANGED <<now, sock, toAgent, faults, ver, len, mtime, body, sent, size, apc, port,
                     files_id, cur, recv, pending, data, outcome, began>>
      /\ svc' \in {"scan", "count"}
    BY DEF ListenRequest, Dispatch, IndInv, ServiceInv, MixInv, RunInv, agentVars, histVars,
           fileVars
<1>1. /\ request' = rq /\ 1 \in DOMAIN toMirror
      /\ \A j \in DOMAIN toMirror' : /\ j \in Nat \ {0} /\ j + 1 \in DOMAIN toMirror
                                     /\ toMirror'[j] = toMirror[j + 1]
      /\ \A i \in DOMAIN toMirror : i = 1 \/ (i - 1 \in DOMAIN toMirror' /\ (i - 1) + 1 = i)
  <2>1. toMirror \in Seq(Request) /\ toMirror # <<>> /\ toMirror' = Tail(toMirror)
        /\ DOMAIN toMirror = 1..Len(toMirror) /\ Len(toMirror) \in Nat
    BY Types DEF ListenRequest
  <2>2. /\ 1 \in DOMAIN toMirror /\ Head(toMirror) = toMirror[1]
        /\ DOMAIN Tail(toMirror) = 1..(Len(toMirror) - 1)
    BY <2>1, EmptySeq, HeadTailProperties, LenProperties
  <2>3. \A i \in DOMAIN toMirror : i = 1 \/ (i - 1 \in DOMAIN toMirror' /\ (i - 1) + 1 = i)
    BY <2>1, <2>2
  <2>4. \A j \in DOMAIN toMirror' : /\ j \in Nat \ {0} /\ j + 1 \in DOMAIN toMirror
                                    /\ toMirror'[j] = toMirror[j + 1]
    BY <2>1, <2>2, ThinTail
  <2> QED BY <2>2, <2>3, <2>4 DEF ListenRequest
<1> HIDE DEF rq
<1>2. Running' = Running /\ Asking' = Asking /\ CurFile' = CurFile /\ Current' = Current
      /\ Lost' = Lost
    BY <1>0 DEF Running, Asking, CurFile, Current, Lost
<1>3. RestInv'
    BY <1>0 DEF LossInv, RestInv, NoHeadLost, Exists
<1>4. CASE ~ Running
    BY <1>0, <1>2, <1>3, <1>4, LostType, IdleLoss
<1>5. CASE Running
  <2>0. ExchangeInv /\ AnswerInv /\ WritingInv /\ sock # 0
    BY <1>5, Types DEF LossInv, MixInv, RunInv, Running
  <2>1. ~ Busy
    BY <1>0, <2>0 DEF Busy, NoRequest
  <2>2. OnTheWay = (Busy' \/ OnTheWay')
  <3>1. OnTheWay => Busy' \/ OnTheWay'
    <4> SUFFICES ASSUME NEW i \in DOMAIN toMirror, toMirror[i].port = sock
                 PROVE  Busy' \/ OnTheWay'
      BY DEF OnTheWay
    <4>1. CASE i = 1
      BY <1>0, <1>1, <4>1 DEF Busy, rq
    <4>2. CASE i # 1
      BY <1>0, <1>1, <4>2 DEF OnTheWay
    <4> QED BY <4>1, <4>2
  <3>2. Busy' \/ OnTheWay' => OnTheWay
    BY <1>0, <1>1 DEF OnTheWay, Busy, rq
  <3> QED BY <3>1, <3>2 DEF OnTheWay, Busy
  <2>3. OnTheWay' => ~ Busy'
    <3> SUFFICES ASSUME NEW j \in DOMAIN toMirror', toMirror'[j].port = sock, rq.port = sock
                 PROVE  FALSE
      BY <1>0, <1>1 DEF OnTheWay, Busy
    <3>1. j + 1 = 1
      BY <1>1, <1>5, <2>0 DEF ExchangeInv, rq
    <3> QED BY <1>1, <3>1
  <2>4. Unanswered' = Unanswered /\ (Quiet => Quiet')
    BY <1>0, <2>1, <2>2 DEF Unanswered, Quiet, OnTheWay, Busy
  <2>5. Left = 0 /\ Left' = 0
    BY <1>0, <2>1 DEF Left
  <2>6. InSight' = InSight /\ FirstGone' = FirstGone
    BY <1>0, <2>5 DEF InSight, FirstGone
  <2>7. ~ Unanswered => /\ \A m : AnswerOf(m) => AnswerOf(m)'
                        /\ EndInSight => EndInSight'
    <3>1. ~ Unanswered => ~ Busy'
      BY <1>0, <2>4 DEF Unanswered, Busy
    <3> QED BY <1>0, <2>1, <2>6, <3>1 DEF AnswerOf, EndInSight
  <2>8. Intact => Intact'
    BY <2>4, <2>6, <2>7 DEF Intact, AnswerOf
  <2>9. ExchangeInv'
    <3>1. \A i, j \in DOMAIN toMirror' :
              toMirror'[i].port = sock' /\ toMirror'[j].port = sock' => i = j
      BY <1>0, <1>1, <1>5, <2>0 DEF ExchangeInv
    <3>2. \A r : ForCurrent(r)' = ForCurrent(r)
      BY <1>0, <1>2 DEF ForCurrent
    <3>3. \A i \in DOMAIN toMirror : ForCurrent(toMirror[i])
      BY <1>5, <2>0 DEF ExchangeInv
    <3>4. /\ \A i \in DOMAIN toMirror' : ForCurrent(toMirror[i])'
          /\ ForCurrent(request)'
      <4>1. \A i \in DOMAIN toMirror' : ForCurrent(toMirror'[i])
        BY <1>1, <3>3
      <4>2. ForCurrent(rq)
        BY <1>1, <3>3 DEF rq
      <4> QED BY <1>0, <1>1, <1>2, <4>1, <4>2 DEF ForCurrent
    <3>5. Asking' /\ ~ Unanswered' =>
             \E m \in Nat \ {0} : AnswerOf(m)'
      BY <1>0, <1>2, <1>5, <2>4, <2>7, InExchange
    <3> HIDE DEF Unanswered, Quiet, OnTheWay, Busy, Asking
    <3>6. /\ Unanswered' => toAgent' = <<>> /\ apc' = "wait_first"
          /\ apc' \in {"call", "write", "close"} => Quiet'
          /\ apc' \in {"wait_more", "received"} => recv'.got > 0
      BY <1>0, <1>5, <2>0, <2>4 DEF ExchangeInv
    <3> QED BY <2>3, <3>1, <3>4, <3>5, <3>6 DEF ExchangeInv
  <2>10. AnswerInv' /\ WritingInv'
    <3>1. \A s, b, m : Proper(s, b, m)' = Proper(s, b, m)
      BY <1>0, SameProper
    <3>3. /\ \A i \in DOMAIN toAgent' : toAgent'[i].status # NoHeader =>
                Proper(toAgent[i].status, toAgent[i].body, toAgent[i].frames)'
          /\ recv'.got > 0 => Proper(recv.status, recv.body, recv.frames)'
      BY <1>0, <1>5, <2>0, <3>1 DEF AnswerInv
    <3>4. WritingInv'
      BY <1>0, <1>2, <2>0 DEF WritingInv, Steady
    <3> QED BY <1>0, <3>3, <3>4 DEF AnswerInv
  <2>11. Cost' <= Lost'
    BY <1>0, <1>2, <1>5, <2>8, SameCost
  <2> QED BY <1>0, <1>3, <1>5, <2>9, <2>10, <2>11, LossUnderWay
<1> QED BY <1>4, <1>5

\* `services` works on its request and sends nothing yet.
LEMMA WorkLoss ==
    ASSUME IndInv, MixInv, LossInv, svc \in {"scan", "count", "read"},
           svc' \in {"scan", "read", "send"}, RestInv',
           UNCHANGED <<now, sock, netVars, fileVars, request, sent, agentVars, histVars>>,
           Running /\ Busy /\ svc' = "read" /\ Steady(request.file) => size' = len[request.file],
           Running /\ Busy /\ svc' = "send" => Proper(ResponseStatus', body', TotalFrames')
    PROVE  LossInv'
<1>0. /\ sent = 0
      /\ UNCHANGED <<sock, toMirror, toAgent, faults, ver, len, mtime, request, sent, apc, port,
                     files_id, cur, recv, pending, data, outcome, began>>
    BY DEF IndInv, ServiceInv, netVars, fileVars, agentVars, histVars
<1>1. /\ Running' = Running /\ Asking' = Asking /\ CurFile' = CurFile /\ Current' = Current
      /\ Lost' = Lost /\ Busy' = Busy /\ OnTheWay' = OnTheWay /\ Unanswered' = Unanswered
      /\ Quiet' = Quiet
    BY <1>0 DEF Running, Asking, CurFile, Current, Lost, Busy, OnTheWay, Unanswered, Quiet
<1>2. CASE ~ Running
    BY <1>0, <1>1, <1>2, LostType, IdleLoss
<1>3. CASE Running
  <2>1. ~ Unanswered => ~ Busy /\ Left = 0 /\ Left' = 0
    BY <1>0, <1>1 DEF Unanswered, Left
  <2>2. ~ Unanswered => InSight' = InSight /\ FirstGone' = FirstGone
    BY <1>0, <2>1 DEF InSight, FirstGone
  <2>3. ~ Unanswered => /\ \A m : AnswerOf(m) => AnswerOf(m)'
                        /\ EndInSight => EndInSight'
    BY <1>0, <1>1, <2>1, <2>2 DEF AnswerOf, EndInSight
  <2>4. Intact => Intact'
    BY <1>1, <2>2, <2>3 DEF Intact, AnswerOf
  <2>5. ExchangeInv'
    <3>1. \A r : ForCurrent(r)' = ForCurrent(r)
      BY <1>0, <1>1 DEF ForCurrent
    <3>2. Asking' /\ ~ Unanswered' =>
             \E m \in Nat \ {0} : AnswerOf(m)'
      BY <1>0, <1>1, <1>3, <2>3, InExchange
    <3>3. ExchangeInv
      BY DEF LossInv
    <3> HIDE DEF Unanswered, Quiet, OnTheWay, Busy, Asking
    <3> QED BY <1>0, <1>1, <1>3, <3>1, <3>2, <3>3 DEF ExchangeInv
  <2>6. AnswerInv' /\ WritingInv'
    <3>1. \A s, b, m : Proper(s, b, m)' = Proper(s, b, m)
      BY <1>0, SameProper
    <3>2. Steady(request.file)' = Steady(request.file)
      BY <1>0 DEF Steady
    <3>3. Busy' /\ svc' = "send" => Proper(ResponseStatus, body, TotalFrames)'
      BY <1>1, <1>3, <3>1
    <3>4. /\ \A i \in DOMAIN toAgent' : toAgent'[i].status # NoHeader =>
                Proper(toAgent[i].status, toAgent[i].body, toAgent[i].frames)'
          /\ recv'.got > 0 => Proper(recv.status, recv.body, recv.frames)'
      BY <1>0, <1>3, <3>1 DEF LossInv, AnswerInv
    <3>5. WritingInv'
      BY <1>0, <1>1 DEF LossInv, WritingInv, Steady
    <3> QED BY <1>0, <1>1, <1>3, <3>2, <3>3, <3>4, <3>5 DEF AnswerInv
  <2>7. Cost' <= Lost'
    BY <1>0, <1>1, <1>3, <2>4, SameCost DEF fileVars
  <2> QED BY <1>0, <1>3, <2>5, <2>6, <2>7, LossUnderWay
<1> QED BY <1>2, <1>3

\* What `services` works on for a run is what the agent waits for.
LEMMA BusyFor ==
    ASSUME IndInv, MixInv, LossInv, Running, Busy
    PROVE  /\ IsReport => cur = 0
           /\ ~ IsReport => cur > 0 /\ request.file = CurFile /\ CurFile \in Files
<1>1. IF cur = 0 THEN request.cmd = "MIRROR_REPORT_CHANGES" ELSE request = Current
    BY DEF LossInv, ExchangeInv, ForCurrent, Busy
<1>2. cur # 0 => cur > 0 /\ CurFile \in Files
  <2>1. cur # 0 => cur > 0
    BY Types
  <2> QED BY <2>1, Elements
<1> QED BY <1>1, <1>2 DEF IsReport, Current, PageRequest

LEMMA ScanLoss ==
    ASSUME IndInv, MixInv, LossInv, ScanEnd \/ \E f \in Files : ScanFile(f),
           UNCHANGED <<agentVars, histVars>>
    PROVE  LossInv'
<1>0. /\ svc = "scan" /\ svc' \in {"scan", "send"} /\ IsReport /\ IsReport'
      /\ UNCHANGED <<now, sock, netVars, fileVars, request, sent>>
    BY DEF IndInv, ServiceInv, IsReport, ScanEnd, ScanFile
<1>1. RestInv'
    BY <1>0 DEF LossInv, RestInv, NoHeadLost, netVars, fileVars, histVars, Exists
<1>2. Running /\ Busy => Proper(ResponseStatus', body', TotalFrames')
    BY <1>0, BusyFor DEF Proper, ResponseStatus
<1> QED BY <1>0, <1>1, <1>2, WorkLoss

LEMMA CountLoss ==
    ASSUME IndInv, MixInv, LossInv, CountSize, UNCHANGED <<agentVars, histVars>>
    PROVE  LossInv'
<1>0. /\ svc = "count" /\ ~ IsReport /\ ~ IsReport' /\ body = <<>> /\ body' = <<>>
      /\ UNCHANGED <<now, sock, netVars, fileVars, request, sent>>
    BY DEF IndInv, ServiceInv, IsReport, CountSize
<1>1. CASE Exists(request.file)
  <2>1. svc' = "read" /\ size' = len[request.file]
    BY <1>1 DEF CountSize, Counted
  <2>2. RestInv'
    BY <1>0, <1>1, <2>1 DEF LossInv, RestInv, NoHeadLost, netVars, fileVars, histVars, Exists
  <2> QED BY <1>0, <2>1, <2>2, WorkLoss
<1>2. CASE ~ Exists(request.file)
  <2>1. svc' = "send"
    BY <1>2 DEF CountSize
  <2>2. RestInv'
    BY <1>0, <2>1 DEF LossInv, RestInv, NoHeadLost, netVars, fileVars, histVars, Exists
  <2>3. ResponseStatus' = "file_not_exist" /\ TotalFrames' = 1
    BY <1>0 DEF ResponseStatus, TotalFrames
  <2>4. Running /\ Busy => Proper(ResponseStatus', body', TotalFrames')
    BY <1>0, <1>2, <2>3, BusyFor DEF Proper
  <2> QED BY <1>0, <2>1, <2>2, <2>4, WorkLoss
<1> QED BY <1>1, <1>2

\* The body of a page response: the id, and the first s parts.
PageOf(f, v, n, s) == <<f>> \o SubSeq(Content(f, v, n), 1, s)

LEMMA PageRead ==
    ASSUME NEW f \in Files, NEW v \in Nat, NEW n \in Nat, NEW s \in 1..n
    PROVE  LET b == PageOf(f, v, n, s) IN
           Len(b) = s + 1 /\ b[1] = f /\ b[2] = Part(f, v, 1, n)
<1> DEFINE content == Content(f, v, n)
           c == SubSeq(content, 1, s)
           h == <<f>>
<1>1. content \in Seq(Item) /\ Len(content) = n /\ content[1] = Part(f, v, 1, n)
  <2>1. content \in [1..n -> Item] /\ content[1] = Part(f, v, 1, n)
    BY DEF Content, Part, Item, Parts
  <2> QED BY <2>1
<1> HIDE DEF content
<1>2. c \in Seq(Item) /\ Len(c) = s /\ c[1] = content[1]
  <2>1. /\ c \in Seq(Item) /\ Len(c) = IF 1 <= s THEN s - 1 + 1 ELSE 0
        /\ \A k \in 1..(s - 1 + 1) : c[k] = content[1 + k - 1]
    BY <1>1, SubSeqOfSeq
  <2>2. 1 \in 1..(s - 1 + 1) /\ 1 + 1 - 1 = 1
    OBVIOUS
  <2>3. c[1] = content[1]
    BY <2>1, <2>2
  <2> QED BY <2>1, <2>3
<1>3. h \in Seq(Item) /\ Len(h) = 1 /\ h[1] = f
    BY MarksAreItems
<1> HIDE DEF c, h
<1>4. /\ Len(h \o c) = Len(h) + Len(c)
      /\ \A i \in 1..(Len(h) + Len(c)) :
            (h \o c)[i] = IF i <= Len(h) THEN h[i] ELSE c[i - Len(h)]
    BY <1>2, <1>3, ConcatProperties
<1>5. /\ 1 \in 1..(Len(h) + Len(c)) /\ 1 <= Len(h)
      /\ 2 \in 1..(Len(h) + Len(c)) /\ ~ (2 <= Len(h)) /\ 2 - Len(h) = 1
    BY <1>2, <1>3
<1>6. Len(h \o c) = s + 1 /\ (h \o c)[1] = f /\ (h \o c)[2] = Part(f, v, 1, n)
    BY <1>1, <1>2, <1>3, <1>4, <1>5
<1> QED BY <1>6 DEF h, c, content, PageOf

LEMMA ReadLoss ==
    ASSUME IndInv, MixInv, LossInv, ReadContents, UNCHANGED <<agentVars, histVars>>
    PROVE  LossInv'
<1> DEFINE f == request.file
<1>0. /\ svc = "read" /\ ~ IsReport /\ ~ IsReport' /\ Exists(f) /\ svc' = "send"
      /\ UNCHANGED <<now, sock, netVars, fileVars, request, sent, size>>
      /\ f \in Files /\ len[f] \in Nat /\ size \in Nat
  <2>1. f \in Files
    BY DEF IndInv, ServiceInv, IsReport, Request, ReadContents
  <2>2. len \in [Files -> Nat] /\ size \in Nat
    BY DEF IndInv, TypeOK, MirrorTypeOK
  <2>3. Exists(f)
    BY DEF LossInv, RestInv, ReadContents
  <2>4. len[f] \in Nat
    BY <2>1, <2>2
  <2> QED BY <2>1, <2>2, <2>3, <2>4 DEF IndInv, ServiceInv, IsReport, ReadContents
<1>1. RestInv'
    BY <1>0 DEF LossInv, RestInv, NoHeadLost, netVars, fileVars, histVars, Exists
<1>2. ASSUME Running, Busy PROVE Proper(ResponseStatus', body', TotalFrames')
  <2>0. cur > 0 /\ f = CurFile
    BY <1>0, <1>2, BusyFor
  <2>1. Steady(f) => size = len[f]
    BY <1>0, <1>2 DEF LossInv, AnswerInv
  <2>2. CASE size = 0 \/ len[f] < size
    <3>1. body' = <<>>
      BY <1>0, <2>2 DEF ReadContents
    <3>2. Steady(f) => len[f] = 0
      BY <1>0, <2>1, <2>2
    <3>3. ResponseStatus' = "file_not_exist" /\ TotalFrames' = 1
      BY <1>0, <3>1 DEF ResponseStatus, TotalFrames
    <3> HIDE DEF f
    <3> QED BY <2>0, <3>2, <3>3 DEF Proper
  <2>3. CASE ~ (size = 0 \/ len[f] < size)
    <3>1. body' = PageOf(f, ver[f], len[f], size) /\ size \in 1..len[f]
      BY <1>0, <2>3 DEF ReadContents, PageOf
    <3>2. ver[f] \in Nat
      BY <1>0, Types
    <3>6. Len(body') = size + 1 /\ body'[1] = f /\ body'[2] = Part(f, ver[f], 1, len[f])
      <4>1. f \in Files /\ len[f] \in Nat
        BY <1>0
      <4> HIDE DEF f
      <4> DEFINE v == ver[f]
                 n == len[f]
      <4>2. v \in Nat /\ n \in Nat /\ size \in 1..n /\ f \in Files /\ body' = PageOf(f, v, n, size)
        BY <3>1, <3>2, <4>1
      <4> HIDE DEF v, n
      <4>3. Len(PageOf(f, v, n, size)) = size + 1 /\ PageOf(f, v, n, size)[1] = f
            /\ PageOf(f, v, n, size)[2] = Part(f, v, 1, n)
        BY <4>2, PageRead
      <4> QED BY <4>2, <4>3 DEF v, n
    <3>7. body' # <<>> /\ TotalFrames' = size /\ ResponseStatus' = "pages_returned"
      <4>1. body' # <<>>
        BY <3>1, <3>6
      <4>2. TotalFrames' = Len(body') - 1
        BY <1>0, <4>1 DEF TotalFrames
      <4> QED BY <1>0, <3>1, <3>6, <4>1, <4>2 DEF ResponseStatus
    <3>8. Len(body') >= 2
      BY <3>1, <3>6
    <3> HIDE DEF f
    <3> QED BY <2>0, <2>1, <3>6, <3>7, <3>8 DEF Proper, Present
  <2> QED BY <2>2, <2>3
<1> QED BY <1>0, <1>1, <1>2, WorkLoss

\* To a socket that is closed a frame is sent in vain.
LEMMA SendInVainLoss ==
    ASSUME IndInv, MixInv, LossInv, SendResponse, ~ Busy, UNCHANGED <<agentVars, histVars>>
    PROVE  LossInv'
<1>0. /\ svc = "send" /\ SendOutcome /\ toAgent' = toAgent
      /\ UNCHANGED <<sock, toMirror, faults, fileVars, ver, len, mtime, apc, port, files_id,
                     cur, recv, pending, data, now, began, outcome>>
    BY Sent DEF SendResponse, Deliver, Busy, histVars, agentVars
<1>1. /\ Running' = Running /\ Asking' = Asking /\ CurFile' = CurFile /\ Current' = Current
      /\ OnTheWay' = OnTheWay /\ Lost' = Lost
    BY <1>0 DEF Running, Asking, CurFile, Current, OnTheWay, Lost
<1>2. RestInv'
    BY <1>0 DEF LossInv, RestInv, NoHeadLost, Exists, SendOutcome
<1>3. CASE ~ Running
    BY <1>0, <1>1, <1>2, <1>3, LostType, IdleLoss
<1>4. CASE Running
  <2>1. ~ Busy'
    <3>1. NoRequest.port = 0 /\ sock = port /\ port > 0
      BY <1>4 DEF MixInv, RunInv, Running, NoRequest
    <3> QED BY <1>0, <3>1, Types DEF SendOutcome, Busy
  <2>2. Unanswered' = Unanswered /\ Quiet' = Quiet /\ Left = 0 /\ Left' = 0
    BY <1>0, <1>1, <2>1 DEF Unanswered, Quiet, Left
  <2>3. InSight' = InSight /\ FirstGone' = FirstGone
    BY <1>0, <2>2 DEF InSight, FirstGone
  <2>4. /\ \A m : AnswerOf(m) => AnswerOf(m)'
        /\ EndInSight => EndInSight'
    BY <1>0, <2>1, <2>3 DEF AnswerOf, EndInSight
  <2>5. Intact => Intact'
    BY <2>2, <2>3, <2>4 DEF Intact, AnswerOf
  <2>6. ExchangeInv'
    <3>1. \A r : ForCurrent(r)' = ForCurrent(r)
      BY <1>0, <1>1 DEF ForCurrent
    <3>2. Asking' /\ ~ Unanswered' =>
             \E m \in Nat \ {0} : AnswerOf(m)'
      BY <1>0, <1>1, <1>4, <2>2, <2>4, InExchange
    <3>3. ExchangeInv /\ ForCurrent(request)'
      BY <2>1 DEF LossInv, ForCurrent, Busy
    <3> HIDE DEF Unanswered, Quiet, OnTheWay, Busy, Asking
    <3> QED BY <1>0, <1>1, <1>4, <2>1, <2>2, <3>1, <3>2, <3>3 DEF ExchangeInv
  <2>7. AnswerInv' /\ WritingInv'
    <3>1. \A s, b, m : Proper(s, b, m)' = Proper(s, b, m)
      BY <1>0, SameProper
    <3>2. /\ \A i \in DOMAIN toAgent' : toAgent'[i].status # NoHeader =>
                Proper(toAgent[i].status, toAgent[i].body, toAgent[i].frames)'
          /\ recv'.got > 0 => Proper(recv.status, recv.body, recv.frames)'
      BY <1>0, <1>4, <3>1 DEF LossInv, AnswerInv
    <3>3. WritingInv'
      BY <1>0, <1>1 DEF LossInv, WritingInv, Steady
    <3> QED BY <2>1, <3>2, <3>3 DEF AnswerInv
  <2>8. Cost' <= Lost'
    BY <1>0, <1>1, <1>4, <2>5, SameCost
  <2> QED BY <1>0, <1>2, <1>4, <2>6, <2>7, <2>8, LossUnderWay
<1> QED BY <1>3, <1>4

\* A frame of an answer: the first has the header, the last one the end bytes.
LEMMA FrameIs ==
    ASSUME IndInv, svc = "send", cur # 0 => ~ IsReport, NEW fr, fr = ResponseFrame(sent + 1)
    PROVE  /\ fr \in Frame /\ sent \in Nat /\ sent < TotalFrames /\ TotalFrames \in Nat \ {0}
           /\ sent = 0 => /\ fr.status = ResponseStatus /\ fr.status # NoHeader
                          /\ fr.frames = TotalFrames
                          /\ \A s, m : Proper(s, body, m) => Proper(s, fr.body, m)
           /\ sent # 0 => fr.status = NoHeader
           /\ sent + 1 = TotalFrames => Marked(fr.body)
<1> DEFINE mark == IF sent + 1 = TotalFrames THEN <<EndMark>> ELSE <<>>
           items == FrameItems(sent + 1)
<1>1. fr \in Frame /\ TotalFrames \in Nat \ {0} /\ sent \in Nat /\ sent < TotalFrames
    BY ResponseFrameType, Types DEF IndInv, ServiceInv
<1>2. /\ fr.status = IF sent + 1 = 1 THEN ResponseStatus ELSE NoHeader
      /\ fr.frames = IF sent + 1 = 1 THEN TotalFrames ELSE 0
      /\ fr.body = items \o mark
    BY DEF ResponseFrame
<1>3. sent + 1 = 1 <=> sent = 0
    BY <1>1
<1>4. ResponseStatus # NoHeader
    BY DEF ResponseStatus, NoHeader
<1>5. mark \in Seq(Item) /\ (sent + 1 = TotalFrames => Marked(mark))
  <2>1. <<EndMark>> \in Seq(Item) /\ Len(<<EndMark>>) = 1 /\ <<EndMark>>[1] = EndMark
    BY MarksAreItems
  <2>2. Marked(<<EndMark>>)
    BY <2>1 DEF Marked
  <2>3. <<>> \in Seq(Item)
    BY EmptySeq
  <2> QED BY <2>1, <2>2, <2>3
<1>6. items \in Seq(Item)
    BY FrameItemsType
<1> HIDE DEF mark, items
<1>7. sent + 1 = TotalFrames => Marked(fr.body)
    BY <1>2, <1>5, <1>6, JoinBegins
<1>8. ASSUME sent = 0, NEW s, NEW m, Proper(s, body, m) PROVE Proper(s, fr.body, m)
  <2>1. CASE cur = 0 \/ ~ (Len(body) >= 2)
    BY <1>8, <2>1 DEF Proper
  <2>2. CASE cur # 0 /\ Len(body) >= 2 /\ ~ IsReport
    <3>1. body # <<>> /\ body \in Seq(Item) /\ Len(body) \in Nat
      BY <2>2, Types, EmptySeq
    <3>2. items = SubSeq(body, 1, 2)
      BY <1>8, <2>2, <3>1 DEF items, FrameItems
    <3>3. Len(items) = 2 /\ items[1] = body[1] /\ items[2] = body[2]
      BY <2>2, <3>1, <3>2, SubSeqOfSeq
    <3>4. Proper(s, items, m)
      BY <1>8, <3>3 DEF Proper, Present
    <3> QED BY <1>2, <1>5, <1>6, <3>4, ProperJoin
  <2> QED BY <2>1, <2>2
<1> QED BY <1>1, <1>2, <1>3, <1>4, <1>7, <1>8

\* What the dispatch of one frame does to what is still to be sent.
LEMMA SentOne ==
    ASSUME IndInv, MixInv, LossInv, Running, Busy, svc = "send", SendResponse
    PROVE  /\ Left' = Left - 1 /\ Left \in Nat \ {0}
           /\ ~ OnTheWay /\ ~ OnTheWay' /\ ~ Unanswered'
           /\ Busy' => /\ svc' = "send" /\ TotalFrames' = TotalFrames
                       /\ ResponseStatus' = ResponseStatus
                       /\ UNCHANGED <<body, request>>
           /\ ~ Busy' <=> sent + 1 = TotalFrames
<1>0. sent \in Nat /\ TotalFrames \in Nat \ {0} /\ sent < TotalFrames /\ sock # 0
      /\ ~ OnTheWay /\ ~ OnTheWay'
  <2>1. sock # 0
    BY BusyMeans, Types DEF MixInv
  <2>2. ~ OnTheWay /\ OnTheWay' = OnTheWay
    BY DEF LossInv, ExchangeInv, OnTheWay, SendResponse
  <2> QED BY <2>1, <2>2, ResponseFrameType, Types DEF IndInv, ServiceInv
<1>1. Left = TotalFrames - sent
    BY DEF Left
<1>2. CASE sent + 1 < TotalFrames
  <2>1. sent' = sent + 1 /\ UNCHANGED <<svc, request, body>>
    BY <1>2 DEF SendResponse
  <2>2. TotalFrames' = TotalFrames /\ ResponseStatus' = ResponseStatus /\ Busy'
    BY <2>1 DEF TotalFrames, ResponseStatus, IsReport, Busy, SendResponse
  <2>3. Left' = TotalFrames - (sent + 1)
    BY <2>1, <2>2 DEF Left
  <2>4. ~ Unanswered'
    BY <1>0, <2>1 DEF Unanswered
  <2> QED BY <1>0, <1>1, <1>2, <2>1, <2>2, <2>3, <2>4
<1>3. CASE ~ (sent + 1 < TotalFrames)
  <2>1. request' = NoRequest
    BY <1>3 DEF SendResponse
  <2>2. ~ Busy' /\ Left' = 0
    BY <1>0, <2>1 DEF Busy, NoRequest, Left, SendResponse
  <2>3. ~ Unanswered'
    BY <1>0, <2>2 DEF Unanswered
  <2> QED BY <1>0, <1>1, <1>3, <2>2, <2>3
<1> QED BY <1>2, <1>3

\* The answer goes on as announced.
LEMMA SendAnswer ==
    ASSUME IndInv, MixInv, LossInv, Running, Busy, SendResponse, UNCHANGED agentVars,
           NEW fr, fr = ResponseFrame(sent + 1), fr \in Frame, NEW m, m = TotalFrames,
           sent = 0 => fr.status # NoHeader /\ fr.frames = TotalFrames,
           sent # 0 => fr.status = NoHeader,
           sent + 1 = TotalFrames => Marked(fr.body)
    PROVE  /\ Asking
           /\ AnswerOf(m)' /\ m \in Nat \ {0}
           /\ Intact => Intact'
<1> DEFINE z == Len(toAgent) + 1
<1>0. /\ svc = "send" /\ sent \in Nat /\ m \in Nat \ {0} /\ sent < m /\ Len(toAgent) \in Nat
      /\ toAgent' = Append(toAgent, fr) /\ recv' = recv /\ cur' = cur
      /\ recv.got \in Nat /\ Left = m - sent /\ Left \in Nat
    BY ExchangeTypes, ResponseFrameType, Types
       DEF SendResponse, Deliver, Busy, agentVars, IndInv, ServiceInv, Left
<1>1. /\ Left' = Left - 1 /\ ~ Unanswered'
      /\ Busy' => svc' = "send" /\ TotalFrames' = m
      /\ ~ Busy' <=> sent + 1 = m
    BY <1>0, SentOne
<1>2. /\ z \in Nat /\ z \in DOMAIN toAgent' /\ toAgent'[z] = fr /\ Len(toAgent') = z
      /\ \A i \in DOMAIN toAgent : i < z /\ toAgent'[i] = toAgent[i]
      /\ \A i \in DOMAIN toAgent' : i = z \/ i \in DOMAIN toAgent
      /\ DOMAIN toAgent = 1..Len(toAgent)
  <2>1. toAgent \in Seq(Frame) /\ DOMAIN toAgent = 1..Len(toAgent)
    BY Types
  <2>2. Len(toAgent') = z
    BY <1>0, <2>1, AppendProperties
  <2> QED BY <1>0, <2>1, <2>2, Appended
<1>3. toAgent' # <<>> /\ toAgent'[Len(toAgent')] = fr
    BY <1>2, EmptySeq
<1>4. Asking
  <2>1. apc \notin {"call", "write", "close"}
    BY DEF LossInv, ExchangeInv, Quiet
  <2> QED BY <2>1, Types DEF Running, Asking, AgentStates
<1>5. InSight = recv.got + Len(toAgent) + Left /\ InSight' = recv.got + z + (Left - 1)
    BY <1>0, <1>1, <1>2 DEF InSight
<1>6. EndInSight'
    BY <1>1, <1>3 DEF EndInSight
<1> HIDE DEF z
<1>8. CASE sent = 0
  <2>1. toAgent = <<>> /\ recv.got = 0 /\ Len(toAgent) = 0
    <3>1. Unanswered
      BY <1>8 DEF Unanswered
    <3>2. toAgent = <<>> /\ recv = NothingReceived
      BY <3>1 DEF LossInv, ExchangeInv, MixInv, RunInv
    <3> QED BY <3>2, EmptySeq DEF NothingReceived
  <2>2. z = 1 /\ InSight' = m
    BY <1>0, <1>5, <1>8, <2>1 DEF z
  <2>3. ~ FirstGone'
    BY <1>2, <1>3, <1>8, <2>2 DEF FirstGone
  <2>4. \A i \in DOMAIN toAgent' : i = 1
    BY <1>2, <2>1, <2>2
  <2>5. AnswerOf(m)'
    BY <1>0, <1>1, <1>2, <1>8, <2>1, <2>2, <2>3, <2>4 DEF AnswerOf
  <2>6. AnswerOf(InSight)' /\ Intact'
    BY <1>6, <2>2, <2>5 DEF Intact, AnswerOf
  <2> QED BY <1>0, <1>4, <2>5, <2>6
<1>9. CASE sent # 0
  <2>1. ~ Unanswered
    BY <1>9 DEF Unanswered, LossInv, ExchangeInv
  <2>2. PICK p \in Nat \ {0} : AnswerOf(p)
    BY <1>4, <2>1, InExchange
  <2>3. p = m
    BY <2>2 DEF AnswerOf
  <2>4. InSight' = InSight
    <3>1. \A x, y, w \in Nat : x + (y + 1) + (w - 1) = x + y + w
      OBVIOUS
    <3>2. InSight' = recv.got + (Len(toAgent) + 1) + (Left - 1)
      BY <1>5 DEF z
    <3> QED BY <1>0, <1>5, <3>1, <3>2
  <2>5. FirstGone' = FirstGone
    <3>1. CASE toAgent = <<>>
      <4>1. z = 1
        BY <3>1, EmptySeq DEF z
      <4> QED BY <1>0, <1>2, <1>3, <1>9, <3>1, <4>1 DEF FirstGone
    <3>2. CASE toAgent # <<>>
      <4>1. 1 \in DOMAIN toAgent
        BY <1>0, <1>2, <3>2, EmptySeq, Types
      <4> QED BY <1>0, <1>2, <1>3, <3>2, <4>1 DEF FirstGone
    <3> QED BY <3>1, <3>2
  <2>6. \A q : AnswerOf(q) => AnswerOf(q)'
    <3> SUFFICES ASSUME NEW q, AnswerOf(q) PROVE AnswerOf(q)'
      OBVIOUS
    <3>1. q = m
      BY <1>0 DEF AnswerOf
    <3>2. \A i \in DOMAIN toAgent' :
              toAgent'[i].status # NoHeader => i = 1 /\ recv.got = 0 /\ toAgent'[i].frames = q
      BY <1>2, <1>9 DEF AnswerOf
    <3>3. Busy' => svc' = "send" /\ TotalFrames' = q
      BY <1>1, <3>1
    <3> HIDE DEF Busy, FirstGone, InSight
    <3> QED BY <1>0, <2>4, <2>5, <3>2, <3>3 DEF AnswerOf
  <2>7. Intact => Intact'
    BY <1>6, <2>1, <2>4, <2>6 DEF Intact
  <2> QED BY <1>4, <2>2, <2>3, <2>6, <2>7
<1> QED BY <1>8, <1>9

LEMMA SendLoss ==
    ASSUME IndInv, MixInv, LossInv, SendResponse, UNCHANGED <<agentVars, histVars>>
    PROVE  LossInv'
<1> DEFINE fr == ResponseFrame(sent + 1)
<1>0. /\ svc = "send"
      /\ UNCHANGED <<sock, toMirror, faults, fileVars, ver, len, mtime, apc, port, files_id,
                     cur, recv, pending, data, now, began, outcome>>
    BY Sent DEF SendResponse, histVars, agentVars
<1>1. /\ Running' = Running /\ Asking' = Asking /\ CurFile' = CurFile /\ Current' = Current
      /\ OnTheWay' = OnTheWay /\ Lost' = Lost
    BY <1>0 DEF Running, Asking, CurFile, Current, OnTheWay, Lost
<1>2. CASE ~ Running
  <2>1. RestInv'
    BY <1>0, Sent DEF LossInv, RestInv, NoHeadLost, Exists, SendOutcome
  <2> QED BY <1>0, <1>1, <1>2, <2>1, LostType, IdleLoss
<1>3. CASE ~ Busy
    BY <1>3, SendInVainLoss
<1>4. CASE Running /\ Busy
  <2>0. /\ toAgent' = Append(toAgent, fr) /\ ExchangeInv /\ AnswerInv /\ WritingInv
        /\ cur # 0 => ~ IsReport
    BY <1>4, BusyFor, Types DEF SendResponse, Deliver, Busy, LossInv
  <2>1. /\ fr \in Frame /\ TotalFrames \in Nat \ {0}
        /\ sent = 0 => /\ fr.status = ResponseStatus /\ fr.status # NoHeader
                       /\ fr.frames = TotalFrames
                       /\ \A s, m : Proper(s, body, m) => Proper(s, fr.body, m)
        /\ sent # 0 => fr.status = NoHeader
        /\ sent + 1 = TotalFrames => Marked(fr.body)
    BY <1>0, <2>0, FrameIs
  <2> HIDE DEF fr
  <2>2. /\ Asking /\ (Intact => Intact')
        /\ \E m \in Nat \ {0} : AnswerOf(m)'
    <3>1. fr = ResponseFrame(sent + 1)
      BY DEF fr
    <3>2. PICK m : m = TotalFrames
      OBVIOUS
    <3>3. /\ sent = 0 => fr.status # NoHeader /\ fr.frames = TotalFrames
          /\ sent # 0 => fr.status = NoHeader
          /\ sent + 1 = TotalFrames => Marked(fr.body)
          /\ fr \in Frame
      BY <2>1
    <3>4. /\ Asking /\ (Intact => Intact')
          /\ AnswerOf(m)' /\ m \in Nat \ {0}
      BY <1>4, <3>1, <3>2, <3>3, SendAnswer
    <3> QED BY <3>4
  <2>3. /\ ~ OnTheWay /\ ~ OnTheWay' /\ ~ Unanswered'
        /\ Busy' => /\ svc' = "send" /\ TotalFrames' = TotalFrames
                    /\ ResponseStatus' = ResponseStatus
                    /\ UNCHANGED <<body, request>>
    BY <1>0, <1>4, SentOne
  <2>4. RestInv'
    BY <1>0, Sent DEF LossInv, RestInv, NoHeadLost, Exists, SendOutcome
  <2>5. ExchangeInv'
    <3>1. \A r : ForCurrent(r)' = ForCurrent(r)
      BY <1>0, <1>1 DEF ForCurrent
    <3>2. ForCurrent(request)'
      <4>1. CASE Busy'
        BY <1>4, <2>0, <2>3, <3>1, <4>1 DEF ExchangeInv
      <4>2. CASE ~ Busy'
        BY <4>2 DEF ForCurrent, Busy
      <4> QED BY <4>1, <4>2
    <3>3. apc \in {"wait_more", "received"} => recv.got > 0
      BY <1>4, <2>0 DEF ExchangeInv
    <3>4. Asking => apc \notin {"call", "write", "close"}
      BY DEF Asking
    <3>5. /\ \A i, j \in DOMAIN toMirror :
                toMirror[i].port = sock /\ toMirror[j].port = sock => i = j
          /\ \A i \in DOMAIN toMirror : ForCurrent(toMirror[i])
      BY <1>4, <2>0 DEF ExchangeInv
    <3> HIDE DEF Unanswered, Quiet, OnTheWay, Busy, Asking
    <3> QED BY <1>0, <1>1, <2>2, <2>3, <3>1, <3>2, <3>3, <3>4, <3>5 DEF ExchangeInv
  <2>6. AnswerInv'
    <3>1. \A s, b, m : Proper(s, b, m)' = Proper(s, b, m)
      BY <1>0, SameProper
    <3>2. Proper(ResponseStatus, body, TotalFrames)
      BY <1>0, <1>4, <2>0 DEF AnswerInv
    <3>3. Busy' => svc' = "send" /\ Proper(ResponseStatus, body, TotalFrames)'
      BY <2>3, <3>1, <3>2
    <3>4. recv'.got > 0 => Proper(recv.status, recv.body, recv.frames)'
      BY <1>0, <1>4, <2>0, <3>1 DEF AnswerInv
    <3>5. ASSUME NEW i \in DOMAIN toAgent', toAgent'[i].status # NoHeader
          PROVE  Proper(toAgent[i].status, toAgent[i].body, toAgent[i].frames)'
      <4>0. /\ toAgent'[Len(toAgent) + 1] = fr
            /\ \A j \in DOMAIN toAgent : toAgent'[j] = toAgent[j]
            /\ i = Len(toAgent) + 1 \/ i \in DOMAIN toAgent
        BY <2>0, <2>1, Appended
      <4>1. CASE i \in DOMAIN toAgent
        BY <1>4, <2>0, <3>1, <3>5, <4>0, <4>1 DEF AnswerInv
      <4>2. CASE i = Len(toAgent) + 1
        <5>1. Proper(fr.status, fr.body, fr.frames)
          BY <2>1, <3>2, <3>5, <4>0, <4>2
        <5> QED BY <3>1, <4>0, <4>2, <5>1
      <4> QED BY <4>0, <4>1, <4>2
    <3> QED BY <3>3, <3>4, <3>5 DEF AnswerInv
  <2>7. WritingInv'
    BY <1>0, <1>1, <2>2 DEF WritingInv, Asking
  <2>8. Cost' <= Lost'
    BY <1>0, <1>1, <1>4, <2>2, SameCost
  <2> QED BY <1>0, <1>4, <2>4, <2>5, <2>6, <2>7, <2>8, LossUnderWay
<1> QED BY <1>2, <1>3, <1>4

-----------------------------------------------------------------------------
(* The network. *)

\* A loss costs no more than what the agent waits for.
LEMMA LostCost ==
    ASSUME IndInv, LossInv, Running, Lost' = Lost + 1,
           UNCHANGED <<agentVars, histVars, ver, len, mtime>>
        \/ UNCHANGED <<apc, cur, files_id, data, began, ver, len, mtime>>
    PROVE  Cost' <= Lost'
<1>1. Asking' = Asking /\ DoneWith' = DoneWith
    BY DEF agentVars, Asking, DoneWith
<1>2. Missed(DoneWith)' = Missed(DoneWith)
    BY <1>1, SameMissed DEF Missed, agentVars, histVars
<1>3. Cost <= Lost /\ Lost \in Int /\ Cardinality(Missed(DoneWith)) \in Nat
    BY LostType, CostType DEF LossInv, CostInv
<1> HIDE DEF Lost
<1>4. Cost' \in {Cardinality(Missed(DoneWith)), Cardinality(Missed(DoneWith)) + 1}
    BY <1>2, <1>3 DEF Cost
<1>5. Cardinality(Missed(DoneWith)) <= Cost
    BY <1>3 DEF Cost
<1> QED BY <1>3, <1>4, <1>5, CostType

\* A request is lost: an answer of which nothing comes.
LEMMA RequestLost ==
    ASSUME IndInv, IndInv', MixInv, LossInv, Running, Thin(toMirror', toMirror),
           UNCHANGED <<sock, toAgent, svc, request, body, sent, apc, cur, files_id, recv>>
    PROVE  ExchangeInv'
<1>0. /\ Running' = Running /\ Asking' = Asking /\ CurFile' = CurFile /\ Current' = Current
      /\ Busy' = Busy /\ ExchangeInv
    BY DEF Running, Asking, CurFile, Current, Busy, LossInv
<1>1. PICK h : Embeds(toMirror', toMirror, h)
    BY DEF Thin
<1>2. /\ \A j \in DOMAIN toMirror' : h[j] \in DOMAIN toMirror /\ toMirror'[j] = toMirror[h[j]]
      /\ \A i, j \in DOMAIN toMirror' : i < j => h[i] < h[j]
    BY <1>1 DEF Embeds
<1>3. OnTheWay' => OnTheWay
    BY <1>2 DEF OnTheWay
<1>4. \A i, j \in DOMAIN toMirror' :
          toMirror'[i].port = sock /\ toMirror'[j].port = sock => i = j
  <2> SUFFICES ASSUME NEW i \in DOMAIN toMirror', NEW j \in DOMAIN toMirror',
                      toMirror'[i].port = sock, toMirror'[j].port = sock
               PROVE  i = j
    OBVIOUS
  <2>1. h[i] = h[j]
    BY <1>0, <1>2 DEF ExchangeInv
  <2>2. i \in Int /\ j \in Int /\ h[i] \in Int
    <3>1. DOMAIN toMirror' \subseteq Int
      BY TypesAfter
    <3> QED BY <1>2, <3>1, Types
  <2>3. ~ (i < j) /\ ~ (j < i)
    BY <1>2, <2>1, <2>2
  <2> QED BY <2>2, <2>3
<1>5. \A r : ForCurrent(r)' = ForCurrent(r)
    BY <1>0 DEF ForCurrent
<1>6. \A i \in DOMAIN toMirror' : ForCurrent(toMirror[i])'
  <2>1. \A i \in DOMAIN toMirror' : ForCurrent(toMirror'[i])
    BY <1>0, <1>2 DEF ExchangeInv
  <2> QED BY <1>0, <2>1 DEF ForCurrent
<1>7. (Unanswered' => Unanswered) /\ (Quiet => Quiet')
    BY <1>0, <1>3 DEF Unanswered, Quiet
<1>8. ASSUME Asking, ~ Unanswered'
      PROVE  \E m \in Nat \ {0} : AnswerOf(m)'
  <2>1. CASE ~ Unanswered
    <3>1. PICK m \in Nat \ {0} : AnswerOf(m)
      BY <1>8, <2>1, InExchange
    <3>2. Left' = Left /\ FirstGone' = FirstGone /\ TotalFrames' = TotalFrames
      BY <1>0 DEF Left, FirstGone, TotalFrames, IsReport
    <3>3. AnswerOf(m)'
      BY <1>0, <3>1, <3>2 DEF AnswerOf, InSight
    <3> QED BY <3>1, <3>3
  <2>2. CASE Unanswered
    <3>1. ~ Busy /\ ~ Busy'
      BY <1>0, <1>8, <2>2 DEF Unanswered, ExchangeInv
    <3>2. toAgent = <<>> /\ recv.got = 0 /\ Len(toAgent) = 0 /\ DOMAIN toAgent = {}
      <4>1. toAgent = <<>> /\ recv = NothingReceived
        BY <1>0, <2>2 DEF ExchangeInv, MixInv, RunInv
      <4> QED BY <4>1, Types, EmptySeq DEF NothingReceived
    <3>3. InSight' = 0
      BY <3>1, <3>2 DEF InSight, Left
    <3>4. AnswerOf(1)'
      BY <3>1, <3>2, <3>3 DEF AnswerOf
    <3> QED BY <3>4
  <2> QED BY <2>1, <2>2
<1> HIDE DEF Unanswered, Quiet, OnTheWay, Busy, Asking
<1> QED BY <1>0, <1>3, <1>4, <1>5, <1>6, <1>7, <1>8 DEF ExchangeInv

\* A frame that is lost leaves the others in order.
LEMMA FrameTaken ==
    ASSUME IndInv, NEW d \in DOMAIN toAgent, Without(toAgent', toAgent, d)
    PROVE  /\ Len(toAgent') = Len(toAgent) - 1 /\ DOMAIN toAgent' \subseteq Nat \ {0}
           /\ \A j \in DOMAIN toAgent' : \E i \in DOMAIN toAgent : toAgent'[j] = toAgent[i] /\ j <= i
<1>1. DOMAIN toAgent = 1..Len(toAgent) /\ Len(toAgent) \in Nat
    BY Types
<1>2. Len(toAgent') = Len(toAgent) - 1 /\ DOMAIN toAgent' = 1..(Len(toAgent) - 1)
    BY DEF Without
<1>3. ASSUME NEW j \in DOMAIN toAgent'
      PROVE  \E i \in DOMAIN toAgent : toAgent'[j] = toAgent[i] /\ j <= i
  <2>1. j \in Int /\ j <= j /\ j <= j + 1
    BY <1>1, <1>2
  <2>2. toAgent'[j] = IF j < d THEN toAgent[j] ELSE toAgent[j + 1]
    BY DEF Without
  <2>3. j \in DOMAIN toAgent /\ j + 1 \in DOMAIN toAgent
    BY DEF Without
  <2> QED BY <2>1, <2>2, <2>3
<1> QED BY <1>1, <1>2, <1>3

\* A frame is lost: what can still be received is one frame less than announced.
LEMMA FrameLost ==
    ASSUME IndInv, IndInv', MixInv, LossInv, Running, NEW d \in DOMAIN toAgent,
           Without(toAgent', toAgent, d),
           LossOf(toAgent[d]) = "loss",
           UNCHANGED <<sock, toMirror, svc, request, body, sent, apc, cur, files_id, recv,
                       ver, len, mtime, began, size, pending, data>>
    PROVE  ExchangeInv' /\ AnswerInv' /\ WritingInv'
<1>0. /\ Running' = Running /\ Asking' = Asking /\ CurFile' = CurFile /\ Current' = Current
      /\ Busy' = Busy /\ OnTheWay' = OnTheWay /\ Unanswered' = Unanswered /\ Left' = Left
      /\ TotalFrames' = TotalFrames /\ ResponseStatus' = ResponseStatus
      /\ ExchangeInv /\ AnswerInv /\ WritingInv
    BY DEF Running, Asking, CurFile, Current, Busy, OnTheWay, Unanswered, Left, TotalFrames,
           ResponseStatus, IsReport, LossInv
<1>1. /\ toAgent \in Seq(Frame) /\ DOMAIN toAgent = 1..Len(toAgent) /\ Len(toAgent) \in Nat
      /\ Len(toAgent') = Len(toAgent) - 1
      /\ DOMAIN toAgent' \subseteq Nat \ {0} /\ toAgent # <<>>
      /\ \A j \in DOMAIN toAgent' : \E i \in DOMAIN toAgent : toAgent'[j] = toAgent[i] /\ j <= i
  <2>1. toAgent \in Seq(Frame) /\ DOMAIN toAgent = 1..Len(toAgent) /\ Len(toAgent) \in Nat
    BY Types
  <2>2. toAgent # <<>>
    BY <2>1, EmptySeq
  <2>3. Len(toAgent') = Len(toAgent) - 1 /\ DOMAIN toAgent' \subseteq Nat \ {0}
    BY FrameTaken
  <2>4. \A j \in DOMAIN toAgent' : \E i \in DOMAIN toAgent : toAgent'[j] = toAgent[i] /\ j <= i
    BY FrameTaken
  <2> QED BY <2>1, <2>2, <2>3, <2>4
<1>2. ~ Unanswered /\ Asking
  <2>1. ~ Unanswered /\ apc \notin {"call", "write", "close"}
    BY <1>0, <1>1 DEF ExchangeInv, Quiet
  <2> QED BY <2>1, Types DEF Running, Asking, AgentStates
<1>3. PICK m \in Nat \ {0} : AnswerOf(m)
    BY <1>2, InExchange
<1>4. InSight <= m /\ InSight' = InSight - 1 /\ InSight \in Nat
  <2>1. recv.got \in Nat /\ Left \in Nat /\ InSight \in Nat
    BY ExchangeTypes
  <2>2. \A x, y, z \in Nat : x + (y - 1) + z = x + y + z - 1
    OBVIOUS
  <2> QED BY <1>0, <1>1, <1>3, <2>1, <2>2 DEF InSight, AnswerOf
<1>5. AnswerOf(m)'
  <2>1. \A j \in DOMAIN toAgent' :
            toAgent'[j].status # NoHeader => j = 1 /\ recv.got = 0 /\ toAgent'[j].frames = m
    <3> SUFFICES ASSUME NEW j \in DOMAIN toAgent', toAgent'[j].status # NoHeader
                 PROVE  j = 1 /\ recv.got = 0 /\ toAgent'[j].frames = m
      OBVIOUS
    <3>1. PICK i \in DOMAIN toAgent : toAgent'[j] = toAgent[i] /\ j <= i
      BY <1>1
    <3>2. i = 1 /\ recv.got = 0 /\ toAgent[i].frames = m
      BY <1>3, <3>1 DEF AnswerOf
    <3>3. j = 1
      BY <1>1, <3>1, <3>2
    <3> QED BY <3>1, <3>2, <3>3
  <2>2. InSight' <= m /\ InSight' < m
    BY <1>3, <1>4
  <2>3. Busy' => svc' = "send" /\ TotalFrames' = m
    BY <1>0, <1>3 DEF AnswerOf
  <2>4. FirstGone' /\ cur > 0 => m <= 2
    <3> SUFFICES ASSUME FirstGone', cur > 0, ~ FirstGone PROVE m <= 2
      BY <1>3 DEF AnswerOf
    <3>1. recv.got = 0 /\ toAgent[1].status # NoHeader /\ 1 \in DOMAIN toAgent
      BY <1>1, EmptySeq DEF FirstGone
    <3>2. toAgent[1].frames = m
      BY <1>3, <3>1 DEF AnswerOf
    <3>3. d = 1
      <4> SUFFICES ASSUME d # 1 PROVE FALSE
        OBVIOUS
      <4>1. d \in 1..Len(toAgent) /\ 1 < d
        BY <1>1
      <4>2. 1 \in DOMAIN toAgent' /\ toAgent'[1] = toAgent[1]
        BY <1>1, <4>1 DEF Without
      <4>3. toAgent' # <<>>
        BY <4>2, EmptySeq
      <4> QED BY <3>1, <4>2, <4>3 DEF FirstGone
    <3>4. Proper(toAgent[1].status, toAgent[1].body, m)
      BY <1>0, <3>1, <3>2 DEF AnswerInv
    <3>5. toAgent[1].status = "pages_returned" \/ m = 1
      BY <3>4, Types DEF Proper
    <3> QED BY <3>2, <3>3, <3>5 DEF LossOf
  <2> HIDE DEF InSight, Busy, FirstGone
  <2> QED BY <1>3, <2>1, <2>2, <2>3, <2>4 DEF AnswerOf
<1>6. ExchangeInv'
  <2>1. \A r : ForCurrent(r)' = ForCurrent(r)
    BY <1>0 DEF ForCurrent
  <2>2. /\ \A i, j \in DOMAIN toMirror :
              toMirror[i].port = sock /\ toMirror[j].port = sock => i = j
        /\ \A i \in DOMAIN toMirror : ForCurrent(toMirror[i])
        /\ ForCurrent(request)
        /\ OnTheWay => ~ Busy
        /\ apc \in {"wait_more", "received"} => recv.got > 0
    BY <1>0 DEF ExchangeInv
  <2>3. Asking => apc \notin {"call", "write", "close"}
    BY DEF Asking
  <2> HIDE DEF Unanswered, Quiet, OnTheWay, Busy, Asking
  <2> QED BY <1>0, <1>2, <1>3, <1>5, <2>1, <2>2, <2>3 DEF ExchangeInv
<1>7. AnswerInv'
  <2>1. \A s, b, k : Proper(s, b, k)' = Proper(s, b, k)
    BY SameProper
  <2>2. ASSUME NEW j \in DOMAIN toAgent', toAgent'[j].status # NoHeader
        PROVE  Proper(toAgent[j].status, toAgent[j].body, toAgent[j].frames)'
    <3>1. PICK i \in DOMAIN toAgent : toAgent'[j] = toAgent[i]
      BY <1>1
    <3>2. Proper(toAgent[i].status, toAgent[i].body, toAgent[i].frames)
      BY <1>0, <2>2, <3>1 DEF AnswerInv
    <3> QED BY <2>1, <3>1, <3>2
  <2>3. /\ Busy' /\ svc' = "send" => Proper(ResponseStatus, body, TotalFrames)'
        /\ recv'.got > 0 => Proper(recv.status, recv.body, recv.frames)'
        /\ Busy' /\ svc' = "read" /\ Steady(request.file)' => size' = len'[request'.file]
    BY <1>0, <2>1 DEF AnswerInv, Steady
  <2> QED BY <2>2, <2>3 DEF AnswerInv
<1>8. WritingInv'
    BY <1>0 DEF WritingInv, Steady
<1> QED BY <1>6, <1>7, <1>8

LEMMA NetworkLoss ==
    ASSUME IndInv, IndInv', MixInv, LossInv, Network, NoHeadLost'
    PROVE  LossInv'
<1>0. UNCHANGED <<now, sock, svc, request, body, sent, size, ver, len, mtime, apc, cur, files_id,
                  recv, pending, data, outcome, began, agentVars, histVars>>
    BY DEF Network, fileVars, svcVars, agentVars, histVars
<1>1. Lose
  <2>1. faults["dup"] = 0 /\ faults["swap"] = 0
    BY DEF MixInv, NoDisorder
  <2> QED BY <2>1 DEF Network, NetworkFault, Duplicate, Reorder, Spend
<1>2. /\ Spend("loss")
      /\ \/ /\ toAgent' = toAgent
            /\ \E i \in DOMAIN toMirror : toMirror' = RemoveAt(toMirror, i)
         \/ /\ toMirror' = toMirror
            /\ \E i \in DOMAIN toAgent : /\ LossOf(toAgent[i]) = "loss"
                                         /\ toAgent' = RemoveAt(toAgent, i)
  <2>1. "head" \in FaultKind /\ faults \in [FaultKind -> Nat] /\ faults'["head"] = faults["head"]
    BY Types DEF FaultKind, NoHeadLost, LossInv, RestInv
  <2>2. ~ Spend("head")
    <3> SUFFICES ASSUME Spend("head") PROVE FALSE
      OBVIOUS
    <3>1. faults'["head"] = faults["head"] - 1 /\ faults["head"] \in Nat
      BY <2>1 DEF Spend
    <3> QED BY <2>1, <3>1
  <2>3. \A fr : LossOf(fr) \in {"loss", "head"}
    BY DEF LossOf
  <2> QED BY <1>1, <2>2, <2>3 DEF Lose
<1>3. /\ faults'["loss"] = faults["loss"] - 1 /\ faults'["disk"] = faults["disk"]
      /\ Lost' = Lost + 1
  <2>1. "loss" \in FaultKind /\ "disk" \in FaultKind /\ faults \in [FaultKind -> Nat]
    BY Types DEF FaultKind
  <2>2. faults'["loss"] = faults["loss"] - 1 /\ faults'["disk"] = faults["disk"]
    BY <1>2, <2>1 DEF Spend
  <2> QED BY <2>2, LostType DEF Lost
<1>4. RestInv'
  <2>1. faults["loss"] <= Faults["loss"] /\ faults["loss"] \in Nat /\ Faults["loss"] \in Nat
    BY LostType DEF LossInv, RestInv
  <2>2. faults'["loss"] <= Faults["loss"]
    BY <1>3, <2>1
  <2> QED BY <1>0, <1>3, <2>2 DEF LossInv, RestInv, Exists
<1>5. CASE ~ Running
    BY <1>0, <1>4, <1>5, <1>3, IdleLoss
<1>6. CASE Running
  <2>1. Cost' <= Lost'
    BY <1>0, <1>6, <1>3, LostCost
  <2>2. ExchangeInv' /\ AnswerInv' /\ WritingInv'
    <3>1. CASE toAgent' = toAgent /\ \E i \in DOMAIN toMirror : toMirror' = RemoveAt(toMirror, i)
      <4>1. Thin(toMirror', toMirror)
        BY <3>1, Types, ThinRemove
      <4>2. ExchangeInv'
        BY <1>0, <1>6, <3>1, <4>1, RequestLost
      <4>3. \A s, b, m : Proper(s, b, m)' = Proper(s, b, m)
        BY <1>0, SameProper
      <4>4. /\ Busy' = Busy /\ TotalFrames' = TotalFrames /\ ResponseStatus' = ResponseStatus
            /\ CurFile' = CurFile
        BY <1>0 DEF Busy, TotalFrames, ResponseStatus, IsReport, CurFile
      <4>5. AnswerInv' /\ WritingInv'
        <5>1. AnswerInv /\ WritingInv
          BY DEF LossInv
        <5>2. /\ Busy' /\ svc' = "send" => Proper(ResponseStatus, body, TotalFrames)'
              /\ recv'.got > 0 => Proper(recv.status, recv.body, recv.frames)'
              /\ Busy' /\ svc' = "read" /\ Steady(request.file)' => size' = len'[request'.file]
          BY <1>0, <1>6, <4>3, <4>4, <5>1 DEF AnswerInv, Steady
        <5>3. \A i \in DOMAIN toAgent' : toAgent'[i].status # NoHeader =>
                  Proper(toAgent[i].status, toAgent[i].body, toAgent[i].frames)'
          BY <1>0, <1>6, <3>1, <4>3, <5>1 DEF AnswerInv
        <5>4. WritingInv'
          BY <1>0, <4>4, <5>1 DEF WritingInv, Steady
        <5> QED BY <5>2, <5>3, <5>4 DEF AnswerInv
      <4> QED BY <4>2, <4>5
    <3>2. CASE /\ toMirror' = toMirror
               /\ \E i \in DOMAIN toAgent : /\ LossOf(toAgent[i]) = "loss"
                                            /\ toAgent' = RemoveAt(toAgent, i)
      <4>1. \E d \in DOMAIN toAgent :
                LossOf(toAgent[d]) = "loss" /\ Without(toAgent', toAgent, d)
        BY <3>2, Types, RemovedAt
      <4> QED BY <1>0, <1>6, <3>2, <4>1, FrameLost
    <3> QED BY <1>2, <3>1, <3>2
  <2> QED BY <1>0, <1>4, <1>6, <2>1, <2>2, LossUnderWay
<1> QED BY <1>5, <1>6

-----------------------------------------------------------------------------
(* A lost datagram costs one file. *)

LEMMA LossInitially ==
    ASSUME Init, InTime
    PROVE  LossInv
<1>1. /\ apc = "idle" /\ outcome = "none" /\ now = 1 /\ began = 0 /\ faults = Faults
      /\ svc = "wait_start"
    BY DEF Init, AgentInit, MirrorInit
<1>2. RestInv
  <2>1. {"loss", "disk"} \subseteq FaultKind /\ Faults \in [FaultKind -> Nat]
    BY FaultsAreCounted DEF FaultKind
  <2>2. Faults["loss"] <= Faults["loss"] /\ Faults["disk"] <= Faults["disk"]
    BY <2>1
  <2> QED BY <1>1, <2>2 DEF RestInv, NoHeadLost
<1> QED BY <1>1, <1>2 DEF LossInv, ExchangeInv, AnswerInv, WritingInv, CostInv, Running,
                          LossCostsOneFile

LEMMA LossStep ==
    ASSUME InTime, IndInv, IndInv', MixInv, LossInv, [Next]_vars, NoHeadLost'
    PROVE  LossInv'
<1>1. CASE Tick \/ UNCHANGED vars
    BY <1>1, TickLoss
<1>2. CASE MirrorChange
    BY <1>2, MirrorLoss
<1>3. CASE ServiceNext
  <2>1. UNCHANGED <<agentVars, histVars>>
    BY <1>3 DEF ServiceNext
  <2>2. CASE ListenRequest
    BY <2>1, <2>2, ListenLoss
  <2>3. CASE ScanEnd \/ \E f \in Files : ScanFile(f)
    BY <2>1, <2>3, ScanLoss
  <2>4. CASE CountSize
    BY <2>1, <2>4, CountLoss
  <2>5. CASE ReadContents
    BY <2>1, <2>5, ReadLoss
  <2>6. CASE SendResponse
    BY <2>1, <2>6, SendLoss
  <2> QED BY <1>3, <2>2, <2>3, <2>4, <2>5, <2>6 DEF ServiceNext, ServiceStep
<1>4. CASE AgentStart
    BY <1>4, StartLoss
<1>5. CASE AgentRun
  <2>1. CASE ReceiveFirst
    BY <1>5, <2>1, ReceiveFirstLoss
  <2>2. CASE ReceiveMore
    BY <1>5, <2>2, ReceiveMoreLoss
  <2>3. CASE NothingUnderWay /\ TimeOut
    BY <1>5, <2>3, TimeOutLoss
  <2>4. CASE ProcessReport
    BY <1>5, <2>4, ProcessReportLoss
  <2>5. CASE CallGetPage
    BY <1>5, <2>5, CallLoss
  <2>6. CASE AgentEnd
    BY <1>5, <2>6, EndLoss
  <2>7. CASE ProcessPage
    BY <1>5, <2>7, ProcessPageLoss
  <2>8. CASE WriteFile
    BY <1>5, <2>8, WriteFileLoss
  <2>9. CASE WriteDone
    BY <1>5, <2>9, WriteDoneLoss
  <2>10. CASE Buffered
    BY <1>5, <2>10, BufferedLoss
  <2>11. Timely
    BY DEF InTime
  <2> QED BY <1>5, <2>1, <2>2, <2>3, <2>4, <2>5, <2>6, <2>7, <2>8, <2>9, <2>10, <2>11
          DEF AgentRun
<1>6. CASE AgentBreaks
    BY <1>6, BreakLoss
<1>7. CASE Network
    BY <1>7, NetworkLoss
<1> QED BY <1>1, <1>2, <1>3, <1>4, <1>5, <1>6, <1>7 DEF Next

\* Lost first frames do not come back.
LEMMA HeadsStep ==
    ASSUME IndInv, [Next]_vars
    PROVE  /\ faults["head"] \in Nat /\ faults'["head"] \in Int
           /\ faults'["head"] <= faults["head"]
<1>1. faults \in [FaultKind -> Nat] /\ "head" \in FaultKind
    BY Types DEF FaultKind
<1>2. CASE UNCHANGED faults
    BY <1>1, <1>2
<1>3. ASSUME NEW kind \in FaultKind, Spend(kind)
      PROVE  faults'["head"] \in {faults["head"], faults["head"] - 1}
    BY <1>1, <1>3 DEF Spend
<1>4. CASE AgentBreaks
  <2>1. Spend("disk") \/ Spend("kill")
    BY <1>4 DEF AgentBreaks, WriteFails, CloseFails, Kill
  <2> QED BY <1>1, <1>3, <2>1 DEF FaultKind
<1>5. CASE Network
  <2>1. \A fr : LossOf(fr) \in {"loss", "head"}
    BY DEF LossOf
  <2>2. \E kind \in {"loss", "head", "dup", "swap"} : Spend(kind)
    BY <1>5, <2>1 DEF Network, NetworkFault, Lose, Duplicate, Reorder
  <2> QED BY <1>1, <1>3, <2>2 DEF FaultKind
<1>6. CASE Tick \/ MirrorChange \/ AgentStart \/ UNCHANGED vars
  <2>1. UNCHANGED faults
    BY <1>6 DEF Tick, MirrorChange, MirrorWrite, MirrorRemove, AgentStart, AgentMain, vars, netVars
  <2> QED BY <1>2, <2>1
<1>7. CASE ServiceNext
  <2>1. UNCHANGED faults
    BY <1>7 DEF ServiceNext, ServiceStep, ListenRequest, ScanFile, ScanEnd, CountSize,
                ReadContents, SendResponse, netVars
  <2> QED BY <1>2, <2>1
<1>8. CASE AgentRun
  <2>1. UNCHANGED faults
    BY <1>8 DEF AgentRun, ReceiveFirst, ReceiveMore, TimeOut, ProcessReport, CallGetPage, AgentEnd,
                ProcessPage, WriteFile, Buffered, WriteDone, netVars
  <2> QED BY <1>2, <2>1
<1> QED BY <1>4, <1>5, <1>6, <1>7, <1>8 DEF Next

LEMMA HeadsLost == Spec => [](faults["head"] <= Faults["head"])
<1> DEFINE Fewer == faults["head"] <= Faults["head"]
<1>1. Faults["head"] \in Nat
    BY FaultsAreCounted DEF FaultKind
<1>2. Init => Fewer
    BY <1>1 DEF Init
<1>3. IndInv /\ Fewer /\ [Next]_vars => Fewer'
    BY <1>1, HeadsStep
<1>4. Spec => []Fewer
  <2> HIDE DEF Fewer
  <2> QED BY InductiveInvariant, <1>2, <1>3, PTL DEF Spec
<1> QED BY <1>4

\* An answer is all there, or a datagram of its exchange was lost: the invariant
\* behind what a run brings over.
THEOREM AnswersAreComplete ==
    ASSUME InTime
    PROVE  Spec => [](NoHeadLost => LossInv)
<1> DEFINE Fewer == faults["head"] <= Faults["head"]
           Complete == NoHeadLost => LossInv
<1>1. Init => Complete
    BY LossInitially
<1>2. IndInv /\ IndInv' /\ MixInv /\ Fewer /\ Fewer' /\ Complete /\ [Next]_vars => Complete'
  <2> SUFFICES ASSUME IndInv, IndInv', MixInv, Fewer, Complete, [Next]_vars, NoHeadLost'
               PROVE  LossInv'
    OBVIOUS
  <2>1. Faults["head"] \in Nat
    BY FaultsAreCounted DEF FaultKind
  <2>2. NoHeadLost
    BY <2>1, HeadsStep DEF NoHeadLost
  <2> QED BY <2>2, LossStep
<1>3. Spec => []MixInv
    BY UnderWayBelongsTogether DEF InTime
<1>4. Spec => []Fewer
    BY HeadsLost
<1>5. Spec => []Complete
  <2> HIDE DEF Fewer, Complete
  <2> QED BY InductiveInvariant, <1>1, <1>2, <1>3, <1>4, PTL DEF Spec
<1> QED BY <1>5

\* The loop of main goes on after a page that did not come, and what is left of a
\* response does not spoil the pages that follow: when no answer is late, a run
\* leaves no more files behind than there were lost datagrams and full disks, as long
\* as none of the lost ones is the first frame of a page of three frames or more.
THEOREM LostDatagramCostsOneFile ==
    ASSUME InTime
    PROVE  Spec => []LossCostsOneFile
<1>1. (NoHeadLost => LossInv) => LossCostsOneFile
    BY DEF LossInv, LossCostsOneFile, NoHeadLost
<1> QED BY AnswersAreComplete, <1>1, PTL

\* Without losses and full disks a run that went through its list has fetched every file on it that
\* was last modified before the run began, however long the files are and although
\* the mirror writes while it is read.
THEOREM ListedFilesAreFetched ==
    ASSUME InTime, Faults["loss"] = 0, Faults["head"] = 0, Faults["disk"] = 0
    PROVE  Spec => []ReportedFilesSynchronized
<1>1. IndInv /\ (NoHeadLost => LossInv) /\ faults["head"] <= Faults["head"]
          => ReportedFilesSynchronized
  <2> SUFFICES ASSUME IndInv, NoHeadLost => LossInv, faults["head"] <= Faults["head"], outcome = "ended", NEW i \in DOMAIN files_id,
                      ~ Synchronized(files_id[i]), ~ (mtime[files_id[i]] >= began)
               PROVE  FALSE
    BY DEF ReportedFilesSynchronized
  <2> DEFINE f == files_id[i]
  <2>1. f \in Files /\ f \in ToSet(files_id) /\ mtime[f] \in Nat /\ began \in Nat
    <3>1. f \in Files /\ f \in ToSet(files_id)
      BY Types, ElementOfSeq DEF ToSet
    <3> HIDE DEF f
    <3> QED BY <3>1, Types DEF IndInv, TypeOK
  <2>2. f \in LeftBehind
    BY <2>1 DEF LeftBehind
  <2> HIDE DEF f
  <2>3. IsFiniteSet(LeftBehind)
    BY ListedFiles
  <2>4. NoHeadLost
    BY LostType DEF NoHeadLost
  <2>5. Cardinality(LeftBehind) <= 0
    <3>1. Cardinality(LeftBehind) <= Lost
      BY <2>4 DEF LossInv, LossCostsOneFile, NoHeadLost
    <3>2. faults["loss"] \in Nat /\ faults["disk"] \in Nat
      BY LostType
    <3>3. Lost <= 0
      BY <3>2 DEF Lost
    <3>4. Lost \in Int /\ Cardinality(LeftBehind) \in Nat
      BY <2>3, LostType, FS_CardinalityType
    <3> HIDE DEF Lost
    <3> QED BY <3>1, <3>3, <3>4
  <2>6. Cardinality(LeftBehind) = 0
    BY <2>3, <2>5, FS_CardinalityType
  <2> QED BY <2>2, <2>3, <2>6, FS_EmptySet
<1> QED BY AnswersAreComplete, HeadsLost, InductiveInvariant, <1>1, PTL

-----------------------------------------------------------------------------
(* "No Changes. All Files already Synchronized". *)

\* Nothing is lost or fails, no run is killed, the mirror changes between runs, its clock is
\* not set to a zone west of UTC, and a report has room for every file.
Calm ==
    /\ InTime /\ QuietRuns
    /\ \A kind \in FaultKind : Faults[kind] = 0
    /\ \A shift \in TzShifts : shift <= 0
    /\ IsFiniteSet(Files) /\ Cardinality(Files) <= FilesCountMax

LEMMA SameStale ==
    ASSUME UNCHANGED <<ver, len, mtime, data>>
    PROVE  Stale' = Stale /\ (ptime' = ptime => \A f : YoungerThanAll(f)' = YoungerThanAll(f))
<1>1. \A f : Synchronized(f)' = Synchronized(f)
    BY DEF Synchronized, Exists, HasContentOf, IsPrefixOf
<1>2. ptime' = ptime => \A f : YoungerThanAll(f)' = YoungerThanAll(f)
    BY DEF YoungerThanAll
<1> QED BY <1>1, <1>2 DEF Stale

\* The mirror and the network, while the agent waits.
LEMMA StaleKept ==
    ASSUME StaleInv, UNCHANGED <<agentVars, ver, len, mtime, faults>>,
           Running /\ cur = 0 /\ Asking =>
               /\ \A f \in Stale : (WillBeFound(f) \/ InReport(f))'
               /\ \A i \in DOMAIN toAgent' : toAgent'[i].status = "no_changes" => Stale = {}
    PROVE  StaleInv'
<1>0. UNCHANGED <<apc, cur, recv, files_id, data, ptime>>
    BY DEF agentVars
<1>1. Stale' = Stale /\ \A f : YoungerThanAll(f)' = YoungerThanAll(f)
    BY <1>0, SameStale
<1>2. Running' = Running /\ Asking' = Asking
    BY <1>0 DEF Running, Asking
<1> HIDE DEF Stale, Asking, Running
<1> QED BY <1>0, <1>1, <1>2 DEF StaleInv, NothingFails

\* The list of the run has all that is stale.
LEMMA StaleListed ==
    ASSUME StaleInv, Running, cur > 0 \/ ~ Asking, Running', cur' > 0 \/ ~ Asking',
           UNCHANGED <<faults, files_id>>, Stale' \subseteq Stale \cup ToSet(files_id)
    PROVE  StaleInv'
<1>1. Stale \subseteq ToSet(files_id) /\ ToSet(files_id)' = ToSet(files_id)
    BY DEF StaleInv
<1>2. ~ (cur' = 0 /\ Asking')
    OBVIOUS
<1> HIDE DEF Stale, Asking, Running
<1> QED BY <1>1, <1>2 DEF StaleInv, NothingFails

\* A run without a list leaves things as they were before it.
LEMMA StaleExit ==
    ASSUME StaleInv, Running, cur = 0, Asking, apc' = "idle",
           UNCHANGED <<faults, ver, len, mtime, data, ptime>>
    PROVE  StaleInv'
<1>1. Stale' = Stale /\ \A f : YoungerThanAll(f)' = YoungerThanAll(f)
    BY SameStale
<1>2. ~ Running' /\ ~ Asking'
    BY DEF Running, Asking
<1> HIDE DEF Stale, Asking, Running
<1> QED BY <1>1, <1>2 DEF StaleInv, NothingFails

LEMMA TickStale ==
    ASSUME StaleInv, Tick \/ UNCHANGED vars
    PROVE  StaleInv'
<1>1. UNCHANGED <<sock, toMirror, toAgent, faults, ver, len, mtime, svc, request, t1, unscanned,
                  body, sent, recv, agentVars>>
    BY DEF Tick, vars, netVars, fileVars, svcVars, agentVars
<1>2. recv' = recv /\ Busy' = Busy /\ Unsent' = Unsent
    BY <1>1 DEF Busy, Unsent
<1>3. \A f : WillBeFound(f)' = WillBeFound(f) /\ InReport(f)' = InReport(f)
    BY <1>1, <1>2 DEF WillBeFound, InReport
<1> QED BY <1>1, <1>3, StaleKept DEF StaleInv

\* What the RAIDA server writes between runs is younger than all the primary has.
LEMMA MirrorStale ==
    ASSUME IndInv, Calm, StaleInv, MirrorChange
    PROVE  StaleInv'
<1>0. /\ apc = "idle" /\ \A f \in Files : ptime[f] < now
      /\ mtime \in [Files -> Nat]
      /\ UNCHANGED <<apc, cur, faults, data, ptime, files_id>>
  <2>1. UNCHANGED <<netVars, agentVars>>
    BY DEF MirrorChange, MirrorWrite, MirrorRemove
  <2> QED BY <2>1, Types DEF MirrorChange, MirrorMayChange, Calm, netVars, agentVars
<1>1. PICK g \in Files, n \in Lengths : MirrorWrite(g, n)
    BY DEF MirrorChange, Calm, InTime, MirrorRemove
<1>2. /\ mtime'[g] = now
      /\ \A f \in Files : f # g => UNCHANGED <<ver[f], len[f], mtime[f]>>
    BY <1>0, <1>1, Types DEF MirrorWrite
<1>3. ~ Running /\ ~ Running'
    BY <1>0 DEF Running
<1>4. ASSUME NEW f \in Stale' PROVE YoungerThanAll(f)'
  <2>1. f \in Files
    BY DEF Stale
  <2>2. CASE f = g
    BY <1>0, <1>2, <2>2 DEF YoungerThanAll
  <2>3. CASE f # g
    <3>1. Synchronized(f)' = Synchronized(f)
      BY <1>0, <1>2, <2>1, <2>3 DEF Synchronized, Exists, HasContentOf, IsPrefixOf
    <3>2. f \in Stale
      BY <2>1, <3>1, <1>4 DEF Stale
    <3>3. YoungerThanAll(f)
      BY <1>3, <3>2 DEF StaleInv
    <3> QED BY <1>0, <1>2, <2>1, <2>3, <3>3 DEF YoungerThanAll
  <2> QED BY <2>2, <2>3
<1> QED BY <1>0, <1>3, <1>4 DEF StaleInv, NothingFails

\* The request of a run names a time that is older than all that is stale.
LEMMA StartStale ==
    ASSUME IndInv, MixInv, StaleInv, AgentStart
    PROVE  StaleInv'
<1>0. /\ apc = "idle" /\ apc' = "wait_first" /\ cur' = 0 /\ toAgent' = <<>> /\ sock' = port'
      /\ recv' = NothingReceived
      /\ UNCHANGED <<faults, ver, len, mtime, data, ptime>>
    BY DEF AgentStart, AgentMain, fileVars, MixInv, RunInv
<1>1. PICK t \in {0} \cup {ptime[g] : g \in Files} :
          toMirror' = Append(toMirror, ReportRequest(port', t))
    BY DEF AgentStart, AgentMain
<1>2. /\ ~ Running /\ Running' /\ Stale' = Stale
      /\ \A f : YoungerThanAll(f)' = YoungerThanAll(f)
    BY <1>0, SameStale DEF Running
<1>3. \E i \in DOMAIN toMirror' : toMirror'[i].port = sock' /\ toMirror'[i].since = t
  <2>1. toMirror \in Seq(Request)
    BY Types
  <2>2. PICK rq : rq = ReportRequest(port', t)
    OBVIOUS
  <2>3. Len(toMirror) + 1 \in DOMAIN Append(toMirror, rq)
        /\ Append(toMirror, rq)[Len(toMirror) + 1] = rq
    <3>1. port' \in Nat /\ t \in Nat
      <4>1. port' \in Nat
        BY Types DEF AgentStart, AgentMain
      <4>2. ptime \in [Files -> Nat]
        BY DEF IndInv, TypeOK, AgentTypeOK
      <4> QED BY <4>1, <4>2
    <3>2. rq \in Request
      BY <2>2, <3>1 DEF ReportRequest, Request
    <3> QED BY <2>1, <3>2, AppendProperties, LenProperties
  <2> QED BY <1>0, <1>1, <2>2, <2>3 DEF ReportRequest
<1>4. ASSUME NEW f \in Stale PROVE WillBeFound(f)' /\ YoungerThanAll(f)
  <2>1. YoungerThanAll(f) /\ f \in Files /\ mtime[f] > 0
    BY <1>2, <1>4 DEF StaleInv, Stale, Synchronized, Exists
  <2>2. mtime[f] > t
    BY <1>1, <2>1 DEF YoungerThanAll
  <2> QED BY <1>0, <1>3, <2>1, <2>2 DEF WillBeFound
<1>5. \A i \in DOMAIN toAgent' : FALSE
    BY <1>0, EmptySeq
<1>6. recv'.status # "no_changes"
    BY <1>0 DEF NothingReceived, NoHeader
<1>7. Asking'
    BY <1>0 DEF Asking
<1> HIDE DEF Stale, Asking, Running
<1> QED BY <1>0, <1>2, <1>4, <1>5, <1>6, <1>7 DEF StaleInv, NothingFails

\* mktime makes the time that the request names no younger.
LEMMA ListenStale ==
    ASSUME IndInv, MixInv, LossInv, Calm, StaleInv, ListenRequest,
           UNCHANGED <<agentVars, histVars>>
    PROVE  StaleInv'
<1> DEFINE rq == toMirror[1]
<1>0. /\ svc = "wait_start" /\ request' = rq /\ Dispatch(rq) /\ toMirror # <<>>
      /\ toMirror' = Tail(toMirror)
      /\ UNCHANGED <<sock, toAgent, faults, ver, len, mtime, body, sent, recv, agentVars>>
  <2>1. Head(toMirror) = toMirror[1]
    BY Types, HeadTailProperties DEF ListenRequest
  <2> QED BY <2>1 DEF ListenRequest, fileVars, agentVars
<1>1. \A i \in DOMAIN toMirror : i = 1 \/ \E j \in DOMAIN toMirror' : toMirror'[j] = toMirror[i]
  <2>1. /\ DOMAIN toMirror = 1..Len(toMirror) /\ Len(toMirror) \in Nat \ {0}
        /\ DOMAIN Tail(toMirror) = 1..(Len(toMirror) - 1)
        /\ \A j \in 1..(Len(toMirror) - 1) : Tail(toMirror)[j] = toMirror[j + 1]
    BY <1>0, Types, EmptySeq, HeadTailProperties, LenProperties
  <2> SUFFICES ASSUME NEW i \in DOMAIN toMirror, i # 1
               PROVE  \E j \in DOMAIN toMirror' : toMirror'[j] = toMirror[i]
    OBVIOUS
  <2>2. i - 1 \in 1..(Len(toMirror) - 1) /\ (i - 1) + 1 = i
    BY <2>1
  <2> QED BY <1>0, <2>1, <2>2
<1> HIDE DEF rq
<1>2. ASSUME Running, cur = 0, Asking, NEW f \in Stale
      PROVE  (WillBeFound(f) \/ InReport(f))'
  <2>1. ~ Busy
    BY <1>0, <1>2, BusyMeans DEF MixInv
  <2>2. WillBeFound(f) \/ InReport(f)
    BY <1>2 DEF StaleInv
  <2>3. CASE InReport(f)
    BY <1>0, <2>1, <2>3 DEF InReport
  <2>4. CASE WillBeFound(f)
    <3>1. PICK i \in DOMAIN toMirror : toMirror[i].port = sock /\ mtime[f] > toMirror[i].since
      BY <2>1, <2>4 DEF WillBeFound
    <3>2. CASE i # 1
      <4>1. PICK j \in DOMAIN toMirror' : toMirror'[j] = toMirror[i]
        BY <1>1, <3>2
      <4> QED BY <1>0, <3>1, <4>1 DEF WillBeFound
    <3>3. CASE i = 1
      <4>1. rq.port = sock /\ mtime[f] > rq.since /\ rq.cmd = "MIRROR_REPORT_CHANGES"
            /\ rq \in Request
        BY <1>2, <3>1, <3>3, Elements DEF rq, LossInv, ExchangeInv, ForCurrent
      <4>2. PICK shift \in TzShifts : t1' = rq.since + shift
        BY <1>0, <4>1 DEF Dispatch
      <4>3. svc' = "scan" /\ unscanned' = Files
        BY <1>0, <4>1 DEF Dispatch
      <4>4. rq.since \in Nat /\ shift \in Int /\ shift <= 0 /\ f \in Files /\ mtime[f] \in Nat
        <5>1. f \in Files
          BY DEF Stale
        <5>2. rq.since \in Nat
          BY <4>1 DEF Request
        <5> QED BY <5>1, <5>2, TzShiftsAreInt, Types DEF Calm
      <4>5. mtime[f] > t1'
        BY <4>1, <4>2, <4>4
      <4> QED BY <1>0, <4>1, <4>3, <4>4, <4>5 DEF WillBeFound, Busy
    <3> QED BY <3>2, <3>3
  <2> QED BY <2>2, <2>3, <2>4
<1>3. Running /\ cur = 0 /\ Asking =>
          \A i \in DOMAIN toAgent' : toAgent'[i].status = "no_changes" => Stale = {}
    BY <1>0 DEF StaleInv
<1> QED BY <1>0, <1>2, <1>3, StaleKept

\* A report that is full has every file.
LEMMA FullReport ==
    ASSUME Calm, NEW b \in Seq(Item), Distinct(b), \A i \in DOMAIN b : b[i] \in Files,
           Len(b) >= FilesCountMax
    PROVE  Files \subseteq ToSet(b)
<1> DEFINE n == Len(b)
           g == [i \in 1..n |-> b[i]]
<1>1. n \in Nat /\ DOMAIN b = 1..n /\ FilesCountMax \in Nat
    BY LenProperties, ReportLimits
<1>2. IsFiniteSet(Files) /\ Cardinality(Files) \in Nat /\ Cardinality(Files) <= FilesCountMax
    BY FS_CardinalityType DEF Calm
<1>3. Cardinality(1..n) = n
  <2> HIDE DEF n
  <2>1. Cardinality(1..n) = IF 1 > n THEN 0 ELSE n - 1 + 1
    BY <1>1, FS_Interval
  <2> QED BY <1>1, <2>1
<1>4. g \in Injection(1..n, Files)
    BY <1>1 DEF Injection, Distinct, IsInjective
<1> HIDE DEF n
<1>5. n <= Cardinality(Files)
    BY <1>2, <1>3, <1>4, FS_Injection
<1>6. n = Cardinality(Files)
    BY <1>1, <1>2, <1>5 DEF n
<1>7. g \in Surjection(1..n, Files)
    BY <1>2, <1>3, <1>4, <1>6, FS_Injection
<1>8. \A f \in Files : \E i \in 1..n : b[i] = f
    BY <1>7 DEF Surjection
<1> QED BY <1>1, <1>8 DEF ToSet

\* As long as nothing of a response is sent, all of it is still to send.
LEMMA UnsentAll ==
    ASSUME IndInv', sent' = 0
    PROVE  Unsent' = ToSet(body')
<1>1. DOMAIN body' = 1..Len(body') /\ 0 * IdsPerFrame + 1 = 1
    BY TypesAfter, ReportLimits
<1> QED BY <1>1 DEF Unsent, ToSet

\* The scan does not leave out what is to be found.
LEMMA ScanStale ==
    ASSUME IndInv, IndInv', MixInv, MixInv', LossInv, Calm, StaleInv,
           ScanEnd \/ \E g \in Files : ScanFile(g), UNCHANGED <<agentVars, histVars>>
    PROVE  StaleInv'
<1>0. /\ svc = "scan" /\ svc' \in {"scan", "send"} /\ sent = 0 /\ sent' = 0
      /\ UNCHANGED <<sock, toMirror, toAgent, faults, ver, len, mtime, request, t1, recv, agentVars>>
      /\ Busy' = Busy /\ IsReport'
    BY DEF ScanEnd, ScanFile, netVars, fileVars, agentVars, IndInv, ServiceInv, Busy, IsReport
<1>1. ASSUME NEW f \in Stale, f \in ToSet(body) \/ (f \in unscanned /\ mtime[f] > t1)
      PROVE  IF svc' = "send" THEN f \in ToSet(body')
             ELSE f \in ToSet(body') \/ (f \in unscanned' /\ mtime[f] > t1)
  <2>1. CASE ScanEnd
    BY <1>1, <2>1 DEF ScanEnd
  <2>2. ASSUME NEW g \in Files, ScanFile(g)
        PROVE  IF svc' = "send" THEN f \in ToSet(body')
               ELSE f \in ToSet(body') \/ (f \in unscanned' /\ mtime[f] > t1)
    <3>1. f \in Files /\ Exists(f)
      BY DEF Stale, Synchronized
    <3>2. CASE svc' = "send"
      <4>1. Len(body') >= FilesCountMax
        BY <2>2, <3>2 DEF ScanFile, ReportFull
      <4>2. /\ body' \in Seq(Item) /\ Distinct(body')
            /\ \A i \in DOMAIN body' : body'[i] \in Files
        BY <1>0, TypesAfter DEF MixInv, ScanInv
      <4>3. Files \subseteq ToSet(body')
        BY <4>1, <4>2, FullReport
      <4> QED BY <3>1, <3>2, <4>3
    <3>3. CASE svc' = "scan"
      <4>0. body \in Seq(Item) /\ g \in Item
        BY Types, MarksAreItems
      <4>1. /\ Len(body) + 1 \in DOMAIN Append(body, g) /\ Append(body, g)[Len(body) + 1] = g
            /\ \A i \in DOMAIN body : i \in DOMAIN Append(body, g) /\ Append(body, g)[i] = body[i]
        BY <4>0, AppendProperties, LenProperties
      <4>2. ToSet(body) \subseteq ToSet(Append(body, g)) /\ g \in ToSet(Append(body, g))
        BY <4>1 DEF ToSet
      <4>3. body' \in {body, Append(body, g)}
        BY <2>2 DEF ScanFile
      <4>4. CASE f = g /\ f \notin ToSet(body)
        BY <1>1, <2>2, <3>1, <3>3, <4>2, <4>4 DEF ScanFile, Newer
      <4>5. CASE f # g \/ f \in ToSet(body)
        BY <1>1, <2>2, <3>3, <4>2, <4>3, <4>5 DEF ScanFile
      <4> QED BY <4>4, <4>5
    <3> QED BY <1>0, <3>2, <3>3
  <2> QED BY <2>1, <2>2
<1>2. Unsent' = ToSet(body')
    BY <1>0, UnsentAll
<1>3. ASSUME Running, cur = 0, Asking, NEW f \in Stale
      PROVE  (WillBeFound(f) \/ InReport(f))'
  <2>1. WillBeFound(f) \/ InReport(f)
    BY <1>3 DEF StaleInv
  <2>2. CASE \E i \in DOMAIN toMirror : toMirror[i].port = sock /\ mtime[f] > toMirror[i].since
    BY <1>0, <2>2 DEF WillBeFound
  <2>3. CASE f \in ToSet(recv.body) \/ \E i \in DOMAIN toAgent : f \in ToSet(toAgent[i].body)
    BY <1>0, <2>3 DEF InReport
  <2>4. CASE Busy /\ (f \in ToSet(body) \/ (f \in unscanned /\ mtime[f] > t1))
    <3>1. CASE svc' = "send"
      BY <1>0, <1>1, <1>2, <2>4, <3>1 DEF InReport
    <3>2. CASE svc' = "scan"
      BY <1>0, <1>1, <2>4, <3>2 DEF WillBeFound
    <3> QED BY <1>0, <3>1, <3>2
  <2>5. Unsent \subseteq ToSet(body)
    <3>1. DOMAIN body = 1..Len(body) /\ 0 * IdsPerFrame + 1 = 1
      BY Types, ReportLimits
    <3> QED BY <1>0, <3>1 DEF Unsent, ToSet
  <2> QED BY <1>0, <2>1, <2>2, <2>3, <2>4, <2>5 DEF WillBeFound, InReport
<1>4. Running /\ cur = 0 /\ Asking =>
          \A i \in DOMAIN toAgent' : toAgent'[i].status = "no_changes" => Stale = {}
    BY <1>0 DEF StaleInv
<1> QED BY <1>0, <1>3, <1>4, StaleKept

\* Before it has a list the agent is served reports only.
LEMMA WorkStale ==
    ASSUME IndInv, MixInv, LossInv, StaleInv, CountSize \/ ReadContents,
           UNCHANGED <<agentVars, histVars>>
    PROVE  StaleInv'
<1>0. /\ svc \in {"count", "read"} /\ ~ IsReport /\ Busy' = Busy
      /\ UNCHANGED <<sock, toMirror, toAgent, faults, ver, len, mtime, recv, agentVars>>
    BY DEF CountSize, ReadContents, netVars, fileVars, agentVars, IndInv, ServiceInv, Busy
<1>1. Running /\ cur = 0 => ~ Busy
    BY <1>0, BusyFor
<1>2. Running /\ cur = 0 /\ Asking =>
          \A f \in Stale : WillBeFound(f) \/ InReport(f)
    BY DEF StaleInv
<1>3. Running /\ cur = 0 /\ Asking =>
          \A f \in Stale : (WillBeFound(f) \/ InReport(f))'
    BY <1>0, <1>1, <1>2 DEF WillBeFound, InReport
<1>4. Running /\ cur = 0 /\ Asking =>
          \A i \in DOMAIN toAgent' : toAgent'[i].status = "no_changes" => Stale = {}
    BY <1>0 DEF StaleInv
<1> QED BY <1>0, <1>3, <1>4, StaleKept

\* If k frames of d do not hold n items, n items have more frames than k.
LEMMA CeilMore ==
    ASSUME NEW n \in Nat \ {0}, NEW d \in Nat \ {0}, NEW k \in Nat, k * d < n
    PROVE  k < (n + d - 1) \div d
<1> DEFINE q == (n + d - 1) \div d
<1>1. q \in Nat /\ n + d - 1 < q * d + d
  <2>1. q \in Nat
    BY CeilDiv
  <2>2. n + d - 1 = d * q + ((n + d - 1) % d) /\ (n + d - 1) % d < d
    OBVIOUS
  <2>3. d * q = q * d /\ d * q \in Nat
    BY <2>1
  <2> QED BY <2>1, <2>2, <2>3
<1> HIDE DEF q
<1>2. ASSUME q <= k PROVE FALSE
  <2>1. q * d <= k * d /\ q * d \in Nat /\ k * d \in Nat
    BY <1>1, <1>2
  <2> QED BY <1>1, <2>1
<1>3. k < q
    BY <1>1, <1>2
<1> QED BY <1>3 DEF q

\* What is still to send of a report is in the next frame, or in a later one.
LEMMA ReportFrameHas ==
    ASSUME IndInv, MixInv, svc = "send", IsReport, NEW fr, fr = ResponseFrame(sent + 1),
           NEW f \in Unsent
    PROVE  \/ f \in ToSet(fr.body)
           \/ /\ sent + 1 < TotalFrames
              /\ f \in {body[x] : x \in ((sent + 1) * IdsPerFrame + 1)..Len(body)}
<1> DEFINE a == sent * IdsPerFrame
           h == (sent + 1) * IdsPerFrame
           b == IF h <= Len(body) THEN h ELSE Len(body)
           mark == IF sent + 1 = TotalFrames THEN <<EndMark>> ELSE <<>>
           c == FrameItems(sent + 1)
<1>0. /\ body \in Seq(Item) /\ DOMAIN body = 1..Len(body) /\ Len(body) \in Nat
      /\ a \in Nat /\ sent \in Nat /\ IdsPerFrame \in Nat \ {0}
      /\ h = a + IdsPerFrame /\ (sent + 1 - 1) * IdsPerFrame = a
    BY NextFrame, ReportLimits, Types
<1>1. PICK x \in (a + 1)..Len(body) : f = body[x]
    BY DEF Unsent
<1>2. fr.body = c \o mark /\ mark \in Seq(Item) /\ c \in Seq(Item)
    BY MarksAreItems, EmptySeq, FrameItemsType DEF ResponseFrame
<1>3. body # <<>> /\ Len(body) \in Nat \ {0}
    BY <1>0, <1>1, EmptySeq
<1>4. c = SubSeq(body, a + 1, b)
  <2> DEFINE k == sent + 1
  <2>1. k * IdsPerFrame = h /\ (k - 1) * IdsPerFrame = a
    BY <1>0
  <2> HIDE DEF k, a, h
  <2>2. FrameItems(k) = SubSeq(body, (k - 1) * IdsPerFrame + 1,
                               IF k * IdsPerFrame <= Len(body) THEN k * IdsPerFrame ELSE Len(body))
    BY <1>3, ReportItems
  <2>3. FrameItems(k) = SubSeq(body, a + 1, b)
    BY <2>1, <2>2
  <2> QED BY <2>3 DEF k
<1> HIDE DEF mark, c
<1>5. CASE x <= b
  <2>1. a + 1 \in Nat \ {0} /\ b \in Int /\ b <= Len(body) /\ a \in Nat /\ x \in Int /\ a + 1 <= x
    BY <1>0, <1>1
  <2> HIDE DEF a, b
  <2>2. /\ Len(c) = IF a + 1 <= b THEN b - (a + 1) + 1 ELSE 0
        /\ \A i \in 1..(b - (a + 1) + 1) : c[i] = body[a + 1 + i - 1]
    BY <1>0, <1>4, <2>1, SubSeqOfSeq
  <2>3. /\ x - a \in 1..(b - (a + 1) + 1) /\ a + 1 + (x - a) - 1 = x
        /\ x - a \in 1..Len(c)
    BY <1>5, <2>1, <2>2
  <2>4. c[x - a] = f
    BY <1>1, <2>2, <2>3
  <2>5. fr.body[x - a] = f
    BY <1>2, <2>3, <2>4, JoinBegins
  <2>6. x - a \in DOMAIN fr.body
    <3>1. fr.body \in Seq(Item) /\ Len(fr.body) = Len(c) + Len(mark)
      BY <1>2, JoinBegins
    <3>2. DOMAIN fr.body = 1..Len(fr.body) /\ Len(c) \in Nat /\ Len(mark) \in Nat
      BY <1>2, <3>1, LenProperties
    <3> QED BY <2>3, <3>1, <3>2
  <2> QED BY <2>5, <2>6 DEF ToSet
<1>6. CASE ~ (x <= b)
  <2>1. h < Len(body) /\ x \in (h + 1)..Len(body)
    BY <1>0, <1>1, <1>6
  <2>2. TotalFrames = (Len(body) + IdsPerFrame - 1) \div IdsPerFrame
    BY <1>3 DEF TotalFrames
  <2>3. sent + 1 < TotalFrames
    BY <1>0, <1>3, <2>1, <2>2, CeilMore
  <2> QED BY <1>1, <2>1, <2>3
<1> QED BY <1>5, <1>6

\* A frame takes the file ids that it holds into the queue.
LEMMA SendStale ==
    ASSUME IndInv, MixInv, LossInv, StaleInv, SendResponse, UNCHANGED <<agentVars, histVars>>
    PROVE  StaleInv'
<1> DEFINE fr == ResponseFrame(sent + 1)
<1>0. /\ svc = "send" /\ SendOutcome
      /\ UNCHANGED <<sock, toMirror, faults, ver, len, mtime, apc, cur, recv, agentVars>>
    BY Sent DEF agentVars
<1>1. ASSUME ~ Busy, Running
      PROVE  ~ Busy' /\ toAgent' = toAgent
  <2>1. NoRequest.port = 0 /\ sock = port /\ port > 0
    BY <1>1 DEF MixInv, RunInv, Running, NoRequest
  <2> QED BY <1>0, <1>1, <2>1, Types DEF SendOutcome, Busy, SendResponse, Deliver
<1>2. CASE ~ Busy
  <2>1. ASSUME Running, cur = 0, Asking, NEW f \in Stale
        PROVE  (WillBeFound(f) \/ InReport(f))'
    <3>1. WillBeFound(f) \/ InReport(f)
      BY <2>1 DEF StaleInv
    <3> QED BY <1>0, <1>1, <1>2, <2>1, <3>1 DEF WillBeFound, InReport
  <2>2. Running /\ cur = 0 /\ Asking =>
            \A i \in DOMAIN toAgent' : toAgent'[i].status = "no_changes" => Stale = {}
    BY <1>1, <1>2 DEF StaleInv
  <2> QED BY <1>0, <2>1, <2>2, StaleKept
<1>3. CASE Busy
  <2> SUFFICES ASSUME Running, cur = 0, Asking
               PROVE  /\ \A f \in Stale : (WillBeFound(f) \/ InReport(f))'
                      /\ \A i \in DOMAIN toAgent' :
                            toAgent'[i].status = "no_changes" => Stale = {}
    BY <1>0, StaleKept
  <2>1. IsReport /\ ~ OnTheWay
    BY <1>3, BusyFor DEF LossInv, ExchangeInv
  <2>2. /\ toAgent' = Append(toAgent, fr) /\ fr \in Frame
        /\ fr.status = IF sent = 0 THEN ResponseStatus ELSE NoHeader
    BY <1>0, <1>3, <2>1, FrameIs, Types DEF SendResponse, Deliver, Busy
  <2>3. \A f \in Unsent : \/ f \in ToSet(fr.body)
                          \/ /\ sent + 1 < TotalFrames
                             /\ f \in {body[x] : x \in ((sent + 1) * IdsPerFrame + 1)..Len(body)}
    BY <1>0, <2>1, ReportFrameHas
  <2> HIDE DEF fr
  <2>4. /\ Len(toAgent) + 1 \in DOMAIN toAgent' /\ toAgent'[Len(toAgent) + 1] = fr
        /\ \A i \in DOMAIN toAgent : i \in DOMAIN toAgent' /\ toAgent'[i] = toAgent[i]
        /\ \A i \in DOMAIN toAgent' : i = Len(toAgent) + 1 \/ i \in DOMAIN toAgent
    <3>1. toAgent \in Seq(Frame) /\ DOMAIN toAgent = 1..Len(toAgent) /\ Len(toAgent) \in Nat
      BY Types
    <3>2. /\ DOMAIN toAgent' = 1..(Len(toAgent) + 1) /\ toAgent'[Len(toAgent) + 1] = fr
          /\ \A i \in 1..Len(toAgent) : toAgent'[i] = toAgent[i]
      BY <2>2, <3>1, AppendProperties, LenProperties
    <3> QED BY <3>1, <3>2
  <2>5. \A f \in Stale : InReport(f)
    BY <1>0, <2>1 DEF StaleInv, WillBeFound, OnTheWay
  <2>6. ASSUME NEW f \in Stale PROVE InReport(f)'
    <3>1. CASE f \in ToSet(recv.body)
      BY <1>0, <3>1 DEF InReport
    <3>2. CASE \E i \in DOMAIN toAgent : f \in ToSet(toAgent[i].body)
      BY <2>4, <3>2 DEF InReport
    <3>3. CASE f \in ToSet(fr.body)
      BY <2>4, <3>3 DEF InReport
    <3>4. CASE /\ sent + 1 < TotalFrames
               /\ f \in {body[x] : x \in ((sent + 1) * IdsPerFrame + 1)..Len(body)}
      <4>1. sent' = sent + 1 /\ request' = request /\ body' = body
        BY <3>4 DEF SendResponse
      <4> QED BY <1>0, <1>3, <3>4, <4>1 DEF InReport, Busy, Unsent
    <3> QED BY <2>3, <2>5, <3>1, <3>2, <3>3, <3>4 DEF InReport
  <2>7. ASSUME NEW i \in DOMAIN toAgent', toAgent'[i].status = "no_changes"
        PROVE  Stale = {}
    <3>1. CASE i \in DOMAIN toAgent
      BY <2>4, <2>7, <3>1 DEF StaleInv
    <3>2. CASE i = Len(toAgent) + 1
      <4>1. sent = 0 /\ body = <<>>
        BY <2>2, <2>4, <2>7, <3>2 DEF ResponseStatus, NoHeader
      <4>2. toAgent = <<>> /\ recv = NothingReceived
        BY <1>3, <4>1 DEF LossInv, ExchangeInv, Unanswered, MixInv, RunInv
      <4>3. DOMAIN toAgent = {} /\ ToSet(recv.body) = {} /\ Unsent = {}
        <5>1. DOMAIN toAgent = 1..Len(toAgent) /\ Len(toAgent) = 0
          BY <4>2, Types, EmptySeq
        <5>2. DOMAIN recv.body = {}
          BY <4>2, EmptySeq DEF NothingReceived
        <5>3. Len(body) = 0 /\ 0 * IdsPerFrame + 1 = 1
          BY <4>1, EmptySeq, ReportLimits
        <5> QED BY <4>1, <5>1, <5>2, <5>3 DEF ToSet, Unsent
      <4> QED BY <2>5, <4>3 DEF InReport
    <3> QED BY <2>4, <3>1, <3>2
  <2> QED BY <2>6, <2>7
<1> QED BY <1>2, <1>3

\* The items of two sequences are those of their concatenation.
LEMMA JoinedItems ==
    ASSUME NEW a \in Seq(Item), NEW b \in Seq(Item)
    PROVE  ToSet(a) \subseteq ToSet(a \o b) /\ ToSet(b) \subseteq ToSet(a \o b)
<1> DEFINE t == a \o b
<1>1. /\ t \in Seq(Item) /\ Len(t) = Len(a) + Len(b)
      /\ \A i \in 1..(Len(a) + Len(b)) : t[i] = IF i <= Len(a) THEN a[i] ELSE b[i - Len(a)]
    BY ConcatProperties
<1>2. /\ DOMAIN a = 1..Len(a) /\ DOMAIN b = 1..Len(b) /\ Len(a) \in Nat /\ Len(b) \in Nat
      /\ DOMAIN t = 1..Len(t)
    BY <1>1, LenProperties
<1> HIDE DEF t
<1>3. \A i \in DOMAIN a : i \in DOMAIN t /\ t[i] = a[i]
    BY <1>1, <1>2
<1>4. \A i \in DOMAIN b : Len(a) + i \in DOMAIN t /\ t[Len(a) + i] = b[i]
  <2> SUFFICES ASSUME NEW i \in DOMAIN b
               PROVE  Len(a) + i \in DOMAIN t /\ t[Len(a) + i] = b[i]
    OBVIOUS
  <2>1. Len(a) + i \in 1..(Len(a) + Len(b)) /\ ~ (Len(a) + i <= Len(a)) /\ Len(a) + i - Len(a) = i
    BY <1>2
  <2> QED BY <1>1, <1>2, <2>1
<1>5. ToSet(a) \subseteq ToSet(t) /\ ToSet(b) \subseteq ToSet(t)
    BY <1>3, <1>4 DEF ToSet
<1> QED BY <1>5 DEF t

\* What is received of a report comes from the queue.
LEMMA StaleReceived ==
    ASSUME IndInv, IndInv', StaleInv, Running, Running', cur = 0, Asking,
           UNCHANGED <<sock, toMirror, faults, ver, len, mtime, cur, data, ptime, files_id,
                       fileVars, svcVars>>,
           Asking', toAgent # <<>>, toAgent' = Tail(toAgent),
           recv'.status \in {recv.status, toAgent[1].status},
           \A f \in Files : f \in ToSet(recv.body) \/ f \in ToSet(toAgent[1].body)
                            => f \in ToSet(recv'.body)
    PROVE  StaleInv'
<1>1. Stale' = Stale /\ \A f : YoungerThanAll(f)' = YoungerThanAll(f)
    BY SameStale
<1>2. /\ \A f \in Stale : YoungerThanAll(f) /\ (WillBeFound(f) \/ InReport(f))
      /\ \A i \in DOMAIN toAgent : toAgent[i].status = "no_changes" => Stale = {}
      /\ recv.status = "no_changes" => Stale = {}
    BY DEF StaleInv
<1>3. /\ 1 \in DOMAIN toAgent
      /\ \A j \in DOMAIN toAgent' : j + 1 \in DOMAIN toAgent /\ toAgent'[j] = toAgent[j + 1]
    BY TailOfQueue
<1>4. \A i \in DOMAIN toAgent : i = 1 \/ \E j \in DOMAIN toAgent' : toAgent'[j] = toAgent[i]
  <2>1. /\ DOMAIN toAgent = 1..Len(toAgent) /\ Len(toAgent) \in Nat \ {0}
        /\ DOMAIN toAgent' = 1..(Len(toAgent) - 1)
        /\ \A j \in 1..(Len(toAgent) - 1) : toAgent'[j] = toAgent[j + 1]
    BY Types, EmptySeq, HeadTailProperties, LenProperties
  <2> SUFFICES ASSUME NEW i \in DOMAIN toAgent, i # 1
               PROVE  \E j \in DOMAIN toAgent' : toAgent'[j] = toAgent[i]
    OBVIOUS
  <2>2. i - 1 \in 1..(Len(toAgent) - 1) /\ (i - 1) + 1 = i
    BY <2>1
  <2> QED BY <2>1, <2>2
<1>5. ASSUME NEW f \in Stale PROVE (WillBeFound(f) \/ InReport(f))'
  <2>1. f \in Files
    BY DEF Stale
  <2>2. CASE WillBeFound(f)
    BY <2>2 DEF WillBeFound, Busy, svcVars
  <2>3. CASE Busy /\ f \in Unsent
    BY <2>3 DEF InReport, Busy, Unsent, svcVars
  <2>4. CASE f \in ToSet(recv.body)
    BY <2>1, <2>4 DEF InReport
  <2>5. ASSUME NEW i \in DOMAIN toAgent, f \in ToSet(toAgent[i].body)
        PROVE  InReport(f)'
    BY <1>4, <2>1, <2>5 DEF InReport
  <2> QED BY <1>2, <2>2, <2>3, <2>4, <2>5 DEF InReport
<1>6. /\ \A i \in DOMAIN toAgent' : toAgent'[i].status = "no_changes" => Stale = {}
      /\ recv'.status = "no_changes" => Stale = {}
    BY <1>2, <1>3
<1> HIDE DEF Stale, Asking, Running
<1> QED BY <1>1, <1>2, <1>5, <1>6 DEF StaleInv, NothingFails

LEMMA ReceiveFirstStale ==
    ASSUME IndInv, IndInv', MixInv, StaleInv, AgentRun, ReceiveFirst
    PROVE  StaleInv'
<1>0. /\ apc = "wait_first" /\ toAgent # <<>> /\ Asking /\ Running /\ recv = NothingReceived
      /\ UNCHANGED <<faults, files_id, cur, data, ptime, toMirror, ver, len, mtime, fileVars,
                     svcVars>>
      /\ Head(toAgent) = toAgent[1]
    BY TailOfQueue DEF ReceiveFirst, AgentRun, Asking, Running, MixInv, RunInv, fileVars
<1>1. Stale' = Stale
    BY <1>0, SameStale
<1>2. CASE cur # 0
  <2>1. apc' \in {"wait_more", "received", "call"}
    <3>1. CASE ValidHeader(Head(toAgent))
      BY <3>1 DEF ReceiveFirst
    <3>2. CASE ~ ValidHeader(Head(toAgent))
      BY <1>2, <3>2 DEF ReceiveFirst, GiveUp
    <3> QED BY <3>1, <3>2
  <2>2. Running'
    BY <2>1 DEF Running
  <2>3. cur > 0
    BY <1>2, Types
  <2> QED BY <1>0, <1>1, <2>2, <2>3, StaleListed
<1>3. CASE cur = 0 /\ ~ ValidHeader(Head(toAgent))
    BY <1>0, <1>3, StaleExit DEF ReceiveFirst, GiveUp, Exit
<1>4. CASE cur = 0 /\ ValidHeader(Head(toAgent))
  <2>1. /\ recv'.status = toAgent[1].status /\ recv'.body = toAgent[1].body
        /\ apc' \in {"wait_more", "received"} /\ toAgent' = Tail(toAgent) /\ sock' = sock
    BY <1>0, <1>4 DEF ReceiveFirst
  <2>2. Running' /\ Asking' /\ ToSet(recv.body) = {}
    <3>1. DOMAIN recv.body = {}
      BY <1>0, EmptySeq DEF NothingReceived
    <3> QED BY <2>1, <3>1 DEF Running, Asking, ToSet
  <2> QED BY <1>0, <1>4, <2>1, <2>2, StaleReceived
<1> QED BY <1>2, <1>3, <1>4

LEMMA ReceiveMoreStale ==
    ASSUME IndInv, IndInv', MixInv, StaleInv, AgentRun, ReceiveMore
    PROVE  StaleInv'
<1> DEFINE fr == toAgent[1]
<1>0. /\ apc = "wait_more" /\ toAgent # <<>> /\ Asking /\ Running
      /\ UNCHANGED <<sock, faults, files_id, cur, data, ptime, toMirror, ver, len, mtime, fileVars,
                     svcVars>>
      /\ apc' \in {"wait_more", "received"} /\ toAgent' = Tail(toAgent) /\ Head(toAgent) = fr
      /\ recv'.status = recv.status /\ recv'.body = recv.body \o Raw(fr) /\ fr \in Frame
    BY TailOfQueue DEF ReceiveMore, AgentRun, Asking, Running, fileVars
<1>1. Stale' = Stale /\ Running' /\ Asking'
    BY <1>0, SameStale DEF Running, Asking
<1>2. CASE cur # 0
  <2>1. cur > 0
    BY <1>2, Types
  <2> QED BY <1>0, <1>1, <2>1, StaleListed
<1>3. CASE cur = 0
  <2>1. recv.body \in Seq(Item) /\ Raw(fr) \in Seq(Item) /\ fr.body \in Seq(Item)
    BY <1>0, Types, RawFiles DEF Responses
  <2>2. ToSet(recv.body) \subseteq ToSet(recv'.body) /\ ToSet(Raw(fr)) \subseteq ToSet(recv'.body)
    BY <1>0, <2>1, JoinedItems
  <2>3. ToSet(fr.body) \subseteq ToSet(Raw(fr))
    <3> DEFINE hd == IF fr.status = NoHeader THEN <<>> ELSE <<Header>>
    <3>1. hd \in Seq(Item)
      BY MarksAreItems, EmptySeq
    <3>2. Raw(fr) = hd \o fr.body
      BY DEF Raw
    <3> HIDE DEF hd, fr
    <3> QED BY <2>1, <3>1, <3>2, JoinedItems
  <2> QED BY <1>0, <1>1, <1>3, <2>2, <2>3, StaleReceived
<1> QED BY <1>2, <1>3

LEMMA TimeOutStale ==
    ASSUME IndInv, StaleInv, AgentRun, TimeOut
    PROVE  StaleInv'
<1>0. /\ Asking /\ Running
      /\ UNCHANGED <<faults, files_id, cur, data, ptime, ver, len, mtime>>
    BY DEF TimeOut, AgentRun, Asking, Running, Waiting, fileVars
<1>1. CASE cur # 0
  <2>1. cur > 0 /\ Running' /\ Stale' = Stale
    BY <1>0, <1>1, Types, SameStale DEF TimeOut, GiveUp, Running
  <2> QED BY <1>0, <2>1, StaleListed
<1>2. CASE cur = 0
    BY <1>0, <1>2, StaleExit DEF TimeOut, GiveUp, Exit
<1> QED BY <1>1, <1>2

\* All that is stale is on the report by the time the agent reads it.
LEMMA ReportStale ==
    ASSUME IndInv, MixInv, LossInv, StaleInv, AgentRun, ProcessReport
    PROVE  StaleInv'
<1>0. /\ apc = "received" /\ cur = 0 /\ cur' = 0 /\ Running /\ Asking
      /\ UNCHANGED <<faults, ver, len, mtime, data, ptime>>
    BY DEF ProcessReport, AgentRun, Running, Asking, fileVars
<1>1. CASE ~ ReportAccepted(recv)
    BY <1>0, <1>1, StaleExit DEF ProcessReport, Exit
<1>2. CASE ReportAccepted(recv)
  <2>1. files_id' = InnerBody(recv) /\ apc' = "call"
    BY <1>2 DEF ProcessReport
  <2>2. Running' /\ ~ Asking' /\ Stale' = Stale
    BY <1>0, <2>1, SameStale DEF Running, Asking
  <2>3. DOMAIN toAgent = {} /\ ~ OnTheWay /\ ~ Busy
    BY <1>0, AllCome, Types, EmptySeq DEF Quiet
  <2>4. \A f \in Stale : f \in ToSet(recv.body)
    BY <1>0, <2>3 DEF StaleInv, WillBeFound, InReport, OnTheWay
  <2>5. ASSUME NEW f \in Stale PROVE f \in ToSet(files_id')
    <3>1. PICK i \in DOMAIN recv.body : f = recv.body[i]
      BY <2>4 DEF ToSet
    <3>2. f \in Files /\ f # EndMark
      BY MarksAreNotFiles DEF Stale
    <3>3. recv \in Responses /\ ClosedBody(recv)
      BY <1>2, Types DEF ReportAccepted
    <3>4. i \in 1..(Len(recv.body) - 1)
      <4>1. recv.body \in Seq(Item) /\ recv.body[Len(recv.body)] = EndMark
        BY <3>3 DEF Responses, ClosedBody
      <4>2. i \in 1..Len(recv.body) /\ i # Len(recv.body) /\ Len(recv.body) \in Nat
        BY <3>1, <3>2, <4>1, LenProperties
      <4> QED BY <4>2
    <3>5. /\ InnerBody(recv) \in Seq(Item) /\ Len(InnerBody(recv)) = Len(recv.body) - 1
          /\ InnerBody(recv)[i] = recv.body[i]
      BY <3>3, <3>4, InnerBodyType
    <3>6. i \in DOMAIN InnerBody(recv)
      BY <3>4, <3>5, LenProperties
    <3> QED BY <2>1, <3>1, <3>5, <3>6 DEF ToSet
  <2>6. Stale' \subseteq ToSet(files_id)'
    BY <2>2, <2>5
  <2>7. NothingFails'
    BY <1>0 DEF StaleInv, NothingFails
  <2> HIDE DEF Stale, Asking, Running
  <2> QED BY <2>2, <2>6, <2>7 DEF StaleInv
<1> QED BY <1>1, <1>2

LEMMA CallStale ==
    ASSUME IndInv, StaleInv, AgentRun, CallGetPage
    PROVE  StaleInv'
<1>1. /\ apc = "call" /\ apc' = "wait_first" /\ cur' = cur + 1
      /\ UNCHANGED <<faults, files_id, data, ver, len, mtime>>
    BY DEF CallGetPage, AgentRun, fileVars
<1>2. Running /\ ~ Asking /\ Running' /\ Stale' = Stale
    BY <1>1, SameStale DEF Running, Asking
<1>3. cur' > 0
  <2>1. cur \in Nat
    BY Types
  <2> QED BY <1>1, <2>1
<1> QED BY <1>1, <1>2, <1>3, StaleListed

\* The steps of Update_File_Contents.
Updates == ProcessPage \/ WriteFile \/ Buffered \/ WriteDone

\* What is written is the file of the list that was asked for.
LEMMA WriteStale ==
    ASSUME IndInv, StaleInv, AgentRun, Updates
    PROVE  StaleInv'
<1>1. /\ apc \in {"received", "write", "close"} /\ apc' \in {"write", "close", "call"} /\ cur # 0 /\ cur' = cur
      /\ UNCHANGED <<faults, files_id, ver, len, mtime>>
  <2>1. apc \in {"write", "close"} => cur # 0
    BY DEF IndInv, AgentInv
  <2> QED BY <2>1 DEF Updates, ProcessPage, WriteFile, Buffered, WriteDone, AgentRun, netVars, fileVars
<1>2. cur > 0 /\ cur \in 1..Len(files_id)
  <2>1. cur \in 0..Len(files_id) /\ Len(files_id) \in Nat
    BY Types
  <2> QED BY <1>1, <2>1
<1>3. CurFile \in Files /\ CurFile \in ToSet(files_id)
  <2>1. DOMAIN files_id = 1..Len(files_id) /\ CurFile \in Files
    BY <1>2, Types, ElementOfSeq DEF CurFile
  <2> QED BY <1>2, <2>1 DEF CurFile, ToSet
<1>4. \A f \in Files : f # CurFile => data'[f] = data[f]
  <2>1. data \in [Files -> Seq(Item)]
    BY Types
  <2> QED BY <2>1 DEF Updates, ProcessPage, WriteFile, Buffered, WriteDone, CurFile
<1>5. Stale' \subseteq Stale \cup ToSet(files_id)
  <2>1. ASSUME NEW f \in Files, f # CurFile
        PROVE  Synchronized(f)' = Synchronized(f)
    BY <1>1, <1>4, <2>1 DEF Synchronized, Exists, HasContentOf, IsPrefixOf
  <2> QED BY <1>3, <2>1 DEF Stale
<1>6. Running /\ Running'
    BY <1>1 DEF Running
<1> QED BY <1>1, <1>2, <1>5, <1>6, StaleListed

\* A run that went through its list leaves nothing stale.
LEMMA EndStale ==
    ASSUME IndInv, Calm, LossInv, StaleInv, AgentRun, AgentEnd
    PROVE  StaleInv'
<1>0. /\ apc = "call" /\ apc' = "idle" /\ cur = Len(files_id)
      /\ UNCHANGED <<faults, ver, len, mtime, data>>
    BY DEF AgentEnd, Exit, AgentRun, fileVars
<1>1. Running /\ ~ Asking /\ ~ Running' /\ ~ Asking' /\ DoneWith = cur
    BY <1>0 DEF Running, Asking, DoneWith
<1>2. Missed(cur) = {}
  <2>0. /\ faults["loss"] = 0 /\ faults["disk"] = 0
        /\ Faults["loss"] = 0 /\ Faults["disk"] = 0
    BY DEF Calm, StaleInv, NothingFails, FaultKind
  <2>1. Cost <= 0
    BY <1>1, <2>0 DEF LossInv, CostInv, Lost
  <2>2. Cost = Cardinality(Missed(cur))
    BY <1>1, CostType DEF Cost
  <2>3. IsFiniteSet(Missed(cur)) /\ Cardinality(Missed(cur)) \in Nat
    BY <1>1, CostType, MissedFinite
  <2> QED BY <2>1, <2>2, <2>3, FS_EmptySet
<1>3. Stale = {}
  <2>1. Stale \subseteq ToSet(files_id)
    BY <1>1 DEF StaleInv
  <2>2. ToSet(files_id) = {files_id[i] : i \in 1..cur}
    BY <1>0, ListedFiles
  <2> QED BY <1>2, <2>1, <2>2 DEF Stale, Missed, Steady, Calm
<1>4. Stale' = Stale /\ NothingFails'
    BY <1>0, SameStale DEF StaleInv, NothingFails
<1> HIDE DEF Stale, Asking, Running
<1> QED BY <1>1, <1>3, <1>4 DEF StaleInv

\* In the beginning the primary has no file, and those of the mirror have a time.
LEMMA StaleInit ==
    ASSUME Calm, Init
    PROVE  StaleInv
<1>1. apc = "idle" /\ NothingFails /\ ptime = [f \in Files |-> 0]
    BY DEF Init, AgentInit, Calm, NothingFails
<1>2. ASSUME NEW f \in Stale PROVE YoungerThanAll(f)
  <2>1. mtime[f] > 0
    BY DEF Stale, Synchronized, Exists
  <2> QED BY <1>1, <2>1 DEF YoungerThanAll
<1>3. ~ Running
    BY <1>1 DEF Running
<1> HIDE DEF Stale, Running
<1> QED BY <1>1, <1>2, <1>3 DEF StaleInv

LEMMA StaleStep ==
    ASSUME Calm, IndInv, IndInv', MixInv, MixInv', LossInv, StaleInv, [Next]_vars
    PROVE  StaleInv'
<1>0. \A kind \in FaultKind : ~ Spend(kind)
    BY DEF StaleInv, NothingFails, Spend
<1>1. CASE Tick \/ UNCHANGED vars
    BY <1>1, TickStale
<1>2. CASE MirrorChange
    BY <1>2, MirrorStale
<1>3. CASE ServiceNext
  <2>0. UNCHANGED <<agentVars, histVars>> /\ ServiceStep
    BY <1>3 DEF ServiceNext
  <2>1. CASE ListenRequest
    BY <2>0, <2>1, ListenStale
  <2>2. CASE (\E f \in Files : ScanFile(f)) \/ ScanEnd
    BY <2>0, <2>2, ScanStale
  <2>3. CASE CountSize \/ ReadContents
    BY <2>0, <2>3, WorkStale
  <2>4. CASE SendResponse
    BY <2>0, <2>4, SendStale
  <2> QED BY <2>0, <2>1, <2>2, <2>3, <2>4 DEF ServiceStep
<1>4. CASE AgentStart
    BY <1>4, StartStale
<1>5. CASE AgentRun
  <2>1. CASE ReceiveFirst
    BY <1>5, <2>1, ReceiveFirstStale
  <2>2. CASE ReceiveMore
    BY <1>5, <2>2, ReceiveMoreStale
  <2>3. CASE TimeOut
    BY <1>5, <2>3, TimeOutStale
  <2>4. CASE ProcessReport
    BY <1>5, <2>4, ReportStale
  <2>5. CASE CallGetPage
    BY <1>5, <2>5, CallStale
  <2>6. CASE AgentEnd
    BY <1>5, <2>6, EndStale
  <2>7. CASE Updates
    BY <1>5, <2>7, WriteStale
  <2> QED BY <1>5, <2>1, <2>2, <2>3, <2>4, <2>5, <2>6, <2>7 DEF AgentRun, Updates
<1>6. CASE AgentBreaks
    BY <1>0, <1>6 DEF AgentBreaks, WriteFails, CloseFails, Kill, FaultKind
<1>7. CASE Network
    BY <1>0, <1>7 DEF Network, NetworkFault, Lose, LossOf, Duplicate, Reorder, FaultKind
<1> QED BY <1>1, <1>2, <1>3, <1>4, <1>5, <1>6, <1>7 DEF Next

\* When nothing is lost, killed or doubled, what the primary lacks is younger than all
\* it has, until it is on the list of the run: the invariant behind "No Changes".
THEOREM NothingStaleIsMissed ==
    ASSUME Calm
    PROVE  Spec => []StaleInv
<1>1. InTime
    BY DEF Calm
<1>2. IndInv /\ StaleInv => NoHeadLost
    BY DEF StaleInv, NothingFails, NoHeadLost, Calm, FaultKind
<1>3. Init => StaleInv
    BY StaleInit
<1>4. /\ IndInv /\ IndInv' /\ MixInv /\ MixInv' /\ LossInv /\ StaleInv /\ [Next]_vars
      => StaleInv'
    BY StaleStep
<1>5. Spec => []MixInv
    BY <1>1, UnderWayBelongsTogether DEF InTime
<1>6. Spec => [](NoHeadLost => LossInv)
    BY <1>1, AnswersAreComplete
<1> QED BY InductiveInvariant, <1>2, <1>3, <1>4, <1>5, <1>6, PTL DEF Spec

\* Only a report without files makes the agent print that there are no changes.
LEMMA PrintsForReport ==
    ASSUME [Next]_vars, PrintsNoChanges
    PROVE  ProcessReport /\ recv.status = "no_changes"
<1>1. AgentRun
    BY DEF PrintsNoChanges, Next, vars, agentVars, Tick, MirrorChange, MirrorWrite, MirrorRemove,
           ServiceNext, AgentStart, AgentMain, AgentBreaks, WriteFails, CloseFails, Kill, Exit, Network
<1>2. ~ ReceiveFirst /\ ~ TimeOut
    BY DEF PrintsNoChanges, ReceiveFirst, TimeOut, GiveUp, Exit
<1>3. ~ ReceiveMore /\ ~ CallGetPage /\ ~ AgentEnd
    BY DEF PrintsNoChanges, ReceiveMore, CallGetPage, AgentEnd, Exit
<1>4. ~ ProcessPage /\ ~ WriteFile /\ ~ Buffered /\ ~ WriteDone
    BY DEF PrintsNoChanges, ProcessPage, WriteFile, Buffered, WriteDone
<1>5. ProcessReport
    BY <1>1, <1>2, <1>3, <1>4 DEF AgentRun
<1>6. recv.status = "no_changes"
    BY <1>5 DEF ProcessReport, Exit, PrintsNoChanges
<1> QED BY <1>5, <1>6

\* "No Changes. All Files already Synchronized" is true when the agent prints it, as
\* long as no datagram is lost, no run is killed, the mirror's files do not change during a
\* run, and the zone of the mirror does not shift the time that the report is asked for.
THEOREM NoChangesIsTrue ==
    ASSUME Calm
    PROVE  Spec => NoChangesMeansSynchronized
<1>1. ASSUME StaleInv, [Next]_vars, PrintsNoChanges
      PROVE  \A f \in Files : Synchronized(f) \/ mtime[f] >= began
  <2>1. ProcessReport /\ recv.status = "no_changes"
    BY <1>1, PrintsForReport
  <2>2. Running /\ Asking /\ cur = 0
    BY <2>1 DEF ProcessReport, Running, Asking
  <2>3. Stale = {}
    BY <1>1, <2>1, <2>2 DEF StaleInv
  <2> QED BY <2>3 DEF Stale
<1>2. StaleInv /\ [Next]_vars =>
          [PrintsNoChanges => \A f \in Files : Synchronized(f) \/ mtime[f] >= began]_vars
    BY <1>1
<1> QED BY NothingStaleIsMissed, <1>2, PTL DEF Spec, NoChangesMeansSynchronized

-----------------------------------------------------------------------------
(* What is up to date is not asked for. *)

\* The network neither doubles nor exchanges datagrams, no port is used again, and the
\* clock of the mirror is not set to a zone east of UTC.
InOrderOfTime ==
    /\ ~ RunsForever
    /\ Faults["dup"] = 0 /\ Faults["swap"] = 0
    /\ \A shift \in TzShifts : shift >= 0

LEMMA TimeTypes ==
    ASSUME IndInv
    PROVE  /\ now \in Nat /\ mtime \in [Files -> Nat] /\ ptime \in [Files -> Nat] /\ t1 \in Int
           /\ ver \in [Files -> Nat] /\ data \in [Files -> Seq(Item)]
BY DEF IndInv, TypeOK, BaseTypeOK, MirrorTypeOK, AgentTypeOK

LEMMA SameDone ==
    ASSUME UNCHANGED <<ver, len, data>>
    PROVE  Done' = Done
<1>1. \A f \in Files : UpToDate(f)' = UpToDate(f)
    BY DEF UpToDate, HasContentOf, IsPrefixOf
<1> QED BY <1>1 DEF Done

\* A step that leaves the agent and the files as they were.
LEMMA KeepWaiting ==
    ASSUME KeepInv, UNCHANGED <<agentVars, fileVars, now>>,
           Running /\ cur = 0 /\ Asking =>
               /\ \A i \in DOMAIN toMirror' :
                     toMirror'[i].port = sock' => NoneYounger(toMirror'[i].since)
               /\ Busy' => Lacks(body', Done) /\ (svc' = "scan" => NoneYounger(t1'))
               /\ \A i \in DOMAIN toAgent' : Lacks(toAgent'[i].body, Done)
    PROVE  KeepInv'
<1>0. UNCHANGED <<apc, cur, recv, files_id, data, ptime, ver, len, mtime>>
    BY DEF agentVars, fileVars
<1>1. Done' = Done
    BY <1>0, SameDone
<1>2. Running' = Running /\ Asking' = Asking /\ Fetched' = Fetched
    BY <1>0 DEF Running, Asking, Fetched
<1>3. \A t : NoneYounger(t)' = \A f \in Files : ptime[f] <= t'
    BY <1>0 DEF NoneYounger
<1>4. TimesInv'
    BY <1>0 DEF KeepInv, TimesInv
<1> HIDE DEF Done, Running, Asking, Fetched
<1>5. ListedOld'
    BY <1>0, <1>1, <1>2 DEF KeepInv, ListedOld
<1>6. AskedForOld'
  <2> SUFFICES ASSUME Running, cur = 0, Asking
               PROVE  /\ \A i \in DOMAIN toMirror' :
                            toMirror'[i].port = sock' => NoneYounger(toMirror[i].since)'
                      /\ Busy' => Lacks(body', Done') /\ (svc' = "scan" => NoneYounger(t1)')
                      /\ \A i \in DOMAIN toAgent' : Lacks(toAgent'[i].body, Done')
                      /\ Lacks(recv'.body, Done')
    BY <1>0, <1>2 DEF AskedForOld
  <2>1. Lacks(recv.body, Done)
    BY DEF KeepInv, AskedForOld
  <2> QED BY <1>0, <1>1, <2>1 DEF NoneYounger
<1> QED BY <1>4, <1>5, <1>6 DEF KeepInv

LEMMA KeepInitially ==
    ASSUME Init
    PROVE  KeepInv
<1>1. /\ apc = "idle" /\ now = 1 /\ data = [f \in Files |-> <<>>]
      /\ \A f \in Files : mtime[f] <= 1
    BY DEF Init, AgentInit, MirrorInit
<1> QED BY <1>1 DEF KeepInv, TimesInv, AskedForOld, ListedOld, Running

\* What the RAIDA server changes is not up to date.
LEMMA MirrorKeep ==
    ASSUME IndInv, MixInv, KeepInv, MirrorChange
    PROVE  KeepInv'
<1>0. /\ UNCHANGED <<now, sock, toMirror, toAgent, svc, t1, request, body, apc, cur, recv,
                     files_id, data, ptime>>
      /\ now \in Nat /\ \A f \in Files : ver[f] \in Nat /\ mtime[f] \in Nat
    BY TimeTypes DEF MirrorChange, MirrorWrite, MirrorRemove, agentVars, netVars, svcVars
<1>1. PICK g \in Files : /\ ver' = [ver EXCEPT ![g] = @ + 1]
                         /\ \E n : len' = [len EXCEPT ![g] = n]
                         /\ mtime' = [mtime EXCEPT ![g] = now] \/ mtime' = [mtime EXCEPT ![g] = 0]
    BY DEF MirrorChange, MirrorWrite, MirrorRemove
<1>2. /\ ver'[g] = ver[g] + 1 /\ mtime'[g] <= now
      /\ \A f \in Files : f # g => ver'[f] = ver[f] /\ len'[f] = len[f] /\ mtime'[f] = mtime[f]
    BY <1>0, <1>1, Types
<1>3. data[g] # <<>> => data[g][1].ver <= ver[g]
    BY DEF MixInv, FilesInv
<1>4. data[g] # <<>> => data[g][1].ver # ver'[g]
  <2>1. ASSUME data[g] # <<>>, data[g][1].ver = ver[g] + 1 PROVE FALSE
    BY <1>0, <1>3, <2>1
  <2> QED BY <1>2, <2>1
<1>5. TimesInv'
    BY <1>0, <1>2, <1>4 DEF KeepInv, TimesInv
<1>6. Done' \subseteq Done
  <2>1. ASSUME NEW f \in Files, UpToDate(f)', f # g PROVE UpToDate(f)
    BY <1>0, <1>2, <2>1 DEF UpToDate, HasContentOf, IsPrefixOf
  <2>2. ASSUME UpToDate(g)' PROVE FALSE
    <3>1. data[g] # <<>> /\ \A k \in DOMAIN data[g] : data[g][k] = Part(g, ver'[g], k, len'[g])
      BY <1>0, <2>2 DEF UpToDate, HasContentOf, IsPrefixOf
    <3>2. 1 \in DOMAIN data[g]
      BY <3>1, Types, EmptySeq, LenProperties
    <3>3. data[g][1].ver = ver'[g]
      <4>1. data[g][1] = Part(g, ver'[g], 1, len'[g])
        BY <3>1, <3>2
      <4>2. Part(g, ver'[g], 1, len'[g]).ver = ver'[g]
        BY DEF Part
      <4> QED BY <4>1, <4>2
    <3> QED BY <1>4, <3>1, <3>3
  <2> QED BY <2>1, <2>2 DEF Done
<1>7. /\ Running' = Running /\ Asking' = Asking /\ Fetched' = Fetched /\ Busy' = Busy
      /\ \A t : NoneYounger(t) => \A f \in Files : ptime'[f] <= t
    BY <1>0 DEF Running, Asking, Fetched, Busy, NoneYounger
<1>8. \A s : Lacks(s, Done) => Lacks(s, Done')
    BY <1>6 DEF Lacks
<1> HIDE DEF Done, Running, Asking, Fetched, Busy
<1>9. ListedOld'
    BY <1>0, <1>6, <1>7 DEF KeepInv, ListedOld
<1>10. AskedForOld'
    BY <1>0, <1>7, <1>8 DEF KeepInv, AskedForOld, NoneYounger
<1> QED BY <1>5, <1>9, <1>10 DEF KeepInv

\* A run without a list is served a report.
LEMMA BusyWithReport ==
    ASSUME IndInv, MixInv, Running, cur = 0, Busy
    PROVE  IsReport /\ svc \in {"scan", "send", "crashed"}
<1>1. Asked = {} /\ request \in Request /\ svc # "wait_start"
    BY BusyMeans DEF Asked, MixInv
<1>2. request.cmd # "AGENT_GET_PAGE"
    BY <1>1 DEF MixInv, AskedInv, ForAsked, Busy
<1>3. IsReport
    BY <1>1, <1>2 DEF Request, IsReport
<1> QED BY <1>1, <1>3, Types DEF IndInv, ServiceInv, SvcStates

LEMMA ListenKeep ==
    ASSUME IndInv, MixInv, InOrderOfTime, KeepInv, ListenRequest,
           UNCHANGED <<agentVars, histVars>>
    PROVE  KeepInv'
<1>0. /\ request' = Head(toMirror) /\ toMirror' = Tail(toMirror) /\ toMirror # <<>>
      /\ Dispatch(Head(toMirror)) /\ svc = "wait_start" /\ body = <<>>
      /\ UNCHANGED <<sock, toAgent, body, now, fileVars, agentVars>>
    BY DEF ListenRequest, IndInv, ServiceInv
<1>1. /\ 1 \in DOMAIN toMirror /\ Head(toMirror) = toMirror[1]
      /\ \A i \in DOMAIN toMirror' : i + 1 \in DOMAIN toMirror /\ toMirror'[i] = toMirror[i + 1]
  <2>1. /\ DOMAIN toMirror = 1..Len(toMirror) /\ Len(toMirror) \in Nat \ {0}
        /\ DOMAIN Tail(toMirror) = 1..(Len(toMirror) - 1) /\ Head(toMirror) = toMirror[1]
        /\ \A i \in 1..(Len(toMirror) - 1) : Tail(toMirror)[i] = toMirror[i + 1]
    BY <1>0, Types, EmptySeq, HeadTailProperties, LenProperties
  <2> QED BY <1>0, <2>1
<1> SUFFICES ASSUME Running, cur = 0, Asking
             PROVE  /\ \A i \in DOMAIN toMirror' :
                          toMirror'[i].port = sock => NoneYounger(toMirror'[i].since)
                    /\ Busy' => Lacks(body', Done) /\ (svc' = "scan" => NoneYounger(t1'))
                    /\ \A i \in DOMAIN toAgent' : Lacks(toAgent'[i].body, Done)
    BY <1>0, KeepWaiting
<1>2. /\ \A i \in DOMAIN toMirror : toMirror[i].port = sock => NoneYounger(toMirror[i].since)
      /\ \A i \in DOMAIN toAgent : Lacks(toAgent[i].body, Done)
    BY DEF KeepInv, AskedForOld
<1>3. Lacks(body, Done)
  <2>1. DOMAIN body = {}
    BY <1>0, EmptySeq
  <2> QED BY <2>1 DEF Lacks
<1>4. ASSUME Busy', svc' = "scan" PROVE NoneYounger(t1')
  <2>1. toMirror[1].port = sock /\ toMirror[1] \in Request
    BY <1>0, <1>1, <1>4, Elements DEF Busy
  <2>2. PICK shift \in TzShifts : t1' = toMirror[1].since + shift
    BY <1>0, <1>1, <1>4 DEF Dispatch
  <2>3. toMirror[1].cmd = "MIRROR_REPORT_CHANGES"
    BY <1>0, <1>1, <1>4 DEF Dispatch
  <2>4. toMirror[1].since \in Nat /\ shift \in Int /\ shift >= 0
    BY <2>1, <2>3, TzShiftsAreInt DEF Request, InOrderOfTime
  <2>5. NoneYounger(toMirror[1].since)
    BY <1>1, <1>2, <2>1
  <2>6. \A f \in Files : ptime[f] \in Nat
    BY TimeTypes
  <2> QED BY <2>2, <2>4, <2>5, <2>6 DEF NoneYounger
<1> QED BY <1>0, <1>1, <1>2, <1>3, <1>4

\* A file that is newer than all of the primary is not up to date.
LEMMA ScanKeep ==
    ASSUME IndInv, MixInv, KeepInv, ScanEnd \/ \E f \in Files : ScanFile(f),
           UNCHANGED <<agentVars, histVars>>
    PROVE  KeepInv'
<1>0. /\ svc = "scan" /\ body \in Seq(Item)
      /\ UNCHANGED <<sock, toMirror, toAgent, request, t1, now, fileVars, agentVars>>
    BY Types DEF ScanEnd, ScanFile, netVars
<1> SUFFICES ASSUME Running, cur = 0, Asking
             PROVE  /\ \A i \in DOMAIN toMirror' :
                          toMirror'[i].port = sock => NoneYounger(toMirror'[i].since)
                    /\ Busy' => Lacks(body', Done) /\ (svc' = "scan" => NoneYounger(t1'))
                    /\ \A i \in DOMAIN toAgent' : Lacks(toAgent'[i].body, Done)
    BY <1>0, KeepWaiting
<1>1. /\ \A i \in DOMAIN toMirror : toMirror[i].port = sock => NoneYounger(toMirror[i].since)
      /\ \A i \in DOMAIN toAgent : Lacks(toAgent[i].body, Done)
      /\ Busy => Lacks(body, Done) /\ NoneYounger(t1)
    BY <1>0 DEF KeepInv, AskedForOld
<1>2. Busy' = Busy
    BY <1>0 DEF Busy
<1>3. ASSUME Busy, NEW f \in Files, mtime[f] > t1
      PROVE  f \notin Done
  <2>1. ptime[f] <= t1 /\ ptime[f] \in Int /\ mtime[f] \in Int /\ t1 \in Int
    BY <1>1, <1>3, TimeTypes DEF NoneYounger
  <2>2. ~ (mtime[f] <= ptime[f])
    BY <1>3, <2>1
  <2>3. ASSUME UpToDate(f) PROVE FALSE
    <3>1. data[f] # <<>> /\ 1 \in DOMAIN data[f]
      <4>1. data[f] # <<>> /\ data[f] \in Seq(Item)
        BY <2>3, Types DEF UpToDate
      <4> QED BY <4>1, EmptySeq, LenProperties
    <3>2. data[f][1] = Part(f, ver[f], 1, len[f])
      BY <2>3, <3>1 DEF UpToDate, HasContentOf, IsPrefixOf
    <3>3. Part(f, ver[f], 1, len[f]).ver = ver[f]
      BY DEF Part
    <3>4. data[f][1].ver = ver[f]
      BY <3>2, <3>3
    <3> QED BY <2>2, <3>1, <3>4 DEF KeepInv, TimesInv
  <2> QED BY <2>3 DEF Done
<1>4. ASSUME Busy PROVE Lacks(body', Done)
  <2>1. CASE body' = body
    BY <1>1, <1>4, <2>1
  <2>2. ASSUME NEW f \in Files, body' = Append(body, f), mtime[f] > t1
        PROVE  Lacks(body', Done)
    <3>1. f \in Item
      BY DEF Item
    <3>2. /\ DOMAIN body' = 1..(Len(body) + 1) /\ body'[Len(body) + 1] = f
          /\ \A i \in 1..Len(body) : body'[i] = body[i]
          /\ DOMAIN body = 1..Len(body) /\ Len(body) \in Nat
      BY <1>0, <2>2, <3>1, AppendProperties, LenProperties
    <3>3. \A i \in DOMAIN body' : i \in DOMAIN body \/ i = Len(body) + 1
      BY <3>2
    <3> QED BY <1>1, <1>3, <1>4, <2>2, <3>2, <3>3 DEF Lacks
  <2> QED BY <2>1, <2>2 DEF ScanEnd, ScanFile, Newer
<1> QED BY <1>0, <1>1, <1>2, <1>4

LEMMA WorkKeep ==
    ASSUME IndInv, MixInv, KeepInv, CountSize \/ ReadContents, UNCHANGED <<agentVars, histVars>>
    PROVE  KeepInv'
<1>0. /\ svc \in {"count", "read"}
      /\ UNCHANGED <<sock, toMirror, toAgent, request, now, fileVars, agentVars>>
    BY DEF CountSize, ReadContents, netVars
<1>1. Running /\ cur = 0 => ~ Busy /\ ~ Busy'
    BY <1>0, BusyWithReport DEF Busy
<1> QED BY <1>0, <1>1, KeepWaiting DEF KeepInv, AskedForOld

\* A frame of a report holds what the report holds.
LEMMA FrameOfBody ==
    ASSUME IndInv, MixInv, svc = "send", IsReport, NEW S \in SUBSET Files, Lacks(body, S)
    PROVE  Lacks(ResponseFrame(sent + 1).body, S)
<1> DEFINE a == sent * IdsPerFrame
           h == (sent + 1) * IdsPerFrame
           b == IF h <= Len(body) THEN h ELSE Len(body)
           mark == IF sent + 1 = TotalFrames THEN <<EndMark>> ELSE <<>>
           c == FrameItems(sent + 1)
<1>0. /\ body \in Seq(Item) /\ DOMAIN body = 1..Len(body) /\ Len(body) \in Nat
      /\ a \in Nat /\ sent \in Nat /\ IdsPerFrame \in Nat \ {0}
      /\ h = a + IdsPerFrame /\ (sent + 1 - 1) * IdsPerFrame = a
    BY NextFrame, ReportLimits, Types
<1>1. /\ ResponseFrame(sent + 1).body = c \o mark
      /\ mark \in Seq(Item) /\ c \in Seq(Item)
    BY MarksAreItems, EmptySeq, FrameItemsType DEF ResponseFrame
<1>2. Lacks(mark, S)
  <2>1. \A i \in DOMAIN mark : mark[i] = EndMark
    BY EmptySeq
  <2> QED BY <2>1, MarksAreNotFiles DEF Lacks
<1>3. Lacks(c, S)
  <2>1. CASE body = <<>>
    <3>1. c = <<>>
      BY <2>1 DEF FrameItems
    <3> QED BY <3>1, EmptySeq DEF Lacks
  <2>2. CASE body # <<>>
    <3>1. c = SubSeq(body, a + 1, b)
      <4> DEFINE k == sent + 1
      <4>1. k * IdsPerFrame = h /\ (k - 1) * IdsPerFrame = a
        BY <1>0
      <4> HIDE DEF k, a, h
      <4>2. FrameItems(k) = SubSeq(body, (k - 1) * IdsPerFrame + 1,
                                   IF k * IdsPerFrame <= Len(body)
                                     THEN k * IdsPerFrame ELSE Len(body))
        BY <2>2, ReportItems
      <4>3. FrameItems(k) = SubSeq(body, a + 1, b)
        BY <4>1, <4>2
      <4> QED BY <4>3 DEF k
    <3>2. a + 1 \in Nat \ {0} /\ b \in Int /\ b <= Len(body)
      BY <1>0
    <3> HIDE DEF a, b, c
    <3>3. /\ Len(c) = IF a + 1 <= b THEN b - (a + 1) + 1 ELSE 0
          /\ \A i \in 1..(b - (a + 1) + 1) : c[i] = body[a + 1 + i - 1]
      BY <1>0, <3>1, <3>2, SubSeqOfSeq
    <3>4. \A i \in DOMAIN c : i \in 1..(b - (a + 1) + 1) /\ a + 1 + i - 1 \in DOMAIN body
      <4>1. DOMAIN c = 1..Len(c)
        BY <1>1, LenProperties
      <4> QED BY <1>0, <3>2, <3>3, <4>1
    <3> QED BY <3>3, <3>4 DEF Lacks
  <2> QED BY <2>1, <2>2
<1> HIDE DEF c, mark
<1>4. ASSUME NEW i \in DOMAIN (c \o mark) PROVE (c \o mark)[i] \notin S
  <2>1. \/ i \in DOMAIN c /\ (c \o mark)[i] = c[i]
        \/ i - Len(c) \in DOMAIN mark /\ (c \o mark)[i] = mark[i - Len(c)]
    BY <1>1, JoinElement
  <2> QED BY <1>2, <1>3, <2>1 DEF Lacks
<1> QED BY <1>1, <1>4 DEF Lacks

LEMMA SendKeep ==
    ASSUME IndInv, MixInv, KeepInv, SendResponse, UNCHANGED <<agentVars, histVars>>
    PROVE  KeepInv'
<1> DEFINE fr == ResponseFrame(sent + 1)
<1>0. /\ svc = "send" /\ SendOutcome
      /\ UNCHANGED <<sock, toMirror, now, fileVars, agentVars>>
    BY Sent DEF SendResponse
<1> SUFFICES ASSUME Running, cur = 0, Asking
             PROVE  /\ \A i \in DOMAIN toMirror' :
                          toMirror'[i].port = sock => NoneYounger(toMirror'[i].since)
                    /\ Busy' => Lacks(body', Done) /\ (svc' = "scan" => NoneYounger(t1'))
                    /\ \A i \in DOMAIN toAgent' : Lacks(toAgent'[i].body, Done)
    BY <1>0, KeepWaiting
<1>1. /\ \A i \in DOMAIN toMirror : toMirror[i].port = sock => NoneYounger(toMirror[i].since)
      /\ \A i \in DOMAIN toAgent : Lacks(toAgent[i].body, Done)
      /\ Busy => Lacks(body, Done)
    BY DEF KeepInv, AskedForOld
<1>2. svc' # "scan" /\ (Busy' => Busy /\ body' = body)
  <2>1. sock # 0
    BY DEF MixInv, RunInv, Running
  <2> QED BY <1>0, <2>1 DEF SendResponse, Busy, NoRequest
<1>3. ASSUME Busy PROVE \A i \in DOMAIN toAgent' : Lacks(toAgent'[i].body, Done)
  <2>1. toAgent' = Append(toAgent, fr)
    BY <1>0, <1>3 DEF SendResponse, Deliver, Busy
  <2>2. fr \in Frame
    BY <1>0, FrameIs
  <2>3. Lacks(fr.body, Done)
    <3>1. IsReport /\ Done \in SUBSET Files
      BY <1>3, BusyWithReport DEF Done
    <3> QED BY <1>0, <1>1, <1>3, <3>1, FrameOfBody
  <2> HIDE DEF fr
  <2>4. /\ toAgent'[Len(toAgent) + 1] = fr
        /\ \A i \in DOMAIN toAgent : toAgent'[i] = toAgent[i]
        /\ \A i \in DOMAIN toAgent' : i = Len(toAgent) + 1 \/ i \in DOMAIN toAgent
    BY <2>1, <2>2, Appended
  <2> QED BY <1>1, <2>3, <2>4
<1>4. ASSUME ~ Busy PROVE toAgent' = toAgent
    BY <1>4 DEF SendResponse, Deliver, Busy
<1> QED BY <1>0, <1>1, <1>2, <1>3, <1>4

LEMMA NetworkKeep ==
    ASSUME IndInv, MixInv, KeepInv, Network
    PROVE  KeepInv'
<1>0. UNCHANGED <<sock, now, svcVars, fileVars, agentVars>> /\ Lose
    BY DEF Network, NetworkFault, Duplicate, Reorder, Spend, MixInv, NoDisorder
<1>1. /\ \A j \in DOMAIN toMirror' : \E i \in DOMAIN toMirror : toMirror'[j] = toMirror[i]
      /\ \A j \in DOMAIN toAgent' : \E i \in DOMAIN toAgent : toAgent'[j] = toAgent[i]
  <2>1. /\ \A d \in DOMAIN toMirror : Thin(RemoveAt(toMirror, d), toMirror)
        /\ \A d \in DOMAIN toAgent : Thin(RemoveAt(toAgent, d), toAgent)
    BY Types, ThinRemove
  <2>2. /\ toMirror' = toMirror \/ Thin(toMirror', toMirror)
        /\ toAgent' = toAgent \/ Thin(toAgent', toAgent)
    BY <1>0, <2>1 DEF Lose
  <2>3. \A j \in DOMAIN toMirror' : \E i \in DOMAIN toMirror : toMirror'[j] = toMirror[i]
    BY <2>2, ThinElement
  <2>4. \A j \in DOMAIN toAgent' : \E i \in DOMAIN toAgent : toAgent'[j] = toAgent[i]
    BY <2>2, ThinElement
  <2> QED BY <2>3, <2>4
<1>2. Busy' = Busy /\ UNCHANGED <<svc, body, t1>>
    BY <1>0 DEF Busy, svcVars
<1> QED BY <1>0, <1>1, <1>2, KeepWaiting DEF KeepInv, AskedForOld

\* The request of a run names a time that no file of the primary is younger than.
LEMMA StartKeep ==
    ASSUME IndInv, MixInv, InOrderOfTime, KeepInv, AgentStart
    PROVE  KeepInv'
<1>0. /\ apc' = "wait_first" /\ cur' = 0 /\ toAgent' = <<>> /\ sock' = port + 1
      /\ recv' = NothingReceived /\ port \in Nat
      /\ UNCHANGED <<now, ver, len, mtime, data, ptime, request>>
    BY Types DEF AgentStart, AgentMain, fileVars, svcVars, MixInv, RunInv, InOrderOfTime
<1>1. PICK t \in {0} \cup {ptime[g] : g \in Files} :
          NoneYounger(t) /\ toMirror' = Append(toMirror, ReportRequest(port + 1, t))
    BY DEF AgentStart, AgentMain, IsLatestTimestamp, NoneYounger, InOrderOfTime
<1>2. ~ Busy'
  <2>1. request.port \in 1..port \/ request.port = 0
    BY DEF MixInv, RunInv, NoRequest
  <2>2. request.port # port + 1
    BY <1>0, <2>1
  <2> QED BY <1>0, <2>2 DEF Busy
<1>3. ASSUME NEW i \in DOMAIN toMirror', toMirror'[i].port = sock'
      PROVE  NoneYounger(toMirror'[i].since)
  <2>1. PICK rq : rq = ReportRequest(port + 1, t)
    OBVIOUS
  <2>2. rq \in Request /\ rq.since = t
    <3>1. t \in Nat
      BY TimeTypes
    <3> QED BY <1>0, <2>1, <3>1 DEF ReportRequest, Request
  <2>3. /\ toMirror'[Len(toMirror) + 1] = rq
        /\ \A j \in 1..Len(toMirror) : toMirror'[j] = toMirror[j]
        /\ DOMAIN toMirror' = 1..(Len(toMirror) + 1)
    BY <1>1, <2>1, <2>2, Types, AppendProperties, LenProperties
  <2>4. CASE i = Len(toMirror) + 1
    BY <1>1, <2>2, <2>3, <2>4
  <2>5. CASE i # Len(toMirror) + 1
    <3>1. i \in DOMAIN toMirror /\ toMirror'[i] = toMirror[i]
      <4>1. DOMAIN toMirror = 1..Len(toMirror) /\ Len(toMirror) \in Nat
        BY Types
      <4>2. i \in 1..(Len(toMirror) + 1)
        BY <2>3
      <4>3. i \in 1..Len(toMirror)
        BY <2>5, <4>1, <4>2
      <4> QED BY <2>3, <4>1, <4>3
    <3>2. toMirror[i].port \in 1..port /\ toMirror[i].port = port + 1
      BY <1>0, <1>3, <3>1 DEF MixInv, RunInv
    <3> QED BY <1>0, <3>2
  <2> QED BY <2>4, <2>5
<1>4. TimesInv'
    BY <1>0 DEF KeepInv, TimesInv
<1>5. AskedForOld'
  <2>1. \A t2 : NoneYounger(t2) = \A f \in Files : ptime'[f] <= t2
    BY <1>0 DEF NoneYounger
  <2>2. DOMAIN recv'.body = {} /\ DOMAIN toAgent' = {}
    BY <1>0, EmptySeq DEF NothingReceived
  <2>3. \A ids : Lacks(recv'.body, ids)
    BY <2>2 DEF Lacks
  <2> HIDE DEF Done
  <2> QED BY <1>2, <1>3, <2>1, <2>2, <2>3 DEF AskedForOld, NoneYounger
<1>6. ListedOld'
    BY <1>0 DEF ListedOld, Asking
<1> QED BY <1>4, <1>5, <1>6 DEF KeepInv

\* What the agent takes from the queue is nothing that is up to date.
LEMMA TakenKeep ==
    ASSUME IndInv, KeepInv, Running, cur = 0, Asking, Running', Asking',
           toAgent # <<>>, toAgent' = Tail(toAgent),
           UNCHANGED <<cur, data, ptime, now, sock, toMirror, fileVars, svcVars>>,
           \A S : S \subseteq Files /\ Lacks(recv.body, S) /\ Lacks(toAgent[1].body, S)
                  => Lacks(recv'.body, S)
    PROVE  KeepInv'
<1>0. UNCHANGED <<ver, len, mtime, svc, request, t1, body>>
    BY DEF fileVars, svcVars
<1>1. Done' = Done /\ Busy' = Busy /\ Done \subseteq Files
    BY <1>0, SameDone DEF Busy, Done
<1>2. /\ \A i \in DOMAIN toMirror : toMirror[i].port = sock => NoneYounger(toMirror[i].since)
      /\ Busy => Lacks(body, Done) /\ (svc = "scan" => NoneYounger(t1))
      /\ \A i \in DOMAIN toAgent : Lacks(toAgent[i].body, Done)
      /\ Lacks(recv.body, Done)
    BY DEF KeepInv, AskedForOld
<1>3. /\ 1 \in DOMAIN toAgent
      /\ \A j \in DOMAIN toAgent' : j + 1 \in DOMAIN toAgent /\ toAgent'[j] = toAgent[j + 1]
    BY TailOfQueue
<1>4. \A j \in DOMAIN toAgent' : Lacks(toAgent'[j].body, Done)
    BY <1>2, <1>3
<1>5. TimesInv'
    BY <1>0 DEF KeepInv, TimesInv
<1> HIDE DEF Done, Busy, Running, Asking
<1>6. Lacks(recv'.body, Done)
    BY <1>1, <1>2, <1>3
<1>7. AskedForOld'
    BY <1>0, <1>1, <1>2, <1>4, <1>6 DEF AskedForOld, NoneYounger
<1>8. ListedOld'
    BY DEF ListedOld
<1> QED BY <1>5, <1>7, <1>8 DEF KeepInv

\* While there is a list the files are those on it, and the ones already fetched are past.
LEMMA ListKeep ==
    ASSUME KeepInv, Running, cur > 0 \/ ~ Asking, cur' > 0 \/ ~ Asking',
           UNCHANGED <<files_id, data, ptime, now, fileVars>>, Fetched' >= Fetched,
           Fetched \in Int, Fetched' \in Int, DOMAIN files_id \subseteq Int
    PROVE  KeepInv'
<1>0. UNCHANGED <<ver, len, mtime>>
    BY DEF fileVars
<1>1. Done' = Done
    BY <1>0, SameDone
<1>2. TimesInv'
    BY <1>0 DEF KeepInv, TimesInv
<1>3. AskedForOld'
    BY DEF AskedForOld
<1> HIDE DEF Done, Running, Asking, Fetched
<1>4. \A i \in DOMAIN files_id : i > Fetched => files_id[i] \notin Done
    BY DEF KeepInv, ListedOld
<1>5. \A i \in DOMAIN files_id : i > Fetched' => files_id[i] \notin Done
  <2>1. \A i \in DOMAIN files_id : i > Fetched' => i > Fetched
    OBVIOUS
  <2> QED BY <1>4, <2>1
<1>6. ListedOld'
    BY <1>1, <1>5 DEF ListedOld
<1> QED BY <1>2, <1>3, <1>6 DEF KeepInv

\* A run that is over needs nothing.
LEMMA ExitKeep ==
    ASSUME KeepInv, apc' = "idle", UNCHANGED <<data, ptime, now, fileVars>>
    PROVE  KeepInv'
<1>1. ~ Running'
    BY DEF Running
<1>2. TimesInv'
    BY DEF KeepInv, TimesInv, fileVars
<1> QED BY <1>1, <1>2 DEF KeepInv, AskedForOld, ListedOld

LEMMA FetchedType ==
    ASSUME IndInv
    PROVE  Fetched \in Int /\ cur \in Nat /\ DOMAIN files_id \subseteq Int
<1>1. cur \in Nat /\ DOMAIN files_id \subseteq Int
    BY Types
<1> QED BY <1>1 DEF Fetched

LEMMA GiveUpKeep ==
    ASSUME IndInv, IndInv', KeepInv, Asking, NEW q, GiveUp(q),
           UNCHANGED <<cur, files_id, data, ptime, now, fileVars>>
    PROVE  KeepInv'
<1>1. CASE cur = 0
    BY <1>1, ExitKeep DEF GiveUp, Exit
<1>2. CASE cur # 0
  <2>1. Running /\ apc \notin {"call", "write", "close"} /\ apc' = "call"
    BY <1>2 DEF GiveUp, Running, Asking
  <2>2. Fetched = cur - 1 /\ Fetched' = cur /\ cur \in Nat /\ DOMAIN files_id \subseteq Int
    BY <2>1, FetchedType DEF Fetched
  <2>3. Fetched' >= Fetched /\ cur > 0 /\ cur' > 0 /\ Fetched \in Int /\ Fetched' \in Int
    BY <1>2, <2>2
  <2> QED BY <2>1, <2>2, <2>3, ListKeep
<1> QED BY <1>1, <1>2

LEMMA TimeOutKeep ==
    ASSUME IndInv, IndInv', KeepInv, AgentRun, TimeOut
    PROVE  KeepInv'
<1>1. Asking /\ GiveUp(toAgent) /\ UNCHANGED <<cur, files_id, data, ptime, now, fileVars>>
    BY DEF TimeOut, AgentRun, Asking, Waiting
<1> QED BY <1>1, GiveUpKeep

LEMMA ReceiveFirstKeep ==
    ASSUME IndInv, IndInv', MixInv, KeepInv, AgentRun, ReceiveFirst
    PROVE  KeepInv'
<1>0. /\ apc = "wait_first" /\ toAgent # <<>> /\ Asking /\ Running
      /\ UNCHANGED <<cur, files_id, data, ptime, now, toMirror, fileVars, svcVars>>
      /\ Head(toAgent) = toAgent[1]
    BY TailOfQueue DEF ReceiveFirst, AgentRun, Asking, Running
<1>1. CASE ~ ValidHeader(Head(toAgent))
  <2>1. GiveUp(Tail(toAgent))
    BY <1>1 DEF ReceiveFirst
  <2> QED BY <1>0, <2>1, GiveUpKeep
<1>2. CASE ValidHeader(Head(toAgent))
  <2>1. /\ recv'.body = toAgent[1].body /\ toAgent' = Tail(toAgent) /\ sock' = sock
        /\ apc' \in {"wait_more", "received"}
    BY <1>0, <1>2 DEF ReceiveFirst
  <2>2. Running' /\ Asking'
    BY <2>1 DEF Running, Asking
  <2>3. CASE cur = 0
    BY <1>0, <2>1, <2>2, <2>3, TakenKeep
  <2>4. CASE cur # 0
    <3>1. Fetched' = Fetched /\ Fetched \in Int /\ cur > 0 /\ DOMAIN files_id \subseteq Int
      <4>1. cur \in Nat /\ Fetched \in Int /\ DOMAIN files_id \subseteq Int
        BY FetchedType
      <4>2. Fetched' = Fetched
        BY <1>0, <2>1 DEF Fetched
      <4> QED BY <2>4, <4>1, <4>2
    <3> QED BY <1>0, <3>1, ListKeep
  <2> QED BY <2>3, <2>4
<1> QED BY <1>1, <1>2

LEMMA ReceiveMoreKeep ==
    ASSUME IndInv, IndInv', MixInv, KeepInv, AgentRun, ReceiveMore
    PROVE  KeepInv'
<1>0. /\ apc = "wait_more" /\ toAgent # <<>> /\ Asking /\ Running
      /\ UNCHANGED <<cur, files_id, data, ptime, now, sock, toMirror, fileVars, svcVars>>
      /\ Head(toAgent) = toAgent[1] /\ toAgent[1] \in Frame
      /\ recv'.body = recv.body \o Raw(toAgent[1]) /\ toAgent' = Tail(toAgent)
      /\ apc' \in {"wait_more", "received"}
    BY TailOfQueue DEF ReceiveMore, AgentRun, Asking, Running
<1>1. Running' /\ Asking'
    BY <1>0 DEF Running, Asking
<1>2. CASE cur = 0
  <2>1. recv.body \in Seq(Item) /\ Raw(toAgent[1]) \in Seq(Item)
    BY <1>0, Types, RawFiles DEF Responses
  <2>2. ASSUME NEW S, S \subseteq Files, Lacks(recv.body, S), Lacks(toAgent[1].body, S)
        PROVE  Lacks(recv'.body, S)
    <3> DEFINE r == Raw(toAgent[1])
    <3>1. Lacks(r, S)
      BY <1>0, <2>2, RawFiles
    <3>2. r \in Seq(Item)
      BY <2>1
    <3> HIDE DEF r
    <3>3. ASSUME NEW i \in DOMAIN (recv.body \o r) PROVE (recv.body \o r)[i] \notin S
      <4>1. \/ i \in DOMAIN recv.body /\ (recv.body \o r)[i] = recv.body[i]
            \/ i - Len(recv.body) \in DOMAIN r /\ (recv.body \o r)[i] = r[i - Len(recv.body)]
        BY <2>1, <3>2, JoinElement
      <4> QED BY <2>2, <3>1, <4>1 DEF Lacks
    <3> QED BY <1>0, <3>3 DEF Lacks, r
  <2> QED BY <1>0, <1>1, <1>2, <2>2, TakenKeep
<1>3. CASE cur # 0
  <2>1. cur \in Nat /\ Fetched \in Int /\ DOMAIN files_id \subseteq Int
    BY FetchedType
  <2>2. Fetched' = Fetched /\ cur > 0
    BY <1>0, <1>3, <2>1 DEF Fetched
  <2>3. Fetched' >= Fetched
    BY <2>1, <2>2
  <2> QED BY <1>0, <1>3, <2>1, <2>2, <2>3, ListKeep
<1> QED BY <1>2, <1>3

\* The list of the run is the report.
LEMMA ReportKeep ==
    ASSUME IndInv, KeepInv, AgentRun, ProcessReport
    PROVE  KeepInv'
<1>0. /\ apc = "received" /\ cur = 0 /\ cur' = 0 /\ Running /\ Asking
      /\ UNCHANGED <<data, ptime, now, fileVars>>
    BY DEF ProcessReport, AgentRun, Running, Asking
<1>1. CASE ~ ReportAccepted(recv)
    BY <1>0, <1>1, ExitKeep DEF ProcessReport, Exit
<1>2. CASE ReportAccepted(recv)
  <2>1. files_id' = InnerBody(recv) /\ ~ Asking'
    BY <1>2 DEF ProcessReport, Asking
  <2>2. Done' = Done /\ Lacks(recv.body, Done)
    BY <1>0, SameDone DEF KeepInv, AskedForOld, fileVars
  <2>3. ASSUME NEW i \in DOMAIN InnerBody(recv) PROVE InnerBody(recv)[i] \notin Done
    <3>1. recv \in Responses /\ ClosedBody(recv)
      BY <1>2, Types DEF ReportAccepted
    <3>2. /\ InnerBody(recv) \in Seq(Item) /\ Len(InnerBody(recv)) = Len(recv.body) - 1
          /\ \A j \in 1..(Len(recv.body) - 1) : InnerBody(recv)[j] = recv.body[j]
      BY <3>1, InnerBodyType
    <3>3. recv.body \in Seq(Item)
      BY <3>1 DEF Responses
    <3>4. i \in 1..(Len(recv.body) - 1) /\ i \in DOMAIN recv.body
      <4>1. /\ DOMAIN InnerBody(recv) = 1..Len(InnerBody(recv))
            /\ DOMAIN recv.body = 1..Len(recv.body) /\ Len(recv.body) \in Nat
        BY <3>2, <3>3, LenProperties
      <4> QED BY <3>2, <4>1
    <3> QED BY <2>2, <3>2, <3>4 DEF Lacks
  <2>4. TimesInv'
    BY <1>0 DEF KeepInv, TimesInv, fileVars
  <2> HIDE DEF Done, Asking
  <2> QED BY <2>1, <2>2, <2>3, <2>4 DEF KeepInv, AskedForOld, ListedOld
<1> QED BY <1>1, <1>2

LEMMA CallKeep ==
    ASSUME IndInv, KeepInv, AgentRun, CallGetPage
    PROVE  KeepInv'
<1>1. /\ apc = "call" /\ apc' = "wait_first" /\ cur' = cur + 1
      /\ UNCHANGED <<files_id, data, ptime, now, fileVars>>
    BY DEF CallGetPage, AgentRun
<1>2. cur \in Nat /\ DOMAIN files_id \subseteq Int
    BY FetchedType
<1>3. Fetched = cur /\ Fetched' = cur /\ cur' > 0
    BY <1>1, <1>2 DEF Fetched
<1>4. Running /\ ~ Asking
    BY <1>1 DEF Running, Asking
<1>5. Fetched' >= Fetched /\ Fetched \in Int /\ Fetched' \in Int
    BY <1>2, <1>3
<1> QED BY <1>1, <1>2, <1>3, <1>4, <1>5, ListKeep

\* The agent empties or writes only the file that it has asked for; that makes the
\* file younger than the mirror's.
LEMMA OneFileWritten ==
    ASSUME IndInv, MixInv, AgentRun, Updates
    PROVE  /\ apc \in {"received", "write", "close"} /\ apc' \in {"write", "close", "call"}
           /\ cur > 0 /\ CurFile \in Files /\ cur \in DOMAIN files_id
           /\ UNCHANGED <<cur, files_id, now, fileVars>>
           /\ \A f \in Files : f # CurFile => data'[f] = data[f] /\ ptime'[f] = ptime[f]
           /\ (data'[CurFile] = data[CurFile] /\ ptime' = ptime) \/ ptime'[CurFile] = now
<1>1. /\ apc \in {"received", "write", "close"} /\ apc' \in {"write", "close", "call"} /\ cur # 0
      /\ UNCHANGED <<cur, files_id, now, fileVars>>
  <2>1. apc \in {"write", "close"} => cur # 0
    BY DEF IndInv, AgentInv
  <2> QED BY <2>1 DEF Updates, ProcessPage, WriteFile, Buffered, WriteDone, AgentRun
<1>2. cur > 0 /\ cur \in DOMAIN files_id
  <2>1. cur \in 0..Len(files_id) /\ DOMAIN files_id = 1..Len(files_id) /\ Len(files_id) \in Nat
    BY Types
  <2> QED BY <1>1, <2>1
<1>3. CurFile \in Files
    BY <1>2, Elements
<1>4. data \in [Files -> Seq(Item)] /\ ptime \in [Files -> Nat]
    BY TimeTypes
<1>5. \A f \in Files : f # CurFile => data'[f] = data[f] /\ ptime'[f] = ptime[f]
    BY <1>4 DEF Updates, ProcessPage, WriteFile, Buffered, WriteDone, CurFile
<1>6. (data'[CurFile] = data[CurFile] /\ ptime' = ptime) \/ ptime'[CurFile] = now
  <2>1. CASE WriteDone \/ Buffered
    BY <2>1 DEF WriteDone, Buffered
  <2>2. CASE WriteFile
    BY <1>3, <1>4, <2>2 DEF WriteFile, CurFile
  <2>3. CASE ProcessPage
    BY <1>3, <1>4, <2>3 DEF ProcessPage, CurFile
  <2> QED BY <2>1, <2>2, <2>3 DEF Updates
<1> QED BY <1>1, <1>2, <1>3, <1>5, <1>6

LEMMA WriteKeep ==
    ASSUME IndInv, IndInv', MixInv, KeepInv, AgentRun, Updates
    PROVE  KeepInv'
<1> DEFINE g == CurFile
<1>0. /\ apc \in {"received", "write", "close"} /\ apc' \in {"write", "close", "call"}
      /\ cur > 0 /\ g \in Files /\ cur \in DOMAIN files_id
      /\ UNCHANGED <<cur, files_id, now, ver, len, mtime>>
      /\ \A f \in Files : f # g => data'[f] = data[f] /\ ptime'[f] = ptime[f]
      /\ (data'[g] = data[g] /\ ptime' = ptime) \/ ptime'[g] = now
    BY OneFileWritten DEF fileVars
<1> HIDE DEF g
<1>1. TimesInv'
  <2>1. ASSUME NEW f \in Files, data'[f] # <<>>, data'[f][1].ver = ver[f]
        PROVE  mtime[f] <= ptime'[f]
    <3>1. mtime[f] <= now /\ (data[f] # <<>> /\ data[f][1].ver = ver[f] => mtime[f] <= ptime[f])
      BY DEF KeepInv, TimesInv
    <3>2. CASE data'[f] = data[f] /\ ptime'[f] = ptime[f]
      BY <2>1, <3>1, <3>2
    <3>3. CASE f = g /\ ptime'[g] = now
      BY <3>1, <3>3
    <3> QED BY <1>0, <3>2, <3>3
  <2> QED BY <1>0, <2>1 DEF KeepInv, TimesInv
<1>2. \A f \in Files : f # g /\ f \in Done' => f \in Done
  <2>1. ASSUME NEW f \in Files, f # g, UpToDate(f)' PROVE UpToDate(f)
    BY <1>0, <2>1 DEF UpToDate, HasContentOf, IsPrefixOf
  <2> QED BY <2>1 DEF Done
<1>3. Running /\ ~ (cur' = 0) /\ Fetched' = cur /\ Fetched <= cur
  <2>1. cur \in Nat
    BY FetchedType
  <2> QED BY <1>0, <2>1 DEF Running, Fetched
<1>4. ASSUME NEW i \in DOMAIN files_id, i > cur PROVE files_id[i] \notin Done'
  <2>1. i \in Int /\ Fetched \in Int /\ cur \in Int
    BY FetchedType
  <2>2. i > Fetched
    BY <1>3, <1>4, <2>1
  <2>3. files_id[i] \notin Done
    BY <1>0, <1>3, <2>2 DEF KeepInv, ListedOld
  <2>4. files_id[i] \in Files
    BY Types, ElementOfSeq
  <2>5. files_id[i] # g
    <3>1. i # cur
      BY <1>4, <2>1
    <3> QED BY <1>0, <2>4, <3>1 DEF MixInv, ListInv, Distinct, CurFile, g
  <2> QED BY <1>2, <2>3, <2>4, <2>5
<1>5. ListedOld'
  <2> HIDE DEF Done, Running, Asking, Fetched
  <2> QED BY <1>0, <1>3, <1>4 DEF ListedOld
<1>6. AskedForOld'
    BY <1>0, <1>3 DEF AskedForOld
<1> QED BY <1>1, <1>5, <1>6 DEF KeepInv

LEMMA BreakKeep ==
    ASSUME IndInv, KeepInv, AgentBreaks
    PROVE  KeepInv'
<1>1. CASE Kill
    BY <1>1, ExitKeep DEF Kill, Exit, AgentBreaks, histVars
<1>2. CASE WriteFails \/ CloseFails
  <2>1. /\ apc \in {"write", "close"} /\ apc' = "call"
        /\ UNCHANGED <<cur, files_id, data, ptime, now, fileVars>>
    BY <1>2 DEF WriteFails, CloseFails, AgentBreaks
  <2>2. Running /\ ~ Asking /\ ~ Asking'
    BY <2>1 DEF Running, Asking
  <2>3. Fetched' = Fetched
    BY <2>1 DEF Fetched
  <2>4. Fetched \in Int /\ DOMAIN files_id \subseteq Int
    BY FetchedType
  <2>5. Fetched' >= Fetched /\ Fetched' \in Int
    BY <2>3, <2>4
  <2> QED BY <2>1, <2>2, <2>4, <2>5, ListKeep
<1> QED BY <1>1, <1>2 DEF AgentBreaks

LEMMA TickKeep ==
    ASSUME IndInv, KeepInv, Tick
    PROVE  KeepInv'
<1>1. /\ now' = now + 1 /\ now \in Nat /\ \A f \in Files : mtime[f] \in Nat
      /\ UNCHANGED <<sock, toMirror, toAgent, svc, t1, request, body, ver, len, mtime, apc, cur,
                     recv, files_id, data, ptime>>
    BY TimeTypes DEF Tick, netVars, svcVars, fileVars, agentVars
<1>2. TimesInv'
  <2>1. \A f \in Files : mtime[f] <= now'
    <3> SUFFICES ASSUME NEW f \in Files PROVE mtime[f] <= now'
      OBVIOUS
    <3>1. mtime[f] <= now /\ mtime[f] \in Nat
      BY <1>1 DEF KeepInv, TimesInv
    <3> QED BY <1>1, <3>1
  <2> QED BY <1>1, <2>1 DEF KeepInv, TimesInv
<1>3. /\ Done' = Done /\ Running' = Running /\ Asking' = Asking /\ Fetched' = Fetched
      /\ Busy' = Busy
    BY <1>1, SameDone DEF Running, Asking, Fetched, Busy
<1> HIDE DEF Done, Running, Asking, Fetched, Busy
<1>4. AskedForOld'
    BY <1>1, <1>3 DEF KeepInv, AskedForOld, NoneYounger
<1>5. ListedOld'
    BY <1>1, <1>3 DEF KeepInv, ListedOld
<1> QED BY <1>2, <1>4, <1>5 DEF KeepInv

LEMMA StutterKeep ==
    ASSUME KeepInv, UNCHANGED vars
    PROVE  KeepInv'
<1>1. UNCHANGED <<now, sock, toMirror, toAgent, svc, t1, request, body, fileVars, agentVars>>
    BY DEF vars, netVars, svcVars
<1>2. Busy' = Busy
    BY <1>1 DEF Busy
<1> QED BY <1>1, <1>2, KeepWaiting DEF KeepInv, AskedForOld

LEMMA KeepStep ==
    ASSUME InOrderOfTime, IndInv, IndInv', MixInv, KeepInv, [Next]_vars
    PROVE  KeepInv'
<1>1. CASE Tick
    BY <1>1, TickKeep
<1>2. CASE MirrorChange
    BY <1>2, MirrorKeep
<1>3. CASE ServiceNext
  <2>0. UNCHANGED <<agentVars, histVars>> /\ ServiceStep
    BY <1>3 DEF ServiceNext
  <2>1. CASE ListenRequest
    BY <2>0, <2>1, ListenKeep
  <2>2. CASE (\E f \in Files : ScanFile(f)) \/ ScanEnd
    BY <2>0, <2>2, ScanKeep
  <2>3. CASE CountSize \/ ReadContents
    BY <2>0, <2>3, WorkKeep
  <2>4. CASE SendResponse
    BY <2>0, <2>4, SendKeep
  <2> QED BY <2>0, <2>1, <2>2, <2>3, <2>4 DEF ServiceStep
<1>4. CASE AgentStart
    BY <1>4, StartKeep
<1>5. CASE AgentRun
  <2>1. CASE ReceiveFirst
    BY <1>5, <2>1, ReceiveFirstKeep
  <2>2. CASE ReceiveMore
    BY <1>5, <2>2, ReceiveMoreKeep
  <2>3. CASE TimeOut
    BY <1>5, <2>3, TimeOutKeep
  <2>4. CASE ProcessReport
    BY <1>5, <2>4, ReportKeep
  <2>5. CASE CallGetPage
    BY <1>5, <2>5, CallKeep
  <2>6. CASE AgentEnd
    BY <1>5, <2>6, ExitKeep DEF AgentEnd, Exit, AgentRun
  <2>7. CASE Updates
    BY <1>5, <2>7, WriteKeep
  <2> QED BY <1>5, <2>1, <2>2, <2>3, <2>4, <2>5, <2>6, <2>7 DEF AgentRun, Updates
<1>6. CASE AgentBreaks
    BY <1>6, BreakKeep
<1>7. CASE Network
    BY <1>7, NetworkKeep
<1>8. CASE UNCHANGED vars
    BY <1>8, StutterKeep
<1> QED BY <1>1, <1>2, <1>3, <1>4, <1>5, <1>6, <1>7, <1>8 DEF Next

\* What the agent asks for is out of date: the invariant behind the property below.
THEOREM OnlyOldIsAskedFor ==
    ASSUME InOrderOfTime
    PROVE  Spec => []KeepInv
<1>1. Init => KeepInv
    BY KeepInitially
<1>2. IndInv /\ IndInv' /\ MixInv /\ KeepInv /\ [Next]_vars => KeepInv'
    BY KeepStep
<1>3. Spec => []MixInv
    BY UnderWayBelongsTogether DEF InOrderOfTime
<1> QED BY InductiveInvariant, <1>1, <1>2, <1>3, PTL DEF Spec

\* The first part of a file that is up to date says which version it is, and how long.
LEMMA UpToDateIs ==
    ASSUME IndInv, NEW f \in Files, UpToDate(f)
    PROVE  /\ data[f] # <<>> /\ Len(data[f]) = len[f]
           /\ 1 \in DOMAIN data[f] /\ data[f][1] = Part(f, ver[f], 1, len[f])
<1>1. data[f] # <<>> /\ data[f] \in Seq(Item)
    BY Types DEF UpToDate
<1>2. 1 \in DOMAIN data[f]
    BY <1>1, EmptySeq, LenProperties
<1> QED BY <1>1, <1>2 DEF UpToDate, HasContentOf, IsPrefixOf

LEMMA OpensOldOnly ==
    ASSUME IndInv, MixInv, KeepInv, AgentRun, ProcessPage
    PROVE  ~ UpToDate(CurFile)
<1>1. apc = "received" /\ Running /\ cur # 0
    BY DEF ProcessPage, Running
<1>2. cur > 0 /\ cur \in DOMAIN files_id /\ CurFile \in Files
    BY OneFileWritten DEF Updates
<1>3. cur \in Int /\ cur > Fetched
  <2>1. cur \in Nat /\ Fetched = cur - 1
    BY <1>1, FetchedType DEF Fetched
  <2> QED BY <2>1
<1> QED BY <1>1, <1>2, <1>3 DEF KeepInv, ListedOld, Done, CurFile

LEMMA WritesOldOnly ==
    ASSUME IndInv, MixInv, AgentRun, WriteFile
    PROVE  ~ UpToDate(CurFile)
<1> DEFINE f == CurFile
           d == Len(data[f])
<1>1. PICK v \in 1..ver[f], n \in Lengths :
          /\ d + Len(pending) <= n /\ n \in Nat
          /\ Len(pending) \in Nat \ {0} /\ d \in Nat /\ f \in Files
          /\ \A k \in 1..d : data[f][k] = Part(f, v, k, n)
    BY PieceWritten DEF NextPiece
<1> SUFFICES ASSUME UpToDate(f) PROVE FALSE
    OBVIOUS
<1>2. data[f] # <<>> /\ d = len[f] /\ 1 \in DOMAIN data[f] /\ data[f][1] = Part(f, ver[f], 1, len[f])
    BY <1>1, UpToDateIs
<1>3. DOMAIN data[f] = 1..d
  <2>1. data[f] \in Seq(Item)
    BY <1>1, Types
  <2> QED BY <2>1, LenProperties
<1>4. Part(f, v, 1, n) = Part(f, ver[f], 1, len[f])
    BY <1>1, <1>2, <1>3
<1>5. n = d
  <2>1. Part(f, v, 1, n).of = n /\ Part(f, ver[f], 1, len[f]).of = len[f]
    BY DEF Part
  <2> QED BY <1>2, <1>4, <2>1
<1> HIDE DEF d
<1> QED BY <1>1, <1>5

\* A file that is up to date stays as it is until the mirror changes it, whatever is
\* lost or late, and whenever runs are killed or the mirror writes; unless the mirror's
\* zone makes the time that the report is asked for an earlier one.
THEOREM UpToDateFilesStay ==
    ASSUME InOrderOfTime
    PROVE  Spec => UpToDateIsKept
<1>1. ASSUME IndInv, MixInv, KeepInv, [Next]_vars, NEW f \in Files, UpToDate(f), ver'[f] = ver[f]
      PROVE  UpToDate(f)'
  <2>1. len'[f] = len[f]
    <3>1. CASE UNCHANGED fileVars
      BY <3>1 DEF fileVars
    <3>2. CASE MirrorChange
      <4>1. PICK g \in Files : ver' = [ver EXCEPT ![g] = @ + 1] /\ \E n : len' = [len EXCEPT ![g] = n]
        BY <3>2 DEF MirrorChange, MirrorWrite, MirrorRemove
      <4>2. ver \in [Files -> Nat] /\ len \in [Files -> Nat]
        BY <1>1, Types
      <4>3. f # g
        <5>1. ver'[g] = ver[g] + 1
          BY <4>1, <4>2
        <5> QED BY <1>1, <4>2, <5>1
      <4> QED BY <4>1, <4>2, <4>3
    <3> QED BY <1>1, <3>1, <3>2
         DEF Next, Tick, ServiceNext, ServiceStep, ListenRequest, ScanFile, ScanEnd, CountSize,
             ReadContents, SendResponse, AgentStart, AgentRun, AgentBreaks, Network, vars
  <2>2. data'[f] = data[f]
    <3>1. CASE data' = data
      BY <3>1
    <3>2. CASE AgentRun /\ (ProcessPage \/ WriteFile)
      <4>1. ~ UpToDate(CurFile)
        BY <1>1, <3>2, OpensOldOnly, WritesOldOnly
      <4> QED BY <1>1, <3>2, <4>1, OneFileWritten DEF Updates
    <3> QED BY <1>1, <3>1, <3>2
         DEF Next, Tick, MirrorChange, ServiceNext, AgentStart, AgentMain, AgentBreaks, WriteFails,
             CloseFails, Kill, Network, AgentRun, ReceiveFirst, ReceiveMore, TimeOut, ProcessReport,
             CallGetPage, AgentEnd, Buffered, WriteDone, vars, agentVars
  <2> QED BY <1>1, <2>1, <2>2 DEF UpToDate, HasContentOf, IsPrefixOf
<1>2. IndInv /\ MixInv /\ KeepInv /\ [Next]_vars =>
          [\A f \in Files : UpToDate(f) /\ ver'[f] = ver[f] => UpToDate(f)']_vars
    BY <1>1
<1>3. Spec => []MixInv
    BY UnderWayBelongsTogether DEF InOrderOfTime
<1> QED BY InductiveInvariant, OnlyOldIsAskedFor, <1>2, <1>3, PTL DEF Spec, UpToDateIsKept
=============================================================================
