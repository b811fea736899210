---------------------- MODULE ServiceResponses_proofs ----------------------
(***************************************************************************)
(* Proofs about ServiceResponses: for every directory tree, every size of  *)
(* buffer, header, id and frame, and every sequence of requests, the       *)
(* response buffer is never overrun and what is announced is what is sent. *)
(***************************************************************************)
EXTENDS ServiceResponses, SequenceTheorems, TLAPS

\* The frames of a length are just enough for it.
LEMMA FrameCount ==
    ASSUME NEW n \in Nat \ {0}
    PROVE  /\ FramesOf(n) \in Nat \ {0}
           /\ MaxLine * (FramesOf(n) - 1) < n
           /\ n <= MaxLine * FramesOf(n)
<1> DEFINE q == n \div MaxLine
           r == n % MaxLine
<1>1. MaxLine \in Nat \ {0}
    BY FrameAssumption, ResponseAssumption
<1>2. q \in Nat /\ r \in 0..(MaxLine - 1) /\ n = MaxLine * q + r
    BY <1>1
<1>3. FramesOf(n) = IF r = 0 THEN q ELSE q + 1
    BY DEF FramesOf
<1> HIDE DEF q, r
<1>4. CASE r = 0
  <2>1. q # 0
    BY <1>1, <1>2, <1>4
  <2>2. MaxLine * (q - 1) = MaxLine * q - MaxLine
    BY <1>1, <1>2
  <2> QED BY <1>1, <1>2, <1>3, <1>4, <2>1, <2>2
<1>5. CASE r # 0
  <2>1. MaxLine * (q + 1) = MaxLine * q + MaxLine
    BY <1>1, <1>2
  <2> QED BY <1>1, <1>2, <1>3, <1>5, <2>1
<1> QED BY <1>4, <1>5

\* As many frames as the agent takes are enough for a full response.
LEMMA FramesForAgent ==
    ASSUME NEW n \in Nat \ {0}, n <= ResponseSizeMax
    PROVE  FramesOf(n) <= AgentFramesMax
<1> DEFINE F == FramesOf(n)
<1>1. F \in Nat \ {0} /\ MaxLine * (F - 1) < n
    BY FrameCount
<1>2. MaxLine * (F - 1) < MaxLine * AgentFramesMax
    BY <1>1, FrameAssumption, ResponseAssumption
<1> HIDE DEF F
<1>3. F - 1 < AgentFramesMax
    BY <1>1, <1>2, FrameAssumption
<1> QED BY <1>1, <1>3, FrameAssumption DEF F

\* The calls under way without the latest one.
LEMMA CallersType ==
    ASSUME walk \in Seq(Calls), walk # <<>>
    PROVE  /\ Callers \in Seq(Calls) /\ Len(Callers) = Len(walk) - 1
           /\ Latest \in Calls
<1>1. Len(walk) \in Nat \ {0}
    BY EmptySeq, LenProperties
<1>2. \A i \in 1..Len(walk) : walk[i] \in Calls
    BY <1>1, ElementOfSeq
<1>3. Latest \in Calls
    BY <1>1, <1>2 DEF Latest
<1> DEFINE n == Len(walk) - 1
<1>4. n \in Nat /\ n <= Len(walk)
    BY <1>1
<1>5. Callers = SubSeq(walk, 1, n)
    BY DEF Callers
<1> HIDE DEF n
<1>6. Callers \in Seq(Calls) /\ Len(Callers) = n
  <2>1. Callers = [i \in 1..n |-> walk[i]]
    BY <1>1, <1>4, <1>5, SubSeqProperties
  <2>2. \A i \in 1..n : walk[i] \in Calls
    BY <1>1, <1>2, <1>4
  <2>3. Callers \in [1..n -> Calls]
    BY <2>1, <2>2
  <2> QED BY <1>4, <2>3, SeqDef, LenProperties
<1> QED BY <1>3, <1>6 DEF n

\* The calls under way when the latest one has dealt with an entry.
LEMMA WithoutType ==
    ASSUME walk \in Seq(Calls), walk # <<>>, NEW e
    PROVE  /\ Without(e) \in Seq(Calls) /\ Len(Without(e)) = Len(walk)
           /\ Without(e) # <<>>
<1>1. /\ Callers \in Seq(Calls) /\ Len(Callers) = Len(walk) - 1
      /\ Latest \in Calls /\ Len(walk) \in Nat \ {0}
    BY CallersType, EmptySeq, LenProperties
<1> DEFINE call == [dir |-> Latest.dir, left |-> Latest.left \ {e}]
<1>2. call \in Calls
    BY <1>1 DEF Calls
<1>3. Without(e) = Append(Callers, call)
    BY DEF Without
<1> HIDE DEF call
<1> QED BY <1>1, <1>2, <1>3, AppendProperties

\* A call of get_ModifiedFiles on a directory.
LEMMA CallScanType ==
    ASSUME TypeOK, NEW calls \in Seq(Calls), NEW d \in Dirs, Len(calls) <= streams,
           CallScan(calls, d)
    PROVE  /\ walk' \in Seq(Calls) /\ streams' \in Nat /\ Len(walk') <= streams'
           /\ \/ pc' = "walk" /\ walk' # <<>>
              \/ pc' = "returned"
<1> DEFINE call == [dir |-> d, left |-> Entries[d]]
<1>1. call \in Calls
    BY DEF Calls, AllEntries, Dirs
<1>2. /\ \/ walk' = Append(calls, call) /\ streams' = streams + 1 /\ pc' = "walk"
         \/ walk' = calls /\ pc' = "returned" /\ streams' = streams
      /\ streams \in Nat /\ Len(calls) \in Nat
    BY LenProperties DEF CallScan, TypeOK
<1> HIDE DEF call
<1>3. /\ Append(calls, call) \in Seq(Calls) /\ Append(calls, call) # <<>>
      /\ Len(Append(calls, call)) = Len(calls) + 1
    BY <1>1, AppendProperties
<1>4. CASE walk' = Append(calls, call) /\ streams' = streams + 1 /\ pc' = "walk"
  <2>1. Len(walk') = Len(calls) + 1
    BY <1>3, <1>4
  <2> QED BY <1>2, <1>3, <1>4, <2>1
<1>5. CASE walk' = calls /\ pc' = "returned" /\ streams' = streams
    BY <1>2, <1>5
<1> QED BY <1>2, <1>4, <1>5

-----------------------------------------------------------------------------
(* The invariant. *)

LEMMA InitialState == Init => IndInv
<1> SUFFICES ASSUME Init PROVE IndInv
    OBVIOUS
<1>1. walk = <<>> /\ Len(walk) = 0 /\ ids = <<>> /\ Len(ids) = 0
      /\ walk \in Seq(Calls) /\ ids \in Seq(Files)
    BY EmptySeq DEF Init
<1>2. TypeOK
    BY <1>1, ResponseAssumption DEF Init, TypeOK, PcStates
<1> QED BY <1>1, <1>2, ResponseAssumption, FrameAssumption
        DEF Init, IndInv, ScanInv, SendInv, ResponseFits, FramesAddUp, IdsFit, Full

LEMMA RequestStep ==
    ASSUME IndInv, NEW changed \in SUBSET Files, ReportChanges(changed)
    PROVE  IndInv'
<1>1. /\ service' = "report" /\ newer' \subseteq Files
      /\ ids' = <<>> /\ ids' \in Seq(Files) /\ Len(ids') = 0
      /\ index_resp' = HeaderLen /\ UNCHANGED frameVars
    BY EmptySeq DEF ReportChanges
<1>2. /\ walk' \in Seq(Calls) /\ streams' \in Nat /\ Len(walk') <= streams'
      /\ \/ pc' = "walk" /\ walk' # <<>>
         \/ pc' = "returned"
  <2>1. <<>> \in Seq(Calls) /\ Len(<<>>) <= streams
    BY EmptySeq DEF IndInv, TypeOK
  <2> QED BY <2>1, CallScanType, TreeAssumption DEF IndInv, ReportChanges
<1>3. TypeOK'
    BY <1>1, <1>2, ResponseAssumption DEF IndInv, TypeOK, PcStates, frameVars
<1> QED BY <1>1, <1>2, <1>3, ResponseAssumption
        DEF IndInv, ScanInv, SendInv, ResponseFits, FramesAddUp, IdsFit, Full, frameVars

LEMMA ScanFileStep ==
    ASSUME IndInv, NEW f \in Files, ScanFile(f)
    PROVE  IndInv'
<1>1. /\ pc = "walk" /\ walk # <<>> /\ ~ Full(index_resp)
      /\ index_resp = HeaderLen + IdLen * Len(ids)
      /\ walk \in Seq(Calls) /\ ids \in Seq(Files) /\ Len(ids) \in Nat
      /\ Len(walk) \in Nat /\ Len(walk) <= streams
      /\ UNCHANGED <<service, newer, frameVars, streams>> /\ streams' = streams
    BY LenProperties DEF ScanFile, IndInv, TypeOK, ScanInv
<1>2. CASE f \in newer /\ Latest.dir # Root
  <2>1. /\ ids' \in Seq(Files) /\ Len(ids') = Len(ids) + 1
        /\ index_resp' = index_resp + IdLen
    BY <1>1, <1>2, AppendProperties DEF ScanFile
  <2>2. index_resp' = HeaderLen + IdLen * Len(ids') /\ index_resp' \in Nat
    BY <1>1, <2>1, ResponseAssumption
  <2>3. index_resp' + EndLen <= ResponseSizeMax
    BY <1>1, <2>1, ResponseAssumption DEF Full
  <2>4. \/ pc' = "returned" /\ walk' = Callers
        \/ pc' = "walk" /\ walk' = Without(f) /\ ~ Full(index_resp')
    BY <1>1, <1>2 DEF ScanFile
  <2>5. /\ walk' \in Seq(Calls) /\ Len(walk') <= streams'
        /\ pc' = "walk" => walk' # <<>>
    <3>1. CASE pc' = "returned" /\ walk' = Callers
      <4>1. walk' \in Seq(Calls) /\ Len(walk') = Len(walk) - 1
        BY <1>1, <3>1, CallersType
      <4>2. Len(walk) - 1 <= streams
        BY <1>1 DEF IndInv, TypeOK
      <4> QED BY <1>1, <3>1, <4>1, <4>2
    <3>2. CASE pc' = "walk" /\ walk' = Without(f)
      <4>1. walk' \in Seq(Calls) /\ Len(walk') = Len(walk) /\ walk' # <<>>
        BY <1>1, <3>2, WithoutType
      <4> QED BY <1>1, <4>1
    <3> QED BY <2>4, <3>1, <3>2
  <2>6. TypeOK'
    BY <1>1, <2>1, <2>2, <2>4, <2>5 DEF IndInv, TypeOK, PcStates, frameVars
  <2> QED BY <1>1, <2>1, <2>2, <2>3, <2>4, <2>5, <2>6
          DEF IndInv, ScanInv, SendInv, ResponseFits, FramesAddUp, IdsFit, frameVars
<1>3. CASE ~ (f \in newer /\ Latest.dir # Root)
  <2>1. walk' = Without(f) /\ UNCHANGED <<pc, ids, index_resp>>
    BY <1>1, <1>3 DEF ScanFile
  <2>2. walk' \in Seq(Calls) /\ Len(walk') = Len(walk) /\ walk' # <<>>
    BY <1>1, <2>1, WithoutType
  <2> QED BY <1>1, <2>1, <2>2
          DEF IndInv, TypeOK, ScanInv, SendInv, ResponseFits, FramesAddUp, IdsFit,
              Full, frameVars
<1> QED BY <1>2, <1>3

LEMMA ScanDirectoryStep ==
    ASSUME IndInv, NEW d \in Dirs, ScanDirectory(d)
    PROVE  IndInv'
<1>1. /\ pc = "walk" /\ walk # <<>> /\ ~ Full(index_resp)
      /\ walk \in Seq(Calls) /\ Len(walk) <= streams
      /\ UNCHANGED <<service, newer, ids, index_resp, frameVars>>
    BY DEF ScanDirectory, IndInv, TypeOK, ScanInv
<1>2. Without(d) \in Seq(Calls) /\ Len(Without(d)) <= streams
    BY <1>1, WithoutType
<1>3. /\ walk' \in Seq(Calls) /\ streams' \in Nat /\ Len(walk') <= streams'
      /\ \/ pc' = "walk" /\ walk' # <<>>
         \/ pc' = "returned"
    BY <1>2, CallScanType DEF ScanDirectory, IndInv
<1> QED BY <1>1, <1>3
        DEF IndInv, TypeOK, PcStates, ScanInv, SendInv, ResponseFits, FramesAddUp,
            IdsFit, Full, frameVars

LEMMA ReturnStep ==
    ASSUME IndInv, CloseDirectory \/ CallReturned
    PROVE  IndInv'
<1>1. CASE CloseDirectory
  <2>1. /\ pc = "walk" /\ walk # <<>> /\ walk \in Seq(Calls)
        /\ Len(walk) \in Nat /\ Len(walk) <= streams /\ streams \in Nat
        /\ walk' = Callers /\ streams' = streams - 1 /\ pc' = "returned"
        /\ UNCHANGED <<service, newer, ids, index_resp, frameVars>>
    BY <1>1, LenProperties DEF CloseDirectory, IndInv, TypeOK, ScanInv
  <2>2. walk' \in Seq(Calls) /\ Len(walk') = Len(walk) - 1 /\ Len(walk) # 0
    BY <2>1, CallersType, EmptySeq
  <2> QED BY <2>1, <2>2
          DEF IndInv, TypeOK, PcStates, ScanInv, SendInv, ResponseFits, FramesAddUp,
              IdsFit, frameVars
<1>2. CASE CallReturned
  <2>1. /\ pc = "returned" /\ walk \in Seq(Calls) /\ Len(walk) \in Nat
        /\ Len(walk) <= streams /\ streams \in Nat
        /\ UNCHANGED <<service, newer, ids, index_resp, frameVars, streams>>
        /\ \/ walk = <<>> /\ walk' = walk /\ pc' = "build"
           \/ walk # <<>> /\ walk' = Callers /\ pc' = "returned"
           \/ walk # <<>> /\ walk' = walk /\ pc' = "walk" /\ ~ Full(index_resp)
    BY <1>2, LenProperties DEF CallReturned, StopsToo, IndInv, TypeOK, ScanInv
  <2>2. walk' \in Seq(Calls) /\ Len(walk') <= streams
    BY <2>1, CallersType
  <2> QED BY <2>1, <2>2
          DEF IndInv, TypeOK, PcStates, ScanInv, SendInv, ResponseFits, FramesAddUp,
              IdsFit, Full, frameVars
<1> QED BY <1>1, <1>2

LEMMA GetPageStep ==
    ASSUME IndInv, NEW size \in Sizes, GetPage(size)
    PROVE  IndInv'
<1>1. /\ size \in Nat /\ HeaderLen + IdLen + size + EndLen <= ResponseSizeMax
    BY PageAssumption, ResponseAssumption
<1>2. /\ pc = "idle" /\ service' = "page" /\ UNCHANGED <<scanVars, frameVars>>
      /\ pc' \in {"build", "crashed"}
      /\ streams' \in {streams, streams + 1}
      /\ index_resp' \in {index_resp, HeaderLen, HeaderLen + IdLen + size}
    BY DEF GetPage
<1>3. index_resp' \in Nat /\ index_resp' + EndLen <= ResponseSizeMax
  <2>1. index_resp \in Nat /\ index_resp + EndLen <= ResponseSizeMax
    BY DEF IndInv, TypeOK, ResponseFits
  <2>2. \/ index_resp' = index_resp
        \/ index_resp' = HeaderLen
        \/ index_resp' = HeaderLen + IdLen + size
    BY <1>2
  <2> HIDE DEF IndInv
  <2> QED BY <1>1, <2>1, <2>2, ResponseAssumption
<1>4. walk' = <<>> /\ Len(walk') <= streams' /\ streams' \in Nat
    BY <1>2 DEF IndInv, TypeOK, ScanInv, scanVars
<1> QED BY <1>2, <1>3, <1>4
        DEF IndInv, TypeOK, PcStates, ScanInv, SendInv, ResponseFits, FramesAddUp,
            IdsFit, scanVars, frameVars

LEMMA EmptyResponseStep ==
    ASSUME IndInv, SendEmptyResponse
    PROVE  IndInv'
<1>1. AgentFramesMax >= 1
    BY FrameAssumption, ResponseAssumption
<1> QED BY <1>1, ResponseAssumption
        DEF SendEmptyResponse, IndInv, TypeOK, PcStates, ScanInv, SendInv,
            ResponseFits, FramesAddUp, IdsFit, scanVars

LEMMA StartFramesStep ==
    ASSUME IndInv, StartFrames
    PROVE  IndInv'
<1> DEFINE n == index_resp + EndLen
           F == FramesOf(n)
<1>1. n \in Nat \ {0} /\ n <= ResponseSizeMax
    BY ResponseAssumption DEF IndInv, TypeOK, ResponseFits
<1>2. /\ F \in Nat \ {0} /\ MaxLine * (F - 1) < n /\ n <= MaxLine * F
      /\ F <= AgentFramesMax
    BY <1>1, FrameCount, FramesForAgent
<1>3. /\ current_length' = n /\ total_frames' = F /\ index' = 0 /\ frames' = 0
      /\ pc = "build" /\ pc' = "send"
      /\ UNCHANGED <<service, scanVars, index_resp, streams>>
    BY DEF StartFrames
<1> HIDE DEF F
<1>4. F - 0 = F
    BY <1>2
<1>5. SendInv'
    BY <1>2, <1>3, <1>4 DEF SendInv, FramesLeft
<1> QED BY <1>1, <1>2, <1>3, <1>5
        DEF IndInv, TypeOK, PcStates, ScanInv, ResponseFits, FramesAddUp, IdsFit, scanVars

LEMMA SendFrameStep ==
    ASSUME IndInv, SendFrame
    PROVE  IndInv'
<1> DEFINE size == FrameSize(current_length)
           L == FramesLeft
<1>1. /\ pc = "send" /\ frames < total_frames /\ L \in Nat \ {0}
      /\ MaxLine * (L - 1) < current_length /\ current_length <= MaxLine * L
      /\ current_length > 0 /\ index + current_length = index_resp + EndLen
      /\ current_length \in Nat /\ index \in Nat /\ MaxLine \in Nat
    BY FrameAssumption DEF SendFrame, IndInv, TypeOK, SendInv, FramesAddUp, FramesLeft
<1>2. /\ index' = index + size /\ current_length' = current_length - size
      /\ frames' = frames + 1
      /\ UNCHANGED <<service, scanVars, total_frames, streams>>
      /\ IF frames' < total_frames
           THEN UNCHANGED <<pc, index_resp>>
           ELSE pc' = "idle" /\ index_resp' = HeaderLen
    BY DEF SendFrame
<1>3. /\ size \in Nat /\ size <= current_length
      /\ IF current_length <= MaxLine THEN size = current_length ELSE size = MaxLine
    BY <1>1 DEF FrameSize
<1>4. FramesLeft' = L - 1
    BY <1>2 DEF FramesLeft, IndInv, TypeOK
<1> HIDE DEF size, L
<1>5. CASE L = 1
  <2>1. current_length <= MaxLine /\ size = current_length /\ current_length' = 0
    BY <1>1, <1>2, <1>3, <1>5
  <2>2. ~ (frames' < total_frames)
    BY <1>2, <1>5 DEF L, FramesLeft, IndInv, TypeOK
  <2> QED BY <1>1, <1>2, <1>3, <2>1, <2>2, ResponseAssumption
          DEF IndInv, TypeOK, PcStates, ScanInv, SendInv, ResponseFits, FramesAddUp,
              IdsFit, scanVars
<1>6. CASE L # 1
  <2>1. /\ MaxLine * (L - 1) = MaxLine * (L - 2) + MaxLine
        /\ MaxLine * L = MaxLine * (L - 1) + MaxLine
        /\ MaxLine * (L - 2) >= 0
    BY <1>1, <1>6
  <2>2. current_length > MaxLine /\ size = MaxLine
    BY <1>1, <1>3, <2>1
  <2>3. /\ MaxLine * ((L - 1) - 1) < current_length'
        /\ current_length' <= MaxLine * (L - 1)
    BY <1>1, <1>2, <2>1, <2>2
  <2>4. frames' < total_frames
    BY <1>1, <1>2, <1>6 DEF L, FramesLeft, IndInv, TypeOK
  <2>5. /\ MaxLine * (FramesLeft' - 1) < current_length'
        /\ current_length' <= MaxLine * FramesLeft'
    BY ONLY <1>4, <2>3
  <2>6. SendInv'
    BY <1>2, <2>4, <2>5 DEF SendInv
  <2> QED BY <1>1, <1>2, <1>3, <2>2, <2>4, <2>6
          DEF IndInv, TypeOK, PcStates, ScanInv, ResponseFits, FramesAddUp,
              IdsFit, scanVars
<1> QED BY <1>5, <1>6

LEMMA StutterStep ==
    ASSUME IndInv, UNCHANGED vars
    PROVE  IndInv'
BY DEF IndInv, TypeOK, ScanInv, SendInv, FramesLeft, ResponseFits, FramesAddUp,
       IdsFit, Full, vars, scanVars, frameVars

-----------------------------------------------------------------------------
LEMMA InductiveInvariant == Spec => []IndInv
<1>1. IndInv /\ [Next]_vars => IndInv'
    BY RequestStep, ScanFileStep, ScanDirectoryStep, ReturnStep, GetPageStep,
       EmptyResponseStep, StartFramesStep, SendFrameStep, StutterStep DEF Next
<1> QED BY InitialState, <1>1, PTL DEF Spec

\* The ids, the page and the end bytes always fit the response buffer.
THEOREM BufferNeverOverrun == Spec => []ResponseFits
<1>1. IndInv => ResponseFits
    BY DEF IndInv
<1> QED BY InductiveInvariant, <1>1, PTL

\* The frames announced are the frames sent, and they carry the whole response.
THEOREM AnnouncedIsSent == Spec => []FramesAddUp
<1>1. IndInv => FramesAddUp
    BY DEF IndInv
<1> QED BY InductiveInvariant, <1>1, PTL

\* The agent's limits admit every response.
THEOREM AgentTakesEveryResponse == Spec => []AgentTakesIt
<1>1. ASSUME IndInv PROVE AgentTakesIt
  <2>1. Len(ids) \in Nat /\ IdLen * Len(ids) < IdLen * (FilesCountMax + 1)
    BY <1>1, LenProperties, ResponseAssumption, FrameAssumption
       DEF IndInv, TypeOK, ScanInv, IdsFit
  <2>2. Len(ids) < FilesCountMax + 1
    BY <2>1, ResponseAssumption, FrameAssumption
  <2> QED BY <1>1, <2>1, <2>2, FrameAssumption DEF IndInv, AgentTakesIt
<1> QED BY InductiveInvariant, <1>1, PTL

\* Every variable has its type.
THEOREM TypesHold == Spec => []TypeOK
<1>1. IndInv => TypeOK
    BY DEF IndInv
<1> QED BY InductiveInvariant, <1>1, PTL

-----------------------------------------------------------------------------
(* The streams, and what a report leaves out. *)

Named == {ids[i] : i \in DOMAIN ids}

\* What a call more adds to what is pending, and where it stands in the tree.
LEMMA OneCallMore ==
    ASSUME NEW calls \in Seq(Calls), NEW call \in Calls
    PROVE  /\ PendingIn(Append(calls, call)) = PendingIn(calls) \cup Pending(call)
           /\ Descends(Append(calls, call)) <=>
                /\ Descends(calls)
                /\ Depth[call.dir] = Len(calls) + 1
                /\ call.left \subseteq Entries[call.dir]
<1> DEFINE more == Append(calls, call)
           n == Len(calls)
<1>1. n \in Nat /\ DOMAIN calls = 1..n
    BY LenProperties
<1>2. /\ DOMAIN more = 1..(n + 1) /\ more[n + 1] = call
      /\ \A i \in 1..n : more[i] = calls[i]
    BY <1>1, AppendProperties
<1>3. DOMAIN more = DOMAIN calls \cup {n + 1}
    BY <1>1, <1>2
<1> HIDE DEF more
<1>4. PendingIn(more) = PendingIn(calls) \cup Pending(call)
    BY <1>1, <1>2, <1>3 DEF PendingIn
<1>5. Descends(more) <=> /\ Descends(calls)
                         /\ Depth[call.dir] = n + 1
                         /\ call.left \subseteq Entries[call.dir]
    BY <1>1, <1>2, <1>3 DEF Descends
<1> QED BY <1>4, <1>5 DEF more

\* The calls under way are the callers and the latest one.
LEMMA LatestIsLast ==
    ASSUME walk \in Seq(Calls), walk # <<>>
    PROVE  walk = Append(Callers, Latest)
<1> DEFINE n == Len(walk)
           again == Append(Callers, Latest)
<1>1. n \in Nat \ {0}
    BY EmptySeq
<1>2. Callers \in Seq(Calls) /\ Latest \in Calls /\ Len(Callers) = n - 1
    BY CallersType
<1>3. \A i \in 1..(n - 1) : Callers[i] = walk[i]
    <2>1. \A i \in 1..(n - 1) : walk[i] \in Calls
        BY <1>1, ElementOfSeq
    <2> QED BY <1>1, <2>1, SubSeqProperties DEF Callers
<1>4. Latest = walk[n]
    BY DEF Latest
<1> HIDE DEF n
<1>5. /\ again \in Seq(Calls) /\ Len(again) = n
      /\ \A i \in 1..(n - 1) : again[i] = walk[i]
      /\ again[n] = walk[n]
    BY <1>1, <1>2, <1>3, <1>4, AppendProperties
<1> HIDE DEF again
<1>6. \A i \in 1..n : again[i] = walk[i]
    BY <1>1, <1>5
<1>7. again = walk
    BY <1>5, <1>6, SeqEqual DEF n
<1> QED BY <1>7 DEF again

\* What is pending in a walk is pending in its callers or in its latest call.
LEMMA PendingSplits ==
    ASSUME IndInv, LevelInv, walk # <<>>
    PROVE  /\ PendingIn(walk) = PendingIn(Callers) \cup Pending(Latest)
           /\ Descends(Callers) /\ Depth[Latest.dir] = Len(walk)
           /\ Latest.left \subseteq Entries[Latest.dir] /\ Latest \in Calls
           /\ Callers \in Seq(Calls) /\ Len(Callers) = Len(walk) - 1
           /\ Len(walk) \in Nat \ {0}
<1>1. walk \in Seq(Calls)
    BY DEF IndInv, TypeOK
<1>2. /\ Callers \in Seq(Calls) /\ Len(Callers) = Len(walk) - 1 /\ Latest \in Calls
      /\ walk = Append(Callers, Latest) /\ Len(walk) \in Nat \ {0}
    BY <1>1, CallersType, LatestIsLast, EmptySeq, LenProperties
<1>3. Descends(Append(Callers, Latest))
    BY <1>2 DEF LevelInv
<1>4. PendingIn(walk) = PendingIn(Callers) \cup Pending(Latest)
    BY <1>2, OneCallMore
<1>5. /\ Descends(Callers) /\ Depth[Latest.dir] = Len(Callers) + 1
      /\ Latest.left \subseteq Entries[Latest.dir]
    BY <1>2, <1>3, OneCallMore
<1> QED BY <1>2, <1>4, <1>5

\* The same of a walk whose latest call is done with an entry.
LEMMA WithoutSplits ==
    ASSUME IndInv, LevelInv, walk # <<>>, NEW e
    PROVE  /\ PendingIn(Without(e)) =
                PendingIn(Callers) \cup Pending([dir |-> Latest.dir, left |-> Latest.left \ {e}])
           /\ Descends(Without(e)) /\ Without(e) \in Seq(Calls)
           /\ Len(Without(e)) = Len(walk)
<1> DEFINE call == [dir |-> Latest.dir, left |-> Latest.left \ {e}]
<1>1. call \in Calls /\ call.dir = Latest.dir /\ call.left \subseteq Latest.left
    BY PendingSplits DEF Calls
<1>2. Without(e) = Append(Callers, call)
    BY DEF Without
<1>3. Without(e) \in Seq(Calls) /\ Len(Without(e)) = Len(walk)
    BY WithoutType DEF IndInv, TypeOK
<1> HIDE DEF call
<1>4. Descends(Append(Callers, call))
    BY <1>1, PendingSplits, OneCallMore
<1>5. PendingIn(Append(Callers, call)) = PendingIn(Callers) \cup Pending(call)
    BY <1>1, PendingSplits, OneCallMore
<1> QED BY <1>2, <1>3, <1>4, <1>5 DEF call

\* An empty walk has nothing pending.
LEMMA NothingPending == PendingIn(<<>>) = {} /\ Descends(<<>>)
BY DEF PendingIn, Descends

-----------------------------------------------------------------------------
\* A call that finds a stream stands one level deeper; one that does not means
\* that too many streams have leaked.
LEMMA CallScanCovers ==
    ASSUME TypeOK, NEW calls \in Seq(Calls), NEW d \in Dirs, CallScan(calls, d),
           Descends(calls), Depth[d] = Len(calls) + 1
    PROVE  /\ Descends(walk')
           /\ streams' - Len(walk') = streams - Len(calls)
           /\ \/ PendingIn(walk') =
                    PendingIn(calls) \cup Pending([dir |-> d, left |-> Entries[d]])
              \/ (streams' - Len(walk')) + DepthMax > StreamsMax
<1> DEFINE call == [dir |-> d, left |-> Entries[d]]
<1>1. call \in Calls /\ call.dir = d /\ call.left = Entries[d]
    BY DEF Calls, AllEntries, Dirs
<1>2. streams \in Nat /\ Len(calls) \in Nat
    BY LenProperties DEF TypeOK
<1>3. CASE walk' = Append(calls, call) /\ streams' = streams + 1
    <2> HIDE DEF call
    <2>1. Len(walk') = Len(calls) + 1
        BY <1>1, <1>3, AppendProperties
    <2>2. Descends(walk') /\ PendingIn(walk') = PendingIn(calls) \cup Pending(call)
        BY <1>1, <1>3, OneCallMore
    <2> QED BY <1>2, <1>3, <2>1, <2>2 DEF call
<1>4. CASE walk' = calls /\ streams' = streams /\ ~ (streams < StreamsMax)
    <2>1. Len(calls) + 1 <= DepthMax /\ DepthMax \in Nat
        BY DepthAssumption
    <2>2. (streams - Len(calls)) + DepthMax > StreamsMax
        BY <1>2, <1>4, <2>1, StreamsAssumption
    <2> QED BY <1>4, <2>2
<1> QED BY <1>3, <1>4 DEF CallScan

\* All that there is below the root is pending in a call on the root.
LEMMA RootPending == Pending([dir |-> Root, left |-> Entries[Root]]) = BelowRoot
BY DEF Pending, BelowRoot

\* All that there is below another directory is pending in a call on it.
LEMMA DirectoryPending ==
    ASSUME NEW d \in Dirs, d # Root
    PROVE  Pending([dir |-> d, left |-> Entries[d]]) = Under[d]
BY UnderAssumption DEF Pending

\* What the callers and the steps of a scan keep.
WalkInv == IndInv /\ LevelInv /\ CoverInv

LEMMA InitialWalk == Init => LevelInv /\ CoverInv
BY NothingPending DEF Init, LevelInv, CoverInv, ReportBuilt

LEMMA RequestCovers ==
    ASSUME WalkInv, NEW changed \in SUBSET Files, ReportChanges(changed)
    PROVE  LevelInv' /\ CoverInv' /\ Leaked' = Leaked
<1>1. /\ walk = <<>> /\ Len(walk) = 0 /\ <<>> \in Seq(Calls)
      /\ service' = "report" /\ TypeOK /\ CallScan(<<>>, Root)
    BY EmptySeq DEF ReportChanges, WalkInv, IndInv, ScanInv
<1>2. /\ Descends(walk') /\ streams' - Len(walk') = streams - Len(walk)
      /\ \/ PendingIn(walk') = BelowRoot
         \/ (streams' - Len(walk')) + DepthMax > StreamsMax
    <2>1. Descends(<<>>) /\ Depth[Root] = Len(<<>>) + 1
        BY <1>1, NothingPending, DepthAssumption
    <2>2. PendingIn(<<>>) \cup Pending([dir |-> Root, left |-> Entries[Root]]) = BelowRoot
        BY NothingPending, RootPending
    <2> HIDE DEF WalkInv, LevelInv, CoverInv
    <2> QED BY <1>1, <2>1, <2>2, CallScanCovers, TreeAssumption
<1> QED BY <1>1, <1>2 DEF LevelInv, CoverInv, Hampered, Leaked

LEMMA ScanFileCovers ==
    ASSUME WalkInv, NEW f \in Files, ScanFile(f)
    PROVE  /\ LevelInv' /\ CoverInv'
           /\ Leaked' = Leaked \/ (Leaked' = Leaked + 1 /\ Full(index_resp'))
<1>1. /\ pc = "walk" /\ walk # <<>> /\ service = "report" /\ service' = service
      /\ newer' = newer /\ streams' = streams /\ streams \in Nat
      /\ IndInv /\ LevelInv
    BY DEF ScanFile, WalkInv, IndInv, TypeOK, ScanInv, LevelInv
<1>2. CASE f \in newer /\ Latest.dir # Root /\ Full(index_resp')
    <2>1. walk' = Callers /\ pc' = "returned"
        BY <1>2 DEF ScanFile
    <2>2. Descends(Callers) /\ Len(Callers) = Len(walk) - 1 /\ Len(walk) \in Nat
        BY <1>1, PendingSplits
    <2>3. Leaked' = Leaked + 1
        BY <1>1, <2>1, <2>2 DEF Leaked
    <2> QED BY <1>1, <1>2, <2>1, <2>2, <2>3 DEF LevelInv, CoverInv, Hampered, Full
<1>3. CASE ~ (f \in newer /\ Latest.dir # Root /\ Full(index_resp'))
    <2>1. walk' = Without(f) /\ pc' = "walk"
        BY <1>1, <1>3 DEF ScanFile
    <2>2. /\ Descends(walk') /\ Len(walk') = Len(walk)
          /\ PendingIn(walk') = PendingIn(Callers)
                \cup Pending([dir |-> Latest.dir, left |-> Latest.left \ {f}])
          /\ PendingIn(walk) = PendingIn(Callers) \cup Pending(Latest)
        BY <1>1, <2>1, WithoutSplits, PendingSplits
    <2>3. Leaked' = Leaked
        BY <1>1, <2>2 DEF Leaked
    <2>4. f \notin Dirs
        BY DEF Files
    <2>5. Pending(Latest) \subseteq {f} \cup
                Pending([dir |-> Latest.dir, left |-> Latest.left \ {f}])
        BY <2>4 DEF Pending
    <2>6. f \notin newer \/ Latest.dir = Root =>
            Pending(Latest) \cap newer \subseteq
                Pending([dir |-> Latest.dir, left |-> Latest.left \ {f}])
        BY <2>4 DEF Pending
    <2>7. CASE f \notin newer \/ Latest.dir = Root
        <3>1. UNCHANGED <<ids, index_resp>>
            BY <2>7 DEF ScanFile
        <3> QED BY <1>1, <2>1, <2>2, <2>3, <2>6, <2>7, <3>1
                DEF WalkInv, LevelInv, CoverInv, Hampered, Full
    <2>8. CASE f \in newer /\ Latest.dir # Root
        <3>1. ids' = Append(ids, f) /\ index_resp' = index_resp + IdLen
            BY <2>8 DEF ScanFile
        <3>2. ids \in Seq(Files) /\ index_resp \in Nat
            BY <1>1 DEF IndInv, TypeOK
        <3>3. /\ Len(ids) \in Nat /\ DOMAIN ids = 1..Len(ids)
              /\ DOMAIN ids' = 1..(Len(ids) + 1) /\ ids'[Len(ids) + 1] = f
              /\ \A i \in 1..Len(ids) : ids'[i] = ids[i]
            BY <3>1, <3>2, LenProperties, AppendProperties
        <3>4. Named \cup {f} \subseteq Named'
            <4>1. SUFFICES ASSUME NEW x \in Named \cup {f} PROVE x \in Named'
                OBVIOUS
            <4>2. CASE x = f
                BY <3>3, <4>2 DEF Named
            <4>3. CASE x \in Named
                <5>1. PICK i \in 1..Len(ids) : x = ids[i]
                    BY <3>3, <4>3 DEF Named
                <5>2. i \in DOMAIN ids' /\ ids'[i] = x
                    BY <3>3, <5>1
                <5> QED BY <5>2 DEF Named
            <4> QED BY <4>1, <4>2, <4>3
        <3>5. Hampered => Hampered'
            BY <2>3, <3>1, <3>2, ResponseAssumption DEF Hampered, Full
        <3>6. Hampered \/ newer \cap BelowRoot \subseteq Named \cup PendingIn(walk)
            BY <1>1 DEF WalkInv, CoverInv, Named
        <3>7. Hampered' \/ newer \cap BelowRoot \subseteq Named' \cup PendingIn(walk')
            BY <2>2, <2>5, <3>4, <3>5, <3>6
        <3> QED BY <1>1, <2>1, <2>2, <2>3, <3>7 DEF LevelInv, CoverInv, Named
    <2> QED BY <2>7, <2>8
<1> QED BY <1>2, <1>3

LEMMA ScanDirectoryCovers ==
    ASSUME WalkInv, NEW d \in Dirs, ScanDirectory(d)
    PROVE  LevelInv' /\ CoverInv' /\ Leaked' = Leaked
<1>1. /\ pc = "walk" /\ walk # <<>> /\ service = "report"
      /\ UNCHANGED <<service, newer, ids, index_resp>>
      /\ IndInv /\ LevelInv /\ TypeOK /\ CallScan(Without(d), d)
      /\ d \in Latest.left
    BY DEF ScanDirectory, WalkInv, IndInv, ScanInv, LevelInv
<1> DEFINE rest == [dir |-> Latest.dir, left |-> Latest.left \ {d}]
<1>2. /\ Descends(Without(d)) /\ Len(Without(d)) = Len(walk) /\ Without(d) \in Seq(Calls)
      /\ PendingIn(Without(d)) = PendingIn(Callers) \cup Pending(rest)
      /\ PendingIn(walk) = PendingIn(Callers) \cup Pending(Latest)
      /\ Depth[Latest.dir] = Len(walk) /\ Len(walk) \in Nat \ {0}
      /\ Latest.left \subseteq Entries[Latest.dir] /\ Latest.dir \in Dirs
    BY <1>1, WithoutSplits, PendingSplits DEF Calls
<1>3. Depth[d] = Len(walk) + 1 /\ d # Root
    <2>1. d \in Entries[Latest.dir] \cap Dirs
        BY <1>1, <1>2
    <2>2. Depth[d] = Depth[Latest.dir] + 1
        BY <1>2, <2>1, DepthAssumption
    <2> QED BY <1>2, <2>2, DepthAssumption
<1>4. /\ Descends(walk') /\ streams' - Len(walk') = streams - Len(walk)
      /\ \/ PendingIn(walk') = PendingIn(Without(d)) \cup Under[d]
         \/ (streams' - Len(walk')) + DepthMax > StreamsMax
    BY <1>1, <1>2, <1>3, CallScanCovers, DirectoryPending
<1>5. Pending(Latest) \subseteq Pending(rest) \cup Under[d]
    <2>1. d \notin Files
        BY DEF Files
    <2> QED BY <2>1 DEF Pending
<1>6. pc' \in {"walk", "returned"}
    BY <1>1 DEF CallScan
<1> HIDE DEF rest
<1>7. Leaked' = Leaked
    BY <1>4 DEF Leaked
<1>8. (Hampered => Hampered') /\ (Leaked' + DepthMax > StreamsMax => Hampered')
    BY <1>1, <1>7 DEF Hampered, Full
<1>9. Hampered' \/ newer \cap BelowRoot \subseteq Named \cup PendingIn(walk')
    BY <1>1, <1>2, <1>4, <1>5, <1>8 DEF WalkInv, CoverInv, Named, Leaked
<1> QED BY <1>1, <1>4, <1>6, <1>7, <1>9 DEF LevelInv, CoverInv, Named

LEMMA ReturnCovers ==
    ASSUME WalkInv, CloseDirectory \/ CallReturned
    PROVE  /\ LevelInv' /\ CoverInv'
           /\ \/ Leaked' = Leaked
              \/ Leaked' = Leaked + 1 /\ Full(index_resp') /\ service' = "report"
<1>1. /\ service = "report" /\ pc \in {"walk", "returned"}
      /\ UNCHANGED <<service, newer, ids, index_resp>>
      /\ IndInv /\ LevelInv /\ streams \in Nat
    BY DEF CloseDirectory, CallReturned, WalkInv, IndInv, TypeOK, LevelInv
<1>2. Hampered \/ newer \cap BelowRoot \subseteq Named \cup PendingIn(walk)
    BY <1>1 DEF WalkInv, CoverInv, Named
<1>3. CASE CloseDirectory
    <2>1. /\ walk # <<>> /\ Latest.left = {} /\ walk' = Callers
          /\ streams' = streams - 1 /\ pc' = "returned"
        BY <1>1, <1>3 DEF CloseDirectory, IndInv, ScanInv
    <2>2. /\ PendingIn(walk) = PendingIn(Callers) \cup Pending(Latest)
          /\ Descends(Callers) /\ Len(Callers) = Len(walk) - 1 /\ Len(walk) \in Nat
        BY <1>1, <2>1, PendingSplits
    <2>3. Pending(Latest) = {}
        BY <2>1 DEF Pending
    <2>4. Leaked' = Leaked
        BY <1>1, <2>1, <2>2 DEF Leaked
    <2>5. Hampered => Hampered'
        BY <1>1, <2>4 DEF Hampered, Full
    <2> QED BY <1>1, <1>2, <2>1, <2>2, <2>3, <2>4, <2>5 DEF LevelInv, CoverInv, Named
<1>4. CASE CallReturned /\ walk # <<>> /\ Full(index_resp)
    <2>1. walk' = Callers /\ pc' = pc /\ streams' = streams
        BY <1>4 DEF CallReturned, StopsToo
    <2>2. Descends(Callers) /\ Len(Callers) = Len(walk) - 1 /\ Len(walk) \in Nat
        BY <1>1, <1>4, PendingSplits
    <2>3. Leaked' = Leaked + 1
        BY <1>1, <2>1, <2>2 DEF Leaked
    <2> QED BY <1>1, <1>4, <2>1, <2>2, <2>3 DEF LevelInv, CoverInv, Hampered, Full
<1>5. CASE CallReturned /\ (walk = <<>> \/ ~ Full(index_resp))
    <2>1. walk' = walk /\ streams' = streams /\ pc' \in {"walk", "build"}
        BY <1>5 DEF CallReturned, StopsToo
    <2>2. Leaked' = Leaked /\ (Hampered => Hampered')
        BY <1>1, <2>1 DEF Leaked, Hampered, Full
    <2> QED BY <1>1, <1>2, <2>1, <2>2 DEF LevelInv, CoverInv, Named
<1> QED BY <1>3, <1>4, <1>5

LEMMA OtherStepsCover ==
    ASSUME WalkInv,
           \/ \E size \in Sizes : GetPage(size)
           \/ SendEmptyResponse \/ StartFrames \/ SendFrame
    PROVE  /\ LevelInv' /\ CoverInv'
           /\ \/ Leaked' = Leaked
              \/ Leaked' = Leaked + 1 /\ service' = "page" /\ index_resp' = HeaderLen
<1>1. walk' = walk /\ streams \in Nat
    BY DEF GetPage, SendEmptyResponse, StartFrames, SendFrame, scanVars, WalkInv,
        IndInv, TypeOK
<1>2. Len(walk) \in Nat
    BY LenProperties DEF WalkInv, IndInv, TypeOK
<1>3. pc' \notin {"walk", "returned"} /\ ~ ReportBuilt'
    BY DEF GetPage, SendEmptyResponse, StartFrames, SendFrame, ReportBuilt
<1>4. \/ streams' = streams
      \/ streams' = streams + 1 /\ service' = "page" /\ index_resp' = HeaderLen
    BY DEF GetPage, SendEmptyResponse, StartFrames, SendFrame
<1> QED BY <1>1, <1>2, <1>3, <1>4 DEF LevelInv, CoverInv, Leaked, WalkInv

\* Every step keeps what a scan rests on, and leaks one stream at most.
LEMMA WalkStep ==
    ASSUME WalkInv, Next
    PROVE  /\ LevelInv' /\ CoverInv'
           /\ \/ Leaked' = Leaked
              \/ /\ Leaked' = Leaked + 1
                 /\ \/ service' = "report" /\ Full(index_resp')
                    \/ service' = "page" /\ index_resp' = HeaderLen
<1>1. \A f \in Files : ScanFile(f) => service' = "report"
    BY DEF ScanFile, WalkInv, LevelInv
<1> QED BY <1>1, RequestCovers, ScanFileCovers, ScanDirectoryCovers, ReturnCovers,
        OtherStepsCover DEF Next

LEMMA WalkStutter ==
    ASSUME WalkInv, UNCHANGED vars
    PROVE  LevelInv' /\ CoverInv' /\ Leaked' = Leaked
BY DEF vars, scanVars, frameVars, WalkInv, LevelInv, CoverInv, Hampered, Full, Leaked,
    ReportBuilt

LEMMA WalkInvariant == Spec => []WalkInv
<1>1. Init => WalkInv
    BY InitialState, InitialWalk DEF WalkInv
<1>2. WalkInv /\ IndInv' /\ [Next]_vars => WalkInv'
    BY WalkStep, WalkStutter DEF WalkInv
<1> QED BY <1>1, <1>2, InductiveInvariant, PTL DEF Spec

\* Only a report cut off, or a page cut off while it was read, leaves a stream open.
THEOREM StreamsLeakOneByOne == Spec => OnlyCutOffLeaks
<1> DEFINE Leaks == Leaked' > Leaked =>
          /\ Leaked' = Leaked + 1
          /\ \/ service' = "report" /\ Full(index_resp')
             \/ service' = "page" /\ index_resp' = HeaderLen
<1>1. WalkInv /\ [Next]_vars => [Leaks]_vars
    <2> SUFFICES ASSUME WalkInv, Next PROVE Leaks
        OBVIOUS
    <2>1. Leaked \in Int
        BY LenProperties DEF WalkInv, IndInv, TypeOK, Leaked
    <2> QED BY <2>1, WalkStep
<1> QED BY <1>1, WalkInvariant, PTL DEF Spec, OnlyCutOffLeaks

\* A report names every newer file below the root, unless it is full or the
\* streams leaked so far keep the scan from the bottom of the tree.
THEOREM ReportNamesAll == Spec => []ReportIsComplete
<1>1. WalkInv => ReportIsComplete
    <2> SUFFICES ASSUME WalkInv, ReportBuilt, ~ Hampered
                 PROVE  newer \cap BelowRoot \subseteq {ids[i] : i \in DOMAIN ids}
        BY DEF ReportIsComplete
    <2>1. walk = <<>>
        BY DEF WalkInv, IndInv, ScanInv, ReportBuilt
    <2> QED BY <2>1, NothingPending DEF WalkInv, CoverInv
<1> QED BY <1>1, WalkInvariant, PTL
=============================================================================
