--------------------------- MODULE FileIds_proofs ---------------------------
(***************************************************************************)
(* Proofs about FileIds: for every tree of known tables whose serial       *)
(* numbers fit half the width of byteObj, whatever the width, the path     *)
(* opened and the path written are the path reported.                      *)
(***************************************************************************)
EXTENDS FileIds, SequenceTheorems, TLAPS

\* The path of an id of a path is that path.
LEMMA IdNamesPath ==
    ASSUME SerialsFitHalf, TablesAreKnown, NEW p \in Tree, NEW id \in IdsOf(p)
    PROVE  /\ Packed(id) \in Ids
           /\ PathOf(Packed(id).coin, Packed(id).table, Packed(id).serial) = p
           /\ Packed(id).coin < Half /\ Packed(id).serial < Half
           /\ Packed(id).serial = p.serial
<1>1. /\ p \in Paths /\ p.serial \in Nat /\ p.serial < Half /\ p.coin \in 0..(Half - 1)
      /\ p.place \in {"my_id_coins", "owners", "statements", "ANs"}
      /\ p = [place |-> p.place, coin |-> p.coin, serial |-> p.serial]
  <2>1. p \in Paths /\ p.serial < Half /\ p.place # "coin"
    BY TreeAssumption DEF SerialsFitHalf, TablesAreKnown
  <2>2. p.coin \in 0..(Half - 1)
    BY <2>1, TreeAssumption, HalfAssumption DEF Paths, Places
  <2> QED BY <2>1, <2>2 DEF Paths, Places
<1>2. \A c \in 0..(Half - 1) : c % Half = c
    BY HalfAssumption
<1>3. /\ id.coin = p.coin /\ id.serial = p.serial /\ id.table \in 0..3
      /\ p.place = "my_id_coins" => p.coin = MyIdCoins /\ id.table = 0
      /\ p.place = "owners" => p.coin = CoinOwners /\ id.table = 2
      /\ p.place = "statements" => p.coin = CoinOwners /\ id.table = 3
      /\ p.place = "ANs" => p.coin \notin {MyIdCoins, CoinOwners} /\ id.table = 1
    BY <1>1, TreeAssumption DEF IdsOf
<1>4. Packed(id) = [coin |-> p.coin, table |-> id.table, serial |-> p.serial]
    BY <1>1, <1>2, <1>3 DEF Packed
<1>5. PathOf(p.coin, id.table, p.serial) = p
    BY <1>1, <1>3, HalfAssumption DEF PathOf
<1> DEFINE q == Packed(id)
<1>6. q.coin = p.coin /\ q.table = id.table /\ q.serial = p.serial
    BY <1>4
<1>7. q \in Ids
    BY <1>1, <1>3, <1>4, HalfAssumption DEF Ids
<1> HIDE DEF q
<1>8. PathOf(q.coin, q.table, q.serial) = p
    BY <1>5, <1>6
<1> QED BY <1>1, <1>6, <1>7, <1>8, HalfAssumption DEF q

\* As long as byteObj has an empty upper half the lower one is all of it.
LEMMA LowerHalfIsAll ==
    ASSUME NEW v \in Nat, v < Half, NEW coin \in Nat
    PROVE  LowerHalfSet(v, coin) = coin /\ v \div Half < Half
<1>1. v \div Half = 0
    BY HalfAssumption
<1> QED BY <1>1, HalfAssumption DEF LowerHalfSet

-----------------------------------------------------------------------------
(* The invariant. *)

LEMMA InitialState == Init => IdInv
<1> SUFFICES ASSUME Init PROVE IdInv
    OBVIOUS
<1>1. reported = <<>> /\ reported \in Seq(Entries) /\ Len(reported) = 0
      /\ DOMAIN reported = {}
    BY EmptySeq DEF Init
<1>2. 0 \div Half = 0 /\ 0 < Half
    BY HalfAssumption
<1>3. None \in AnyPath
    BY DEF None, AnyPath
<1> QED BY <1>1, <1>2, <1>3, BoundsAssumption, HalfAssumption
        DEF Init, IdInv, TypeOK, OpensReportedFile, WritesOpenedFile

\* The id of the file asked for.
LEMMA CurrentId ==
    ASSUME IdInv, phase \in {"ask", "answer", "done"}
    PROVE  LET id == reported[next].id IN
           /\ next \in DOMAIN reported /\ reported[next] \in Entries
           /\ id \in Ids /\ id.coin \in Nat /\ id.serial \in Nat /\ id.serial < Half
           /\ PathOf(id.coin, id.table, id.serial) = reported[next].path
           /\ reported[next].path \in Tree /\ reported[next].path \in AnyPath
<1>1. /\ reported \in Seq(Entries) /\ next \in 1..Len(reported)
      /\ DOMAIN reported = 1..Len(reported)
    BY LenProperties DEF IdInv, TypeOK
<1>2. reported[next] \in Entries
    BY <1>1, ElementOfSeq
<1>3. reported[next].path \in Tree /\ reported[next].id \in Ids
    BY <1>2 DEF Entries
<1>4. Tree \subseteq AnyPath
    BY TreeAssumption DEF Paths, Places, AnyPath
<1> QED BY <1>1, <1>2, <1>3, <1>4 DEF IdInv, Ids

LEMMA ReportStep ==
    ASSUME SerialsFitHalf, TablesAreKnown, IdInv, NEW p \in Tree, ReportFile(p)
    PROVE  IdInv'
<1>1. PICK id \in IdsOf(p) : reported' = Append(reported, [path |-> p, id |-> Packed(id)])
    BY DEF ReportFile
<1> DEFINE e == [path |-> p, id |-> Packed(id)]
<1>2. /\ e \in Entries /\ PathOf(e.id.coin, e.id.table, e.id.serial) = e.path
      /\ e.id.coin < Half /\ e.id.serial < Half /\ p.serial = e.id.serial
      /\ p.serial \in Nat
  <2>1. Packed(id).serial \in Nat
    BY IdNamesPath DEF Ids
  <2> QED BY <2>1, IdNamesPath DEF Entries
<1>3. /\ reported \in Seq(Entries) /\ Len(reported) \in Nat
      /\ DOMAIN reported = 1..Len(reported)
    BY LenProperties DEF IdInv, TypeOK
<1>4. reported' = Append(reported, e)
    BY <1>1
<1> HIDE DEF e
<1>5. /\ reported' \in Seq(Entries) /\ Len(reported') = Len(reported) + 1
      /\ DOMAIN reported' = 1..(Len(reported) + 1)
      /\ \A i \in 1..Len(reported) : reported'[i] = reported[i]
      /\ reported'[Len(reported) + 1] = e
    BY <1>2, <1>3, <1>4, AppendProperties, LenProperties
<1>6. /\ phase = "report" /\ mirror' = p.serial
      /\ UNCHANGED <<phase, agent, next, opened, written, runs>>
    BY DEF ReportFile
<1>7. p.serial \div Half = 0
    BY <1>2, HalfAssumption
<1>8. TypeOK'
    BY <1>2, <1>3, <1>5, <1>6, <1>7, HalfAssumption DEF IdInv, TypeOK
<1>9. ASSUME NEW i \in DOMAIN reported'
      PROVE  LET d == reported'[i].id IN
             /\ PathOf(d.coin, d.table, d.serial) = reported'[i].path
             /\ d.coin < Half /\ d.serial < Half
  <2>1. CASE i \in DOMAIN reported
    BY <1>3, <1>5, <2>1 DEF IdInv
  <2>2. CASE i = Len(reported) + 1
    BY <1>2, <1>5, <2>2
  <2> QED BY <1>3, <1>5, <2>1, <2>2
<1>10. opened' = None /\ written' = None
    BY <1>6 DEF IdInv
<1> QED BY <1>2, <1>6, <1>8, <1>9, <1>10
        DEF IdInv, OpensReportedFile, WritesOpenedFile

LEMMA GetPageStep ==
    ASSUME IdInv, ExecuteGetPage
    PROVE  IdInv'
<1> DEFINE id == reported[next].id
<1>1. /\ id.coin \in Nat /\ id.serial \in Nat /\ id.serial < Half
      /\ PathOf(id.coin, id.table, id.serial) = reported[next].path
      /\ reported[next].path \in AnyPath
    BY CurrentId DEF ExecuteGetPage
<1>2. mirror \in Nat /\ mirror < Half
    BY DEF IdInv, TypeOK
<1>3. /\ opened' = reported[next].path /\ mirror' = id.serial
      /\ phase = "ask" /\ phase' = "answer"
      /\ UNCHANGED <<agent, reported, next, written, runs>>
    BY <1>1, <1>2, LowerHalfIsAll DEF ExecuteGetPage
<1>4. id.serial \div Half < Half
    BY <1>1, LowerHalfIsAll
<1> HIDE DEF id
<1> QED BY <1>1, <1>3, <1>4
        DEF IdInv, TypeOK, OpensReportedFile, WritesOpenedFile

LEMMA PageStep ==
    ASSUME IdInv, ProcessPage
    PROVE  IdInv'
<1> DEFINE id == reported[next].id
<1>1. /\ id.coin \in Nat /\ id.serial \in Nat /\ id.serial < Half
      /\ PathOf(id.coin, id.table, id.serial) = reported[next].path
      /\ reported[next].path \in AnyPath
    BY CurrentId DEF ProcessPage
<1>2. /\ agent \in Nat /\ agent < Half /\ opened \in Tree
      /\ opened = None => opened \notin Tree
      /\ opened # None => opened = reported[next].path
    BY TreeAssumption DEF IdInv, TypeOK, ProcessPage, OpensReportedFile, None, Paths, Places
<1>3. /\ written' = opened /\ agent' = id.serial
      /\ phase = "answer" /\ phase' = "done"
      /\ UNCHANGED <<mirror, reported, next, opened, runs>>
    BY <1>1, <1>2, LowerHalfIsAll DEF ProcessPage, AgentCoin
<1>4. id.serial \div Half < Half
    BY <1>1, LowerHalfIsAll
<1> HIDE DEF id
<1> QED BY <1>1, <1>2, <1>3, <1>4
        DEF IdInv, TypeOK, OpensReportedFile, WritesOpenedFile

LEMMA OtherStep ==
    ASSUME IdInv, StartRun \/ ProcessReport \/ NoPage \/ NextFile \/ UNCHANGED vars
    PROVE  IdInv'
<1>1. CASE StartRun
  <2>1. reported' = <<>> /\ reported' \in Seq(Entries) /\ Len(reported') = 0
        /\ DOMAIN reported' = {}
    BY <1>1, EmptySeq DEF StartRun
  <2>2. 0 \div Half < Half /\ 0 < Half
    BY HalfAssumption
  <2>3. None \in AnyPath
    BY DEF None, AnyPath
  <2>4. runs' \in 0..MaxRuns
    BY <1>1, BoundsAssumption DEF StartRun, IdInv, TypeOK
  <2> QED BY <1>1, <2>1, <2>2, <2>3, <2>4
          DEF StartRun, IdInv, TypeOK, OpensReportedFile, WritesOpenedFile
<1>2. CASE NoPage
    BY <1>2 DEF NoPage, IdInv, TypeOK, OpensReportedFile, WritesOpenedFile
<1>3. CASE NextFile
  <2>1. Len(reported) \in Nat /\ None \in AnyPath
    BY LenProperties DEF IdInv, TypeOK, None, AnyPath
  <2> QED BY <1>3, <2>1
          DEF NextFile, FilesLeft, IdInv, TypeOK, OpensReportedFile, WritesOpenedFile
<1>4. CASE UNCHANGED vars
    BY <1>4 DEF vars, IdInv, TypeOK, OpensReportedFile, WritesOpenedFile
<1>5. CASE ProcessReport
  <2>1. Len(reported) \in Nat /\ (reported # <<>> => Len(reported) \in Nat \ {0})
    BY EmptySeq, LenProperties DEF IdInv, TypeOK
  <2> QED BY <1>5, <2>1
          DEF ProcessReport, IdInv, TypeOK, OpensReportedFile, WritesOpenedFile
<1> QED BY <1>1, <1>2, <1>3, <1>4, <1>5

LEMMA InductiveInvariant ==
    ASSUME SerialsFitHalf, TablesAreKnown
    PROVE  Spec => []IdInv
<1>1. IdInv /\ [Next]_vars => IdInv'
    BY ReportStep, GetPageStep, PageStep, OtherStep DEF Next
<1> QED BY InitialState, <1>1, PTL DEF Spec

\* `services` opens the very file it reported (Report Changes, then Get Page).
THEOREM ReportedFileOpened ==
    ASSUME SerialsFitHalf, TablesAreKnown
    PROVE  Spec => []OpensReportedFile
<1>1. IdInv => OpensReportedFile
    BY DEF IdInv
<1> QED BY InductiveInvariant, <1>1, PTL

\* The agent writes the contents of a file to the file of the same path.
THEOREM OpenedFileWritten ==
    ASSUME SerialsFitHalf, TablesAreKnown
    PROVE  Spec => []WritesOpenedFile
<1>1. IdInv => WritesOpenedFile
    BY DEF IdInv
<1> QED BY InductiveInvariant, <1>1, PTL

\* Every variable has its type.
THEOREM TypesHold ==
    ASSUME SerialsFitHalf, TablesAreKnown
    PROVE  Spec => []TypeOK
<1>1. IdInv => TypeOK
    BY DEF IdInv
<1> QED BY InductiveInvariant, <1>1, PTL
=============================================================================
