------------------------------ MODULE FileIds -------------------------------
(***************************************************************************)
(* How a file is named between the two hosts.  `services` turns the path   *)
(* of a changed file into a file id (get_ModifiedFiles), the agent sends   *)
(* the id back, `services` makes a path of it again (execute_Get_Page) and *)
(* so does the agent (Process_response_Get_Page).  Each program takes its  *)
(* numbers out of one global union, byteObj, of which a coin id fills the  *)
(* lower half only: the upper half keeps what the last serial number left. *)
(* The other modules take the path written for the path reported.          *)
(***************************************************************************)
EXTENDS Integers, Sequences

CONSTANTS
    Half,           \* the values of a half of byteObj, 2^16
    MyIdCoins,      \* COIN_ID_MY_ID_COINS
    CoinOwners,     \* COIN_ID_COIN_OWNERS
    Tree,           \* the paths of the files of the data directory
    Tables,         \* the values the byte of an unset table_id can have
    MaxReport,      \* bound: the files of one report
    MaxRuns         \* bound: the runs of the agent

Places == {"my_id_coins", "owners", "statements", "ANs", "coin"}

\* .../<place>/<serial>.bin, below coin_<coin> for the places "ANs" and "coin".
Paths == [place : Places, coin : Nat, serial : Nat]

ASSUME HalfAssumption ==
    /\ Half \in Nat \ {0} /\ MyIdCoins \in 0..(Half - 1) /\ CoinOwners \in 0..(Half - 1)
    /\ MyIdCoins # CoinOwners
\* Coins have one path each, and none has the number of a directory of another kind.
ASSUME TreeAssumption ==
    /\ Tree \subseteq Paths
    /\ \A p \in Tree : /\ p.serial \div Half < Half
                       /\ p.place \in {"ANs", "coin"} =>
                              p.coin \in 0..(Half - 1) \ {MyIdCoins, CoinOwners}
                       /\ p.place = "my_id_coins" => p.coin = MyIdCoins
                       /\ p.place \in {"owners", "statements"} => p.coin = CoinOwners
    /\ Tables \subseteq Nat
ASSUME BoundsAssumption == MaxReport \in Nat /\ MaxRuns \in Nat

VARIABLES
    phase,      \* what the two programs are doing
    mirror,     \* byteObj.val of `services`
    agent,      \* byteObj.val of the agent
    reported,   \* the files of the report: their paths, and their ids on the wire
    next,       \* the place of the file being asked for
    opened,     \* the path `services` opened for it
    written,    \* the path the agent wrote its contents to
    runs        \* the runs of the agent so far

vars == <<phase, mirror, agent, reported, next, opened, written, runs>>

None == [place |-> "none", coin |-> 0, serial |-> 0]
Ids  == [coin : Nat, table : Nat, serial : Nat]

Init ==
    /\ phase = "idle"
    /\ mirror = 0 /\ agent = 0
    /\ reported = <<>>
    /\ next = 0
    /\ opened = None /\ written = None
    /\ runs = 0

(***************************************************************************)
(* The conversions.                                                        *)
(***************************************************************************)
\* Seeded fault: owners and statements change places.
SwappedIdsOf(p) ==
    CASE p.place = "my_id_coins" -> {[coin |-> MyIdCoins, table |-> 0, serial |-> p.serial]}
      [] p.place = "owners"      -> {[coin |-> CoinOwners, table |-> 3, serial |-> p.serial]}
      [] p.place = "statements"  -> {[coin |-> CoinOwners, table |-> 2, serial |-> p.serial]}
      [] OTHER -> {[coin |-> p.coin, table |-> 1, serial |-> p.serial]}

\* The numbers of a path.  A table other than ANs sets no table_id.
IdsOf(p) ==
    CASE p.place = "my_id_coins" -> {[coin |-> MyIdCoins, table |-> 0, serial |-> p.serial]}
      [] p.place = "owners"      -> {[coin |-> CoinOwners, table |-> 2, serial |-> p.serial]}
      [] p.place = "statements"  -> {[coin |-> CoinOwners, table |-> 3, serial |-> p.serial]}
      [] p.place = "ANs"         -> {[coin |-> p.coin, table |-> 1, serial |-> p.serial]}
      [] OTHER -> [coin : {p.coin}, table : Tables, serial : {p.serial}]

\* prepare_resp_body: two bytes of the coin id, all four of the serial number.
Packed(id) == [coin |-> id.coin % Half, table |-> id.table, serial |-> id.serial]

\* byteObj.val after the bytes of a coin id were put into its lower half.
LowerHalfSet(byteObj, coin) == (byteObj \div Half) * Half + coin

\* The path of an id.  Without a table "coin_<coin>" and the serial are joined.
PathOf(coin, table, serial) ==
    [place |->
        CASE coin = MyIdCoins /\ table = 0  -> "my_id_coins"
          [] coin = CoinOwners /\ table = 2 -> "owners"
          [] coin = CoinOwners /\ table = 3 -> "statements"
          [] ~ (coin = MyIdCoins /\ table = 0) /\ table = 1 -> "ANs"
          [] OTHER -> "joined",
     coin |-> coin, serial |-> serial]

(***************************************************************************)
(* The steps of the two programs.                                          *)
(***************************************************************************)
StartRun ==
    /\ phase = "idle" /\ runs < MaxRuns
    /\ phase' = "report" /\ runs' = runs + 1
    /\ agent' = 0
    /\ reported' = <<>> /\ next' = 0
    /\ opened' = None /\ written' = None
    /\ UNCHANGED mirror

\* One file of the scan.
ReportFile(p) ==
    /\ phase = "report" /\ Len(reported) < MaxReport
    /\ \A i \in DOMAIN reported : reported[i].path # p
    /\ \E id \in IdsOf(p) : reported' = Append(reported, [path |-> p, id |-> Packed(id)])
    /\ mirror' = p.serial
    /\ UNCHANGED <<phase, agent, next, opened, written, runs>>

\* The agent keeps the ids as they are, and asks for the first file.
ProcessReport ==
    /\ phase = "report"
    /\ IF reported # <<>>
         THEN phase' = "ask" /\ next' = 1
         ELSE phase' = "idle" /\ UNCHANGED next
    /\ UNCHANGED <<mirror, agent, reported, opened, written, runs>>

ExecuteGetPage ==
    LET id == reported[next].id IN
    /\ phase = "ask"
    /\ opened' = PathOf(LowerHalfSet(mirror, id.coin), id.table, id.serial)
    /\ mirror' = id.serial
    /\ phase' = "answer"
    /\ UNCHANGED <<agent, reported, next, written, runs>>

\* Seeded fault: the coin id is read after the serial number.
CoinAfterSerial(id) == id.serial

\* The coin id the agent makes of the id in the answer.
AgentCoin(id) == LowerHalfSet(agent, id.coin)

\* The agent writes what `services` could read.
ProcessPage ==
    LET id == reported[next].id IN
    /\ phase = "answer"
    /\ opened \in Tree
    /\ written' = PathOf(AgentCoin(id), id.table, id.serial)
    /\ agent' = id.serial
    /\ phase' = "done"
    /\ UNCHANGED <<mirror, reported, next, opened, runs>>

\* No such file, or no answer.
NoPage ==
    /\ phase = "answer"
    /\ phase' = "done"
    /\ UNCHANGED <<mirror, agent, reported, next, opened, written, runs>>

\* Seeded fault: one file more than were reported.
OneFileMore == next <= Len(reported)

FilesLeft == next < Len(reported)

NextFile ==
    /\ phase = "done"
    /\ opened' = None /\ written' = None
    /\ IF FilesLeft
         THEN phase' = "ask" /\ next' = next + 1
         ELSE phase' = "idle" /\ UNCHANGED next
    /\ UNCHANGED <<mirror, agent, reported, runs>>

Next ==
    \/ StartRun
    \/ \E p \in Tree : ReportFile(p)
    \/ ProcessReport
    \/ ExecuteGetPage
    \/ ProcessPage
    \/ NoPage
    \/ NextFile

Spec == Init /\ [][Next]_vars

-----------------------------------------------------------------------------
\* Every variable has its type.
Entries == [path : Tree, id : Ids]
AnyPath == [place : Places \cup {"joined", "none"}, coin : Nat, serial : Nat]

TypeOK ==
    /\ phase \in {"idle", "report", "ask", "answer", "done"}
    /\ mirror \in Nat /\ mirror \div Half < Half
    /\ agent \in Nat /\ agent \div Half < Half
    /\ reported \in Seq(Entries)
    /\ next \in 0..Len(reported)
    /\ phase \in {"ask", "answer", "done"} => next > 0
    /\ opened \in AnyPath
    /\ written \in AnyPath
    /\ runs \in 0..MaxRuns

(***************************************************************************)
(* `services` opens the file it reported, although nothing but the id      *)
(* ("bytes sent in msb to lsb order, so [0] = msb, [1] = lsb",             *)
(* Primary_Services.c:506) has come back to it.                            *)
(***************************************************************************)
OpensReportedFile == opened # None => opened = reported[next].path

(***************************************************************************)
(* What was read of one file of the mirror is never written to another     *)
(* file of the primary.                                                    *)
(***************************************************************************)
WritesOpenedFile == written # None => written = opened

(***************************************************************************)
(* The circumstances under which the two hold: serial numbers of half the  *)
(* width they are sent with, and no directories but those with a table id  *)
(* of their own.                                                           *)
(***************************************************************************)
SerialsFitHalf == \A p \in Tree : p.serial < Half
TablesAreKnown == \A p \in Tree : p.place # "coin"

\* With them byteObj has an empty upper half, and ids name the paths they are of.
IdInv ==
    /\ TypeOK
    /\ mirror < Half /\ agent < Half
    /\ phase \notin {"answer", "done"} => opened = None
    /\ phase # "done" => written = None
    /\ \A i \in DOMAIN reported :
          LET id == reported[i].id IN
          /\ PathOf(id.coin, id.table, id.serial) = reported[i].path
          /\ id.coin < Half /\ id.serial < Half
    /\ OpensReportedFile
    /\ WritesOpenedFile
=============================================================================
