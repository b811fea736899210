# RAIDA agent: specification, model checking and proofs

A RAIDA stores its coins in small binary files. Each RAIDA (the *primary*) has a
*mirror* that holds the same files. This repository contains the two programs
that keep the primary's files in step with the mirror's:

* `agent`, on the primary (`src/Primary_Agent`: `RAIDA_AGENT.c`,
  `Agent_Call_Services.c`). It is started, synchronises, and exits;
* `services`, on the mirror (`src/Mirror_Agent`: `Services_main.c`,
  `Primary_Services.c`). It runs for ever and answers requests over UDP.

`src/Primary_Agent` and `src/Mirror_Agent` both hold all sources of both
programs, byte for byte the same, so a line number here is good for either copy.

The TLA+ modules beside this file model one synchronisation end to end, three of
its parts in more detail, how the programs start, and the older server that
`services` descends from, with the program that tests it. TLC checks them on small
instances, TLAPS proves properties of them for all values of their constants.

## 1. Inventory

### The components

**agent.** State: the youngest modification time found among the primary's data
files, the list `files_id` of the mirror's changed files, the response buffer
`recv_response`, a UDP socket with a port the system chose, and the data files
themselves. One run: `get_latest_timestamp`, `Call_Report_Changes_Service`, then
for each id reported `Call_Mirror_Get_Page_Service`, whose answer goes through
`Receive_response`, `validate_response_header`, `validate_resp_body_get_page` and
`Update_File_Contents`. Every failure before the list is complete ends the run; a
failure after that skips one file.
Right when: what it writes is a version the mirror had; it says that all is
synchronised only when it is; it ends, whatever is lost; one lost datagram does
not spoil the rest of the run.

**services.** State: the request buffer `udp_buffer` and the address `cliaddr` of
whoever sent last, the response buffer `response` with its index, the union
`byteObj`, and the open streams. `listen_request` is an endless loop of four
states; it puts a request together, calls `execute_Report_Changes` or
`execute_Get_Page`, and sends the response in frames of 1024 bytes.
Right when: it comes back to its first state; a request is one client's; the
answer goes to that client; buffers are not overrun; announced frames are sent;
a report is complete as far as it fits; no stream is leaked; the file it opens is
the file it reported.

**RAIDA server.** A third program, not in this repository, that writes the
mirror's data files while `services` reads them. It knows nothing of the agent.

**network.** UDP: datagrams are lost, duplicated, exchanged and delayed.

**start-up and configuration.** `load_raida_no`, `Read_Agent_Configuration_Files`,
`load_server_config` and `init_udp_socket`: each program reads its RAIDA number and
its addresses and ports, and the servers bind a port. State: `server_config_obj`,
`Primary_agent_config`, `Mirror_agent_config`. `agent` and the converter exit when a
file is missing, `services` goes on.
Right when: a program that lacks a file serves nobody; client and server agree on the
number and on the port.

**keys.** `createkeys.c`, `read_keys_file`: not used by the two programs.

**coin converter server.** `src/Old/udp_socket.c`, `raida_server.c`: an older
server with the same request loop, which decrypts its requests and looks tickets
up in a MySQL database. State beyond that of the loop: `encrypt_key`, `nounce`
(both global), and the connections it has left open.
Right when: what it looks up is what the client sent; the client can decrypt the
answer (both hold for encrypted requests only); connections are closed.

**test program of the coin converters.** `src/Old/test_program.c` asks 25 converters
one after the other and prints SUCCESS or FAIL. State: the socket, the descriptors
left open, the key.
Right when: a result is that of the converter it is printed for, and the sweep ends.

**drafts and the old client.** The other files of `src/Old`.

The flowcharts (`Primary_Raida_Agent.png`, `Mirror_Raida_Agent.png` of `src/Old`)
also describe the restart of the RAIDA server, the witness, and how a mirror
becomes primary. The code has none of this. What the models take from the
flowcharts is that a synchronisation is repeated every minute.

### How they interact

    RAIDA server --writes--> data files <--reads-- services
                                                      |  ^
                                       response frames|  |requests   (UDP)
                                                      v  |
                       primary's data files <--writes-- agent

There is no session. Requests and responses carry echo bytes, which are always
22 22. Only the first frame of a response has a header, frames have no number,
and the agent appends what arrives in the order of arrival. The one thing that
links two runs is the modification times of the primary's files: the youngest of
them is what the next run sends as "changed since".

### Where it is hard

* The RAIDA server writes at any time: between the counting and the reading of a
  file, between two files of the scan, within one second of the run's last write.
* A response may be late for the request it belongs to and on time for the next.
* A lost or exchanged frame changes what bodies are made of.
* Nothing ties an answer to its request but the port it is sent to; a socket given up
  may still be answered.
* Programs are started in any order, with any files, and want the same port.
* The agent is killed, or the disk is full, in the middle of a file.
* A report stops at a limit, inside nested calls, with streams open.
* Time: whole seconds, UTC fields read as local time, the time of the
  synchronisation taken for the time of the change.
* Global state (`byteObj`, `udp_buffer`, `cliaddr`) that outlives its request.

The list `hazards` of `PROJECT.json` has each at its line, with the properties
that would notice it going wrong.

## 2. The modules

| module | stands for | extends |
|---|---|---|
| `SyncBase` | items, frames, requests; the network and its faults | |
| `MirrorServices` | `services`, and the RAIDA server's writes | `SyncBase` |
| `PrimaryAgent` | `agent` | `SyncBase` |
| `AgentSync` | both together, the clock, fairness, the properties | `MirrorServices`, `PrimaryAgent` |
| `Replica` | the abstract specification that `AgentSync` implements | |
| `Integrity` | what is under way, and why no file is a mixture: the invariants behind `FileIntegrity` and `WrittenFileIsWhole` | `AgentSync` |
| `Completeness` | what an exchange brings over, and what a run leaves behind: the invariants behind `LossCostsOneFile`, `ReportedFilesSynchronized`, `NoChangesMeansSynchronized` and `UpToDateIsKept` | `Integrity` |
| `ServiceResponses` | scan, response buffer, frames, streams, in bytes | |
| `RequestAssembly` | `listen_request` with several clients | |
| `FileIds` | path to id to path, and `byteObj` | |
| `CoinConverter` | the older server: decryption, database | `RequestAssembly` |
| `StartUp` | the starts of `agent`, `services` and the converter server, and the first request | |
| `CoinTester` | the test program's sweep over the converters | |
| `MC...` | instances for TLC | the module they are named after |
| `..._proofs` | theorems and proofs | the module they are named after; `AgentSync_proofs` extends `Integrity`, `Completeness_proofs` extends that and `Completeness` |

Four of them justify what `AgentSync` takes for granted: that a request is one
client's (`RequestAssembly`), that what is announced is what is sent and fits the
agent (`ServiceResponses`), that the path written is the path reported (`FileIds`),
that the two programs are those of one RAIDA (`StartUp`).

### AgentSync and its parts

Bytes are items: a file id (7 bytes), the part of a file one frame holds, a
header, the two end bytes. A part carries the file, the version, its place and
the number of parts; version and place are tags of the model by which properties
tell contents apart, and no action looks at them. The network is two
sequences, `toMirror` and `toAgent`. `Lose`, `Duplicate` and `Reorder` act on
them as long as `faults` allows; delay needs no action, since every process may
be slow. The loss of the first frame of a page of three frames or more is a kind
of its own ("head" instead of "loss", `LossOf`), because it does more harm than any
other (section 3).

| action | code |
|---|---|
| `ListenRequest`, `Dispatch` | `listen_request`, `process_request`: the next request, and the time that `mktime` makes of its fields (`TzShifts`) |
| `ScanFile`, `ScanEnd` | `get_ModifiedFiles`: one file per step, in any order, so that writes fall in between; return at the limit |
| `CountSize`, `ReadContents` | `Get_File_Contents`: first and second `fopen`, the second one untested |
| `SendResponse` | `prepare_udp_resp_body`: one frame per step |
| `MirrorWrite`, `MirrorRemove` | the RAIDA server |
| `AgentMain` | `main` up to the request for the report |
| `ReceiveFirst`, `ReceiveMore`, `TimeOut` | `Receive_response`, both `select`s |
| `ProcessReport` | `Process_response_Report_Changes` |
| `CallGetPage`, `AgentEnd` | the loop of `main` |
| `ProcessPage`, `WriteFile`, `Buffered`, `WriteFails` | `Process_response_Get_Page`, `Update_File_Contents`: `fopen` truncates, `fwrite` writes piece by piece and leaves the rest, perhaps all, in the buffer of the stream; on a full disk it comes back short |
| `WriteFile`, `WriteDone`, `CloseFails` | `fclose` writes what is in the buffer, or fails on a full disk; either way the file is said to be synchronised |
| `Kill` | the process dies |
| `Tick` | a second passes |

`Exit` and `GiveUp` are what several early returns have in common: without a
report the run is over, without a page the loop goes on, with what is left in the
socket queue left there.

`Replica` says what a user may rely on: a copy is emptied, then filled with one
version, not older than the one it held, never with a mixture; a whole copy stays
until it is emptied. `CopyOf` is the refinement mapping. The history variable
`held` remembers the version of an emptied file, `began` when the run started.

What is abstracted, and assumed:

* Both hosts have the same clock. What a time zone does to it is `TzShifts`.
* A time-out may strike whenever nothing is queued, however little time has
  passed (`Timely = FALSE`), or not before the request is dealt with (`TRUE`).
* `fread` of a file, and a write by the RAIDA server, are one step each. The
  writing of the agent is not.
* The contents of a file never pass for a response header (RAIDA number, frame
  count and echo bytes would have to agree).
* The primary's own RAIDA server does not write while a run is under way.
* After a short `fwrite` the stream stays open; that the exit of the process may
  still write what is left in its buffer is left out.
* A variable that the program overwrites before it reads it again is reset at
  once, which joins states that differ in nothing else.
* `Agent_Call_Services.c` uses an identifier `id` at lines 485-498 that is not
  declared there; it is modelled as the three numbers just read from the body.
* A file longer than the response buffer holds is left out.

### ServiceResponses

Here `index_resp`, `current_length`, `index`, frames and streams are numbers of
bytes, frames and streams. `walk` is the stack of the calls of
`get_ModifiedFiles`; `CallScan` is `opendir`, `CloseDirectory` `closedir`. The two
returns on a full response (`ScanFile`, `CallReturned`) leave the directory open,
as the code does; a short read leaves the file open. With no stream left
`opendir` fails and the call returns like one of an empty directory. `Under` and
`Depth` say of each directory what its subtree holds and how deep it lies; they
are constants with an assumption, so that properties of the whole tree need no
recursion. The tree stays as it is while it is read, and `readdir` gives each entry of a
directory once, in any order (`Without`); that this is so, and that a report names no
file twice, is an assumption about the file system, here and in `AgentSync`.

### RequestAssembly

The four states of `listen_request` with the datagrams of several clients.
`SameSender` compares hosts, as the code does (`sin_addr`, not the port);
`cliaddr` is overwritten by every datagram; `Echo` reads `udp_buffer`, be it an
old one. A header in the middle of a request is data, data at the beginning of a
request is a header with some error. `ValidEnd` and `ValidBody` are what the
checks of end bytes and length tell of a request that may lack frames: the length is
right for full frames of one kind and a last one, and may be right or wrong for any
other mixture from one host.
Left out: requests longer than `UDP_BUFF_SIZE` (index is 16 bits wide and nothing
compares it with the buffer), a body that reads like a valid header, and clients that
announce another number of frames than they send.

### FileIds

`IdsOf` is what `get_ModifiedFiles` makes of a path, `Packed` what
`prepare_resp_body` puts on the wire, `PathOf` what `execute_Get_Page` and
`Process_response_Get_Page` make of an id. Both programs set the two lower bytes
of a four-byte union and read all four (`LowerHalfSet`): the upper half is that of
the last serial number. For a directory without a table id of its own the byte is
any member of `Tables`, since the local variable was never set.

### CoinConverter

The clients, the network and the first three states of the loop are those of
`RequestAssembly`. `DecryptAndProcess` is the fourth: `LoadEncryptKey` may fail, and
the code goes on with the key and the nonce of an earlier request. `EndReads` says
when the two bytes REQ_END are found, `TicketsRead` what is looked up, `Query`
every way the look-up may end, with `connections` counting what is not closed.
What is decrypted is as long as the last datagram without a header, so the end of
a request of several datagrams is compared as it came. `Encrypted` says which
kinds of request each client encrypts; the code in the header that says it, too, is
tested for 0 or 1 and then ignored.

Assumed: garbled bytes never pass for REQ_END (a chance of one in 2^16);
`crypt_ctr`, which is not in the repository, leaves the nonce alone.

### StartUp

Every program has the globals it fills from its files. `RaidaId` is what
`load_raida_no` makes of the characters of `raida_no.txt`: two characters are two
digits, of any other text the first counts, and the result is kept in eight bits.
`After` is the difference between the programs: `agent` and the converter exit
after a failure, `services` looks at no result. Without a number its frames have 0
bytes (`bytes_per_frame` is set last), so that `recvfrom` takes nothing of a datagram
but its sender, and what is checked as a header is a buffer of 0 bytes: which of two
errors it answers is open. A converter has the size of its frames from `server.bin`, any
number of 16 bits. `InitUdpSocket` binds, and a port in use ends the
program. The agent's run goes from its files to the answer to its first request;
then it is a new process. `echoed` says whether `udp_buffer` ever held a request:
before that an error carries other echo bytes than the agent's.

Left out: a `raida_no.txt` without a character (`buff` is then read without having
been set), a converter whose `server.bin` is shorter than it should be (it exits, as
without the file), and the converter's answer beyond its header.

### CoinTester

The process's descriptors are a set; the lowest free one is what `socket` and
`fopen` get. Time-outs leave the socket open and bound, so that a late answer goes to
a socket nobody looks at. `select` looks at `WatchedMax` descriptors.
`DescriptorsFit` says that a sweep without an answer stays below that, as 3 + 25
does below 32, and that the key file is not short: a short one is not closed
(`test_program.c:61`), with 25 of them the descriptors reach 53, and answers are no longer seen.
A time-out strikes only when nothing is there (`~ Readable`).

## 3. What TLC checks

| run | what is asked | result |
|---|---|---|
| `quiet_runs` | Any number of runs, no faults, the mirror changes between runs only: `ReportedFilesSynchronized`, `NoChangesMeansSynchronized`, `EventuallySynchronized` | holds |
| `lossy_network` | Two runs with loss, delay, a kill, a full disk, and writes at any time: `FileIntegrity`, `ImplementsReplica`, `UpToDateIsKept` | holds |
| `network_faults` | Loss, duplication, exchange, and files that vanish while read: `TypeOK`, `AgentTerminates` | holds |
| `lost_datagrams` | Three files of up to three frames, losses, a full disk: `LossCostsOneFile`, `WrittenFileIsWhole` | holds |
| `lost_page` | One lost datagram: `NoChangesMeansSynchronized` | violated |
| `reports` | Reports that fit and that do not, short reads, no streams left: `TypeOK`, `ResponseFits`, `FramesAddUp`, `AgentTakesIt`, `ReportIsComplete`, `OnlyCutOffLeaks` | holds |
| `leaked_streams` | The same, asked for `NoChangesMeansNoneNewer` | violated |
| `requests` | Three clients on two hosts, wrong requests, a lost or duplicated datagram: `TypeOK`, `RequestOfOneHost`, `AnswersGoHome`, `OnlyWholeRequestsExecuted`, `ComesBack` | holds |
| `small_serials` | Serial numbers below 2^16, known tables: `TypeOK`, `OpensReportedFile`, `WritesOpenedFile` | holds |
| `coin_converter` | Two clients, requests encrypted and not, wrong ones, an unreadable key, a fault: `ConverterTypeOK`, `TicketIsAsSent`, `AnswerIsReadable`, `OnlyUnknownTicketsLeak` | holds |
| `start_up` | All combinations of files on two hosts, three programs in any order: `TypeOK`, `OnlyConfiguredServe`, `ServedByOwnNumber`, `WellConfiguredIsServed` | holds |
| `coin_tester` | Five converters, answers late or lost: `TypeOK`, `SuccessIsFromAsked`, `FailMeansSilence`, `SweepEnds` | holds |

`NoChangesMeansSynchronized` is what the agent prints at
`Agent_Call_Services.c:290`, "No Changes. All Files already Synchronized".
`WrittenFileIsWhole` is what it prints at line 536, "File modified and synchronized
with the Mirror Raida".

In short: the agent always ends, and what it writes is the beginning of one
version of the right file as long as frames keep their order. The weak point is
the question it asks. "Changed since the youngest of my files" is wrong as soon as
a run missed anything, because the files that the run did write carry its own
time: the next run is told that nothing has changed. `lost_page` shows it with one
lost datagram. A run that is killed before the end of its list, or that meets a full
disk, misses files too (`quiet_runs` with one fault of kind "kill" or "disk"). These changes of the constants show the same without any fault:

| constants changed | what is missed | code |
|---|---|---|
| `lost_page` with `Faults <- NoFaults`, `FilesCountMax = 1` | files cut off a full report | `Primary_Services.c:420` |
| `lost_page` with `Faults <- NoFaults`, `QuietRuns = FALSE`, `MaxVersion = 2`, `MaxTime = 3` | a file modified while the run is under way | `Agent_Call_Services.c:526` |
| `quiet_runs` with `TzShifts` of the single shift 1 | changes within the time difference of a mirror west of UTC | `Primary_Services.c:469` |

`quiet_runs` shows that these are all there are among the causes modelled: without
them the statement is true (section 4 proves it for any number of files), and everything
is synchronised in the end. With a
mirror east of UTC (the single shift -1) nothing is missed, but the youngest files
are reported, truncated and written anew in every run, so that
`EventuallySynchronized`, which says that files stay synchronised, fails, and in
`lossy_network` `UpToDateIsKept`, which says that no file is truncated when it is up
to date: a run that is killed then leaves less than it found.

More limits are found by changing constants. `WrittenFileIsWhole` needs that
files do not grow between the two `fopen`s (`lost_datagrams` with `QuietRuns =
FALSE`, `MaxVersion = 2`: the file is sent cut off at the old size) and that frames
are not exchanged (`Lengths = {4}`, `AgentFramesMax = 4`, one fault of kind "swap":
two middle frames change places and nothing notices). It says nothing of a disk that
is full at the very `fclose` before the line is printed. A page smaller than the
buffer of the stream is written there and not by `fwrite`, and the result of `fclose` is
not tested (`Agent_Call_Services.c:535`): without `~ DiskIsFull` the property fails in
`lost_datagrams`, and the agent calls an empty file synchronised.

One lost datagram costs at most one file, and so does a full disk, with one
exception. When the first frame of a page of three frames or more is lost, each of the
others is taken for an answer of its own and refused (`Agent_Call_Services.c:60`). The
second of these refusals is that of the next page, whose answer then comes when the
agent waits for the page after it, and so on: no file of the rest of the list
need be fetched. `LossCostsOneFile` therefore says nothing once such a frame is lost
(`faults["head"]`). Without this condition it fails in `lost_datagrams`: one loss leaves
all three files behind. The repository's own page files have 17 frames.

`OpensReportedFile` needs serial numbers
below 2^16 (`small_serials` with a serial of `Half` in `Tree`): `coin_id` is read
from all of `byteObj` after its lower half was set (`Primary_Services.c:515`), so
that a large serial number spoils the coin id of the next file, although the comment
at line 506 says that a coin id is two bytes. It also needs
that every directory has a table id: `RAIDA_Agent.h:182-183` defines
`TABLE_ID_LOSS_COIN_REPORT` and `TABLE_ID_EMAIL_RECOVER`, but `get_ModifiedFiles`
sets no `table_id` for their directories (`small_serials` with a path of place
`"coin"` in `Tree`). (`Agent_Services.h:205-209` numbers the tables otherwise; neither
set of names is used, the code has the numbers of `RAIDA_Agent.h` as literals.)
`TicketIsAsSent` and `AnswerIsReadable` are about requests that are encrypted. One that is
not, of several datagrams and with the length of a look-up, passes the test of its end,
and a part of it is decrypted all the same: `coin_converter` has a client that sends such
requests, and without `ticket.encrypted` both properties fail there. `OnlyUnknownTicketsLeak` is what can be said of database connections: the
return at `udp_socket.c:461` closes none, and with all in use each look-up fails.

`leaked_streams` is about `services` alone: a report cut off leaves a stream open for
every call under way (`OnlyCutOffLeaks` says that nothing else of the scan does), and
when none is left, a scan finds nothing and the agent prints that all is synchronised.

`start_up` shows that a `services` without its files serves nobody, although it
listens: that it goes on after "exiting" (`Services_main.c:52`) does no harm. But the
number is right only if the files hold digits and nothing else. Of a file with a line
feed after the number, 13 is read as 1, 1 as 228 and 4 as 2, in both programs alike.
`ServedByOwnNumber` without its condition `Plain` fails in the run: an agent of
RAIDA 1 is served by the host whose file holds 13 and a line feed.

`network_faults` has duplicated and exchanged datagrams but not `FileIntegrity`,
for the reason just given; `lossy_network` has losses and delays only.

### The bounds, and why they are enough

* Two files (`f1`, `f2`, interchangeable, hence `SYMMETRY` in runs without
  liveness): the smallest number with a first and a later file, a late page of one
  file that meets the request for the other, and one file on the report and one
  off it. `lost_datagrams` has a third, so that two losses can leave one file over.
* Files of up to three frames: a first, a middle and a last frame.
  An unnoticed exchange takes four frames, the first case with two middle ones;
  exchanging the first or the last frame is noticed. What is left of a page whose
  first frame is lost is at most one frame, or two and more, which is what
  `LossCostsOneFile` tells apart; the proof is about any number.
* `MaxVersion` is 2: one version before and one after. With removals, 2 is a file
  that disappears.
* Two runs: whatever one run leaves behind, the next meets. In `quiet_runs` the
  runs never end (`RunsForever`), port numbers go round.
  `MaxTime` is 3 there: seconds for the first state, a change, and a second run. A
  clock that stands still afterwards is part of the model: files of the same
  second are what the comparison `<= 0` is about.
* At most one or two faults of a kind. `LossAndFullDisk` is what `LossCostsOneFile`
  counts with: two losses and a full disk, and one loss of the kind it excepts.
* `ServiceResponses` runs with scaled-down sizes (header 2, id 3, end 2, frame 4
  bytes), chosen so that a response ends short of, at, and beyond a frame, and the
  limit falls within an id, inside a nested directory and after it. The real
  sizes fulfil the same assumptions, and the proofs are about all of them.
* `RequestAssembly`: one request of each of three clients, two of which share a host,
  of one or two datagrams, right or wrong, and one fault: a request under way, a
  datagram of the same host and one of another that come between. Two is the
  smallest number of datagrams a request can be mixed from.
* `FileIds`: the real 2^16, with the serial numbers at its edge.
* `CoinConverter`: two clients, so that there is a nonce of another request, two
  requests each, so that there is one before and one after, of one and of two
  datagrams, encrypted and not; one connection, so that one unknown ticket uses it up.
* `StartUp`: texts of one, two and three characters, with and without a line feed,
  among them two that read alike and one that reads beyond the digits; two
  configurations that agree, disagree, or want the converter's port; one mirror.
* `CoinTester`: five converters, and a limit of select that leaves no descriptor over,
  like a file left open would need. Late answers of any of them meet any later test.

The bounds `MaxVersion`, `MaxRuns`, `MaxTime`, `Faults`, `MaxRequests`,
`MaxFaults` and `MaxReport` are in the guards of the actions they bound. Runs say
`CHECK_DEADLOCK FALSE` where bounds let the system come to rest, or where
`services` has crashed.

### Fairness

`FairSpec` has weak fairness of `ServiceNext` and `AgentRun`: the operating system
lets both processes go on, and a `select` with a time limit returns. Nothing is
assumed of the network; what is lost is lost, and the termination of the agent
rests on the time-outs alone. `RestartedSpec` adds weak fairness of `AgentStart`
(the synchronisation is repeated "every 1 min", as the flowchart has it) and of
`Tick`. `LiveSpec` of `RequestAssembly` has weak fairness of the loop, none of the
clients; that of `CoinTester` of the program, none of the network; that of `StartUp`
of each program and of the agent's runs, which are repeated (nothing is lost there). A client that never stops sending would restart the one-second limit with
each datagram; the model's clients send finitely many.

## 4. What is proved

Theorems are of the form `Spec => []P` or `Spec => [][A]_vars`, for all values of the
constants that fulfil the assumptions beside their declarations. Those about `Integrity`,
`Completeness` and `FileIds` have a further condition, named below. Each
module has a `TypesHold` (`TypeCorrect` in `AgentSync_proofs`).

`AgentSync_proofs`: `InductiveInvariant`, `TypeCorrect`. Types alone are not
inductive: that a frame sent is a frame needs that `services` has frames left to
send, and that a page has an id and a part. `IndInv` adds `ServiceInv` (it keeps a
request while it works on one, the body fits the kind of the request, `sent` is
below the number of frames) and `AgentInv` (a file is written only while a page is
asked for). One lemma per action; `ServiceUnchanged` and `AgentUnchanged` settle
what an action leaves alone.

There too: `NoFileIsMixed` (`FileIntegrity`), `SynchronisationIsReplica`
(`ImplementsReplica`) and `WrittenFilesAreWhole` (`WrittenFileIsWhole`), from the
invariant `UnderWayBelongsTogether`. All that ties
a page to its request is its file id, and frames after the first have not even that;
that a page is never put together from two versions or two files is a property of all
that is under way, which `MixInv` of `Integrity` states:

* each run has its own port, and nothing of an earlier run reaches it (`RunInv`);
* a report names no file twice, so no file is asked for twice in a run (`ScanInv`,
  `ReportInv`, `ListInv`, `AskedInv`), and the request for the current file is the
  last of the run (`LastInv`);
* the frames `services` sends for a request are parts of one version in order, no
  older than what the primary holds (`ServeInv`);
* a first frame of the current file in the queue has only later parts of the same
  version behind it, in order, and `services` has only later ones to send
  (`QueueInv`); what the agent has received is the exact beginning of that version or,
  when a frame was lost, too short ever to be complete (`ReceivedInv`);
* from `fopen` to `fclose`, nothing is under way (`WriteInv`).

They need one another: a file asked for twice would let parts of the first
answer complete the second. The theorems assume what they need: no datagram is
duplicated or exchanged (section 3 says what an exchange does), and no port is used
again (`~ RunsForever`). Losses, delays, kills, full disks, time-outs that come early
and writes of the mirror at any time are all allowed. The refinement then
goes action by action: a write of the mirror is `Publish`, an `fopen` `Empty`, the
first piece `Begin`, the last `Complete`, and all else stutters.

`MixInv` says that what is written is the beginning of one version, not that it is all
of it. For that, `WrittenFilesAreWhole` assumes `QuietRuns`, and `WholePages` follows the
number of parts from the file to the disk: the size counted through the first `fopen` is
still the length at the second (`CountIsRight`), so every page of the run, in `services`,
in the queue and in the agent's buffer, announces all parts of its version
(`PagesWhole`), and what is written together with what is still to write is that many
(`WriteWhole`). A page that lost a frame is never complete and hence never written.

What the theorem excepts is a file whose own `fclose` found the disk full (section 3).

`Completeness_proofs`: `LostDatagramCostsOneFile` (`LossCostsOneFile`),
`ListedFilesAreFetched` (`ReportedFilesSynchronized`) and `NoChangesIsTrue`
(`NoChangesMeansSynchronized`). `MixInv` says what a page may be; these need what is
certain to come, and what cannot have been missed. The first two follow from
`AnswersAreComplete`, whose invariant `LossInv` says:

* a run has one exchange under way at a time, a request or the frames of its answer, and
  it is about the file the agent waits for (`ExchangeInv`); `InSight` counts the frames
  received, queued, and still to be sent, of an answer of m frames (`AnswerOf`). If all m
  are in sight, and the last of them ends with the end bytes, the exchange is `Intact`;
* an answer says what is there: the present version of the file, if it has not changed
  since the run began, and no file only if there is nothing of it (`AnswerInv`); what is
  written together with what is still to write is that version (`WritingInv`);
* the files brought over are counted against the losses: the files the run is done with
  and did not get (`Missed`), and one more if what the agent waits for is no longer
  intact, are no more than the datagrams lost and the disks full (`CostInv`).

The last one is what makes it inductive: a loss that spoils an exchange is paid for when
it happens, and once only, so that the time-out or the refused page that follows costs
nothing more. `ExchangeInv` is what keeps the rest of a spoiled answer from spoiling the
next: when the first frame is gone, the answer had two frames at most (`FirstGone` in
`AnswerOf`), and nothing is left of it when the agent gives it up; when a later
frame is gone, the agent waits for it and gives up when the queue is empty.

Files may have any number of frames. What this takes is `NoHeadLost`: no first frame of
a page of three frames or more has been lost so far, which is the condition of the
property itself. The invariant is therefore `NoHeadLost => LossInv`: once such a
frame is lost, nothing is claimed for this run and the ones after it. `InTime` is what is
assumed of the constants: answers in time (`Timely`), a port for each run, no
duplicates or exchanges, and files that do not disappear. Losses, full disks, kills, writes
of the mirror at any time, time zones and cut-off reports are all allowed.
`ListedFilesAreFetched` further has no losses and no full disks.

For `NoChangesIsTrue`, `StaleInv` follows the files that the primary lacks (`Stale`).
Between runs each is younger than all that the primary has (`YoungerThanAll`), so it is
newer than the time the request names; then it will be found by the scan, or is in the
part of the report that is received, queued or still to be sent (`WillBeFound`, `InReport`);
then it is on the agent's list; and at the end of the run, by `CostInv` without losses,
nothing is stale, which is what the next run starts from. `Calm` is what this takes, and
section 3 shows for each condition what goes wrong without it: no losses, no kills and no full disks, the
mirror changes between runs only, no shift to a later time, and room in a report for all
files. That a report which is full names every file (`FullReport`) is counting: it names no
file twice. In these theorems a port is never used again, while in `quiet_runs` there
are two that take turns.

`UpToDateFilesStay` (`UpToDateIsKept`) is the converse, that nothing is fetched in vain,
and holds far beyond `Calm`: whatever is lost or late, whenever runs are killed or disks
are full, and whenever the mirror writes. `KeepInv` says why. A file of which the primary
has a part of the present version is no younger on the mirror than on the primary
(`TimesInv`), because it was read there before it was written here; a request for
changes names a time no file of the primary exceeds, and so does what `services` compares
with (`AskedForOld`); so what it names, and what of the list is still to be asked for,
is not up to date (`ListedOld`). `InOrderOfTime` is the price: no datagram doubled or
exchanged, a port for each run, and no shift to an earlier time. That the page, when it comes
at last, is written to the file the list says is `MixInv`.

`ServiceResponses_proofs`: `BufferNeverOverrun`, `AnnouncedIsSent`,
`AgentTakesEveryResponse`. The invariant `IndInv` says that there is room for one
more id whenever the scan goes on (`ScanInv`), and that the bytes left are more
than fill the frames left but one, and no more than fill them all (`SendInv`). The
division is dealt with once, in `FrameCount`. Without the second test of the
limit, the one after a nested call, `ScanInv` does not hold.
`ReportNamesAll` (`ReportIsComplete`) adds `LevelInv`, that the calls under way go down the tree
level by level, so that a scan that has its streams reaches the bottom, and
`CoverInv`: a newer file is named or is still to come in one of the calls.
`StreamsLeakOneByOne` (`OnlyCutOffLeaks`) compares each action's streams with its calls.

`RequestAssembly_proofs`: `NoMixedRequest`, `AnswersReachTheirHost`. `OneHostInv`
adds that there is a first datagram to compare with and that nothing was answered
before a request is complete. `WholeRequestsOnly` (`OnlyWholeRequestsExecuted`) is about
the numbers of datagrams, which the code does not look at: `StreamInv` says that,
without faults, the next datagram of a client, in the socket or still to be sent, is
the next of its request, so that a loop that keeps to one host (and thus, when no two
clients share one, to one client) gathers the request from its beginning (`AssembledInv`).

`FileIds_proofs`: `ReportedFileOpened`, `OpenedFileWritten`, both under
`SerialsFitHalf` and `TablesAreKnown`; section 3 says what happens without them.
`IdInv` says that both copies of `byteObj` have an empty upper half.

`CoinConverter_proofs`: `UnknownTicketsLeak`; `TicketsAreAsSent`, `AnswersAreReadable`
and `TypesHold`, for any requests, encrypted or not. `LookedUpAsSent` is the heart: an
encrypted request that passes the test of the end is one datagram, decrypted with its own
nonce, since of any other the end is still encrypted when it is compared.

`StartUp_proofs`: `ConfiguredServe`, `OwnNumberServes`. `StartInv` says what each program
has in its globals at each place (`GlobalsInv`), that a request and an answer under way
belong to the agent's present run, and that an answer with a report comes from a
`services` that has read both files and has the agent's number (`Served`). What makes
it inductive is that a program listens to the end, with its globals as they were.

`CoinTester_proofs`: `SuccessIsOwn`, `FailIsSilence`. `DescriptorsInv` says that the
descriptors in use are the lowest ones, without a gap, at most one for each
converter tested so far; the socket in use is the last of them, which is why closing
it leaves no gap, and why it stays below `WatchedMax`. `PortsInv` keeps the ports apart.

Only model-checked: liveness (`AgentTerminates`, `EventuallySynchronized`,
`ComesBack`, `WellConfiguredIsServed`, `SweepEnds`), which is out of the prover's reach.
Every other property of the runs that pass is a theorem.

## 5. What is not modelled

* Keys: the code does not reach them.
* The drafts `Primary_Report_Changes.c` and `Primary_GET_Page.c`: superseded by
  `Primary_Services.c`, and they do not compile.
* `udp_client.c`: sends one request typed in at the terminal and waits for the answer
  without a time limit.
* `execute_echo` of the coin converter server, which nothing calls; `port_mirror_agent`
  and the witness's address, which are read and not used.
* `readlink` in `getcurrentpath` does not end its result with a 0 byte: the models take
  the path to be that of the program.
* Requests beyond the request buffer, files beyond the response buffer.
* What the flowcharts say of server restarts, witness and change of roles: there is
  no code for it.

## 6. Plan

Done, in this order: the synchronisation (`SyncBase` to `Replica`), responses,
requests, file ids, the coin converter, start-up, the test program; type correctness
of each and the main safety properties proved, for the synchronisation
`FileIntegrity`, `WrittenFileIsWhole`, the refinement of `Replica`, and what a run brings
over, leaves behind, and leaves alone.

Left, most important first:

1. The calendar fields of the request, from modification time to fields to `mktime`,
   against a reference definition.
