# A verification of the PKU network labs

TLA+ modules, TLC configurations and TLAPS proofs about the programs of this
repository. There are two subjects: lab 2, RTP, a reliable file transfer over
UDP by two processes, `sender` and `receiver`; and lab 1, myFTP, interactive
clients and a server with a thread per connection, over TCP.

Source paths below are relative to `src/`; `sender.cpp`, `receiver.cpp`,
`rtp.h`, `test.cpp` are those of `2024-lab2-rtp-jiacongfang/src/`, and
`ftp_*` those of `2024-lab1-myftp-jiacongfang/`.

## 1. Inventory

| part | state | operations | interacts by |
|---|---|---|---|
| RTP sender (`sender.cpp`) | retry counters, `base`, `window`, `data`, file position, `num_packets`, `last_seq_num` | SYN loop, 2 s wait, data loops of RBN (go-back-N) and SR (selective repeat), FIN loop, 2 s wait | datagrams to the receiver, replies from it, 100 ms and 2 s timers |
| RTP receiver (`receiver.cpp`) | retry counter, `base` = `exp_seq_num`, `window`, `data`, the output file, descriptors | listening 5 s, SYNACK loop, data loop (5 s), FINACK loop (2 s) | datagrams, timers, the output file |
| packet format (`rtp.h`, `util.h`) | none | flags, numbers modulo `MAX_SEQ_NUM`, payload of `PAYLOAD_MAX` | used by both |
| checksum (`util.cpp`) | a table | CRC-32 of a packet | used by both |
| test driver (`test.cpp`) | two child processes | runs a pair with faults, compares the files | command lines, exit codes |
| FTP protocol (`ftp_head.h`) | none | `safe_send`, `safe_recv` (which ends at a zero byte) | used by client and server |
| FTP server (`ftp_server.cpp`) | per connection: directory, socket, buffers; shared: the files | OPEN, LIST, CD, GET, PUT, SHA256, QUIT, one thread per connection | TCP streams, the file system |
| FTP client (`ftp_client.cpp`) | `info`, `sock` | open, ls, cd, get, put, sha256, quit | a TCP stream |
| ns-3 dumbbell (`dumbbell*.cc`) | none of its own | builds a simulation | the ns-3 library |
| `hellonetwork.cpp` | none | prints | nothing |

What is hard in RTP: two processes that share nothing but a network that loses,
corrupts, repeats and reorders; two windows that must agree on which packet a
number stands for, in a number space that wraps; acknowledgements of two
kinds; retry limits and timers of three lengths that decide when each side may
leave; integer types narrower than what they count.

What is hard in FTP: a stream has no message boundaries, and `safe_recv` looks
for them at zero bytes; neither end checks the type of most of what it
receives, so one message too many or too few shifts every later one; sessions
share files without locks, and a process whose death by SIGPIPE ends them all;
`info` and `sock` of a client, and the buffers of a thread, outlive what they
describe.

`PROJECT.json` lists each such place as a hazard, at its line, with the
properties that watch it.

What makes each part correct:

- sender and receiver together: the output file is always a prefix of the
  input; the sender believes only what is so; the sender's success is of all the packets
  it counted; the closing numbers agree; both sides leave, and leave together; nothing is lost for ever when the
  network loses only finitely much.
- FTP client and server: request and reply stay in step on the stream; every
  stored file is made of pieces of real files; a download is what a file held;
  a command comes back to the prompt; a session whose client is gone ends; no
  client brings the server down by leaving in good order.
- `safe_recv`: a message without a zero byte before its end is received whole,
  however TCP cuts it; any other is cut short only behind a zero byte; it fails
  only when the message cannot come.
- checksum: a corrupt byte, or a burst of up to four, changes it.

## 2. Modules

| module | content |
|---|---|
| `RtpPacket` | constants and their assumptions; sequence-number arithmetic; how a file is cut; packets |
| `RtpNetwork` | the two directions of the network, faults, the passing of time |
| `RtpSender` | `sender.cpp`, one action per outcome of each `select()` |
| `RtpReceiver` | `receiver.cpp`, likewise |
| `Rtp` | both processes and the network composed; the properties |
| `FileTransfer` | the abstract specification that `Rtp` implements |
| `RtpInvariant` | the inductive invariant `IInv`; what ordered replies say (`AcksInOrder`) |
| `RtpArithmetic` | proved lemmas about arithmetic modulo `MaxSeqNum` |
| `RtpProofs` | the proofs about `Spec` |
| `RtpOrderProofs` | the proofs for networks that keep replies in order |
| `MCRtp` | the RTP instances TLC checks, one `.cfg` per run |
| `Crc32` | `util.cpp`: the table, its construction, the loop, bit by bit |
| `Crc32Proofs` | a corrupt byte, and a burst of as many as a word has, is detected |
| `SafeRecv` | `safe_send` and `safe_recv` of one message, byte by byte, over a stream TCP cuts in any way and that ends by a close or a reset |
| `SafeRecvProofs` | what `safe_recv` returns, proved |
| `MCSafeRecv` | the instance of it TLC checks |
| `FtpHead` | the messages (`ftp_head.h`), and what a receiver makes of one it did not expect |
| `TcpStream` | connections: what `send`, `recv`, `close`, `SO_ERROR` show to the programs |
| `FtpServer` | `ftp_server.cpp`: the sessions, the files, the death of the process and its restart |
| `FtpClient` | `ftp_client.cpp`: the command loop and every command |
| `Ftp` | clients, server, connections and files composed; the properties |
| `FileService` | the abstract specification that `Ftp` implements |
| `FtpInvariant` | `TypeInv` and the inductive invariant `IInv` of `Ftp` |
| `FtpTypeProofs`, `FtpProofs` | the proofs of its invariants |
| `FtpRefinement` | the proof that `Ftp` implements `FileService` |
| `MCFtp` | the FTP instances TLC checks |

### RTP: state and actions

Each process is sequential and blocks only in `select()`; between two calls of
`select()` it does what follows from the datagram or the timeout alone. So a
phase (`sPhase`, `rPhase`) names the `select()` a process is blocked in, and
an action is everything the code does from there to the next one: `SDataReceive`, for
example, is the `recvfrom` at `sender.cpp:363` or 607, the length, checksum
and flag tests, the window update with the packets it sends, and, when the
last packet is acknowledged, the first FIN. The variables keep the names of the code where they can:
`sBase`, `sWindow`, `sData`, `sRemaining` (`num_packets`), `sLast`
(`last_seq_num`), `rBase` (`base` and `exp_seq_num`, which start equal and only
advance together), `rWindow`, `rData`, `written` (the output file).

`base` moves by a loop in all three places. The model takes it in one
step of `n` packets: `RbnSteps`, `AckedRun` and `ReceivedRun` say which `n` the
loop condition gives, `Slide` and `RStore` what `n` rounds do.

Details kept because the behaviour depends on them: the SYNACK's number is
reduced modulo `MAX_SEQ_NUM` and the number it is compared with is not; the
RBN loop compares numbers as integers; RBN keeps one key past its window; SR's
last number is not reduced; the first burst of the data loop repeats the first
window at once; a timed-out FIN loop sends an extra FIN; an absent key of
`data` reads as the empty string, which is also what the empty last packet
holds; `num_packets` and the receiver's `window_size` are `uint16_t`; when
`num_packets` has wrapped to 0 the FIN carries an uninitialised `u_int32_t`, any
of its values in the model (`SkipFile`, `Uint32`), those above `MaxSeqNum`
included; each stored packet leaks a descriptor.

### RTP: abstractions

- A payload is the index of its chunk of the file, or `NoData`. File content
  plays no part in any decision but for its length.
- A corrupted datagram is `Junk`: the checksum is assumed to catch every
  corruption. `CorruptBurstDetected` proves that of a burst of up to four
  bytes of what is summed; that others may slip through, with probability 2^-32, is not modelled.
- `toReceiver` is a set, so order is free and equal datagrams in flight count
  once; `toSender` is a queue, because `NoAbort` depends on its order. With
  `"reorder"` any element of the queue may be taken, with `"duplicate"` a taken
  datagram stays in flight and may come again at any time.
- `rand()` is never seeded, so the real `init_seq_num` is one fixed value;
  `InitSeqNums` lets it be any of several.
- Both processes are started in the same mode, and the receiver's port is
  reachable. Failures of `socket`, `bind`, `select` and of the receiver's first
  `fopen` are left out.
- `receiver.cpp:230` reads the SYN through a pointer into a block that has
  ended. Nothing is stored on the stack between the end of the block and the
  read, so the debug build `CMakeLists.txt` asks for reads the SYN's number, and
  the model does.

### FTP: state and actions

A client process and a session thread each block in one `safe_recv` at a time,
or work on a file. `pc` (of `client[c]`, of `session[s]`) names the place, and
an action is what the code does from there to the next. A reply or request of
two `safe_send`s goes out by two steps, from `out`. A `safe_send` may succeed,
fail once (after a reset) or raise SIGPIPE, which no program ignores: it ends a
client, and of the server every thread (`Killed`). Each use of the server's
file system is a step: `is_regular_file` (in `RecvName`), `file_size`
(`FileSize`), reading (`ReadFile`), `sha256sum`, opening for writing, which
empties the file, and writing. A client's own files belong to its process
alone, and reading or writing one is part of the step that needs it.

The fields keep the names of the code where they can: `cwd` is `current_dir`,
`req` `request_buffer`, `size` `file_size`, `buf` `file_content`, `info` and
`sock` the client's globals. Details kept because behaviour depends on them:

- The result of the server's receive of a request is a `size_t`, tested
  `< 0`: a session whose client has gone carries out its last request again
  (`RecvRequest`), and before its first one what an ended thread has left on the
  same stack (`StaleRequests`), until a send fails.
- After `PUT_REPLY` whatever header comes is taken for `FILE_DATA`; most
  replies are taken without a look at their type. `StatusIn`, `SizeIn`,
  `NameIn`, `ContentIn` say what a receiver may make of the wrong message.
- `list_files` asks for 2048 bytes and so takes the header alone, or header and
  listing together, as TCP delivers them (`ListTaken`). With `ListJoined` they
  always come together.
- `open` at a prompt that shows a connection calls `connect` on a connected
  socket, which fails: the socket is closed and `info` stays (`OpenAgain`).
- `quit` whose reply is lost, or any failing command, goes through -1, which is
  true; what remains of `info` and `sock` is in `GiveUp`, `Idle` and `Drop`.
- `check_server_status` clears the error it reads.

Restart: after SIGPIPE the server process can be started again (`Restart`), any
time later; `bind` without `SO_REUSEADDR` may refuse for a while, which is a
later restart. It has the files, and none of the connections: their clients
hold dead sockets while the new process accepts others.

### FTP: abstractions

- A header is a message of its own, and each `safe_recv` takes one message.
  `SafeRecv` shows when that is so: a name, a listing, a sum or a text file has no zero
  byte before its end, and is received whole however TCP cuts it
  (`TerminatedIsWhole`). A header has zero bytes, and a binary file may: they are
  received whole if they arrive in one piece, and otherwise cut short
  (`CutOnlyAfterZero`). The session modules leave that out: `RecvFileContent`
  and `RecvGetContent` take the content of a file whole. So what is said of
  sessions (`FilesAreMerges`, `InStep`, `RepliesMatch`, `ServerOutlivesQuits`,
  `CommandReturns`, `SessionEnds`, `ImplementsFileService`), by runs and by
  theorems, is said of text files. The programs open files in binary mode and
  transfer others too: of these a receiver may store bytes that were never in
  any file, and leave the rest in the stream for the next receive.
- The runs that hold have `ListJoined` TRUE: a listing arrives together with its
  header. TCP does not guarantee it. What a late listing does is shown by
  `ftp_desync` alone.
- A file is a sequence of at most two blocks, a listing or a digest one value.
- A listing that is taken for another message is no longer than the receive
  that takes it; a reset reaches its peer at once.
- Two directories, each with an entry that leads to the other, stand for a tree.
- `Conns` bounds how many connections are made in a run.
- Left out: failures of `socket`, `bind`, `listen`, `pthread_create`, `popen`;
  failing writes of a local file; exceptions of `std::filesystem`; usage
  messages. A local file that cannot be opened for a `put` is in the model
  (`Unreadable`), empty in every run: the server would take the next request
  for the file, and no property of the conversation would survive.

## 3. Runs

RTP instances have `MaxSeqNum` 10, `U16` 5 and `PayloadMax` 2. The number space is
then twice the packet count, as the assumptions require, and wraps inside a file;
`NumPackets` wraps to 0 at 8 bytes; a file of three to four packets is longer
than a window, so the window slides, is partly filled and drains.

| run | specification, faults | checks | result |
|---|---|---|---|
| `rtp_safety` | `Spec`; corruption, duplication, reordering, timeouts at any moment; 4 packets, windows 3 and 2 | `TypeOK`, `PrefixWritten`, `AckedIsStored`, `SuccessMeansDelivered`, `CloseAgreement`, `CloseNumbersAgree`, `DescriptorsSuffice`, `NothingForgotten`, `IInv`, `ImplementsFileTransfer` | hold |
| `rtp_fifo` | `Spec`; replies in order, up to 2 losses and corruptions either way, timeouts at any moment; 4 packets, windows of 2; one descriptor too few for the last packet | `AcksInOrder`, `DescriptorsSuffice`, `NoAbort` | hold |
| `rtp_live` | `FairSpec`; up to 3 data packets lost or corrupted; 4 packets, windows of 3 | `TransferCompletes` | holds |
| `rtp_connect` | `FairSpec`; all faults but duplication, up to 4; `num_packets` wrapped to 0, or no input file | `BothEnd` | holds |
| `rtp_abort` | `Spec`; two replies reordered, RBN | `NoAbort` | violated |
| `rtp_ackloss` | `FairSpec`; one reply lost, SR | `TransferCompletes` | violated |
| `rtp_empty` | `FairSpec`; one data packet lost, file of 4 bytes | `TransferCompletes` | violated |
| `rtp_report` | `FairSpec`; the sender's file is missing | `ReceivedMeansWhole` | violated |
| `ftp_recv` | `FairSpec` of `SafeRecv`; messages of up to 5 bytes with up to 2 behind, every cut, a peer that may close, a connection that may be reset | `TypeOK`, `TerminatedIsWhole`, `CutOnlyAfterZero`, `FailureMeansLost`, `Returns` | hold |
| `ftp_session` | `FairSpec`; one client, every command, two connections, two directories; killed at any moment; server restarts | `TypeOK`, `InStep`, `RepliesMatch`, `FilesAreMerges`, `IInv`, `ServerOutlivesQuits`, `ImplementsFileService`, `CommandReturns`, `SessionEnds` | hold |
| `ftp_share` | `Spec`; two clients put and get one name, files of one and two blocks, one client killed at any moment | `FilesAreMerges`, `ImplementsFileService` | hold |
| `ftp_desync` | `Spec`; one client, `ListJoined` FALSE | `GetReceivesGetReply` | violated |

`rtp_safety` starts at three values of `init_seq_num`: one that keeps the
whole run below the wrap, one that wraps inside the file, and
`MaxSeqNum - 1`, with which no connection can be made. In that run loss needs
no action: with timeouts at any moment a datagram that is never taken is lost.

RTP bounds: `MaxFaults` (losses and corruptions; repetition and reordering are not
counted), `SocketBuf` (the sender's receive queue; what exceeds it is lost, as
in a real socket, and the safety run checks with 10), `ResendMax` (50 in the
code; 3 or 5 here: enough for a handshake to lose each of its packets and for
the limit to be reached), `FdLimit` (4 in `rtp_fifo`, so that the receiver
stores three packets and dies at the fourth; never reached in the others). A wider instance adds no case: windows of
two and three already have an inside, an edge and a slide of more than one.

FTP bounds: with two connections a client opens again after a quit, a failed
command or the server's death, and a session that goes on without its client
meets one that has one; files of one and two blocks are enough for an upload
that leaves the tail of another and for a download that finds less than it
measured. `ftp_recv` has messages long enough for a zero byte at the start, in
the middle and at the end of a piece, with pieces before and behind.

Deadlock is checked in every run but `ftp_recv`, which ends when `safe_recv`
has returned: apart from `Finished` some timer, datagram, message or command is
always pending.

### Fairness and time

`FairSpec` asks for weak fairness of `Sender` and of `Receiver`. A process
blocked in `select()` with a timer does return, by a datagram or by the timer,
so each process that is able to step for ever eventually does. There is no
fairness of the network's faults.

In the liveness runs `Prompt` is TRUE: a 100 ms timer fires only when nothing
is in flight to a process that still runs, and a 2 s or 5 s timer only when, in
addition, the peer is not itself about to send something by a shorter timer. This is the
assumption the constants of the code make, that a round trip takes well under
100 ms and a retry well under 2 s. Without it both liveness properties fail
trivially: a receiver may wait 5 s for the first SYN and leave. The safety runs
have `Prompt` FALSE, so that safety owes nothing to timing.

In `SafeRecv`, `FairSpec` asks that TCP delivers what it has accepted
(`WF_vars(Arrive)`) and that the loop of `safe_recv` goes on; a peer need not
send or close, and no connection has to break.

In FTP, `FairSpec` asks for weak fairness of each session thread and of each
client process once a command has been typed: the kernel schedules them, and a
blocked `recv` of an ended connection returns. Users type when they like, and
nobody needs to restart the server: neither is fair.

### What the violated runs show

- `rtp_abort`: acknowledgements 1 and 2 of an RBN run arrive in the order 2, 1.
  The second is behind `base`, no longer a key of `window`, and
  `sender.cpp:402` exits with `LOG_FATAL` although the line after it, and the
  SR loop, mean to ignore it. With FIFO replies it cannot happen (`rtp_fifo`,
  and `NoAbortTheorem` for every instance): that base itself stays a key, and
  that RBN has a key past its window, are both needed.
- `rtp_ackloss`: packet 0 is written and its acknowledgement lost. The sender
  resends it; the receiver's window has moved on, and `receiver.cpp:354` drops
  the packet silently. RBN recovers as long as a later packet of the window is
  acknowledged again; SR never does.
- `rtp_empty`: the empty packet at the end of a file of n * `PAYLOAD_MAX` bytes
  is lost; `length() != 0` excludes it from every resend.
- `rtp_report`: the receiver reports success after a timeout.
- `ftp_desync`: a user lists and gets a file. The listing arrives after its
  header and stays in the stream; the get takes it for the `GET_REPLY`, and
  the real reply for `FILE_DATA`. Where listings arrive with their header and
  local files can be read it never happens (`GetTheorem`).

### What no run can show

- `RListenReceive` keeps the branch of `receiver.cpp:142` for an intact datagram
  that is no SYN. No run reaches it: a sender sends nothing but SYNs until it
  has been answered.
- Two stalls at the wrap are in the model and stated by no property, because the
  unseeded `rand()` never starts a run there: an RBN acknowledgement from behind
  the wrap compares less than `base` and moves nothing (`sender.cpp:410`), and
  `init_seq_num + 1 = MAX_SEQ_NUM` matches no SYNACK (`sender.cpp:229`). Safety
  is checked and proved for these starts; `rtp_live` starts below the wrap.
- SR does not reduce its last number, so when a file's last packet ends the
  number space the FINACK, which is reduced, is refused at `sender.cpp:689`
  until the retries are used up. The unseeded `rand()` keeps real files away from
  there. `CloseNumbersAgree` says that this is the only case: in every other one
  the FINACK that comes is the one the sender waits for.

### Two limits

Two properties say exactly where a limit of the code lies, and so also what
happens beyond it.

- `SuccessMeansDelivered`: `num_packets` is a `uint16_t` (`sender.cpp:294`). A
  sender that reports success (`sender.cpp:821`) has transferred the whole file
  if it has fewer than 65536 packets, some 96 MB; of a longer one the count
  modulo 65536 is sent, and the same is reported.
- `DescriptorsSuffice`: the receiver leaks a descriptor (`receiver.cpp:364`) per
  packet stored, never one per packet received. With more descriptors than the
  file has packets no transfer dies of it, whatever is repeated; otherwise the
  file never arrives, and the sender resends for ever (`RStoreFails`, reached in
  `rtp_fifo`). `test.cpp:200` makes files of 2 MB, which are 1436 packets, and
  `test.cpp:214` asserts that their transfer succeeds: under the usual limit of
  1024 open files the receiver of this repository cannot pass it.

### Mutants

Next to some definitions stands a mutated one (`RbnStepsPast`,
`FinAckedAnyFlags`, ...), which changes it as a plausible bug would. With the
mutant in place of the definition, the property named for it in
`PROJECT.json` is violated in its run: each property can be broken by the code
it is about.

## 4. Proofs

### RTP

`RtpProofs` proves, for every file size, window size, sequence-number space and
every choice of faults allowed by the assumptions,

    Spec => []IInv               Invariance
    Spec => []TypeOK             TypeCorrect
    Spec => []PrefixWritten      PrefixTheorem
    Spec => []AckedIsStored      AckedTheorem
    Spec => []SuccessMeansDelivered   SuccessTheorem
    Spec => []CloseAgreement     CloseTheorem
    Spec => []NothingForgotten   ForgottenTheorem
    Spec => []CloseNumbersAgree  CloseNumbersTheorem
    Spec => []DescriptorsSuffice DescriptorTheorem
    Spec => FT!FTSpec            Refinement

and `RtpOrderProofs`, where `Orderly` says that the network may swap replies
only if RBN is not run,

    Orderly /\ Spec => []AcksInOrder   OrderTheorem
    Orderly /\ Spec => NoAbort         NoAbortTheorem

Assumptions (`RtpPacket`, `RtpNetwork`): `2 * U16 <= MaxSeqNum` (2^17 against
2^30) and `SenderWindowArg + U16 <= MaxSeqNum`, so that no two packets of a
file and no two keys of a window share a number; windows and `PAYLOAD_MAX`
positive. The window argument of the code is an unchecked `uint32_t`: the
assumption on it is a condition on the command line, not something the program
enforces. Any `MaxSeqNum` that meets them is covered, so runs that wrap are.

The invariant. None of the properties is inductive. What is missing is what
the packets in flight mean: `PrefixWritten` needs that a data packet, however
old, carries the chunk its number stands for; `AckedIsStored` needs that a
reply, however old, acknowledges what the receiver holds. `IInv` adds

- `MessagesOK`: every datagram and reply in flight says only what is so, of
  some packet index `n` with number `PacketSeq(n)`;
- `SenderOK`: `base` is the number after the packets counted off, `data` holds
  exactly the chunks read, an SR mark means that the receiver holds the packet,
  an RBN mark is set for all that is outstanding, the window is full;
- `ReceiverOK`: `base` is the number after the packets written, what the window
  marks is in `data` under its own number, the packet at `base` is missing, and
  no packet is held that has not been read.

Both sides speak of packet indices, and numbers occur only as `PacketSeq(n)`.
`RtpArithmetic` proves that this is one-to-one below `MaxSeqNum`, what a window
is in terms of indices, and how windows slide; no other proof reasons modulo
`MaxSeqNum`.

The step. Frame lemmas (`SenderFrame`, `SenderFrameClosing`, `ReceiverFrame`,
`FaultFrame`) dispose of the actions that leave windows and files alone,
handshakes, retries and faults among them. Four lemmas carry the content:
opening the window, sliding it, marking in it (`OpenWindowOK`, `SlideOK`,
`AckMarkOK`) on the sender's side, and storing (`StoreOK`) on the receiver's. The one asymmetry is that
the receiver's advance must keep every old reply true, which holds because
what it has stored only grows, and the sender's must keep every old data packet
true, which holds because the chunks read only grow.

Beyond the `uint16_t`. What is written has been read, and what is read has been
counted, so a file written whole fits the counter (`WholeIsCounted`).

Descriptors. `rOpen` counts the packets stored (`Stored`: written, or held in
the window). `StoreOK` says that a store makes just the arriving packet stored,
`HeldRoom` that it was not before, and `SameHeld` that every other step leaves
the set as it is; so the set grows by one with each descriptor, and
`NumPackets` bounds it. The store that completes the file happens at base,
where two descriptors are needed (`RoomFor`) and one less than there are packets
has leaked.

Closing numbers. A FIN carries `last_seq_num`, which is computed by another rule
in RBN and in SR; a FINACK carries the receiver's `base`, which is what it has
received. `FinInv` says of every FIN in flight that it carries `sLast`, and of
every FINACK that it carries `rBase`; both stand still once there is such a
packet, and every packet is then written (`SlideCloses`). `RbnLast` and `SrLast`
compare the two rules with the number after the last packet: they agree with it
always, and unless it is the end of the number space, respectively.

Order. `NoAbort` is an action property: the sender, with RBN, must not take an
acknowledgement that is no key of its window. `MessagesOK` bounds what a reply says
from above, by what is written; `AcksInOrder` adds that replies in the queue
never step back, and that the first says no less than the sender has counted
off. It is inductive with `IInv`: what the receiver appends is what it has
written, which is at least what anything in flight says (`ReceiverInOrder`);
loss and corruption take elements away or make `Junk` of them
(`RemoveAtOrder`, `NetworkInOrder`); the sender takes the first and slides to
no more than it says (`RbnStepsReach`, `SenderInOrder`). The number acknowledged is then
between base and base plus the outstanding packets, both included, and RBN keeps
a key for each of these (`AckInWindow`). Without `Orderly` the property is false
(`rtp_abort`). SR needs no order: its loop ignores what it does not hold.

Refinement. Under the invariant a write is `Deliver`, a slide is `Confirm`
(`AckedIsStored` bounds it), the exit of the sender is `Report`, and every
other step is a stutter.

### Checksum

`CorruptBurstDetected`: for any two packets of one length that differ only
within `m` bytes in a row, where `8 * m` is at most the word size, the checksums
differ; `CorruptByteDetected` is its case `m = 1`. (The bytes are those that are
summed, with the checksum field zero. Damage to that field alone is noticed
without proof; damage to it and to its neighbours at once is not covered.) No run
evaluates the module; it assumes nothing but that a word has 8 bits or more and
the polynomial its highest bit. A round of `crc32_for_byte`
shifts a word down and adds the polynomial if the bit shifted out was 0; since
the polynomial's highest bit is 1, the highest bit of the result tells which,
so a round can be undone. Eight rounds undone lead from the highest byte of a
table entry to its index (`Round8Undone`, `TableInjective`), and `crc >> 8` has
no highest byte: a step of the loop neither merges two registers
(`StepKeepsApart`) nor two bytes. For a burst the same is done further: the
highest bits of the register after a step, as many as are known, give the table
index used in it and the bits of the register before that `>> 8` has kept
(`StepUndone`). Were the two checksums equal, the registers after the burst would be
too; undone step by step, last byte to first, they must have used the same table
indices (`EqualStretch`), and since they were equal before the burst, each byte
follows from its index, first to last (`IndexSetsApart`). Positions in the packet are
handled by the least number at which the computations would differ, or meet,
too soon (`LeastNat`).

### `safe_recv`

`SafeRecvProofs` proves, for messages of any length and any content and every
cut, `TypeOK`, `TerminatedIsWhole`, `CutOnlyAfterZero` and `FailureMeansLost`
as invariants of `SafeRecv`'s `Spec`. The stream may end by the peer's close,
after which all that was sent still arrives (`recv` returns 0 behind it), or by
a reset, which loses what is under way (`recv` returns a negative number).
`FailureMeansLost` keeps the two apart: after a close, -1 means that the peer had not
sent the whole message; after a reset it may have, and -1 means only that not
all of it came. `RecvInv` is the invariant behind them: a loop that runs has
seen no zero byte and not all of the message, one that has returned did so for
one of the reasons in the code.

### FTP

`FtpTypeProofs` proves `Spec => []TypeOK` (`FtpTypeCorrect`) for any number of
clients, connections, files and directories and whatever the constants. Types need more
than types: a thread that reads a file needs its name and the file to exist, a
client that waits for a reply needs a socket. `TypeInv` is that strengthening,
process by process, and it holds even where conversations have gone out of step.

`FtpProofs` proves, with `Quiet` (`ListJoined` TRUE and `Unreadable` empty, as
in the passing runs; `ftp_desync` shows that the first is needed, and TCP does
not promise it), and of files whose content is received whole, that is of text
files,

    Quiet /\ Spec => []IInv                     FtpInvariance
    Quiet /\ Spec => []FilesAreMerges           FilesTheorem
    Quiet /\ Spec => []InStep                   InStepTheorem
    Quiet /\ Spec => []RepliesMatch             RepliesTheorem
    Quiet /\ Spec => GetReceivesGetReply        GetTheorem
    Quiet /\ Spec => ServerOutlivesQuits        OutlivesTheorem

and `FtpRefinement`

    Quiet /\ Spec => ImplementsFileService      RefinementTheorem

(`FilesAssumption` and `NothingAssumption` of `Ftp` say that the files to begin
with are files, and that the value for no transfer is none; the others are in
`FtpHead`, `FtpServer` and `FtpClient`, and say as little.)

No invariant is inductive. `InStep` speaks of a client at its prompt; to keep it one
must know what is on its way at every other moment, at both ends. `Live` lists
these moments: the client's request is on its way and nothing comes back
(`Asked`, behind what is left of an upload), or its reply is, and nothing
goes out (`Answered`). A reply and the file content in it are described by
position, so that the start of a reply that is well formed is well formed: that
is what survives when an end closes. `DownOK` says what a client still
finds of a server that has gone, `UpOK` what a thread finds of its client; a
thread that is behind its client processes requests that nobody waits
for, and `Orphan` says that it can raise SIGPIPE only with a reply of two
messages or a repeated request, which is `ServerOutlivesQuits`. `RepliesMatch`, that each
receive finds the type of message it is written for, reads off `Answered` while
both ends are open and `DownOK` when the server has gone. `FilesAreMerges` needs
that data in flight are merges too (`IsData`) and that a read, if not short,
has the length of a file (`ContentOK`).

The step. `ServerFrame` and `ClientFrameInv` reduce a step of one process to
its connection; `RecvFrame`, `ReplyFrame` to what a received message was,
`LocalFrame` to the thread, `LiveFrame`, `GoneFrame` and `CloseFrame` to the
client with its peer there, gone, or being left. The actions then are cases of
`Live`, `DownOK` and `UpOK`. `KilledInv` and `RebootInv` treat all
connections at once: every client's end falls back from `Live` to `DownOK`, and
a restart finds and leaves it so.

The refinement. A download of `FileService` is the content on its way to a
client that still has its connection, an upload the content on its way to a
thread that waits for it or has it in its buffer: `readings` and `writings` in
`Ftp`. Both are chosen from what the streams carry, and the invariant says that
they never carry two (`TransfersThere`). Only these steps start or end a transfer
as it should, or touch a file: `ReadFile` is `Fetch` (or, with the client gone, nothing), `RecvGetData` and `RecvGetContent` are
`Deliver`, `RecvPutReply` is `Submit`, `OpenForWriting` is `EmptyFile` and
`WriteFile` is `Store`. For every other step it is enough that it brings no
content into a stream, or only content that was on its way to the same place:
then it is `Abandon` of the transfers that it loses, whatever they are
(`AbandonStep`, `ServerAbandons`, `ClientAbandons`; `KilledAbandons` and
`RestartAbandons` for all connections at once).

### Checked by TLC only

- The liveness properties `TransferCompletes`, `BothEnd`, `Returns`,
  `CommandReturns` and `SessionEnds`, which are beyond the prover.

## 5. What is left

1. A theorem about uploads with unreadable local files (`Unreadable`): what of
   the conversation survives a `put` that sends no data (`ftp_client.cpp:384`).
2. The checksum on a burst that crosses the edge of the checksum field itself.

## 6. Not modelled

- The ns-3 lab (`dumbbell.cc`, `dumbbell-base.cc`) describes a topology and
  traffic for the ns-3 simulator. It has no state or operations of its own: all
  that happens in it is done by the ns-3 library, which is not here.
- `hellonetwork.cpp` prints a line.
- The RTP test driver (`test.cpp`) starts processes and compares files; the
  vendored googletest is not the program's.
