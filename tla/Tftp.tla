--------------------------------- MODULE Tftp ---------------------------------
(* The TFTP client, net/tftp.c (without CONFIG_MCAST_TFTP), run by NetLoop of  *)
(* net/net.c against a lock-step server over a network that loses, duplicates, *)
(* delays and reorders packets.                                                *)
(*                                                                             *)
(* The file is Size units long; a unit is the default block size. Memory is    *)
(* modelled unit by unit from load_addr on, and sequence numbers wrap at       *)
(* SeqSize, so that what store_block computes from block size, block number    *)
(* and wrap offset is what the model computes.                                 *)
(*                                                                             *)
(* NetSendUDPPacket parks a packet while the server's MAC address is unknown   *)
(* and sends it on the ARP reply: to the protocol that is a delay or a loss.   *)
EXTENDS Naturals, FiniteSets

CONSTANTS
  Size,                \* length of the file in units
  BlkSizeOption,       \* TftpBlkSizeOption in units
  SeqSize,             \* TFTP_SEQUENCE_SIZE
  MemSize,             \* units of the address space, in which offsets wrap
  TimeoutCountMax,     \* TIMEOUT_COUNT, also TftpRRQTimeoutCountMax
  Window,              \* a packet does not outlive this many later blocks
  PortReuse,           \* whether 1024 + get_timer(0) % 3072 may give a port again
  Capacity,            \* packets in flight; one sent beyond that is lost
  MaxTids,             \* bound: transfers the server starts
  MaxStarts,           \* bound: calls of TftpStart
  MaxDups              \* bound: packets the network duplicates

TFTP_BLOCK_SIZE == 1
WELL_KNOWN_PORT == 0

ASSUME SizeAssumption == Size \in Nat /\ BlkSizeOption \in Nat \ {0}
ASSUME SeqAssumption == SeqSize \in Nat /\ SeqSize > 1 /\ Window \in Nat
ASSUME BoundAssumption ==
  /\ MemSize \in Nat /\ MemSize > Size /\ TimeoutCountMax \in Nat
  /\ MaxTids \in Nat /\ MaxStarts \in Nat /\ Capacity \in Nat /\ MaxDups \in Nat

VARIABLES
  NetState,             \* "continue", "restart", "success", "fail"; "returned"
  noretry,              \* netretry is set to "no"
  TftpState,            \* "rrq", "oack" or "data"
  TftpOurPort,
  TftpServerPort,       \* WELL_KNOWN_PORT or the server's transfer id
  TftpBlock,
  TftpLastBlock,
  TftpBlockWrapOffset,
  TftpBlkSize,
  TftpTimeoutCount,
  NetBootFileXferSize,
  mem,                  \* the unit of the file at each address, 0 if none
  starts,               \* calls of TftpStart so far
  got,                  \* history: the last block stored, counted without wrap
  seen,                 \* history: the block in TftpBlock, counted without wrap
  crossed,              \* history: a block came again that the wrap makes ambiguous
  options,              \* whether the server understands RRQ options
  srv,                  \* the server's transfers
  net,                  \* the packets in flight
  dups                  \* packets duplicated so far

client == <<NetState, noretry, TftpState, TftpOurPort, TftpServerPort, TftpBlock,
            TftpLastBlock, TftpBlockWrapOffset, TftpBlkSize, TftpTimeoutCount,
            NetBootFileXferSize, mem, starts, got, seen, crossed>>
vars == <<client, options, srv, net, dups>>

-----------------------------------------------------------------------------
(* The network (external): a set of packets. Any of them may be delivered next *)
(* or never; a delivered one may stay as a duplicate.                          *)

Send(ps, sent) == IF Cardinality(ps \cup sent) <= Capacity THEN ps \cup sent ELSE ps

\* What the network holds after it delivers m and sent is sent in answer.
Deliver(m, sent) ==
  \/ net' = Send(net \ {m}, sent) /\ UNCHANGED dups
  \/ dups < MaxDups /\ net' = Send(net, sent) /\ dups' = dups + 1

-----------------------------------------------------------------------------
(* The server (external): one transfer per RRQ, each with its own port. It     *)
(* sends block n + 1 when block n is acknowledged, and the current packet      *)
(* again whenever it likes.                                                    *)

Tids == 1 .. MaxTids

Least(a, b) == IF a < b THEN a ELSE b

\* Units of block n of a transfer with block size b: (n - 1) * b + 1 and up.
LenOf(n, b) == IF (n - 1) * b > Size THEN 0 ELSE Least(b, Size - (n - 1) * b)
LastBlockOf(b) == (Size \div b) + 1

\* The packet that transfer t is sending.
Current(t) ==
  IF srv[t].block = 0
    THEN [type |-> "OACK", tid |-> t, port |-> srv[t].port, blksize |-> srv[t].blksize]
    ELSE [type |-> "DATA", tid |-> t, port |-> srv[t].port,
          n |-> srv[t].block, blksize |-> srv[t].blksize]

Idle == [port |-> 0, blksize |-> 0, block |-> 0]

\* A packet about block n does not outlive the next Window blocks.
Alive(m, n) == n + Window >= srv[m.tid].block

ServerAccept(m) ==
  /\ m \in net /\ m.type = "RRQ"
  /\ \E t \in Tids :
       /\ srv[t] = Idle /\ \A u \in Tids : u < t => srv[u] # Idle
       /\ srv' = [srv EXCEPT ![t] =
                    IF options
                      THEN [port |-> m.port, blksize |-> BlkSizeOption, block |-> 0]
                      ELSE [port |-> m.port, blksize |-> TFTP_BLOCK_SIZE, block |-> 1]]
  /\ net' = net \ {m}
  /\ UNCHANGED <<client, options, dups>>

ServerAck(m) ==
  /\ m \in net /\ m.type = "ACK" /\ m.tid # WELL_KNOWN_PORT
  /\ srv[m.tid].port = m.port
  /\ Alive(m, m.n)
  /\ m.seq = srv[m.tid].block % SeqSize
  /\ srv[m.tid].block < LastBlockOf(srv[m.tid].blksize)
  /\ srv' = [srv EXCEPT ![m.tid].block = @ + 1]
  /\ net' = net \ {m}
  /\ UNCHANGED <<client, options, dups>>

ServerSend(t) ==
  /\ srv[t] # Idle
  /\ net' = Send(net, {Current(t)})
  /\ net' # net
  /\ UNCHANGED <<client, options, srv, dups>>

\* The server refuses or gives up a transfer.
ServerError(t) ==
  /\ srv[t] # Idle
  /\ net' = Send(net, {[type |-> "ERROR", tid |-> t, port |-> srv[t].port]})
  /\ net' # net
  /\ UNCHANGED <<client, options, srv, dups>>

-----------------------------------------------------------------------------
(* The client. *)

\* TftpSend in state st with block b (number n without wrap), from p to q.
TftpSend(st, b, p, q, n) ==
  IF st = "rrq" THEN {[type |-> "RRQ", port |-> p]}
  ELSE {[type |-> "ACK", tid |-> q, port |-> p, seq |-> b, n |-> n]}

(* NetStartAgain: fail, or restart at once or after 10 s deaf to packets. The  *)
(* wait leaves NetState alone, so that a success set before it stands.         *)
NetStartAgain ==
  \/ noretry /\ NetState' = "fail"
  \/ ~noretry /\ NetState' = "restart"
  \/ ~noretry /\ NetState = "success" /\ UNCHANGED NetState

(* TftpStart, and the reset of NetBootFileXferSize that follows it in NetLoop. *)
TftpStart ==
  /\ NetState = "restart" /\ starts < MaxStarts
  /\ NetState' = "continue"
  /\ starts' = starts + 1
  /\ TftpServerPort' = WELL_KNOWN_PORT
  /\ TftpTimeoutCount' = 0
  /\ TftpState' = "rrq"
  /\ TftpOurPort' \in IF PortReuse THEN 1 .. starts' ELSE {starts'}
  /\ TftpBlock' = 0
  /\ TftpBlkSize' = TFTP_BLOCK_SIZE
  /\ NetBootFileXferSize' = 0
  /\ got' = 0 /\ seen' = 0 /\ crossed' = FALSE
  /\ net' = Send(net, TftpSend("rrq", 0, TftpOurPort', WELL_KNOWN_PORT, 0))
  /\ UNCHANGED <<noretry, TftpLastBlock, TftpBlockWrapOffset, mem, options, srv, dups>>

\* The checks at the head of TftpHandler, while the device is running.
Accepts(m) ==
  /\ NetState \in {"continue", "success"}
  /\ m \in net /\ m.type \in {"OACK", "DATA", "ERROR"}
  /\ m.port = TftpOurPort
  /\ TftpState = "rrq" \/ m.tid = TftpServerPort

HandleOack(m) ==
  /\ Accepts(m) /\ m.type = "OACK"
  /\ Alive(m, 0)
  /\ TftpState' = "oack"
  /\ TftpServerPort' = m.tid
  /\ TftpBlkSize' = m.blksize
  /\ Deliver(m, TftpSend("oack", TftpBlock, TftpOurPort, m.tid, seen))
  /\ UNCHANGED <<NetState, noretry, TftpOurPort, TftpBlock, TftpLastBlock,
                 TftpBlockWrapOffset, TftpTimeoutCount, NetBootFileXferSize, mem,
                 starts, got, seen, crossed, options, srv>>

\* store_block: len units of the block with absolute number n go to offset.
Stored(offset, n, b) ==
  [a \in 0 .. MemSize - 1 |->
     IF offset <= a /\ a < offset + LenOf(n, b)
       THEN (n - 1) * b + (a - offset) + 1 ELSE mem[a]]

(* Block n, received again, is numbered 0 or older than the last wrap: the     *)
(* sequence number alone does not say where it belongs.                        *)
Ambiguous(n) == n % SeqSize = 0 \/ n \div SeqSize # got \div SeqSize

\* No data packet has been accepted yet, or an OACK has come since.
FirstBlock == TftpState \in {"rrq", "oack"}

\* The wrap offset on receipt of a block: a block numbered 0 means a wrap.
WrapOffset(block) ==
  IF FirstBlock THEN 0
  ELSE IF block = 0 THEN (TftpBlockWrapOffset + TftpBlkSize * SeqSize) % MemSize
  ELSE TftpBlockWrapOffset

\* "Same block again; ignore it."
SameBlock(block) == block = IF FirstBlock THEN 0 ELSE TftpLastBlock

\* Slip: blocks are taken to be numbered from 0.
Offset_FromZero(block) == (WrapOffset(block) + block * TftpBlkSize) % MemSize

\* Where store_block puts the block, in unsigned arithmetic.
Offset(block) == (MemSize + WrapOffset(block) + block * TftpBlkSize - TftpBlkSize) % MemSize

\* Slip: a full block ends the transfer.
WholeThing_Full(len) == len <= TftpBlkSize

\* "We received the whole thing."
WholeThing(len) == len < TftpBlkSize

\* TftpHandler, TFTP_DATA: a first block other than 1 starts again.
NotBlockOne(m) ==
  /\ FirstBlock /\ m.n % SeqSize # 1
  /\ NetStartAgain
  /\ TftpLastBlock' = 0
  /\ Deliver(m, {})
  /\ UNCHANGED <<mem, NetBootFileXferSize, got>>

IgnoreSame(m) ==
  /\ ~FirstBlock /\ SameBlock(m.n % SeqSize)
  /\ Deliver(m, {})
  /\ UNCHANGED <<NetState, TftpLastBlock, mem, NetBootFileXferSize, got>>

StoreAndAck(m) ==
  LET block == m.n % SeqSize
      len   == LenOf(m.n, m.blksize)
      size  == Offset(block) + len
  IN
  /\ FirstBlock => block = 1
  /\ ~SameBlock(block)
  /\ TftpLastBlock' = block
  /\ got' = IF FirstBlock \/ m.n > got THEN m.n ELSE got
  /\ mem' = Stored(Offset(block), m.n, m.blksize)
  /\ NetBootFileXferSize' = IF NetBootFileXferSize < size THEN size ELSE NetBootFileXferSize
  /\ NetState' = IF WholeThing(len) THEN "success" ELSE NetState
  /\ Deliver(m, TftpSend("data", block, TftpOurPort, m.tid, m.n))

HandleData(m) ==
  /\ Accepts(m) /\ m.type = "DATA"
  /\ Alive(m, m.n)
  /\ TftpBlock' = m.n % SeqSize /\ seen' = m.n
  /\ TftpState' = "data"
  /\ TftpServerPort' = m.tid
  /\ TftpBlockWrapOffset' = WrapOffset(m.n % SeqSize)
  /\ crossed' = (crossed \/ (~FirstBlock /\ m.n <= got /\ Ambiguous(m.n)))
  /\ NotBlockOne(m) \/ IgnoreSame(m) \/ StoreAndAck(m)
  /\ UNCHANGED <<noretry, TftpOurPort, TftpBlkSize, TftpTimeoutCount, starts, options, srv>>

\* TftpHandler, TFTP_ERROR.
HandleError(m) ==
  /\ Accepts(m) /\ m.type = "ERROR"
  /\ NetStartAgain
  /\ Deliver(m, {})
  /\ UNCHANGED <<noretry, TftpState, TftpOurPort, TftpServerPort, TftpBlock, TftpLastBlock,
                 TftpBlockWrapOffset, TftpBlkSize, TftpTimeoutCount, NetBootFileXferSize,
                 mem, starts, got, seen, crossed, options, srv>>

\* Slip: a timeout is not counted.
Counted_Never == TftpTimeoutCount

\* Timeouts are counted from TftpStart on; progress does not reset the count.
Counted == TftpTimeoutCount + 1

\* Slip: one retransmission too many.
OutOfRetries_Late(count) == count > TimeoutCountMax + 1

OutOfRetries(count) == count > TimeoutCountMax

TftpTimeout ==
  /\ NetState = "continue"
  /\ TftpTimeoutCount' = Counted
  /\ IF OutOfRetries(TftpTimeoutCount')
       THEN NetStartAgain /\ UNCHANGED net
       ELSE /\ net' = Send(net, TftpSend(TftpState, TftpBlock, TftpOurPort, TftpServerPort, seen))
            /\ UNCHANGED NetState
  /\ UNCHANGED <<noretry, TftpState, TftpOurPort, TftpServerPort, TftpBlock, TftpLastBlock,
                 TftpBlockWrapOffset, TftpBlkSize, NetBootFileXferSize, mem, starts, got,
                 seen, crossed, options, srv, dups>>

\* NetLoop finds NETLOOP_SUCCESS or NETLOOP_FAIL and returns.
NetLoopReturns ==
  /\ NetState \in {"success", "fail"}
  /\ NetState' = IF NetState = "success" THEN "done" ELSE "failed"
  /\ UNCHANGED <<noretry, TftpState, TftpOurPort, TftpServerPort, TftpBlock, TftpLastBlock,
                 TftpBlockWrapOffset, TftpBlkSize, TftpTimeoutCount, NetBootFileXferSize,
                 mem, starts, got, seen, crossed, options, srv, net, dups>>

Init ==
  /\ NetState = "restart"
  /\ noretry \in BOOLEAN
  /\ TftpState = "rrq" /\ TftpOurPort = 0 /\ TftpServerPort = WELL_KNOWN_PORT
  /\ TftpBlock = 0 /\ TftpLastBlock = 0 /\ TftpBlockWrapOffset = 0
  /\ TftpBlkSize = TFTP_BLOCK_SIZE /\ TftpTimeoutCount = 0
  /\ NetBootFileXferSize = 0
  /\ mem = [a \in 0 .. MemSize - 1 |-> 0]
  /\ starts = 0 /\ got = 0 /\ seen = 0 /\ crossed = FALSE
  /\ options \in BOOLEAN
  /\ srv = [t \in Tids |-> Idle]
  /\ net = {} /\ dups = 0

Next ==
  \/ TftpStart \/ TftpTimeout \/ NetLoopReturns
  \/ \E m \in net : HandleOack(m) \/ HandleData(m) \/ HandleError(m)
                    \/ ServerAccept(m) \/ ServerAck(m)
  \/ \E t \in Tids : ServerSend(t) \/ ServerError(t)

Fairness == WF_vars(TftpStart) /\ WF_vars(TftpTimeout) /\ WF_vars(NetLoopReturns)

Spec == Init /\ [][Next]_vars /\ Fairness

-----------------------------------------------------------------------------
(* Properties. *)

Packets ==
  [type : {"RRQ"}, port : 1 .. MaxStarts]
  \cup [type : {"OACK"}, tid : Tids, port : 1 .. MaxStarts, blksize : {BlkSizeOption}]
  \cup [type : {"DATA"}, tid : Tids, port : 1 .. MaxStarts, n : 1 .. Size + 1,
        blksize : {TFTP_BLOCK_SIZE, BlkSizeOption}]
  \cup [type : {"ACK"}, tid : Tids, port : 1 .. MaxStarts, seq : 0 .. SeqSize - 1,
        n : 0 .. Size + 1]
  \cup [type : {"ERROR"}, tid : Tids, port : 1 .. MaxStarts]

\* Type invariant of the client, the server's transfers and the network.
TypeOK ==
  /\ NetState \in {"restart", "continue", "success", "fail", "done", "failed"}
  /\ noretry \in BOOLEAN /\ options \in BOOLEAN /\ crossed \in BOOLEAN
  /\ TftpState \in {"rrq", "oack", "data"}
  /\ TftpOurPort \in 0 .. MaxStarts /\ starts \in 0 .. MaxStarts
  /\ TftpServerPort \in {WELL_KNOWN_PORT} \cup Tids
  /\ TftpBlock \in 0 .. SeqSize - 1 /\ TftpLastBlock \in 0 .. SeqSize - 1
  /\ TftpBlockWrapOffset \in 0 .. MemSize - 1
  /\ TftpBlkSize \in {TFTP_BLOCK_SIZE, BlkSizeOption}
  /\ TftpTimeoutCount \in 0 .. TimeoutCountMax + 1
  /\ NetBootFileXferSize \in 0 .. MemSize + BlkSizeOption
  /\ mem \in [0 .. MemSize - 1 -> 0 .. Size]
  /\ got \in 0 .. Size + 1 /\ seen \in 0 .. Size + 1
  /\ srv \in [Tids -> [port : 0 .. MaxStarts, block : 0 .. Size + 1,
                      blksize : {0, TFTP_BLOCK_SIZE, BlkSizeOption}]]
  /\ net \subseteq Packets /\ Cardinality(net) <= Capacity
  /\ dups \in 0 .. MaxDups

\* The whole file is in memory, and its size is what NetLoop returns.
WholeFile ==
  /\ NetBootFileXferSize = Size
  /\ \A a \in 0 .. Size - 1 : mem[a] = a + 1

(* "We received the whole thing" (TftpHandler): NetLoop returns success only   *)
(* then.                                                                       *)
SuccessIsWhole == NetState = "done" => WholeFile

(* Over any losses, duplicates, delays, retransmissions and restarts, NetLoop  *)
(* returns success only with the whole file in memory -- unless a block came   *)
(* again whose place the wrapped sequence number leaves open.                  *)
Integrity == crossed \/ SuccessIsWhole

(* The server never moves on past a block that is not in memory: a block is    *)
(* stored before it is acknowledged, at its place, and not overwritten by a    *)
(* repeated one.                                                               *)
AckedIsStored ==
  (NetState = "continue" /\ TftpState # "rrq" /\ ~crossed) =>
    LET t == TftpServerPort IN
    \A a \in 0 .. Size - 1 :
      a + 1 <= (srv[t].block - 1) * srv[t].blksize => mem[a] = a + 1

(* With netretry=no a transfer ends whatever the network does: timeouts are    *)
(* counted over the whole transfer and never forgiven.                         *)
Terminates == noretry => <>(NetState \in {"done", "failed"})
=============================================================================
