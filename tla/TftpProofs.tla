------------------------------ MODULE TftpProofs ------------------------------
(* The safety properties of Tftp, for every length of the file, block size,    *)
(* range of the sequence number, number of attempts and of transfers, and      *)
(* whatever the network loses, duplicates, delays and reorders.                *)
(*                                                                             *)
(* The types need no assumption. The file is whole under two, both of which    *)
(* are needed: each attempt has a port of its own, and no packet lives for a   *)
(* whole turn of the sequence number.                                          *)
(*                                                                             *)
(* The invariant has three layers. Shape: the types. Linked: packets belong to *)
(* transfers and are never ahead of them, and the client hears and             *)
(* acknowledges one transfer in each attempt. Loaded: what may be acknowledged *)
(* is in memory, and TftpBlockWrapOffset and TftpLastBlock go with the last    *)
(* block stored, until a block comes again that the wrap makes ambiguous.      *)
EXTENDS Tftp, Integers, FiniteSetTheorems, TLAPS

-----------------------------------------------------------------------------
(* Arithmetic: turns of the sequence number. *)

\* Quotient and remainder.
LEMMA DivMod ==
  ASSUME NEW n \in Nat, NEW d \in Nat, d > 0
  PROVE  /\ n \div d \in Nat /\ n % d \in 0 .. d - 1
         /\ n = d * (n \div d) + (n % d)
OBVIOUS

\* A remainder is known by any quotient.
LEMMA ModIs ==
  ASSUME NEW d \in Nat, d > 0, NEW q \in Int, NEW r \in 0 .. d - 1, NEW n \in Int,
         n = d * q + r
  PROVE  n % d = r
OBVIOUS

\* ... and so is a quotient.
LEMMA DivIs ==
  ASSUME NEW d \in Nat, d > 0, NEW q \in Int, NEW r \in 0 .. d - 1, NEW n \in Int,
         n = d * q + r
  PROVE  n \div d = q
OBVIOUS

\* Products keep the order.
LEMMA MulMono ==
  ASSUME NEW a \in Int, NEW b \in Int, NEW c \in Nat, a <= b
  PROVE  a * c <= b * c
OBVIOUS

\* A remainder is less than the divisor, also for a negative number.
LEMMA ModRange ==
  ASSUME NEW d \in Nat, d > 0, NEW n \in Int
  PROVE  n % d \in 0 .. d - 1
OBVIOUS

\* Within the first turn.
LEMMA Unturned ==
  ASSUME NEW S \in Nat, NEW n \in Nat, n < S
  PROVE  n % S = n /\ n \div S = 0
<1>1. n = S * 0 + n /\ n \in 0 .. S - 1 /\ S > 0
  OBVIOUS
<1> QED
  BY <1>1, ModIs, DivIs

\* An offset from a wrapped one.
LEMMA Unwrapped ==
  ASSUME NEW M \in Nat, M > 0, NEW x \in Nat, NEW y \in Int, x + y \in 0 .. M - 1
  PROVE  (M + (x % M) + y) % M = x + y
<1> DEFINE k == x \div M
<1>1. x = M * k + (x % M) /\ k \in Nat /\ x % M \in Nat
  BY DivMod
<1>2. M * (1 - k) = M - M * k
  BY <1>1
<1>3. M + (x % M) + y = M * (1 - k) + (x + y)
  BY <1>1, <1>2
<1>4. \A c \in Int : \A z \in 0 .. M - 1 : (M * c + z) % M = z
  BY ModIs
<1>5. 1 - k \in Int
  BY <1>1
<1> HIDE DEF k
<1>6. (M * (1 - k) + (x + y)) % M = x + y
  BY <1>4, <1>5
<1> QED
  BY <1>3, <1>6

\* Wrapping may be put off.
LEMMA WrappedAgain ==
  ASSUME NEW M \in Nat, M > 0, NEW x \in Nat, NEW w \in Nat
  PROVE  ((x % M) + w) % M = (x + w) % M
<1> DEFINE k == x \div M
           z == x + w
           j == z \div M
<1>1. x = M * k + (x % M) /\ k \in Nat /\ x % M \in Nat
  BY DivMod
<1>2. z \in Nat /\ z = M * j + (z % M) /\ j \in Nat /\ z % M \in 0 .. M - 1
  <2>1. z \in Nat
    OBVIOUS
  <2> HIDE DEF z
  <2> QED
    BY <2>1, DivMod
<1>3. M * (j - k) = M * j - M * k
  BY <1>1, <1>2
<1>4. (x % M) + w = M * (j - k) + (z % M)
  BY <1>1, <1>2, <1>3
<1>5. j - k \in Int /\ (x % M) + w \in Int
  BY <1>1, <1>2
<1> HIDE DEF k, z, j
<1>6. ((x % M) + w) % M = z % M
  BY <1>2, <1>4, <1>5, ModIs
<1> QED
  BY <1>6 DEF z

\* Where a block begins, from its wrapped number and the wraps before it.
LEMMA StartIs ==
  ASSUME NEW S \in Nat, NEW b \in Nat, NEW q \in Nat, NEW r \in Nat, NEW n \in Nat, n = S * q + r
  PROVE  (n - 1) * b = q * (b * S) + (r * b - b) /\ q * (b * S) \in Nat /\ r * b \in Nat
<1>1. (S * q) * b = q * (b * S) /\ (S * q) * b \in Nat /\ r * b \in Nat
  OBVIOUS
<1>2. (n - 1) * b = n * b - b
  OBVIOUS
<1>3. n * b = (S * q) * b + r * b
  OBVIOUS
<1> QED
  BY <1>1, <1>2, <1>3

(* A block that is new is the one after the last, or within the first turn: it *)
(* has not the number of the one stored last, and it is in the next turn if    *)
(* its number is 0.                                                            *)
LEMMA NewBlock ==
  ASSUME NEW S \in Nat, S > 1, NEW g \in Nat, g >= 1, NEW n \in Nat, n > g,
         n <= g + 1 \/ n <= S, NEW last \in Nat, last <= g % S,
         last = 0 => g % S = 0 \/ n < S
  PROVE  /\ n % S # last
         /\ n \div S = (IF n % S = 0 THEN (g \div S) + 1 ELSE g \div S)
<1> DEFINE q == g \div S
           r == g % S
<1>1. g = S * q + r /\ q \in Nat /\ r \in 0 .. S - 1
  BY DivMod
<1>2. CASE n = g + 1 /\ r = S - 1
  <2>1. n = S * (q + 1) + 0 /\ q + 1 \in Int
    BY <1>1, <1>2
  <2>2. n % S = 0 /\ n \div S = q + 1
    <3> HIDE DEF q
    <3> QED
      BY <2>1, ModIs, DivIs
  <2>3. 1 * S <= (q + 1) * S
    BY <1>1, MulMono
  <2> QED
    BY <1>1, <1>2, <2>1, <2>2, <2>3
<1>3. CASE n = g + 1 /\ r # S - 1
  <2>1. n = S * q + (r + 1) /\ r + 1 \in 0 .. S - 1
    BY <1>1, <1>3
  <2>2. n % S = r + 1 /\ n \div S = q
    <3> HIDE DEF q, r
    <3> QED
      BY <1>1, <2>1, ModIs, DivIs
  <2> QED
    BY <1>1, <2>2
<1>4. CASE n <= S
  <2>1. g = S * 0 + g /\ g \in 0 .. S - 1
    BY <1>4
  <2>2. g % S = g /\ g \div S = 0
    BY <2>1, ModIs, DivIs
  <2>3. CASE n = S
    <3>1. n = S * 1 + 0
      BY <2>3
    <3>2. n % S = 0 /\ n \div S = 1
      BY <3>1, ModIs, DivIs
    <3> QED
      BY <2>2, <2>3, <3>2
  <2>4. CASE n < S
    <3>1. n = S * 0 + n /\ n \in 0 .. S - 1
      BY <2>4
    <3>2. n % S = n /\ n \div S = 0
      BY <3>1, ModIs, DivIs
    <3> QED
      BY <2>2, <2>4, <3>2
  <2> QED
    BY <1>4, <2>3, <2>4
<1> QED
  BY <1>2, <1>3, <1>4

-----------------------------------------------------------------------------
(* Blocks of the file. *)

\* A block of the transfer begins in the file or at its end.
LEMMA BlockStart ==
  ASSUME NEW b \in Nat, b > 0, NEW n \in Nat, n >= 1, n <= LastBlockOf(b)
  PROVE  (n - 1) * b \in Nat /\ (n - 1) * b <= Size
<1>1. Size \in Nat
  BY SizeAssumption
<1>2. Size = b * (Size \div b) + (Size % b) /\ Size \div b \in Nat /\ Size % b >= 0
  BY <1>1, DivMod
<1>3. n - 1 <= Size \div b
  BY <1>2 DEF LastBlockOf
<1>4. (n - 1) * b <= (Size \div b) * b
  BY <1>2, <1>3, MulMono
<1> QED
  BY <1>1, <1>2, <1>4

\* There are at most Size + 1 blocks.
LEMMA LastBlockBound ==
  ASSUME NEW b \in Nat, b > 0
  PROVE LastBlockOf(b) \in 1 .. Size + 1
<1>1. Size \in Nat
  BY SizeAssumption
<1>2. Size = b * (Size \div b) + (Size % b) /\ Size \div b \in Nat /\ Size % b >= 0
  BY <1>1, DivMod
<1>3. 1 * (Size \div b) <= b * (Size \div b)
  BY <1>2, MulMono
<1> QED
  BY <1>1, <1>2, <1>3 DEF LastBlockOf

\* A block is not longer than the block size, nor than the rest of the file.
LEMMA LenIs ==
  ASSUME NEW b \in Nat, b > 0, NEW n \in Nat, n >= 1
  PROVE  /\ (n - 1) * b \in Nat
         /\ LenOf(n, b) \in 0 .. b
         /\ LenOf(n, b) # 0 => (n - 1) * b + LenOf(n, b) <= Size
<1>1. n - 1 \in Nat /\ Size \in Nat
  BY SizeAssumption
<1>2. (n - 1) * b \in Nat
  BY <1>1
<1> QED
  BY <1>1, <1>2 DEF LenOf, Least

\* The length of a block of the file; the last one is the short one.
LEMMA BlockLength ==
  ASSUME NEW b \in Nat, b > 0, NEW n \in Nat, n >= 1, n <= LastBlockOf(b)
  PROVE  /\ (n - 1) * b \in Nat /\ LenOf(n, b) \in Nat
         /\ (n - 1) * b + LenOf(n, b) <= Size
         /\ LenOf(n, b) = b \/ (n - 1) * b + LenOf(n, b) = Size
         /\ LenOf(n, b) < b => n = LastBlockOf(b)
         /\ n * b = (n - 1) * b + b /\ LenOf(n, b) <= b
<1> DEFINE s == (n - 1) * b
           len == LenOf(n, b)
<1>1. s \in Nat /\ s <= Size /\ Size \in Nat
  BY BlockStart, SizeAssumption
<1>2. len = Least(b, Size - s)
  BY <1>1 DEF LenOf
<1>3. len \in Nat /\ len <= b /\ s + len <= Size /\ (len = b \/ s + len = Size)
  BY <1>1, <1>2 DEF Least
<1>4. n * b = s + b
  OBVIOUS
<1>5. ASSUME len < b PROVE n = LastBlockOf(b)
  <2>1. Size = b * (Size \div b) + (Size % b) /\ Size \div b \in Nat /\ Size % b >= 0
    BY <1>1, DivMod
  <2>2. n * b > Size
    BY <1>1, <1>3, <1>4, <1>5
  <2>3. ASSUME n <= Size \div b PROVE FALSE
    <3>1. n * b <= (Size \div b) * b
      BY <2>1, <2>3, MulMono
    <3>2. (Size \div b) * b = b * (Size \div b)
      BY <2>1
    <3> QED
      BY <1>1, <1>4, <2>1, <2>2, <3>1, <3>2
  <2> QED
    BY <2>1, <2>3 DEF LastBlockOf
<1> QED
  BY <1>1, <1>3, <1>4, <1>5

-----------------------------------------------------------------------------
(* The types. *)

\* What the server's transfers are.
Serving ==
  \A t \in Tids : srv[t] # Idle =>
    /\ srv[t].port \in 1 .. MaxStarts
    /\ srv[t].blksize = IF options THEN BlkSizeOption ELSE TFTP_BLOCK_SIZE
    /\ srv[t].block <= LastBlockOf(srv[t].blksize)
    /\ options \/ srv[t].block >= 1

\* The types, and what they rest on.
Shape ==
  /\ TypeOK /\ IsFiniteSet(net)
  /\ Serving
  /\ TftpState # "rrq" => TftpServerPort \in Tids
  /\ NetState = "continue" => TftpOurPort >= 1 /\ TftpTimeoutCount <= TimeoutCountMax

\* Send keeps the network within its capacity, ...
LEMMA SendTypes ==
  ASSUME NEW ps, IsFiniteSet(ps), Cardinality(ps) <= Capacity, ps \subseteq Packets,
         NEW sent, IsFiniteSet(sent), sent \subseteq Packets
  PROVE  /\ IsFiniteSet(Send(ps, sent)) /\ Cardinality(Send(ps, sent)) <= Capacity
         /\ Send(ps, sent) \subseteq Packets
  BY FS_Union DEF Send

\* ... so does the loss of a packet, ...
LEMMA RemoveTypes ==
  ASSUME Shape, NEW m \in net
  PROVE  /\ IsFiniteSet(net \ {m}) /\ Cardinality(net \ {m}) <= Capacity
         /\ net \ {m} \subseteq Packets
<1>1. Cardinality(net) \in Nat /\ Cardinality(net) <= Capacity
  BY FS_CardinalityType DEF Shape, TypeOK
<1>2. IsFiniteSet(net \ {m}) /\ Cardinality(net \ {m}) = Cardinality(net) - 1
  BY FS_RemoveElement DEF Shape
<1>3. net \ {m} \subseteq Packets
  BY DEF Shape, TypeOK
<1> QED
  BY <1>1, <1>2, <1>3, BoundAssumption

\* ... and so does a delivery, with or without a duplicate.
LEMMA DeliverTypes ==
  ASSUME Shape, NEW m \in net, NEW sent, IsFiniteSet(sent), sent \subseteq Packets,
         Deliver(m, sent)
  PROVE  /\ IsFiniteSet(net') /\ Cardinality(net') <= Capacity /\ net' \subseteq Packets
         /\ dups' \in 0 .. MaxDups
<1>1. CASE net' = Send(net \ {m}, sent) /\ UNCHANGED dups
  BY <1>1, RemoveTypes, SendTypes DEF Shape, TypeOK
<1>2. CASE dups < MaxDups /\ net' = Send(net, sent) /\ dups' = dups + 1
  BY <1>2, SendTypes, BoundAssumption DEF Shape, TypeOK
<1> QED
  BY <1>1, <1>2 DEF Deliver

\* The fields of each kind of packet.
LEMMA PacketTypes ==
  ASSUME NEW m \in Packets
  PROVE  /\ m.port \in 1 .. MaxStarts
         /\ m.type # "RRQ" => m.tid \in Tids
         /\ m.type = "OACK" => m.blksize = BlkSizeOption
         /\ m.type = "DATA" => /\ m.n \in 1 .. Size + 1
                               /\ m.blksize \in {TFTP_BLOCK_SIZE, BlkSizeOption}
         /\ m.type = "ACK" => m.n \in 0 .. Size + 1 /\ m.seq \in 0 .. SeqSize - 1
  BY DEF Packets

\* What TftpSend sends is a packet, ...
LEMMA TftpSendTypes ==
  ASSUME NEW st \in {"rrq", "oack", "data"}, NEW b \in 0 .. SeqSize - 1,
         NEW p \in 1 .. MaxStarts, NEW q, st # "rrq" => q \in Tids, NEW n \in 0 .. Size + 1
  PROVE  IsFiniteSet(TftpSend(st, b, p, q, n)) /\ TftpSend(st, b, p, q, n) \subseteq Packets
<1>1. IsFiniteSet(TftpSend(st, b, p, q, n))
  BY FS_Singleton DEF TftpSend
<1>2. CASE st = "rrq"
  BY <1>1, <1>2 DEF TftpSend, Packets
<1>3. CASE st # "rrq"
  BY <1>1, <1>3 DEF TftpSend, Packets
<1> QED
  BY <1>2, <1>3

\* ... and so is what the server sends.
LEMMA CurrentType ==
  ASSUME Shape, NEW t \in Tids, srv[t] # Idle
  PROVE  Current(t) \in Packets
<1>1. CASE srv[t].block = 0
  BY <1>1 DEF Shape, TypeOK, Serving, Current, Packets
<1>2. CASE srv[t].block # 0
  <2>1. srv[t].block \in 1 .. Size + 1
    BY <1>2, SizeAssumption DEF Shape, TypeOK
  <2> QED
    BY <1>2, <2>1 DEF Shape, TypeOK, Serving, Current, Packets
<1> QED
  BY <1>1, <1>2

\* The first state has the types; each step keeps them.
LEMMA InitShape == Init => Shape
<1> SUFFICES ASSUME Init PROVE Shape
  OBVIOUS
<1>1. IsFiniteSet({}) /\ Cardinality({}) = 0
  BY FS_EmptySet
<1>2. srv \in [Tids -> [port : 0 .. MaxStarts, block : 0 .. Size + 1,
                      blksize : {0, TFTP_BLOCK_SIZE, BlkSizeOption}]]
  BY BoundAssumption, SizeAssumption DEF Init, Idle
<1>3. Serving
  BY DEF Init, Serving
<1>4. mem \in [0 .. MemSize - 1 -> 0 .. Size]
  BY BoundAssumption, SizeAssumption DEF Init
<1>5. TypeOK
  <2>1. /\ NetBootFileXferSize \in 0 .. MemSize + BlkSizeOption
        /\ TftpBlkSize \in {TFTP_BLOCK_SIZE, BlkSizeOption}
        /\ TftpBlock \in 0 .. SeqSize - 1 /\ TftpLastBlock \in 0 .. SeqSize - 1
        /\ TftpBlockWrapOffset \in 0 .. MemSize - 1
    BY BoundAssumption, SizeAssumption, SeqAssumption DEF Init
  <2>2. /\ TftpOurPort \in 0 .. MaxStarts /\ starts \in 0 .. MaxStarts
        /\ TftpTimeoutCount \in 0 .. TimeoutCountMax + 1
        /\ got \in 0 .. Size + 1 /\ seen \in 0 .. Size + 1
        /\ dups \in 0 .. MaxDups
    BY BoundAssumption, SizeAssumption DEF Init
  <2>3. net \subseteq Packets /\ Cardinality(net) <= Capacity
    BY <1>1, BoundAssumption DEF Init
  <2> QED
    BY <1>2, <1>4, <2>1, <2>2, <2>3 DEF Init, TypeOK
<1> QED
  BY <1>1, <1>3, <1>5 DEF Init, Shape

\* A transfer that the server starts is as it should be.
LEMMA ServerAcceptShape ==
  ASSUME Shape, NEW m \in net, ServerAccept(m)
  PROVE  Shape'
<1>1. PICK t \in Tids : srv' = [srv EXCEPT ![t] =
                    IF options
                      THEN [port |-> m.port, blksize |-> BlkSizeOption, block |-> 0]
                      ELSE [port |-> m.port, blksize |-> TFTP_BLOCK_SIZE, block |-> 1]]
  BY DEF ServerAccept
<1>2. m.port \in 1 .. MaxStarts
  BY PacketTypes DEF Shape, TypeOK
<1>3. srv' \in [Tids -> [port : 0 .. MaxStarts, block : 0 .. Size + 1,
                      blksize : {0, TFTP_BLOCK_SIZE, BlkSizeOption}]]
  BY <1>1, <1>2, SizeAssumption DEF Shape, TypeOK
<1>4. 0 <= LastBlockOf(BlkSizeOption) /\ 1 <= LastBlockOf(TFTP_BLOCK_SIZE)
  BY LastBlockBound, SizeAssumption DEF TFTP_BLOCK_SIZE
<1>5. Serving'
  <2> SUFFICES ASSUME NEW u \in Tids, srv'[u] # Idle
               PROVE  /\ srv'[u].port \in 1 .. MaxStarts
                      /\ srv'[u].blksize = IF options THEN BlkSizeOption ELSE TFTP_BLOCK_SIZE
                      /\ srv'[u].block <= LastBlockOf(srv'[u].blksize)
                      /\ options \/ srv'[u].block >= 1
    BY DEF ServerAccept, Serving, client
  <2>1. CASE u = t
    BY <1>1, <1>2, <1>4, <2>1 DEF Shape, TypeOK
  <2>2. CASE u # t
    BY <1>1, <2>2 DEF Shape, TypeOK, Serving
  <2> QED
    BY <2>1, <2>2
<1>6. IsFiniteSet(net') /\ Cardinality(net') <= Capacity /\ net' \subseteq Packets
  BY RemoveTypes DEF ServerAccept
<1> QED
  BY <1>3, <1>5, <1>6 DEF Shape, TypeOK, ServerAccept, client

\* The server goes on to its last block and no further.
LEMMA ServerAckShape ==
  ASSUME Shape, NEW m \in net, ServerAck(m)
  PROVE  Shape'
<1>1. m.tid \in Tids /\ m.port \in 1 .. MaxStarts
  BY PacketTypes DEF Shape, TypeOK, ServerAck
<1>2. /\ srv' = [srv EXCEPT ![m.tid].block = @ + 1]
      /\ srv[m.tid].port = m.port
      /\ srv[m.tid].block < LastBlockOf(srv[m.tid].blksize)
  BY DEF ServerAck
<1>3. srv[m.tid] # Idle
  BY <1>1, <1>2 DEF Idle
<1>4. srv[m.tid].blksize \in Nat /\ srv[m.tid].blksize > 0
  BY <1>1, <1>3, SizeAssumption DEF Shape, Serving, TFTP_BLOCK_SIZE
<1>5. LastBlockOf(srv[m.tid].blksize) \in 1 .. Size + 1
  BY <1>4, LastBlockBound
<1>6. /\ srv'[m.tid] = [srv[m.tid] EXCEPT !.block = @ + 1]
      /\ \A u \in Tids : u # m.tid => srv'[u] = srv[u]
  BY <1>1, <1>2 DEF Shape, TypeOK
<1>7. /\ srv[m.tid].block + 1 \in 0 .. Size + 1
      /\ srv[m.tid].block + 1 <= LastBlockOf(srv[m.tid].blksize)
  <2>1. srv[m.tid].block \in 0 .. Size + 1
    BY <1>1 DEF Shape, TypeOK
  <2> QED
    BY <1>2, <1>5, <2>1, SizeAssumption
<1>8. srv' \in [Tids -> [port : 0 .. MaxStarts, block : 0 .. Size + 1,
                      blksize : {0, TFTP_BLOCK_SIZE, BlkSizeOption}]]
  BY <1>1, <1>2, <1>7 DEF Shape, TypeOK
<1>9. Serving'
  <2> SUFFICES ASSUME NEW u \in Tids, srv'[u] # Idle
               PROVE  /\ srv'[u].port \in 1 .. MaxStarts
                      /\ srv'[u].blksize = IF options THEN BlkSizeOption ELSE TFTP_BLOCK_SIZE
                      /\ srv'[u].block <= LastBlockOf(srv'[u].blksize)
                      /\ options \/ srv'[u].block >= 1
    BY DEF ServerAck, Serving, client
  <2>1. CASE u = m.tid
    <3>1. /\ srv'[u].port = srv[u].port /\ srv'[u].blksize = srv[u].blksize
          /\ srv'[u].block = srv[u].block + 1 /\ srv[u].block \in Nat
      <4>1. srv[u] \in [port : 0 .. MaxStarts, block : 0 .. Size + 1,
                        blksize : {0, TFTP_BLOCK_SIZE, BlkSizeOption}]
        BY DEF Shape, TypeOK
      <4> QED
        BY <1>6, <2>1, <4>1, SizeAssumption
    <3> QED
      BY <1>1, <1>3, <1>7, <2>1, <3>1 DEF Shape, Serving
  <2>2. CASE u # m.tid
    BY <1>6, <2>2 DEF Shape, Serving
  <2> QED
    BY <2>1, <2>2
<1>10. IsFiniteSet(net') /\ Cardinality(net') <= Capacity /\ net' \subseteq Packets
  BY RemoveTypes DEF ServerAck
<1> QED
  BY <1>8, <1>9, <1>10 DEF Shape, TypeOK, ServerAck, client

\* A packet sent by the server.
LEMMA ServerSendShape ==
  ASSUME Shape, NEW t \in Tids, ServerSend(t)
  PROVE  Shape'
<1>1. IsFiniteSet({Current(t)}) /\ {Current(t)} \subseteq Packets
  BY CurrentType, FS_Singleton DEF ServerSend
<1>2. IsFiniteSet(net') /\ Cardinality(net') <= Capacity /\ net' \subseteq Packets
  BY <1>1, SendTypes DEF Shape, TypeOK, ServerSend
<1> QED
  BY <1>2 DEF Shape, TypeOK, Serving, ServerSend, client

\* A refusal sent by the server.
LEMMA ServerErrorShape ==
  ASSUME Shape, NEW t \in Tids, ServerError(t)
  PROVE  Shape'
<1> DEFINE e == [type |-> "ERROR", tid |-> t, port |-> srv[t].port]
<1>1. e \in Packets
  BY DEF Packets, Shape, Serving, ServerError
<1>2. IsFiniteSet({e}) /\ {e} \subseteq Packets
  BY <1>1, FS_Singleton
<1>3. IsFiniteSet(net') /\ Cardinality(net') <= Capacity /\ net' \subseteq Packets
  BY <1>2, SendTypes DEF Shape, TypeOK, ServerError
<1> QED
  BY <1>3 DEF Shape, TypeOK, Serving, ServerError, client

\* The end of NetLoop changes NetState only.
LEMMA NetLoopReturnsShape == Shape /\ NetLoopReturns => Shape'
  BY DEF Shape, TypeOK, Serving, NetLoopReturns

\* Nothing happens.
LEMMA StutterShape == Shape /\ UNCHANGED vars => Shape'
  BY DEF Shape, TypeOK, Serving, vars, client

\* What store_block writes is of the file.
LEMMA StoredType ==
  ASSUME TypeOK, NEW offset \in 0 .. MemSize - 1, NEW b \in Nat, b > 0, NEW n \in Nat, n >= 1
  PROVE  Stored(offset, n, b) \in [0 .. MemSize - 1 -> 0 .. Size]
<1> SUFFICES ASSUME NEW a \in 0 .. MemSize - 1, offset <= a, a < offset + LenOf(n, b)
             PROVE  (n - 1) * b + (a - offset) + 1 \in 0 .. Size
  BY DEF Stored, TypeOK
<1>1. /\ (n - 1) * b \in Nat /\ LenOf(n, b) \in Nat
      /\ LenOf(n, b) # 0 => (n - 1) * b + LenOf(n, b) <= Size
  BY LenIs
<1> QED
  BY <1>1, SizeAssumption, BoundAssumption

\* Offsets wrap in the address space.
LEMMA OffsetType ==
  ASSUME TypeOK, NEW block \in Nat
  PROVE  WrapOffset(block) \in 0 .. MemSize - 1 /\ Offset(block) \in 0 .. MemSize - 1
<1>1. MemSize \in Nat /\ MemSize > 0 /\ TftpBlkSize \in Nat /\ SeqSize \in Nat
  BY BoundAssumption, SizeAssumption, SeqAssumption DEF TypeOK, TFTP_BLOCK_SIZE
<1>2. TftpBlockWrapOffset \in 0 .. MemSize - 1
  BY DEF TypeOK
<1>3. TftpBlkSize * SeqSize \in Nat /\ block * TftpBlkSize \in Nat
  BY <1>1
<1>4. WrapOffset(block) \in 0 .. MemSize - 1
  BY <1>1, <1>2, <1>3, ModRange DEF WrapOffset
<1>5. MemSize + WrapOffset(block) + block * TftpBlkSize - TftpBlkSize \in Int
  BY <1>1, <1>3, <1>4
<1> QED
  BY <1>1, <1>4, <1>5, ModRange DEF Offset

\* The packet that TftpHandler accepts.
LEMMA AcceptedTypes ==
  ASSUME Shape, NEW m \in net, Accepts(m)
  PROVE  /\ m \in Packets /\ m.tid \in Tids /\ m.port = TftpOurPort
         /\ TftpOurPort \in 1 .. MaxStarts
  BY PacketTypes DEF Shape, TypeOK, Accepts

\* TftpHandler, TFTP_OACK.
LEMMA HandleOackShape ==
  ASSUME Shape, NEW m \in net, HandleOack(m)
  PROVE  Shape'
<1>1. m.tid \in Tids /\ TftpOurPort \in 1 .. MaxStarts /\ m.blksize = BlkSizeOption
  BY AcceptedTypes, PacketTypes DEF HandleOack
<1>2. Deliver(m, TftpSend("oack", TftpBlock, TftpOurPort, m.tid, seen))
  BY DEF HandleOack
<1>3. TftpBlock \in 0 .. SeqSize - 1 /\ seen \in 0 .. Size + 1
  BY DEF Shape, TypeOK
<1>4. /\ IsFiniteSet(net') /\ Cardinality(net') <= Capacity /\ net' \subseteq Packets
      /\ dups' \in 0 .. MaxDups
  BY <1>1, <1>2, <1>3, TftpSendTypes, DeliverTypes
<1> QED
  BY <1>1, <1>4 DEF Shape, TypeOK, Serving, HandleOack

\* NetStartAgain never lets an attempt go on.
LEMMA NetStartAgainType ==
  ASSUME TypeOK, NetStartAgain
  PROVE  /\ NetState' \in {"restart", "continue", "success", "fail", "done", "failed"}
         /\ NetState' # "continue"
  BY DEF NetStartAgain, TypeOK

\* TftpHandler, TFTP_ERROR.
LEMMA HandleErrorShape ==
  ASSUME Shape, NEW m \in net, HandleError(m)
  PROVE  Shape'
<1>1. IsFiniteSet({}) /\ {} \subseteq Packets /\ Deliver(m, {})
  BY FS_EmptySet DEF HandleError
<1>2. /\ IsFiniteSet(net') /\ Cardinality(net') <= Capacity /\ net' \subseteq Packets
      /\ dups' \in 0 .. MaxDups
  BY <1>1, DeliverTypes
<1>3. /\ NetState' \in {"restart", "continue", "success", "fail", "done", "failed"}
      /\ NetState' # "continue"
  BY NetStartAgainType DEF Shape, HandleError
<1> QED
  BY <1>2, <1>3 DEF Shape, TypeOK, Serving, HandleError

\* TftpTimeout counts to TimeoutCountMax + 1 at most.
LEMMA TftpTimeoutShape == ASSUME Shape, TftpTimeout PROVE Shape'
<1>1. TftpTimeoutCount' = TftpTimeoutCount + 1 /\ TftpTimeoutCount' \in 0 .. TimeoutCountMax + 1
  BY BoundAssumption DEF TftpTimeout, Counted, Shape, TypeOK
<1>2. CASE OutOfRetries(TftpTimeoutCount')
  <2>1. /\ NetState' \in {"restart", "continue", "success", "fail", "done", "failed"}
        /\ NetState' # "continue" /\ net' = net
    BY <1>2, NetStartAgainType DEF Shape, TftpTimeout
  <2> QED
    BY <1>1, <2>1 DEF Shape, TypeOK, Serving, TftpTimeout
<1>3. CASE ~OutOfRetries(TftpTimeoutCount')
  <2>1. /\ net' = Send(net, TftpSend(TftpState, TftpBlock, TftpOurPort, TftpServerPort, seen))
        /\ NetState' = NetState
    BY <1>3 DEF TftpTimeout
  <2>2. /\ TftpState \in {"rrq", "oack", "data"} /\ TftpBlock \in 0 .. SeqSize - 1
        /\ TftpOurPort \in 1 .. MaxStarts /\ seen \in 0 .. Size + 1
        /\ TftpState # "rrq" => TftpServerPort \in Tids
    BY DEF Shape, TypeOK, TftpTimeout
  <2>3. IsFiniteSet(net') /\ Cardinality(net') <= Capacity /\ net' \subseteq Packets
    BY <2>1, <2>2, TftpSendTypes, SendTypes DEF Shape, TypeOK
  <2>4. TftpTimeoutCount' <= TimeoutCountMax
    BY <1>1, <1>3, BoundAssumption DEF OutOfRetries
  <2> QED
    BY <1>1, <2>1, <2>3, <2>4 DEF Shape, TypeOK, Serving, TftpTimeout
<1> QED
  BY <1>2, <1>3

\* TftpStart.
LEMMA TftpStartShape == ASSUME Shape, TftpStart PROVE Shape'
<1>1. starts' \in 1 .. MaxStarts /\ TftpOurPort' \in 1 .. MaxStarts
  BY BoundAssumption DEF TftpStart, Shape, TypeOK
<1>2. TftpSend("rrq", 0, TftpOurPort', WELL_KNOWN_PORT, 0)
        = {[type |-> "RRQ", port |-> TftpOurPort']}
  BY DEF TftpSend
<1>3. {[type |-> "RRQ", port |-> TftpOurPort']} \subseteq Packets
  BY <1>1 DEF Packets
<1>4. IsFiniteSet(net') /\ Cardinality(net') <= Capacity /\ net' \subseteq Packets
  BY <1>2, <1>3, FS_Singleton, SendTypes DEF Shape, TypeOK, TftpStart
<1>5. /\ TftpBlock' \in 0 .. SeqSize - 1 /\ got' \in 0 .. Size + 1 /\ seen' \in 0 .. Size + 1
      /\ TftpTimeoutCount' \in 0 .. TimeoutCountMax + 1 /\ TftpTimeoutCount' <= TimeoutCountMax
      /\ NetBootFileXferSize' \in 0 .. MemSize + BlkSizeOption
  BY SizeAssumption, SeqAssumption, BoundAssumption DEF TftpStart
<1>6. /\ NetState' = "continue" /\ TftpState' = "rrq" /\ TftpServerPort' = WELL_KNOWN_PORT
      /\ TftpBlkSize' = TFTP_BLOCK_SIZE /\ crossed' = FALSE
      /\ UNCHANGED <<noretry, TftpLastBlock, TftpBlockWrapOffset, mem, options, srv, dups>>
  BY DEF TftpStart
<1>7. Serving'
  BY <1>6 DEF Shape, Serving
<1>8. starts' \in 0 .. MaxStarts /\ TftpOurPort' \in 0 .. MaxStarts /\ TftpOurPort' >= 1
  BY <1>1
<1>9. TypeOK'
  BY <1>4, <1>5, <1>6, <1>8 DEF Shape, TypeOK
<1> QED
  BY <1>4, <1>5, <1>6, <1>7, <1>8, <1>9 DEF Shape

\* What the cases of TFTP_DATA have in common.
LEMMA HandleDataShape ==
  ASSUME Shape, NEW m \in net, HandleData(m)
  PROVE  Shape'
<1> DEFINE block == m.n % SeqSize
           len == LenOf(m.n, m.blksize)
<1>1. /\ m.tid \in Tids /\ TftpOurPort \in 1 .. MaxStarts
      /\ m.n \in 1 .. Size + 1 /\ m.blksize \in {TFTP_BLOCK_SIZE, BlkSizeOption}
  BY AcceptedTypes, PacketTypes DEF HandleData
<1>2. m.n \in Nat /\ m.n >= 1 /\ m.blksize \in Nat /\ m.blksize > 0
  BY <1>1, SizeAssumption DEF TFTP_BLOCK_SIZE
<1>3. block \in 0 .. SeqSize - 1 /\ block \in Nat
  BY <1>2, ModRange, SeqAssumption
<1>4. WrapOffset(block) \in 0 .. MemSize - 1 /\ Offset(block) \in 0 .. MemSize - 1
  BY <1>3, OffsetType DEF Shape
<1>5. /\ net' \subseteq Packets /\ IsFiniteSet(net') /\ Cardinality(net') <= Capacity
      /\ dups' \in 0 .. MaxDups
  <2>1. IsFiniteSet({}) /\ {} \subseteq Packets
    BY FS_EmptySet
  <2>2. LET sent == TftpSend("data", block, TftpOurPort, m.tid, m.n)
        IN  IsFiniteSet(sent) /\ sent \subseteq Packets
    BY <1>1, <1>3, SizeAssumption, TftpSendTypes
  <2>3. \/ Deliver(m, {})
        \/ Deliver(m, TftpSend("data", block, TftpOurPort, m.tid, m.n))
    BY DEF HandleData, NotBlockOne, IgnoreSame, StoreAndAck
  <2> QED
    BY <2>1, <2>2, <2>3, DeliverTypes
<1>6. TftpLastBlock' \in 0 .. SeqSize - 1
  BY <1>3, SeqAssumption DEF HandleData, NotBlockOne, IgnoreSame, StoreAndAck, Shape, TypeOK
<1>7. mem' \in [0 .. MemSize - 1 -> 0 .. Size]
  <2>1. Stored(Offset(block), m.n, m.blksize) \in [0 .. MemSize - 1 -> 0 .. Size]
    BY <1>2, <1>4, StoredType DEF Shape
  <2> QED
    BY <2>1 DEF HandleData, NotBlockOne, IgnoreSame, StoreAndAck, Shape, TypeOK
<1>8. NetBootFileXferSize' \in 0 .. MemSize + BlkSizeOption
  <2>1. len \in 0 .. m.blksize
    BY <1>2, LenIs
  <2>2. Offset(block) + len \in 0 .. MemSize + BlkSizeOption
    BY <1>1, <1>4, <2>1, SizeAssumption, BoundAssumption DEF TFTP_BLOCK_SIZE
  <2>3. \/ NetBootFileXferSize' = NetBootFileXferSize
        \/ NetBootFileXferSize' = Offset(block) + len
    BY DEF HandleData, NotBlockOne, IgnoreSame, StoreAndAck
  <2> QED
    BY <2>2, <2>3 DEF Shape, TypeOK
<1>9. got' \in 0 .. Size + 1 /\ seen' \in 0 .. Size + 1
  <2>1. got' \in {got, m.n} /\ seen' = m.n
    BY DEF HandleData, NotBlockOne, IgnoreSame, StoreAndAck
  <2> QED
    BY <1>1, <2>1 DEF Shape, TypeOK
<1>10. /\ NetState' \in {"restart", "continue", "success", "fail", "done", "failed"}
       /\ NetState' = "continue" => NetState = "continue"
  BY NetStartAgainType DEF HandleData, NotBlockOne, IgnoreSame, StoreAndAck, Shape, TypeOK
<1>11. /\ TftpState' = "data" /\ TftpServerPort' = m.tid /\ TftpBlock' = block
       /\ TftpBlockWrapOffset' = WrapOffset(block) /\ crossed' \in BOOLEAN
       /\ UNCHANGED <<noretry, TftpOurPort, TftpBlkSize, TftpTimeoutCount, starts, options, srv>>
  BY DEF HandleData, Shape, TypeOK
<1> QED
  BY <1>1, <1>3, <1>4, <1>5, <1>6, <1>7, <1>8, <1>9, <1>10, <1>11 DEF Shape, TypeOK, Serving

\* Every step keeps the types.
LEMMA StepShape == Shape /\ [Next]_vars => Shape'
  BY TftpStartShape, TftpTimeoutShape, NetLoopReturnsShape, HandleOackShape, HandleDataShape,
     HandleErrorShape, ServerAcceptShape, ServerAckShape, ServerSendShape, ServerErrorShape,
     StutterShape DEF Next

\* They hold at all times.
LEMMA ShapeInvariant == Spec => []Shape
  BY InitShape, StepShape, PTL DEF Spec

-----------------------------------------------------------------------------
(* Transfers, packets and the attempt of the client that is under way. *)

Running == NetState \in {"continue", "success"}
Peer == srv[TftpServerPort]

\* A packet is of its transfer, and of a block that the transfer has come to.
PacketOK(m) ==
  /\ m.port <= starts
  /\ m.type # "RRQ" => srv[m.tid].port = m.port
  /\ m.type = "OACK" => options
  /\ m.type = "DATA" => m.n <= srv[m.tid].block /\ m.blksize = srv[m.tid].blksize
  /\ m.type = "ACK" => m.n <= srv[m.tid].block /\ m.seq = m.n % SeqSize

\* The acknowledgements of the present attempt.
Acks == {m \in net : m.type = "ACK" /\ m.port = TftpOurPort}

\* No transfer has been chosen; the server's have not got further than their start.
Waiting ==
  /\ NetState = "continue"
  /\ TftpBlkSize = TFTP_BLOCK_SIZE /\ NetBootFileXferSize = 0
  /\ got = 0 /\ seen = 0 /\ ~crossed
  /\ Acks = {}
  /\ \A t \in Tids : srv[t].port = TftpOurPort => srv[t].block = IF options THEN 0 ELSE 1

\* The one transfer of this attempt that is heard and acknowledged.
Connected ==
  /\ Peer.port = TftpOurPort
  /\ TftpBlkSize = Peer.blksize
  /\ seen <= Peer.block /\ got <= Peer.block
  /\ \A m \in Acks : m.tid = TftpServerPort

Linked ==
  /\ TftpOurPort = starts /\ TftpBlock = seen % SeqSize
  /\ \A t \in Tids : srv[t].port <= starts
  /\ \A m \in net : PacketOK(m)
  /\ Running => starts >= 1 /\ (IF TftpState = "rrq" THEN Waiting ELSE Connected)

\* Nothing is in the network that was not sent.
LEMMA SendAdds ==
  ASSUME NEW ps, NEW sent
  PROVE  Send(ps, sent) \subseteq ps \cup sent
  BY DEF Send

\* A delivery adds the answer at most.
LEMMA DeliverAdds ==
  ASSUME NEW m, NEW sent, Deliver(m, sent)
  PROVE  net' \subseteq net \cup sent
  BY SendAdds DEF Deliver

\* There are no packets and no transfers at first.
LEMMA InitLinked == Init => Linked
<1> SUFFICES ASSUME Init PROVE Linked
  OBVIOUS
<1>1. 0 % SeqSize = 0
  BY ModIs, SeqAssumption
<1>2. \A t \in Tids : srv[t].port = 0
  BY DEF Init, Idle
<1> QED
  BY <1>1, <1>2 DEF Init, Linked, Running

\* A packet stays as it should be while its transfer goes on.
LEMMA PacketStays ==
  ASSUME Shape, Shape', NEW m \in Packets, PacketOK(m), options' = options, starts' >= starts,
         m.type # "RRQ" => /\ srv'[m.tid].port = srv[m.tid].port
                           /\ srv'[m.tid].blksize = srv[m.tid].blksize
                           /\ srv'[m.tid].block >= srv[m.tid].block
  PROVE  PacketOK(m)'
<1>1. starts' \in 0 .. MaxStarts /\ \A t \in Tids : srv'[t].block \in 0 .. Size + 1
  BY DEF Shape, TypeOK
<1>2. starts \in 0 .. MaxStarts /\ \A t \in Tids : srv[t].block \in 0 .. Size + 1
  BY DEF Shape, TypeOK
<1>3. m.port \in Nat /\ m.port <= starts
  BY PacketTypes, BoundAssumption DEF PacketOK
<1>4. m.port <= starts'
  BY <1>1, <1>2, <1>3, BoundAssumption
<1>5. m.type # "RRQ" => srv'[m.tid].block \in Nat /\ srv[m.tid].block \in Nat
  BY <1>1, <1>2, PacketTypes, SizeAssumption
<1>6. m.type = "ACK" \/ m.type = "DATA" => m.n \in Nat
  BY PacketTypes, SizeAssumption
<1> QED
  BY <1>4, <1>5, <1>6 DEF PacketOK

\* A transfer with a port is under way.
LEMMA PeerIs ==
  ASSUME Shape, NEW t \in Tids, srv[t].port >= 1
  PROVE  /\ srv[t] # Idle
         /\ srv[t].blksize = IF options THEN BlkSizeOption ELSE TFTP_BLOCK_SIZE
         /\ srv[t].block \in 0 .. Size + 1 /\ srv[t].block <= LastBlockOf(srv[t].blksize)
  BY DEF Idle, Shape, Serving, TypeOK

\* A new attempt has a port of its own: no packet and no transfer is of it.
LEMMA TftpStartLinked ==
  ASSUME ~PortReuse, Shape, Linked, TftpStart
  PROVE  Linked'
<1>1. /\ starts' = starts + 1 /\ starts \in Nat /\ TftpOurPort' = starts'
      /\ UNCHANGED <<options, srv>>
  BY BoundAssumption DEF TftpStart, Shape, TypeOK
<1>2. TftpBlock' = seen' % SeqSize
  BY ModIs, SeqAssumption DEF TftpStart
<1>3. \A t \in Tids : srv[t].port \in Nat /\ srv[t].port <= starts
  BY BoundAssumption DEF Shape, TypeOK, Linked
<1>4. ASSUME NEW m \in net'
      PROVE  PacketOK(m)' /\ (m.type = "ACK" => m.port <= starts)
  <2>1. CASE m \in net
    <3>1. m \in Packets /\ PacketOK(m)
      BY <2>1 DEF Shape, TypeOK, Linked
    <3>2. \A t \in Tids : srv[t].block \in Nat
      BY SizeAssumption DEF Shape, TypeOK
    <3>3. m.type # "RRQ" => m.tid \in Tids
      BY <3>1, PacketTypes
    <3>4. PacketOK(m)'
      <4>1. starts' >= starts /\ options' = options
        BY <1>1
      <4>2. m.type # "RRQ" => /\ srv'[m.tid].port = srv[m.tid].port
                              /\ srv'[m.tid].blksize = srv[m.tid].blksize
                              /\ srv'[m.tid].block >= srv[m.tid].block
        BY <1>1, <3>2, <3>3
      <4> QED
        BY <3>1, <4>1, <4>2, TftpStartShape, PacketStays
    <3> QED
      BY <3>1, <3>4 DEF PacketOK
  <2>2. CASE m = [type |-> "RRQ", port |-> starts']
    BY <1>1, <2>2 DEF PacketOK
  <2>3. net' \subseteq net \cup {[type |-> "RRQ", port |-> starts']}
    BY <1>1, SendAdds DEF TftpStart, TftpSend
  <2> QED
    BY <2>1, <2>2, <2>3
<1>5. Acks' = {}
  BY <1>1, <1>4 DEF Acks
<1>6. Waiting'
  BY <1>1, <1>3, <1>5 DEF TftpStart, Waiting
<1> QED
  BY <1>1, <1>2, <1>3, <1>4, <1>6 DEF Linked, TftpStart

\* A transfer that starts is not the one that the client hears.
LEMMA ServerAcceptLinked ==
  ASSUME Shape, Linked, NEW m \in net, ServerAccept(m)
  PROVE  Linked'
<1>1. PICK t \in Tids :
        /\ srv[t] = Idle
        /\ srv' = [srv EXCEPT ![t] =
                     IF options
                       THEN [port |-> m.port, blksize |-> BlkSizeOption, block |-> 0]
                       ELSE [port |-> m.port, blksize |-> TFTP_BLOCK_SIZE, block |-> 1]]
  BY DEF ServerAccept
<1>2. UNCHANGED <<client, options>> /\ net' \subseteq net
  BY DEF ServerAccept
<1>3. /\ srv'[t].port = m.port /\ srv'[t].block = (IF options THEN 0 ELSE 1)
      /\ \A u \in Tids : u # t => srv'[u] = srv[u]
  BY <1>1 DEF Shape, TypeOK
<1>4. m.port \in 1 .. MaxStarts /\ m.port <= starts /\ starts \in Nat
  BY PacketTypes, BoundAssumption DEF Shape, TypeOK, Linked, PacketOK
<1>5. ASSUME NEW p \in net'
      PROVE  PacketOK(p)'
  <2>1. p \in Packets /\ PacketOK(p)
    BY <1>2 DEF Shape, TypeOK, Linked
  <2>2. p.type # "RRQ" => p.tid \in Tids /\ p.tid # t
    BY <1>1, <2>1, PacketTypes DEF PacketOK, Idle
  <2>3. \A u \in Tids : srv[u].block \in Nat
    BY SizeAssumption DEF Shape, TypeOK
  <2>4. Shape'
    BY ServerAcceptShape
  <2>5. options' = options /\ starts' = starts
    BY <1>2 DEF client
  <2>6. p.type # "RRQ" => /\ srv'[p.tid].port = srv[p.tid].port
                          /\ srv'[p.tid].blksize = srv[p.tid].blksize
                          /\ srv'[p.tid].block >= srv[p.tid].block
    BY <1>3, <2>2, <2>3
  <2>7. starts' >= starts
    BY <1>4, <2>5
  <2> QED
    BY <2>1, <2>4, <2>5, <2>6, <2>7, PacketStays
<1>6. \A u \in Tids : srv'[u].port <= starts
  BY <1>3, <1>4 DEF Linked
<1>7. Acks' \subseteq Acks
  BY <1>2 DEF Acks, client
<1>8. CASE Running /\ TftpState = "rrq"
  <2>1. Waiting'
    BY <1>2, <1>3, <1>7, <1>8 DEF Linked, Waiting, client
  <2> QED
    BY <1>2, <1>5, <1>6, <1>8, <2>1 DEF Linked, client, Running
<1>9. CASE Running /\ TftpState # "rrq"
  <2>1. TftpServerPort \in Tids /\ TftpServerPort # t
    BY <1>1, <1>9 DEF Shape, Linked, Connected, Peer, Idle
  <2>2. Peer' = Peer
    BY <1>2, <1>3, <2>1 DEF Peer, client
  <2>3. Connected'
    BY <1>2, <1>7, <1>9, <2>2 DEF Linked, Connected, client
  <2> QED
    BY <1>2, <1>5, <1>6, <1>9, <2>3 DEF Linked, client, Running
<1>10. CASE ~Running
  BY <1>2, <1>5, <1>6, <1>10 DEF Linked, client, Running
<1> QED
  BY <1>8, <1>9, <1>10

\* A transfer that has not been answered is not acknowledged.
LEMMA ServerAckLinked ==
  ASSUME Shape, Linked, NEW m \in net, ServerAck(m)
  PROVE  Linked'
<1>1. /\ srv' = [srv EXCEPT ![m.tid].block = @ + 1]
      /\ m.type = "ACK" /\ m.tid \in Tids /\ srv[m.tid].port = m.port
  BY PacketTypes DEF ServerAck, Shape, TypeOK
<1>2. UNCHANGED <<client, options>> /\ net' \subseteq net
  BY DEF ServerAck
<1>3. \A u \in Tids : srv[u].block \in Nat
  BY SizeAssumption DEF Shape, TypeOK
<1>4. \A u \in Tids : /\ srv'[u].port = srv[u].port /\ srv'[u].blksize = srv[u].blksize
                      /\ srv'[u].block >= srv[u].block
                      /\ u # m.tid => srv'[u].block = srv[u].block
  BY <1>1, <1>3 DEF Shape, TypeOK
<1>5. ASSUME NEW p \in net'
      PROVE  PacketOK(p)'
  <2>1. p \in Packets /\ PacketOK(p)
    BY <1>2 DEF Shape, TypeOK, Linked
  <2>2. p.type # "RRQ" => p.tid \in Tids
    BY <2>1, PacketTypes
  <2>3. Shape'
    BY ServerAckShape
  <2>4. options' = options /\ starts' = starts /\ starts \in Nat
    BY <1>2, BoundAssumption DEF client, Shape, TypeOK
  <2>5. p.type # "RRQ" => /\ srv'[p.tid].port = srv[p.tid].port
                          /\ srv'[p.tid].blksize = srv[p.tid].blksize
                          /\ srv'[p.tid].block >= srv[p.tid].block
    BY <1>4, <2>2
  <2>6. starts' >= starts
    BY <2>4
  <2> QED
    BY <2>1, <2>3, <2>4, <2>5, <2>6, PacketStays
<1>6. \A u \in Tids : srv'[u].port <= starts
  BY <1>4 DEF Linked
<1>7. Acks' \subseteq Acks
  BY <1>2 DEF Acks, client
<1>8. CASE Running /\ TftpState = "rrq"
  <2>1. srv[m.tid].port # TftpOurPort
    BY <1>1, <1>8 DEF Linked, Waiting, Acks
  <2>2. Waiting'
    BY <1>2, <1>4, <1>7, <1>8, <2>1 DEF Linked, Waiting, client
  <2> QED
    BY <1>2, <1>5, <1>6, <1>8, <2>2 DEF Linked, client, Running
<1>9. CASE Running /\ TftpState # "rrq"
  <2>1. TftpServerPort \in Tids /\ seen \in Nat /\ got \in Nat
    BY <1>9, SizeAssumption DEF Shape, TypeOK
  <2>2. /\ Peer'.port = Peer.port /\ Peer'.blksize = Peer.blksize /\ Peer'.block >= Peer.block
        /\ Peer.block \in Nat /\ Peer'.block \in Nat
    <3>1. Shape'
      BY ServerAckShape
    <3> QED
      BY <1>2, <1>3, <1>4, <2>1, <3>1, SizeAssumption DEF Peer, client, Shape, TypeOK
  <2>3. Connected'
    BY <1>2, <1>7, <1>9, <2>1, <2>2 DEF Linked, Connected, client
  <2> QED
    BY <1>2, <1>5, <1>6, <1>9, <2>3 DEF Linked, client, Running
<1>10. CASE ~Running
  BY <1>2, <1>5, <1>6, <1>10 DEF Linked, client, Running
<1> QED
  BY <1>8, <1>9, <1>10

\* A step of the server's that changes none of its transfers.
LEMMA ServerSays ==
  ASSUME Shape, Linked, NEW p, p.type # "ACK", PacketOK(p), net' \subseteq net \cup {p},
         UNCHANGED <<client, options, srv>>
  PROVE  Linked'
<1>1. \A m \in net' : PacketOK(m)'
  BY DEF Linked, PacketOK, client
<1>2. Acks' \subseteq Acks
  BY DEF Acks, client
<1> QED
  BY <1>1, <1>2 DEF Linked, Running, Waiting, Connected, Peer, client

\* The server sends the block it is at.
LEMMA ServerSendLinked ==
  ASSUME Shape, Linked, NEW t \in Tids, ServerSend(t)
  PROVE  Linked'
<1>1. Current(t).type # "ACK"
  BY DEF Current
<1>2. PacketOK(Current(t))
  <2>1. srv[t].port <= starts /\ srv[t].block \in Nat
    BY SizeAssumption DEF Linked, Shape, TypeOK
  <2>2. srv[t].block = 0 => options
    BY DEF Shape, Serving, ServerSend
  <2> QED
    BY <2>1, <2>2 DEF Current, PacketOK
<1>3. net' \subseteq net \cup {Current(t)} /\ UNCHANGED <<client, options, srv>>
  BY SendAdds DEF ServerSend
<1> QED
  BY <1>1, <1>2, <1>3, ServerSays

\* A refusal is of its transfer.
LEMMA ServerErrorLinked ==
  ASSUME Shape, Linked, NEW t \in Tids, ServerError(t)
  PROVE  Linked'
<1> DEFINE e == [type |-> "ERROR", tid |-> t, port |-> srv[t].port]
<1>1. PacketOK(e)
  BY DEF Linked, PacketOK
<1>2. net' \subseteq net \cup {e} /\ UNCHANGED <<client, options, srv>>
  BY SendAdds DEF ServerError
<1> QED
  BY <1>1, <1>2, ServerSays

\* The step of the client's in a transfer, with at most an acknowledgement sent.
LEMMA ClientSays ==
  ASSUME Shape, Shape', Linked, NEW n \in Nat,
         net' \subseteq net \cup TftpSend("data", TftpBlock', TftpOurPort, TftpServerPort', n),
         TftpBlock' = seen' % SeqSize, TftpBlock' = n % SeqSize,
         TftpServerPort' \in Tids, srv[TftpServerPort'].port = TftpOurPort,
         n <= srv[TftpServerPort'].block, seen' <= srv[TftpServerPort'].block,
         got' <= srv[TftpServerPort'].block, TftpBlkSize' = srv[TftpServerPort'].blksize,
         TftpState' # "rrq", starts >= 1,
         \A m \in Acks : m.tid = TftpServerPort',
         UNCHANGED <<TftpOurPort, starts, options, srv>>
  PROVE  Linked'
<1> DEFINE a == [type |-> "ACK", tid |-> TftpServerPort', port |-> TftpOurPort,
                 seq |-> TftpBlock', n |-> n]
<1>1. net' \subseteq net \cup {a}
  BY DEF TftpSend
<1>2. PacketOK(a)
  BY DEF PacketOK, Linked
<1>3. \A m \in net' : PacketOK(m)'
  BY <1>1, <1>2 DEF Linked, PacketOK
<1>4. \A m \in Acks' : m.tid = TftpServerPort'
  BY <1>1 DEF Acks
<1>5. Connected'
  BY <1>4 DEF Connected, Peer
<1> QED
  BY <1>3, <1>5 DEF Linked

\* An OACK chooses the transfer or is of the one chosen.
LEMMA HandleOackLinked ==
  ASSUME Shape, Linked, NEW m \in net, HandleOack(m)
  PROVE  Linked'
<1>1. /\ m \in Packets /\ m.tid \in Tids /\ m.port = TftpOurPort /\ TftpOurPort \in 1 .. MaxStarts
      /\ m.blksize = BlkSizeOption /\ PacketOK(m) /\ Running /\ m.type = "OACK"
      /\ TftpState = "rrq" \/ m.tid = TftpServerPort
  BY AcceptedTypes, PacketTypes DEF HandleOack, Accepts, Linked, Running
<1>2. srv[m.tid].port = TftpOurPort /\ options
  BY <1>1 DEF PacketOK
<1>3. srv[m.tid].blksize = BlkSizeOption /\ srv[m.tid].block \in Nat
  BY <1>1, <1>2, PeerIs, SizeAssumption
<1>4. seen \in Nat /\ seen <= srv[m.tid].block /\ got <= srv[m.tid].block
  <2>1. seen \in Nat
    BY SizeAssumption DEF Shape, TypeOK
  <2> QED
    BY <1>1, <1>3, <2>1 DEF Linked, Waiting, Connected, Peer
<1>5. \A a \in Acks : a.tid = m.tid
  BY <1>1 DEF Linked, Waiting, Connected
<1>6. net' \subseteq net \cup TftpSend("data", TftpBlock, TftpOurPort, m.tid, seen)
  <2>1. Deliver(m, TftpSend("oack", TftpBlock, TftpOurPort, m.tid, seen))
    BY DEF HandleOack
  <2> QED
    BY <2>1, DeliverAdds DEF TftpSend
<1>7. /\ TftpState' = "oack" /\ TftpServerPort' = m.tid /\ TftpBlkSize' = m.blksize
      /\ UNCHANGED <<TftpOurPort, TftpBlock, starts, got, seen, options, srv>>
  BY DEF HandleOack
<1>8. starts >= 1 /\ TftpBlock = seen % SeqSize
  BY <1>1 DEF Linked
<1>9. Shape'
  BY HandleOackShape
<1> QED
  BY <1>1, <1>2, <1>3, <1>4, <1>5, <1>6, <1>7, <1>8, <1>9, ClientSays

\* A data packet that is accepted belongs to the transfer and is not ahead of it.
LEMMA DataIs ==
  ASSUME Shape, Linked, NEW m \in net, HandleData(m)
  PROVE  /\ m.tid \in Tids /\ srv[m.tid].port = TftpOurPort /\ TftpOurPort \in 1 .. MaxStarts
         /\ m.n \in 1 .. Size + 1 /\ m.n <= srv[m.tid].block /\ srv[m.tid].block \in Nat
         /\ m.blksize = TftpBlkSize /\ TftpBlkSize = srv[m.tid].blksize
         /\ TftpState = "rrq" => m.n = 1 /\ srv[m.tid].block = 1
         /\ TftpState # "rrq" => m.tid = TftpServerPort
         /\ starts >= 1
<1>1. /\ m \in Packets /\ m.tid \in Tids /\ m.port = TftpOurPort /\ TftpOurPort \in 1 .. MaxStarts
      /\ m.n \in 1 .. Size + 1 /\ PacketOK(m) /\ Running /\ m.type = "DATA"
      /\ TftpState = "rrq" \/ m.tid = TftpServerPort
  BY AcceptedTypes, PacketTypes DEF HandleData, Accepts, Linked, Running
<1>2. srv[m.tid].port = TftpOurPort /\ m.n <= srv[m.tid].block /\ m.blksize = srv[m.tid].blksize
  BY <1>1 DEF PacketOK
<1>3. /\ srv[m.tid].blksize = IF options THEN BlkSizeOption ELSE TFTP_BLOCK_SIZE
      /\ srv[m.tid].block \in Nat
  BY <1>1, <1>2, PeerIs, SizeAssumption
<1>4. CASE TftpState = "rrq"
  <2>1. srv[m.tid].block = (IF options THEN 0 ELSE 1) /\ TftpBlkSize = TFTP_BLOCK_SIZE
    BY <1>1, <1>2, <1>4 DEF Linked, Waiting
  <2>2. ~options /\ m.n = 1 /\ srv[m.tid].block = 1
    BY <1>1, <1>2, <2>1
  <2> QED
    BY <1>1, <1>2, <1>3, <1>4, <2>1, <2>2 DEF Linked
<1>5. CASE TftpState # "rrq"
  BY <1>1, <1>2, <1>3, <1>5 DEF Linked, Connected, Peer
<1> QED
  BY <1>4, <1>5

\* A data packet chooses the transfer or is of the one chosen.
LEMMA HandleDataLinked ==
  ASSUME Shape, Linked, NEW m \in net, HandleData(m)
  PROVE  Linked'
<1> DEFINE block == m.n % SeqSize
<1>1. /\ m.tid \in Tids /\ srv[m.tid].port = TftpOurPort /\ TftpOurPort \in 1 .. MaxStarts
      /\ m.n \in Nat /\ m.n <= srv[m.tid].block /\ srv[m.tid].block \in Nat
      /\ TftpBlkSize = srv[m.tid].blksize /\ starts >= 1
      /\ TftpState # "rrq" => m.tid = TftpServerPort
  BY DataIs, SizeAssumption
<1>2. got <= srv[m.tid].block
  <2>1. Running
    BY DEF HandleData, Accepts, Running
  <2> QED
    BY <1>1, <2>1 DEF Linked, Waiting, Connected, Peer
<1>3. \A a \in Acks : a.tid = m.tid
  <2>1. Running
    BY DEF HandleData, Accepts, Running
  <2> QED
    BY <1>1, <2>1 DEF Linked, Waiting, Connected
<1>4. got' \in {got, m.n} /\ seen' = m.n /\ TftpBlock' = block
  BY DEF HandleData, NotBlockOne, IgnoreSame, StoreAndAck
<1>5. net' \subseteq net \cup TftpSend("data", block, TftpOurPort, m.tid, m.n)
  <2>1. \/ Deliver(m, {})
        \/ Deliver(m, TftpSend("data", block, TftpOurPort, m.tid, m.n))
    BY DEF HandleData, NotBlockOne, IgnoreSame, StoreAndAck
  <2> QED
    BY <2>1, DeliverAdds
<1>6. /\ TftpState' = "data" /\ TftpServerPort' = m.tid
      /\ UNCHANGED <<TftpOurPort, TftpBlkSize, starts, options, srv>>
  BY DEF HandleData
<1>7. Shape'
  BY HandleDataShape
<1>8. TftpState' # "rrq"
  BY <1>6
<1> HIDE DEF block
<1> QED
  BY <1>1, <1>2, <1>3, <1>4, <1>5, <1>6, <1>7, <1>8, ClientSays DEF block

\* An error ends the attempt, or changes nothing after a success.
LEMMA HandleErrorLinked ==
  ASSUME Shape, Linked, NEW m \in net, HandleError(m)
  PROVE  Linked'
<1>1. net' \subseteq net
  BY DeliverAdds DEF HandleError
<1>2. UNCHANGED <<TftpState, TftpOurPort, TftpServerPort, TftpBlock, TftpBlkSize,
                  NetBootFileXferSize, starts, got, seen, crossed, options, srv>>
  BY DEF HandleError
<1>3. \A p \in net' : PacketOK(p)'
  BY <1>1, <1>2 DEF Linked, PacketOK
<1>4. Running' => NetState' = NetState /\ Running
  BY DEF HandleError, NetStartAgain, Running, Accepts
<1>5. Acks' \subseteq Acks
  BY <1>1, <1>2 DEF Acks
<1> QED
  BY <1>2, <1>3, <1>4, <1>5 DEF Linked, Waiting, Connected, Peer

\* The end of NetLoop ends the attempt.
LEMMA NetLoopReturnsLinked == Linked /\ NetLoopReturns => Linked'
  BY DEF Linked, PacketOK, Running, NetLoopReturns

\* Nothing happens.
LEMMA StutterLinked == Linked /\ UNCHANGED vars => Linked'
  BY DEF Linked, PacketOK, Running, Waiting, Connected, Peer, Acks, vars, client

\* TftpTimeout repeats the request, or the acknowledgement of the block in TftpBlock.
LEMMA TftpTimeoutLinked ==
  ASSUME Shape, Linked, TftpTimeout
  PROVE  Linked'
<1>1. UNCHANGED <<TftpState, TftpOurPort, TftpServerPort, TftpBlock, TftpBlkSize,
                  NetBootFileXferSize, starts, got, seen, crossed, options, srv>>
  BY DEF TftpTimeout
<1>2. Running /\ NetState = "continue"
  BY DEF TftpTimeout, Running
<1>3. CASE OutOfRetries(TftpTimeoutCount')
  <2>1. ~Running' /\ net' = net
    BY <1>2, <1>3 DEF TftpTimeout, NetStartAgain, Running
  <2> QED
    BY <1>1, <2>1 DEF Linked, PacketOK
<1>4. CASE ~OutOfRetries(TftpTimeoutCount')
  <2>1. /\ net' \subseteq net \cup TftpSend(TftpState, TftpBlock, TftpOurPort, TftpServerPort, seen)
        /\ NetState' = NetState
    BY <1>4, SendAdds DEF TftpTimeout
  <2>2. CASE TftpState = "rrq"
    <3>1. net' \subseteq net \cup {[type |-> "RRQ", port |-> TftpOurPort]}
      BY <2>1, <2>2 DEF TftpSend
    <3>2. \A p \in net' : PacketOK(p)'
      <4>1. starts \in Nat
        BY BoundAssumption DEF Shape, TypeOK
      <4> QED
        BY <1>1, <3>1, <4>1 DEF Linked, PacketOK
    <3>3. Acks' \subseteq Acks
      BY <1>1, <3>1 DEF Acks
    <3> QED
      BY <1>1, <1>2, <2>1, <2>2, <3>2, <3>3 DEF Linked, Waiting, Running
  <2>3. CASE TftpState # "rrq"
    <3>1. net' \subseteq net \cup TftpSend("data", TftpBlock', TftpOurPort, TftpServerPort', seen)
      BY <1>1, <2>1, <2>3 DEF TftpSend
    <3>2. seen \in Nat /\ TftpServerPort \in Tids
      BY <2>3, SizeAssumption DEF Shape, TypeOK
    <3>3. /\ srv[TftpServerPort].port = TftpOurPort /\ TftpBlkSize = srv[TftpServerPort].blksize
          /\ seen <= srv[TftpServerPort].block /\ got <= srv[TftpServerPort].block
          /\ \A m \in Acks : m.tid = TftpServerPort
          /\ starts >= 1 /\ TftpBlock = seen % SeqSize
      BY <1>2, <2>3 DEF Linked, Connected, Peer
    <3>4. Shape'
      BY TftpTimeoutShape
    <3> QED
      BY <1>1, <2>3, <3>1, <3>2, <3>3, <3>4, ClientSays
  <2> QED
    BY <2>2, <2>3
<1> QED
  BY <1>3, <1>4

\* Every step keeps the links, if ports are not used again.
LEMMA StepLinked == ~PortReuse /\ Shape /\ Linked /\ [Next]_vars => Linked'
  BY TftpStartLinked, TftpTimeoutLinked, NetLoopReturnsLinked, HandleOackLinked, HandleDataLinked,
     HandleErrorLinked, ServerAcceptLinked, ServerAckLinked, ServerSendLinked, ServerErrorLinked,
     StutterLinked DEF Next

-----------------------------------------------------------------------------
(* What is in memory. *)

\* The first k blocks are in memory.
Held(k) == \A a \in 0 .. Size - 1 : a + 1 <= k * TftpBlkSize => mem[a] = a + 1

\* Blocks up to k may be acknowledged.
Answered(k) == Held(k) /\ (k <= got \/ k < SeqSize)

PlacedAt(t) ==
  /\ NetBootFileXferSize <= Size
  /\ Answered(srv[t].block - 1) /\ Held(got)
  /\ \A m \in Acks : Answered(m.n)
  /\ NetState = "success" => WholeFile /\ srv[t].block = LastBlockOf(TftpBlkSize) /\ got >= 1
  /\ TftpState # "data" => got < SeqSize /\ (NetState = "success" => srv[t].block < SeqSize)
  /\ TftpState = "data" =>
       /\ got >= 1
       /\ TftpBlockWrapOffset = ((got \div SeqSize) * (TftpBlkSize * SeqSize)) % MemSize
       /\ TftpLastBlock <= got % SeqSize
       /\ TftpLastBlock = 0 => \/ got % SeqSize = 0
                               \/ NetState = "success" /\ srv[t].block < SeqSize

Placed == PlacedAt(TftpServerPort) /\ Answered(seen)

Loaded ==
  /\ Running /\ TftpState # "rrq" => crossed \/ Placed
  /\ NetState = "done" => crossed \/ WholeFile

\* What is held stays held when a block is stored at its place.
LEMMA StoredAtPlace ==
  ASSUME TypeOK, NEW n \in Nat, n >= 1, n <= LastBlockOf(TftpBlkSize), UNCHANGED TftpBlkSize,
         mem' = Stored((n - 1) * TftpBlkSize, n, TftpBlkSize)
  PROVE  /\ \A a \in 0 .. Size - 1 : mem[a] = a + 1 => mem'[a] = a + 1
         /\ \A k \in Int : Held(k) => Held(k)'
         /\ Held(n - 1) => Held(n)'
<1> DEFINE b == TftpBlkSize
           s == (n - 1) * b
           len == LenOf(n, b)
<1>1. b \in Nat /\ b > 0 /\ Size \in Nat /\ MemSize \in Nat /\ MemSize > Size
  BY SizeAssumption, BoundAssumption DEF TypeOK, TFTP_BLOCK_SIZE
<1>2. /\ s \in Nat /\ len \in Nat /\ s + len <= Size /\ (len = b \/ s + len = Size)
      /\ n * b = s + b
  BY <1>1, BlockLength
<1>3. ASSUME NEW a \in 0 .. Size - 1
      PROVE  mem'[a] = IF s <= a /\ a < s + len THEN a + 1 ELSE mem[a]
  <2>1. a \in 0 .. MemSize - 1
    BY <1>1
  <2>2. mem'[a] = IF s <= a /\ a < s + len THEN s + (a - s) + 1 ELSE mem[a]
    BY <2>1 DEF Stored
  <2> HIDE DEF s, len
  <2> QED
    BY <1>2, <2>2
<1>4. \A a \in 0 .. Size - 1 : mem[a] = a + 1 => mem'[a] = a + 1
  BY <1>3
<1>5. \A k \in Int : Held(k) => Held(k)'
  BY <1>4 DEF Held
<1>6. ASSUME Held(n - 1), NEW a \in 0 .. Size - 1, a + 1 <= n * b
      PROVE  mem'[a] = a + 1
  <2>1. CASE a < s
    <3>1. a + 1 <= s
      BY <1>2, <2>1
    <3> QED
      BY <1>4, <1>6, <3>1 DEF Held
  <2>2. CASE a >= s
    <3> HIDE DEF s, len
    <3>1. a < s + len
      BY <1>1, <1>2, <1>6, <2>2
    <3> QED
      BY <1>3, <2>2, <3>1
  <2> QED
    BY <1>2, <2>1, <2>2
<1>7. Held(n - 1) => Held(n)'
  BY <1>6 DEF Held
<1> QED
  BY <1>4, <1>5, <1>7

\* The acknowledgements after a step that sends at most one.
LEMMA AcksAfter ==
  ASSUME NEW b, NEW q, NEW n,
         net' \subseteq net \cup TftpSend("data", b, TftpOurPort, q, n), UNCHANGED TftpOurPort
  PROVE  \A m \in Acks' : m \in Acks \/ m.n = n
  BY DEF Acks, TftpSend

\* The transfer that answers first has nothing to its credit.
LEMMA FirstPlaced ==
  ASSUME Shape, Linked, Running, TftpState = "rrq", NEW t \in Tids, srv[t].port = TftpOurPort
  PROVE  PlacedAt(t) /\ Answered(seen) /\ ~crossed
<1>1. /\ srv[t].block \in 0 .. 1 /\ got = 0 /\ seen = 0 /\ NetBootFileXferSize = 0 /\ Acks = {}
      /\ NetState = "continue" /\ TftpBlkSize = TFTP_BLOCK_SIZE /\ ~crossed
  BY DEF Linked, Waiting
<1>2. Held(0) /\ Held(srv[t].block - 1)
  BY <1>1, SizeAssumption DEF Held, TFTP_BLOCK_SIZE
<1>3. Answered(0) /\ Answered(srv[t].block - 1)
  BY <1>1, <1>2, SeqAssumption DEF Answered
<1> QED
  BY <1>1, <1>2, <1>3, SizeAssumption, SeqAssumption DEF PlacedAt

\* A step that leaves the client as it is.
LEMMA ClientRests ==
  ASSUME Linked, Loaded, Acks' \subseteq Acks, UNCHANGED client,
         Running /\ TftpState # "rrq" => Peer' = Peer
  PROVE  Loaded'
<1>1. ASSUME Running, TftpState # "rrq", Placed PROVE Placed'
  BY <1>1 DEF Placed, PlacedAt, Answered, Held, WholeFile, Peer, client
<1> QED
  BY <1>1 DEF Loaded, Running, WholeFile, client

\* Nothing has been claimed at first, ...
LEMMA InitLoaded == Init => Loaded
  BY DEF Init, Loaded, Running

\* ... nor when an attempt starts.
LEMMA TftpStartLoaded == TftpStart => Loaded'
  BY DEF TftpStart, Loaded, Running

\* NetLoop returns success after NETLOOP_SUCCESS only.
LEMMA NetLoopReturnsLoaded ==
  ASSUME Linked, Loaded, NetLoopReturns
  PROVE  Loaded'
<1>1. ~Running'
  BY DEF NetLoopReturns, Running
<1>2. NetState' = "done" => crossed \/ WholeFile
  BY DEF NetLoopReturns, Loaded, Linked, Running, Waiting, Placed, PlacedAt
<1> QED
  BY <1>1, <1>2 DEF Loaded, NetLoopReturns, WholeFile

\* Nothing happens.
LEMMA StutterLoaded ==
  ASSUME Linked, Loaded, UNCHANGED vars
  PROVE  Loaded'
<1>1. Acks' = Acks /\ UNCHANGED client /\ Peer' = Peer
  BY DEF vars, client, Acks, Peer
<1> QED
  BY <1>1, ClientRests

\* An error changes nothing in memory.
LEMMA HandleErrorLoaded ==
  ASSUME Linked, Loaded, NEW m \in net, HandleError(m)
  PROVE  Loaded'
<1>1. net' \subseteq net
  BY DeliverAdds DEF HandleError
<1>2. Acks' \subseteq Acks
  BY <1>1 DEF HandleError, Acks
<1>3. CASE NetState' = NetState
  <2>1. UNCHANGED client /\ Peer' = Peer
    BY <1>3 DEF HandleError, client, Peer
  <2> QED
    BY <1>2, <2>1, ClientRests
<1>4. CASE NetState' # NetState
  BY <1>4 DEF HandleError, NetStartAgain, Loaded, Running
<1> QED
  BY <1>3, <1>4

\* The block in TftpBlock may be acknowledged again.
LEMMA TftpTimeoutLoaded ==
  ASSUME Shape, Linked, Loaded, TftpTimeout
  PROVE  Loaded'
<1>1. CASE NetState' # NetState
  BY <1>1 DEF TftpTimeout, NetStartAgain, Loaded, Running
<1>2. CASE NetState' = NetState /\ TftpState # "rrq"
  <2>1. /\ NetState = "continue"
        /\ UNCHANGED <<TftpState, TftpOurPort, TftpServerPort, TftpLastBlock,
                       TftpBlockWrapOffset, TftpBlkSize, NetBootFileXferSize, mem, got,
                       seen, crossed, srv>>
    BY DEF TftpTimeout
  <2>2. net' \subseteq net \cup TftpSend("data", TftpBlock, TftpOurPort, TftpServerPort, seen)
    <3>1. CASE OutOfRetries(TftpTimeoutCount')
      BY <1>2, <2>1, <3>1 DEF TftpTimeout, NetStartAgain
    <3>2. CASE ~OutOfRetries(TftpTimeoutCount')
      BY <1>2, <3>2, SendAdds DEF TftpTimeout, TftpSend
    <3> QED
      BY <3>1, <3>2
  <2>3. \A m \in Acks' : m \in Acks \/ m.n = seen
    BY <2>1, <2>2, AcksAfter
  <2>4. ASSUME Placed PROVE Placed'
    <3>1. \A k : Answered(k)' <=> Answered(k)
      BY <2>1 DEF Answered, Held
    <3>2. \A m \in Acks' : Answered(m.n)'
      BY <2>3, <2>4, <3>1 DEF Placed, PlacedAt
    <3> QED
      BY <1>2, <2>1, <2>4, <3>1, <3>2 DEF Placed, PlacedAt, Held, WholeFile
  <2> QED
    BY <1>2, <2>1, <2>4 DEF Loaded, Running
<1>3. CASE NetState' = NetState /\ TftpState = "rrq"
  BY <1>3 DEF TftpTimeout, Loaded, Running
<1> QED
  BY <1>1, <1>2, <1>3

\* A packet sent by the server acknowledges nothing.
LEMMA ServerSendLoaded ==
  ASSUME Linked, Loaded, NEW t \in Tids, ServerSend(t)
  PROVE  Loaded'
<1>1. net' \subseteq net \cup {Current(t)} /\ UNCHANGED <<client, srv>>
  BY SendAdds DEF ServerSend
<1>2. Acks' \subseteq Acks
  BY <1>1 DEF Acks, Current, client
<1>3. Peer' = Peer
  BY <1>1 DEF Peer, client
<1> QED
  BY <1>1, <1>2, <1>3, ClientRests

\* Nor does a refusal.
LEMMA ServerErrorLoaded ==
  ASSUME Linked, Loaded, NEW t \in Tids, ServerError(t)
  PROVE  Loaded'
<1>1. /\ net' \subseteq net \cup {[type |-> "ERROR", tid |-> t, port |-> srv[t].port]}
      /\ UNCHANGED <<client, srv>>
  BY SendAdds DEF ServerError
<1>2. Acks' \subseteq Acks
  BY <1>1 DEF Acks, client
<1>3. Peer' = Peer
  BY <1>1 DEF Peer, client
<1> QED
  BY <1>1, <1>2, <1>3, ClientRests

\* A request that comes late starts a transfer that is not heard.
LEMMA ServerAcceptLoaded ==
  ASSUME Shape, Linked, Loaded, NEW m \in net, ServerAccept(m)
  PROVE  Loaded'
<1>1. UNCHANGED client /\ net' \subseteq net
  BY DEF ServerAccept
<1>2. Acks' \subseteq Acks
  BY <1>1 DEF Acks, client
<1>3. ASSUME Running, TftpState # "rrq" PROVE Peer' = Peer
  <2>1. PICK t \in Tids :
          /\ srv[t] = Idle
          /\ srv' = [srv EXCEPT ![t] =
                       IF options
                         THEN [port |-> m.port, blksize |-> BlkSizeOption, block |-> 0]
                         ELSE [port |-> m.port, blksize |-> TFTP_BLOCK_SIZE, block |-> 1]]
    BY DEF ServerAccept
  <2>2. TftpServerPort \in Tids /\ TftpServerPort # t
    BY <1>3, <2>1 DEF Shape, Linked, Connected, Peer, Idle
  <2> QED
    BY <1>1, <2>1, <2>2 DEF Peer, client, Shape, TypeOK
<1> QED
  BY <1>1, <1>2, <1>3, ClientRests

(* An acknowledgement that the server accepts is of the block it is at: an     *)
(* older one whose number has come round again would have outlived Window.     *)
LEMMA AckIsCurrent ==
  ASSUME Window < SeqSize, Shape, Linked, NEW m \in net, ServerAck(m)
  PROVE  m.n = srv[m.tid].block
<1> DEFINE k == srv[m.tid].block
<1>1. m \in Packets /\ m.type = "ACK" /\ PacketOK(m) /\ m.tid \in Tids
  BY PacketTypes DEF ServerAck, Shape, TypeOK, Linked
<1>2. m.n \in Nat
  BY <1>1, PacketTypes, SizeAssumption
<1>3. k \in Nat
  BY <1>1, SizeAssumption DEF Shape, TypeOK
<1>4. m.n <= k /\ m.n % SeqSize = k % SeqSize /\ m.n + Window >= k
  BY <1>1 DEF PacketOK, ServerAck, Alive
<1> DEFINE i == m.n \div SeqSize
           j == k \div SeqSize
<1>5. /\ m.n = SeqSize * i + (m.n % SeqSize) /\ i \in Nat
      /\ k = SeqSize * j + (k % SeqSize) /\ j \in Nat
      /\ m.n % SeqSize \in Nat
  <2> HIDE DEF k
  <2> QED
    BY <1>2, <1>3, DivMod, SeqAssumption
<1> HIDE DEF i, j, k
<1>6. SeqSize * (j - i) = k - m.n /\ SeqSize \in Nat /\ Window \in Nat
  BY <1>4, <1>5, SeqAssumption
<1>7. ASSUME j - i >= 1 PROVE FALSE
  <2>1. 1 * SeqSize <= (j - i) * SeqSize
    BY <1>5, <1>6, <1>7, MulMono
  <2> QED
    BY <1>2, <1>3, <1>4, <1>5, <1>6, <2>1
<1>8. ASSUME j - i <= -1 PROVE FALSE
  <2>1. (j - i) * SeqSize <= (-1) * SeqSize
    BY <1>5, <1>6, <1>8, MulMono
  <2> QED
    BY <1>2, <1>3, <1>4, <1>5, <1>6, <2>1, SeqAssumption
<1>9. j - i = 0
  BY <1>5, <1>7, <1>8
<1>10. k = m.n
  BY <1>2, <1>3, <1>6, <1>9
<1> QED
  BY <1>10 DEF k

\* The server moves on past a block that may be acknowledged.
LEMMA ServerAckLoaded ==
  ASSUME Window < SeqSize, Shape, Linked, Loaded, NEW m \in net, ServerAck(m)
  PROVE  Loaded'
<1>1. UNCHANGED <<client, options>> /\ net' \subseteq net
  BY DEF ServerAck
<1>2. Acks' \subseteq Acks
  BY <1>1 DEF Acks, client
<1>3. /\ srv' = [srv EXCEPT ![m.tid].block = @ + 1]
      /\ m.type = "ACK" /\ m.tid \in Tids /\ srv[m.tid].port = m.port
      /\ srv[m.tid].block < LastBlockOf(srv[m.tid].blksize)
  BY PacketTypes DEF ServerAck, Shape, TypeOK
<1>4. CASE m.port # TftpOurPort
  <2>1. ASSUME Running, TftpState # "rrq" PROVE Peer' = Peer
    <3>1. TftpServerPort \in Tids /\ TftpServerPort # m.tid
      BY <1>3, <1>4, <2>1 DEF Shape, Linked, Connected, Peer
    <3> QED
      BY <1>1, <1>3, <3>1 DEF Peer, client, Shape, TypeOK
  <2> QED
    BY <1>1, <1>2, <2>1, ClientRests
<1>5. CASE m.port = TftpOurPort
  <2>1. m \in Acks
    BY <1>3, <1>5 DEF Acks
  <2>2. ASSUME Running, TftpState # "rrq", Placed PROVE Placed'
    <3>1. m.tid = TftpServerPort /\ TftpBlkSize = srv[m.tid].blksize
      BY <2>1, <2>2 DEF Linked, Connected, Peer
    <3>2. Answered(m.n) /\ m.n = srv[m.tid].block
      BY <2>1, <2>2, AckIsCurrent DEF Placed, PlacedAt
    <3>3. srv[m.tid].block \in Nat
      BY <1>3, SizeAssumption DEF Shape, TypeOK
    <3>4. srv'[m.tid].block - 1 = m.n
      BY <1>3, <3>2, <3>3 DEF Shape, TypeOK
    <3>5. TftpServerPort' = m.tid /\ UNCHANGED client
      BY <1>1, <3>1 DEF client
    <3>6. NetState # "success"
      <4>1. ASSUME NetState = "success" PROVE FALSE
        <5>1. srv[m.tid].block = LastBlockOf(srv[m.tid].blksize)
          BY <2>2, <3>1, <4>1 DEF Placed, PlacedAt
        <5> HIDE DEF LastBlockOf
        <5> QED
          BY <1>3, <3>3, <5>1
      <4> QED
        BY <4>1
    <3>7. \A k : Answered(k)' <=> Answered(k)
      BY <3>5 DEF Answered, Held, client
    <3>8. Answered(srv[m.tid].block - 1)'
      BY <3>2, <3>4, <3>7
    <3> QED
      BY <1>2, <2>2, <3>1, <3>5, <3>6, <3>7, <3>8 DEF Placed, PlacedAt, Held, WholeFile, client
  <2> QED
    BY <1>1, <2>2 DEF Loaded, Running, WholeFile, client
<1> QED
  BY <1>4, <1>5

\* An OACK that comes again finds the server in the first turn.
LEMMA HandleOackLoaded ==
  ASSUME Window < SeqSize, Shape, Linked, Loaded, NEW m \in net, HandleOack(m)
  PROVE  Loaded'
<1>1. /\ m \in Packets /\ m.tid \in Tids /\ m.port = TftpOurPort /\ TftpOurPort \in 1 .. MaxStarts
      /\ m.blksize = BlkSizeOption /\ PacketOK(m) /\ Running /\ m.type = "OACK"
      /\ TftpState = "rrq" \/ m.tid = TftpServerPort
  BY AcceptedTypes, PacketTypes DEF HandleOack, Accepts, Linked, Running
<1>2. srv[m.tid].port = TftpOurPort /\ options
  BY <1>1 DEF PacketOK
<1>3. srv[m.tid].blksize = BlkSizeOption /\ srv[m.tid].block \in Nat
  BY <1>1, <1>2, PeerIs, SizeAssumption
<1>4. /\ TftpState' = "oack" /\ TftpServerPort' = m.tid /\ TftpBlkSize' = BlkSizeOption
      /\ UNCHANGED <<NetState, TftpOurPort, TftpBlock, TftpLastBlock, TftpBlockWrapOffset,
                     NetBootFileXferSize, mem, got, seen, crossed, srv>>
  BY <1>1 DEF HandleOack
<1>5. \A a \in Acks' : a \in Acks \/ a.n = seen
  <2>1. Deliver(m, TftpSend("oack", TftpBlock, TftpOurPort, m.tid, seen))
    BY DEF HandleOack
  <2>2. net' \subseteq net \cup TftpSend("data", TftpBlock, TftpOurPort, m.tid, seen)
    BY <2>1, DeliverAdds DEF TftpSend
  <2> QED
    BY <1>4, <2>2, AcksAfter
<1>6. CASE TftpState = "rrq"
  <2>1. /\ srv[m.tid].block = 0 /\ got = 0 /\ seen = 0 /\ NetBootFileXferSize = 0 /\ Acks = {}
        /\ NetState = "continue"
    BY <1>1, <1>2, <1>6 DEF Linked, Waiting
  <2>2. \A k \in {0, -1} : \A a \in 0 .. Size - 1 : ~(a + 1 <= k * BlkSizeOption)
    BY SizeAssumption
  <2>3. Answered(0)' /\ Answered(-1)' /\ Held(0)'
    BY <1>4, <2>2, SeqAssumption DEF Answered, Held
  <2>4. Placed'
    BY <1>4, <1>5, <2>1, <2>3, SizeAssumption, SeqAssumption DEF Placed, PlacedAt
  <2> QED
    BY <1>4, <2>1, <2>4 DEF Loaded
<1>7. CASE TftpState # "rrq"
  <2>1. m.tid = TftpServerPort /\ TftpBlkSize = BlkSizeOption /\ got <= srv[m.tid].block
    BY <1>1, <1>3, <1>7 DEF Linked, Connected, Peer
  <2>2. srv[m.tid].block < SeqSize
    BY <1>3, SeqAssumption DEF HandleOack, Alive
  <2>3. got \in Nat
    BY SizeAssumption DEF Shape, TypeOK
  <2>4. got < SeqSize
    BY <1>3, <2>1, <2>2, <2>3, SeqAssumption
  <2>5. ASSUME Placed PROVE Placed'
    <3>1. \A k : Answered(k)' <=> Answered(k)
      BY <1>4, <2>1 DEF Answered, Held
    <3>2. \A a \in Acks' : Answered(a.n)'
      BY <1>5, <2>5, <3>1 DEF Placed, PlacedAt
    <3>3. Answered(srv[m.tid].block - 1)'
      BY <1>4, <2>1, <2>5, <3>1 DEF Placed, PlacedAt
    <3> QED
      BY <1>4, <2>1, <2>2, <2>4, <2>5, <3>1, <3>2, <3>3 DEF Placed, PlacedAt, Held, WholeFile
  <2> QED
    BY <1>1, <1>4, <1>7, <2>5 DEF Loaded, Running
<1> QED
  BY <1>6, <1>7

(* A block that is not ambiguous belongs where store_block puts it, and the    *)
(* one stored last stays recognisable.                                         *)
Placing(m) ==
  LET block == m.n % SeqSize IN
  /\ m.n <= LastBlockOf(TftpBlkSize)
  /\ WrapOffset(block) = ((m.n \div SeqSize) * (TftpBlkSize * SeqSize)) % MemSize
  /\ IF FirstBlock \/ m.n > got THEN TRUE
     ELSE m.n \div SeqSize = got \div SeqSize /\ block # 0

\* Then the block is stored at its place in the file.
LEMMA OffsetIs ==
  ASSUME Shape, Linked, NEW m \in net, HandleData(m), Placing(m)
  PROVE  Offset(m.n % SeqSize) = (m.n - 1) * TftpBlkSize
<1> DEFINE b == TftpBlkSize
           n == m.n
           q == n \div SeqSize
           r == n % SeqSize
           x == q * (b * SeqSize)
<1>1. /\ b \in Nat /\ b > 0 /\ n \in Nat /\ n >= 1 /\ MemSize \in Nat /\ MemSize > Size
      /\ Size \in Nat /\ SeqSize \in Nat /\ SeqSize > 0
  BY DataIs, SizeAssumption, SeqAssumption, BoundAssumption DEF Shape, TypeOK, TFTP_BLOCK_SIZE
<1>2. n = SeqSize * q + r /\ q \in Nat /\ r \in Nat
  <2> HIDE DEF n
  <2> QED
    BY <1>1, DivMod
<1>3. (n - 1) * b = x + (r * b - b) /\ x \in Nat /\ r * b \in Nat
  <2> HIDE DEF b, n, q, r
  <2> QED
    BY <1>1, <1>2, StartIs
<1>4. (n - 1) * b \in 0 .. MemSize - 1
  <2>1. (n - 1) * b \in Nat /\ (n - 1) * b <= Size
    BY <1>1, BlockStart DEF Placing
  <2> QED
    BY <1>1, <2>1
<1>5. Offset(r) = (MemSize + (x % MemSize) + (r * b - b)) % MemSize
  <2>1. WrapOffset(r) = x % MemSize
    BY DEF Placing
  <2>2. x % MemSize \in Nat
    BY <1>1, <1>3, DivMod
  <2>3. MemSize + WrapOffset(r) + r * b - b = MemSize + (x % MemSize) + (r * b - b)
    BY <1>1, <1>3, <2>1, <2>2
  <2> QED
    BY <2>3 DEF Offset
<1> DEFINE y == r * b - b
<1>6. y \in Int /\ x + y \in 0 .. MemSize - 1 /\ x \in Nat
  BY <1>1, <1>3, <1>4
<1>7. (MemSize + (x % MemSize) + y) % MemSize = x + y
  <2>1. MemSize \in Nat /\ MemSize > 0
    BY <1>1
  <2> HIDE DEF x, y
  <2> QED
    BY <1>6, <2>1, Unwrapped
<1> QED
  BY <1>3, <1>5, <1>7

\* The state in which a block is received, whoever sent it.
LEMMA ReceivedIn ==
  ASSUME Shape, Linked, Loaded, NEW m \in net, HandleData(m), ~crossed
  PROVE  PlacedAt(m.tid)
<1>1. Running
  BY DEF HandleData, Accepts, Running
<1>2. /\ m.tid \in Tids /\ srv[m.tid].port = TftpOurPort
      /\ (TftpState # "rrq" => m.tid = TftpServerPort)
  BY DataIs
<1> QED
  BY <1>1, <1>2, FirstPlaced DEF Loaded, Placed

\* Before the first block, and after an OACK, the server is in the first turn.
LEMMA FirstTurn ==
  ASSUME Shape, Linked, Loaded, NEW m \in net, HandleData(m), ~crossed, FirstBlock
  PROVE  /\ m.n <= SeqSize /\ got < SeqSize
         /\ m.n < SeqSize => m.n % SeqSize = m.n /\ m.n \div SeqSize = 0
         /\ m.n % SeqSize = 1 => m.n = 1
<1>1. /\ m.n \in Nat /\ m.n >= 1 /\ m.n <= srv[m.tid].block /\ srv[m.tid].block \in Nat
      /\ SeqSize \in Nat /\ SeqSize > 1 /\ got \in Nat
  BY DataIs, SizeAssumption, SeqAssumption DEF Shape, TypeOK
<1>2. got < SeqSize /\ Answered(srv[m.tid].block - 1)
  BY ReceivedIn DEF PlacedAt, FirstBlock
<1>3. m.n <= SeqSize
  BY <1>1, <1>2 DEF Answered
<1>4. ASSUME m.n < SeqSize PROVE m.n % SeqSize = m.n /\ m.n \div SeqSize = 0
  BY <1>1, <1>4, Unturned
<1>5. ASSUME m.n = SeqSize PROVE m.n % SeqSize = 0
  <2>1. m.n = SeqSize * 1 + 0
    BY <1>1, <1>5
  <2> QED
    BY <1>1, <2>1, ModIs
<1> QED
  BY <1>1, <1>2, <1>3, <1>4, <1>5

(* After the first block: a new one is not taken for the one stored last, and  *)
(* the wrap offset goes with the turn that the block is in.                    *)
LEMMA LaterBlock ==
  ASSUME Shape, Linked, Loaded, NEW m \in net, HandleData(m), ~crossed, ~FirstBlock,
         ~(m.n <= got /\ Ambiguous(m.n))
  PROVE  /\ m.n > got => ~SameBlock(m.n % SeqSize)
         /\ Placing(m)
<1> DEFINE n == m.n
           S == SeqSize
           q == got \div S
           w == TftpBlkSize * S
<1>1. /\ n \in Nat /\ n >= 1 /\ n <= srv[m.tid].block /\ srv[m.tid].block \in Nat
      /\ S \in Nat /\ S > 1 /\ got \in Nat /\ TftpLastBlock \in Nat
      /\ n <= LastBlockOf(TftpBlkSize) /\ MemSize \in Nat /\ MemSize > 0 /\ TftpBlkSize \in Nat
  <2>1. /\ n \in Nat /\ n >= 1 /\ n <= srv[m.tid].block /\ srv[m.tid].block \in Nat
        /\ srv[m.tid].port >= 1 /\ m.tid \in Tids /\ TftpBlkSize = srv[m.tid].blksize
    BY DataIs, SizeAssumption DEF Shape, TypeOK
  <2>2. srv[m.tid].block <= LastBlockOf(srv[m.tid].blksize)
    BY <2>1, PeerIs
  <2>3. TftpBlkSize \in Nat /\ TftpBlkSize > 0
    BY SizeAssumption DEF Shape, TypeOK, TFTP_BLOCK_SIZE
  <2>4. LastBlockOf(TftpBlkSize) \in Nat
    BY <2>3, LastBlockBound, SizeAssumption
  <2>5. n <= LastBlockOf(TftpBlkSize)
    <3> HIDE DEF n, LastBlockOf
    <3> QED
      BY <2>1, <2>2, <2>4
  <2> QED
    BY <2>1, <2>3, <2>5, SizeAssumption, SeqAssumption, BoundAssumption DEF Shape, TypeOK
<1>2. /\ got >= 1 /\ TftpLastBlock <= got % S
      /\ TftpBlockWrapOffset = (q * w) % MemSize
      /\ TftpLastBlock = 0 => got % S = 0 \/ srv[m.tid].block < S
      /\ srv[m.tid].block - 1 <= got \/ srv[m.tid].block - 1 < S
  BY ReceivedIn DEF PlacedAt, Answered, FirstBlock, Shape, TypeOK
<1>3. q \in Nat /\ w \in Nat /\ q * w \in Nat /\ (q + 1) * w = q * w + w
  <2>1. q \in Nat
    BY <1>1, DivMod
  <2>2. w \in Nat
    BY <1>1
  <2> HIDE DEF q, w
  <2> QED
    BY <2>1, <2>2
<1>4. WrapOffset(0) = ((q + 1) * w) % MemSize
  <2>1. WrapOffset(0) = (((q * w) % MemSize) + w) % MemSize
    BY <1>2 DEF WrapOffset
  <2> DEFINE x == q * w
  <2>2. ((x % MemSize) + w) % MemSize = (x + w) % MemSize
    <3> HIDE DEF x, w
    <3> QED
      BY <1>1, <1>3, WrappedAgain DEF x
  <2> QED
    BY <1>3, <2>1, <2>2
<1>5. \A r : r # 0 => WrapOffset(r) = (q * w) % MemSize
  BY <1>2 DEF WrapOffset
<1>6. CASE n > got
  <2>1. n <= got + 1 \/ n <= S
    BY <1>1, <1>2
  <2>2. TftpLastBlock = 0 => got % S = 0 \/ n < S
    BY <1>1, <1>2
  <2>3. /\ n % S # TftpLastBlock
        /\ n \div S = (IF n % S = 0 THEN q + 1 ELSE q)
    <3> HIDE DEF n, S
    <3> QED
      BY <1>1, <1>2, <1>6, <2>1, <2>2, NewBlock DEF q
  <2>4. WrapOffset(n % S) = ((n \div S) * w) % MemSize
    <3> HIDE DEF q, w
    <3> QED
      BY <1>4, <1>5, <2>3
  <2> QED
    BY <1>1, <1>6, <2>3, <2>4 DEF SameBlock, Placing
<1>7. CASE n <= got
  <2>1. n % S # 0 /\ n \div S = q
    BY <1>7 DEF Ambiguous
  <2>2. WrapOffset(n % S) = ((n \div S) * w) % MemSize
    <3> HIDE DEF q, w
    <3> QED
      BY <1>5, <2>1
  <2> QED
    BY <1>1, <1>7, <2>1, <2>2 DEF Placing
<1> QED
  BY <1>1, <1>6, <1>7

\* The acknowledgements after a data packet.
LEMMA DataAcks ==
  ASSUME NEW m \in net, HandleData(m)
  PROVE  /\ \A a \in Acks' : a \in Acks \/ a.n = m.n
         /\ ~StoreAndAck(m) => Acks' \subseteq Acks
<1>1. UNCHANGED TftpOurPort
  BY DEF HandleData
<1>2. \/ Deliver(m, {}) /\ (NotBlockOne(m) \/ IgnoreSame(m))
      \/ Deliver(m, TftpSend("data", m.n % SeqSize, TftpOurPort, m.tid, m.n)) /\ StoreAndAck(m)
  BY DEF HandleData, NotBlockOne, IgnoreSame, StoreAndAck
<1>3. CASE Deliver(m, {})
  <2>1. net' \subseteq net
    BY <1>3, DeliverAdds
  <2> QED
    BY <1>1, <2>1 DEF Acks
<1>4. CASE Deliver(m, TftpSend("data", m.n % SeqSize, TftpOurPort, m.tid, m.n)) /\ StoreAndAck(m)
  <2>1. net' \subseteq net \cup TftpSend("data", m.n % SeqSize, TftpOurPort, m.tid, m.n)
    BY <1>4, DeliverAdds
  <2> QED
    BY <1>1, <1>4, <2>1, AcksAfter
<1> QED
  BY <1>2, <1>3, <1>4

(* "First block should be block 1": the attempt is over, unless it had ended   *)
(* with success, of a file within the first turn.                              *)
LEMMA NotBlockOnePlaced ==
  ASSUME Shape, Linked, Loaded, NEW m \in net, HandleData(m), ~crossed, NotBlockOne(m), Running'
  PROVE  Placed'
<1>1. NetState = "success" /\ NetState' = NetState /\ Running
  BY DEF NotBlockOne, NetStartAgain, Running, HandleData, Accepts
<1>2. PlacedAt(m.tid) /\ FirstBlock
  BY ReceivedIn DEF NotBlockOne
<1>3. /\ TftpState' = "data" /\ TftpServerPort' = m.tid /\ seen' = m.n
      /\ TftpBlockWrapOffset' = WrapOffset(m.n % SeqSize) /\ TftpLastBlock' = 0
      /\ UNCHANGED <<TftpOurPort, TftpBlkSize, NetBootFileXferSize, mem, got, srv>>
  BY DEF HandleData, NotBlockOne
<1>4. /\ got \in Nat /\ got < SeqSize /\ got >= 1 /\ srv[m.tid].block < SeqSize
      /\ m.n \in Nat /\ m.n <= srv[m.tid].block /\ srv[m.tid].block \in Nat
  <2>1. m.n \in Nat /\ m.n <= srv[m.tid].block /\ srv[m.tid].block \in Nat /\ got \in Nat
    BY DataIs, SizeAssumption DEF Shape, TypeOK
  <2> QED
    BY <1>1, <1>2, <2>1 DEF PlacedAt, FirstBlock
<1>5. got % SeqSize = got /\ got \div SeqSize = 0
  BY <1>4, Unturned, SeqAssumption
<1>6. TftpBlockWrapOffset' = (0 * (TftpBlkSize * SeqSize)) % MemSize
  <2>1. 0 % MemSize = 0 /\ 0 * (TftpBlkSize * SeqSize) = 0
    BY ModIs, BoundAssumption, SizeAssumption, SeqAssumption DEF Shape, TypeOK, TFTP_BLOCK_SIZE
  <2> QED
    BY <1>2, <1>3, <2>1 DEF WrapOffset
<1>7. \A k : Answered(k)' <=> Answered(k)
  BY <1>3 DEF Answered, Held
<1>8. Answered(m.n)'
  <2>1. Held(m.n)
    BY <1>1, <1>2 DEF PlacedAt, WholeFile, Held
  <2> QED
    BY <1>4, <1>7, <2>1, SeqAssumption DEF Answered
<1>9. Acks' \subseteq Acks
  BY DataAcks DEF NotBlockOne, StoreAndAck, SameBlock
<1>10. \A a \in Acks' : Answered(a.n)'
  BY <1>2, <1>7, <1>9 DEF PlacedAt
<1>11. Answered(srv[m.tid].block - 1)' /\ Held(got)' /\ NetBootFileXferSize' <= Size
  BY <1>2, <1>3, <1>7 DEF PlacedAt, Held
<1>12. WholeFile' /\ srv'[m.tid].block = LastBlockOf(TftpBlkSize') /\ got' >= 1
  BY <1>1, <1>2, <1>3 DEF PlacedAt, WholeFile
<1>13. /\ TftpBlockWrapOffset' = ((got' \div SeqSize) * (TftpBlkSize' * SeqSize)) % MemSize
       /\ TftpLastBlock' <= got' % SeqSize
       /\ TftpLastBlock' = 0 => NetState' = "success" /\ srv'[m.tid].block < SeqSize
  BY <1>1, <1>3, <1>4, <1>5, <1>6
<1> QED
  BY <1>3, <1>8, <1>10, <1>11, <1>12, <1>13 DEF Placed, PlacedAt

\* "Same block again; ignore it": it is one that is in memory.
LEMMA IgnoreSamePlaced ==
  ASSUME Shape, Linked, Loaded, NEW m \in net, HandleData(m), ~crossed', IgnoreSame(m)
  PROVE  Placed'
<1>1. ~crossed /\ ~FirstBlock /\ SameBlock(m.n % SeqSize) /\ ~(m.n <= got /\ Ambiguous(m.n))
  BY DEF HandleData, IgnoreSame
<1>2. PlacedAt(m.tid) /\ TftpState = "data"
  BY <1>1, ReceivedIn DEF FirstBlock, Shape, TypeOK
<1>3. /\ TftpState' = "data" /\ TftpServerPort' = m.tid /\ seen' = m.n
      /\ TftpBlockWrapOffset' = WrapOffset(m.n % SeqSize)
      /\ UNCHANGED <<NetState, TftpOurPort, TftpLastBlock, TftpBlkSize, NetBootFileXferSize,
                     mem, got, srv>>
  BY DEF HandleData, IgnoreSame
<1>4. m.n \in Nat /\ got \in Nat /\ m.n <= got
  <2>1. m.n \in Nat /\ got \in Nat
    BY DataIs, SizeAssumption DEF Shape, TypeOK
  <2> QED
    BY <1>1, <2>1, LaterBlock
<1>5. TftpBlockWrapOffset' = TftpBlockWrapOffset
  BY <1>1, <1>3, <1>4 DEF WrapOffset, Ambiguous
<1>6. \A k : Answered(k)' <=> Answered(k)
  BY <1>3 DEF Answered, Held
<1>7. Answered(m.n)'
  <2>1. TftpBlkSize \in Nat
    BY SizeAssumption DEF Shape, TypeOK, TFTP_BLOCK_SIZE
  <2>2. m.n * TftpBlkSize <= got * TftpBlkSize
    BY <1>4, <2>1, MulMono
  <2>3. Held(m.n)
    <3> SUFFICES ASSUME NEW a \in 0 .. Size - 1, a + 1 <= m.n * TftpBlkSize
                 PROVE  mem[a] = a + 1
      BY DEF Held
    <3>1. a + 1 <= got * TftpBlkSize
      <4>1. a \in Nat /\ m.n * TftpBlkSize \in Nat /\ got * TftpBlkSize \in Nat
        BY <1>4, <2>1, SizeAssumption
      <4> QED
        BY <2>2, <4>1
    <3> QED
      BY <1>2, <3>1 DEF PlacedAt, Held
  <2> QED
    BY <1>4, <1>6, <2>3 DEF Answered
<1>8. Acks' \subseteq Acks
  BY <1>1, DataAcks DEF StoreAndAck
<1>9. \A a \in Acks' : Answered(a.n)'
  BY <1>2, <1>6, <1>8 DEF PlacedAt
<1>10. Answered(srv[m.tid].block - 1)'
  BY <1>2, <1>3, <1>6 DEF PlacedAt
<1> QED
  BY <1>2, <1>3, <1>5, <1>7, <1>9, <1>10 DEF Placed, PlacedAt, Held, WholeFile

\* The first block, and a later one, is stored at its place.
LEMMA StoredIn ==
  ASSUME Shape, Linked, Loaded, NEW m \in net, HandleData(m), ~crossed', StoreAndAck(m)
  PROVE  Placing(m) /\ (FirstBlock => m.n = 1)
<1>1. ~crossed /\ (~FirstBlock => ~(m.n <= got /\ Ambiguous(m.n)))
  BY DEF HandleData
<1>2. CASE ~FirstBlock
  BY <1>1, <1>2, LaterBlock
<1>3. CASE FirstBlock
  <2>1. m.n = 1
    BY <1>1, <1>3, FirstTurn DEF StoreAndAck
  <2>2. 1 \div SeqSize = 0
    BY Unturned, SeqAssumption
  <2>3. TftpBlkSize \in Nat /\ TftpBlkSize > 0
    BY SizeAssumption DEF Shape, TypeOK, TFTP_BLOCK_SIZE
  <2>4. 0 % MemSize = 0 /\ 0 * (TftpBlkSize * SeqSize) = 0
    BY <2>3, ModIs, BoundAssumption, SizeAssumption, SeqAssumption
  <2>5. 1 <= LastBlockOf(TftpBlkSize)
    BY <2>3, LastBlockBound, SizeAssumption
  <2> QED
    BY <1>3, <2>1, <2>2, <2>4, <2>5 DEF Placing, WrapOffset
<1> QED
  BY <1>2, <1>3

\* store_block, and the acknowledgement of what it stored.
LEMMA StoreAndAckPlaced ==
  ASSUME Shape, Linked, Loaded, NEW m \in net, HandleData(m), ~crossed', StoreAndAck(m)
  PROVE  Placed'
<1> DEFINE n == m.n
           b == TftpBlkSize
           s == (n - 1) * b
           len == LenOf(n, b)
           top == srv[m.tid].block
<1>1. /\ n \in Nat /\ n >= 1 /\ n <= top /\ top \in Nat /\ got \in Nat
      /\ m.blksize = b /\ b \in Nat /\ b > 0 /\ SeqSize \in Nat /\ SeqSize > 1
      /\ NetBootFileXferSize \in Nat /\ Size \in Nat
      /\ top <= LastBlockOf(b) /\ LastBlockOf(b) \in Nat
  <2>1. /\ n \in Nat /\ n >= 1 /\ n <= top /\ top \in Nat /\ m.blksize = b
        /\ m.tid \in Tids /\ srv[m.tid].port >= 1 /\ b = srv[m.tid].blksize
    BY DataIs, SizeAssumption
  <2>2. top <= LastBlockOf(b)
    BY <2>1, PeerIs
  <2>3. b \in Nat /\ b > 0 /\ got \in Nat /\ Size \in Nat
    BY SizeAssumption DEF Shape, TypeOK, TFTP_BLOCK_SIZE
  <2>4. NetBootFileXferSize \in Nat
    BY SizeAssumption, BoundAssumption DEF Shape, TypeOK
  <2>5. LastBlockOf(b) \in Nat
    BY <2>3, LastBlockBound
  <2> QED
    BY <2>1, <2>2, <2>3, <2>4, <2>5, SeqAssumption
<1>2. Placing(m) /\ (FirstBlock => n = 1) /\ PlacedAt(m.tid)
  BY StoredIn, ReceivedIn DEF HandleData
<1>3. Offset(n % SeqSize) = s
  BY <1>2, OffsetIs
<1>4. /\ s \in Nat /\ len \in Nat /\ s + len <= Size /\ (len = b \/ s + len = Size)
      /\ len < b => n = LastBlockOf(b)
      /\ n * b = s + b /\ len <= b
  <2>1. n <= LastBlockOf(b)
    BY <1>2 DEF Placing
  <2> QED
    BY <1>1, <2>1, BlockLength
<1>5. /\ TftpState' = "data" /\ TftpServerPort' = m.tid /\ seen' = n
      /\ TftpBlockWrapOffset' = WrapOffset(n % SeqSize) /\ TftpLastBlock' = n % SeqSize
      /\ got' = (IF FirstBlock \/ n > got THEN n ELSE got)
      /\ mem' = Stored(s, n, b)
      /\ NetBootFileXferSize' = (IF NetBootFileXferSize < s + len THEN s + len
                                 ELSE NetBootFileXferSize)
      /\ NetState' = (IF len < b THEN "success" ELSE NetState)
      /\ UNCHANGED <<TftpOurPort, TftpBlkSize, srv>>
  BY <1>1, <1>3 DEF HandleData, StoreAndAck, WholeThing
<1>6. /\ \A a \in 0 .. Size - 1 : mem[a] = a + 1 => mem'[a] = a + 1
      /\ \A k \in Int : Held(k) => Held(k)'
      /\ Held(n - 1) => Held(n)'
  BY <1>1, <1>2, <1>5, StoredAtPlace DEF Placing, Shape
<1>7. Held(top - 1) /\ Held(got) /\ (top - 1 <= got \/ top - 1 < SeqSize)
      /\ \A a \in Acks : Answered(a.n)
  BY <1>2 DEF PlacedAt, Answered
<1>8. Held(n)'
  <2>1. (n - 1) * b <= (top - 1) * b
    BY <1>1, MulMono
  <2>2. (n - 1) * b \in Nat /\ (top - 1) * b \in Nat
    <3>1. n - 1 \in Nat /\ top - 1 \in Nat
      BY <1>1
    <3> HIDE DEF n, top, b
    <3> QED
      BY <1>1, <3>1
  <2>3. ASSUME NEW a \in 0 .. Size - 1, a + 1 <= (n - 1) * b PROVE mem[a] = a + 1
    <3>1. a + 1 <= (top - 1) * b
      <4> HIDE DEF n, top, b
      <4> QED
        BY <1>1, <2>1, <2>2, <2>3
    <3> QED
      BY <1>7, <3>1 DEF Held
  <2>4. Held(n - 1)
    BY <2>3 DEF Held
  <2> QED
    BY <1>6, <2>4
<1>9. got' \in Nat /\ got' >= 1 /\ Held(got)' /\ n <= got' /\ (~FirstBlock => got <= got')
  <2>1. CASE got' = n
    BY <1>1, <1>5, <1>8, <2>1 DEF Held
  <2>2. CASE got' # n
    BY <1>1, <1>5, <1>6, <1>7, <2>2 DEF Held
  <2> QED
    BY <2>1, <2>2
<1>10. ASSUME NEW k \in Int, Held(k), k <= got \/ k < SeqSize
       PROVE  Answered(k)'
  <2>1. Held(k)'
    BY <1>6, <1>10
  <2>2. CASE FirstBlock
    <3>1. got < SeqSize
      BY <1>2, <2>2 DEF PlacedAt, FirstBlock
    <3>2. k < SeqSize
      BY <1>1, <1>10, <3>1
    <3> QED
      BY <2>1, <3>2 DEF Answered
  <2>3. CASE ~FirstBlock
    BY <1>1, <1>9, <1>10, <2>1, <2>3 DEF Answered
  <2> QED
    BY <2>2, <2>3
<1>11. Answered(n)' /\ Answered(top - 1)'
  <2>1. Answered(n)'
    BY <1>8, <1>9 DEF Answered
  <2>2. top - 1 \in Int
    BY <1>1
  <2>3. Answered(top - 1)'
    BY <1>5, <1>7, <1>10, <2>2
  <2> QED
    BY <2>1, <2>3
<1>12. \A a \in Acks' : Answered(a.n)'
  <2>1. \A a \in Acks : a.n \in Int
    <3>1. \A a \in Acks : a \in Packets /\ a.type = "ACK"
      BY DEF Acks, Shape, TypeOK
    <3> QED
      BY <3>1, PacketTypes, SizeAssumption
  <2> QED
    BY <1>7, <1>10, <1>11, <2>1, DataAcks DEF Answered
<1>13. NetBootFileXferSize' <= Size
  BY <1>1, <1>2, <1>4, <1>5 DEF PlacedAt
<1>14. NetState' = "success" => WholeFile' /\ top = LastBlockOf(b)
  <2>1. CASE len < b
    <3>1. s + len = Size /\ n = LastBlockOf(b)
      BY <1>1, <1>4, <2>1
    <3>2. NetBootFileXferSize' = Size
      <4>1. NetBootFileXferSize <= Size
        BY <1>2 DEF PlacedAt
      <4> HIDE DEF s, len
      <4> QED
        BY <1>1, <1>5, <3>1, <4>1
    <3>3. \A a \in 0 .. Size - 1 : a + 1 <= n * b
      <4> HIDE DEF s, len, n, b
      <4> QED
        BY <1>1, <1>4, <2>1, <3>1
    <3>4. \A a \in 0 .. Size - 1 : mem'[a] = a + 1
      BY <1>5, <1>8, <3>3 DEF Held
    <3>5. top = LastBlockOf(b)
      <4> HIDE DEF n, top, b, LastBlockOf
      <4> QED
        BY <1>1, <3>1
    <3> QED
      BY <3>2, <3>4, <3>5 DEF WholeFile
  <2>2. CASE ~(len < b) /\ NetState = "success"
    <3>1. WholeFile /\ top = LastBlockOf(b)
      BY <1>2, <2>2 DEF PlacedAt
    <3>2. NetBootFileXferSize' = Size
      <4> HIDE DEF s, len
      <4> QED
        BY <1>1, <1>4, <1>5, <3>1 DEF WholeFile
    <3>3. \A a \in 0 .. Size - 1 : mem'[a] = a + 1
      BY <1>6, <3>1 DEF WholeFile
    <3> QED
      BY <3>1, <3>2, <3>3 DEF WholeFile
  <2>3. CASE ~(len < b) /\ NetState # "success"
    BY <1>5, <2>3
  <2> QED
    BY <2>1, <2>2, <2>3
<1>15. got' \div SeqSize = n \div SeqSize /\ n % SeqSize <= got' % SeqSize
       /\ (n % SeqSize = 0 => got' % SeqSize = 0)
  <2>1. CASE got' = n
    <3>1. n % SeqSize \in Nat
      <4> HIDE DEF n
      <4> QED
        BY <1>1, DivMod
    <3> QED
      BY <2>1, <3>1
  <2>2. CASE got' # n
    <3>1. got' = got /\ ~(FirstBlock \/ n > got)
      BY <1>5, <2>2
    <3>2. n \div SeqSize = got \div SeqSize /\ n % SeqSize # 0
      BY <1>2, <3>1 DEF Placing
    <3>3. n <= got
      BY <1>1, <3>1
    <3> DEFINE q == got \div SeqSize
               r == got % SeqSize
               j == n \div SeqSize
               i == n % SeqSize
    <3>4. got = SeqSize * q + r /\ q \in Nat /\ r \in Nat /\ n = SeqSize * j + i /\ i \in Nat
      <4> HIDE DEF n
      <4> QED
        BY <1>1, DivMod
    <3>5. SeqSize * q \in Nat /\ j = q
      <4> HIDE DEF q, j
      <4> QED
        BY <1>1, <3>2, <3>4 DEF q, j
    <3>6. i <= r
      <4> HIDE DEF q, j, n, i, r
      <4> QED
        BY <1>1, <3>3, <3>4, <3>5
    <3> QED
      BY <3>1, <3>2, <3>6
  <2> QED
    BY <2>1, <2>2
<1>16. TftpBlockWrapOffset' = ((got' \div SeqSize) * (TftpBlkSize' * SeqSize)) % MemSize
  BY <1>2, <1>5, <1>15 DEF Placing
<1>17. PlacedAt(m.tid)'
  BY <1>5, <1>9, <1>11, <1>12, <1>13, <1>14, <1>15, <1>16 DEF PlacedAt
<1> QED
  BY <1>5, <1>11, <1>17 DEF Placed

\* TftpHandler, TFTP_DATA.
LEMMA HandleDataLoaded ==
  ASSUME Shape, Linked, Loaded, NEW m \in net, HandleData(m)
  PROVE  Loaded'
<1>1. NetState' # "done"
  BY DEF HandleData, Accepts, NotBlockOne, IgnoreSame, StoreAndAck, NetStartAgain
<1>2. crossed => crossed'
  BY DEF HandleData
<1>3. Running' => crossed' \/ Placed'
  BY <1>2, NotBlockOnePlaced, IgnoreSamePlaced, StoreAndAckPlaced DEF HandleData
<1> QED
  BY <1>1, <1>3 DEF Loaded

\* Every step keeps what has been loaded, if packets are not too old.
LEMMA StepLoaded ==
  Window < SeqSize /\ Shape /\ Linked /\ Loaded /\ [Next]_vars => Loaded'
  BY TftpStartLoaded, TftpTimeoutLoaded, NetLoopReturnsLoaded, HandleOackLoaded, HandleDataLoaded,
     HandleErrorLoaded, ServerAcceptLoaded, ServerAckLoaded, ServerSendLoaded, ServerErrorLoaded,
     StutterLoaded DEF Next

-----------------------------------------------------------------------------
(* The theorems. *)

(* The variables of net/tftp.c keep to their ranges, and so do the addresses   *)
(* that store_block writes to, whatever comes in: ambiguous blocks, reused     *)
(* ports and packets of any age.                                               *)
THEOREM TypeCorrect == Spec => []TypeOK
<1>1. Shape => TypeOK
  BY DEF Shape
<1> QED
  BY <1>1, ShapeInvariant, PTL

\* The inductive invariant.
Inv == Shape /\ Linked /\ Loaded

\* A transfer is always as the invariant says.
THEOREM Invariance ==
  ASSUME ~PortReuse, Window < SeqSize
  PROVE  Spec => []Inv
<1>1. Init => Inv
  BY InitShape, InitLinked, InitLoaded DEF Inv
<1>2. Inv /\ [Next]_vars => Inv'
  BY StepShape, StepLinked, StepLoaded DEF Inv
<1> QED
  BY <1>1, <1>2, PTL DEF Spec

(* NetLoop returns success only with the whole file in memory and its size in  *)
(* NetBootFileXferSize, unless a block came again that the wrap makes          *)
(* ambiguous: TftpHandler's "We received the whole thing" is right.            *)
THEOREM SuccessIsWholeFile ==
  ASSUME ~PortReuse, Window < SeqSize
  PROVE  Spec => []Integrity
<1>1. Inv => Integrity
  BY DEF Inv, Loaded, Integrity, SuccessIsWhole
<1> QED
  BY <1>1, Invariance, PTL

(* What the server has seen acknowledged is in memory at its place: TftpSend   *)
(* and the repetition by TftpTimeout never acknowledge a block that            *)
(* store_block has not stored, and none is overwritten by another.             *)
THEOREM AcknowledgedIsStored ==
  ASSUME ~PortReuse, Window < SeqSize
  PROVE  Spec => []AckedIsStored
<1>1. Inv => AckedIsStored
  BY DEF Inv, Loaded, Linked, Connected, Peer, Placed, PlacedAt, Answered, Held, Running,
         AckedIsStored
<1> QED
  BY <1>1, Invariance, PTL
=============================================================================
