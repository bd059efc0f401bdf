-------------------------- MODULE NetConsoleProofs --------------------------
(* Type correctness of NetConsole, and that a line printed by puts is sent in  *)
(* time or, disturbed, not at all, for every size of the ring, every number of *)
(* retries and every bound.                                                    *)
EXTENDS NetConsole, SequenceTheorems, TLAPS

InLoop == pc \notin {"idle", "start"}
Iterating == pc \in {"rx", "arp", "time", "switch"}

\* What is parked during a loop: the line of the puts that runs, or a TFTP packet.
Parked ==
  /\ parked <= line
  /\ InLoop /\ waiting # Never /\ parked # 0 => caller = "puts" /\ parked = line
  /\ InLoop /\ waiting = "console" => parked = line /\ caller = "puts"

(* The loop of a puts: the address of the console becomes known when the line  *)
(* is sent, the other ways to succeed before that are the disturbances.        *)
Putting ==
  caller = "puts" =>
    /\ "console" \in known => sent = line
    /\ Iterating /\ NetState = "success" => sent = line \/ disturbed

Inv == TypeOK /\ Parked /\ Putting /\ LineSent

-----------------------------------------------------------------------------
(* The ring. *)

RingOK ==
  /\ input_buffer \in [Slots -> 0 .. MaxTyped]
  /\ input_size \in 0 .. BufferSize /\ input_offset \in Slots
  /\ typed \in 0 .. MaxTyped /\ taken \in 0 .. MaxTyped

\* The copy of a packet that fits stays in the buffer.
LEMMA FilledType ==
  ASSUME RingOK, NEW k \in Nat, k <= BufferSize - input_size, typed + k <= MaxTyped
  PROVE  Filled(k) \in [Slots -> 0 .. MaxTyped]
BY BufferSizeAssumption, BoundsAssumption DEF RingOK, Filled, Slots

LEMMA InputPacketType ==
  ASSUME RingOK, NEW k \in 1 .. MaxTyped, typed + k <= MaxTyped, InputPacket(k)
  PROVE  RingOK'
<1> DEFINE room == BufferSize - input_size
           len == IF k > room THEN room ELSE k
<1>1. len \in Nat /\ len <= room /\ len <= k
  BY BufferSizeAssumption, BoundsAssumption DEF RingOK
<1>2. typed + len <= MaxTyped
  BY <1>1, BoundsAssumption DEF RingOK
<1>3. Filled(len) \in [Slots -> 0 .. MaxTyped]
  BY <1>1, <1>2, FilledType
<1> QED
  BY <1>1, <1>3, BufferSizeAssumption, BoundsAssumption DEF RingOK, InputPacket

LEMMA TakeCharType ==
  ASSUME RingOK, input_size > 0, TakeChar
  PROVE  RingOK'
BY BufferSizeAssumption, BoundsAssumption DEF RingOK, TakeChar, NextOffset, Slots

LEMMA RingStep ==
  ASSUME RingOK, [Next]_vars
  PROVE  RingOK'
<1>1. CASE UNCHANGED ring
  BY <1>1 DEF RingOK, ring
<1>2. CASE input_size > 0 /\ TakeChar
  BY <1>2, TakeCharType
<1>3. ASSUME NEW k \in 1 .. MaxTyped, RxInput(k) PROVE RingOK'
  BY <1>3, InputPacketType DEF RxInput
<1> QED
  BY <1>1, <1>2, <1>3 DEF Next, Calls, Packets, Iteration, vars, NcSetUp, GetcAtOnce,
     GetcWaits, Tstc, PutsAtOnce, PutsWaits, Tftp, RxOther, RxTftp, RxArpReply, Start,
     NotConfigured, RestartUnconfigured, NcStartInput, NcStartOutput, TftpStart,
     NoCtrlC, CtrlC, ArpNotYet, ArpExpires, TimeNotYet, NcTimeout, TftpTimeout,
     StartAgainTimeout, Switch, GetcReturns, Returns

-----------------------------------------------------------------------------
(* The invariant. *)

\* Everything of TypeOK but the ring.
RestOK ==
  /\ net_timeout \in {0, 1}
  /\ known \subseteq Hosts /\ waiting \in Hosts \cup {Never}
  /\ parked \in 0 .. MaxLines /\ NetArpWaitTry \in 0 .. ArpTries
  /\ NetState \in {"continue", "restart", "success", "fail"}
  /\ packetHandler \in {Never, "nc", "arp", "tftp", "again"}
  /\ timeHandler \in {Never, "nc", "tftp", "again"}
  /\ TftpTimeoutCount \in 0 .. TftpTimeouts + 1
  /\ pc \in {"idle", "start", "restart", "rx", "arp", "time", "switch", "success", "fail"}
  /\ caller \in {Never, "getc", "tstc", "puts", "tftp"} /\ (caller = Never <=> pc = "idle")
  /\ netretry \in BOOLEAN /\ addressed \in BOOLEAN /\ disturbed \in BOOLEAN
  /\ line \in 0 .. MaxLines /\ sent \in 0 .. line

Control == RestOK /\ Parked /\ Putting /\ LineSent

THEOREM Initially == Init => Inv
<1> SUFFICES ASSUME Init PROVE Inv
  OBVIOUS
<1>1. RingOK
  BY BufferSizeAssumption, BoundsAssumption DEF Init, RingOK, Slots
<1>2. RestOK
  <2>1. parked \in 0 .. MaxLines /\ NetArpWaitTry \in 0 .. ArpTries
        /\ TftpTimeoutCount \in 0 .. TftpTimeouts + 1
        /\ line \in 0 .. MaxLines /\ sent \in 0 .. line
    BY ArpTriesAssumption, TftpTimeoutsAssumption, BoundsAssumption DEF Init
  <2> QED
    BY <2>1 DEF Init, RestOK, Never
<1>3. Parked /\ Putting /\ LineSent
  BY DEF Init, Parked, Putting, LineSent, InLoop, Iterating, Never
<1> QED
  BY <1>1, <1>2, <1>3 DEF Inv, TypeOK, RingOK, RestOK

\* What NetSendUDPPacket leaves of the wait for an ARP reply.
LEMMA SendToType ==
  ASSUME RestOK, NEW h \in Hosts, SendTo(h)
  PROVE  /\ known' = known /\ waiting' \in Hosts \cup {Never}
         /\ parked' \in 0 .. MaxLines /\ NetArpWaitTry' \in 0 .. ArpTries
         /\ sent' \in 0 .. line
<1>1. CASE h \in known
  BY <1>1, BoundsAssumption DEF RestOK, SendTo, arp
<1>2. CASE h \notin known
  <2>1. waiting' = h /\ parked' \in {line, 0} /\ NetArpWaitTry' = 1
        /\ UNCHANGED <<known, sent>>
    BY <1>2 DEF SendTo
  <2> QED
    BY <2>1, ArpTriesAssumption, BoundsAssumption DEF RestOK
<1> QED
  BY <1>1, <1>2

\* One step of the program keeps types, parked packet and progress of the puts.
LEMMA ControlStep ==
  ASSUME RingOK, Control, [Next]_vars
  PROVE  Control'
<1> USE ArpTriesAssumption, TftpTimeoutsAssumption, BoundsAssumption
        DEF Control, RestOK, Parked, Putting, LineSent, InLoop, Iterating, Never, Hosts,
            vars, ring, arp, handlers, control, environment, lines, Cut, NoWait
<1>1. CASE NcSetUp
  BY <1>1 DEF NcSetUp, Hosts
<1>2. CASE GetcAtOnce
  BY <1>2 DEF GetcAtOnce, Call
<1>3. CASE GetcWaits
  BY <1>3 DEF GetcWaits, Call
<1>4. CASE Tstc
  BY <1>4 DEF Tstc, Call, PollTimeout
<1>5. CASE PutsAtOnce
  <2>1. line' = line + 1 /\ sent' \in {sent, line'} /\ parked' = parked /\ line < MaxLines
    BY <1>5 DEF PutsAtOnce
  <2>2. line' \in 0 .. MaxLines /\ sent' \in 0 .. line' /\ parked' <= line'
    BY <2>1
  <2>3. caller = Never /\ pc = "idle"
    BY <1>5 DEF PutsAtOnce
  <2>4. caller' = caller /\ pc' = pc /\ disturbed' = FALSE
    BY <1>5 DEF PutsAtOnce
  <2>5. RestOK'
    BY <1>5, <2>2, <2>3, <2>4 DEF PutsAtOnce
  <2>6. Parked' /\ Putting' /\ LineSent'
    BY <2>2, <2>3, <2>4
  <2> QED
    BY <2>5, <2>6
<1>6. CASE PutsWaits
  BY <1>6 DEF PutsWaits, Call
<1>7. CASE Tftp
  BY <1>7 DEF Tftp, Call
<1>8. ASSUME NEW k \in 1 .. MaxTyped, RxInput(k) PROVE Control'
  <2>1. RestOK'
    BY <1>8 DEF RxInput, InputPacket, Handled
  <2>2. Parked'
    BY <1>8 DEF RxInput, InputPacket, Handled
  <2>3. Putting'
    BY <1>8 DEF RxInput, InputPacket, Handled
  <2>4. LineSent'
    BY <1>8 DEF RxInput, InputPacket, Handled
  <2> QED
    BY <2>1, <2>2, <2>3, <2>4
<1>9. CASE RxOther
  <2>1. RestOK'
    BY <1>9 DEF RxOther, Handled
  <2>2. Parked'
    BY <1>9 DEF RxOther, Handled
  <2>3. Putting'
    BY <1>9 DEF RxOther, Handled
  <2>4. LineSent'
    BY <1>9 DEF RxOther, Handled
  <2> QED
    BY <2>1, <2>2, <2>3, <2>4
<1>10. CASE RxTftp
  <2>1. RestOK'
    BY <1>10 DEF RxTftp, StartAgain
  <2>2. Parked'
    BY <1>10 DEF RxTftp, StartAgain
  <2>3. Putting'
    BY <1>10 DEF RxTftp, StartAgain
  <2>4. LineSent'
    BY <1>10 DEF RxTftp, StartAgain
  <2> QED
    BY <2>1, <2>2, <2>3, <2>4
<1>11. ASSUME NEW h \in Hosts, RxArpReply(h) PROVE Control'
  <2>1. RestOK'
    BY <1>11 DEF RxArpReply, Handled, Hosts
  <2>2. Parked'
    BY <1>11 DEF RxArpReply, Handled, Hosts
  <2>3. Putting'
    <3> SUFFICES ASSUME caller' = "puts", pc' # "idle"
                 PROVE  /\ "console" \in known' => sent' = line'
                        /\ NetState' = "success" => sent' = line' \/ disturbed'
      BY <1>11 DEF RxArpReply
    <3>1. /\ caller = "puts" /\ line' = line /\ sent' \in {sent, parked}
          /\ parked \in {0, line} /\ parked = 0 => sent' = sent
          /\ parked # 0 => sent' = line
      BY <1>11 DEF RxArpReply
    <3>2. CASE h = "console"
      <4>1. sent' = line
        BY <1>11, <3>1, <3>2 DEF RxArpReply
      <4> QED
        BY <3>1, <4>1
    <3>3. CASE h = "server"
      <4>1. "console" \in known' <=> "console" \in known
        BY <1>11, <3>3 DEF RxArpReply
      <4>2. "console" \in known => sent' = line
        BY <3>1
      <4>3. NetState' = "success" /\ "console" \notin known => disturbed'
        BY <1>11, <3>1, <3>3 DEF RxArpReply
      <4> QED
        BY <3>1, <4>1, <4>2, <4>3
    <3> QED
      BY <3>2, <3>3
  <2>4. LineSent'
    BY <1>11 DEF RxArpReply, Handled, Hosts
  <2> QED
    BY <2>1, <2>2, <2>3, <2>4
<1>12. CASE Start
  BY <1>12 DEF Start, ClearWait
<1>13. CASE NotConfigured
  BY <1>13 DEF NotConfigured
<1>14. CASE RestartUnconfigured
  BY <1>14 DEF RestartUnconfigured, StartAgain
<1>15. CASE NcStartInput
  BY <1>15 DEF NcStartInput
<1>16. CASE NcStartOutput
  <2>1. RestOK'
    BY <1>16, SendToType DEF NcStartOutput, Hosts
  <2>2. Parked'
    BY <1>16 DEF NcStartOutput, SendTo, Hosts
  <2>3. Putting'
    BY <1>16 DEF NcStartOutput, SendTo, Hosts
  <2>4. LineSent'
    BY <1>16 DEF NcStartOutput, SendTo, Hosts
  <2> QED
    BY <2>1, <2>2, <2>3, <2>4
<1>17. CASE TftpStart
  BY <1>17 DEF TftpStart, Hosts
<1>18. CASE NoCtrlC
  BY <1>18 DEF NoCtrlC
<1>19. CASE CtrlC
  BY <1>19 DEF CtrlC
<1>20. CASE ArpNotYet
  BY <1>20 DEF ArpNotYet
<1>21. CASE ArpExpires
  BY <1>21 DEF ArpExpires, StartAgain
<1>22. CASE TimeNotYet
  BY <1>22 DEF TimeNotYet
<1>23. CASE NcTimeout
  BY <1>23 DEF NcTimeout
<1>24. CASE TftpTimeout
  <2>1. RestOK'
    <3>1. CASE TftpTimeoutCount' > TftpTimeouts
      <4>1. TftpTimeoutCount' \in 0 .. TftpTimeouts + 1
        BY <1>24, <3>1 DEF TftpTimeout
      <4>2. /\ NetState' \in {"continue", "restart", "success", "fail"}
            /\ packetHandler' \in {Never, "nc", "arp", "tftp", "again"}
            /\ timeHandler' \in {Never, "nc", "tftp", "again"}
        BY <1>24, <3>1 DEF TftpTimeout, StartAgain
      <4> QED
        BY <1>24, <3>1, <4>1, <4>2 DEF TftpTimeout
    <3>2. CASE ~(TftpTimeoutCount' > TftpTimeouts)
      <4>1. TftpTimeoutCount' \in 0 .. TftpTimeouts + 1
        BY <1>24, <3>2 DEF TftpTimeout
      <4>2. SendTo("server") /\ "server" \in Hosts
        BY <1>24, <3>2 DEF TftpTimeout
      <4>3. /\ known' \subseteq Hosts /\ waiting' \in Hosts \cup {Never}
            /\ parked' \in 0 .. MaxLines /\ NetArpWaitTry' \in 0 .. ArpTries
            /\ sent' \in 0 .. line
        <5>1. RestOK
          OBVIOUS
        <5> QED
          BY <4>2, <5>1, SendToType
      <4>4. /\ UNCHANGED <<net_timeout, packetHandler, timeHandler, NetState, caller, netretry,
                           addressed, line, disturbed>>
            /\ pc = "time" /\ pc' = "switch"
        BY <1>24, <3>2 DEF TftpTimeout
      <4> QED
        BY <4>1, <4>3, <4>4
    <3> QED
      BY <3>1, <3>2
  <2>2. Parked'
    BY <1>24 DEF TftpTimeout, SendTo, StartAgain, Hosts
  <2>3. Putting'
    BY <1>24 DEF TftpTimeout, SendTo, StartAgain, Hosts
  <2>4. LineSent'
    BY <1>24 DEF TftpTimeout, SendTo, StartAgain, Hosts
  <2> QED
    BY <2>1, <2>2, <2>3, <2>4
<1>25. CASE StartAgainTimeout
  BY <1>25 DEF StartAgainTimeout
<1>26. CASE Switch
  BY <1>26 DEF Switch
<1>27. CASE GetcReturns
  BY <1>27 DEF GetcReturns
<1>28. CASE Returns
  <2>1. RestOK'
    BY <1>28 DEF Returns
  <2>2. Parked'
    BY <1>28 DEF Returns
  <2>3. Putting'
    BY <1>28 DEF Returns
  <2>4. LineSent'
    BY <1>28 DEF Returns
  <2> QED
    BY <2>1, <2>2, <2>3, <2>4
<1>29. CASE UNCHANGED vars
  BY <1>29
<1>30. QED
  BY <1>1, <1>2, <1>3, <1>4, <1>5, <1>6, <1>7, <1>8, <1>9, <1>10, <1>11, <1>12,
     <1>13, <1>14, <1>15, <1>16, <1>17, <1>18, <1>19, <1>20, <1>21, <1>22, <1>23, <1>24,
     <1>25, <1>26, <1>27, <1>28, <1>29
  DEF Next, Calls, Packets, Iteration

THEOREM Inductive == Inv /\ [Next]_vars => Inv'
<1> SUFFICES ASSUME Inv, [Next]_vars PROVE Inv'
  OBVIOUS
<1>1. RingOK /\ Control
  BY DEF Inv, TypeOK, RingOK, Control, RestOK
<1>2. RingOK' /\ Control'
  BY <1>1, RingStep, ControlStep
<1> QED
  BY <1>2 DEF Inv, TypeOK, RingOK, Control, RestOK

THEOREM Invariance == Spec => []Inv
BY Initially, Inductive, PTL DEF Spec

(* Type correctness: the ring offset and fill, the retry counts and every      *)
(* piece of control state stay in their ranges (netconsole.c, net.c).          *)
THEOREM TypeCorrect == Spec => []TypeOK
<1>1. Inv => TypeOK
  BY DEF Inv
<1> QED
  BY <1>1, Invariance, PTL

(* A puts whose network loop succeeds has sent its line, through any restarts  *)
(* and iterations with handlers of an earlier loop, unless another packet or   *)
(* timer ended the loop while the address of the console was not known.        *)
THEOREM LineIsSent == Spec => []LineSent
<1>1. Inv => LineSent
  BY DEF Inv
<1> QED
  BY <1>1, Invariance, PTL

(* No console line parked by NetSendUDPPacket is sent by an ARP reply after    *)
(* its puts has ended, whatever loop runs then.                                *)
THEOREM LineNotLate == Spec => NoLateLine
<1>1. ASSUME Inv, [Next]_vars
      PROVE  sent' # sent => sent' = line' /\ (pc = "idle" \/ caller = "puts")
  <2> USE DEF vars, ring, arp, handlers, control, environment, lines
  <2>1. ASSUME NEW h \in Hosts, RxArpReply(h), sent' # sent
        PROVE  sent' = line' /\ caller = "puts"
    BY <1>1, <2>1 DEF RxArpReply, Inv, Parked, InLoop, Hosts, Never
  <2>2. PutsAtOnce => pc = "idle" /\ sent' \in {sent, line'}
    BY DEF PutsAtOnce
  <2>3. NcStartOutput => UNCHANGED sent
    BY DEF NcStartOutput, SendTo
  <2>4. TftpTimeout => UNCHANGED sent
    BY DEF TftpTimeout, SendTo
  <2> QED
    BY <1>1, <2>1, <2>2, <2>3, <2>4 DEF Next, Calls, Packets, Iteration, NcSetUp, GetcAtOnce,
       GetcWaits, Tstc, PutsWaits, Tftp, RxInput, RxOther, RxTftp, Start, NotConfigured,
       RestartUnconfigured, NcStartInput, TftpStart, NoCtrlC, CtrlC, ArpNotYet,
       ArpExpires, TimeNotYet, NcTimeout, StartAgainTimeout, Switch, GetcReturns, Returns
<1> QED
  BY <1>1, Invariance, PTL DEF Spec, NoLateLine

-----------------------------------------------------------------------------
(* The ring implements the queue. *)

WaitingIs ==
  /\ Waiting \in Seq(0 .. MaxTyped) /\ Len(Waiting) = input_size
  /\ \A i \in 1 .. input_size : Waiting[i] = input_buffer[Place(i)]

LEMMA WaitingType == RingOK => WaitingIs
<1> SUFFICES ASSUME RingOK PROVE WaitingIs
  OBVIOUS
<1>1. \A i \in 1 .. input_size : Place(i) \in Slots
  BY BufferSizeAssumption DEF RingOK, Place, Slots
<1>2. Waiting \in [1 .. input_size -> 0 .. MaxTyped] /\ input_size \in Nat
  BY <1>1, BufferSizeAssumption DEF RingOK, Waiting
<1> QED
  BY <1>2 DEF Waiting, WaitingIs

LEMMA WaitingTypeNext == RingOK' => WaitingIs'
BY WaitingType, PTL

\* A packet that fits goes behind what waits, around the end of the buffer or not.
LEMMA FilledIs ==
  ASSUME RingOK, NEW k \in Nat, k <= BufferSize - input_size,
         NEW i \in 1 .. input_size + k
  PROVE  Filled(k)[Place(i)] = IF i <= input_size THEN input_buffer[Place(i)]
                               ELSE typed + i - input_size
<1> DEFINE sum == input_offset + input_size
           end == IF sum > BufferSize THEN sum - BufferSize ELSE sum
           chunk == IF end + k > BufferSize THEN BufferSize - end ELSE k
           at == Place(i)
<1>1. /\ at \in Slots
      /\ at = IF input_offset + i - 1 >= BufferSize THEN input_offset + i - 1 - BufferSize
              ELSE input_offset + i - 1
  BY BufferSizeAssumption DEF RingOK, Place, Slots
<1>2. Filled(k)[at] = IF at >= end /\ at < end + chunk THEN typed + 1 + at - end
                      ELSE IF at < k - chunk THEN typed + 1 + chunk + at
                      ELSE input_buffer[at]
  BY <1>1 DEF Filled
<1>3. end \in 0 .. BufferSize /\ chunk \in 0 .. k /\ input_offset \in 0 .. BufferSize - 1
      /\ input_size \in 0 .. BufferSize /\ typed \in Nat /\ BufferSize \in Nat
  BY BufferSizeAssumption, BoundsAssumption DEF RingOK, Slots
<1>4. CASE i <= input_size
  <2>1. ~(at >= end /\ at < end + chunk) /\ ~(at < k - chunk)
    BY <1>1, <1>3, <1>4 DEF Slots
  <2> QED
    BY <1>2, <1>4, <2>1
<1>5. CASE ~(i <= input_size)
  <2>1. CASE at >= end /\ at < end + chunk
    BY <1>1, <1>2, <1>3, <1>5, <2>1 DEF Slots
  <2>2. CASE ~(at >= end /\ at < end + chunk)
    BY <1>1, <1>2, <1>3, <1>5, <2>2 DEF Slots
  <2> QED
    BY <2>1, <2>2
<1> QED
  BY <1>4, <1>5

LEMMA NextNumbers ==
  ASSUME NEW n \in Nat, NEW t \in Nat, NEW m \in Nat, t + n <= m
  PROVE  LET s == [i \in 1 .. n |-> t + i]
         IN  s \in Seq(0 .. m) /\ Len(s) = n /\ \A i \in 1 .. n : s[i] = t + i
<1>1. [i \in 1 .. n |-> t + i] \in [1 .. n -> 0 .. m]
  OBVIOUS
<1> QED
  BY <1>1

LEMMA ArriveStep ==
  ASSUME RingOK, NEW k \in 1 .. MaxTyped, typed + k <= MaxTyped, InputPacket(k)
  PROVE  Queue!Arrive
<1> DEFINE room == BufferSize - input_size
           len == IF k > room THEN room ELSE k
           new == [i \in 1 .. len |-> typed + i]
<1>1. /\ len \in Nat /\ len <= room /\ len <= k
      /\ typed \in Nat /\ typed' = typed + k /\ typed' > typed
      /\ input_size \in Nat /\ input_size' = input_size + len
  BY BufferSizeAssumption, BoundsAssumption DEF RingOK, InputPacket
<1>2. input_buffer' = Filled(len) /\ UNCHANGED <<input_offset, taken>>
  BY DEF InputPacket
<1>3. RingOK'
  BY InputPacketType
<1> HIDE DEF len, room
<1>4. new \in Seq(0 .. MaxTyped) /\ Len(new) = len /\ \A i \in 1 .. len : new[i] = typed + i
  <2>1. typed + len <= MaxTyped
    BY <1>1, BoundsAssumption
  <2> QED
    BY <1>1, <2>1, BoundsAssumption, NextNumbers
<1> HIDE DEF new
<1>5. Waiting \in Seq(0 .. MaxTyped) /\ Waiting' \in Seq(0 .. MaxTyped)
      /\ Len(Waiting) = input_size /\ Len(Waiting') = input_size'
  BY <1>3, WaitingType, WaitingTypeNext DEF WaitingIs
<1>6. Len(Waiting') = Len(Waiting \o new) /\ Waiting \o new \in Seq(0 .. MaxTyped)
  BY <1>1, <1>4, <1>5, ConcatProperties
<1>7. ASSUME NEW i \in 1 .. Len(Waiting') PROVE Waiting'[i] = (Waiting \o new)[i]
  <2>1. i \in 1 .. input_size + len
    BY <1>1, <1>5
  <2>2. Waiting'[i] = input_buffer'[Place(i)]
    <3>1. Place(i)' = Place(i)
      BY <1>2 DEF Place
    <3> QED
      BY <1>1, <1>3, <1>5, <3>1, WaitingTypeNext DEF WaitingIs
  <2>3. Waiting'[i] = IF i <= input_size THEN input_buffer[Place(i)] ELSE typed + i - input_size
    BY <1>1, <1>2, <2>1, <2>2, FilledIs DEF room
  <2>4. (Waiting \o new)[i] = IF i <= input_size THEN Waiting[i] ELSE new[i - input_size]
    BY <1>4, <1>5, <2>1, ConcatProperties
  <2>5. CASE i <= input_size
    BY <1>1, <2>1, <2>3, <2>4, <2>5, WaitingType DEF WaitingIs
  <2>6. CASE ~(i <= input_size)
    <3>1. i - input_size \in 1 .. len
      BY <1>1, <2>1, <2>6
    <3>2. new[i - input_size] = typed + (i - input_size)
      BY <1>4, <3>1
    <3> QED
      BY <1>1, <2>1, <2>3, <2>4, <2>6, <3>2
  <2> QED
    BY <2>5, <2>6
<1>8. Waiting' = Waiting \o new
  BY <1>5, <1>6, <1>7, SeqEqual
<1>9. len = IF typed' - typed < BufferSize - Len(Waiting) THEN typed' - typed
            ELSE BufferSize - Len(Waiting)
  BY <1>1, <1>5, BufferSizeAssumption, BoundsAssumption DEF len, room, RingOK
<1> QED
  BY <1>1, <1>2, <1>8, <1>9 DEF Queue!Arrive, new

LEMMA TakeStep ==
  ASSUME RingOK, input_size > 0, TakeChar
  PROVE  Queue!Take
<1>1. RingOK'
  BY TakeCharType
<1>2. /\ Waiting \in Seq(0 .. MaxTyped) /\ Waiting' \in Seq(0 .. MaxTyped)
      /\ Len(Waiting) = input_size /\ Len(Waiting') = input_size'
      /\ \A i \in 1 .. input_size : Waiting[i] = input_buffer[Place(i)]
  BY <1>1, WaitingType, WaitingTypeNext DEF WaitingIs
<1>3. input_size \in Nat /\ input_size' = input_size - 1
  BY BufferSizeAssumption DEF RingOK, TakeChar
<1>4. Waiting # <<>>
  BY <1>2, <1>3, EmptySeq
<1>5. Head(Waiting) = input_buffer[input_offset]
  <2>1. Place(1) = input_offset
    BY BufferSizeAssumption DEF Place, RingOK, Slots
  <2> QED
    BY <1>2, <1>3, <2>1
<1>6. /\ Tail(Waiting) \in Seq(0 .. MaxTyped) /\ Len(Tail(Waiting)) = input_size - 1
      /\ \A i \in 1 .. input_size - 1 : Tail(Waiting)[i] = Waiting[i + 1]
  BY <1>2, <1>4, HeadTailProperties
<1>7. ASSUME NEW i \in 1 .. input_size - 1 PROVE Waiting'[i] = Waiting[i + 1]
  <2>1. Waiting'[i] = input_buffer'[Place(i)']
    BY <1>1, <1>2, <1>3, WaitingTypeNext DEF WaitingIs
  <2>2. Place(i)' = Place(i + 1)
    BY <1>3, BufferSizeAssumption DEF Place, RingOK, TakeChar, NextOffset, Slots
  <2>3. input_buffer' = input_buffer
    BY DEF TakeChar
  <2> QED
    BY <1>2, <1>3, <2>1, <2>2, <2>3
<1>8. Waiting' = Tail(Waiting)
  BY <1>2, <1>3, <1>6, <1>7, SeqEqual
<1> QED
  BY <1>4, <1>5, <1>8 DEF Queue!Take, TakeChar

(* The ring of the network console, its wrap-around, its cut packets and both  *)
(* of its readers implement a bounded queue, for every size of the ring.       *)
THEOREM QueueImplementation == Spec => ImplementsCharQueue
<1> USE DEF Queue!vars
<1>1. Init => Queue!Init
  <2> SUFFICES ASSUME Init PROVE Queue!Init
    OBVIOUS
  <2>1. RingOK
    BY BufferSizeAssumption, BoundsAssumption DEF Init, RingOK, Slots
  <2>2. Waiting \in Seq(0 .. MaxTyped) /\ Len(Waiting) = 0
    BY <2>1, WaitingType DEF Init, WaitingIs
  <2> QED
    BY <2>2, EmptySeq DEF Init, Queue!Init
<1>2. ASSUME Inv, [Next]_vars PROVE [Queue!Next]_Queue!vars
  <2> USE DEF Queue!Next
  <2>1. RingOK
    BY <1>2 DEF Inv, TypeOK, RingOK
  <2>2. CASE UNCHANGED ring
    <3>1. Waiting' = Waiting
      BY <2>2 DEF Waiting, Place, ring
    <3> QED
      BY <2>2, <3>1 DEF ring
  <2>3. CASE input_size > 0 /\ TakeChar
    BY <2>1, <2>3, TakeStep
  <2>4. ASSUME NEW k \in 1 .. MaxTyped, RxInput(k) PROVE Queue!Arrive
    BY <2>1, <2>4, ArriveStep DEF RxInput
  <2> QED
    BY <1>2, <2>2, <2>3, <2>4 DEF Next, Calls, Packets, Iteration, vars, NcSetUp, GetcAtOnce,
       GetcWaits, Tstc, PutsAtOnce, PutsWaits, Tftp, RxOther, RxTftp, RxArpReply, Start,
       NotConfigured, RestartUnconfigured, NcStartInput, NcStartOutput, TftpStart,
       NoCtrlC, CtrlC, ArpNotYet, ArpExpires, TimeNotYet, NcTimeout, TftpTimeout,
       StartAgainTimeout, Switch, GetcReturns, Returns
<1> QED
  BY <1>1, <1>2, Invariance, PTL DEF Spec, ImplementsCharQueue, Queue!Spec
=============================================================================
