----------------------------- MODULE NetConsole -----------------------------
(* drivers/net/netconsole.c with the parts of net/net.c it runs on: NetLoop,   *)
(* NetSendUDPPacket, the wait for an ARP reply and the time handler. Standard  *)
(* input and output are the network console. What is typed arrives in packets  *)
(* while some NetLoop runs, whoever started it: getc, the poll of tstc, puts   *)
(* that waits for the ethernet address of the other end, or a TFTP transfer.   *)
(* NetLoop resets the wait for an ARP reply when it starts but not the time    *)
(* handler, so that one loop may run with a time handler of an earlier one --  *)
(* and with its packet handler too, on an interface without an address.        *)
(*                                                                             *)
(* A packet holds a line or some characters, each known by its number; a timer *)
(* may expire in any iteration of the loop. How NetStartAgain chooses between  *)
(* its ways to go on is in module NetLoop and is left open here; the transfer  *)
(* itself is in module Tftp.                                                   *)
EXTENDS Naturals, Sequences

CONSTANTS
  BufferSize,   \* sizeof input_buffer
  ArpTries,     \* ARP_TIMEOUT_COUNT
  TftpTimeouts, \* TftpTimeoutCountMax
  MaxTyped,     \* bound: characters typed
  MaxLines      \* bound: lines printed

ASSUME BufferSizeAssumption == BufferSize \in Nat \ {0}
ASSUME ArpTriesAssumption == ArpTries \in Nat \ {0}
ASSUME TftpTimeoutsAssumption == TftpTimeouts \in Nat
ASSUME BoundsAssumption == MaxTyped \in Nat /\ MaxLines \in Nat

Slots == 0 .. BufferSize - 1
Hosts == {"console", "server"} \* the other end of the console, the TFTP server
Never == "none"

VARIABLES
  input_buffer, input_size, input_offset,
  net_timeout,      \* 0, or 1 while tstc polls
  known,            \* the hosts whose ethernet address is known: nc_ether, NetServerEther
  NetState,         \* "continue", "restart", "success" or "fail"
  packetHandler,    \* "nc", "arp" (nc_wait_arp_handler), "tftp" or "again"
  timeHandler,      \* "none", "nc", "tftp" or "again"
  waiting,          \* whose ARP reply the parked packet waits for
  parked,           \* the line in NetArpWaitTxPacket, 0 if it is a packet of TFTP
  NetArpWaitTry,    \* of the wait in progress; what the code leaves of it later is not read
  TftpTimeoutCount,
  pc,               \* "idle", or the next step of NetLoop
  caller,           \* who called NetLoop: "getc", "tstc", "puts" or "tftp"
  netretry,         \* environment: FALSE if set to "no"
  addressed,        \* environment: every interface has an ethernet address
  typed,            \* characters typed so far
  taken,            \* the character read last
  line,             \* lines printed so far
  sent,             \* the console line sent last
  disturbed         \* history: see LineSent

ring == <<input_buffer, input_size, input_offset, typed, taken>>
arp == <<known, waiting, parked, NetArpWaitTry>>
handlers == <<packetHandler, timeHandler, TftpTimeoutCount>>
control == <<pc, caller>>
lines == <<line, sent, disturbed>>
environment == <<netretry, addressed>>
vars == <<ring, net_timeout, arp, handlers, NetState, control, environment, lines>>

-----------------------------------------------------------------------------
(* The ring of typed characters. *)

\* Slip: a packet that passes the end of the buffer goes on at its start, but
\* from the first character again.
Filled_Again(k) ==
  LET end == (input_offset + input_size) % BufferSize
  IN  [s \in Slots |->
        IF s >= end /\ s < end + k THEN typed + 1 + s - end
        ELSE IF s < end + k - BufferSize THEN typed + 1 + s
        ELSE input_buffer[s]]

(* The buffer after the first k characters of a packet have been copied: from  *)
(* end to the end of the buffer, which is nothing if end is BufferSize, and    *)
(* the rest to its start.                                                      *)
Filled(k) ==
  LET sum == input_offset + input_size
      end == IF sum > BufferSize THEN sum - BufferSize ELSE sum
      chunk == IF end + k > BufferSize THEN BufferSize - end ELSE k
  IN  [s \in Slots |->
        IF s >= end /\ s < end + chunk THEN typed + 1 + s - end
        ELSE IF s < k - chunk THEN typed + 1 + chunk + s
        ELSE input_buffer[s]]

\* nc_input_packet with k characters; those that do not fit are dropped.
InputPacket(k) ==
  LET room == BufferSize - input_size
      len == IF k > room THEN room ELSE k
  IN  /\ input_buffer' = Filled(len)
      /\ input_size' = input_size + len
      /\ typed' = typed + k
      /\ UNCHANGED <<input_offset, taken>>

\* Slip: the offset passes the end of the buffer.
NextOffset_Open == input_offset + 1

NextOffset == IF input_offset + 1 >= BufferSize THEN input_offset + 1 - BufferSize
              ELSE input_offset + 1

\* The end of nc_getc.
TakeChar ==
  /\ taken' = input_buffer[input_offset]
  /\ input_offset' = NextOffset
  /\ input_size' = input_size - 1
  /\ UNCHANGED <<input_buffer, typed>>

-----------------------------------------------------------------------------
(* net/net.c *)

\* NetSendUDPPacket to host h; a packet parked before is overwritten.
SendTo(h) ==
  IF h \in known
    THEN /\ sent' = IF h = "console" THEN line ELSE sent
         /\ UNCHANGED arp
    ELSE /\ waiting' = h
         /\ parked' = IF h = "console" THEN line ELSE 0
         /\ NetArpWaitTry' = 1
         /\ UNCHANGED <<known, sent>>

(* NetStartAgain: fail if netretry is "no", else restart at once, wait some    *)
(* time and restart, or fail after all. It is called in state s, with time     *)
(* handler t.                                                                  *)
StartAgain(s, t) ==
  \/ NetState' = "fail" /\ timeHandler' = t /\ UNCHANGED packetHandler
  \/ netretry /\ NetState' = "restart" /\ timeHandler' = t /\ UNCHANGED packetHandler
  \/ netretry /\ packetHandler' = "again" /\ timeHandler' = "again" /\ NetState' = s

\* Slip: nc_wait_arp_handler does not end the loop.
Handled_NoArp(size) == IF packetHandler = "nc" /\ size > 0 THEN "success" ELSE NetState

\* Slip: nc_handler does not end the loop.
Handled_NoInput(size) == IF packetHandler = "arp" THEN "success" ELSE NetState

(* NetState after the packet handler: nc_handler ends the loop if there is     *)
(* input, nc_wait_arp_handler does so whatever it is called for, the others    *)
(* ignore what is not their own.                                               *)
Handled(size) ==
  IF (packetHandler = "nc" /\ size > 0) \/ packetHandler = "arp" THEN "success" ELSE NetState

\* The loop of a puts ends with success, and the address it waits for not known.
Cut == caller = "puts" /\ "console" \notin known /\ NetState' = "success"

\* Slip: the wait of an earlier loop goes on.
ClearWait_Keep == UNCHANGED arp

\* No reply is waited for, and the size of the parked packet is 0.
NoWait == waiting' = Never /\ parked' = 0 /\ NetArpWaitTry' = 0

\* The first lines of NetLoop.
ClearWait == NoWait /\ UNCHANGED known

-----------------------------------------------------------------------------
(* The console: what the rest of the program calls between network loops. *)

Call(c) == pc = "idle" /\ pc' = "start" /\ caller' = c

\* nc_start, when the console is chosen: a broadcast address needs no ARP.
NcSetUp ==
  /\ pc = "idle"
  /\ known' \in {known \cup {"console"}, known \ {"console"}}
  /\ UNCHANGED <<ring, net_timeout, waiting, parked, NetArpWaitTry, handlers, NetState,
                 control, environment, lines>>

\* nc_getc with input in the buffer.
GetcAtOnce ==
  /\ pc = "idle" /\ input_size > 0
  /\ TakeChar
  /\ net_timeout' = 0
  /\ UNCHANGED <<arp, handlers, NetState, control, environment, lines>>

GetcWaits ==
  /\ Call("getc") /\ input_size = 0
  /\ net_timeout' = 0
  /\ UNCHANGED <<ring, arp, handlers, NetState, environment, lines>>

\* Slip: the timeout of the last call is kept.
PollTimeout_Kept == net_timeout

PollTimeout == 1

Tstc ==
  /\ Call("tstc") /\ input_size = 0
  /\ net_timeout' = PollTimeout
  /\ UNCHANGED <<ring, arp, handlers, NetState, environment, lines>>

\* nc_puts to a known address; eth_init may fail.
PutsAtOnce ==
  /\ pc = "idle" /\ "console" \in known
  /\ line < MaxLines
  /\ line' = line + 1
  /\ sent' \in {sent, line'}
  /\ disturbed' = FALSE
  /\ UNCHANGED <<ring, net_timeout, arp, handlers, NetState, control, environment>>

PutsWaits ==
  /\ Call("puts") /\ "console" \notin known
  /\ line < MaxLines
  /\ line' = line + 1
  /\ UNCHANGED <<ring, net_timeout, arp, handlers, NetState, environment, sent, disturbed>>

\* The command tftp, or another user of TftpStart.
Tftp ==
  /\ Call("tftp")
  /\ UNCHANGED <<ring, net_timeout, arp, handlers, NetState, environment, lines>>

-----------------------------------------------------------------------------
(* NetLoop. *)

\* The interface may fail to start.
Start ==
  /\ pc = "start"
  /\ pc' \in {"restart", "fail"}
  /\ ClearWait
  /\ UNCHANGED <<ring, net_timeout, handlers, NetState, caller, environment, lines>>

\* net_check_prereq fails: an IP address is not configured.
NotConfigured ==
  /\ pc = "restart"
  /\ pc' = "fail"
  /\ NetState' = "continue"
  /\ UNCHANGED <<ring, net_timeout, arp, handlers, caller, environment, lines>>

(* net_check_prereq on an interface without an address: NetStartAgain is       *)
(* called, but then an iteration runs all the same, without a start function   *)
(* and with the handlers that an earlier loop has left.                        *)
RestartUnconfigured ==
  /\ pc = "restart" /\ pc' = "rx"
  /\ ~addressed
  /\ StartAgain("continue", timeHandler)
  /\ UNCHANGED <<ring, net_timeout, arp, TftpTimeoutCount, caller, environment, lines>>

\* NcStart without an output packet, or with one and the address known: it only
\* waits for input.
NcStartInput ==
  /\ pc = "restart" /\ pc' = "rx"
  /\ caller \in {"getc", "tstc"} \/ (caller = "puts" /\ "console" \in known)
  /\ NetState' = "continue"
  /\ packetHandler' = "nc"
  /\ timeHandler' = IF net_timeout = 0 THEN "none" ELSE "nc"
  /\ UNCHANGED <<ring, net_timeout, arp, TftpTimeoutCount, caller, environment, lines>>

\* NcStart for output; no time handler is set.
NcStartOutput ==
  /\ pc = "restart" /\ pc' = "rx"
  /\ caller = "puts" /\ "console" \notin known
  /\ NetState' = "continue"
  /\ packetHandler' = "arp"
  /\ SendTo("console")
  /\ UNCHANGED <<ring, net_timeout, timeHandler, TftpTimeoutCount, caller, environment, line,
                 disturbed>>

\* TftpStart forgets the server's address and sends the read request.
TftpStart ==
  /\ pc = "restart" /\ pc' = "rx"
  /\ caller = "tftp"
  /\ NetState' = "continue"
  /\ packetHandler' = "tftp" /\ timeHandler' = "tftp" /\ TftpTimeoutCount' = 0
  /\ known' = known \ {"server"}
  /\ waiting' = "server" /\ parked' = 0 /\ NetArpWaitTry' = 1
  /\ UNCHANGED <<ring, net_timeout, caller, environment, lines>>

(* eth_rx: a packet for the console's port with k characters. (A packet in an  *)
(* iteration before any handler was ever set is a jump through a null pointer, *)
(* after which there is no program to model; so is any other.)                 *)
RxInput(k) ==
  /\ pc = "rx" /\ typed + k <= MaxTyped /\ packetHandler # Never
  /\ InputPacket(k)
  /\ NetState' = Handled(input_size')
  /\ disturbed' = (disturbed \/ Cut)
  /\ UNCHANGED <<net_timeout, arp, handlers, control, environment, line, sent>>

\* eth_rx: any other UDP packet.
RxOther ==
  /\ pc = "rx" /\ packetHandler # Never
  /\ NetState' = Handled(input_size)
  /\ disturbed' = (disturbed \/ Cut)
  /\ UNCHANGED <<ring, net_timeout, arp, handlers, control, environment, line, sent>>

\* eth_rx: the server answers; the transfer goes on, ends or starts again.
RxTftp ==
  /\ pc = "rx" /\ packetHandler = "tftp" /\ "server" \in known
  /\ \/ timeHandler' = "tftp" /\ NetState' \in {NetState, "success"} /\ UNCHANGED packetHandler
     \/ StartAgain(NetState, timeHandler)
  /\ disturbed' = (disturbed \/ Cut)
  /\ UNCHANGED <<ring, net_timeout, arp, TftpTimeoutCount, control, environment, line, sent>>

\* Slip: the packet handler is called before the sender of the reply is checked.
RxArpReply_Early(h) ==
  /\ pc = "rx" /\ waiting # Never
  /\ NetState' = Handled(input_size)
  /\ IF waiting = h
       THEN /\ known' = known \cup {h}
            /\ sent' = IF parked = 0 THEN sent ELSE parked
            /\ NoWait
            /\ disturbed' = (disturbed \/ (h = "server" /\ Cut))
       ELSE UNCHANGED <<arp, sent, disturbed>>
  /\ UNCHANGED <<ring, net_timeout, handlers, control, environment, line>>

\* eth_rx: the ARP reply of host h, which is the one waited for.
RxArpReply(h) ==
  /\ pc = "rx" /\ waiting = h
  /\ known' = known \cup {h}
  /\ NetState' = Handled(input_size)
  /\ sent' = IF parked = 0 THEN sent ELSE parked
  /\ NoWait
  /\ disturbed' = (disturbed \/ (h = "server" /\ Cut))
  /\ UNCHANGED <<ring, net_timeout, handlers, control, environment, line>>

\* No more packets, and ctrlc sees no input: tstc says so if it runs itself, or if
\* there is none.
NoCtrlC ==
  /\ pc = "rx" /\ pc' = "arp"
  /\ caller \in {"getc", "tstc"} \/ input_size = 0
  /\ UNCHANGED <<ring, net_timeout, arp, handlers, NetState, caller, environment, lines>>

\* No more packets; ctrlc reads a character, which ends the loop if it is ^C and else
\* is lost.
CtrlC ==
  /\ pc = "rx" /\ pc' \in {"arp", "fail"}
  /\ caller \in {"puts", "tftp"} /\ input_size > 0
  /\ TakeChar
  /\ net_timeout' = 0
  /\ UNCHANGED <<arp, handlers, NetState, caller, environment, lines>>

-----------------------------------------------------------------------------
(* ArpTimeoutCheck and the time handler. *)

ArpNotYet ==
  /\ pc = "arp" /\ pc' = "time"
  /\ UNCHANGED <<ring, net_timeout, arp, handlers, NetState, caller, environment, lines>>

ArpExpires ==
  /\ pc = "arp" /\ pc' = "time"
  /\ waiting # Never
  /\ IF NetArpWaitTry + 1 >= ArpTries
       THEN NetArpWaitTry' = 0 /\ StartAgain(NetState, timeHandler)
       ELSE NetArpWaitTry' = NetArpWaitTry + 1
            /\ UNCHANGED <<NetState, packetHandler, timeHandler>>
  /\ UNCHANGED <<ring, net_timeout, known, waiting, parked, TftpTimeoutCount, caller, environment,
                 lines>>

TimeNotYet ==
  /\ pc = "time" /\ pc' = "switch"
  /\ UNCHANGED <<ring, net_timeout, arp, handlers, NetState, caller, environment, lines>>

\* nc_timeout, also when it was set for an earlier loop.
NcTimeout ==
  /\ pc = "time" /\ pc' = "switch"
  /\ timeHandler = "nc" /\ timeHandler' = "none"
  /\ NetState' = "success"
  /\ disturbed' = (disturbed \/ Cut)
  /\ UNCHANGED <<ring, net_timeout, arp, packetHandler, TftpTimeoutCount, caller, environment,
                 line, sent>>

\* TftpTimeout, also when it was set for an earlier loop. Once past its limit the
\* count stays so until TftpStart.
TftpTimeout ==
  /\ pc = "time" /\ pc' = "switch"
  /\ timeHandler = "tftp"
  /\ TftpTimeoutCount' = IF TftpTimeoutCount > TftpTimeouts THEN TftpTimeoutCount
                          ELSE TftpTimeoutCount + 1
  /\ IF TftpTimeoutCount' > TftpTimeouts
       THEN StartAgain(NetState, "none") /\ UNCHANGED <<arp, sent>>
       ELSE SendTo("server") /\ UNCHANGED <<packetHandler, timeHandler, NetState>>
  /\ UNCHANGED <<ring, net_timeout, caller, environment, line, disturbed>>

StartAgainTimeout ==
  /\ pc = "time" /\ pc' = "switch"
  /\ timeHandler = "again" /\ timeHandler' = "none"
  /\ NetState' = "restart"
  /\ UNCHANGED <<ring, net_timeout, arp, packetHandler, TftpTimeoutCount, caller, environment,
                 lines>>

\* The switch at the end of an iteration.
Switch ==
  /\ pc = "switch"
  /\ pc' = IF NetState = "continue" THEN "rx" ELSE NetState
  /\ UNCHANGED <<ring, net_timeout, arp, handlers, NetState, caller, environment, lines>>

\* NetLoop returns to getc, which takes the input or calls it again. NetState is set
\* anew before it is read.
GetcReturns ==
  /\ pc \in {"success", "fail"} /\ caller = "getc"
  /\ IF input_size > 0
       THEN TakeChar /\ pc' = "idle" /\ caller' = Never
       ELSE pc' = "start" /\ UNCHANGED <<ring, caller>>
  /\ NetState' = "continue"
  /\ UNCHANGED <<net_timeout, arp, handlers, environment, lines>>

\* NetLoop returns to one of its other callers.
Returns ==
  /\ pc \in {"success", "fail"} /\ caller # "getc"
  /\ pc' = "idle" /\ caller' = Never
  /\ NetState' = "continue"
  /\ disturbed' = FALSE
  /\ UNCHANGED <<ring, net_timeout, arp, handlers, environment, line, sent>>

-----------------------------------------------------------------------------
Init ==
  /\ input_buffer = [s \in Slots |-> 0] /\ input_size = 0 /\ input_offset = 0
  /\ typed = 0 /\ taken = 0
  /\ net_timeout = 0
  /\ known = {} /\ waiting = Never /\ parked = 0 /\ NetArpWaitTry = 0
  /\ packetHandler = Never /\ timeHandler = Never /\ TftpTimeoutCount = 0
  /\ NetState = "continue"
  /\ pc = "idle" /\ caller = Never
  /\ netretry \in BOOLEAN /\ addressed \in BOOLEAN
  /\ line = 0 /\ sent = 0 /\ disturbed = FALSE

Calls == NcSetUp \/ GetcAtOnce \/ GetcWaits \/ Tstc \/ PutsAtOnce \/ PutsWaits \/ Tftp

Packets ==
  \/ \E k \in 1 .. MaxTyped : RxInput(k)
  \/ RxOther
  \/ RxTftp
  \/ \E h \in Hosts : RxArpReply(h)

Iteration ==
  \/ Start \/ NotConfigured \/ RestartUnconfigured \/ NcStartInput \/ NcStartOutput \/ TftpStart
  \/ NoCtrlC \/ CtrlC
  \/ ArpNotYet \/ ArpExpires
  \/ TimeNotYet \/ NcTimeout \/ TftpTimeout \/ StartAgainTimeout
  \/ Switch \/ GetcReturns \/ Returns

Next == Calls \/ Packets \/ Iteration

(* The program never stops and the clock does not stand still: a timer that is *)
(* not set anew expires, and the wait for an ARP reply does too unless sending *)
(* by TftpTimeout starts it over.                                              *)
Fairness ==
  /\ WF_vars(Iteration)
  /\ SF_vars(NcTimeout) /\ SF_vars(TftpTimeout) /\ SF_vars(StartAgainTimeout)
  /\ SF_vars(ArpExpires /\ timeHandler # "tftp")

Spec == Init /\ [][Next]_vars /\ Fairness

-----------------------------------------------------------------------------
(* Properties. *)

\* The types, and the bounds on the ring and on the counters of retries.
TypeOK ==
  /\ input_buffer \in [Slots -> 0 .. MaxTyped]
  /\ input_size \in 0 .. BufferSize /\ input_offset \in Slots
  /\ typed \in 0 .. MaxTyped /\ taken \in 0 .. MaxTyped
  /\ net_timeout \in {0, 1}
  /\ known \subseteq Hosts /\ waiting \in Hosts \cup {Never}
  /\ parked \in 0 .. MaxLines /\ NetArpWaitTry \in 0 .. ArpTries
  /\ NetState \in {"continue", "restart", "success", "fail"}
  /\ packetHandler \in {Never, "nc", "arp", "tftp", "again"}
  /\ timeHandler \in {Never, "nc", "tftp", "again"}
  /\ TftpTimeoutCount \in 0 .. TftpTimeouts + 1
  /\ pc \in {"idle", "start", "restart", "rx", "arp", "time", "switch", "success", "fail"}
  /\ caller \in {Never, "getc", "tstc", "puts", "tftp"} /\ (caller = Never <=> pc = "idle")
  /\ netretry \in BOOLEAN /\ addressed \in BOOLEAN /\ disturbed \in BOOLEAN
  /\ line \in 0 .. MaxLines /\ sent \in 0 .. line

(* "wait for arp reply and send packet" (nc_send_packet): when the loop of a   *)
(* puts succeeds, its line has been sent, through every retry and restart. In  *)
(* three cases the code ends the loop before the address is known, which sets  *)
(* `disturbed': nc_wait_arp_handler ends it for any UDP packet and for the ARP *)
(* reply to a TFTP packet parked over the line, a time handler left over from  *)
(* an earlier loop ends it, and on an interface without an address the         *)
(* handlers of an earlier loop do.                                             *)
LineSent == pc = "success" /\ caller = "puts" => sent = line \/ disturbed

(* A line that waits for an ARP reply is sent while its puts runs or not at    *)
(* all: puts that gives up or is aborted leaves nothing that a later loop      *)
(* sends when the reply comes at last, nor is it overwritten by that time.     *)
NoLateLine == [][sent' # sent => sent' = line' /\ (pc = "idle" \/ caller = "puts")]_vars

(* The ring of netconsole.c with its wrap-around and its cut packets, drained  *)
(* by getc and, inside a network loop, by ctrlc, is a queue of characters.     *)
Place(i) == IF input_offset + i - 1 >= BufferSize THEN input_offset + i - 1 - BufferSize
            ELSE input_offset + i - 1
Waiting == [i \in 1 .. input_size |-> input_buffer[Place(i)]]
Queue == INSTANCE CharQueue WITH Capacity <- BufferSize, queue <- Waiting
ImplementsCharQueue == Queue!Spec

(* The "kind of poll" of nc_tstc ends though no input comes: NcStart always    *)
(* has a time handler for it. On an interface without an address NcStart may   *)
(* never run: with ethrotate set to "no" NetLoop restarts on it for ever.      *)
PollReturns == (caller = "tstc" /\ addressed) ~> pc = "idle"

(* With netretry set to "no" a puts ends even if nobody answers, though its    *)
(* loop sets no timer of its own, input may be read by ctrlc meanwhile, and    *)
(* the TftpTimeout of an earlier transfer may start the ARP retries over.      *)
PutsReturns == (caller = "puts" /\ ~netretry) ~> pc = "idle"

(* getc in a network loop returns once something has been typed. On an         *)
(* interface without an address it may not: the input can come while the       *)
(* packet handler is one of an earlier loop, and the restarted NcStart waits,  *)
(* without a timer, for another packet.                                        *)
InputRead == (caller = "getc" /\ input_size > 0 /\ addressed) ~> pc = "idle"
=============================================================================
