-------------------------------- MODULE NetLoop --------------------------------
(* NetLoop and NetStartAgain of net/net.c and the choice of the network        *)
(* interface in net/eth.c, built with CONFIG_NET_MULTI: how a network command  *)
(* goes round the interfaces until one works, and when it gives up.            *)
(*                                                                             *)
(* The protocol is what NetLoop sees of it: in an iteration of the loop a      *)
(* received packet may finish the transfer or call NetStartAgain, and so may   *)
(* the protocol's time handler when its time has come. Whether the init        *)
(* function of an interface succeeds is the hardware's choice, made anew at    *)
(* each call.                                                                  *)
EXTENDS Naturals

CONSTANTS
  NDev,      \* registered interfaces, numbered in the order of the ring
  EthRotate, \* the settings of ethrotate considered: TRUE unless set to "no"
  MaxCalls   \* bound: network commands

ASSUME NDevAssumption == NDev \in Nat \ {0}
ASSUME EthRotateAssumption == EthRotate \subseteq BOOLEAN
ASSUME MaxCallsAssumption == MaxCalls \in Nat

Devices == 1 .. NDev
NULL == 0

VARIABLES
  netretry,       \* environment: "yes" (or unset), "once" or "no"
  ethrotate,      \* environment: FALSE if set to "no"
  configured,     \* the interfaces that have an ethernet address
  eth_current,
  first_failed,   \* static in eth_try_another, survives the command
  active,         \* the interfaces in ETH_STATE_ACTIVE
  NetRestartWrap, \* survives the command
  NetRestarted,
  NetDevExists,
  NetState,       \* "continue", "restart", "success" or "fail"
  timeHandler,    \* "none", "proto" or "again" (startAgainTimeout)
  pc,             \* "cmd" between commands, else the next step of NetLoop
  result,         \* history: how the last command ended
  calls,          \* commands so far
  tries,          \* history: per interface, protocol starts in this command, up to 2
  gone,           \* history: interfaces found unusable in this command
  again,          \* history: NetStartAgain was called in this iteration
  irregular       \* history: this command met one of the cases described at OnceTriesAll

config == <<netretry, ethrotate, configured>>
eth == <<eth_current, first_failed, active, NetRestartWrap>>
loop == <<NetRestarted, NetDevExists, NetState, timeHandler>>
history == <<result, calls, tries, gone, again, irregular>>
vars == <<config, eth, loop, pc, history>>

-----------------------------------------------------------------------------
(* net/eth.c *)

\* Slip: the list of interfaces is not closed to a ring.
After_Open(d, k) == d + k

\* The k-th interface after d in the ring.
After(d, k) == ((d + k - 1) % NDev) + 1

(* How many interfaces eth_init moves on from d when init succeeds just for    *)
(* the interfaces in ok. It cannot move if ethrotate is "no"; a full round     *)
(* means that no interface could be initialised.                               *)
Moves(d, ok) ==
  IF ~ethrotate THEN 0
  ELSE LET hits == {k \in 0 .. NDev - 1 : After(d, k) \in ok}
       IN  IF hits = {} THEN NDev ELSE CHOOSE k \in hits : \A j \in hits : k <= j

\* eth_init from interface d, with first_failed = ff and NetRestartWrap = wrap.
EthInit(d, ff, wrap, ok) ==
  LET k == Moves(d, ok)
  IN  [cur  |-> After(d, k),
       wrap |-> wrap \/ \E j \in 1 .. k : After(d, j) = ff,
       up   |-> {After(d, k)} \cap ok,
       down |-> {After(d, j) : j \in 0 .. k} \ ok]

\* Slip: eth_halt leaves the interface in ETH_STATE_ACTIVE.
EthHalt_Runs == active

EthHalt == active \ {eth_current}

\* Slip: the first interface that failed is noted after moving on.
EthTryAnother_Late(first_restart) ==
  LET next == After(eth_current, 1)
      ff   == IF first_restart THEN next ELSE first_failed
  IN  IF ethrotate
        THEN [cur |-> next, ff |-> ff, wrap |-> NetRestartWrap \/ ff = next]
        ELSE [cur |-> eth_current, ff |-> first_failed, wrap |-> NetRestartWrap]

\* Slip: a full round goes unnoticed.
EthTryAnother_NoWrap(first_restart) ==
  IF ethrotate
    THEN [cur |-> After(eth_current, 1), wrap |-> NetRestartWrap,
          ff |-> IF first_restart THEN eth_current ELSE first_failed]
    ELSE [cur |-> eth_current, ff |-> first_failed, wrap |-> NetRestartWrap]

\* eth_try_another moves on to the next interface and notices a full round.
EthTryAnother(first_restart) ==
  LET next == After(eth_current, 1)
      ff   == IF first_restart THEN eth_current ELSE first_failed
  IN  IF ethrotate
        THEN [cur |-> next, ff |-> ff, wrap |-> NetRestartWrap \/ ff = next]
        ELSE [cur |-> eth_current, ff |-> first_failed, wrap |-> NetRestartWrap]

-----------------------------------------------------------------------------
(* net/net.c *)

(* NetStartAgain, called in state st while th is the time handler: halt the    *)
(* interface and fail, or go on to the next one and restart at once, after     *)
(* 10 s (the state is left alone) or not at all. The result of its eth_init is *)
(* ignored.                                                                    *)
NetStartAgain(st, th, ok) ==
  /\ again' = TRUE
  /\ irregular' = (irregular \/ again)
  /\ IF netretry = "no"
       THEN /\ active' = EthHalt
            /\ NetState' = "fail" /\ timeHandler' = th
            /\ UNCHANGED <<eth_current, first_failed, NetRestartWrap, gone>>
       ELSE LET t == EthTryAnother(~NetRestarted)
                e == EthInit(t.cur, t.ff, t.wrap, ok)
            IN  /\ eth_current' = e.cur
                /\ first_failed' = t.ff
                /\ active' = EthHalt \cup e.up
                /\ gone' = gone \cup e.down
                /\ NetRestartWrap' = FALSE
                /\ \/ ~e.wrap /\ NetState' = "restart" /\ timeHandler' = th
                   \/ /\ e.wrap /\ NetDevExists /\ netretry # "once"
                      /\ NetState' = st /\ timeHandler' = "again"
                   \/ /\ e.wrap /\ (~NetDevExists \/ netretry = "once")
                      /\ NetState' = "fail" /\ timeHandler' = th
  /\ UNCHANGED <<config, NetRestarted, NetDevExists, result, calls, tries>>

\* A network command: NetLoop up to the label restart. ethact names interface d.
Command(d, ok) ==
  LET e == EthInit(d, first_failed, NetRestartWrap, ok) IN
  /\ pc = "cmd" /\ calls < MaxCalls
  /\ calls' = calls + 1
  /\ NetRestarted' = FALSE /\ NetDevExists' = FALSE
  /\ eth_current' = e.cur
  /\ NetRestartWrap' = e.wrap
  /\ active' = IF e.up = {} THEN EthHalt \ {e.cur} ELSE EthHalt \cup e.up
  /\ gone' = e.down
  /\ tries' = [i \in Devices |-> 0]
  /\ again' = FALSE
  /\ irregular' = e.wrap
  /\ IF e.up = {} THEN pc' = "cmd" /\ result' = "failed"
                  ELSE pc' = "restart" /\ result' = "none"
  /\ UNCHANGED <<config, first_failed, NetState, timeHandler>>

\* The label restart, when net_check_prereq finds an ethernet address.
Restart ==
  /\ pc = "restart" /\ eth_current \in configured
  /\ NetState' = "continue"
  /\ NetDevExists' = TRUE
  /\ timeHandler' = "proto"
  /\ tries' = [tries EXCEPT ![eth_current] = IF @ < 2 THEN @ + 1 ELSE 2]
  /\ pc' = "rx"
  /\ UNCHANGED <<config, eth, NetRestarted, result, calls, gone, again, irregular>>

\* ... when an address the protocol needs is missing from the environment, ...
NotConfigured ==
  /\ pc = "restart" /\ ~NetRestarted
  /\ NetState' = "continue"
  /\ active' = EthHalt
  /\ pc' = "cmd" /\ result' = "misconfigured"
  /\ UNCHANGED <<config, eth_current, first_failed, NetRestartWrap, NetRestarted,
                 NetDevExists, timeHandler, calls, tries, gone, again, irregular>>

\* ... and when the interface has none: it calls NetStartAgain itself.
RestartUnconfigured(ok) ==
  /\ pc = "restart" /\ eth_current \notin configured
  /\ NetStartAgain("continue", timeHandler, ok)
  /\ pc' = "rx"

\* eth_rx: nothing that changes the state of the loop, ...
RxNothing ==
  /\ pc = "rx"
  /\ pc' = "time"
  /\ UNCHANGED <<config, eth, loop, history>>

\* ... the last packet of the transfer, ...
RxSuccess ==
  /\ pc = "rx" /\ NetState = "continue" /\ timeHandler = "proto"
  /\ eth_current \in active
  /\ NetState' = "success"
  /\ pc' = "time"
  /\ UNCHANGED <<config, eth, NetRestarted, NetDevExists, timeHandler, history>>

\* ... or a packet that makes the protocol start again.
RxStartAgain(ok) ==
  /\ pc = "rx" /\ NetState = "continue" /\ timeHandler = "proto"
  /\ eth_current \in active
  /\ NetStartAgain(NetState, timeHandler, ok)
  /\ pc' = "time"

\* Ctrl-C.
Abort ==
  /\ pc = "time"
  /\ active' = EthHalt
  /\ pc' = "cmd" /\ result' = "aborted"
  /\ UNCHANGED <<config, eth_current, first_failed, NetRestartWrap, loop,
                 calls, tries, gone, again, irregular>>

\* The time handler is not due, or the protocol's sends once more.
TimeGoesOn ==
  /\ pc = "time"
  /\ pc' = "switch"
  /\ UNCHANGED <<config, eth, loop, history>>

(* The protocol's time handler gives up. The handler is cleared before the     *)
(* call. The packet that ends a transfer has set the timer anew.               *)
TimeGivesUp(ok) ==
  /\ pc = "time" /\ timeHandler = "proto" /\ NetState # "success"
  /\ NetStartAgain(NetState, "none", ok)
  /\ pc' = "switch"

StartAgainTimeout ==
  /\ pc = "time" /\ timeHandler = "again"
  /\ timeHandler' = "none"
  /\ NetState' = "restart"
  /\ pc' = "switch"
  /\ UNCHANGED <<config, eth, NetRestarted, NetDevExists, history>>

\* switch (NetState)
SwitchContinue ==
  /\ pc = "switch" /\ NetState = "continue"
  /\ pc' = "rx"
  /\ again' = FALSE
  /\ UNCHANGED <<config, eth, loop, result, calls, tries, gone, irregular>>

\* Slip: each restart counts as the first.
SwitchRestart_First ==
  /\ pc = "switch" /\ NetState = "restart"
  /\ NetRestarted' = FALSE
  /\ pc' = "restart"
  /\ again' = FALSE
  /\ UNCHANGED <<config, eth, NetDevExists, NetState, timeHandler, result, calls,
                 tries, gone, irregular>>

SwitchRestart ==
  /\ pc = "switch" /\ NetState = "restart"
  /\ NetRestarted' = TRUE
  /\ pc' = "restart"
  /\ again' = FALSE
  /\ UNCHANGED <<config, eth, NetDevExists, NetState, timeHandler, result, calls,
                 tries, gone, irregular>>

\* Success halts the interface; failure leaves that to NetStartAgain.
SwitchReturn ==
  /\ pc = "switch" /\ NetState \in {"success", "fail"}
  /\ active' = IF NetState = "success" THEN EthHalt ELSE active
  /\ result' = IF NetState = "success" THEN "success" ELSE "failed"
  /\ pc' = "cmd"
  /\ UNCHANGED <<config, eth_current, first_failed, NetRestartWrap, loop,
                 calls, tries, gone, again, irregular>>

Init ==
  /\ netretry \in {"yes", "once", "no"}
  /\ ethrotate \in EthRotate
  /\ configured \in SUBSET Devices
  /\ eth_current = 1 /\ first_failed = NULL /\ active = {}
  /\ NetRestartWrap = FALSE /\ NetRestarted = FALSE /\ NetDevExists = FALSE
  /\ NetState = "continue" /\ timeHandler = "none"
  /\ pc = "cmd" /\ result = "none" /\ calls = 0
  /\ tries = [i \in Devices |-> 0] /\ gone = {}
  /\ again = FALSE /\ irregular = FALSE

GiveUp == \E ok \in SUBSET Devices : TimeGivesUp(ok)

Next ==
  \/ \E ok \in SUBSET Devices :
       \/ \E d \in Devices : Command(d, ok)
       \/ RestartUnconfigured(ok) \/ RxStartAgain(ok) \/ TimeGivesUp(ok)
  \/ Restart \/ NotConfigured \/ RxNothing \/ RxSuccess \/ Abort
  \/ TimeGoesOn \/ StartAgainTimeout
  \/ SwitchContinue \/ SwitchRestart \/ SwitchReturn

Unconfigured == \E ok \in SUBSET Devices : RestartUnconfigured(ok)
Switch == SwitchContinue \/ SwitchRestart \/ SwitchReturn

\* The loop runs, and its timers come due.
Fairness ==
  /\ WF_vars(Restart) /\ WF_vars(Unconfigured)
  /\ WF_vars(RxNothing) /\ WF_vars(TimeGoesOn) /\ WF_vars(Switch)
  /\ SF_vars(GiveUp) /\ SF_vars(StartAgainTimeout)

Spec == Init /\ [][Next]_vars /\ Fairness

-----------------------------------------------------------------------------
(* Properties. *)

\* Type invariant of the loop and the interfaces.
TypeOK ==
  /\ netretry \in {"yes", "once", "no"} /\ ethrotate \in BOOLEAN
  /\ configured \subseteq Devices /\ active \subseteq Devices /\ gone \subseteq Devices
  /\ eth_current \in Devices /\ first_failed \in Devices \cup {NULL}
  /\ NetRestartWrap \in BOOLEAN /\ NetRestarted \in BOOLEAN /\ NetDevExists \in BOOLEAN
  /\ NetState \in {"continue", "restart", "success", "fail"}
  /\ timeHandler \in {"none", "proto", "again"}
  /\ pc \in {"cmd", "restart", "rx", "time", "switch"}
  /\ result \in {"none", "failed", "misconfigured", "aborted", "success"}
  /\ calls \in 0 .. MaxCalls
  /\ tries \in [Devices -> 0 .. 2]
  /\ again \in BOOLEAN /\ irregular \in BOOLEAN

(* However the loop moves from one interface to another, at most the current   *)
(* one is active: no interface keeps receiving into the shared buffers after   *)
(* eth_current has left it.                                                    *)
ActiveIsCurrent == active \subseteq {eth_current}

(* With netretry=once a command fails only when every interface with an        *)
(* address was tried or could not be initialised -- unless the command began   *)
(* with NetRestartWrap already set, by an earlier command's first_failed, or   *)
(* NetStartAgain was called twice in one iteration.                            *)
OnceTriesAll ==
  (pc = "cmd" /\ result = "failed" /\ netretry = "once" /\ ethrotate /\ ~irregular)
     => \A d \in configured : tries[d] > 0 \/ d \in gone

(* "the network operation will fail when all the available network interfaces  *)
(* are tried once without success" (README, netretry=once): no interface is    *)
(* tried a second time by one command. It need not even be an irregular one.   *)
TriedOnce == (netretry = "once" /\ ~irregular) => \A d \in Devices : tries[d] < 2

\* NetStartAgain keeps to that when it may rotate between the interfaces.
RoundTriesOnce == ethrotate => TriedOnce

(* With netretry=no, and with netretry=once if interfaces rotate, every        *)
(* command returns.                                                            *)
CommandReturns ==
  (netretry = "no" \/ (netretry = "once" /\ ethrotate)) => []<>(pc = "cmd" \/ irregular)
=============================================================================
