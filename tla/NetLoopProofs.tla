----------------------------- MODULE NetLoopProofs -----------------------------
(* Three facts about the network loop, for every number of interfaces, every   *)
(* setting of netretry and ethrotate and every behaviour of the hardware.      *)
(*                                                                             *)
(* At most the current interface is active. That is inductive as it stands:    *)
(* every way off an interface passes through eth_halt, which under the         *)
(* invariant leaves no interface active, and eth_init makes active at most the *)
(* interface it makes current.                                                 *)
(*                                                                             *)
(* With netretry=once a failed command has tried every interface, and none     *)
(* twice. Neither is inductive: both rest on where on the ring the loop is and *)
(* on what it has left behind (RoundInv).                                      *)
EXTENDS NetLoop, LeastElement

\* eth_halt: under the invariant the only active interface is halted.
LEMMA HaltHaltsAll == ActiveIsCurrent => EthHalt = {}
  BY DEF ActiveIsCurrent, EthHalt

\* eth_init: wherever the search ends, only that interface can be up.
LEMMA InitStartsOne ==
  ASSUME NEW d, NEW ff, NEW wrap, NEW ok
  PROVE  EthInit(d, ff, wrap, ok).up \subseteq {EthInit(d, ff, wrap, ok).cur}
  BY DEF EthInit

\* NetStartAgain halts the current interface before it moves on.
LEMMA StartAgainKeeps ==
  ASSUME NEW st, NEW th, NEW ok, ActiveIsCurrent, NetStartAgain(st, th, ok)
  PROVE  ActiveIsCurrent'
<1>1. CASE netretry = "no"
  <2>1. active' = EthHalt
    BY <1>1 DEF NetStartAgain
  <2> QED
    BY <2>1, HaltHaltsAll DEF ActiveIsCurrent
<1>2. CASE netretry # "no"
  <2> DEFINE t == EthTryAnother(~NetRestarted)
             e == EthInit(t.cur, t.ff, t.wrap, ok)
  <2>1. eth_current' = e.cur /\ active' = EthHalt \cup e.up
    BY <1>2 DEF NetStartAgain
  <2>2. e.up \subseteq {e.cur}
    BY InitStartsOne
  <2> HIDE DEF e
  <2> QED
    BY <2>1, <2>2, HaltHaltsAll DEF ActiveIsCurrent
<1> QED
  BY <1>1, <1>2

\* A command starts the interface that ethact names, or the first after it.
LEMMA CommandKeeps ==
  ASSUME NEW d, NEW ok, ActiveIsCurrent, Command(d, ok)
  PROVE  ActiveIsCurrent'
<1> DEFINE e == EthInit(d, first_failed, NetRestartWrap, ok)
<1>1. /\ eth_current' = e.cur
      /\ active' = IF e.up = {} THEN EthHalt \ {e.cur} ELSE EthHalt \cup e.up
  BY DEF Command
<1>2. e.up \subseteq {e.cur}
  BY InitStartsOne
<1> HIDE DEF e
<1> QED
  BY <1>1, <1>2, HaltHaltsAll DEF ActiveIsCurrent

\* No step of NetLoop makes a second interface active.
LEMMA StepKeeps == ActiveIsCurrent /\ [Next]_vars => ActiveIsCurrent'
<1> SUFFICES ASSUME ActiveIsCurrent, [Next]_vars PROVE ActiveIsCurrent'
  OBVIOUS
<1>1. ASSUME NEW ok \in SUBSET Devices, NEW d \in Devices, Command(d, ok)
      PROVE  ActiveIsCurrent'
  BY <1>1, CommandKeeps
<1>2. ASSUME NEW ok \in SUBSET Devices, RestartUnconfigured(ok) PROVE ActiveIsCurrent'
  BY <1>2, StartAgainKeeps DEF RestartUnconfigured
<1>3. ASSUME NEW ok \in SUBSET Devices, RxStartAgain(ok) PROVE ActiveIsCurrent'
  BY <1>3, StartAgainKeeps DEF RxStartAgain
<1>4. ASSUME NEW ok \in SUBSET Devices, TimeGivesUp(ok) PROVE ActiveIsCurrent'
  BY <1>4, StartAgainKeeps DEF TimeGivesUp
<1>5. CASE Restart
  BY <1>5 DEF Restart, eth, ActiveIsCurrent
<1>6. CASE RxNothing \/ RxSuccess \/ TimeGoesOn \/ StartAgainTimeout
  BY <1>6 DEF RxNothing, RxSuccess, TimeGoesOn, StartAgainTimeout, eth, ActiveIsCurrent
<1>7. CASE Abort
  BY <1>7 DEF Abort, EthHalt, ActiveIsCurrent
<1>8. CASE SwitchContinue \/ SwitchRestart
  BY <1>8 DEF SwitchContinue, SwitchRestart, eth, ActiveIsCurrent
<1>9. CASE SwitchReturn
  BY <1>9 DEF SwitchReturn, EthHalt, ActiveIsCurrent
<1>10. CASE NotConfigured
  BY <1>10 DEF NotConfigured, EthHalt, ActiveIsCurrent
<1>11. CASE UNCHANGED vars
  BY <1>11 DEF vars, eth, ActiveIsCurrent
<1> QED
  BY <1>1, <1>2, <1>3, <1>4, <1>5, <1>6, <1>7, <1>8, <1>9, <1>10, <1>11 DEF Next

(* Whatever interfaces a command goes through -- unconfigured ones, ones whose *)
(* init function fails, ones that time out -- and however it ends, NetLoop     *)
(* never leaves an interface active that eth_current has moved away from.      *)
THEOREM OneActive == Spec => []ActiveIsCurrent
<1>1. Init => ActiveIsCurrent
  BY DEF Init, ActiveIsCurrent
<1>2. ActiveIsCurrent /\ [Next]_vars => ActiveIsCurrent'
  BY StepKeeps
<1> QED
  BY <1>1, <1>2, PTL DEF Spec

-----------------------------------------------------------------------------
(* The ring of interfaces. *)

\* Within one round the modulus of After is a subtraction.
LEMMA AfterIs ==
  ASSUME NEW d \in Devices, NEW k \in 0 .. NDev
  PROVE  After(d, k) = IF d + k <= NDev THEN d + k ELSE d + k - NDev
<1>1. ASSUME NEW a \in Nat, a < NDev
      PROVE  a % NDev = a
  BY <1>1, NDevAssumption
<1>2. ASSUME NEW a \in Nat, a >= NDev, a < NDev + NDev
      PROVE  a % NDev = a - NDev
  BY <1>2, NDevAssumption
<1> QED
  BY <1>1, <1>2, NDevAssumption DEF After, Devices

\* The ring holds nothing but interfaces.
LEMMA AfterType ==
  ASSUME NEW d \in Devices, NEW k \in 0 .. NDev
  PROVE  After(d, k) \in Devices
  BY AfterIs, NDevAssumption DEF Devices

\* Going on from a place on the ring.
LEMMA AfterAfter ==
  ASSUME NEW d \in Devices, NEW n \in 0 .. NDev, NEW k \in 0 .. NDev, n + k <= NDev
  PROVE  After(After(d, n), k) = After(d, n + k)
<1>1. n + k \in 0 .. NDev
  BY NDevAssumption
<1>2. PICK c \in Devices : c = After(d, n)
  BY AfterType
<1>3. c = IF d + n <= NDev THEN d + n ELSE d + n - NDev
  BY <1>2, AfterIs
<1>4. After(c, k) = IF c + k <= NDev THEN c + k ELSE c + k - NDev
  BY AfterIs
<1>5. After(d, n + k) = IF d + (n + k) <= NDev THEN d + (n + k) ELSE d + (n + k) - NDev
  BY <1>1, AfterIs
<1> QED
  BY <1>2, <1>3, <1>4, <1>5, NDevAssumption DEF Devices

\* Every interface is somewhere on the ring, in one place.
LEMMA AfterCovers ==
  ASSUME NEW d \in Devices, NEW x \in Devices
  PROVE  \E k \in 0 .. NDev - 1 : After(d, k) = x
<1>1. CASE d <= x
  <2>1. x - d \in 0 .. NDev - 1 /\ After(d, x - d) = x
    BY <1>1, AfterIs, NDevAssumption DEF Devices
  <2> QED
    BY <2>1
<1>2. CASE d > x
  <2>1. x - d + NDev \in 0 .. NDev - 1 /\ After(d, x - d + NDev) = x
    BY <1>2, AfterIs, NDevAssumption DEF Devices
  <2> QED
    BY <2>1
<1> QED
  BY <1>1, <1>2, NDevAssumption DEF Devices

\* No interface comes twice in one round.
LEMMA AfterInjective ==
  ASSUME NEW d \in Devices, NEW i \in 0 .. NDev - 1, NEW j \in 0 .. NDev - 1, i # j
  PROVE  After(d, i) # After(d, j)
  BY AfterIs, NDevAssumption DEF Devices

\* A round ends where it began.
LEMMA AfterRound ==
  ASSUME NEW d \in Devices
  PROVE  After(d, 0) = d /\ After(d, NDev) = d
  BY AfterIs, NDevAssumption DEF Devices

\* eth_init goes past the interfaces that cannot be initialised, a round at most.
LEMMA MovesIs ==
  ASSUME NEW d \in Devices, NEW ok, ethrotate
  PROVE  /\ Moves(d, ok) \in 0 .. NDev
         /\ \A j \in 0 .. Moves(d, ok) - 1 : After(d, j) \notin ok
         /\ Moves(d, ok) < NDev => After(d, Moves(d, ok)) \in ok
<1> DEFINE hits == {k \in 0 .. NDev - 1 : After(d, k) \in ok}
<1>1. Moves(d, ok) = IF hits = {} THEN NDev ELSE CHOOSE k \in hits : \A j \in hits : k <= j
  BY DEF Moves
<1>2. CASE hits = {}
  BY <1>1, <1>2, NDevAssumption
<1>3. CASE hits # {}
  <2>1. \E k \in hits : \A j \in hits : k <= j
    <3>1. hits \in SUBSET Nat
      BY NDevAssumption
    <3> HIDE DEF hits
    <3> QED
      BY <1>3, <3>1, HasLeast
  <2>2. Moves(d, ok) \in hits /\ \A j \in hits : Moves(d, ok) <= j
    BY <1>1, <1>3, <2>1
  <2> QED
    BY <2>2, NDevAssumption
<1> QED
  BY <1>2, <1>3

\* ... also when it may not move at all.
LEMMA MovesType ==
  ASSUME NEW d \in Devices, NEW ok
  PROVE  Moves(d, ok) \in 0 .. NDev
<1>1. CASE ethrotate
  BY <1>1, MovesIs
<1>2. CASE ~ethrotate
  BY <1>2, NDevAssumption DEF Moves
<1> QED
  BY <1>1, <1>2

\* eth_init ends on an interface, and finds no others to be up or down.
LEMMA EthInitType ==
  ASSUME NEW d \in Devices, NEW ff, NEW wrap \in BOOLEAN, NEW ok \in SUBSET Devices
  PROVE  LET e == EthInit(d, ff, wrap, ok)
         IN  /\ e.cur \in Devices /\ e.wrap \in BOOLEAN
             /\ e.up \subseteq Devices /\ e.down \subseteq Devices
<1>1. Moves(d, ok) \in 0 .. NDev
  BY MovesType
<1>2. \A j \in 0 .. Moves(d, ok) : j \in 0 .. NDev
  BY <1>1, NDevAssumption
<1> QED
  BY <1>1, <1>2, AfterType DEF EthInit

-----------------------------------------------------------------------------
(* Types. *)

\* The values of NetState and of the time handler.
States == {"continue", "restart", "success", "fail"}
Handlers == {"none", "proto", "again"}

\* eth_try_another moves to an interface, or stays.
LEMMA TryAnotherType ==
  ASSUME TypeOK, NEW first \in BOOLEAN
  PROVE  LET t == EthTryAnother(first)
         IN  t.cur \in Devices /\ t.ff \in Devices \cup {NULL} /\ t.wrap \in BOOLEAN
<1>1. After(eth_current, 1) \in Devices
  BY AfterType, NDevAssumption DEF TypeOK
<1> QED
  BY <1>1 DEF EthTryAnother, TypeOK

\* NetStartAgain, wherever it is called.
LEMMA StartAgainType ==
  ASSUME TypeOK, NEW st \in States, NEW th \in Handlers, NEW ok \in SUBSET Devices,
         NetStartAgain(st, th, ok)
  PROVE  /\ eth_current' \in Devices /\ first_failed' \in Devices \cup {NULL}
         /\ active' \subseteq Devices /\ gone' \subseteq Devices
         /\ NetRestartWrap' \in BOOLEAN
         /\ NetState' \in States /\ timeHandler' \in Handlers
         /\ again' \in BOOLEAN /\ irregular' \in BOOLEAN
         /\ UNCHANGED <<config, NetRestarted, NetDevExists, result, calls, tries>>
<1>1. again' \in BOOLEAN /\ irregular' \in BOOLEAN
  BY DEF NetStartAgain, TypeOK
<1>2. UNCHANGED <<config, NetRestarted, NetDevExists, result, calls, tries>>
  BY DEF NetStartAgain
<1>3. EthHalt \subseteq Devices
  BY DEF EthHalt, TypeOK
<1>4. CASE netretry = "no"
  BY <1>1, <1>2, <1>3, <1>4 DEF NetStartAgain, TypeOK, States
<1>5. CASE netretry # "no"
  <2> DEFINE t == EthTryAnother(~NetRestarted)
             e == EthInit(t.cur, t.ff, t.wrap, ok)
  <2>1. t.cur \in Devices /\ t.ff \in Devices \cup {NULL} /\ t.wrap \in BOOLEAN
    BY TryAnotherType DEF TypeOK
  <2>2. /\ e.cur \in Devices /\ e.wrap \in BOOLEAN
        /\ e.up \subseteq Devices /\ e.down \subseteq Devices
    <3> HIDE DEF t
    <3> QED
      BY <2>1, EthInitType
  <2>3. /\ eth_current' = e.cur /\ first_failed' = t.ff
        /\ active' = EthHalt \cup e.up /\ gone' = gone \cup e.down
        /\ NetRestartWrap' = FALSE
        /\ NetState' \in {"restart", st, "fail"} /\ timeHandler' \in {th, "again"}
    BY <1>5 DEF NetStartAgain
  <2> HIDE DEF t, e
  <2> QED
    BY <1>1, <1>2, <1>3, <2>1, <2>2, <2>3 DEF TypeOK, States, Handlers
<1> QED
  BY <1>4, <1>5

\* A command begins with the counts of a new one.
LEMMA CommandType ==
  ASSUME TypeOK, NEW d \in Devices, NEW ok \in SUBSET Devices, Command(d, ok)
  PROVE  TypeOK'
<1> DEFINE e == EthInit(d, first_failed, NetRestartWrap, ok)
<1>1. /\ e.cur \in Devices /\ e.wrap \in BOOLEAN
      /\ e.up \subseteq Devices /\ e.down \subseteq Devices
  BY EthInitType DEF TypeOK
<1>2. /\ NetRestarted' = FALSE /\ NetDevExists' = FALSE
      /\ eth_current' = e.cur /\ NetRestartWrap' = e.wrap
      /\ active' = IF e.up = {} THEN EthHalt \ {e.cur} ELSE EthHalt \cup e.up
      /\ gone' = e.down /\ again' = FALSE /\ irregular' = e.wrap
      /\ pc' \in {"cmd", "restart"} /\ result' \in {"failed", "none"}
      /\ UNCHANGED <<config, first_failed, NetState, timeHandler>>
  BY DEF Command
<1>3. calls' \in 0 .. MaxCalls /\ tries' \in [Devices -> 0 .. 2]
  BY MaxCallsAssumption DEF Command, TypeOK
<1> HIDE DEF e
<1> QED
  BY <1>1, <1>2, <1>3 DEF TypeOK, EthHalt, config

\* Every step of NetLoop keeps the types.
LEMMA StepTypes == TypeOK /\ [Next]_vars => TypeOK'
<1> SUFFICES ASSUME TypeOK, [Next]_vars PROVE TypeOK'
  OBVIOUS
<1>1. ASSUME NEW ok \in SUBSET Devices, NEW d \in Devices, Command(d, ok)
      PROVE  TypeOK'
  BY <1>1, CommandType
<1>2. ASSUME NEW ok \in SUBSET Devices, RestartUnconfigured(ok) PROVE TypeOK'
  <2>1. NetStartAgain("continue", timeHandler, ok) /\ pc' = "rx"
    BY <1>2 DEF RestartUnconfigured
  <2> QED
    BY <2>1, StartAgainType DEF TypeOK, States, Handlers, config
<1>3. ASSUME NEW ok \in SUBSET Devices, RxStartAgain(ok) PROVE TypeOK'
  <2>1. NetStartAgain(NetState, timeHandler, ok) /\ pc' = "time"
    BY <1>3 DEF RxStartAgain
  <2> QED
    BY <2>1, StartAgainType DEF TypeOK, States, Handlers, config
<1>4. ASSUME NEW ok \in SUBSET Devices, TimeGivesUp(ok) PROVE TypeOK'
  <2>1. NetStartAgain(NetState, "none", ok) /\ pc' = "switch"
    BY <1>4 DEF TimeGivesUp
  <2> QED
    BY <2>1, StartAgainType DEF TypeOK, States, Handlers, config
<1>5. CASE Restart
  <2>1. tries' \in [Devices -> 0 .. 2]
    BY <1>5 DEF Restart, TypeOK
  <2> QED
    BY <1>5, <2>1 DEF Restart, TypeOK, config, eth
<1>6. CASE NotConfigured
  BY <1>6 DEF NotConfigured, EthHalt, TypeOK, config
<1>7. CASE RxNothing \/ RxSuccess \/ TimeGoesOn \/ StartAgainTimeout
  BY <1>7 DEF RxNothing, RxSuccess, TimeGoesOn, StartAgainTimeout, TypeOK, config, eth,
              loop, history
<1>8. CASE Abort
  BY <1>8 DEF Abort, EthHalt, TypeOK, config, loop
<1>9. CASE SwitchContinue \/ SwitchRestart
  BY <1>9 DEF SwitchContinue, SwitchRestart, TypeOK, config, eth, loop
<1>10. CASE SwitchReturn
  BY <1>10 DEF SwitchReturn, EthHalt, TypeOK, config, loop
<1>11. CASE UNCHANGED vars
  BY <1>11 DEF vars, TypeOK, config, eth, loop, history
<1> QED
  BY <1>1, <1>2, <1>3, <1>4, <1>5, <1>6, <1>7, <1>8, <1>9, <1>10, <1>11 DEF Next

(* The variables of net/net.c and net/eth.c keep to their ranges: eth_current  *)
(* is a registered interface wherever eth_init and eth_try_another end.        *)
THEOREM TypeCorrect == Spec => []TypeOK
<1>1. Init => TypeOK
  <2> SUFFICES ASSUME Init PROVE TypeOK
    OBVIOUS
  <2>1. tries \in [Devices -> 0 .. 2]
    BY DEF Init
  <2>2. calls \in 0 .. MaxCalls /\ eth_current \in Devices /\ ethrotate \in BOOLEAN
    BY NDevAssumption, EthRotateAssumption, MaxCallsAssumption DEF Init, Devices
  <2> QED
    BY <2>1, <2>2 DEF Init, TypeOK
<1> QED
  BY <1>1, StepTypes, PTL DEF Spec

-----------------------------------------------------------------------------
(* One round of the interfaces. *)

\* What OnceTriesAll asks for an interface with an address, and for all of them.
Covered(x) == tries[x] > 0 \/ x \in gone
AllCovered == \A x \in configured : Covered(x)

(* The interface the round began with. NetStartAgain notes it in first_failed  *)
(* when it is called for the first time in a command.                          *)
Moved == NetRestarted \/ again
Origin == IF Moved THEN first_failed ELSE eth_current

\* The current interface has been reached but no transfer started on it yet.
Untried == pc = "restart" \/ again

(* The round has come to the n-th interface after its origin: those before it  *)
(* are covered and those after it untried.                                     *)
Reached(n) ==
  /\ After(Origin, n) = eth_current
  /\ \A j \in 0 .. n - 1 : After(Origin, j) \in configured => Covered(After(Origin, j))
  /\ \A j \in n + 1 .. NDev - 1 : tries[After(Origin, j)] = 0
  /\ Untried <=> tries[eth_current] = 0

Ended == pc # "restart" /\ NetState = "fail"

(* During a command: the round is somewhere short of its origin, or it is over *)
(* and NetState tells the loop to fail.                                        *)
Running ==
  /\ ~NetRestartWrap
  /\ Moved => first_failed \in Devices
  /\ IF pc = "restart" THEN ~again ELSE (again <=> NetState \in {"restart", "fail"})
  /\ IF Ended THEN AllCovered ELSE \E n \in 0 .. NDev - 1 : Reached(n)

\* A command that met none of the cases described at OnceTriesAll.
Regular ==
  /\ \A x \in Devices : tries[x] < 2
  /\ pc = "cmd" /\ result = "failed" => AllCovered
  /\ pc # "cmd" => Running

(* The inductive invariant. With netretry=once the loop never waits to start   *)
(* again, so that every restart comes from a call of NetStartAgain.            *)
RoundInv ==
  (netretry = "once" /\ ethrotate) => timeHandler # "again" /\ (~irregular => Regular)

(* NetStartAgain with netretry=once, called once in an iteration, when the     *)
(* current interface has been tried or has no address: the round goes on, or   *)
(* comes to its origin, every interface is covered and the command fails.      *)
LEMMA StartAgainGoesRound ==
  ASSUME TypeOK, NEW st \in States, NEW th \in Handlers, NEW ok \in SUBSET Devices,
         NetStartAgain(st, th, ok), ~again, ~NetRestartWrap,
         netretry = "once", ethrotate, th # "again",
         Moved => first_failed \in Devices,
         NEW n \in 0 .. NDev - 1, Reached(n), 
         eth_current \in configured => tries[eth_current] > 0
  PROVE  /\ ~NetRestartWrap' /\ timeHandler' # "again" /\ again'
         /\ \E f \in Devices :
              /\ first_failed' = f
              /\ \/ NetState' = "fail" /\ AllCovered'
                 \/ /\ NetState' = "restart"
                    /\ \E m \in 0 .. NDev - 1 :
                         /\ After(f, m) = eth_current'
                         /\ \A j \in 0 .. m - 1 :
                              After(f, j) \in configured' => Covered(After(f, j))'
                         /\ \A j \in m .. NDev - 1 : tries'[After(f, j)] = 0
<1>1. PICK f \in Devices : f = IF NetRestarted THEN first_failed ELSE eth_current
  BY DEF TypeOK, Moved
<1> DEFINE t == EthTryAnother(~NetRestarted)
           e == EthInit(t.cur, t.ff, t.wrap, ok)
           k == Moves(t.cur, ok)
<1>a. f = Origin
  BY <1>1 DEF Moved, Origin
<1>2. eth_current = After(f, n)
  BY <1>a DEF Reached
<1>3. t.cur = After(eth_current, 1) /\ t.ff = f /\ (t.wrap <=> f = After(eth_current, 1))
  BY <1>1 DEF EthTryAnother
<1>4. t.cur = After(f, n + 1) /\ t.cur \in Devices
  BY <1>1, <1>2, <1>3, AfterAfter, AfterType, NDevAssumption
<1>5. /\ k \in 0 .. NDev
      /\ \A j \in 0 .. k - 1 : After(t.cur, j) \notin ok
  BY <1>4, MovesIs
<1>6. /\ e.cur = After(t.cur, k)
      /\ e.wrap <=> (t.wrap \/ \E j \in 1 .. k : After(t.cur, j) = f)
      /\ e.down = {After(t.cur, j) : j \in 0 .. k} \ ok
  BY <1>3 DEF EthInit
<1>7. /\ eth_current' = e.cur /\ first_failed' = f /\ NetRestartWrap' = FALSE /\ again' = TRUE
      /\ gone' = gone \cup e.down /\ tries' = tries /\ configured' = configured
      /\ \/ ~e.wrap /\ NetState' = "restart" /\ timeHandler' = th
         \/ e.wrap /\ NetState' = "fail" /\ timeHandler' = th
  BY <1>3 DEF NetStartAgain, config
\* The interfaces before the current one, and the current one, are covered.
<1>8. \A j \in 0 .. n : After(f, j) \in configured' => Covered(After(f, j))'
  BY <1>1, <1>a, <1>2, <1>7 DEF Reached, Covered
\* So are those that eth_init goes past.
<1>9. ASSUME NEW j \in n + 1 .. NDev - 1, j < n + 1 + k
      PROVE  After(f, j) \in gone'
  <2>1. PICK i \in 0 .. k - 1 : n + 1 + i = j
    <3>1. j - (n + 1) \in 0 .. k - 1 /\ n + 1 + (j - (n + 1)) = j
      BY <1>5, <1>9, NDevAssumption
    <3> QED
      BY <3>1
  <2>2. i \in 0 .. k /\ i \in 0 .. NDev /\ n + 1 \in 0 .. NDev /\ n + 1 + i <= NDev
    BY <1>5, <2>1, NDevAssumption
  <2>3. After(f, j) = After(t.cur, i)
    BY <1>4, <2>1, <2>2, AfterAfter
  <2> QED
    BY <2>1, <2>2, <2>3, <1>5, <1>6, <1>7
<1> HIDE DEF t, e, k
<1>10. CASE n + 1 + k < NDev
  <2>1. PICK m \in 0 .. NDev - 1 : m = n + 1 + k
    BY <1>5, <1>10, NDevAssumption
  <2>3. eth_current' = After(f, m)
    <3>1. n + 1 \in 0 .. NDev /\ n + 1 + k <= NDev
      BY <2>1, <1>5, NDevAssumption
    <3> QED
      BY <3>1, <2>1, <1>4, <1>5, <1>6, <1>7, AfterAfter
  <2>2. ~e.wrap
    <3>1. t.cur # f
      <4>1. n + 1 \in 0 .. NDev - 1 /\ 0 \in 0 .. NDev - 1 /\ n + 1 # 0
        BY <1>5, <1>10, NDevAssumption
      <4> QED
        BY <4>1, <1>1, <1>4, AfterInjective, AfterRound
    <3>2. ASSUME NEW j \in 1 .. k PROVE After(t.cur, j) # f
      <4>1. n + 1 + j \in 0 .. NDev - 1 /\ 0 \in 0 .. NDev - 1 /\ n + 1 + j # 0 /\ j \in 0 .. NDev
        BY <1>5, <1>10, NDevAssumption
      <4>2. After(t.cur, j) = After(f, n + 1 + j)
        <5>1. n + 1 \in 0 .. NDev /\ n + 1 + j <= NDev
          BY <4>1, NDevAssumption
        <5> QED
          BY <4>1, <5>1, <1>4, AfterAfter
      <4> QED
        BY <4>1, <4>2, <1>1, AfterInjective, AfterRound
    <3> QED
      BY <3>1, <3>2, <1>3, <1>6
  <2>4. \A j \in 0 .. m - 1 : After(f, j) \in configured' => Covered(After(f, j))'
    <3> TAKE j \in 0 .. m - 1
    <3>1. CASE j \in 0 .. n
      BY <3>1, <1>8
    <3>2. CASE j \notin 0 .. n
      <4>1. j \in n + 1 .. NDev - 1 /\ j < n + 1 + k
        BY <3>2, <2>1, <1>5, NDevAssumption
      <4> QED
        BY <4>1, <1>9 DEF Covered
    <3> QED
      BY <3>1, <3>2
  <2>5. \A j \in m .. NDev - 1 : tries'[After(f, j)] = 0
    <3> TAKE j \in m .. NDev - 1
    <3>1. j \in n + 1 .. NDev - 1
      BY <2>1, <1>5
    <3> QED
      BY <3>1, <1>a, <1>7 DEF Reached
  <2> QED
    BY <1>7, <2>2, <2>3, <2>4, <2>5
<1>11. CASE n + 1 + k >= NDev
  <2>1. e.wrap
    <3>1. CASE n + 1 = NDev
      BY <3>1, <1>1, <1>3, <1>4, <1>6, AfterRound
    <3>2. CASE n + 1 # NDev
      <4>1. NDev - (n + 1) \in 1 .. k /\ NDev - (n + 1) \in 0 .. NDev /\ n + 1 \in 0 .. NDev
            /\ n + 1 + (NDev - (n + 1)) = NDev
        BY <3>2, <1>5, <1>11, NDevAssumption
      <4>2. After(t.cur, NDev - (n + 1)) = f
        BY <4>1, <1>1, <1>4, AfterAfter, AfterRound, NDevAssumption
      <4> QED
        BY <4>1, <4>2, <1>6
    <3> QED
      BY <3>1, <3>2
  <2>2. \A x \in configured' : Covered(x)'
    <3> TAKE x \in configured'
    <3>1. PICK j \in 0 .. NDev - 1 : After(f, j) = x
      BY <1>1, <1>7, AfterCovers DEF TypeOK
    <3>2. CASE j <= n
      BY <3>1, <3>2, <1>8
    <3>3. CASE j > n
      <4>1. j \in n + 1 .. NDev - 1 /\ j < n + 1 + k
        BY <3>3, <1>5, <1>11, NDevAssumption
      <4> QED
        BY <4>1, <3>1, <1>9 DEF Covered
    <3> QED
      BY <3>2, <3>3
  <2> QED
    BY <1>1, <1>7, <2>1, <2>2 DEF AllCovered
<1> QED
  BY <1>5, <1>10, <1>11, NDevAssumption

\* Each of the three callers of NetStartAgain calls it that way.
LEMMA StartAgainKeepsRound ==
  ASSUME TypeOK, RoundInv, netretry = "once", ethrotate, pc # "cmd",
         pc = "restart" => eth_current \notin configured,
         NEW st \in States, NEW th \in {"none", timeHandler}, NEW ok \in SUBSET Devices,
         NetStartAgain(st, th, ok), pc' \in {"rx", "time", "switch"}
  PROVE  RoundInv'
<1>1. timeHandler' # "again"
  BY DEF NetStartAgain, RoundInv
<1>2. CASE irregular'
  BY <1>1, <1>2 DEF RoundInv
<1>3. CASE ~irregular'
  <2>1. ~irregular /\ ~again
    BY <1>3 DEF NetStartAgain
  <2>2. Regular /\ Running /\ th # "again"
    BY <2>1 DEF RoundInv, Regular
  <2>3. ~Ended
    BY <2>1, <2>2 DEF Running, Ended
  <2>4. PICK n \in 0 .. NDev - 1 : Reached(n)
    BY <2>2, <2>3 DEF Running
  <2>5. eth_current \in configured => tries[eth_current] > 0
    BY <2>1, <2>4 DEF Reached, Untried, TypeOK
  <2>6. th \in Handlers /\ ~NetRestartWrap /\ (Moved => first_failed \in Devices)
    BY <2>2 DEF Handlers, TypeOK, Running
  <2>7. PICK f \in Devices :
          /\ ~NetRestartWrap' /\ again' /\ first_failed' = f
          /\ \/ NetState' = "fail" /\ AllCovered'
             \/ /\ NetState' = "restart"
                /\ \E m \in 0 .. NDev - 1 :
                     /\ After(f, m) = eth_current'
                     /\ \A j \in 0 .. m - 1 :
                          After(f, j) \in configured' => Covered(After(f, j))'
                     /\ \A j \in m .. NDev - 1 : tries'[After(f, j)] = 0
    BY <2>1, <2>2, <2>4, <2>5, <2>6, StartAgainGoesRound
  <2>8. Origin' = f /\ Untried' /\ Moved'
    BY <2>7 DEF Origin, Untried, Moved
  <2>9. \A x \in Devices : tries'[x] < 2
    BY <2>2 DEF Regular, NetStartAgain
  <2>10. CASE NetState' = "fail" /\ AllCovered'
    BY <1>1, <2>7, <2>8, <2>9, <2>10 DEF RoundInv, Regular, Running, Ended
  <2>11. CASE NetState' = "restart"
    <3>1. PICK m \in 0 .. NDev - 1 :
            /\ After(f, m) = eth_current'
            /\ \A j \in 0 .. m - 1 :
                 After(f, j) \in configured' => Covered(After(f, j))'
            /\ \A j \in m .. NDev - 1 : tries'[After(f, j)] = 0
      BY <2>7, <2>11
    <3>2. tries'[eth_current'] = 0
      <4>1. m \in m .. NDev - 1
        BY NDevAssumption
      <4> QED
        BY <3>1, <4>1
    <3>3. \A j \in m + 1 .. NDev - 1 : j \in m .. NDev - 1
      BY NDevAssumption
    <3>4. Reached(m)'
      BY <2>8, <3>1, <3>2, <3>3 DEF Reached
    <3> QED
      BY <1>1, <2>7, <2>8, <2>9, <2>11, <3>4 DEF RoundInv, Regular, Running, Ended
  <2> QED
    BY <2>7, <2>10, <2>11
<1> QED
  BY <1>2, <1>3

(* A round begins at the interface on which eth_init ends. When it finds none  *)
(* it has been round them all.                                                 *)
LEMMA CommandKeepsRound ==
  ASSUME TypeOK, RoundInv, NEW d \in Devices, NEW ok \in SUBSET Devices, Command(d, ok)
  PROVE  RoundInv'
<1> SUFFICES ASSUME netretry' = "once", ethrotate'
             PROVE  timeHandler' # "again" /\ (~irregular' => Regular')
  BY DEF RoundInv
<1> DEFINE e == EthInit(d, first_failed, NetRestartWrap, ok)
           k == Moves(d, ok)
<1>1. netretry = "once" /\ ethrotate /\ configured' = configured /\ configured \subseteq Devices
  BY DEF Command, config, TypeOK
<1>2. timeHandler' # "again"
  BY <1>1 DEF Command, RoundInv
<1>3. /\ ~NetRestarted' /\ ~again' /\ eth_current' = e.cur /\ NetRestartWrap' = e.wrap
      /\ irregular' = e.wrap /\ gone' = e.down
      /\ tries' = [i \in Devices |-> 0]
      /\ IF e.up = {} THEN pc' = "cmd" /\ result' = "failed" ELSE pc' = "restart" /\ result' = "none"
  BY DEF Command
<1>4. /\ k \in 0 .. NDev
      /\ \A j \in 0 .. k - 1 : After(d, j) \notin ok
      /\ k < NDev => After(d, k) \in ok
  BY <1>1, MovesIs
<1>5. /\ e.cur = After(d, k) /\ e.up = {e.cur} \cap ok
      /\ e.down = {After(d, j) : j \in 0 .. k} \ ok
  BY DEF EthInit
<1> HIDE DEF e, k
<1>6. e.cur \in Devices
  BY <1>4, <1>5, AfterType
<1>7. CASE e.up = {}
  <2>1. k = NDev
    BY <1>4, <1>5, <1>7, NDevAssumption
  <2>2. ASSUME NEW x \in configured PROVE x \in gone'
    <3>1. PICK j \in 0 .. NDev - 1 : After(d, j) = x
      BY <1>1, AfterCovers
    <3>2. j \in 0 .. k - 1 /\ j \in 0 .. k
      BY <2>1, NDevAssumption
    <3> QED
      BY <3>1, <3>2, <1>3, <1>4, <1>5
  <2> QED
    BY <1>1, <1>2, <1>3, <1>7, <2>2 DEF Regular, AllCovered, Covered
<1>8. CASE e.up # {}
  <2>1. ~Moved' /\ Untried' /\ Origin' = eth_current' /\ pc' = "restart" /\ result' = "none"
        /\ eth_current' \in Devices
    BY <1>3, <1>6, <1>8 DEF Moved, Untried, Origin
  <2>2. Reached(0)'
    <3>1. After(eth_current', 0) = eth_current'
      BY <2>1, AfterRound
    <3>2. \A j \in 1 .. NDev - 1 : After(eth_current', j) \in Devices
      BY <2>1, AfterType, NDevAssumption
    <3> QED
      BY <1>3, <2>1, <3>1, <3>2 DEF Reached
  <2>3. 0 \in 0 .. NDev - 1
    BY NDevAssumption
  <2> QED
    BY <1>2, <1>3, <2>1, <2>2, <2>3 DEF Regular, Running, Ended
<1> QED
  BY <1>7, <1>8

\* The interface is tried.
LEMMA RestartKeepsRound ==
  ASSUME TypeOK, RoundInv, Restart
  PROVE  RoundInv'
<1> SUFFICES ASSUME netretry' = "once", ethrotate', ~irregular'
             PROVE  Regular'
  BY DEF RoundInv, Restart, config
<1>1. Regular /\ Running /\ ~Ended
  BY DEF RoundInv, Regular, Restart, config, Ended
<1>2. PICK n \in 0 .. NDev - 1 : Reached(n)
  BY <1>1 DEF Running
<1>3. ~again /\ tries[eth_current] = 0 /\ eth_current \in Devices
  BY <1>1, <1>2 DEF Reached, Untried, Running, Restart, TypeOK
<1>4. /\ tries' = [tries EXCEPT ![eth_current] = 1]
      /\ tries'[eth_current] = 1
      /\ \A x \in Devices \ {eth_current} : tries'[x] = tries[x]
  BY <1>3 DEF Restart, TypeOK
<1>5. /\ Origin' = Origin /\ eth_current' = eth_current /\ configured' = configured
      /\ gone' = gone /\ pc' = "rx" /\ NetState' = "continue" /\ again' = again
      /\ Moved' = Moved /\ Origin \in Devices
  BY <1>1 DEF Restart, Origin, Moved, eth, config, Running, TypeOK
<1>6. Reached(n)'
  <2>1. ASSUME NEW j \in n + 1 .. NDev - 1 PROVE tries'[After(Origin, j)] = 0
    <3>1. After(Origin, j) # eth_current /\ After(Origin, j) \in Devices
      <4>1. j \in 0 .. NDev - 1 /\ j # n /\ j \in 0 .. NDev
        BY NDevAssumption
      <4> QED
        BY <4>1, <1>2, <1>5, AfterInjective, AfterType DEF Reached
    <3> QED
      BY <3>1, <1>2, <1>4 DEF Reached
  <2>2. ASSUME NEW j \in 0 .. n - 1, After(Origin, j) \in configured
        PROVE  tries'[After(Origin, j)] > 0 \/ After(Origin, j) \in gone
    <3>1. After(Origin, j) \in Devices /\ (tries[After(Origin, j)] > 0 \/ After(Origin, j) \in gone)
      BY <2>2, <1>2 DEF Reached, Covered, TypeOK
    <3> QED
      BY <3>1, <1>3, <1>4
  <2>3. Untried' = FALSE
    BY <1>3, <1>5 DEF Untried
  <2> QED
    BY <1>2, <1>4, <1>5, <2>1, <2>2, <2>3 DEF Reached, Covered
<1>7. \A x \in Devices : tries'[x] < 2
  BY <1>1, <1>4 DEF Regular
<1> QED
  BY <1>1, <1>3, <1>5, <1>6, <1>7 DEF Regular, Running, Ended, Restart, eth

\* Steps inside an iteration that call no NetStartAgain.
LEMMA StayKeepsRound ==
  ASSUME TypeOK, RoundInv, netretry = "once", ethrotate,
         RxNothing \/ RxSuccess \/ TimeGoesOn \/ StartAgainTimeout \/ SwitchContinue
  PROVE  RoundInv'
<1>1. timeHandler # "again"
  BY DEF RoundInv
<1>2. /\ pc \in {"rx", "time", "switch"} /\ pc' \in {"rx", "time", "switch"}
      /\ UNCHANGED <<config, eth, NetRestarted, timeHandler, tries, gone, irregular>>
      /\ \/ UNCHANGED <<NetState, again>>
         \/ UNCHANGED again /\ NetState = "continue" /\ NetState' = "success"
         \/ UNCHANGED NetState /\ NetState = "continue" /\ again' = FALSE
  BY <1>1 DEF RxNothing, RxSuccess, TimeGoesOn, StartAgainTimeout, SwitchContinue, loop, history
<1>3. CASE irregular
  BY <1>1, <1>2, <1>3 DEF RoundInv
<1>4. CASE ~irregular
  <2>1. Regular /\ Running
    BY <1>2, <1>4 DEF RoundInv, Regular
  <2>2. /\ again' = again
        /\ again' <=> NetState' \in {"restart", "fail"}
        /\ (NetState' = "fail") = (NetState = "fail")
    <3>1. again \in BOOLEAN /\ (again <=> NetState \in {"restart", "fail"})
      BY <1>2, <2>1 DEF Running, TypeOK
    <3>2. CASE UNCHANGED <<NetState, again>>
      BY <3>1, <3>2
    <3>3. CASE ~UNCHANGED <<NetState, again>>
      <4>1. NetState = "continue" /\ again = FALSE
        BY <1>2, <3>1, <3>3
      <4> QED
        BY <1>2, <4>1
    <3> QED
      BY <3>2, <3>3
  <2>3. /\ Moved' = Moved /\ Origin' = Origin /\ Untried' = Untried /\ Ended' = Ended
        /\ AllCovered' = AllCovered
    BY <1>2, <2>2 DEF Moved, Origin, Untried, Ended, AllCovered, Covered, eth, config
  <2>4. ASSUME NEW n \in 0 .. NDev - 1, Reached(n) PROVE Reached(n)'
    BY <1>2, <2>3, <2>4 DEF Reached, Covered, eth, config
  <2>5. Running'
    BY <1>2, <2>1, <2>2, <2>3, <2>4 DEF Running, eth
  <2> QED
    BY <1>1, <1>2, <2>1, <2>5 DEF RoundInv, Regular
<1> QED
  BY <1>3, <1>4

\* A restart: NetStartAgain was called in the iteration that ends.
LEMMA SwitchRestartKeepsRound ==
  ASSUME RoundInv, netretry = "once", ethrotate, SwitchRestart
  PROVE  RoundInv'
<1>1. /\ pc = "switch" /\ pc' = "restart" /\ NetState = "restart"
      /\ NetRestarted' = TRUE /\ again' = FALSE
      /\ UNCHANGED <<config, eth, timeHandler, tries, gone, irregular>>
  BY DEF SwitchRestart
<1>2. timeHandler' # "again"
  BY <1>1 DEF RoundInv
<1>3. CASE irregular
  BY <1>1, <1>2, <1>3 DEF RoundInv
<1>4. CASE ~irregular
  <2>1. Regular /\ Running /\ again /\ ~Ended
    BY <1>1, <1>4 DEF RoundInv, Regular, Running, Ended
  <2>2. Moved /\ Moved' /\ Origin' = Origin /\ Untried /\ Untried' /\ ~Ended'
    BY <1>1, <2>1 DEF Moved, Origin, Untried, Ended, eth
  <2>3. ASSUME NEW n \in 0 .. NDev - 1, Reached(n) PROVE Reached(n)'
    BY <1>1, <2>2, <2>3 DEF Reached, Covered, eth, config
  <2>4. Running'
    BY <1>1, <2>1, <2>2, <2>3 DEF Running, eth
  <2> QED
    BY <1>1, <1>2, <2>1, <2>4 DEF RoundInv, Regular
<1> QED
  BY <1>3, <1>4

\* The command returns.
LEMMA ReturnKeepsRound ==
  ASSUME RoundInv, netretry = "once", ethrotate, NotConfigured \/ Abort \/ SwitchReturn
  PROVE  RoundInv'
<1>1. /\ pc # "cmd" /\ pc' = "cmd"
      /\ UNCHANGED <<config, timeHandler, tries, gone, irregular>>
      /\ result' = "failed" => pc = "switch" /\ NetState = "fail"
  BY DEF NotConfigured, Abort, SwitchReturn, loop
<1>2. timeHandler' # "again"
  BY <1>1 DEF RoundInv
<1>3. CASE irregular
  BY <1>1, <1>2, <1>3 DEF RoundInv
<1>4. CASE ~irregular
  <2>1. Regular /\ Running
    BY <1>1, <1>4 DEF RoundInv, Regular
  <2>2. result' = "failed" => AllCovered'
    BY <1>1, <2>1 DEF Running, Ended, AllCovered, Covered, config
  <2> QED
    BY <1>1, <1>2, <2>1, <2>2 DEF RoundInv, Regular
<1> QED
  BY <1>3, <1>4

\* Every step of NetLoop keeps the round.
LEMMA StepKeepsRound == TypeOK /\ RoundInv /\ [Next]_vars => RoundInv'
<1> SUFFICES ASSUME TypeOK, RoundInv, [Next]_vars, netretry' = "once", ethrotate'
             PROVE  RoundInv'
  BY DEF RoundInv
<1>1. ASSUME NEW ok \in SUBSET Devices, NEW d \in Devices, Command(d, ok)
      PROVE  RoundInv'
  BY <1>1, CommandKeepsRound
<1>2. ASSUME NEW ok \in SUBSET Devices, RestartUnconfigured(ok) PROVE RoundInv'
  <2>1. /\ NetStartAgain("continue", timeHandler, ok)
        /\ pc = "restart" /\ pc' = "rx" /\ eth_current \notin configured
        /\ netretry = "once" /\ ethrotate
    BY <1>2 DEF RestartUnconfigured, NetStartAgain, config
  <2> QED
    BY <2>1, StartAgainKeepsRound DEF States
<1>3. ASSUME NEW ok \in SUBSET Devices, RxStartAgain(ok) PROVE RoundInv'
  <2>1. /\ NetStartAgain(NetState, timeHandler, ok)
        /\ pc = "rx" /\ pc' = "time" /\ NetState \in States
        /\ netretry = "once" /\ ethrotate
    BY <1>3 DEF RxStartAgain, NetStartAgain, config, States
  <2> QED
    BY <2>1, StartAgainKeepsRound
<1>4. ASSUME NEW ok \in SUBSET Devices, TimeGivesUp(ok) PROVE RoundInv'
  <2>1. /\ NetStartAgain(NetState, "none", ok)
        /\ pc = "time" /\ pc' = "switch" /\ NetState \in States
        /\ netretry = "once" /\ ethrotate
    BY <1>4 DEF TimeGivesUp, NetStartAgain, config, States, TypeOK
  <2> QED
    BY <2>1, StartAgainKeepsRound
<1>5. CASE Restart
  BY <1>5, RestartKeepsRound
<1>6. CASE RxNothing \/ RxSuccess \/ TimeGoesOn \/ StartAgainTimeout \/ SwitchContinue
  <2>1. netretry = "once" /\ ethrotate
    BY <1>6 DEF RxNothing, RxSuccess, TimeGoesOn, StartAgainTimeout, SwitchContinue, config
  <2> QED
    BY <1>6, <2>1, StayKeepsRound
<1>7. CASE SwitchRestart
  <2>1. netretry = "once" /\ ethrotate
    BY <1>7 DEF SwitchRestart, config
  <2> QED
    BY <1>7, <2>1, SwitchRestartKeepsRound
<1>8. CASE NotConfigured \/ Abort \/ SwitchReturn
  <2>1. netretry = "once" /\ ethrotate
    BY <1>8 DEF NotConfigured, Abort, SwitchReturn, config
  <2> QED
    BY <1>8, <2>1, ReturnKeepsRound
<1>9. CASE UNCHANGED vars
  BY <1>9 DEF vars, config, eth, loop, history, RoundInv, Regular, Running, Reached, Moved,
              Origin, Untried, Ended, AllCovered, Covered
<1> QED
  BY <1>1, <1>2, <1>3, <1>4, <1>5, <1>6, <1>7, <1>8, <1>9 DEF Next

\* The round is invariant.
LEMMA RoundInvariant == Spec => []RoundInv
<1>1. Init => RoundInv
  BY DEF Init, RoundInv, Regular
<1> QED
  BY <1>1, StepKeepsRound, TypeCorrect, PTL DEF Spec

(* netretry=once: NetLoop reports failure only after every interface with an   *)
(* address was tried or could not be initialised -- in a regular command.      *)
THEOREM OnceAll == Spec => []OnceTriesAll
<1>1. RoundInv => OnceTriesAll
  BY DEF RoundInv, Regular, AllCovered, Covered, OnceTriesAll
<1> QED
  BY <1>1, RoundInvariant, PTL

\* netretry=once: no interface is tried twice by one regular command.
THEOREM OncePerRound == Spec => []RoundTriesOnce
<1>1. RoundInv => RoundTriesOnce
  BY DEF RoundInv, Regular, RoundTriesOnce, TriedOnce
<1> QED
  BY <1>1, RoundInvariant, PTL
=============================================================================
