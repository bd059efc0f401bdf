# TLA+ models of U-Boot

This directory holds models of the parts of U-Boot (the 2009.07 tree with the
PXA168 "silvermoon" port) where state survives a crash, where messages get lost
and where retries meet timeouts. All source paths are relative to the root of
the U-Boot tree, `src/src/` of the repository.

`tlc -config X.cfg M` checks a model, `tlapm MProofs.tla` checks its proofs, and
`PROJECT.json` lists the runs, the theorems, the lines every definition
translates, and for every property a plausible bug (a definition under a comment
that begins with "Slip:") that TLC must find to violate it.

## 1. Inventory

U-Boot is a single-threaded program without preemption. What makes it hard is
not threads but power failures, hardware operations that fail half-way, packets
that are lost, late or repeated, timers, and static variables that live longer
than the command that set them.

| component | state it keeps | operations | interacts with | hard behaviour | what makes it correct |
|---|---|---|---|---|---|
| Redundant environment, NOR (`common/env_flash.c`, `common/env_common.c`) | two sectors (data, crc, flag byte), `flash_addr`/`flash_addr_new`, `gd->env_valid`, `gd->env_addr`, the working copy | `env_init`, `env_relocate`, `env_relocate_spec`, `setenv`, `saveenv` | board start-up, flash driver, shell | power failure at every flash operation, errors half-way, repair at boot | a boot finds the last saved environment or the one being saved; repair does not change the decision |
| Redundant environment, NAND (`common/env_nand.c`) | two areas with a one-byte serial number, `env_ptr`, `gd->env_valid` | the same | NAND layer | the same, and the wrap of the serial number | the same; the area that `saveenv` takes for the one in use is the one a boot takes |
| TFTP client (`net/tftp.c`) | `TftpState`, ports, block number, wrap offset, block size, timeout count; the loaded file | `TftpStart`, `TftpHandler`, `TftpTimeout`, `TftpSend`, `store_block` | NetLoop (handler, timer, `NetStartAgain`), the server over UDP | loss, delay, duplication, reordering; retransmission by both sides; block-number wrap; restarts | success means the whole file; a block is stored before it is acknowledged; it ends |
| Network loop (`net/net.c`) | `NetState`, packet handler, time handler, `NetRestarted`, `NetDevExists`, `NetRestartWrap` | `NetLoop`, `NetStartAgain`, `startAgainTimeout`, `NetReceive`, ARP | every protocol; `net/eth.c` | packets and timers in one iteration, state left over from an earlier command | commands end as `netretry` says; every interface gets its turn |
| Choice of interface (`net/eth.c`) | ring of devices, `eth_current`, `first_failed` | `eth_init`, `eth_halt`, `eth_try_another`, `eth_set_current` | drivers, environment | init functions that fail | one active interface; a round is noticed |
| API receive ring (`net/eth.c`, `api/api_net.c`) | ring of received packets | `eth_save_packet`, `eth_receive` | driver callback, application | full ring | no packet torn or repeated |
| ARP (`net/net.c`) | parked packet, retry count, timer | `ArpRequest`, `ArpTimeoutCheck`, reply in `NetReceive` | every protocol that sends | two timers that reset each other | a parked packet goes to its addressee or is dropped |
| BOOTP/DHCP (`net/bootp.c`) | DHCP state, transaction id, try count | `BootpRequest`, `DhcpHandler`, `BootpTimeout` | NetLoop, environment | stale offers, retries | only an answer to the current request is taken |
| NFS (`net/nfs.c`) | state, file handle, offset, RPC id | `NfsStart`, `NfsHandler`, `NfsTimeout` | NetLoop | repeated replies | the file is read in order |
| Network console (`drivers/net/netconsole.c`) | ring of typed characters, `net_timeout`, `nc_ether`, the line waiting for an ARP reply | `nc_getc`, `nc_tstc`, `nc_puts`, `nc_input_packet`, `NcStart` | NetLoop, which it calls and which calls it (`ctrlc`); ARP | input in the loop of another command, time handlers of an earlier loop, late ARP replies | the ring is a queue; a line is sent in time or not at all; calls return |
| RARP, SNTP, `common/update.c` | a try count or a small buffer | one request, one answer | NetLoop | timeouts | - |
| Bad block table (`drivers/mtd/pxa3xx_bbm.c`, `board/pxa/common/bbt.c`) | relocation table in RAM, its slots in block 0, reserved area | scan, search, mark, update, sync | MTD | slots run out, reserved area runs out, lost writes | no two blocks share a replacement; a boot finds the newest table |
| Serial downloads (`common/xyzModem.c`, `common/cmd_load.c`) | block number, buffers | X/Y-modem, Kermit, S-records | console | retransmission | the file in order |
| `tools/env/fw_env.c` | the same two copies, from Linux | read, write | the environment in flash | two programs, one protocol | both choose the same copy |
| `lib_generic/lmb.c`, `common/circbuf.c` | arrays of regions, a ring | add, reserve, alloc; push, pop | bootm, USB serial | limits | regions sorted and disjoint |
| SD configuration area (`fs/cconfig/cconfig.c`) | none of its own (read-only) | detect, list, read | MMC | - | - |
| shell, booting, allocator, compression, device trees, file systems, drivers, boards, POST, USB | | | | text, vendored code or hardware access | not modelled |

## 2. Plan

Modules in the order of importance; the first block is in this directory.

1. `EnvStore` (abstract), `EnvFlash` and `EnvNand` (each shown to implement it),
   `EnvFlashProofs`, `EnvNandProofs`: the promise the documentation makes about
   power failures.
2. `Tftp`, `TftpProofs`: integrity, order and termination of a download.
3. `NetLoop`, `NetLoopProofs`: retry and rotation of interfaces.
4. `RelocStore` (abstract) and `Bbm`, which is shown to implement it, `BbmProofs`:
   bad blocks and their replacements under crashes and failing flash operations.
   `LeastElement` holds two lemmas on least and greatest elements that
   `NetLoopProofs` and `BbmProofs` share.
5. `CharQueue` (abstract) and `NetConsole`, which is shown to implement it,
   `NetConsoleProofs`: the network console composed with the network loop, ARP
   and a TFTP transfer that share its timer and its parked packet.

Next, extending the model:

6. `Bootp`: DHCP states with lost and stale offers from two servers.
7. `FwEnv`: `tools/env/fw_env.c` and the boot loader writing in turn, as another
   implementation of `EnvStore`.
8. `EthRing`, `XyzModem`, `Lmb` (a pure algorithm against a set-of-addresses
   reference).

Next, proving more. Every safety property that a passing run checks is proved, and
all four refinements (EnvFlash, EnvNand, Bbm, NetConsole). What could still be proved:

- `Tftp`: what becomes of the file after an ambiguous block (`crossed`), as the
  weakest condition under which such a block does no harm, instead of the
  exception.
- `Bbm`: that of the blocks in use only the block before the reserved area is ever
  erased once no replacement is left.
- `NetLoop`: `OnceTriesAll` for a command that begins with `NetRestartWrap` set, with
  the part of the round that it does go through.

## 3. The modules

### EnvStore

The promise, apart from any storage: `env` is the working copy, `acked` what the
storage is known to hold and `attempt` what the last save that touched the
storage was storing. A boot takes one of `acked` and `attempt` and decides for
good. `faulted` marks the cases in which the implementation promises nothing;
after a fault anything may happen until `Recover`, a boot or a complete save that
starts afresh.

### EnvFlash: `common/env_flash.c` with `CONFIG_ENV_ADDR_REDUND`

| model | code |
|---|---|
| `sect[i]` | the sectors at `CONFIG_ENV_ADDR` (1) and `CONFIG_ENV_ADDR_REDUND` (2): `data`, `crc`, `flags` of `env_t` |
| `flash_addr`, `flash_addr_new` | the two pointers; they are always opposite, so one variable |
| `env_addr`, `env_valid` | `gd->env_addr` (which copy, 0 for the default), `gd->env_valid` |
| `env`, `crc` | the working copy `env_ptr->data` and `env_ptr->crc` |
| `SetEnv` | `_do_setenv`, which ends in `env_crc_update` |
| `SetEnvOverflow` | its return on "environment overflow", without `env_crc_update` |
| `pc` | the next flash operation of the code that is running |
| `EnvInit` | `env_init` on a fresh `gd` |
| `SetDefaultEnv`, `RelocateSpec`, `RepairOwn`, `Load` | `env_relocate` with and without a valid copy; `env_relocate_spec` cut at its flash writes |
| `SaveStart` ... `SaveDone` | `saveenv` cut at its flash operations |
| `SaveFails`, `RestoreFails` | the `goto Done` of `saveenv` |
| `PowerFail` | the end of everything in RAM, at any flash operation |

A crc is modelled by the environment it was computed from, so that it matches
data exactly if it is the crc of those data; `None` never matches. A flag byte is
the set of its 1 bits: erased is all of `Bits`, `ACTIVE_FLAG` is `{0}`,
`OBSOLETE_FLAG` is `{}`; programming intersects. A flash operation that is cut
short or fails is done, not done, or half done; a half erased sector has any
flag byte and a crc that fails; data that are half written never match a crc.

`Faults` names the four events against which the driver is not safe. The main run
allows all of them; two violation runs allow one each (`EnvFlash_restore`,
`EnvFlash_overflow`). With `Faults = {"torn_flag"}` TLC finds `ValidBackup` violated as
well: a half programmed flag byte beside a valid copy matches no branch of `env_init`
(env_flash.c:131), which then chooses neither. A flash fault sets `faulted` for good. A setenv without room is no fault by itself: the crc of the working copy is
stale from then on, and does no harm until a complete save stores it. That sets
`stale`, until the next boot or the next complete save with a good crc.

### EnvNand: `common/env_nand.c` with `CONFIG_ENV_OFFSET_REDUND`

`area[i]` is what `readenv` would read from the area (`env = None`: its crc does
not match), `env` and `crc` are the working copy, `Working` is how a boot would read
it back, `flags` is `env_ptr->flags`, `env_valid` is `gd->env_valid`. `Relocate`
is `env_relocate_spec` (`env_init` decides nothing here), `SaveStart`, `Erase`,
`Write` are `saveenv`, `SaveFails` its `return 1`. `FlagMod` stands for 256.
`faulted` says that a `saveenv` has returned an error since the last boot; from
then on the serial number of the working copy may be more than one ahead. `stale`
and `SetEnvOverflow` are as in EnvFlash: `cmd_nvedit.c` is common to both, and the finding
of `EnvFlash_overflow` holds for NAND by the same steps.

### Tftp: `net/tftp.c`

The variables have the names of the code. `mem` is memory from `load_addr` on,
one cell per default block; a cell holds which unit of the file is in it. Units
scale: the default block is 1, the negotiated block `BlkSizeOption`, the sequence
number wraps at `SeqSize` (65536 in the code) and offsets wrap at `MemSize` (2^32),
so that `store_block`'s arithmetic for the block numbered 0 is computed as in C.

| model | code |
|---|---|
| `TftpStart` | `TftpStart` and `NetBootFileXferSize = 0` after it in `NetLoop` |
| `Accepts` | the checks on ports and length |
| `HandleOack`, `HandleData`, `HandleError` | the cases of `TftpHandler` |
| `NotBlockOne`, `IgnoreSame`, `StoreAndAck` | the three ways through `TFTP_DATA` |
| `TftpTimeout` | `TftpTimeout` |
| `NetStartAgain` | what the protocol sees of it: fail, restart, or a wait in which packets are ignored |
| `NetLoopReturns` | the `switch (NetState)` of `NetLoop` |

The server and the network are external. The server is lock-step (it sends block
n+1 on the acknowledgement of block n), opens a transfer with a port of its own
for every request, understands options or does not, repeats its packet whenever
it likes and may send an error at any time. The network is a set of packets:
delivering any, in any order, or never, and leaving a delivered one as a
duplicate.

One assumption on the network is a constant: `Window`, a packet does not outlive
the next `Window` blocks. In reality that is 65536 blocks against the lifetime of
a packet; in the model `SeqSize` is 4 and `Window` 1, so a packet cannot survive
until its number comes round again.

History variables: `got` and `seen` count blocks without wrap, and `crossed` says
that a block was received again whose place its sequence number does not tell
(number 0, or older than the last wrap). `Integrity` and `AckedIsStored` except
that case, which the run `Tftp_repeat` shows to be a bug.

The end of a transfer and the time handler: `NetSetTimeout` is called with the
packet that ends the transfer, so the handler is not due in the same iteration;
`TftpTimeout` needs `NetState = "continue"`.

### NetLoop: `net/net.c`, `net/eth.c` with `CONFIG_NET_MULTI`

`pc` names the place in `NetLoop`: before a command, the label `restart`, `eth_rx`,
the timer, `switch (NetState)`. Interfaces are numbers in the order of the ring.
`netretry`, `ethrotate`, and which interfaces have an address (`configured`) are
fixed for a behaviour and arbitrary. Whether an init function succeeds is chosen
anew for every search (`ok`). A command may name any interface (`ethact`).

The protocol is reduced to what it does to the loop: a packet ends the transfer
(`RxSuccess`) or calls `NetStartAgain` (`RxStartAgain`), and so may its time
handler (`TimeGivesUp`). That is TFTP, BOOTP, DHCP, RARP and NFS; ping and SNTP,
which set `NETLOOP_FAIL` themselves, and `ArpTimeoutCheck` are not covered yet.

History: `tries` and `gone` record which interfaces were started or found
unusable by the command, `irregular` marks the commands described at
`OnceTriesAll`: those that begin with `NetRestartWrap` left set by an earlier
command, and those in which `NetStartAgain` is called twice in one iteration.
Both cut the round short in the code; this is listed as a hazard and excepted.

### RelocStore and Bbm: `drivers/mtd/pxa3xx_bbm.c`

`RelocStore` says what the users of the flash may rely on at every boot: each
data block has a block of its own, a replacement comes from the reserved area and
was in no one's use, a block given up stays given up. It promises nothing once
the reserved area has been exhausted.

`Bbm` has the table in RAM (`reloc`, a sequence of entries `from`, `to`; its
length is `table->total`, and `to = GivenUp` is 65535 in the code), the pages of
block 0 (`slot`), the bad marks in the spare bytes (`marked`), and a `pc` that cuts
`pxa3xx_mark_reloc_tb` at its flash operations. `PageEntries` is the number of entries
that fit the page and the buffer of a table: when the loop of `update_reloc_tb` adds
one more, the code writes past the buffer, and the model stops in `pc = "overrun"`.

| model | code |
|---|---|
| `Scan` | `pxa3xx_scan_reloc_tb` at boot: the lowest page with a table |
| `MarkBad` | `nand_block_markbad`, `pxa3xx_mark_reloc_tb`, and `update_reloc_tb` to the first erase |
| `Erase`, `EraseFails`, `EraseRefused` | the loop of `update_reloc_tb`: erased, `fail_addr` is the block, another error |
| `Replaced`, `GivenUpToo`, `Enter` | the entries it writes, and that there is room for them |
| `Physical` | the block that `pxa3xx_nand_cmdfunc` addresses for a number of the table |
| `Sync`, `SyncFails`, `SyncNoRoom` | `sync_reloc_tb`; its result and that of `mtd->write` are ignored |
| `BlockBad` | `pxa3xx_block_bad`, also called by the erase |
| `PowerFail` | the end of everything in RAM, at any erase or page write |

A page is a table, blank or torn. A page written for the second time, because an
earlier write failed and was not noticed before a boot, holds the new table or is
torn. History: `owed` are the data blocks whose relocation did not reach a page
that a boot looks at, `since` those marked since the last table stored, `wiped`
the blocks erased although they were in use, `exhausted` that a replacement was
wanted when there was none.

### CharQueue and NetConsole: `drivers/net/netconsole.c` over `net/net.c`

`CharQueue` is a bounded queue: packets of characters arrive, what does not fit is
lost, characters are taken in order. `NetConsole` has the ring of the driver and
one network loop, run for one of four callers (`caller`). An iteration of the loop
is `rx` (any number of packets, then `ctrlc`), `arp` (`ArpTimeoutCheck`), `time` (the time
handler) and `switch`, as in `NetLoop`.

| model | code |
|---|---|
| `GetcAtOnce`, `GetcWaits`, `GetcReturns` | `nc_getc` |
| `Tstc` | `nc_tstc` without input; with input it returns at once and changes nothing |
| `PutsAtOnce`, `PutsWaits` | `nc_puts`, `nc_send_packet` with and without the address |
| `Tftp`, `TftpStart`, `RxTftp`, `TftpTimeout` | a transfer, as far as it shares the loop |
| `NcStartInput`, `NcStartOutput` | `NcStart` |
| `NotConfigured` | `net_check_prereq` returns 1, `NetLoop` -1 |
| `RestartUnconfigured` | `net_check_prereq` returns 2: `NetStartAgain`, and an iteration with the handlers of an earlier loop |
| `RxInput`, `RxOther`, `RxArpReply` | `NetReceive`: `nc_input_packet`, then the packet handler; an ARP reply |
| `SendTo` | `NetSendUDPPacket`: send, or park and ask |
| `ArpExpires` | `ArpTimeoutCheck` |
| `NoCtrlC`, `CtrlC` | `ctrlc`, with the network console as standard input |
| `StartAgain` | `NetStartAgain`: fail, restart, or wait 10 s; the choice is in `NetLoop` |

`known` is the set of hosts whose ethernet address is not all zero (`nc_ether`,
`NetServerEther`); `waiting` and `parked` are the ARP wait and the packet in it.
Characters and lines are numbers in the order in which they were typed and
printed, so that one that is lost, repeated or overtaken shows. Whether a
character that `ctrlc` reads is ^C is left open. `input_recursion` is `caller` being
`getc` or `tstc`. `addressed` says that every interface has an ethernet address, so that
`RestartUnconfigured` does not happen; it is fixed for a behaviour and arbitrary.
`disturbed` (history) is described at `LineSent`. What the code leaves in `NetArpWaitTry`
and `NetState` after a wait or a loop is written before it is read again; the model
puts these variables back at once.

## 4. What is checked

| run | expected | shows |
|---|---|---|
| `EnvFlash` | pass | power failures and errors anywhere, setenv without room; three environments, three flag bits, all faults |
| `EnvFlash_restore` | violation of `ValidBackup` | a failed restore of the rest of the sector is reported as success without the exchange of the pointers (env_flash.c:213-218) |
| `EnvFlash_overflow` | violation of `ValidBackup` | a setenv that overflows leaves a stale crc (cmd_nvedit.c:314), which `saveenv` stores as if all were well |
| `EnvNand` | pass | several wraps of the serial number (`FlagMod = 5`) |
| `EnvNand_errors` | violation of `SavedIsChosen` | failed saves skip serial numbers (env_nand.c:190) |
| `Tftp` | pass | a file of 5 units in 3 blocks of 2 or 6 blocks of 1, sequence numbers modulo 4 |
| `Tftp_repeat` | violation of `SuccessIsWhole` | the wrap offset is advanced twice when block number 0 is repeated (tftp.c:341) |
| `NetLoop` | pass | three interfaces, two commands, all settings |
| `Bbm` | pass | two data blocks, three reserved ones, two pages for tables, five entries in each: past the end of all three |
| `Bbm_full` | violation of `NothingWiped` | with no reserved block left `update_reloc_tb` erases the block before the reserved area (pxa3xx_bbm.c:114) |
| `NetConsole` | pass | four callers, input across the end of the ring, stale handlers and timers, lost and late ARP replies |
| `NetLoop_once` | violation of `TriedOnce` | `ethrotate=no` defeats `netretry=once` (eth.c:418) |

The properties, apart from one type invariant per module:

- `PowerFailSafe`, `ValidBackup` (EnvFlash, EnvNand): the copy a boot would choose
  now holds the last environment reported as saved, or the one being saved; unless
  the last complete save stored a stale crc.
- `RepairStable`: the repair of the flags at boot changes no decision.
- `SavedIsChosen`: a `saveenv` of a good crc that returns 0 decided the next boot.
- `InUseIsChosen`: the area that `saveenv` spares, by `env_valid`, is the one that a
  boot would choose.
- `ImplementsEnvStore`: the driver implements `EnvStore`.
- `Integrity`: success means the whole file, with the right size.
- `AckedIsStored`: the server never moves on past a block that is not in memory.
- `Terminates`: with `netretry=no` a transfer ends.
- `ActiveIsCurrent`: no interface is left active behind `eth_current`.
- `OnceTriesAll`, `RoundTriesOnce`: `netretry=once` tries every interface, and none twice.
- `CommandReturns`: commands that must not retry for ever return.

- `UsableIsGood`: a block that `pxa3xx_block_bad` lets its users have is not one
  that was marked bad, after any boots, except one still owed a relocation.
- `OthersKept`, `NothingWiped`: marking a block bad erases no other one in use,
  until the reserved area is used up, respectively ever.
- `LimitKept`: until the reserved area is used up, a table has no more entries than
  the area has blocks. Afterwards it has: if the block before the area cannot be erased
  it is entered without bound (pxa3xx_bbm.c:133).
- `MarkReturns`: however many replacements fail, `markbad` ends.
- `ImplementsRelocStore`: the table on the flash implements `RelocStore`.
- `LineSent`: when the loop of a puts succeeds its line has been sent, through
  every retry and restart, unless disturbed.
- `NoLateLine`: no later loop sends the line of an earlier puts.
- `ImplementsCharQueue`: the ring implements `CharQueue`.
- `PollReturns`, `PutsReturns`, `InputRead`: a poll ends without input, a puts ends
  without an answer if `netretry` is "no", a getc ends once there is input. The first
  and the last are for interfaces that all have an address: without one, and with
  `ethrotate` set to "no", NetLoop restarts for ever before `NcStart` runs, and input
  may come while the packet handler is one of an earlier loop that does not end
  getc's. Without that condition TLC finds both violated.

### Bounds, and why they are enough

- Environments: three, the default and two others, so that the default, the one
  saved last and the one being saved can be told apart. The behaviour depends on
  equality only; the theorems hold for every set.
- Flag bits: three. One bit is the mark, two others give torn values that are
  neither erased, active nor obsolete and differ from each other.
- `FlagMod = 5`: the smallest range in which a number two ahead differs from one
  two behind; the theorems hold for every range above 2. The number of saves,
  boots and failures is not bounded.
- Tftp: `SeqSize = 4` and `Size = 5` give block numbers 1, 2, 3, 0, 1, 2 for the
  default block: a wrap, and blocks after it. `BlkSizeOption = 2` gives a
  transfer that ends with a short block, in which option and default sizes
  differ. `MaxStarts = 2` and `MaxTids = 3` give a restart and two transfers for
  one request, `MaxDups = 1` one duplicated packet besides any number of
  retransmissions, `Capacity = 2` two packets in flight at once: an old one and a
  new one. `TimeoutCountMax = 1` gives a timeout that repeats and one that gives
  up. `MemSize = 12` leaves room for the offset of one wrap too many.
- NetLoop: three interfaces are the fewest with one that is neither the first nor
  the next; two commands show what one leaves to the next.

- Bbm: two data blocks are a block marked and another one; three reserved blocks
  are one in use, one given up and one free; pages 2 and 3 hold tables, so that a
  table is found, a newer one is stored or torn, and the pages run out. A page takes
  five entries: four is the most that a table has within its limit, the fifth is past
  it, and the next is the overrun. `Bbm_full` has two reserved
  blocks and pages of four entries, for a short counterexample.
- NetConsole: a ring of two and three characters give a packet that goes round the
  end, one that begins exactly at the end, one that is cut and one that is
  dropped. One line that waits while three other kinds of loop run before and
  after it; two requests of ARP and two timeouts of TFTP give one that repeats
  and one that gives up. The theorems hold for all bounds.

### Fairness and deadlock

- EnvFlash, EnvNand: none, all properties are safety. They never deadlock.
- Tftp: weak fairness of `TftpStart`, `TftpTimeout` and `NetLoopReturns`. NetLoop
  polls: a timer that is due is run in the next iteration and `NetState` is looked
  at in every one. Nothing is assumed of the network or the server. The system
  stops when the transfer is over, or when `MaxStarts` is used up, hence
  `CHECK_DEADLOCK FALSE`.
- NetLoop: weak fairness of the steps of the loop. Strong fairness of `GiveUp`
  stands for the bounded number of timeouts of the protocol (`Terminates` shows it
  for TFTP), and of `StartAgainTimeout` for the 10 s timer: both are enabled again
  and again, in every iteration, until they are due. A receive that always
  continues is not excluded otherwise. The system stops after `MaxCalls` commands.

- Bbm: weak fairness of the flash operations of `markbad`, which is a straight
  line of code; nothing is assumed of the user or the power.
- NetConsole: weak fairness of the steps of the loop, which polls for ever; strong
  fairness of each time handler, and of the ARP timeout while no `TftpTimeout`
  starts it over: the clock does not stand still, and what is due is run in the
  next iteration. Nothing is assumed of packets, of users or of `ctrlc`.

## 5. What is proved

All proofs are for every value of the constants, under the assumptions the modules
name. TLC evaluates them in every run. For EnvFlash `EnvsAssumption` (the default is
an environment, `None` is not), `BitsAssumption` (the flag byte has bit 0 and another
bit), `UpDataAssumption`, `FaultsAssumption`; for EnvNand `EnvsAssumption` and
`FlagModAssumption` (more than two serial numbers); for NetConsole that the ring and
the limits on retries are not empty; for NetLoop `NDevAssumption` (there is an
interface) and the types of the other constants (`OneActive` needs none); for Bbm
`RelocAssumption` (block 0, a data block and a reserved block exist, and no block has
the number 65535), `SlotAssumption` (there is a page for tables after the boot image),
`PageEntriesAssumption` (a page has room for more entries than the limit) and
`PageAssumption` (an erased or torn page does not read as a table: the header has a
magic number); for Tftp `SizeAssumption`, `SeqAssumption` and `BoundAssumption`
(numbers; sequence numbers have at least two values; the file fits in the address
space).

Three theorems of TftpProofs have two more hypotheses, on the network and not on the
driver: `~PortReuse` (each attempt has a UDP port of its own) and `Window < SeqSize` (a
packet does not live for a whole turn of the sequence number). The second is 65536
blocks against the lifetime of a packet. The port is `1024 + get_timer(0) % 3072`
(tftp.c:549): attempts have different ports unless their times agree modulo 3072 or
`tftpsrcp` fixes the port, and a reuse does harm only while packets of the earlier
attempt are alive; it is listed as a hazard. Neither can be dropped: with `PortReuse =
TRUE`, or with `Window = SeqSize`, TLC finds a state that violates `AckedIsStored`.

**EnvFlashProofs.** None of the properties is inductive: that the copy chosen now is
right says nothing of what the next flag write does. The invariant is `Inv == TypeOK
/\ Progress /\ (~faulted => Sound)`. `Progress` says what `saveenv` and the boot have
done when they are at `pc`; it holds whatever the faults. `Sound` says that the flags
are in order: no valid copy has a torn flag byte and two valid copies have different
flags (`Healthy`); the backup is valid; the copy in use is marked (`InUse`); the other
one is retired or holds the attempt of a failed save (`Other`). A save that stored a
stale crc (`stale`) leaves a copy in use that is not valid; then only the flags are
known to be in order. The argument rests on one lemma: in a healthy pair `env_init`
chooses the valid copy that is erased and not marked, else the active one
(`ChoiceIs`). Each flash write then either keeps the choice (`RetireKeepsChoice`,
`ActivateKeepsChoice`) or hands it from `acked` to `attempt` (`OwnRetired`). From
`Inv` follow `TypeCorrect`, `PowerFailSafety`, `RepairStability`, `SavedChosen`, and,
action by action, `Implementation`: every step of the driver is a step of `EnvStore`
or a stutter.

**EnvNandProofs.** The invariant `Inv` adds, until a save reports an error or stores a
stale crc: `env_valid` is the area a boot would choose, it holds `acked`, and the
serial number of the working copy is that of the area, or one more while a save is
under way. Two numbers that are neighbours modulo `FlagMod` are compared correctly
(`LaterIs`), which is all the wrap needs. After a stale crc was stored the area in use
is not valid, and the next complete save with a good crc makes the two agree again,
because it erases the other one.

**TftpProofs.** Neither `Integrity` nor `AckedIsStored` says anything of packets that
are still under way, so neither is inductive. `Inv` has three layers. `Shape` is the
types; it holds with no hypothesis, and with it that `store_block` writes within the
address space (`TypeCorrect`). `Linked` says who talks to whom: each packet belongs to
a transfer that has come to its block, and in each attempt the client has either
chosen no transfer yet (`Waiting`: nothing acknowledged, and every transfer for this
port still at its start) or hears and acknowledges one only (`Connected`); this is
where a port per attempt is needed. `Loaded` says what is in memory: every block
that the server has seen acknowledged, that an acknowledgement in the network
names, or that a repetition by `TftpTimeout` would name is `Answered`, that is, it is
in memory, and not later than the last block stored or still in the first turn of
the sequence number (where number and block are the same, which is what a client
relies on that has had an OACK or a block out of order). `TftpBlockWrapOffset` and
`TftpLastBlock` are those of the last block stored. All this holds until a block
comes again that is ambiguous (`crossed`). Four lemmas carry the argument: an
acknowledgement that the server takes as one for its current block is one, because
it cannot be a whole turn old (`AckIsCurrent`); a block that was not stored before is
recognised as new and counted in the right turn (`NewBlock`); the address that
`store_block` computes, modulo 2^32, from wrapped number and wrap offset is where the
block begins (`OffsetIs`); and storing it there destroys nothing held (`StoredAtPlace`).

**NetLoopProofs.** `ActiveIsCurrent` is inductive as it stands: `eth_halt` leaves
nothing active and `eth_init` makes at most the interface active that it makes
current. `OnceTriesAll` and `RoundTriesOnce` are not: that a failed command has tried
every interface depends on where its round began, which the code keeps in
`eth_current` until the first call of `NetStartAgain` and in a static variable after
it (`Origin`). `RoundInv` says that the round has come to some n-th interface of the
ring (`Reached`): those before it are tried or unusable, those after it are not tried;
or that it is over and all are covered (`Ended`). The key step is
`StartAgainGoesRound`: `eth_try_another` and the search of `eth_init` together go on to
a later interface short of the origin, covering what they skip, or come to the
origin, and then the command fails. The arithmetic of the ring is `AfterIs`,
`AfterCovers` and `AfterInjective`; how far `eth_init` goes is a least element
(`MovesIs`, `LeastElement`). As in the property, commands that are `irregular` are
excepted and `ethrotate` must not be "no".

**BbmProofs.** The argument is about tables. In a `Sound` table each entry has a
reserved block of its own, as the replacement of a data block or as one given up.
Then it has no more entries than there are reserved blocks, and is full exactly
when none is free (`SoundLen`), so `update_reloc_tb` finds a free block or none is left
(`FreeIs`). While one is free each entry it writes keeps the table sound
(`SoundUpdate`, `SoundAppend`, `ReplacedIs`); without one the table becomes `Overfull`
and stays so, however many entries the retries add up to the end of the page, and
`exhausted` is set. The table in RAM `Extends` the newest one on the
flash: no data block leaves its place unless that place is given up, and none moves
to a block that the stored table used (`ExtendsGivenUp`, `ExtendsReplaced`). `Owes` says
of a table that each block it leaves in a place marked bad is `owed` a relocation.
Since the promise
ends with the reserved area, the invariant is `TypeOK /\ Structure /\ (exhausted \/
Clean)`: the table on the flash is found again by the scan whatever page write was
cut short (`PageWritten`), always; tables are sound and so on, until the area is
exhausted. From it follow `UsableBlocks`, `OthersAreKept`, `LimitIsKept` and, action by action,
`Refinement`: a boot's table changes only when a page is written, and then as
`RelocStore` allows (`StoredStep`, `RelocateStep`).

**NetConsoleProofs.** The ring is separate from the rest: `RingOK` is inductive by
itself (`RingStep`). That a line is sent in time is not: the invariant `Inv` adds
`Parked` (during a loop the parked packet is the line of the puts that runs, or a
packet of TFTP; this is where the resetting of the wait at the start of `NetLoop` is
needed) and `Putting` (in the loop of a puts the console's address becomes known only
when the line is sent, and any other success is a disturbance). Both hold with
whatever handlers an earlier loop has left, so that the iteration on an interface
without an address needs no invariant of its own. For the refinement, `FilledIs` computes the
buffer after a packet, for every position of its end; from it a packet appends to
`Waiting` (`ArriveStep`) and a read takes its head (`TakeStep`).

The actions that model slips are not part of any specification.

## 6. What is only model-checked

- Liveness (`Terminates`, `CommandReturns`, `MarkReturns`, `PollReturns`,
  `PutsReturns`, `InputRead`): TLAPS does not prove temporal
  properties under fairness. Every other property of a passing run is proved.
- The findings, which are counterexamples.

## 7. What is not modelled, and why

- The rest of the sector (`CONFIG_ENV_SECT_SIZE > CONFIG_ENV_SIZE`) only as an
  operation that may fail: losing it in a power failure is documented.
- `malloc` failing in `env_relocate_spec` and `env_relocate`, where the code does
  not check either.
- Contents of the heap that `readenv` leaves in a buffer when it fails.
- Two errors at once on one flash byte beyond "some of the bits to be cleared".
- Bbm: what the write to `rel_dist[-1]` changes on the stack (taken as nothing), and the
  program after the table has outgrown its buffer; marks on blocks of the reserved area
  and on block 0, corrected bit errors
  in table pages (the scan skips such a page; listed as a hazard), the erases and
  writes of the users. The command `bbt` of `board/pxa/common/bbt.c` is commented
  out; the first table comes from the tool that prepares the flash.
- NetConsole: a packet in an iteration before any packet handler was ever set, which is
  a jump through a null pointer; what is printed from inside a network loop (dropped while the
  address is unknown, sent otherwise), and a loop nested in another one while the
  interface is halted, as by a message printed after `eth_halt`; an `eth_init` that
  fails in `NetStartAgain`.
- Multicast TFTP, direct TFTP to flash, port reuse after a restart
  (`PortReuse = TRUE` in `Tftp` shows a corrupted file; listed as a hazard), the
  contents of packets.
- The components marked not_modelled in `PROJECT.json`, with the reason there.
