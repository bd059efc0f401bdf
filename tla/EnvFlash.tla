------------------------------- MODULE EnvFlash -------------------------------
(* The redundant environment in NOR flash: common/env_flash.c built with       *)
(* CONFIG_ENV_ADDR_REDUND, and env_relocate of common/env_common.c.            *)
(*                                                                             *)
(* Two flash sectors each hold a copy: data, its crc and a flag byte. saveenv  *)
(* rewrites the copy not in use and then exchanges the two roles by programming*)
(* the flag bytes; env_init picks a copy at boot and env_relocate_spec repairs *)
(* the flags. The power may fail at every flash operation, and every flash     *)
(* operation of saveenv may report an error.                                   *)
(*                                                                             *)
(* The crc of the working copy is computed by setenv, not by saveenv: a setenv *)
(* that overflows leaves it stale, and saveenv writes it as it is.             *)
(*                                                                             *)
(* A flag byte is the set of its bits that are 1: erasing a sector sets them   *)
(* all, programming can only clear some. A step of the model is the code up to *)
(* and including its next flash operation; pc names the one to be done next.   *)
EXTENDS Naturals

CONSTANTS
  Envs,     \* the possible contents of the environment
  Default,  \* default_environment[]
  None,     \* data or crc that match nothing (erased or half written)
  Bits,     \* the bits of the flag byte
  UpData,   \* CONFIG_ENV_SECT_SIZE > CONFIG_ENV_SIZE: the sector has a rest
  Faults    \* which of the events below may happen

ASSUME EnvsAssumption == Default \in Envs /\ None \notin Envs
ASSUME BitsAssumption == 0 \in Bits /\ Bits # {0}
ASSUME UpDataAssumption == UpData \in BOOLEAN
ASSUME FaultsAssumption ==
  Faults \subseteq {"torn_flag",  \* a power failure leaves a flag byte half programmed
                    "restore",    \* writing back the rest of the sector fails
                    "repair",     \* a flag write of env_relocate_spec fails
                    "overflow"}   \* setenv finds no room for the new definition

VARIABLES
  sect,       \* the two sectors: data, crc and flags
  flash_addr, \* the copy in use; flash_addr_new is the other
  env_addr,   \* the copy env_init chose, 0 for the built-in default
  env_valid,  \* gd->env_valid
  env,        \* env_ptr->data, None before relocation
  crc,        \* env_ptr->crc: the environment it was computed from
  pc,         \* the next flash operation
  acked,      \* history: the environment last reported as stored, or booted
  attempt,    \* history: the environment the last save that erased was storing
  faulted,    \* history: one of the flash operations in Faults has gone wrong
  stale       \* history: the last complete save since the boot stored a stale crc

vars == <<sect, flash_addr, env_addr, env_valid, env, crc, pc, acked, attempt, faulted, stale>>

Copies == {1, 2}
flash_addr_new == 3 - flash_addr

ACTIVE_FLAG == {0}
OBSOLETE_FLAG == {}
ERASED_FLAG == Bits

\* Slip: erased data and an erased crc pass for a match.
CrcOk_Erased(s, i) == s[i].crc = s[i].data

\* crc32(0, data, ENV_SIZE) == crc
CrcOk(s, i) == s[i].data # None /\ s[i].crc = s[i].data

(* The copy env_init chooses from the sectors s. Two valid copies whose flag   *)
(* bytes are neither equal nor one of the expected pairs match no branch; then *)
(* gd, which board_init clears, still says env_valid = 0.                      *)
Choice(s) ==
  LET flag1 == s[1].flags
      flag2 == s[2].flags
  IN  IF CrcOk(s, 1) /\ ~CrcOk(s, 2) THEN 1
      ELSE IF ~CrcOk(s, 1) /\ CrcOk(s, 2) THEN 2
      ELSE IF ~CrcOk(s, 1) /\ ~CrcOk(s, 2) THEN 0
      ELSE IF flag1 = ACTIVE_FLAG /\ flag2 = OBSOLETE_FLAG THEN 1
      ELSE IF flag1 = OBSOLETE_FLAG /\ flag2 = ACTIVE_FLAG THEN 2
      ELSE IF flag1 = flag2 THEN 1
      ELSE IF flag1 = ERASED_FLAG THEN 1
      ELSE IF flag2 = ERASED_FLAG THEN 2 ELSE 0

\* The flags of the two copies are in order: env_init leaves env_valid at 1.
Orderly(s) ==
  \/ CrcOk(s, 1) # CrcOk(s, 2)
  \/ s[1].flags = ACTIVE_FLAG /\ s[2].flags = OBSOLETE_FLAG
  \/ s[1].flags = OBSOLETE_FLAG /\ s[2].flags = ACTIVE_FLAG

\* The environment the next boot would end up with.
Chosen(s) == IF Choice(s) = 0 THEN Default ELSE s[Choice(s)].data

Init ==
  /\ sect = [i \in Copies |-> [data |-> None, crc |-> None, flags |-> ERASED_FLAG]]
  /\ flash_addr = 1
  /\ env_addr = 0
  /\ env_valid = 0
  /\ env = None /\ crc = None
  /\ pc = "off"
  /\ acked = Default
  /\ attempt = Default
  /\ faulted = FALSE /\ stale = FALSE

-----------------------------------------------------------------------------
(* Flash operations. *)

SetFlags(i, f) == [sect EXCEPT ![i].flags = f]

\* Programming clears bits of the byte, and sets none.
Program(i, flag) == SetFlags(i, sect[i].flags \cap flag)

\* A flag write gone wrong: some of the bits to be cleared are cleared.
PartlyProgrammed(i, flag) ==
  {SetFlags(i, f) : f \in {g \in SUBSET sect[i].flags : sect[i].flags \cap flag \subseteq g}}

\* A flag write is cut short or reports an error, yet the byte is as asked or torn.
TornFlag(i, flag) ==
  \/ sect' = Program(i, flag) /\ UNCHANGED faulted
  \/ /\ "torn_flag" \in Faults
     /\ sect' \in PartlyProgrammed(i, flag)
     /\ faulted' = TRUE

\* env_relocate_spec finds the other copy still marked, or its own half marked.
OtherNeedsRepair(cur) == sect[3 - cur].flags # OBSOLETE_FLAG /\ CrcOk(sect, 3 - cur)
OwnNeedsRepair(cur) == sect[cur].flags # ACTIVE_FLAG /\ ACTIVE_FLAG \subseteq sect[cur].flags

(* The flash operation at pc is cut short or reports an error. An erase that   *)
(* has begun leaves a sector whose crc fails, with any flag byte.              *)
Torn ==
  \/ UNCHANGED <<sect, attempt, faulted>>
  \/ /\ pc = "erase"
     /\ \E f \in SUBSET Bits :
          sect' = [sect EXCEPT ![flash_addr_new] = [data |-> None, crc |-> None, flags |-> f]]
     /\ attempt' = env
     /\ UNCHANGED faulted
  \/ /\ pc = "data"
     /\ sect' = [sect EXCEPT ![flash_addr_new].data = None]
     /\ UNCHANGED <<attempt, faulted>>
  \/ /\ pc = "crc"
     /\ sect' = [sect EXCEPT ![flash_addr_new].crc = crc]
     /\ UNCHANGED <<attempt, faulted>>
  \/ /\ pc = "obsolete"
     /\ TornFlag(flash_addr, OBSOLETE_FLAG)
     /\ UNCHANGED attempt
  \/ /\ pc = "activate"
     /\ TornFlag(flash_addr_new, ACTIVE_FLAG)
     /\ UNCHANGED attempt
  \/ /\ pc = "relocate" /\ env_valid # 0 /\ OtherNeedsRepair(env_addr)
     /\ TornFlag(3 - env_addr, OBSOLETE_FLAG)
     /\ UNCHANGED attempt
  \/ /\ pc = "repair" /\ OwnNeedsRepair(flash_addr)
     /\ TornFlag(flash_addr, ACTIVE_FLAG)
     /\ UNCHANGED attempt

-----------------------------------------------------------------------------
(* Boot. *)

\* board_init: gd and the initialised data are fresh, then env_init.
EnvInit ==
  /\ pc = "off"
  /\ env_addr' = Choice(sect)
  /\ env_valid' = IF Choice(sect) = 0 THEN 0 ELSE IF Orderly(sect) THEN 1 ELSE 2
  /\ pc' = "relocate"
  /\ UNCHANGED <<sect, flash_addr, env, crc, acked, attempt, faulted, stale>>

\* env_relocate without a valid copy: set_default_env.
SetDefaultEnv ==
  /\ pc = "relocate" /\ env_valid = 0
  /\ env' = Default /\ crc' = Default
  /\ env_valid' = 1
  /\ acked' = Default /\ attempt' = Default /\ stale' = FALSE
  /\ pc' = "idle"
  /\ UNCHANGED <<sect, flash_addr, env_addr, faulted>>

(* A flag write of env_relocate_spec. Its result is ignored.                   *)
Repair(i, flag) ==
  /\ env_valid' = 2
  /\ \/ sect' = Program(i, flag) /\ UNCHANGED faulted
     \/ "repair" \in Faults /\ sect' \in PartlyProgrammed(i, flag) /\ faulted' = TRUE

\* Slip: the pointers are not exchanged when the copy chosen is the second.
RelocateSpec_NoSwap ==
  /\ pc = "relocate" /\ env_valid # 0
  /\ IF OtherNeedsRepair(flash_addr)
       THEN Repair(flash_addr_new, OBSOLETE_FLAG)
       ELSE UNCHANGED <<sect, env_valid, faulted>>
  /\ pc' = "repair"
  /\ UNCHANGED <<flash_addr, env_addr, env, crc, acked, attempt, stale>>

\* env_relocate_spec up to the flag write that retires the other copy.
RelocateSpec ==
  /\ pc = "relocate" /\ env_valid # 0
  /\ flash_addr' = env_addr
  /\ IF OtherNeedsRepair(env_addr)
       THEN Repair(3 - env_addr, OBSOLETE_FLAG)
       ELSE UNCHANGED <<sect, env_valid, faulted>>
  /\ pc' = "repair"
  /\ UNCHANGED <<env_addr, env, crc, acked, attempt, stale>>

\* ... up to the flag write that completes the mark of the copy in use.
RepairOwn ==
  /\ pc = "repair"
  /\ IF OwnNeedsRepair(flash_addr)
       THEN Repair(flash_addr, ACTIVE_FLAG)
       ELSE UNCHANGED <<sect, env_valid, faulted>>
  /\ pc' = "load"
  /\ UNCHANGED <<flash_addr, env_addr, env, crc, acked, attempt, stale>>

\* Slip: the other copy is loaded.
Load_Other ==
  /\ pc = "load"
  /\ env' = sect[flash_addr_new].data /\ crc' = sect[flash_addr_new].crc
  /\ acked' = env' /\ attempt' = env' /\ stale' = FALSE
  /\ pc' = "idle"
  /\ UNCHANGED <<sect, flash_addr, env_addr, env_valid, faulted>>

\* ... and the copy into RAM.
Load ==
  /\ pc = "load"
  /\ env' = sect[flash_addr].data /\ crc' = sect[flash_addr].crc
  /\ acked' = env' /\ attempt' = env' /\ stale' = FALSE
  /\ pc' = "idle"
  /\ UNCHANGED <<sect, flash_addr, env_addr, env_valid, faulted>>

-----------------------------------------------------------------------------
(* The running system. *)

\* setenv changes the working copy and its crc.
SetEnv(v) ==
  /\ pc = "idle"
  /\ env' = v /\ crc' = v
  /\ UNCHANGED <<sect, flash_addr, env_addr, env_valid, pc, acked, attempt, faulted, stale>>

(* setenv deletes the old definition and finds no room for the new one: it     *)
(* returns without computing the crc of what is left.                          *)
SetEnvOverflow(v) ==
  /\ pc = "idle" /\ "overflow" \in Faults
  /\ v # crc
  /\ env' = v
  /\ UNCHANGED <<sect, flash_addr, env_addr, env_valid, crc, pc, acked, attempt, faulted, stale>>

\* saveenv: both sectors are unprotected and the rest of the sector saved.
SaveStart ==
  /\ pc = "idle"
  /\ pc' = "erase"
  /\ UNCHANGED <<sect, flash_addr, env_addr, env_valid, env, crc, acked, attempt, faulted, stale>>

EraseNew ==
  /\ pc = "erase"
  /\ sect' = [sect EXCEPT ![flash_addr_new] =
                [data |-> None, crc |-> None, flags |-> ERASED_FLAG]]
  /\ attempt' = env
  /\ pc' = "data"
  /\ UNCHANGED <<flash_addr, env_addr, env_valid, env, crc, acked, faulted, stale>>

WriteData ==
  /\ pc = "data"
  /\ sect' = [sect EXCEPT ![flash_addr_new].data = env]
  /\ pc' = "crc"
  /\ UNCHANGED <<flash_addr, env_addr, env_valid, env, crc, acked, attempt, faulted, stale>>

WriteCrc ==
  /\ pc = "crc"
  /\ sect' = [sect EXCEPT ![flash_addr_new].crc = crc]
  /\ pc' = "obsolete"
  /\ UNCHANGED <<flash_addr, env_addr, env_valid, env, crc, acked, attempt, faulted, stale>>

\* Slip: the copy just written is retired.
WriteObsolete_New ==
  /\ pc = "obsolete"
  /\ sect' = Program(flash_addr_new, OBSOLETE_FLAG)
  /\ pc' = "activate"
  /\ UNCHANGED <<flash_addr, env_addr, env_valid, env, crc, acked, attempt, faulted, stale>>

WriteObsolete ==
  /\ pc = "obsolete"
  /\ sect' = Program(flash_addr, OBSOLETE_FLAG)
  /\ pc' = "activate"
  /\ UNCHANGED <<flash_addr, env_addr, env_valid, env, crc, acked, attempt, faulted, stale>>

WriteActive ==
  /\ pc = "activate"
  /\ sect' = Program(flash_addr_new, ACTIVE_FLAG)
  /\ pc' = "restore"
  /\ UNCHANGED <<flash_addr, env_addr, env_valid, env, crc, acked, attempt, faulted, stale>>

\* Slip: the roles are not exchanged.
SaveDone_NoSwap ==
  /\ pc = "restore"
  /\ acked' = attempt /\ stale' = (crc # env)
  /\ pc' = "idle"
  /\ UNCHANGED <<sect, flash_addr, env_addr, env_valid, env, crc, attempt, faulted>>

\* The rest of the sector is written back, the roles are exchanged, rc = 0.
SaveDone ==
  /\ pc = "restore"
  /\ flash_addr' = flash_addr_new
  /\ acked' = attempt /\ stale' = (crc # env)
  /\ pc' = "idle"
  /\ UNCHANGED <<sect, env_addr, env_valid, env, crc, attempt, faulted>>

\* Writing back the rest fails: Done is reached without the exchange, rc is 0.
RestoreFails ==
  /\ pc = "restore" /\ UpData /\ "restore" \in Faults
  /\ acked' = attempt /\ stale' = (crc # env)
  /\ faulted' = TRUE
  /\ pc' = "idle"
  /\ UNCHANGED <<sect, flash_addr, env_addr, env_valid, env, crc, attempt>>

\* Any earlier error: Done is reached without the exchange, rc is not 0.
SaveFails ==
  /\ pc \in {"erase", "data", "crc", "obsolete", "activate"}
  /\ Torn
  /\ pc' = "idle"
  /\ UNCHANGED <<flash_addr, env_addr, env_valid, env, crc, acked, stale>>

PowerFail ==
  /\ pc # "off"
  /\ Torn
  /\ flash_addr' = 1 /\ env_addr' = 0 /\ env_valid' = 0
  /\ env' = None /\ crc' = None
  /\ pc' = "off"
  /\ UNCHANGED <<acked, stale>>

Next ==
  \/ EnvInit \/ SetDefaultEnv \/ RelocateSpec \/ RepairOwn \/ Load
  \/ \E v \in Envs : SetEnv(v) \/ SetEnvOverflow(v)
  \/ SaveStart \/ EraseNew \/ WriteData \/ WriteCrc \/ WriteObsolete
  \/ WriteActive \/ SaveDone \/ RestoreFails \/ SaveFails
  \/ PowerFail

Spec == Init /\ [][Next]_vars

-----------------------------------------------------------------------------
(* Properties. *)

SectorType ==
  [data : Envs \cup {None}, crc : Envs \cup {None}, flags : SUBSET Bits]

\* Type invariant of the two sectors, the pointers and the working copy.
TypeOK ==
  /\ sect \in [Copies -> SectorType]
  /\ flash_addr \in Copies
  /\ env_addr \in {0} \cup Copies
  /\ env_valid \in 0..2
  /\ env \in Envs \cup {None} /\ crc \in Envs \cup {None}
  /\ pc \in {"off", "relocate", "repair", "load", "idle", "erase", "data",
             "crc", "obsolete", "activate", "restore"}
  /\ acked \in Envs /\ attempt \in Envs
  /\ faulted \in BOOLEAN /\ stale \in BOOLEAN

(* The copy env_init would choose after a power failure holds the environment  *)
(* last reported as saved (or booted) or the one being saved. This is what the *)
(* README says the second copy is for.                                         *)
ValidBackup == Chosen(sect) \in {acked, attempt}

(* Without a flash fault that is so at every instant of a saveenv or a boot,   *)
(* whatever flash operations of saveenv failed before, unless the last saveenv *)
(* that returned 0 since the boot stored a stale crc. A stale crc in the       *)
(* working copy, and a save of it that is cut short, do no harm.               *)
PowerFailSafe == ~faulted /\ ~stale => ValidBackup

(* No flag write of env_relocate_spec changes which environment env_init would *)
(* choose: a power failure during the repair cannot change the decision.       *)
RepairStable ==
  [][(pc \in {"relocate", "repair"} /\ ~faulted') => Chosen(sect') = Chosen(sect)]_vars

(* When saveenv returns 0, with whatever faults before, the environment it was *)
(* asked to save is the one the next boot would choose, if the crc was that of *)
(* the working copy.                                                           *)
SavedIsChosen ==
  [][(pc = "restore" /\ pc' = "idle" /\ crc = env) => Chosen(sect') = env]_vars

EnvStoreAbs == INSTANCE EnvStore WITH faulted <- faulted \/ stale

(* Up to a fault the driver implements the store: every boot ends with the     *)
(* last environment reported as saved or the one a failed or interrupted       *)
(* saveenv was writing, and all later boots agree with it. A stale crc that    *)
(* was stored suspends this until a boot, or a save with a good crc, is done.  *)
ImplementsEnvStore == EnvStoreAbs!Spec
=============================================================================
