-------------------------------- MODULE EnvNand --------------------------------
(* The redundant environment in NAND flash: common/env_nand.c built with       *)
(* CONFIG_ENV_OFFSET_REDUND and without ENV_IS_EMBEDDED.                       *)
(*                                                                             *)
(* The two copies carry a serial number of one byte. saveenv counts the serial *)
(* number of the working copy up, erases the area not in use and writes the    *)
(* working copy there; env_relocate_spec loads the copy with the later number. *)
(* The crc in the working copy is computed by setenv, not by saveenv: a setenv *)
(* that overflows leaves it stale, and saveenv stores what no boot accepts.    *)
EXTENDS Naturals

CONSTANTS
  Envs,     \* the possible contents of the environment
  Default,  \* default_environment[]
  None,     \* an area whose crc does not match
  FlagMod   \* 256: the serial number is a byte

ASSUME EnvsAssumption == Default \in Envs /\ None \notin Envs
ASSUME FlagModAssumption == FlagMod \in Nat /\ FlagMod > 2

VARIABLES
  area,       \* the areas at CONFIG_ENV_OFFSET and CONFIG_ENV_OFFSET_REDUND
  env,        \* env_ptr->data, None before relocation
  crc,        \* env_ptr->crc: the environment it was computed from
  flags,      \* env_ptr->flags
  env_valid,  \* the area in use
  pc,         \* "off", "idle", or the next NAND operation of saveenv
  acked,      \* history: the environment last reported as stored, or booted
  attempt,    \* history: the environment the last save that erased was storing
  faulted,    \* history: a saveenv has reported an error since the last boot
  stale       \* history: the last complete save since the boot stored a stale crc

vars == <<area, env, crc, flags, env_valid, pc, acked, attempt, faulted, stale>>

Areas == {1, 2}
Bad == [env |-> None, flags |-> FlagMod - 1]
CrcOk(a, i) == a[i].env # None

\* Slip: the wrap of the serial number is forgotten.
Later_NoWrap(a) == IF a[2].flags > a[1].flags THEN 2 ELSE 1

\* "both ok - check serial"
Later(a) ==
  IF a[1].flags = FlagMod - 1 /\ a[2].flags = 0 THEN 2
  ELSE IF a[2].flags = FlagMod - 1 /\ a[1].flags = 0 THEN 1
  ELSE IF a[1].flags > a[2].flags THEN 1
  ELSE IF a[2].flags > a[1].flags THEN 2
  ELSE 1

\* The area env_relocate_spec loads, 0 for the default environment.
Choice(a) ==
  IF ~CrcOk(a, 1) /\ ~CrcOk(a, 2) THEN 0
  ELSE IF CrcOk(a, 1) /\ ~CrcOk(a, 2) THEN 1
  ELSE IF ~CrcOk(a, 1) /\ CrcOk(a, 2) THEN 2
  ELSE Later(a)

Chosen(a) == IF Choice(a) = 0 THEN Default ELSE a[Choice(a)].env

Init ==
  /\ area = [i \in Areas |-> Bad]
  /\ env = None /\ crc = None
  /\ flags = 0
  /\ env_valid = 1
  /\ pc = "off"
  /\ acked = Default
  /\ attempt = Default
  /\ faulted = FALSE /\ stale = FALSE

\* Slip: the area loaded is not recorded.
Relocate_AreaLost ==
  /\ pc = "off"
  /\ flags' = IF Choice(area) = 0 THEN FlagMod - 1 ELSE area[Choice(area)].flags
  /\ env' = Chosen(area)
  /\ crc' = env' /\ acked' = env' /\ attempt' = env'
  /\ faulted' = FALSE /\ stale' = FALSE
  /\ pc' = "idle"
  /\ UNCHANGED <<area, env_valid>>

\* env_init only says env_valid = 1; env_relocate_spec reads and decides.
Relocate ==
  /\ pc = "off"
  /\ LET c == Choice(area) IN
       /\ env_valid' = IF c = 0 THEN 1 ELSE c
       /\ flags' = IF c = 0 THEN FlagMod - 1 ELSE area[c].flags
       /\ env' = Chosen(area)
  /\ crc' = env' /\ acked' = env' /\ attempt' = env'
  /\ faulted' = FALSE /\ stale' = FALSE
  /\ pc' = "idle"
  /\ UNCHANGED area

SetEnv(v) ==
  /\ pc = "idle"
  /\ env' = v /\ crc' = v
  /\ UNCHANGED <<area, flags, env_valid, pc, acked, attempt, faulted, stale>>

(* setenv deletes the old definition and finds no room for the new one: it     *)
(* returns without computing the crc of what is left.                          *)
SetEnvOverflow(v) ==
  /\ pc = "idle"
  /\ v # crc
  /\ env' = v
  /\ UNCHANGED <<area, crc, flags, env_valid, pc, acked, attempt, faulted, stale>>

\* Slip: the serial number is counted in a wider type.
SaveStart_Wide ==
  /\ pc = "idle"
  /\ flags' = flags + 1
  /\ pc' = "erase"
  /\ UNCHANGED <<area, env, crc, env_valid, acked, attempt, faulted, stale>>

\* saveenv: the serial number is counted up before anything else.
SaveStart ==
  /\ pc = "idle"
  /\ flags' = (flags + 1) % FlagMod
  /\ pc' = "erase"
  /\ UNCHANGED <<area, env, crc, env_valid, acked, attempt, faulted, stale>>

\* Slip: the area in use is overwritten.
Target_InUse == IF env_valid = 1 THEN 1 ELSE 2

Target == IF env_valid = 1 THEN 2 ELSE 1

\* The working copy as env_relocate_spec would read it back.
Working == [env |-> IF crc = env THEN env ELSE None, flags |-> flags]

Erase ==
  /\ pc = "erase"
  /\ area' = [area EXCEPT ![Target] = Bad]
  /\ attempt' = env
  /\ pc' = "write"
  /\ UNCHANGED <<env, crc, flags, env_valid, acked, faulted, stale>>

\* writeenv succeeds and the areas change roles.
Write ==
  /\ pc = "write"
  /\ area' = [area EXCEPT ![Target] = Working]
  /\ env_valid' = Target
  /\ acked' = attempt
  /\ stale' = (crc # env)
  /\ pc' = "idle"
  /\ UNCHANGED <<env, crc, flags, attempt, faulted>>

(* The operation at pc is cut short or reports an error: nothing has happened  *)
(* yet, the area has lost its contents, or the last page was just written.     *)
Torn ==
  \/ UNCHANGED <<area, attempt>>
  \/ /\ pc = "erase"
     /\ area' = [area EXCEPT ![Target] = Bad]
     /\ attempt' = env
  \/ /\ pc = "write"
     /\ area' = [area EXCEPT ![Target] = Working]
     /\ UNCHANGED attempt

\* saveenv returns 1; the serial number stays counted up.
SaveFails ==
  /\ pc \in {"erase", "write"}
  /\ Torn
  /\ faulted' = TRUE
  /\ pc' = "idle"
  /\ UNCHANGED <<env, crc, flags, env_valid, acked, stale>>

PowerFail ==
  /\ pc # "off"
  /\ Torn
  /\ env' = None /\ crc' = None /\ flags' = 0 /\ env_valid' = 1
  /\ pc' = "off"
  /\ UNCHANGED <<acked, faulted, stale>>

Next ==
  \/ Relocate
  \/ \E v \in Envs : SetEnv(v) \/ SetEnvOverflow(v)
  \/ SaveStart \/ Erase \/ Write \/ SaveFails \/ PowerFail

Spec == Init /\ [][Next]_vars

-----------------------------------------------------------------------------
(* Properties. *)

\* Type invariant of the areas, the serial number and the working copy.
TypeOK ==
  /\ area \in [Areas -> [env : Envs \cup {None}, flags : 0 .. FlagMod - 1]]
  /\ env \in Envs \cup {None} /\ crc \in Envs \cup {None}
  /\ flags \in 0 .. FlagMod - 1
  /\ env_valid \in Areas
  /\ pc \in {"off", "idle", "erase", "write"}
  /\ acked \in Envs /\ attempt \in Envs
  /\ faulted \in BOOLEAN /\ stale \in BOOLEAN

(* At every instant, across wraps of the serial number, the copy that          *)
(* env_relocate_spec would load holds the environment last reported as saved   *)
(* (or booted) or the one being saved, if since the last boot no saveenv has   *)
(* reported an error and the last complete one did not store a stale crc. A    *)
(* stale crc that is not stored yet does no harm.                              *)
PowerFailSafe == ~faulted /\ ~stale => Chosen(area) \in {acked, attempt}

(* env_valid, which saveenv goes by, and the boot's choice never disagree in   *)
(* such a run: what the next saveenv erases is not what a boot would load.     *)
InUseIsChosen ==
  pc # "off" /\ ~faulted /\ ~stale => Choice(area) \in {0, env_valid}

(* saveenv returning 0 means that the next boot loads what was saved, if the   *)
(* crc was that of the working copy.                                           *)
SavedIsChosen ==
  [][(pc = "write" /\ pc' = "idle" /\ env_valid' # env_valid /\ crc = env)
       => Chosen(area') = env]_vars

EnvStoreAbs == INSTANCE EnvStore WITH faulted <- faulted \/ stale

(* As long as saveenv reports no error and stores no stale crc the NAND driver *)
(* implements the store, across wraps of the serial number. A complete save    *)
(* with a good crc ends the effect of a stale one.                             *)
ImplementsEnvStore == EnvStoreAbs!Spec
=============================================================================
