----------------------------- MODULE EnvNandProofs -----------------------------
(* Theorems about EnvNand, for every set of environments and every range of    *)
(* the serial number above two.                                                *)
(*                                                                             *)
(* The inductive invariant: while the system runs, env_valid names the area    *)
(* that env_relocate_spec would choose, the serial number is that of the area, *)
(* or one more while a saveenv is under way, and what has been reported as     *)
(* saved is in the area. An error of saveenv breaks the second part, and so    *)
(* does a stale crc that was stored: then the area in use has no valid copy    *)
(* until a save with a good crc is complete, whatever the serial numbers say.  *)
EXTENDS EnvNand, TLAPS

AreaType == [Areas -> [env : Envs \cup {None}, flags : 0 .. FlagMod - 1]]

Next1(n) == (n + 1) % FlagMod

\* The serial number that the area in use has, FlagMod - 1 if there is none.
InUseFlags == IF CrcOk(area, env_valid) THEN area[env_valid].flags ELSE FlagMod - 1

InUse ==
  /\ acked = IF CrcOk(area, env_valid) THEN area[env_valid].env ELSE Default
  /\ CrcOk(area, Target) => CrcOk(area, env_valid) /\ Choice(area) = env_valid
  /\ pc = "idle" => flags = InUseFlags
  /\ pc \in {"erase", "write"} => flags = Next1(InUseFlags)

Inv ==
  /\ TypeOK
  /\ pc # "off" <=> env # None
  /\ pc = "write" => attempt = env /\ ~CrcOk(area, Target)
  /\ pc # "off" /\ stale => ~CrcOk(area, env_valid)
  /\ ~faulted /\ ~stale => Chosen(area) \in {acked, attempt}
  /\ ~faulted /\ ~stale /\ pc # "off" => InUse

-----------------------------------------------------------------------------
(* The serial number. *)

\* Counting up stays in the byte and wraps to 0.
LEMMA CountUp ==
  ASSUME NEW n \in 0 .. FlagMod - 1
  PROVE  /\ Next1(n) \in 0 .. FlagMod - 1
         /\ Next1(n) = IF n = FlagMod - 1 THEN 0 ELSE n + 1
<1>1. CASE n = FlagMod - 1
  <2>1. n + 1 = FlagMod
    BY <1>1, FlagModAssumption
  <2>2. FlagMod % FlagMod = 0
    BY FlagModAssumption
  <2> QED BY <1>1, <2>1, <2>2, FlagModAssumption DEF Next1
<1>2. CASE n # FlagMod - 1
  <2>1. n + 1 \in 0 .. FlagMod - 1
    BY <1>2, FlagModAssumption
  <2>2. (n + 1) % FlagMod = n + 1
    BY <2>1, FlagModAssumption
  <2> QED BY <1>2, <2>1, <2>2 DEF Next1
<1> QED BY <1>1, <1>2

\* Of two copies with successive serial numbers, across the wrap too, the check
\* of env_relocate_spec takes the second.
LEMMA LaterIs ==
  ASSUME NEW a \in AreaType, NEW i \in Areas,
         a[i].flags = Next1(a[3 - i].flags)
  PROVE  Later(a) = i
<1>1. a[1].flags \in 0 .. FlagMod - 1 /\ a[2].flags \in 0 .. FlagMod - 1
  BY DEF AreaType, Areas
<1>2. CASE i = 1
  <2>1. a[1].flags = IF a[2].flags = FlagMod - 1 THEN 0 ELSE a[2].flags + 1
    BY <1>1, <1>2, CountUp
  <2> QED BY <1>1, <1>2, <2>1, FlagModAssumption DEF Later
<1>3. CASE i = 2
  <2>1. a[2].flags = IF a[1].flags = FlagMod - 1 THEN 0 ELSE a[1].flags + 1
    BY <1>1, <1>3, CountUp
  <2> QED BY <1>1, <1>3, <2>1, FlagModAssumption DEF Later
<1> QED BY <1>2, <1>3 DEF Areas

\* env_relocate_spec never chooses a copy whose crc fails.
LEMMA ChoiceForm ==
  ASSUME NEW a \in AreaType
  PROVE  /\ Choice(a) \in {0} \cup Areas
         /\ Choice(a) # 0 => CrcOk(a, Choice(a)) /\ Chosen(a) = a[Choice(a)].env
         /\ Choice(a) = 0 => Chosen(a) = Default /\ \A i \in Areas : ~CrcOk(a, i)
         /\ \A i \in Areas : CrcOk(a, i) /\ ~CrcOk(a, 3 - i) => Choice(a) = i
BY DEF Choice, Chosen, Later, Areas

\* saveenv writes to the area not in use, and there are no others.
LEMMA TwoAreas ==
  ASSUME env_valid \in Areas
  PROVE  /\ Target \in Areas /\ Target # env_valid /\ Target = 3 - env_valid
         /\ env_valid = 3 - Target /\ \A i \in Areas : i = Target \/ i = env_valid
BY DEF Target, Areas

-----------------------------------------------------------------------------
(* Each step keeps the invariant. *)

LEMMA InitInv == Init => Inv
<1> SUFFICES ASSUME Init PROVE Inv
  OBVIOUS
<1>1. Bad \in [env : Envs \cup {None}, flags : 0 .. FlagMod - 1]
  BY FlagModAssumption DEF Bad
<1>2. area \in AreaType /\ \A i \in Areas : ~CrcOk(area, i)
  BY <1>1 DEF Init, AreaType, CrcOk, Bad
<1>3. TypeOK
  <2>1. flags \in 0 .. FlagMod - 1 /\ env_valid \in Areas
    BY FlagModAssumption DEF Init, Areas
  <2>2. /\ env = None /\ crc = None /\ pc = "off" /\ faulted = FALSE /\ stale = FALSE
        /\ acked \in Envs /\ attempt \in Envs
    BY EnvsAssumption DEF Init
  <2> QED BY <1>2, <2>1, <2>2 DEF TypeOK, AreaType
<1>4. Chosen(area) = Default
  BY <1>2, ChoiceForm
<1> QED BY <1>3, <1>4 DEF Init, Inv

\* After a boot env_valid is the area chosen, and the serial number is its own.
LEMMA RelocateInv == Inv /\ Relocate => Inv'
<1> SUFFICES ASSUME Inv, Relocate PROVE Inv'
  OBVIOUS
<1> DEFINE c == Choice(area)
<1>1. area \in AreaType /\ area' = area
  BY DEF Inv, TypeOK, AreaType, Relocate
<1>2. /\ env' = Chosen(area) /\ acked' = Chosen(area) /\ attempt' = Chosen(area)
      /\ crc' = Chosen(area) /\ faulted' = FALSE /\ stale' = FALSE /\ pc' = "idle"
      /\ env_valid' = IF c = 0 THEN 1 ELSE c
      /\ flags' = IF c = 0 THEN FlagMod - 1 ELSE area[c].flags
  BY DEF Relocate
<1>3. Chosen(area) \in Envs /\ Chosen(area) # None
  BY <1>1, ChoiceForm, EnvsAssumption DEF AreaType, CrcOk
<1>4. env_valid' \in Areas /\ flags' \in 0 .. FlagMod - 1
  BY <1>1, <1>2, ChoiceForm, FlagModAssumption DEF AreaType, Areas
<1>5. TypeOK'
  BY <1>1, <1>2, <1>3, <1>4 DEF TypeOK, AreaType
<1>6. InUse'
  <2>1. CASE c = 0
    <3>1. ~CrcOk(area, env_valid') /\ ~CrcOk(area, Target')
      BY <1>1, <1>4, <2>1, ChoiceForm DEF Target, Areas
    <3> QED BY <1>1, <1>2, <2>1, <3>1, ChoiceForm DEF InUse, InUseFlags
  <2>2. CASE c # 0
    BY <1>1, <1>2, <2>2, ChoiceForm DEF InUse, InUseFlags
  <2> QED BY <2>1, <2>2
<1> QED BY <1>1, <1>2, <1>3, <1>5, <1>6 DEF Inv

\* setenv touches the working copy only, when it fails too.
LEMMA SetEnvInv == Inv /\ (\E v \in Envs : SetEnv(v) \/ SetEnvOverflow(v)) => Inv'
<1> SUFFICES ASSUME Inv, NEW v \in Envs, SetEnv(v) \/ SetEnvOverflow(v) PROVE Inv'
  OBVIOUS
<1>1. /\ pc = "idle" /\ pc' = pc /\ env' = v /\ crc' \in {v, crc}
      /\ UNCHANGED <<area, flags, env_valid, acked, attempt, faulted, stale>>
  BY DEF SetEnv, SetEnvOverflow
<1>2. TypeOK'
  BY <1>1 DEF Inv, TypeOK
<1>3. ~faulted /\ ~stale => InUse'
  BY <1>1 DEF Inv, InUse, InUseFlags, Target
<1>4. CrcOk(area', env_valid') <=> CrcOk(area, env_valid)
  BY <1>1
<1> QED BY <1>1, <1>2, <1>3, <1>4, EnvsAssumption DEF Inv

\* The serial number is now one ahead of that of the area in use.
LEMMA SaveStartInv == Inv /\ SaveStart => Inv'
<1> SUFFICES ASSUME Inv, SaveStart PROVE Inv'
  OBVIOUS
<1>1. flags' \in 0 .. FlagMod - 1 /\ flags' = Next1(flags)
  BY CountUp DEF Inv, TypeOK, SaveStart, Next1
<1>2. TypeOK'
  BY <1>1 DEF Inv, TypeOK, SaveStart
<1>3. ~faulted /\ ~stale => InUse'
  BY <1>1 DEF Inv, InUse, InUseFlags, Target, SaveStart
<1> QED BY <1>2, <1>3 DEF Inv, SaveStart

\* The area that saveenv works on loses its contents: the one in use is chosen.
LEMMA Erased ==
  ASSUME Inv, area' = [area EXCEPT ![Target] = Bad]
  PROVE  /\ area' \in AreaType /\ area'[env_valid] = area[env_valid]
         /\ ~CrcOk(area', Target) /\ (CrcOk(area', env_valid) <=> CrcOk(area, env_valid))
         /\ ~faulted /\ ~stale /\ pc # "off" => Chosen(area') = acked
<1>1. area \in AreaType /\ env_valid \in Areas
  BY DEF Inv, TypeOK, AreaType
<1>2. Bad \in [env : Envs \cup {None}, flags : 0 .. FlagMod - 1]
  BY FlagModAssumption DEF Bad
<1>3. area' \in AreaType /\ area'[env_valid] = area[env_valid] /\ area'[Target] = Bad
  BY <1>1, <1>2, TwoAreas DEF AreaType
<1>4. ~CrcOk(area', Target) /\ (CrcOk(area', env_valid) <=> CrcOk(area, env_valid))
  BY <1>3 DEF CrcOk, Bad
<1>5. ASSUME ~faulted, ~stale, pc # "off" PROVE Chosen(area') = acked
  <2>1. acked = IF CrcOk(area, env_valid) THEN area[env_valid].env ELSE Default
    BY <1>5 DEF Inv, InUse
  <2>2. CASE CrcOk(area', env_valid)
    <3>1. Choice(area') = env_valid
      BY <1>1, <1>3, <1>4, <2>2, TwoAreas, ChoiceForm
    <3> QED BY <1>1, <1>3, <1>4, <2>1, <2>2, <3>1, ChoiceForm DEF Areas
  <2>3. CASE ~CrcOk(area', env_valid)
    <3>1. Choice(area') = 0
      BY <1>1, <1>3, <1>4, <2>3, TwoAreas, ChoiceForm
    <3> QED BY <1>3, <1>4, <2>1, <2>3, <3>1, ChoiceForm
  <2> QED BY <2>2, <2>3
<1> QED BY <1>3, <1>4, <1>5

\* The area that saveenv works on is complete: it is chosen, unless its crc is
\* stale, which leaves things as they were after the erase.
LEMMA Written ==
  ASSUME Inv, pc = "write", area' = [area EXCEPT ![Target] = Working]
  PROVE  /\ area' \in AreaType /\ area'[env_valid] = area[env_valid]
         /\ area'[Target] = Working /\ (CrcOk(area', Target) <=> crc = env)
         /\ ~faulted /\ crc = env => Choice(area') = Target /\ Chosen(area') = env
         /\ ~faulted /\ ~stale /\ crc # env => Chosen(area') \in {acked, attempt}
<1>1. /\ area \in AreaType /\ env_valid \in Areas /\ env # None
      /\ env \in Envs \cup {None} /\ flags \in 0 .. FlagMod - 1
  BY DEF Inv, TypeOK, AreaType
<1>2. /\ area' \in AreaType /\ area'[env_valid] = area[env_valid]
      /\ area'[Target] = Working
  <2>1. Working \in [env : Envs \cup {None}, flags : 0 .. FlagMod - 1]
    BY <1>1 DEF Working
  <2> QED BY <1>1, <2>1, TwoAreas DEF AreaType
<1>3. CrcOk(area', Target) <=> crc = env
  BY <1>1, <1>2 DEF CrcOk, Working
<1>4. ASSUME ~faulted, crc = env PROVE Choice(area') = Target
  <2>1. CASE CrcOk(area', env_valid)
    <3>1. ~stale /\ flags = Next1(area[env_valid].flags)
      BY <1>2, <1>4, <2>1 DEF Inv, InUse, InUseFlags, CrcOk
    <3>2. area'[Target].flags = Next1(area'[3 - Target].flags)
      BY <1>1, <1>2, <3>1, TwoAreas DEF Working
    <3>3. Later(area') = Target
      BY <1>1, <1>2, <3>2, TwoAreas, LaterIs
    <3> QED BY <1>1, <1>3, <1>4, <2>1, <3>3, TwoAreas DEF Choice, Areas
  <2>2. CASE ~CrcOk(area', env_valid)
    BY <1>1, <1>2, <1>3, <1>4, <2>2, TwoAreas, ChoiceForm
  <2> QED BY <2>1, <2>2
<1>5. ASSUME ~faulted, crc = env PROVE Chosen(area') = env
  <2>1. Target # 0
    BY <1>1, TwoAreas DEF Areas
  <2>2. Choice(area') = Target
    BY <1>4, <1>5
  <2>3. Chosen(area') = area'[Target].env
    BY ONLY <1>2, <2>1, <2>2, ChoiceForm
  <2> QED BY <1>2, <1>5, <2>3 DEF Working
<1>6. ASSUME ~faulted, ~stale, crc # env PROVE Chosen(area') \in {acked, attempt}
  <2>1. acked = IF CrcOk(area, env_valid) THEN area[env_valid].env ELSE Default
    BY <1>6 DEF Inv, InUse
  <2>2. ~CrcOk(area', Target) /\ (CrcOk(area', env_valid) <=> CrcOk(area, env_valid))
    BY <1>2, <1>3, <1>6 DEF CrcOk
  <2>3. CASE CrcOk(area', env_valid)
    <3>1. Choice(area') = env_valid
      BY <1>1, <1>2, <2>2, <2>3, TwoAreas, ChoiceForm
    <3> QED BY <1>1, <1>2, <2>1, <2>2, <2>3, <3>1, ChoiceForm DEF Areas
  <2>4. CASE ~CrcOk(area', env_valid)
    <3>1. Choice(area') = 0
      BY <1>1, <1>2, <2>2, <2>4, TwoAreas, ChoiceForm
    <3> QED BY <1>2, <2>1, <2>2, <2>4, <3>1, ChoiceForm
  <2> QED BY <2>3, <2>4
<1> QED BY <1>2, <1>3, <1>4, <1>5, <1>6

\* Erasing the other area leaves the area in use as the only choice.
LEMMA EraseInv == Inv /\ Erase => Inv'
<1> SUFFICES ASSUME Inv, Erase PROVE Inv'
  OBVIOUS
<1>1. /\ area' = [area EXCEPT ![Target] = Bad] /\ pc = "erase" /\ pc' = "write" /\ attempt' = env
      /\ env' = env /\ crc' = crc /\ flags' = flags /\ env_valid' = env_valid
      /\ acked' = acked /\ faulted' = faulted /\ stale' = stale /\ Target' = Target
  BY DEF Erase, Target
<1>2. /\ area' \in AreaType /\ area'[env_valid] = area[env_valid]
      /\ ~CrcOk(area', Target) /\ (CrcOk(area', env_valid) <=> CrcOk(area, env_valid))
      /\ ~faulted /\ ~stale => Chosen(area') = acked
  BY <1>1, Erased
<1>3. env # None /\ env \in Envs
  BY <1>1 DEF Inv, TypeOK
<1>4. TypeOK'
  BY <1>1, <1>2, <1>3 DEF Inv, TypeOK, AreaType
<1>5. ~faulted /\ ~stale => InUse'
  BY <1>1, <1>2 DEF Inv, InUse, InUseFlags
<1> QED BY <1>1, <1>2, <1>3, <1>4, <1>5 DEF Inv

\* The area written has the later number, also across the wrap, or no valid copy.
LEMMA WriteInv == Inv /\ Write => Inv'
<1> SUFFICES ASSUME Inv, Write PROVE Inv'
  OBVIOUS
<1>1. /\ pc = "write" /\ pc' = "idle" /\ env_valid' = Target /\ acked' = attempt
      /\ area' = [area EXCEPT ![Target] = Working] /\ (stale' <=> crc # env) /\ stale' \in BOOLEAN
      /\ env' = env /\ crc' = crc /\ flags' = flags /\ attempt' = attempt /\ faulted' = faulted
  BY DEF Write
<1>2. /\ env # None /\ attempt = env /\ env_valid \in Areas
  BY <1>1 DEF Inv, TypeOK
<1>3. /\ area' \in AreaType
      /\ area'[Target] = Working /\ (CrcOk(area', Target) <=> crc = env)
      /\ ~faulted /\ crc = env => Choice(area') = Target /\ Chosen(area') = env
  BY <1>1, Written
<1>4. TypeOK'
  BY <1>1, <1>3, <1>2, TwoAreas DEF Inv, TypeOK, AreaType
<1>5. ~faulted /\ ~stale' => InUse'
  BY <1>1, <1>2, <1>3 DEF InUse, InUseFlags, Working
<1> QED BY <1>1, <1>2, <1>3, <1>4, <1>5 DEF Inv

\* What an operation of saveenv that fails leaves behind.
LEMMA TornArea ==
  ASSUME Inv, Torn, pc # "off"
  PROVE  /\ area' \in AreaType /\ area'[env_valid] = area[env_valid]
         /\ attempt' \in {attempt, env} /\ attempt' \in Envs
         /\ ~faulted /\ ~stale => Chosen(area') \in {acked, attempt'}
<1>1. env # None /\ env \in Envs /\ attempt \in Envs /\ area \in AreaType
  BY DEF Inv, TypeOK, AreaType
<1>2. CASE UNCHANGED <<area, attempt>>
  BY <1>1, <1>2 DEF Inv
<1>3. CASE pc = "erase" /\ area' = [area EXCEPT ![Target] = Bad] /\ attempt' = env
  BY <1>1, <1>3, Erased
<1>4. CASE pc = "write" /\ UNCHANGED attempt /\ area' = [area EXCEPT ![Target] = Working]
  <2>1. attempt = env
    BY <1>4 DEF Inv
  <2> QED BY <1>1, <1>4, <2>1, Written
<1> QED BY <1>2, <1>3, <1>4 DEF Torn

\* A reported error sets faulted, after which only the types count.
LEMMA SaveFailsInv == Inv /\ SaveFails => Inv'
<1> SUFFICES ASSUME Inv, SaveFails PROVE Inv'
  OBVIOUS
<1>1. area' \in AreaType /\ attempt' \in Envs /\ area'[env_valid] = area[env_valid]
  BY TornArea DEF SaveFails
<1>2. TypeOK'
  BY <1>1 DEF Inv, TypeOK, AreaType, SaveFails
<1> QED BY <1>1, <1>2 DEF Inv, SaveFails, CrcOk

\* A power failure keeps a valid copy for the boot to come.
LEMMA PowerFailInv == Inv /\ PowerFail => Inv'
<1> SUFFICES ASSUME Inv, PowerFail PROVE Inv'
  OBVIOUS
<1>1. /\ area' \in AreaType /\ attempt' \in Envs
      /\ ~faulted /\ ~stale => Chosen(area') \in {acked, attempt'}
  BY TornArea DEF PowerFail
<1>2. flags' \in 0 .. FlagMod - 1 /\ env_valid' \in Areas
  BY FlagModAssumption DEF PowerFail, Areas
<1>3. TypeOK'
  BY <1>1, <1>2 DEF Inv, TypeOK, AreaType, PowerFail
<1> QED BY <1>1, <1>3 DEF Inv, PowerFail

\* The invariant speaks of the variables of the module only.
LEMMA StutterInv == Inv /\ UNCHANGED vars => Inv'
<1> SUFFICES ASSUME Inv, UNCHANGED vars PROVE Inv'
  OBVIOUS
<1>1. TypeOK'
  BY DEF Inv, TypeOK, vars
<1>2. InUse => InUse'
  BY DEF InUse, InUseFlags, Target, vars
<1>3. Target' = Target
  BY DEF Target, vars
<1> QED BY <1>1, <1>2, <1>3 DEF Inv, vars

\* Every step keeps the inductive invariant.
LEMMA NextInv == Inv /\ [Next]_vars => Inv'
BY RelocateInv, SetEnvInv, SaveStartInv, EraseInv, WriteInv, SaveFailsInv, PowerFailInv,
   StutterInv DEF Next

-----------------------------------------------------------------------------
(* The theorems. *)

\* The inductive invariant holds of every behaviour.
THEOREM Invariance == Spec => []Inv
<1> QED BY InitInv, NextInv, PTL DEF Spec

\* Areas, serial number and working copy keep their types; the serial number
\* stays a byte.
THEOREM TypeCorrect == Spec => []TypeOK
<1>1. Inv => TypeOK
  BY DEF Inv
<1> QED BY <1>1, Invariance, PTL

\* Across any number of saves and wraps of the serial number, the copy that
\* env_relocate_spec would load is the last one saved or the one being saved,
\* unless saveenv has reported an error or stored a stale crc.
THEOREM PowerFailSafety == Spec => []PowerFailSafe
<1>1. Inv => PowerFailSafe
  BY DEF Inv, PowerFailSafe
<1> QED BY <1>1, Invariance, PTL

\* The area that saveenv takes for the one in use is the one that a boot at this
\* moment would choose, in every step of saveenv and across the wrap.
THEOREM InUseChosen == Spec => []InUseIsChosen
<1>1. ASSUME Inv, pc # "off", ~faulted, ~stale PROVE Choice(area) \in {0, env_valid}
  <2>1. area \in AreaType /\ env_valid \in Areas /\ InUse
    BY <1>1 DEF Inv, TypeOK, AreaType
  <2>2. CASE CrcOk(area, Target)
    BY <2>1, <2>2 DEF InUse
  <2>3. CASE ~CrcOk(area, Target)
    BY <2>1, <2>3, TwoAreas, ChoiceForm
  <2> QED BY <2>2, <2>3
<1> QED BY <1>1, Invariance, PTL DEF InUseIsChosen

\* Without errors of saveenv and without a stale crc stored the driver implements
\* the store, and a boot or a complete save with a good crc starts it afresh.
THEOREM Implementation == Spec => ImplementsEnvStore
<1> USE DEF EnvStoreAbs!vars
<1>1. Init => EnvStoreAbs!Init
  BY DEF Init, EnvStoreAbs!Init
<1>2. ASSUME Inv, [Next]_vars PROVE [EnvStoreAbs!Next]_EnvStoreAbs!vars
  <2> DEFINE Kept == UNCHANGED <<env, acked, attempt, faulted, stale>>
             Void == faulted \/ stale
  <2>1. /\ faulted \in BOOLEAN /\ faulted' \in BOOLEAN /\ stale \in BOOLEAN /\ stale' \in BOOLEAN
        /\ (pc # "off" <=> env # None)
    BY <1>2, NextInv DEF Inv, TypeOK
  <2>2. CASE Void'
    BY <2>2 DEF EnvStoreAbs!Next
  <2>3. CASE ~Void' /\ Void
    <3>1. CASE Relocate
      <4>1. env' = acked' /\ env' = attempt' /\ acked' \in Envs
        BY <1>2, <3>1, NextInv DEF Relocate, Inv, TypeOK
      <4> QED BY <2>3, <4>1 DEF EnvStoreAbs!Next, EnvStoreAbs!Recover
    <3>2. CASE Write
      <4>1. env' = acked' /\ env' = attempt' /\ acked' \in Envs
        BY <1>2, <3>2, NextInv DEF Write, Inv, TypeOK
      <4> QED BY <2>3, <4>1 DEF EnvStoreAbs!Next, EnvStoreAbs!Recover
    <3> QED
      BY <1>2, <2>3, <3>1, <3>2
      DEF Next, vars, SetEnv, SetEnvOverflow, SaveStart, Erase, SaveFails, PowerFail
  <2>4. CASE ~Void' /\ ~Void
    <3>1. SUFFICES Kept \/ EnvStoreAbs!Promise
      BY <2>1, <2>4 DEF EnvStoreAbs!Next
    <3>2. CASE Relocate
      <4>1. env = None /\ Chosen(area) \in {acked, attempt}
        BY <1>2, <2>4, <3>2 DEF Relocate, Inv
      <4> QED BY <3>2, <4>1 DEF Relocate, EnvStoreAbs!Promise, EnvStoreAbs!Boot
    <3>3. CASE \E v \in Envs : SetEnv(v) \/ SetEnvOverflow(v)
      BY <2>1, <3>3 DEF SetEnv, SetEnvOverflow, EnvStoreAbs!Promise, EnvStoreAbs!SetEnv
    <3>4. CASE SaveStart \/ UNCHANGED vars
      BY <3>4 DEF SaveStart, vars
    <3>5. CASE Erase
      BY <2>1, <3>5 DEF Erase, EnvStoreAbs!Promise, EnvStoreAbs!SaveBegin
    <3>6. CASE Write
      BY <2>1, <3>6 DEF Write, EnvStoreAbs!Promise, EnvStoreAbs!SaveDone
    <3>7. CASE SaveFails
      BY <2>4, <3>7 DEF SaveFails
    <3>8. CASE PowerFail
      <4>1. attempt' \in {attempt, env} /\ attempt' # None
        BY <1>2, <3>8, TornArea, EnvsAssumption DEF PowerFail
      <4> QED BY <3>8, <4>1 DEF PowerFail, EnvStoreAbs!Promise, EnvStoreAbs!PowerFail
    <3> QED BY <1>2, <3>2, <3>3, <3>4, <3>5, <3>6, <3>7, <3>8 DEF Next
  <2> QED BY <2>1, <2>2, <2>3, <2>4
<1> QED BY <1>1, <1>2, Invariance, PTL DEF Spec, ImplementsEnvStore, EnvStoreAbs!Spec
=============================================================================
