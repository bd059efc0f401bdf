---------------------------- MODULE EnvFlashProofs ----------------------------
(* Theorems about EnvFlash, for every set of environments, every width of the  *)
(* flag byte and every choice of faults.                                       *)
(*                                                                             *)
(* The inductive invariant has two parts. Whatever the faults, saveenv has     *)
(* done by pc what the code before pc does (Progress). Until a fault happens,  *)
(* the flag bytes are in an order from which env_init reads the right copy     *)
(* (Sound): the copy in use holds what was last reported as saved, or, after a *)
(* save of a stale crc, is one that no boot accepts.                           *)
EXTENDS EnvFlash, TLAPS

Sectors == [Copies -> SectorType]
Flags == {ACTIVE_FLAG, OBSOLETE_FLAG, ERASED_FLAG}
Running == {"idle", "erase", "data", "crc", "obsolete", "activate", "restore"}

\* What boot and saveenv have done when they reach pc.
Progress ==
  /\ pc \in Running <=> env # None
  /\ pc = "relocate" => env_addr = Choice(sect) /\ (env_valid = 0 <=> env_addr = 0)
  /\ pc \in {"repair", "load"} => CrcOk(sect, flash_addr)
  /\ pc \in {"data", "crc", "obsolete", "activate", "restore"} => attempt = env
  /\ pc \in {"data", "crc", "obsolete", "activate"} => sect[flash_addr_new].flags = ERASED_FLAG
  /\ pc \in {"data", "crc"} => sect[flash_addr_new].crc = None
  /\ pc \in {"crc", "obsolete", "activate", "restore"} => sect[flash_addr_new].data = env
  /\ pc \in {"obsolete", "activate", "restore"} => sect[flash_addr_new].crc = crc
  /\ pc \in {"activate", "restore"} => sect[flash_addr].flags = OBSOLETE_FLAG
  /\ pc = "restore" => sect[flash_addr_new].flags = ACTIVE_FLAG

\* No valid copy has a torn flag byte, and the flags of two valid copies differ.
Healthy(s) ==
  /\ \A i \in Copies : CrcOk(s, i) => s[i].flags \in Flags
  /\ CrcOk(s, 1) /\ CrcOk(s, 2) => s[1].flags # s[2].flags

\* The copy u in use holds a, what was last reported as stored.
InUse(s, u, a) ==
  /\ CrcOk(s, u) => s[u].data = a /\ s[u].flags \in {ACTIVE_FLAG, OBSOLETE_FLAG}
  /\ ~CrcOk(s, u) => a = Default

\* The other copy than u is retired, or holds b, the attempt of a failed save.
Other(s, u, b) ==
  CrcOk(s, 3 - u) =>
    \/ s[3 - u].data = b /\ s[3 - u].flags \in {ERASED_FLAG, ACTIVE_FLAG}
    \/ s[3 - u].flags = OBSOLETE_FLAG /\ CrcOk(s, u)

Retired(s, u) == CrcOk(s, 3 - u) => s[3 - u].flags = OBSOLETE_FLAG

\* The roles of the two copies while the system runs, st if the copy u in use was
\* written with a stale crc.
Roles(s, u, a, b, st) ==
  /\ Healthy(s)
  /\ IF st THEN ~CrcOk(s, u) ELSE InUse(s, u, a) /\ Other(s, u, b)

Sound ==
  /\ Healthy(sect)
  /\ ~stale => ValidBackup
  /\ pc \in {"repair", "load"} => Retired(sect, flash_addr)
  /\ pc = "load" => sect[flash_addr].flags \in {ACTIVE_FLAG, OBSOLETE_FLAG}
  /\ pc \in Running => Roles(sect, flash_addr, acked, attempt, stale)

Inv == TypeOK /\ Progress /\ (~faulted => Sound)

-----------------------------------------------------------------------------
(* The flag byte and env_init's choice. *)

\* The three flag values differ, programming leads from one to another of them,
\* and OwnNeedsRepair's test finds bit 0 in the erased byte.
LEMMA FlagFacts ==
  /\ ACTIVE_FLAG \in SUBSET Bits /\ OBSOLETE_FLAG \in SUBSET Bits /\ ERASED_FLAG \in SUBSET Bits
  /\ ACTIVE_FLAG # OBSOLETE_FLAG /\ ACTIVE_FLAG # ERASED_FLAG /\ OBSOLETE_FLAG # ERASED_FLAG
  /\ \A f : f \cap OBSOLETE_FLAG = OBSOLETE_FLAG
  /\ \A f \in Flags : f \cap ACTIVE_FLAG = IF f = OBSOLETE_FLAG THEN OBSOLETE_FLAG ELSE ACTIVE_FLAG
  /\ \A f \in Flags : ACTIVE_FLAG \subseteq f <=> f # OBSOLETE_FLAG
  /\ \A f \in SUBSET Bits : \A g : f \cap g \in SUBSET Bits
BY BitsAssumption DEF Flags, ACTIVE_FLAG, OBSOLETE_FLAG, ERASED_FLAG

\* env_init knows no copy but these two.
LEMMA OtherCopy ==
  /\ Copies = {1, 2}
  /\ \A i \in Copies : 3 - i \in Copies /\ 3 - i # i /\ 3 - (3 - i) = i /\ i # 0
BY DEF Copies

\* env_init chooses a copy whose crc is right, and with two of them the one that
\* was erased and not yet marked, else the active one.
LEMMA ChoiceIs ==
  ASSUME NEW s \in Sectors, NEW i \in Copies, Healthy(s), CrcOk(s, i),
         CrcOk(s, 3 - i) =>
           \/ s[i].flags = ERASED_FLAG
           \/ s[i].flags = ACTIVE_FLAG /\ s[3 - i].flags = OBSOLETE_FLAG
  PROVE  Choice(s) = i /\ Chosen(s) = s[i].data
<1> USE FlagFacts DEF Copies
<1>1. CASE i = 1 /\ ~CrcOk(s, 2)
  BY <1>1 DEF Choice, Chosen
<1>2. CASE i = 2 /\ ~CrcOk(s, 1)
  BY <1>2 DEF Choice, Chosen
<1>3. CASE i = 1 /\ CrcOk(s, 2)
  BY <1>3 DEF Choice, Chosen, Healthy
<1>4. CASE i = 2 /\ CrcOk(s, 1)
  BY <1>4 DEF Choice, Chosen, Healthy
<1> QED BY <1>1, <1>2, <1>3, <1>4

\* The converse: whatever env_init chooses has that form.
LEMMA ChoiceForm ==
  ASSUME NEW s \in Sectors, Healthy(s)
  PROVE  \/ /\ Choice(s) = 0 /\ Chosen(s) = Default
            /\ \A i \in Copies : ~CrcOk(s, i)
         \/ /\ Choice(s) \in Copies /\ Chosen(s) = s[Choice(s)].data
            /\ CrcOk(s, Choice(s))
            /\ CrcOk(s, 3 - Choice(s)) =>
                 \/ s[Choice(s)].flags = ERASED_FLAG
                 \/ /\ s[Choice(s)].flags = ACTIVE_FLAG
                    /\ s[3 - Choice(s)].flags = OBSOLETE_FLAG
<1> USE FlagFacts DEF Copies
<1>1. CASE ~CrcOk(s, 1) /\ ~CrcOk(s, 2)
  BY <1>1 DEF Choice, Chosen
<1>2. CASE CrcOk(s, 1) /\ ~CrcOk(s, 2)
  BY <1>2, ChoiceIs
<1>3. CASE ~CrcOk(s, 1) /\ CrcOk(s, 2)
  BY <1>3, ChoiceIs
<1>4. CASE CrcOk(s, 1) /\ CrcOk(s, 2)
  <2>1. s[1].flags \in Flags /\ s[2].flags \in Flags /\ s[1].flags # s[2].flags
    BY <1>4 DEF Healthy
  <2>2. \E i \in Copies :
          \/ s[i].flags = ERASED_FLAG
          \/ s[i].flags = ACTIVE_FLAG /\ s[3 - i].flags = OBSOLETE_FLAG
    BY <2>1 DEF Flags
  <2> QED BY <1>4, <2>2, ChoiceIs
<1> QED BY <1>1, <1>2, <1>3, <1>4

\* With the roles in order a power failure leaves one of the two environments.
LEMMA RolesMakeBackup ==
  ASSUME NEW s \in Sectors, NEW u \in Copies, NEW a, NEW b,
         Healthy(s), InUse(s, u, a), Other(s, u, b)
  PROVE  Chosen(s) \in {a, b}
<1> DEFINE n == 3 - u
<1>1. n \in Copies /\ 3 - n = u
  BY OtherCopy
<1>2. CASE ~CrcOk(s, u) /\ ~CrcOk(s, n)
  BY <1>2, ChoiceForm, OtherCopy DEF InUse, Copies
<1>3. CASE CrcOk(s, u) /\ ~CrcOk(s, n)
  BY <1>3, ChoiceIs DEF InUse
<1>4. CASE ~CrcOk(s, u) /\ CrcOk(s, n)
  BY <1>1, <1>4, ChoiceIs DEF Other
<1>5. CASE CrcOk(s, u) /\ CrcOk(s, n)
  <2>1. s[u].flags # s[n].flags
    BY <1>5 DEF Healthy, Copies
  <2>2. CASE s[n].flags = OBSOLETE_FLAG
    BY <1>5, <2>1, <2>2, ChoiceIs DEF InUse
  <2>3. CASE s[n].flags = ERASED_FLAG /\ s[n].data = b
    BY <1>1, <1>5, <2>3, ChoiceIs
  <2>4. CASE s[n].flags = ACTIVE_FLAG /\ s[n].data = b
    BY <1>1, <1>5, <2>1, <2>4, ChoiceIs DEF InUse
  <2> QED BY <1>5, <2>2, <2>3, <2>4 DEF Other
<1> QED BY <1>2, <1>3, <1>4, <1>5

-----------------------------------------------------------------------------
(* The flash operations. *)

\* The sectors s with the flag byte of copy i changed to f.
WithFlags(s, i, f) == [s EXCEPT ![i].flags = f]

\* A flag write changes one flag byte and no crc check.
LEMMA FlagWrite ==
  ASSUME NEW s \in Sectors, NEW i \in Copies, NEW f \in SUBSET Bits,
         NEW t, t = WithFlags(s, i, f)
  PROVE  /\ t \in Sectors
         /\ t[i].flags = f /\ t[i].data = s[i].data /\ t[i].crc = s[i].crc
         /\ t[3 - i] = s[3 - i]
         /\ \A j \in Copies : CrcOk(t, j) <=> CrcOk(s, j)
<1>1. t \in Sectors
  BY DEF WithFlags, Sectors, SectorType
<1>2. t[i].flags = f /\ t[i].data = s[i].data /\ t[i].crc = s[i].crc
  BY DEF WithFlags, Sectors, SectorType
<1>3. \A j \in Copies : j # i => t[j] = s[j]
  BY DEF WithFlags, Sectors
<1>4. \A j \in Copies : CrcOk(t, j) <=> CrcOk(s, j)
  BY <1>2, <1>3 DEF CrcOk
<1> QED BY <1>1, <1>2, <1>3, <1>4, OtherCopy

\* Retiring the copy that env_init did not choose does not change its choice.
LEMMA RetireKeepsChoice ==
  ASSUME NEW s \in Sectors, Healthy(s), Choice(s) # 0,
         NEW t, t = WithFlags(s, 3 - Choice(s), OBSOLETE_FLAG)
  PROVE  /\ t \in Sectors /\ Healthy(t)
         /\ Choice(t) = Choice(s) /\ Chosen(t) = Chosen(s)
         /\ CrcOk(t, Choice(s)) /\ t[3 - Choice(s)].flags = OBSOLETE_FLAG
<1> DEFINE c == Choice(s)
<1>1. /\ c \in Copies /\ 3 - c \in Copies /\ 3 - (3 - c) = c
      /\ Chosen(s) = s[c].data /\ CrcOk(s, c)
      /\ CrcOk(s, 3 - c) => s[c].flags \in {ERASED_FLAG, ACTIVE_FLAG}
  BY ChoiceForm, OtherCopy
<1>2. /\ t \in Sectors /\ t[c] = s[c] /\ t[3 - c].flags = OBSOLETE_FLAG
      /\ \A j \in Copies : CrcOk(t, j) <=> CrcOk(s, j)
  BY <1>1, FlagFacts, FlagWrite
<1>3. Healthy(t)
  BY <1>1, <1>2, FlagFacts, OtherCopy DEF Healthy, Flags, Copies
<1>4. Choice(t) = c /\ Chosen(t) = s[c].data
  BY <1>1, <1>2, <1>3, ChoiceIs
<1> QED BY <1>1, <1>2, <1>3, <1>4

\* Completing the mark of the copy in use, the other retired, does not either.
LEMMA ActivateKeepsChoice ==
  ASSUME NEW s \in Sectors, NEW u \in Copies, Healthy(s), CrcOk(s, u), Retired(s, u),
         s[u].flags # OBSOLETE_FLAG,
         NEW t, t = WithFlags(s, u, ACTIVE_FLAG)
  PROVE  /\ t \in Sectors /\ Healthy(t) /\ CrcOk(t, u) /\ Retired(t, u)
         /\ Chosen(s) = s[u].data /\ Chosen(t) = Chosen(s)
         /\ t[u].flags = ACTIVE_FLAG
<1>1. /\ t \in Sectors /\ t[3 - u] = s[3 - u]
      /\ t[u].flags = ACTIVE_FLAG /\ t[u].data = s[u].data
      /\ \A j \in Copies : CrcOk(t, j) <=> CrcOk(s, j)
  BY FlagFacts, FlagWrite
<1>2. s[u].flags \in {ERASED_FLAG, ACTIVE_FLAG}
  BY DEF Healthy, Flags
<1>3. Chosen(s) = s[u].data
  BY <1>2, ChoiceIs DEF Retired
<1>4. Healthy(t)
  BY <1>1, FlagFacts, OtherCopy DEF Healthy, Flags, Retired, Copies
<1>5. Retired(t, u) /\ CrcOk(t, u)
  BY <1>1, OtherCopy DEF Retired
<1>6. Chosen(t) = t[u].data
  BY <1>1, <1>4, <1>5, ChoiceIs DEF Retired
<1> QED BY <1>1, <1>3, <1>4, <1>5, <1>6

-----------------------------------------------------------------------------
(* Boot keeps the invariant. *)

\* Virgin flash: both sectors fail their crc and env_init takes the default.
LEMMA InitInv == Init => Inv
<1> SUFFICES ASSUME Init PROVE Inv
  OBVIOUS
<1> USE EnvsAssumption, BitsAssumption DEF Init
<1>1. TypeOK
  <2>1. [data |-> None, crc |-> None, flags |-> ERASED_FLAG] \in SectorType
    BY DEF SectorType, ERASED_FLAG
  <2>2. sect \in [Copies -> SectorType]
    BY <2>1
  <2>3. flash_addr \in Copies /\ env_addr \in {0} \cup Copies /\ env_valid \in 0..2
    BY DEF Copies
  <2>4. /\ env \in Envs \cup {None} /\ crc \in Envs \cup {None}
        /\ acked \in Envs /\ attempt \in Envs /\ faulted \in BOOLEAN /\ stale \in BOOLEAN
    OBVIOUS
  <2> QED BY <2>2, <2>3, <2>4 DEF TypeOK
<1>2. \A i \in Copies : ~CrcOk(sect, i)
  BY DEF CrcOk
<1>3. Progress
  BY DEF Progress, Running
<1>4. Healthy(sect)
  BY <1>2 DEF Healthy, Copies
<1>5. ValidBackup
  BY <1>1, <1>2, <1>4, ChoiceForm DEF ValidBackup, TypeOK, Sectors
<1>6. Sound
  BY <1>4, <1>5 DEF Sound, Running
<1> QED BY <1>1, <1>3, <1>6 DEF Inv

\* What env_init returns, whatever the flags: a copy with a right crc, or 0.
LEMMA ChoiceIsOk ==
  ASSUME NEW s
  PROVE  Choice(s) \in {0} \cup Copies /\ (Choice(s) # 0 => CrcOk(s, Choice(s)))
BY DEF Choice, Copies

\* env_init only decides; the decision is a fact about the sectors.
LEMMA EnvInitInv == Inv /\ EnvInit => Inv'
<1> SUFFICES ASSUME Inv, EnvInit PROVE Inv'
  OBVIOUS
<1> USE DEF EnvInit
<1>1. TypeOK'
  BY ChoiceIsOk DEF Inv, TypeOK
<1>2. Progress'
  BY DEF Inv, Progress, Running
<1>3. ~faulted' => Sound'
  BY DEF Inv, Sound, ValidBackup, Running
<1> QED BY <1>1, <1>2, <1>3 DEF Inv

\* Without a valid copy the built-in default is what is known to be held.
LEMMA SetDefaultEnvInv == Inv /\ SetDefaultEnv => Inv'
<1> SUFFICES ASSUME Inv, SetDefaultEnv PROVE Inv'
  OBVIOUS
<1> USE EnvsAssumption DEF SetDefaultEnv
<1>1. TypeOK'
  <2>1. /\ sect' = sect /\ flash_addr' = flash_addr /\ env_addr' = env_addr /\ env_valid' = 1
        /\ env' = Default /\ crc' = Default /\ pc' = "idle" /\ stale' = FALSE
        /\ acked' = Default /\ attempt' = Default /\ faulted' = faulted
    OBVIOUS
  <2>2. 1 \in 0..2
    OBVIOUS
  <2> QED BY ONLY Inv, EnvsAssumption, <2>1, <2>2 DEF Inv, TypeOK
<1>2. Progress'
  BY DEF Inv, Progress, Running
<1>3. ASSUME ~faulted' PROVE Sound'
  <2>1. Healthy(sect) /\ Choice(sect) = 0 /\ sect \in Sectors
    BY <1>3 DEF Inv, Sound, Progress, TypeOK, Sectors
  <2>2. Chosen(sect) = Default /\ \A i \in Copies : ~CrcOk(sect, i)
    BY <2>1, ChoiceForm, OtherCopy
  <2>3. InUse(sect, flash_addr, Default) /\ Other(sect, flash_addr, Default)
    BY <2>2, OtherCopy DEF InUse, Other, Inv, TypeOK
  <2> QED BY <2>1, <2>2, <2>3 DEF Sound, Roles, ValidBackup, Running
<1> QED BY <1>1, <1>2, <1>3 DEF Inv

\* What a flag write leaves behind, done or torn.
LEMMA TornType ==
  ASSUME sect \in Sectors, NEW i \in Copies, NEW flag, sect' \in PartlyProgrammed(i, flag)
  PROVE  sect' \in Sectors /\ \A j \in Copies : CrcOk(sect', j) <=> CrcOk(sect, j)
<1>1. PICK f \in SUBSET sect[i].flags : sect' = WithFlags(sect, i, f)
  BY DEF PartlyProgrammed, SetFlags, WithFlags
<1>2. f \in SUBSET Bits
  BY <1>1 DEF Sectors, SectorType
<1> QED BY <1>1, <1>2, FlagWrite

\* Programming keeps the types of the sectors.
LEMMA ProgramType ==
  ASSUME sect \in Sectors, NEW i \in Copies, NEW flag, sect' = Program(i, flag)
  PROVE  sect' \in Sectors /\ \A j \in Copies : CrcOk(sect', j) <=> CrcOk(sect, j)
<1>1. sect' = WithFlags(sect, i, sect[i].flags \cap flag)
  BY DEF Program, SetFlags, WithFlags
<1>2. sect[i].flags \cap flag \in SUBSET Bits
  BY DEF Sectors, SectorType
<1> QED BY <1>1, <1>2, FlagWrite

\* A flag write of env_relocate_spec, good or bad, keeps the types.
LEMMA RepairType ==
  ASSUME Inv, NEW i \in Copies, NEW flag, Repair(i, flag)
  PROVE  /\ sect' \in Sectors /\ \A j \in Copies : CrcOk(sect', j) <=> CrcOk(sect, j)
         /\ env_valid' \in 0..2 /\ env_valid' # 0
         /\ faulted' \in BOOLEAN /\ (faulted => faulted')
<1>1. sect \in Sectors /\ faulted \in BOOLEAN
  BY DEF Inv, TypeOK, Sectors
<1>2. CASE sect' = Program(i, flag) /\ UNCHANGED faulted
  BY <1>1, <1>2, ProgramType DEF Repair
<1>3. CASE sect' \in PartlyProgrammed(i, flag) /\ faulted' = TRUE
  BY <1>1, <1>3, TornType DEF Repair
<1> QED BY <1>2, <1>3 DEF Repair

\* A write of OBSOLETE_FLAG gives that flag, whatever the byte was.
LEMMA ProgramObsolete ==
  ASSUME NEW i
  PROVE  Program(i, OBSOLETE_FLAG) = WithFlags(sect, i, OBSOLETE_FLAG)
BY DEF Program, SetFlags, WithFlags, OBSOLETE_FLAG

\* A write of ACTIVE_FLAG gives that flag if bit 0 was still set.
LEMMA ProgramActive ==
  ASSUME NEW i, ACTIVE_FLAG \subseteq sect[i].flags
  PROVE  Program(i, ACTIVE_FLAG) = WithFlags(sect, i, ACTIVE_FLAG)
BY DEF Program, SetFlags, WithFlags

\* Neither of the two repairs of env_relocate_spec changes the choice.
LEMMA RepairKeepsChoice ==
  ASSUME Inv, ~faulted
  PROVE  /\ pc = "relocate" /\ env_valid # 0 =>
              /\ env_addr \in Copies /\ env_addr = Choice(sect)
              /\ \A t : t = Program(3 - env_addr, OBSOLETE_FLAG) =>
                   t \in Sectors /\ Healthy(t) /\ Chosen(t) = Chosen(sect)
                   /\ CrcOk(t, env_addr) /\ Retired(t, env_addr)
         /\ pc = "repair" /\ OwnNeedsRepair(flash_addr) =>
              \A t : t = Program(flash_addr, ACTIVE_FLAG) =>
                t \in Sectors /\ Healthy(t) /\ Chosen(t) = Chosen(sect)
                /\ CrcOk(t, flash_addr) /\ Retired(t, flash_addr)
                /\ t[flash_addr].flags = ACTIVE_FLAG
<1>1. sect \in Sectors /\ Healthy(sect)
  BY DEF Inv, Sound, TypeOK, Sectors
<1>2. ASSUME pc = "relocate", env_valid # 0
      PROVE  env_addr = Choice(sect) /\ env_addr \in Copies
  BY <1>2, ChoiceIsOk DEF Inv, Progress
<1>3. ASSUME pc = "relocate", env_valid # 0,
             NEW t, t = Program(3 - env_addr, OBSOLETE_FLAG)
      PROVE  t \in Sectors /\ Healthy(t) /\ Chosen(t) = Chosen(sect)
             /\ CrcOk(t, env_addr) /\ Retired(t, env_addr)
  BY <1>1, <1>2, <1>3, ProgramObsolete, RetireKeepsChoice, OtherCopy DEF Retired
<1>4. ASSUME pc = "repair", OwnNeedsRepair(flash_addr),
             NEW t, t = Program(flash_addr, ACTIVE_FLAG)
      PROVE  t \in Sectors /\ Healthy(t) /\ Chosen(t) = Chosen(sect)
             /\ CrcOk(t, flash_addr) /\ Retired(t, flash_addr)
             /\ t[flash_addr].flags = ACTIVE_FLAG
  <2>1. /\ flash_addr \in Copies /\ CrcOk(sect, flash_addr) /\ Retired(sect, flash_addr)
        /\ ACTIVE_FLAG \subseteq sect[flash_addr].flags
    BY <1>4 DEF Inv, TypeOK, Progress, Sound, OwnNeedsRepair
  <2>2. sect[flash_addr].flags # OBSOLETE_FLAG
    BY <2>1 DEF ACTIVE_FLAG, OBSOLETE_FLAG
  <2> QED BY <1>1, <1>4, <2>1, <2>2, ProgramActive, ActivateKeepsChoice
<1> QED BY <1>2, <1>3, <1>4

\* The first step of env_relocate_spec keeps env_init's choice.
LEMMA RelocateKeepsChoice ==
  ASSUME Inv, RelocateSpec, ~faulted'
  PROVE  Healthy(sect') /\ Chosen(sect') = Chosen(sect) /\ Retired(sect', env_addr)
<1>1. CASE OtherNeedsRepair(env_addr)
  BY <1>1, RepairKeepsChoice DEF RelocateSpec, Repair
<1>2. CASE ~OtherNeedsRepair(env_addr)
  BY <1>2 DEF RelocateSpec, Inv, Sound, OtherNeedsRepair, Retired
<1> QED BY <1>1, <1>2

\* Retiring the other copy settles the roles before the copy is loaded.
LEMMA RelocateSpecInv == Inv /\ RelocateSpec => Inv'
<1> SUFFICES ASSUME Inv, RelocateSpec PROVE Inv'
  OBVIOUS
<1> USE DEF RelocateSpec
<1>1. env_addr \in Copies /\ 3 - env_addr \in Copies /\ CrcOk(sect, env_addr) /\ sect \in Sectors
  BY ChoiceIsOk, OtherCopy DEF Inv, Progress, TypeOK, Sectors
<1>2. /\ sect' \in Sectors /\ \A j \in Copies : CrcOk(sect', j) <=> CrcOk(sect, j)
      /\ env_valid' \in 0..2
      /\ faulted' \in BOOLEAN /\ (faulted => faulted')
  <2>1. CASE OtherNeedsRepair(env_addr)
    BY <1>1, <2>1, RepairType
  <2>2. CASE ~OtherNeedsRepair(env_addr)
    BY <1>1, <2>2 DEF Inv, TypeOK
  <2> QED BY <2>1, <2>2
<1>3. TypeOK'
  BY <1>1, <1>2 DEF Inv, TypeOK, Sectors
<1>4. Progress'
  BY <1>1, <1>2 DEF Inv, Progress, Running
<1>5. ASSUME ~faulted' PROVE Sound'
  <2>1. ~faulted /\ (~stale => ValidBackup)
    BY <1>2, <1>5 DEF Inv, Sound
  <2>2. Healthy(sect') /\ Chosen(sect') = Chosen(sect) /\ Retired(sect', env_addr)
    BY <1>5, RelocateKeepsChoice
  <2> QED BY <2>1, <2>2 DEF Sound, ValidBackup, Running
<1> QED BY <1>3, <1>4, <1>5 DEF Inv

\* So does the second, after which the copy in use is marked.
LEMMA RepairOwnKeepsChoice ==
  ASSUME Inv, RepairOwn, ~faulted'
  PROVE  /\ Healthy(sect') /\ Chosen(sect') = Chosen(sect) /\ Retired(sect', flash_addr)
         /\ sect'[flash_addr].flags \in {ACTIVE_FLAG, OBSOLETE_FLAG}
<1>1. CASE OwnNeedsRepair(flash_addr)
  BY <1>1, RepairKeepsChoice DEF RepairOwn, Repair
<1>2. CASE ~OwnNeedsRepair(flash_addr)
  <2>1. /\ Healthy(sect) /\ Retired(sect, flash_addr) /\ sect' = sect
        /\ sect[flash_addr].flags \in Flags
    BY <1>2 DEF RepairOwn, Inv, TypeOK, Progress, Sound, Healthy
  <2> QED BY <1>2, <2>1, FlagFacts DEF OwnNeedsRepair, Flags
<1> QED BY <1>1, <1>2

\* Completing the mark of the copy in use leaves it chosen.
LEMMA RepairOwnInv == Inv /\ RepairOwn => Inv'
<1> SUFFICES ASSUME Inv, RepairOwn PROVE Inv'
  OBVIOUS
<1> USE DEF RepairOwn
<1>1. flash_addr \in Copies /\ CrcOk(sect, flash_addr) /\ sect \in Sectors
  BY DEF Inv, Progress, TypeOK, Sectors
<1>2. /\ sect' \in Sectors /\ \A j \in Copies : CrcOk(sect', j) <=> CrcOk(sect, j)
      /\ env_valid' \in 0..2
      /\ faulted' \in BOOLEAN /\ (faulted => faulted')
  <2>1. CASE OwnNeedsRepair(flash_addr)
    BY <1>1, <2>1, RepairType
  <2>2. CASE ~OwnNeedsRepair(flash_addr)
    BY <1>1, <2>2 DEF Inv, TypeOK
  <2> QED BY <2>1, <2>2
<1>3. TypeOK'
  BY <1>2 DEF Inv, TypeOK, Sectors
<1>4. Progress'
  BY <1>1, <1>2 DEF Inv, Progress, Running
<1>5. ASSUME ~faulted' PROVE Sound'
  <2>1. ~faulted /\ (~stale => ValidBackup)
    BY <1>2, <1>5 DEF Inv, Sound
  <2>2. /\ Healthy(sect') /\ Chosen(sect') = Chosen(sect) /\ Retired(sect', flash_addr)
        /\ sect'[flash_addr].flags \in {ACTIVE_FLAG, OBSOLETE_FLAG}
    BY <1>5, RepairOwnKeepsChoice
  <2> QED BY <2>1, <2>2 DEF Sound, ValidBackup, Running
<1> QED BY <1>3, <1>4, <1>5 DEF Inv

\* What env_relocate_spec loads is what env_init chose.
LEMMA LoadsChosen ==
  ASSUME Inv, ~faulted, pc = "load"
  PROVE  Chosen(sect) = sect[flash_addr].data
<1>1. /\ sect \in Sectors /\ flash_addr \in Copies /\ CrcOk(sect, flash_addr)
      /\ Healthy(sect) /\ Retired(sect, flash_addr)
      /\ sect[flash_addr].flags \in {ACTIVE_FLAG, OBSOLETE_FLAG}
  BY DEF Inv, TypeOK, Sectors, Progress, Sound
<1>2. CrcOk(sect, 3 - flash_addr) => sect[flash_addr].flags = ACTIVE_FLAG
  BY <1>1, OtherCopy DEF Healthy, Retired, Copies
<1> QED BY <1>1, <1>2, ChoiceIs DEF Retired

\* The copy loaded is the chosen one: the decision becomes what is known to be held.
LEMMA LoadInv == Inv /\ Load => Inv'
<1> SUFFICES ASSUME Inv, Load PROVE Inv'
  OBVIOUS
<1> USE DEF Load
<1>1. /\ flash_addr \in Copies /\ CrcOk(sect, flash_addr) /\ sect \in Sectors
      /\ sect[flash_addr].data \in Envs /\ sect[flash_addr].data # None
      /\ sect[flash_addr].crc = sect[flash_addr].data
  BY EnvsAssumption DEF Inv, Progress, TypeOK, Sectors, SectorType, CrcOk
<1>2. TypeOK'
  BY <1>1 DEF Inv, TypeOK
<1>3. Progress'
  BY <1>1 DEF Inv, Progress, Running
<1>4. ASSUME ~faulted' PROVE Sound'
  <2>1. Healthy(sect) /\ Chosen(sect) = sect[flash_addr].data
    BY <1>4, LoadsChosen DEF Inv, Sound
  <2>2. InUse(sect, flash_addr, sect[flash_addr].data)
    BY <1>1, <1>4 DEF Inv, Sound, InUse
  <2>3. Other(sect, flash_addr, sect[flash_addr].data)
    BY <1>1, <1>4 DEF Inv, Sound, Other, Retired
  <2> QED BY <2>1, <2>2, <2>3 DEF Sound, Roles, ValidBackup, Running
<1> QED BY <1>2, <1>3, <1>4 DEF Inv

-----------------------------------------------------------------------------
(* saveenv keeps the invariant. *)

LEMMA TwoCopies ==
  ASSUME Inv
  PROVE  /\ sect \in Sectors /\ flash_addr \in Copies /\ flash_addr_new \in Copies
         /\ flash_addr_new = 3 - flash_addr /\ flash_addr = 3 - flash_addr_new
         /\ flash_addr_new # flash_addr
BY OtherCopy DEF Inv, TypeOK, Sectors, flash_addr_new

\* The other copy fails its crc: only the one in use counts.
LEMMA OtherErased ==
  ASSUME NEW s \in Sectors, NEW t \in Sectors, NEW u \in Copies, NEW a, NEW b, NEW c,
         NEW st \in BOOLEAN, Roles(s, u, a, c, st), t[u] = s[u], ~CrcOk(t, 3 - u)
  PROVE  Roles(t, u, a, b, st)
<1>1. CrcOk(t, u) <=> CrcOk(s, u)
  BY DEF CrcOk
<1>2. Healthy(t)
  BY <1>1, OtherCopy DEF Healthy, Copies, Roles
<1> QED BY <1>1, <1>2 DEF InUse, Other, Roles

\* The other copy is complete, with its crc good or stale, but its flag is still
\* that of an erased sector.
LEMMA OtherWritten ==
  ASSUME NEW s \in Sectors, NEW t \in Sectors, NEW u \in Copies, NEW a, NEW b, NEW c,
         NEW st \in BOOLEAN, Roles(s, u, a, c, st), t[u] = s[u],
         t[3 - u].data = b, t[3 - u].flags = ERASED_FLAG
  PROVE  Roles(t, u, a, b, st)
<1>1. CrcOk(t, u) <=> CrcOk(s, u)
  BY DEF CrcOk
<1>2. Healthy(t)
  BY <1>1, FlagFacts, OtherCopy DEF Healthy, InUse, Flags, Copies, Roles
<1> QED BY <1>1, <1>2 DEF InUse, Other, Roles

\* The copy in use is retired while the other one is erased-marked.
LEMMA OwnRetired ==
  ASSUME NEW s \in Sectors, NEW u \in Copies, NEW a, NEW b, NEW t,
         NEW st \in BOOLEAN, Roles(s, u, a, b, st), t = WithFlags(s, u, OBSOLETE_FLAG),
         s[3 - u].data = b, s[3 - u].flags = ERASED_FLAG
  PROVE  t \in Sectors /\ Roles(t, u, a, b, st)
<1>1. /\ t \in Sectors /\ t[u].flags = OBSOLETE_FLAG /\ t[u].data = s[u].data
      /\ t[3 - u] = s[3 - u] /\ \A j \in Copies : CrcOk(t, j) <=> CrcOk(s, j)
  BY FlagWrite, FlagFacts
<1>2. Healthy(t)
  BY <1>1, FlagFacts, OtherCopy DEF Healthy, Flags, Copies, Roles
<1>3. ~st => InUse(t, u, a) /\ Other(t, u, b)
  BY <1>1, OtherCopy DEF InUse, Other, Roles
<1> QED BY <1>1, <1>2, <1>3 DEF Roles

\* The other copy is marked active when the one in use is retired.
LEMMA OtherActivated ==
  ASSUME NEW s \in Sectors, NEW u \in Copies, NEW a, NEW b, NEW t,
         NEW st \in BOOLEAN, Roles(s, u, a, b, st), t = WithFlags(s, 3 - u, ACTIVE_FLAG),
         s[3 - u].data = b, s[u].flags = OBSOLETE_FLAG
  PROVE  t \in Sectors /\ Roles(t, u, a, b, st)
<1>1. /\ t \in Sectors /\ t[3 - u].flags = ACTIVE_FLAG /\ t[3 - u].data = s[3 - u].data
      /\ t[u] = s[u] /\ \A j \in Copies : CrcOk(t, j) <=> CrcOk(s, j)
  <2>1. 3 - u \in Copies /\ 3 - (3 - u) = u
    BY OtherCopy
  <2> QED BY <2>1, FlagWrite, FlagFacts
<1>2. Healthy(t)
  BY <1>1, FlagFacts, OtherCopy DEF Healthy, Flags, Copies, Roles
<1>3. ~st => InUse(t, u, a) /\ Other(t, u, b)
  BY <1>1, OtherCopy DEF InUse, Other, Roles
<1> QED BY <1>1, <1>2, <1>3 DEF Roles

\* While the system runs, copies in their roles are all that Sound asks.
LEMMA RolesSuffice ==
  ASSUME TypeOK', pc' \in Running, Roles(sect', flash_addr', acked', attempt', stale')
  PROVE  Sound'
<1>1. sect' \in Sectors /\ flash_addr' \in Copies
  BY DEF TypeOK, Sectors
<1>2. ~stale' => Chosen(sect') \in {acked', attempt'}
  BY <1>1, RolesMakeBackup DEF Roles
<1>3. Healthy(sect')
  BY DEF Roles
<1> QED BY <1>2, <1>3 DEF Sound, ValidBackup, Running

\* The three writes to the other sector.
LEMMA NewErased ==
  ASSUME Inv, NEW f \in SUBSET Bits,
         sect' = [sect EXCEPT ![flash_addr_new] = [data |-> None, crc |-> None, flags |-> f]]
  PROVE  /\ sect' \in Sectors /\ sect'[flash_addr] = sect[flash_addr]
         /\ sect'[flash_addr_new] = [data |-> None, crc |-> None, flags |-> f]
<1> [data |-> None, crc |-> None, flags |-> f] \in SectorType
  BY DEF SectorType
<1> QED BY TwoCopies DEF Sectors

\* Writing the data leaves the new copy invalid until its crc is written.
LEMMA NewData ==
  ASSUME Inv, NEW d \in Envs \cup {None}, sect' = [sect EXCEPT ![flash_addr_new].data = d]
  PROVE  /\ sect' \in Sectors /\ sect'[flash_addr] = sect[flash_addr]
         /\ sect'[flash_addr_new].data = d
         /\ sect'[flash_addr_new].crc = sect[flash_addr_new].crc
         /\ sect'[flash_addr_new].flags = sect[flash_addr_new].flags
BY TwoCopies DEF Sectors, SectorType

\* With its crc the new copy is valid and still unmarked.
LEMMA NewCrc ==
  ASSUME Inv, NEW d \in Envs \cup {None}, sect' = [sect EXCEPT ![flash_addr_new].crc = d]
  PROVE  /\ sect' \in Sectors /\ sect'[flash_addr] = sect[flash_addr]
         /\ sect'[flash_addr_new].crc = d
         /\ sect'[flash_addr_new].data = sect[flash_addr_new].data
         /\ sect'[flash_addr_new].flags = sect[flash_addr_new].flags
BY TwoCopies DEF Sectors, SectorType

\* setenv touches the working copy only, when it fails too.
LEMMA SetEnvInv == Inv /\ (\E v \in Envs : SetEnv(v) \/ SetEnvOverflow(v)) => Inv'
<1> SUFFICES ASSUME Inv, NEW v \in Envs, SetEnv(v) \/ SetEnvOverflow(v) PROVE Inv'
  OBVIOUS
<1>1. /\ pc = "idle" /\ pc' = pc /\ env' = v /\ crc' \in {v, crc}
      /\ UNCHANGED <<sect, flash_addr, env_addr, env_valid, acked, attempt, faulted, stale>>
  BY DEF SetEnv, SetEnvOverflow
<1>2. TypeOK'
  BY <1>1 DEF Inv, TypeOK
<1>3. Progress'
  BY <1>1, EnvsAssumption DEF Inv, Progress, Running, flash_addr_new
<1>4. ~faulted' => Sound'
  BY <1>1 DEF Inv, Sound, ValidBackup, Running
<1> QED BY <1>2, <1>3, <1>4 DEF Inv

\* Nothing is written before the erase.
LEMMA SaveStartInv == Inv /\ SaveStart => Inv'
<1> SUFFICES ASSUME Inv, SaveStart PROVE Inv'
  OBVIOUS
<1>1. TypeOK'
  BY DEF Inv, TypeOK, SaveStart
<1>2. Progress'
  BY DEF Inv, Progress, Running, SaveStart
<1>3. ~faulted' => Sound'
  BY DEF Inv, Sound, ValidBackup, Running, SaveStart
<1> QED BY <1>1, <1>2, <1>3 DEF Inv

\* After the erase the copy in use is the only one that can be valid.
LEMMA EraseNewInv == Inv /\ EraseNew => Inv'
<1> SUFFICES ASSUME Inv, EraseNew PROVE Inv'
  OBVIOUS
<1> USE TwoCopies DEF EraseNew
<1>1. env \in Envs /\ pc \in Running /\ pc' \in Running
  BY DEF Inv, TypeOK, Progress, Running
<1>2. /\ sect' \in Sectors /\ sect'[flash_addr] = sect[flash_addr]
      /\ sect'[flash_addr_new] = [data |-> None, crc |-> None, flags |-> ERASED_FLAG]
  BY FlagFacts, NewErased
<1>3. ~CrcOk(sect', flash_addr_new)
  BY <1>2 DEF CrcOk
<1>4. TypeOK'
  BY <1>1, <1>2 DEF Inv, TypeOK, Sectors
<1>5. Progress'
  BY <1>1, <1>2 DEF Inv, Progress, Running, flash_addr_new
<1>6. ASSUME ~faulted' PROVE Sound'
  <2>1. Roles(sect, flash_addr, acked, attempt, stale) /\ stale \in BOOLEAN
    BY <1>1, <1>6 DEF Inv, Sound, TypeOK
  <2>2. Roles(sect', flash_addr, acked, env, stale)
    BY ONLY Inv, TwoCopies, <1>2, <1>3, <2>1, OtherErased
  <2> QED BY <1>1, <1>4, <2>2, RolesSuffice
<1> QED BY <1>4, <1>5, <1>6 DEF Inv

\* The data alone does not make the new copy valid.
LEMMA WriteDataInv == Inv /\ WriteData => Inv'
<1> SUFFICES ASSUME Inv, WriteData PROVE Inv'
  OBVIOUS
<1> USE TwoCopies DEF WriteData
<1>1. env \in Envs /\ env # None /\ pc \in Running /\ pc' \in Running
  BY DEF Inv, TypeOK, Progress, Running
<1>2. /\ sect' \in Sectors /\ sect'[flash_addr] = sect[flash_addr]
      /\ sect'[flash_addr_new].data = env /\ sect'[flash_addr_new].crc = None
      /\ sect'[flash_addr_new].flags = ERASED_FLAG
  BY <1>1, NewData DEF Inv, Progress
<1>3. ~CrcOk(sect', flash_addr_new)
  BY <1>1, <1>2 DEF CrcOk
<1>4. TypeOK'
  BY <1>2 DEF Inv, TypeOK, Sectors
<1>5. Progress'
  <2>1. /\ pc' = "crc" /\ env' = env /\ crc' = crc /\ attempt' = env /\ flash_addr' = flash_addr
        /\ flash_addr_new' = flash_addr_new
    BY DEF Inv, Progress, flash_addr_new
  <2> QED BY ONLY <1>1, <1>2, <2>1 DEF Progress, Running
<1>6. ASSUME ~faulted' PROVE Sound'
  <2>1. Roles(sect, flash_addr, acked, attempt, stale) /\ stale \in BOOLEAN
    BY <1>1, <1>6 DEF Inv, Sound, TypeOK
  <2>2. Roles(sect', flash_addr, acked, attempt, stale)
    BY ONLY Inv, TwoCopies, <1>2, <1>3, <2>1, OtherErased
  <2> QED BY <1>1, <1>4, <2>2, RolesSuffice
<1> QED BY <1>4, <1>5, <1>6 DEF Inv

\* From here there are two valid copies, the old one marked and the new one not,
\* or the new one will never be valid.
LEMMA WriteCrcInv == Inv /\ WriteCrc => Inv'
<1> SUFFICES ASSUME Inv, WriteCrc PROVE Inv'
  OBVIOUS
<1> USE TwoCopies DEF WriteCrc
<1>1. /\ env \in Envs /\ env # None /\ crc \in Envs \cup {None} /\ attempt = env
      /\ pc \in Running /\ pc' \in Running
  BY DEF Inv, TypeOK, Progress, Running
<1>2. /\ sect' \in Sectors /\ sect'[flash_addr] = sect[flash_addr]
      /\ sect'[flash_addr_new].data = env /\ sect'[flash_addr_new].crc = crc
      /\ sect'[flash_addr_new].flags = ERASED_FLAG
  BY <1>1, NewCrc DEF Inv, Progress
<1>3. TypeOK'
  BY <1>2 DEF Inv, TypeOK, Sectors
<1>4. Progress'
  BY <1>1, <1>2 DEF Inv, Progress, Running, flash_addr_new
<1>5. ASSUME ~faulted' PROVE Sound'
  <2>1. Roles(sect, flash_addr, acked, attempt, stale) /\ stale \in BOOLEAN
    BY <1>1, <1>5 DEF Inv, Sound, TypeOK
  <2>2. sect'[3 - flash_addr].data = attempt /\ sect'[3 - flash_addr].flags = ERASED_FLAG
    BY <1>1, <1>2
  <2>3. Roles(sect', flash_addr, acked, attempt, stale)
    BY ONLY Inv, TwoCopies, <1>2, <2>1, <2>2, OtherWritten
  <2> QED BY <1>1, <1>3, <2>3, RolesSuffice
<1> QED BY <1>3, <1>4, <1>5 DEF Inv

\* Retiring the old copy hands the choice over to the new one.
LEMMA WriteObsoleteInv == Inv /\ WriteObsolete => Inv'
<1> SUFFICES ASSUME Inv, WriteObsolete PROVE Inv'
  OBVIOUS
<1> USE TwoCopies DEF WriteObsolete
<1>1. /\ env \in Envs /\ env # None /\ attempt = env /\ pc \in Running /\ pc' \in Running
      /\ sect[flash_addr_new].data = env /\ sect[flash_addr_new].crc = crc
      /\ sect[flash_addr_new].flags = ERASED_FLAG
  BY DEF Inv, TypeOK, Progress, Running
<1>2. sect' = WithFlags(sect, flash_addr, OBSOLETE_FLAG)
  BY ProgramObsolete
<1>3. /\ sect' \in Sectors /\ sect'[flash_addr].flags = OBSOLETE_FLAG
      /\ sect'[flash_addr_new] = sect[flash_addr_new]
  BY <1>2, FlagWrite, FlagFacts
<1>4. TypeOK'
  BY <1>3 DEF Inv, TypeOK, Sectors
<1>5. Progress'
  BY <1>1, <1>3 DEF Inv, Progress, Running, flash_addr_new
<1>6. ASSUME ~faulted' PROVE Sound'
  <2>1. Roles(sect, flash_addr, acked, attempt, stale) /\ stale \in BOOLEAN
    BY <1>1, <1>6 DEF Inv, Sound, TypeOK
  <2>2. Roles(sect', flash_addr, acked, attempt, stale)
    BY <1>1, <1>2, <2>1, OwnRetired
  <2> QED BY <1>1, <1>4, <2>2, RolesSuffice
<1> QED BY <1>4, <1>5, <1>6 DEF Inv

\* Marking the new copy changes no decision.
LEMMA WriteActiveInv == Inv /\ WriteActive => Inv'
<1> SUFFICES ASSUME Inv, WriteActive PROVE Inv'
  OBVIOUS
<1> USE TwoCopies DEF WriteActive
<1>1. /\ env \in Envs /\ env # None /\ attempt = env /\ pc \in Running /\ pc' \in Running
      /\ sect[flash_addr_new].data = env /\ sect[flash_addr_new].crc = crc
      /\ sect[flash_addr_new].flags = ERASED_FLAG
      /\ sect[flash_addr].flags = OBSOLETE_FLAG
  BY DEF Inv, TypeOK, Progress, Running
<1>2. sect' = WithFlags(sect, flash_addr_new, ACTIVE_FLAG)
  BY <1>1, ProgramActive, FlagFacts DEF Flags
<1>3. /\ sect' \in Sectors /\ sect'[flash_addr_new].flags = ACTIVE_FLAG
      /\ sect'[flash_addr_new].data = env /\ sect'[flash_addr_new].crc = crc
      /\ sect'[flash_addr] = sect[flash_addr]
  BY <1>1, <1>2, FlagWrite, FlagFacts
<1>4. TypeOK'
  BY <1>3 DEF Inv, TypeOK, Sectors
<1>5. Progress'
  BY <1>1, <1>3 DEF Inv, Progress, Running, flash_addr_new
<1>6. ASSUME ~faulted' PROVE Sound'
  <2>1. Roles(sect, flash_addr, acked, attempt, stale) /\ stale \in BOOLEAN
    BY <1>1, <1>6 DEF Inv, Sound, TypeOK
  <2>2. Roles(sect', flash_addr, acked, attempt, stale)
    BY <1>1, <1>2, <2>1, OtherActivated
  <2> QED BY <1>1, <1>4, <2>2, RolesSuffice
<1> QED BY <1>4, <1>5, <1>6 DEF Inv

\* The exchange of the pointers makes the roles those of the next save.
LEMMA SaveDoneInv == Inv /\ SaveDone => Inv'
<1> SUFFICES ASSUME Inv, SaveDone PROVE Inv'
  OBVIOUS
<1> USE TwoCopies DEF SaveDone
<1>1. /\ env \in Envs /\ env # None /\ attempt = env /\ pc \in Running /\ pc' \in Running
      /\ sect[flash_addr_new].data = env /\ sect[flash_addr_new].crc = crc
      /\ sect[flash_addr_new].flags = ACTIVE_FLAG
      /\ sect[flash_addr].flags = OBSOLETE_FLAG
  BY DEF Inv, TypeOK, Progress, Running
<1>2. CrcOk(sect, flash_addr_new) <=> crc = env
  BY <1>1 DEF CrcOk
<1>3. TypeOK'
  BY DEF Inv, TypeOK
<1>4. Progress'
  BY <1>1 DEF Inv, Progress, Running
<1>5. ASSUME ~faulted' PROVE Sound'
  <2>1. Healthy(sect)
    BY <1>5 DEF Inv, Sound
  <2>2. stale' \in BOOLEAN /\ (stale' <=> crc # env)
    OBVIOUS
  <2>3. crc = env => InUse(sect, flash_addr_new, attempt) /\ Other(sect, flash_addr_new, attempt)
    BY <1>1, <1>2 DEF InUse, Other
  <2>4. Roles(sect, flash_addr_new, attempt, attempt, stale')
    BY <1>2, <2>1, <2>2, <2>3 DEF Roles
  <2> QED BY <1>1, <1>3, <2>4, RolesSuffice
<1> QED BY <1>3, <1>4, <1>5 DEF Inv

\* The failed restore sets faulted, after which only Progress and the types count.
LEMMA RestoreFailsInv == Inv /\ RestoreFails => Inv'
<1> SUFFICES ASSUME Inv, RestoreFails PROVE Inv'
  OBVIOUS
<1>1. TypeOK'
  BY DEF Inv, TypeOK, RestoreFails
<1>2. Progress'
  BY DEF Inv, Progress, Running, RestoreFails
<1> QED BY <1>1, <1>2 DEF Inv, RestoreFails

-----------------------------------------------------------------------------
(* Errors and power failures keep the invariant. *)

\* A flag write that fails leaves the sectors in their type, and unless the byte
\* is torn it is as if the write had succeeded.
LEMMA TornFlagType ==
  ASSUME Inv, NEW i \in Copies, NEW flag, TornFlag(i, flag)
  PROVE  /\ sect' \in Sectors /\ \A j \in Copies : CrcOk(sect', j) <=> CrcOk(sect, j)
         /\ faulted' \in BOOLEAN /\ (faulted => faulted')
         /\ ~faulted' => sect' = Program(i, flag)
<1>1. sect \in Sectors /\ faulted \in BOOLEAN
  BY DEF Inv, TypeOK, Sectors
<1>2. CASE sect' = Program(i, flag) /\ UNCHANGED faulted
  BY <1>1, <1>2, ProgramType
<1>3. CASE sect' \in PartlyProgrammed(i, flag) /\ faulted' = TRUE
  BY <1>1, <1>3, TornType
<1> QED BY <1>2, <1>3 DEF TornFlag

Saving == {"erase", "data", "crc", "obsolete", "activate"}

\* What an operation of saveenv that fails leaves behind: copies in their roles.
RolesKept ==
  /\ sect' \in Sectors /\ attempt' \in {attempt, env} /\ attempt' \in Envs
  /\ faulted' \in BOOLEAN /\ (faulted => faulted')
  /\ ~faulted' => Roles(sect', flash_addr, acked, attempt', stale)

\* A flash operation of saveenv that is cut short leaves the roles in order.
LEMMA TornSave ==
  ASSUME Inv, Torn, pc \in Saving
  PROVE  RolesKept
<1> USE TwoCopies
<1>1. /\ env \in Envs /\ env # None /\ acked \in Envs /\ attempt \in Envs
      /\ crc \in Envs \cup {None} /\ faulted \in BOOLEAN /\ stale \in BOOLEAN /\ pc \in Running
  BY DEF Inv, TypeOK, Progress, Running, Saving
<1>2. stale \in BOOLEAN /\ (~faulted => Roles(sect, flash_addr, acked, attempt, stale))
  BY <1>1 DEF Inv, Sound
<1>3. CASE UNCHANGED <<sect, attempt, faulted>>
  BY <1>1, <1>2, <1>3 DEF RolesKept
<1>4. ASSUME pc = "erase", UNCHANGED faulted, attempt' = env, NEW f \in SUBSET Bits,
             sect' = [sect EXCEPT ![flash_addr_new] = [data |-> None, crc |-> None, flags |-> f]]
      PROVE  RolesKept
  <2>0. /\ sect' \in Sectors /\ sect'[flash_addr] = sect[flash_addr]
        /\ sect'[flash_addr_new] = [data |-> None, crc |-> None, flags |-> f]
    BY <1>4, NewErased
  <2>1. ~CrcOk(sect', 3 - flash_addr)
    BY <2>0 DEF CrcOk
  <2>2. ~faulted => Roles(sect', flash_addr, acked, env, stale)
    BY ONLY Inv, TwoCopies, <1>2, <2>0, <2>1, OtherErased
  <2> QED BY <1>1, <1>4, <2>0, <2>2 DEF RolesKept
<1>5. ASSUME pc = "data", UNCHANGED <<attempt, faulted>>,
             sect' = [sect EXCEPT ![flash_addr_new].data = None]
      PROVE  RolesKept
  <2>1. sect' \in Sectors /\ sect'[flash_addr] = sect[flash_addr] /\ ~CrcOk(sect', 3 - flash_addr)
    BY <1>5, NewData DEF CrcOk
  <2>2. ~faulted => Roles(sect', flash_addr, acked, attempt, stale)
    BY ONLY Inv, TwoCopies, <1>2, <2>1, OtherErased
  <2> QED BY <1>1, <1>5, <2>1, <2>2 DEF RolesKept
<1>6. ASSUME pc = "crc", UNCHANGED <<attempt, faulted>>,
             sect' = [sect EXCEPT ![flash_addr_new].crc = crc]
      PROVE  RolesKept
  <2>1. /\ attempt = env /\ sect[flash_addr_new].data = env
        /\ sect[flash_addr_new].flags = ERASED_FLAG
    BY <1>6 DEF Inv, Progress
  <2>2. /\ sect' \in Sectors /\ sect'[flash_addr] = sect[flash_addr]
        /\ sect'[3 - flash_addr].data = attempt /\ sect'[3 - flash_addr].flags = ERASED_FLAG
    BY <1>1, <1>6, <2>1, NewCrc
  <2>3. ~faulted => Roles(sect', flash_addr, acked, attempt, stale)
    BY ONLY Inv, TwoCopies, <1>2, <2>2, OtherWritten
  <2> QED BY <1>1, <1>6, <2>2, <2>3 DEF RolesKept
<1>7. ASSUME pc = "obsolete", UNCHANGED attempt, TornFlag(flash_addr, OBSOLETE_FLAG)
      PROVE  RolesKept
  <2>1. /\ sect' \in Sectors /\ faulted' \in BOOLEAN /\ (faulted => faulted')
        /\ ~faulted' => sect' = WithFlags(sect, flash_addr, OBSOLETE_FLAG)
    BY <1>7, TornFlagType, ProgramObsolete
  <2>2. sect[3 - flash_addr].data = attempt /\ sect[3 - flash_addr].flags = ERASED_FLAG
    BY <1>1, <1>7 DEF Inv, Progress
  <2>3. ~faulted' => Roles(sect', flash_addr, acked, attempt, stale)
    BY ONLY Inv, TwoCopies, <1>2, <2>1, <2>2, OwnRetired
  <2> QED BY <1>1, <1>7, <2>1, <2>3 DEF RolesKept
<1>8. ASSUME pc = "activate", UNCHANGED attempt, TornFlag(flash_addr_new, ACTIVE_FLAG)
      PROVE  RolesKept
  <2>1. /\ sect[3 - flash_addr].data = attempt /\ sect[3 - flash_addr].flags = ERASED_FLAG
        /\ sect[flash_addr].flags = OBSOLETE_FLAG
    BY <1>1, <1>8 DEF Inv, Progress
  <2>2. /\ sect' \in Sectors /\ faulted' \in BOOLEAN /\ (faulted => faulted')
        /\ ~faulted' => sect' = WithFlags(sect, 3 - flash_addr, ACTIVE_FLAG)
    BY <1>8, <2>1, TornFlagType, ProgramActive, FlagFacts DEF Flags
  <2>3. ~faulted' => Roles(sect', flash_addr, acked, attempt, stale)
    BY ONLY Inv, TwoCopies, <1>2, <2>1, <2>2, OtherActivated
  <2> QED BY <1>1, <1>8, <2>2, <2>3 DEF RolesKept
<1> QED BY <1>3, <1>4, <1>5, <1>6, <1>7, <1>8 DEF Torn, Saving

\* A saveenv that reports an error keeps the roles: the copy in use stays valid.
LEMMA SaveFailsInv == Inv /\ SaveFails => Inv'
<1> SUFFICES ASSUME Inv, SaveFails PROVE Inv'
  OBVIOUS
<1>1. Torn /\ pc \in Saving /\ pc \in Running
  BY DEF SaveFails, Saving, Running
<1>2. RolesKept
  BY <1>1, TornSave
<1>3. TypeOK'
  BY <1>2 DEF Inv, TypeOK, SaveFails, RolesKept, Sectors
<1>4. Progress'
  BY <1>1 DEF Inv, Progress, Running, SaveFails
<1>5. ASSUME ~faulted' PROVE Sound'
  BY <1>2, <1>3, <1>5, RolesSuffice DEF SaveFails, RolesKept, Running
<1> QED BY <1>3, <1>4, <1>5 DEF Inv

\* A repair that is cut short, but not torn, keeps env_init's choice too.
LEMMA TornRepair ==
  ASSUME Inv, Torn, pc \in {"relocate", "repair"}
  PROVE  /\ sect' \in Sectors /\ attempt' = attempt
         /\ faulted' \in BOOLEAN /\ (faulted => faulted')
         /\ ~faulted' => Healthy(sect') /\ Chosen(sect') = Chosen(sect)
<1>1. /\ sect \in Sectors /\ flash_addr \in Copies /\ faulted \in BOOLEAN
      /\ ~faulted => Healthy(sect)
  BY DEF Inv, TypeOK, Sound, Sectors
<1>2. CASE UNCHANGED <<sect, attempt, faulted>>
  BY <1>1, <1>2
<1>3. CASE pc = "relocate" /\ env_valid # 0 /\ TornFlag(3 - env_addr, OBSOLETE_FLAG)
           /\ UNCHANGED attempt
  <2>1. env_addr \in Copies /\ 3 - env_addr \in Copies
    BY <1>3, ChoiceIsOk, OtherCopy DEF Inv, Progress
  <2>2. /\ sect' \in Sectors /\ faulted' \in BOOLEAN /\ (faulted => faulted')
        /\ ~faulted' => sect' = Program(3 - env_addr, OBSOLETE_FLAG)
    BY <1>3, <2>1, TornFlagType
  <2> QED BY <1>3, <2>2, RepairKeepsChoice
<1>4. CASE pc = "repair" /\ OwnNeedsRepair(flash_addr) /\ TornFlag(flash_addr, ACTIVE_FLAG)
           /\ UNCHANGED attempt
  <2>1. /\ sect' \in Sectors /\ faulted' \in BOOLEAN /\ (faulted => faulted')
        /\ ~faulted' => sect' = Program(flash_addr, ACTIVE_FLAG)
    BY <1>1, <1>4, TornFlagType
  <2> QED BY <1>4, <2>1, RepairKeepsChoice
<1> QED BY <1>2, <1>3, <1>4 DEF Torn

\* A power failure at any flash operation leaves a backup for the next boot.
LEMMA TornKeepsBackup ==
  ASSUME Inv, Torn, acked' = acked
  PROVE  /\ sect' \in Sectors /\ attempt' \in {attempt, env} /\ attempt' \in Envs
         /\ faulted' \in BOOLEAN /\ (faulted => faulted')
         /\ ~faulted' => Healthy(sect') /\ (~stale => ValidBackup')
<1>1. /\ sect \in Sectors /\ flash_addr \in Copies /\ attempt \in Envs
      /\ faulted \in BOOLEAN
      /\ ~faulted => Healthy(sect) /\ (~stale => ValidBackup)
  BY DEF Inv, TypeOK, Sound, Sectors
<1>2. CASE UNCHANGED <<sect, attempt, faulted>>
  BY <1>1, <1>2 DEF ValidBackup
<1>3. CASE pc \in Saving
  <2>1. RolesKept
    BY <1>3, TornSave
  <2>2. ~faulted' => Healthy(sect') /\ (~stale => Chosen(sect') \in {acked, attempt'})
    BY ONLY <1>1, <2>1, RolesMakeBackup DEF RolesKept, Roles
  <2> QED BY <2>1, <2>2 DEF RolesKept, ValidBackup
<1>4. CASE pc \in {"relocate", "repair"}
  BY <1>1, <1>4, TornRepair DEF ValidBackup
<1> QED BY <1>2, <1>3, <1>4 DEF Torn, Saving

\* A power failure keeps the backup valid for the boot to come.
LEMMA PowerFailInv == Inv /\ PowerFail => Inv'
<1> SUFFICES ASSUME Inv, PowerFail PROVE Inv'
  OBVIOUS
<1>1. /\ sect' \in Sectors /\ attempt' \in Envs /\ faulted' \in BOOLEAN
      /\ ~faulted' => Healthy(sect') /\ (~stale => ValidBackup')
  BY TornKeepsBackup DEF PowerFail
<1>2. TypeOK'
  BY <1>1 DEF Inv, TypeOK, PowerFail, Sectors, Copies
<1>3. Progress'
  BY DEF Progress, Running, PowerFail
<1>4. ~faulted' => Sound'
  BY <1>1 DEF Sound, Running, PowerFail
<1> QED BY <1>2, <1>3, <1>4 DEF Inv

-----------------------------------------------------------------------------
(* The theorems. *)

LEMMA StutterInv == Inv /\ UNCHANGED vars => Inv'
<1> SUFFICES ASSUME Inv, UNCHANGED vars PROVE Inv'
  OBVIOUS
<1> USE DEF vars
<1>1. TypeOK'
  BY DEF Inv, TypeOK
<1>2. Progress'
  BY DEF Inv, Progress, flash_addr_new
<1>3. ~faulted' => Sound'
  BY DEF Inv, Sound, ValidBackup
<1> QED BY <1>1, <1>2, <1>3 DEF Inv

\* Every step keeps the inductive invariant.
LEMMA NextInv == Inv /\ [Next]_vars => Inv'
BY EnvInitInv, SetDefaultEnvInv, RelocateSpecInv, RepairOwnInv, LoadInv, SetEnvInv,
   SaveStartInv, EraseNewInv, WriteDataInv, WriteCrcInv, WriteObsoleteInv, WriteActiveInv,
   SaveDoneInv, RestoreFailsInv, SaveFailsInv, PowerFailInv, StutterInv DEF Next

\* The inductive invariant holds of every behaviour of boots, saves, errors and
\* power failures.
THEOREM Invariance == Spec => []Inv
<1>1. Init => Inv
  BY InitInv
<1>2. Inv /\ [Next]_vars => Inv'
  BY NextInv
<1> QED BY <1>1, <1>2, PTL DEF Spec

\* Sectors, pointers and the working copy keep their types whatever fails.
THEOREM TypeCorrect == Spec => []TypeOK
<1>1. Inv => TypeOK
  BY DEF Inv
<1> QED BY <1>1, Invariance, PTL

\* There is a valid backup copy at every instant of saveenv and of the repair at
\* boot, after any earlier errors of saveenv: env_init would choose the
\* environment last saved or the one being saved, unless the last complete save
\* stored a stale crc.
THEOREM PowerFailSafety == Spec => []PowerFailSafe
<1>1. Inv => PowerFailSafe
  BY DEF Inv, Sound, PowerFailSafe
<1> QED BY <1>1, Invariance, PTL

\* The flag writes of env_relocate_spec never change which copy's environment
\* env_init would choose, done or cut short.
THEOREM RepairStability == Spec => RepairStable
<1>1. ASSUME Inv, [Next]_vars, pc \in {"relocate", "repair"}, ~faulted'
      PROVE  Chosen(sect') = Chosen(sect)
  <2>1. CASE SetDefaultEnv \/ UNCHANGED vars
    BY <2>1 DEF SetDefaultEnv, vars
  <2>2. CASE RelocateSpec
    BY <1>1, <2>2, RelocateKeepsChoice
  <2>3. CASE RepairOwn
    BY <1>1, <2>3, RepairOwnKeepsChoice
  <2>4. CASE PowerFail
    BY <1>1, <2>4, TornRepair DEF PowerFail
  <2> QED
    BY <1>1, <2>1, <2>2, <2>3, <2>4
    DEF Next, EnvInit, Load, SetEnv, SetEnvOverflow, SaveStart, EraseNew, WriteData, WriteCrc,
        WriteObsolete, WriteActive, SaveDone, RestoreFails, SaveFails
<1> QED BY <1>1, Invariance, PTL DEF Spec, RepairStable

\* saveenv returns 0 only with the new copy chosen, if the crc it wrote was that of
\* the data: after whatever errors and torn flags, the next boot would load what
\* was saved.
THEOREM SavedChosen == Spec => SavedIsChosen
<1>1. ASSUME Inv, [Next]_vars, pc = "restore", pc' = "idle", crc = env
      PROVE  Chosen(sect') = env
  <2>1. sect' = sect
    BY <1>1
    DEF Next, vars, EnvInit, SetDefaultEnv, RelocateSpec, RepairOwn, Load, SetEnv,
        SetEnvOverflow, SaveStart, EraseNew, WriteData, WriteCrc, WriteObsolete, WriteActive,
        SaveDone, RestoreFails, SaveFails, PowerFail
  <2>2. /\ sect[flash_addr_new].data = env /\ sect[flash_addr_new].crc = env /\ env # None
        /\ sect[flash_addr_new].flags = ACTIVE_FLAG /\ sect[flash_addr].flags = OBSOLETE_FLAG
    BY <1>1 DEF Inv, Progress, Running
  <2>3. CrcOk(sect, flash_addr_new)
    BY <2>2 DEF CrcOk
  <2>4. Healthy(sect)
    BY <1>1, <2>2, TwoCopies, FlagFacts DEF Healthy, Flags, Copies
  <2> QED BY <1>1, <2>1, <2>2, <2>3, <2>4, TwoCopies, ChoiceIs
<1> QED BY <1>1, Invariance, PTL DEF Spec, SavedIsChosen

\* Nothing repairs a fault: once one has happened, faulted stays.
LEMMA FaultsStay ==
  ASSUME Inv, [Next]_vars, ~faulted'
  PROVE  ~faulted
<1>1. CASE SaveFails
  BY <1>1, TornSave DEF SaveFails, Saving, RolesKept
<1>2. CASE PowerFail
  BY <1>2, TornKeepsBackup DEF PowerFail
<1> QED
  BY <1>1, <1>2
  DEF Next, vars, EnvInit, SetDefaultEnv, RelocateSpec, RepairOwn, Repair, Load, SetEnv,
      SetEnvOverflow, SaveStart, EraseNew, WriteData, WriteCrc, WriteObsolete, WriteActive,
      SaveDone, RestoreFails

\* The driver implements the store: boots decide for what was last reported as
\* saved or for what an unfinished saveenv was writing, once and for all. A save
\* of a stale crc suspends this until the next boot or good save.
THEOREM Implementation == Spec => ImplementsEnvStore
<1> USE DEF EnvStoreAbs!vars
<1>1. Init => EnvStoreAbs!Init
  BY DEF Init, EnvStoreAbs!Init
<1>2. ASSUME Inv, [Next]_vars PROVE [EnvStoreAbs!Next]_EnvStoreAbs!vars
  <2> DEFINE Kept == UNCHANGED <<env, acked, attempt, faulted, stale>>
             Void == faulted \/ stale
  <2>0. ASSUME ~Void', Void PROVE EnvStoreAbs!Recover
    <3>1. ~faulted /\ stale
      BY <1>2, <2>0, FaultsStay
    <3>2. SetDefaultEnv \/ Load \/ SaveDone
      BY <1>2, <2>0, <3>1
      DEF Next, vars, EnvInit, RelocateSpec, RepairOwn, SetEnv, SetEnvOverflow, SaveStart,
          EraseNew, WriteData, WriteCrc, WriteObsolete, WriteActive, RestoreFails, SaveFails,
          PowerFail
    <3>3. env' = acked' /\ env' = attempt' /\ acked' \in Envs
      BY <1>2, <3>2, NextInv DEF SetDefaultEnv, Load, SaveDone, Inv, TypeOK, Progress
    <3> QED BY <2>0, <3>3 DEF EnvStoreAbs!Recover
  <2>1. SUFFICES ASSUME ~Void', ~Void PROVE Kept \/ EnvStoreAbs!Promise
    BY <1>2, <2>0 DEF EnvStoreAbs!Next
  <2>2. /\ ~faulted /\ ~faulted' /\ ~stale /\ ~stale' /\ acked \in Envs /\ attempt \in Envs
        /\ faulted' = faulted /\ stale' = stale
    BY <1>2, <2>1, NextInv DEF Inv, TypeOK
  <2>3. CASE EnvInit \/ RelocateSpec \/ RepairOwn \/ SaveStart \/ WriteData \/ WriteCrc
             \/ WriteObsolete \/ WriteActive \/ UNCHANGED vars
    BY <2>2, <2>3
    DEF EnvInit, RelocateSpec, RepairOwn, SaveStart, WriteData, WriteCrc, WriteObsolete,
        WriteActive, vars
  <2>4. CASE SetDefaultEnv
    <3>1. Chosen(sect) \in {acked, attempt} /\ Choice(sect) = 0 /\ env = None
      BY <1>2, <2>2, <2>4 DEF SetDefaultEnv, Inv, Sound, ValidBackup, Progress, Running
    <3>2. EnvStoreAbs!Boot
      BY <2>4, <3>1 DEF SetDefaultEnv, Chosen, EnvStoreAbs!Boot
    <3> QED BY <3>2 DEF EnvStoreAbs!Promise
  <2>5. CASE Load
    <3>1. sect[flash_addr].data \in {acked, attempt} /\ env = None
      BY <1>2, <2>2, <2>5, LoadsChosen DEF Load, Inv, Sound, ValidBackup, Progress, Running
    <3>2. EnvStoreAbs!Boot
      BY <2>5, <3>1 DEF Load, EnvStoreAbs!Boot
    <3> QED BY <3>2 DEF EnvStoreAbs!Promise
  <2>6. CASE \E v \in Envs : SetEnv(v) \/ SetEnvOverflow(v)
    <3>1. env # None
      BY <1>2, <2>6 DEF SetEnv, SetEnvOverflow, Inv, Progress, Running
    <3> QED BY <2>6, <3>1 DEF SetEnv, SetEnvOverflow, EnvStoreAbs!Promise, EnvStoreAbs!SetEnv
  <2>7. CASE EraseNew
    <3>1. env # None
      BY <1>2, <2>7 DEF EraseNew, Inv, Progress, Running
    <3> QED BY <2>7, <3>1 DEF EraseNew, EnvStoreAbs!Promise, EnvStoreAbs!SaveBegin
  <2>8. CASE SaveDone
    <3>1. env # None
      BY <1>2, <2>8 DEF SaveDone, Inv, Progress, Running
    <3> QED BY <2>8, <3>1 DEF SaveDone, EnvStoreAbs!Promise, EnvStoreAbs!SaveDone
  <2>9. CASE RestoreFails
    BY <2>2, <2>9 DEF RestoreFails
  <2>10. CASE SaveFails
    <3>1. env # None /\ attempt' \in {attempt, env}
      BY <1>2, <2>10, TornSave DEF SaveFails, Inv, Progress, Running, Saving, RolesKept
    <3> QED BY <2>2, <2>10, <3>1 DEF SaveFails, EnvStoreAbs!Promise, EnvStoreAbs!SaveBegin
  <2>11. CASE PowerFail
    <3>1. attempt' \in {attempt, env} /\ attempt' # None
      BY <1>2, <2>11, TornKeepsBackup, EnvsAssumption DEF PowerFail
    <3> QED BY <2>11, <3>1 DEF PowerFail, EnvStoreAbs!Promise, EnvStoreAbs!PowerFail
  <2> QED BY <1>2, <2>3, <2>4, <2>5, <2>6, <2>7, <2>8, <2>9, <2>10, <2>11 DEF Next
<1> QED BY <1>1, <1>2, Invariance, PTL DEF Spec, ImplementsEnvStore, EnvStoreAbs!Spec
=============================================================================
