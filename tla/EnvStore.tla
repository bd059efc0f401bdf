------------------------------- MODULE EnvStore -------------------------------
(* What a redundant environment store promises its user (README, section       *)
(* "CONFIG_ENV_ADDR_REDUND"): whenever the power fails, the next boot finds    *)
(* either the environment of the last save that was reported as done, or the   *)
(* one a save that was cut short or reported as failed was storing -- and once *)
(* a boot has decided between the two, later boots decide the same.            *)
(* EnvFlash and EnvNand are shown to implement this module.                    *)
CONSTANTS
  Envs,     \* the possible contents of the environment
  Default,  \* default_environment[], compiled in
  None      \* no environment: RAM contents before env_relocate has run

VARIABLES
  env,      \* the working copy in RAM that setenv changes and saveenv stores
  acked,    \* what the storage is known to hold
  attempt,  \* what the last save that touched the storage was storing
  faulted   \* a fault has happened against which nothing is promised

vars == <<env, acked, attempt, faulted>>

Init == env = None /\ acked = Default /\ attempt = Default /\ faulted = FALSE

SetEnv(v) == env # None /\ env' = v /\ UNCHANGED <<acked, attempt>>

\* saveenv starts to overwrite the storage.
SaveBegin == env # None /\ attempt' = env /\ UNCHANGED <<env, acked>>

\* saveenv returns 0.
SaveDone == env # None /\ acked' = attempt /\ UNCHANGED <<env, attempt>>

\* The power may fail before or just after saveenv starts to overwrite.
PowerFail == env' = None /\ attempt' \in {attempt, env} \ {None} /\ acked' = acked

Boot ==
  /\ env = None
  /\ \E v \in {acked, attempt} : env' = v /\ acked' = v /\ attempt' = v

Promise ==
  \/ \E v \in Envs : SetEnv(v)
  \/ SaveBegin \/ SaveDone \/ PowerFail \/ Boot

\* After a fault anything may happen until a boot or a complete save starts afresh.
Recover ==
  /\ faulted
  /\ \E v \in Envs : env' = v /\ acked' = v /\ attempt' = v

Next == faulted' \/ (~faulted' /\ (Recover \/ (~faulted /\ Promise)))

Spec == Init /\ [][Next]_vars
=============================================================================
