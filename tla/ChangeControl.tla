----------------------------- MODULE ChangeControl -----------------------------
(***************************************************************************)
(* What the fee administration promises, without saying how: a change of a *)
(* configuration is submitted with a date before which it is not in force, *)
(* it is applied at most once and then makes exactly one new version, and  *)
(* a change that was refused is never applied.  No approval, no schedule   *)
(* and no interrupted call appears here.                                   *)
(***************************************************************************)
EXTENDS Integers, Sequences

CONSTANTS
  Configs,   \* ids of configurations
  Delays     \* the delays a submission may be given

VARIABLES
  changes,   \* every change submitted: its configuration, earliest date, stage
  version,   \* the version in force of each configuration, 0 when it is absent
  clock

Stages == {"open", "refused", "applied"}

Init ==
  /\ changes = <<>>
  /\ version \in [Configs -> {0, 1}]
  /\ clock = 0

Create(c) ==
  /\ version[c] = 0
  /\ version' = [version EXCEPT ![c] = 1]
  /\ UNCHANGED <<changes, clock>>

\* A change enters open; one without delay may be applied as it enters.
Submit(c, d) ==
  /\ version[c] > 0
  /\ \/ /\ changes' = Append(changes, [config |-> c, due |-> clock + d, stage |-> "open"])
        /\ UNCHANGED version
     \/ /\ d = 0
        /\ changes' = Append(changes, [config |-> c, due |-> clock, stage |-> "applied"])
        /\ version' = [version EXCEPT ![c] = @ + 1]
  /\ UNCHANGED clock

Apply(i) ==
  /\ changes[i].stage = "open"
  /\ changes[i].due <= clock
  /\ changes' = [changes EXCEPT ![i].stage = "applied"]
  /\ version' = [version EXCEPT ![changes[i].config] = @ + 1]
  /\ UNCHANGED clock

Refuse(i) ==
  /\ changes[i].stage = "open"
  /\ changes' = [changes EXCEPT ![i].stage = "refused"]
  /\ UNCHANGED <<version, clock>>

Tick ==
  /\ clock' = clock + 1
  /\ UNCHANGED <<changes, version>>

Next ==
  \/ \E c \in Configs : Create(c)
  \/ \E c \in Configs, d \in Delays : Submit(c, d)
  \/ \E i \in DOMAIN changes : Apply(i) \/ Refuse(i)
  \/ Tick

Spec == Init /\ [][Next]_<<changes, version, clock>>
================================================================================
