--------------------------- MODULE SlotLifecycle ---------------------------
(***************************************************************************)
(* What a WAN slot promises as long as one goroutine at a time manages it: *)
(* the life of a slot is                                                   *)
(*    empty -> testing -> active -> draining -> empty                      *)
(* with a short cut to empty when its user drops it; an active slot runs   *)
(* the config it was claimed for, an xray process is stopped only after    *)
(* its drain has expired, by a drop or when viberoxy closes, and a slot is *)
(* emptied only once its process is gone.                                  *)
(***************************************************************************)
CONSTANTS Slots, Configs, NoConfig

VARIABLES life,    \* per slot: state, config, cmd, proc, drain (see WANPool)
          dropped, \* slots that are reset at the request of a user
          closing  \* viberoxy is shutting down

vars == <<life, dropped, closing>>

Empty == [state |-> "empty", config |-> NoConfig, cmd |-> NoConfig,
          proc |-> "none", drain |-> "no"]

Init == life = [i \in Slots |-> Empty] /\ dropped = {} /\ closing = FALSE

Claim(i) ==
  /\ life[i] = Empty
  /\ \E x \in Configs :
       life'[i] = [state |-> "testing", config |-> x, cmd |-> NoConfig,
                   proc |-> "none", drain |-> "no"]

\* The config could not be started.
Abandon(i) == life[i].state = "testing" /\ life'[i] = Empty

Promote(i) ==
  /\ life[i].state = "testing"
  /\ life'[i] = [state |-> "active", config |-> life[i].config, cmd |-> life[i].config,
                 proc |-> "up", drain |-> "no"]

Drain(i) ==
  /\ life[i].state = "active"
  /\ life'[i] = [state |-> "draining", config |-> life[i].config, cmd |-> life[i].cmd,
                 proc |-> life[i].proc, drain |-> "fresh"]

Expire(i) ==
  /\ life[i].state = "draining" /\ life[i].drain = "fresh"
  /\ life'[i] = [life[i] EXCEPT !.drain = "expired"]

\* The process ends by itself.
Exit(i) == life[i].proc = "up" /\ life'[i] = [life[i] EXCEPT !.proc = "zombie"]

Stop(i) ==
  /\ \/ life[i].state = "draining" /\ (life[i].drain = "expired" \/ closing)
     \/ i \in dropped
  /\ life[i].proc \in {"up", "zombie"}
  /\ life'[i] = [life[i] EXCEPT !.proc = "reaped"]

Free(i) ==
  /\ life[i].state \in {"active", "draining"} /\ life[i].proc = "reaped"
  /\ life'[i] = Empty

SlotStep(i) ==
  \/ Claim(i) \/ Abandon(i) \/ Promote(i) \/ Drain(i) \/ Expire(i) \/ Exit(i)
  \/ Stop(i) \/ Free(i)
  \/ life'[i] = life[i]

Next ==
  /\ life' = [i \in Slots |-> life'[i]] /\ \A i \in Slots : SlotStep(i)
  /\ dropped' \subseteq Slots
  /\ closing => closing'

Spec == Init /\ [][Next]_vars
=============================================================================
