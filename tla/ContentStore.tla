---------------------------- MODULE ContentStore ----------------------------
(***************************************************************************)
(* What a persistent store of immutable contents promises, as the header   *)
(* of the packed store states it (state_store_packed.h:82-89): a successful*)
(* save is visible to the process, a barrier makes everything saved so far *)
(* survive a power loss, an I/O failure poisons the store until it is      *)
(* reopened.  Nothing is ever deleted or replaced.                         *)
(***************************************************************************)
EXTENDS FiniteSets

CONSTANTS
  Content,  \* the contents
  HashOf    \* the key of each content

VARIABLES
  open,     \* the store is initialized
  poisoned, \* an operation has failed since it was opened
  stored,   \* the contents in the store
  durable   \* the ones a barrier has confirmed, or a power loss has spared

cvars == <<open, poisoned, stored, durable>>

CInit == open = FALSE /\ poisoned = FALSE /\ stored = {} /\ durable = {}

(* save() of a content whose key is new.                                    *)
CSave(d) ==
  /\ open /\ ~poisoned
  /\ \A e \in stored : HashOf[e] # HashOf[d]
  /\ stored' = stored \cup {d}
  /\ UNCHANGED <<open, poisoned, durable>>

(* flush_index(), wait_persisted(): all that is stored is durable.          *)
CBarrier ==
  /\ open /\ ~poisoned /\ durable' = stored
  /\ UNCHANGED <<open, poisoned, stored>>

CFail == open /\ poisoned' = TRUE /\ UNCHANGED <<open, stored, durable>>

COpen ==
  /\ ~open /\ open' = TRUE
  /\ UNCHANGED <<poisoned, stored, durable>>

(* shutdown(), or the end of the process: nothing is lost.                  *)
CClose ==
  /\ open /\ open' = FALSE /\ poisoned' = FALSE
  /\ durable' \in {durable, stored} /\ UNCHANGED stored

(* A power loss spares what is durable.                                     *)
CPowerLoss ==
  /\ open' = FALSE /\ poisoned' = FALSE
  /\ stored' \in SUBSET stored /\ durable \subseteq stored'
  /\ durable' = stored'

CNext ==
  \/ \E d \in Content : CSave(d)
  \/ CBarrier \/ CFail \/ COpen \/ CClose \/ CPowerLoss

CSpec == CInit /\ [][CNext]_cvars
=============================================================================
