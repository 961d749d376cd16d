----------------------------- MODULE SpiMaster -----------------------------
(***************************************************************************)
(* The resource manager of the SPI driver (spi/master): clients open the   *)
(* device, choose a default chip, lock and unlock chips and transfer.  One *)
(* thread serves an interface, so that each message is one step.  The list *)
(* of locks is kept as a sequence, its head first.                         *)
(***************************************************************************)
EXTENDS Integers, Sequences, SequencesExt

CONSTANTS
  Clients,   \* open control blocks
  NDev       \* chips of the controller: 0 .. NDev - 1

ASSUME SpiMasterAssumption == NDev \in 1 .. 65534

VARIABLES
  open,      \* clients that have an open control block
  chip,      \* ocb->chip: the default chip, with the flags it was set with
  lock,      \* drvhdl->lock
  used       \* the transfer the last message led to, and if its chip is the one checked

masterVars == <<open, chip, lock, used>>

NONE    == 65535             \* SPI_DEV_ID_NONE
Ids     == 0 .. NDev \cup {NONE}   \* NDev stands for every chip there is not
Flags   == SUBSET {"LOCK", "UNLOCK"}
Request == [id : Ids, flags : Flags]

Nothing   == [client |-> "none", id |-> NONE, checked |-> FALSE]

MasterInit ==
  /\ open = {}
  /\ chip = [c \in Clients |-> [id |-> NONE, flags |-> {}]]
  /\ lock = <<>>
  /\ used = Nothing

Quiet == used' = Nothing

Holder(d) == {lock[i].owner : i \in {j \in DOMAIN lock : lock[j].device = d}}

Own(l, c) == l.owner = c

(* _spi_unlock_dev: the first lock of c in the list, of any chip for NONE. *)
Unlocked(list, c, d) ==
  RemoveFirstMatch(list, LAMBDA l : (l.device = d \/ d = NONE) /\ Own(l, c))

Locked(c, d) == <<[owner |-> c, device |-> d]>> \o lock

(***************************************************************************)
(* _spi_lock_check answers EOK.                                            *)
(***************************************************************************)
(* Mutant: only the caller's own lock is looked for. *)
FreeOfMine(c, d) == c \notin Holder(d)

Free(c, d) == Holder(d) = {}

Granted(c, r) ==
  \/ /\ c \in Holder(r.id)
     /\ lock' = IF "UNLOCK" \in r.flags THEN Unlocked(lock, c, r.id) ELSE lock
  \/ /\ Free(c, r.id) /\ "LOCK" \in r.flags
     /\ lock' = Locked(c, r.id)
  \/ /\ Free(c, r.id) /\ r.flags = {}
     /\ UNCHANGED lock

(* EPERM, EINVAL, or ENOMEM for the lock. *)
Refused(c, r) ==
  /\ \/ Holder(r.id) \ {c} # {}
     \/ Holder(r.id) = {} /\ r.flags # {}
  /\ UNCHANGED lock
  /\ Quiet

(* The transfer, when there is something to transfer and such a chip. *)
Transfer(c, d, checked) ==
  \/ used' = Nothing
  \/ d < NDev /\ used' = [client |-> c, id |-> d, checked |-> checked]

(***************************************************************************)
(* _spi_read and _spi_write: the default chip with its flags is checked.   *)
(***************************************************************************)
Io(c) ==
  /\ c \in open
  /\ \/ Granted(c, chip[c]) /\ Transfer(c, chip[c].id, TRUE)
     \/ Refused(c, chip[c])
  /\ UNCHANGED <<open, chip>>

(* _spi_iomsg and the five messages: the chip named is checked, for NONE   *)
(* the default one is used. *)
Iomsg(c, r) ==
  /\ c \in open
  /\ \/ /\ Granted(c, r)
        /\ Transfer(c, IF r.id = NONE THEN chip[c].id ELSE r.id, r.id # NONE)
     \/ Refused(c, r)
  /\ UNCHANGED <<open, chip>>

(***************************************************************************)
(* DCMD_SPI_SET_CONFIG: the default chip is set before the configuration   *)
(* is tried.  DCMD_SPI_GET_DEVINFO changes nothing.                        *)
(***************************************************************************)
SetConfig(c, r, default) ==
  /\ c \in open
  /\ chip' = IF default /\ r.id # NONE THEN [chip EXCEPT ![c] = r] ELSE chip
  /\ Quiet
  /\ UNCHANGED <<open, lock>>

(***************************************************************************)
(* _spi_ocb_calloc and _spi_close_ocb, which unlocks until it is refused   *)
(* (more often than there are locks it never succeeds) and frees the       *)
(* control block, its chip with it.                                        *)
(***************************************************************************)
Open(c) ==
  /\ c \notin open
  /\ open' = open \cup {c}
  /\ Quiet
  /\ UNCHANGED <<chip, lock>>

Closed(c) ==
  LET left[n \in 0 .. Len(lock)] ==
        IF n = 0 THEN lock ELSE Unlocked(left[n - 1], c, NONE)
  IN  left[Len(lock)]

Close(c) ==
  /\ c \in open
  /\ open' = open \ {c}
  /\ lock' = Closed(c)
  /\ chip' = [chip EXCEPT ![c] = [id |-> NONE, flags |-> {}]]
  /\ Quiet

ClientStep(c) ==
  \/ Open(c) \/ Close(c) \/ Io(c)
  \/ \E r \in Request : Iomsg(c, r) \/ \E default \in BOOLEAN : SetConfig(c, r, default)

MasterNext == \E c \in Clients : ClientStep(c)

MasterSpec == MasterInit /\ [][MasterNext]_masterVars
-----------------------------------------------------------------------------
(* Every variable has its type; a lock names a client and a device.        *)
MasterTypeOK ==
  /\ open \subseteq Clients
  /\ chip \in [Clients -> Request]
  /\ lock \in Seq([owner : Clients, device : Ids])
  /\ used \in [client : Clients \cup {"none"}, id : Ids, checked : BOOLEAN]

(* A lock excludes the other clients: a chip is locked once only, whoever  *)
(* asks, and a transfer to a chip the client named, or to its default chip *)
(* by read or write, never reaches one another client has locked.  No lock *)
(* outlives its owner's control block, which close frees.                  *)
LockExcludes ==
  /\ MasterTypeOK
  /\ \A i, j \in DOMAIN lock : lock[i].device = lock[j].device => i = j
  /\ used.checked => Holder(used.id) \subseteq {used.client}
  /\ \A i \in DOMAIN lock : lock[i].owner \in open
=============================================================================
