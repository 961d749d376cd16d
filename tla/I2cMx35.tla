------------------------------ MODULE I2cMx35 ------------------------------
(***************************************************************************)
(* The I2C driver i2c/mx35: mx35_send, mx35_recv and the waits of wait.c,  *)
(* over the controller and one slave (external).  Reading the data         *)
(* register starts the reception of the next byte, so that what becomes of *)
(* a byte is decided one byte ahead.                                       *)
(*                                                                         *)
(* A byte takes long: what the thread does between two waits is one step.  *)
(* A byte is named by its place in the transfer.                           *)
(***************************************************************************)
EXTENDS Naturals, Sequences

CONSTANTS
  Transfers,   \* records [dir, len, stop, bits] a client may ask for
  MaxStretches \* bound: bytes that take longer than the timeout

ASSUME I2cAssumption ==
  /\ Transfers \subseteq [dir : {"send", "recv"}, len : Nat \ {0}, stop : BOOLEAN, bits : {7, 10}]
  /\ MaxStretches \in Nat

VARIABLES
  transfer, place, left,   \* the call; the wait it is in; bytes still to come
  restart,                 \* dev->restart
  got, status,             \* bytes received; what the last call returned
  i2cr, i2sr,              \* registers, as far as they matter; IIF of the second
  wire,                    \* byte on the bus, or Silence
  i2cEvent, i2cMasked,     \* event for InterruptWait; the interrupt is masked
  slave,                   \* how it is addressed, its bytes in this transfer
  stretches

line    == <<i2cEvent, i2cMasked>>
i2cVars == <<transfer, place, left, restart, got, status, i2cr, i2sr, wire, line, slave,
             stretches>>

Silence   == <<"none", 0>>
Byte(k)   == <<"data", k>>
Reception == <<"receive", 0>>

Off    == [msta |-> FALSE, iien |-> FALSE, txak |-> FALSE]
Master(nack) == [msta |-> TRUE, iien |-> TRUE, txak |-> nack]
NoStatus == [iif |-> FALSE, rxak |-> FALSE]

(* The byte for the bus; one still on it keeps the controller busy.        *)
Puts(b) == wire' = IF wire = Silence THEN b ELSE wire

\* A start condition; a stop is the end of MSTA.
Starts == slave' = [slave EXCEPT !.mode = "start"]
Stops  == slave' = [slave EXCEPT !.mode = "idle"]

Finishes(s) == place' = "idle" /\ status' = s

-----------------------------------------------------------------------------
(* mx35_sendaddr7, mx35_sendaddr10 up to the wait for the first byte.  A   *)
(* repeated start is asked for when restart is set, also after an error    *)
(* has given the bus away; arbitration may then be lost (external).        *)
Begin == \E t \in Transfers :
  /\ place = "idle"
  /\ transfer' = t /\ left' = t.len /\ got' = <<>> /\ status' = "none"
  /\ place' = IF t.bits = 7 THEN "address" ELSE "address_1"
  /\ \/ /\ i2cr' = Master(FALSE)
        /\ slave' = [mode |-> "start", count |-> 0]
        /\ Puts(IF t.bits = 7 THEN <<"adr", t.dir>> ELSE <<"xadr1", "send">>)
        /\ UNCHANGED i2sr
     \/ /\ restart /\ ~i2cr.msta
        /\ i2cr' = [Master(FALSE) EXCEPT !.msta = FALSE]
        /\ i2sr' = [i2sr EXCEPT !.iif = TRUE, !.ial = TRUE]
        /\ slave' = [mode |-> "idle", count |-> 0]
        /\ UNCHANGED wire
  /\ UNCHANGED <<restart, line, stretches>>

(* The end of mx35_send and mx35_recv.                                     *)
Done ==
  /\ Finishes("done")
  /\ restart' = ~transfer.stop

SendNext ==
  IF left > 0
  THEN /\ Puts(Byte(transfer.len - left + 1)) /\ left' = left - 1 /\ place' = "send"
       /\ UNCHANGED <<restart, status, i2cr, slave>>
  ELSE /\ IF transfer.stop THEN i2cr' = Off /\ Stops ELSE UNCHANGED <<i2cr, slave>>
       /\ Done
       /\ UNCHANGED <<left, wire>>

\* mx35_recv after the address: reading the register starts the first byte.
RecvFirst ==
  /\ i2cr' = Master(left = 1)
  /\ Puts(Reception) /\ place' = "recv"
  /\ UNCHANGED <<left, restart, status, slave>>

Acknowledged ==
  CASE place = "address_1" ->
         Puts(<<"xadr2", "send">>) /\ place' = "address_2"
         /\ UNCHANGED <<left, restart, status, i2cr, slave>>
    [] place = "address_2" /\ transfer.dir = "recv" ->
         Puts(<<"xadr1", "recv">>) /\ i2cr' = Master(FALSE) /\ Starts /\ place' = "address"
         /\ UNCHANGED <<left, restart, status>>
    [] transfer.dir = "send" /\ place # "address_1" -> SendNext
    [] transfer.dir = "recv" /\ place = "address" -> RecvFirst

Lost == ~i2cr.msta /\ i2sr.ial

(* mx35_sendbyte after the wait, with status s.                            *)
Sent(s) ==
  /\ \/ s.iif /\ Lost /\ Finishes("arbitration_lost")
        /\ UNCHANGED <<left, restart, i2cr, wire, slave>>
     \/ s.rxak /\ ~Lost /\ Finishes("nack") /\ i2cr' = Off /\ Stops
        /\ UNCHANGED <<left, restart, wire>>
     \/ ~s.rxak /\ ~(s.iif /\ Lost) /\ Acknowledged
  /\ UNCHANGED got

(* Mutant: the last byte is refused when it is there.                      *)
RefuseNow(n) == n = 1

(* When n bytes are left, the next one on the bus is to be refused.        *)
RefuseNext(n) == n = 2

(* mx35_recvbyte, and the end of mx35_recv.                                *)
Received(s) ==
  IF ~s.iif
  THEN /\ Finishes("error") /\ i2cr' = [Off EXCEPT !.iien = TRUE] /\ Stops
       /\ UNCHANGED <<left, restart, got, wire>>
  ELSE LET stops == left = 1 /\ transfer.stop
       IN  /\ got' = Append(got, i2sr.data)
           /\ left' = left - 1
           /\ i2cr' = IF RefuseNext(left) THEN Master(TRUE) ELSE IF stops THEN Off ELSE i2cr
           /\ IF stops THEN Stops ELSE UNCHANGED slave
           /\ IF i2cr'.msta THEN Puts(Reception) ELSE UNCHANGED wire
           /\ IF left > 1 THEN place' = "recv" /\ UNCHANGED <<restart, status>>
              ELSE IF stops THEN Done ELSE place' = "flush" /\ UNCHANGED <<restart, status>>

Sending == place \in {"address", "address_1", "address_2", "send"}

Continue(s) ==
  CASE Sending -> Sent(s)
    [] place = "recv"  -> Received(s)
    [] place = "flush" -> Done /\ UNCHANGED <<left, got, i2cr, wire, slave>>

(* mx35_wait_status: the interrupt flag ends the wait and is cleared, and  *)
(* the interrupt is unmasked; an event without it is waited out.           *)
Flagged ==
  /\ i2sr.iif
  /\ i2sr' = [i2sr EXCEPT !.iif = FALSE, !.ial = @ /\ ~(Sending /\ Lost)]
  /\ i2cMasked' = FALSE
  /\ Continue([iif |-> TRUE, rxak |-> i2sr.rxak])
  /\ UNCHANGED <<transfer, stretches>>

WaitEvent ==
  /\ place # "idle" /\ i2cEvent /\ i2cEvent' = FALSE
  /\ \/ Flagged
     \/ /\ ~i2sr.iif
        /\ UNCHANGED <<transfer, place, left, restart, got, status, i2cr, i2sr, wire, i2cMasked,
                       slave, stretches>>

(* After a timeout the flag is looked at once more; the status 0 then      *)
(* counts as an acknowledge.                                               *)
WaitTimeout ==
  /\ place # "idle" /\ ~i2cEvent /\ UNCHANGED i2cEvent
  /\ \/ Flagged
     \/ /\ ~i2sr.iif /\ wire # Silence /\ stretches < MaxStretches
        /\ stretches' = stretches + 1
        /\ Continue(NoStatus)
        /\ UNCHANGED <<transfer, i2sr, i2cMasked>>

-----------------------------------------------------------------------------
(* The interrupt, masked when its event is sent (InterruptAttachEvent).    *)
I2cInterrupt ==
  /\ i2sr.iif /\ i2cr.iien /\ ~i2cMasked
  /\ i2cEvent' = TRUE /\ i2cMasked' = TRUE
  /\ UNCHANGED <<transfer, place, left, restart, got, status, i2cr, i2sr, wire, slave, stretches>>

(* The controller and the slave (external).  A slave that is addressed     *)
(* takes bytes, or sends them until one is refused.                        *)
Answers(b) ==
  CASE b[1] = "adr" /\ slave.mode = "start" -> IF b[2] = "recv" THEN "sends" ELSE "takes"
    [] b = <<"xadr1", "send">> /\ slave.mode = "start" -> "half_addressed"
    [] b[1] = "xadr2" /\ slave.mode = "half_addressed" -> "takes"
    [] b = <<"xadr1", "recv">> /\ slave.mode = "start" -> "sends"
    [] b[1] = "data" /\ slave.mode = "takes" -> "takes"
    [] OTHER -> "idle"

SentByte ==
  /\ wire # Silence /\ wire # Reception
  /\ \E refused \in BOOLEAN :
       LET mode == IF refused THEN "idle" ELSE Answers(wire)
       IN  /\ slave' = [mode |-> mode, count |-> IF mode = "takes" /\ wire[1] = "data"
                          /\ wire = Byte(slave.count + 1) THEN slave.count + 1 ELSE slave.count]
           /\ i2sr' = [i2sr EXCEPT !.iif = TRUE, !.rxak = mode = "idle"]
  /\ wire' = Silence
  /\ UNCHANGED <<transfer, place, left, restart, got, status, i2cr, line, stretches>>

(* Another master wins: this one is none any more.                         *)
ArbitrationLost ==
  /\ wire # Silence /\ wire # Reception /\ i2cr.msta
  /\ i2cr' = [i2cr EXCEPT !.msta = FALSE]
  /\ i2sr' = [i2sr EXCEPT !.iif = TRUE, !.ial = TRUE] /\ wire' = Silence
  /\ Stops
  /\ UNCHANGED <<transfer, place, left, restart, got, status, line, stretches>>

ReceivedByte ==
  /\ wire = Reception
  /\ LET sends == slave.mode = "sends"
     IN  /\ i2sr' = [i2sr EXCEPT !.iif = TRUE, !.data = IF sends THEN slave.count + 1 ELSE 0]
         /\ slave' = IF sends THEN [mode |-> IF i2cr.txak THEN "refused" ELSE "sends",
                                    count |-> slave.count + 1] ELSE slave
  /\ wire' = Silence
  /\ UNCHANGED <<transfer, place, left, restart, got, status, i2cr, line, stretches>>

I2cInit ==
  /\ transfer \in Transfers /\ place = "idle" /\ left = 0
  /\ restart = FALSE /\ got = <<>> /\ status = "none"
  /\ i2cr = [Off EXCEPT !.iien = TRUE] /\ wire = Silence
  /\ i2sr = [iif |-> FALSE, rxak |-> FALSE, ial |-> FALSE, data |-> 0]
  /\ i2cEvent = FALSE /\ i2cMasked = FALSE
  /\ slave = [mode |-> "idle", count |-> 0] /\ stretches = 0

I2cNext ==
  \/ Begin \/ WaitEvent \/ WaitTimeout
  \/ I2cInterrupt \/ SentByte \/ ArbitrationLost \/ ReceivedByte

I2cSpec == I2cInit /\ [][I2cNext]_i2cVars
-----------------------------------------------------------------------------
(* Every variable has its type.                                            *)
I2cTypeOK ==
  /\ transfer \in Transfers /\ left \in 0 .. transfer.len
  /\ place \in {"idle", "address", "address_1", "address_2", "send", "recv", "flush"}
  /\ status \in {"none", "done", "error", "nack", "arbitration_lost"}
  /\ {restart, i2cEvent, i2cMasked} \subseteq BOOLEAN
  /\ i2cr \in [msta : BOOLEAN, iien : BOOLEAN, txak : BOOLEAN]
  /\ Len(got) <= transfer.len /\ stretches \in 0 .. MaxStretches

MovedAll ==
  (place = "idle" /\ status = "done" /\ stretches = 0) =>
    /\ slave.mode # "sends"
    /\ transfer.dir = "send" => slave.count = transfer.len
    /\ transfer.dir = "recv" => got = [k \in 1 .. transfer.len |-> k]

Woken ==
  /\ i2cMasked => i2sr.iif
  /\ place # "idle" /\ stretches = 0 => wire # Silence \/ (i2sr.iif /\ (i2cEvent \/ ~i2cMasked))

(* A call that returns I2C_STATUS_DONE has moved all its bytes, each once  *)
(* and in order, and has left a slave that sends no more: it has refused   *)
(* the last byte of a reception, in time - as long as no byte has taken    *)
(* longer than the timeout, whose end counts as an acknowledge.  And a     *)
(* call that waits is woken: a byte is on the bus, or its flag is up and   *)
(* its event there or still to be sent, also after lost arbitration and    *)
(* after events that found no flag.                                        *)
TransferRight == I2cTypeOK /\ MovedAll /\ Woken
=============================================================================
