------------------------------ MODULE AudioPcm ------------------------------
(***************************************************************************)
(* A stream of the audio drivers deva/ctrl/3dsmx35 and mx over the         *)
(* transfers of the SDMA library (lib/dma/sdma/api.c, irq.c).  A           *)
(* subchannel acquires the stream, which builds a ring of descriptors over *)
(* its buffer, starts and stops it, and releases it.  The ring goes round  *)
(* by itself (options regen and contloop): at each interrupt the library   *)
(* enables all descriptors again and a pulse thread tells io-audio.        *)
(*                                                                         *)
(* What a call does with hw_lock held is one step as far as the interrupt  *)
(* handler, the pulse thread and the engine cannot tell.  io-audio (a      *)
(* subchannel is stopped before it is released) and the SDMA engine are    *)
(* outside the repository.                                                 *)
(***************************************************************************)
EXTENDS Naturals

CONSTANTS
  Subchns,        \* subchannels of io-audio
  FragCounts,     \* numbers of fragments a buffer may have
  MaxAudioPulses, \* bound: pulses the thread has not received
  NoSubchn        \* not a subchannel

ASSUME AudioAssumption ==
  /\ NoSubchn \notin Subchns
  /\ FragCounts \subseteq Nat \ {0} /\ MaxAudioPulses \in Nat

VARIABLES
  pcm_subchn,           \* who holds the stream
  hw_lock,              \* its holder, or NoSubchn
  call,                 \* per subchannel: how far its calls have come
  buffers,              \* subchannels whose buffer is allocated
  n_frags, bd,          \* the ring: per descriptor, DONE and whose buffer
  hostovr,              \* events may trigger the channel
  current_bd, moving,   \* where the engine is; what it moves, or Still
  intr, audioPulses,    \* INTR bit of the channel; pulses
  handler,              \* pulse thread: "wait", "test" or "call"
  played, unheard,      \* fragments ended since the start, modulo the ring; is
                        \* one of them not reported
  strayed               \* an acquire passed another, or a context was not reset

client == <<pcm_subchn, hw_lock, call, buffers>>
ring   == <<n_frags, bd>>
engine == <<hostovr, current_bd, moving>>
report == <<intr, audioPulses, handler, unheard>>
vars   == <<client, ring, engine, report, played, strayed>>

Slots == 0 .. n_frags - 1
Still == [of |-> NoSubchn, at |-> 0]
CallGoes(c, from, to) == call[c] = from /\ call' = [call EXCEPT ![c] = to]
-----------------------------------------------------------------------------
(* The test for another holder comes before the lock is taken.             *)
AcquireTest(c) ==
  /\ pcm_subchn = NoSubchn
  /\ CallGoes(c, "free", "acquiring")
  /\ UNCHANGED <<pcm_subchn, hw_lock, buffers, ring, engine, report, played, strayed>>

(* sdma_setup_xfer                                                         *)
Ring(c, n) ==
  /\ n_frags' = n
  /\ bd' = [i \in 0 .. n - 1 |-> [done |-> TRUE, of |-> c]]

Acquire(c) ==
  /\ hw_lock = NoSubchn /\ CallGoes(c, "acquiring", "stopped")
  /\ \E n \in FragCounts : Ring(c, n)
  /\ pcm_subchn' = c /\ buffers' = buffers \cup {c}
  /\ unheard' = FALSE
  /\ strayed' = (strayed \/ pcm_subchn # NoSubchn)
  /\ UNCHANGED <<hw_lock, engine, intr, audioPulses, handler, played>>

(* No memory for the buffer.                                               *)
AcquireFails(c) ==
  /\ hw_lock = NoSubchn /\ CallGoes(c, "acquiring", "free")
  /\ UNCHANGED <<pcm_subchn, hw_lock, buffers, ring, engine, report, played, strayed>>

(* ADO_PCM_TRIGGER_GO: only the holder's is obeyed.  A FIFO the engine has *)
(* not filled in time is reported, and the stream goes on.                 *)
Go(c) ==
  /\ hw_lock = NoSubchn /\ CallGoes(c, "stopped", "started")
  /\ hostovr' = (hostovr \/ c = pcm_subchn)
  /\ played' = IF c = pcm_subchn THEN 0 ELSE played
  /\ UNCHANGED <<pcm_subchn, hw_lock, buffers, ring, current_bd, moving, report, strayed>>

(* sdma_xfer_abort turns the events off, loads the context of the channel  *)
(* with the lock held, which takes a pulse or a second, and moves the      *)
(* pointer back to the head.                                               *)
Stop(c) ==
  /\ hw_lock = NoSubchn
  /\ IF c = pcm_subchn
     THEN hostovr' = FALSE /\ hw_lock' = c /\ CallGoes(c, "started", "aborting")
     ELSE CallGoes(c, "started", "stopped") /\ UNCHANGED <<hostovr, hw_lock>>
  /\ UNCHANGED <<pcm_subchn, buffers, ring, current_bd, moving, report, played, strayed>>

(* Mutant: the pointer stays where the engine stopped.                     *)
SlotKept == current_bd

FirstSlot == 0

AbortDone(c) ==
  /\ CallGoes(c, "aborting", "stopped")
  /\ hw_lock' = NoSubchn
  /\ moving' = Still /\ current_bd' = FirstSlot
  /\ unheard' = FALSE
  /\ UNCHANGED <<pcm_subchn, buffers, ring, hostovr, intr, audioPulses, handler, played, strayed>>

(* The command took longer than SDMA_CMD_TIMOUT_NS.                        *)
AbortFails(c) ==
  /\ CallGoes(c, "aborting", "stopped")
  /\ hw_lock' = NoSubchn
  /\ unheard' = FALSE /\ strayed' = TRUE
  /\ UNCHANGED <<pcm_subchn, buffers, ring, engine, intr, audioPulses, handler, played>>

Release(c) ==
  /\ hw_lock = NoSubchn /\ CallGoes(c, "stopped", "free")
  /\ pcm_subchn' = NoSubchn /\ buffers' = buffers \ {c}
  /\ UNCHANGED <<hw_lock, ring, engine, report, played, strayed>>
-----------------------------------------------------------------------------
(* Mutant: the last descriptor is left out.                                *)
ReenabledButLast == [i \in Slots |-> [bd[i] EXCEPT !.done = @ \/ i < n_frags - 1]]

(* callback_reenable_descr                                                 *)
Reenabled == [i \in Slots |-> [bd[i] EXCEPT !.done = TRUE]]

(* irq_handler of the process for the channel of the stream.               *)
DmaInterrupt ==
  /\ intr /\ audioPulses < MaxAudioPulses
  /\ intr' = FALSE /\ audioPulses' = audioPulses + 1
  /\ bd' = Reenabled
  /\ UNCHANGED <<client, n_frags, engine, handler, played, unheard, strayed>>

(* my_pulse_thread and play_pulse_hdlr: the holder is read twice, and no   *)
(* lock is taken, so that the second time there may be none, or another.   *)
PulseReceived ==
  /\ handler = "wait" /\ audioPulses > 0
  /\ audioPulses' = audioPulses - 1 /\ handler' = "test"
  /\ UNCHANGED <<client, ring, engine, intr, played, unheard, strayed>>

HolderTested ==
  /\ handler = "test"
  /\ handler' = IF pcm_subchn = NoSubchn THEN "wait" ELSE "call"
  /\ UNCHANGED <<client, ring, engine, intr, audioPulses, played, unheard, strayed>>

HolderCalled ==
  /\ handler = "call" /\ handler' = "wait"
  /\ unheard' = (unheard /\ pcm_subchn = NoSubchn)
  /\ UNCHANGED <<client, ring, engine, intr, audioPulses, played, strayed>>
-----------------------------------------------------------------------------
(* The engine (external).  It fetches an enabled descriptor, moves a piece *)
(* of the fragment at each event, and at the end clears DONE and sets the  *)
(* bit of the channel in INTR.                                             *)
Fetch ==
  /\ hostovr /\ moving = Still /\ current_bd \in Slots /\ bd[current_bd].done
  /\ moving' = [of |-> bd[current_bd].of, at |-> current_bd]
  /\ UNCHANGED <<client, ring, hostovr, current_bd, report, played, strayed>>

FragmentEnds ==
  /\ hostovr /\ moving # Still
  /\ bd' = IF current_bd \in Slots THEN [bd EXCEPT ![current_bd].done = FALSE] ELSE bd
  /\ current_bd' = IF current_bd + 1 < n_frags THEN current_bd + 1 ELSE 0
  /\ played' = IF played + 1 < n_frags THEN played + 1 ELSE 0
  /\ moving' = Still /\ intr' = TRUE /\ unheard' = TRUE
  /\ UNCHANGED <<client, n_frags, hostovr, audioPulses, handler, strayed>>

Init ==
  /\ pcm_subchn = NoSubchn /\ hw_lock = NoSubchn
  /\ call = [c \in Subchns |-> "free"] /\ buffers = {}
  /\ n_frags = 0 /\ bd = [i \in {} |-> NoSubchn]
  /\ hostovr = FALSE /\ current_bd = 0 /\ moving = Still
  /\ intr = FALSE /\ audioPulses = 0 /\ handler = "wait"
  /\ played = 0 /\ unheard = FALSE /\ strayed = FALSE

Next ==
  \/ \E c \in Subchns :
       \/ AcquireTest(c) \/ Acquire(c) \/ AcquireFails(c) \/ Go(c) \/ Stop(c)
       \/ AbortDone(c) \/ AbortFails(c) \/ Release(c)
  \/ DmaInterrupt \/ PulseReceived \/ HolderTested \/ HolderCalled
  \/ Fetch \/ FragmentEnds

Spec == Init /\ [][Next]_vars
-----------------------------------------------------------------------------
(* Every variable has its type.                                            *)
AudioTypeOK ==
  /\ {pcm_subchn, hw_lock} \subseteq Subchns \cup {NoSubchn} /\ buffers \subseteq Subchns
  /\ call \in [Subchns -> {"free", "acquiring", "stopped", "started", "aborting"}]
  /\ n_frags \in FragCounts \cup {0} /\ bd \in [Slots -> [done : BOOLEAN, of : Subchns]]
  /\ current_bd \in Nat /\ moving.of \in Subchns \cup {NoSubchn}
  /\ {hostovr, intr, unheard, strayed} \subseteq BOOLEAN
  /\ audioPulses \in 0 .. MaxAudioPulses /\ handler \in {"wait", "test", "call"}
  /\ played \in Nat

(* The engine works for the subchannel that holds the stream and has       *)
(* started it, in its buffer, and takes the fragments in turn from the     *)
(* first one - session after session, whatever the last one left in the    *)
(* ring.  Not promised by the code after two acquires have passed each     *)
(* other's test, nor after a context could not be loaded.                  *)
OwnFragmentsInTurn ==
  /\ AudioTypeOK
  /\ (moving # Still /\ hostovr /\ ~strayed) =>
       /\ moving = [of |-> pcm_subchn, at |-> played]
       /\ pcm_subchn \in buffers /\ call[pcm_subchn] = "started"

(* A stream goes on and is heard of, however late the interrupt handler    *)
(* and the pulse thread come: when the engine stands before a descriptor   *)
(* that is used up, an interrupt will enable it; when a fragment has ended *)
(* and io-audio has not been told, an interrupt, a pulse or the thread is  *)
(* on its way.                                                             *)
StreamGoesOn ==
  (hostovr /\ ~strayed) =>
    /\ moving = Still /\ ~bd[current_bd].done => intr
    /\ unheard => intr \/ audioPulses > 0 \/ handler # "wait"
=============================================================================
