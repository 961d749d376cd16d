---------------------------- MODULE MmcSdProofs ----------------------------
(***************************************************************************)
(* Proofs about the MMC/SD driver, for any command blocks, cards,          *)
(* controllers, spoilt or refused commands and removals: a command block   *)
(* is in one place and the engine moves data only for the one in work      *)
(* (RequestHeld), and as long as no card is removed, no interrupt comes    *)
(* before ext->state is assigned and nothing is written with PIO, none is  *)
(* forgotten (NoneForgotten).                                              *)
(*                                                                         *)
(* A handler of the driver thread maps a record of what the threads change *)
(* to the next.  What must hold of it is said of any such record s, so     *)
(* that it can be followed through the calls of a handler: Fit(s) always,  *)
(* CalmFit(s) in the runs in which nothing is lost (Calm).                 *)
(***************************************************************************)
EXTENDS MmcSd, TLAPS

Members(q) == {q[i] : i \in 1 .. Len(q)}
Distinct(q) == \A i, j \in 1 .. Len(q) : q[i] = q[j] => i = j

(* The types of a driver record and of its parts.                          *)
Idents == {"NONE", "START", "GO_IDLE", "CARD_VERSION", "SD_POWERUP", "MMC_POWERUP",
           "ALL_SEND_CID", "SET_ADDRESS", "SEND_CID", "SEND_CSD", "SEL_DES_CARD", "CHECK_STS",
           "SET_BW_APP", "SET_BW", "SEND_SCR", "PARSE_SCR", "CHECK_MODE", "SWITCH_MODE", "FINAL"}

Flags == {"INSERTED", "READY", "WP", "HC"}

Exts == [state : {"IDLE", "IDENT", "DATA"}, ident : Idents, istage : Nat, count : Nat,
         version : {"SD1", "SD2", "MMC"}, flags : SUBSET Flags,
         stop : {"NONE", "AUTO", "PEND", "ISSUED"}, retry : Nat]

(* The commands of an identification.                                      *)
IdentCommands ==
  {"GO_IDLE", "IF_COND", "APP_CMD", "SD_OP_COND", "MMC_OP_COND", "ALL_SEND_CID",
   "SET_RELATIVE_ADDR", "SEND_CID", "SEND_CSD", "SEL_DES_CARD", "SEND_STATUS",
   "SET_BUS_WIDTH", "SEND_SCR", "SWITCH", "SET_BLOCKLEN"}

ResultsOf == {"none", "ok", "okHC", "busy", "busyHC", "timeout", "error", "crc"}

Lines == [cmd : IdentCommands \cup {"none", "DATA", "STOP"}, req : Requests \cup {None},
          hc : BOOLEAN, res : ResultsOf]

Finals == {"ok", "error", "notReady", "protected"}
Pulses == {"INSERTION", "REMOVAL", "READY"}

Drivers == [e : Exts, hw : Lines, ctl : Seq(Pulses), nexus : Requests \cup {None},
            queue : Seq(Requests), answer : [Requests -> Finals \cup {"inprog", "none"}], enq : Nat,
            st : Finals \cup {"inprog"}]

Surround ==
  /\ mode \in {"idle", "ready", "tran", "open"} /\ host \in Hosts
  /\ slot \in Cards \cup {NoCard} /\ cardIrq \in BOOLEAN /\ dropped \in BOOLEAN
  /\ cpc \in {"wait", "started"} /\ noise \in Nat /\ removals \in Nat
  /\ cardIrq => host.cdIntr
  /\ kind \in [Requests -> Kinds]

(* A command block is in one place.                                        *)
Placed(s) ==
  /\ Distinct(s.queue) /\ s.nexus \notin Members(s.queue)
  /\ \A r \in Members(s.queue) : s.answer[r] = "none"
  /\ s.nexus # None => s.answer[s.nexus] = "none"
  /\ s.e.state = "DATA" => s.nexus # None

(* The data command that a card in its transfer state is to answer is that *)
(* of the block in work.                                                   *)
Linked(s) ==
  /\ s.hw.cmd = "none" => s.hw.res = "none"
  /\ s.hw.cmd = "DATA" => s.hw.req \in Requests
  /\ s.hw.cmd = "DATA" /\ s.hw.res = "none" /\ mode = "tran" =>
       s.hw.req = s.nexus /\ s.st = "inprog"

Fit(s) == s \in Drivers /\ Placed(s) /\ Linked(s)

Enqueued(s) == s.queue # <<>> /\ s.nexus = None => s.enq > 0

(* A card of which the driver has not been told cannot be in a transfer.   *)
Unseen ==
  /\ cardIrq => mode \in {"idle", "ready"}
  /\ cardIrq /\ mode = "ready" /\ hw.cmd = "SEL_DES_CARD" => hw.res # "none"

(* No card was removed, and no interrupt came too early.                   *)
Calm == removals = 0 /\ ~dropped

Going(s) ==
  s.nexus # None => \/ s.hw.cmd # "none" \/ cpc = "started" \/ s.st # "inprog"
                    \/ host.pio /\ Writes(kind[s.nexus])

Identifying(s) == s.e.state = "IDENT" => s.hw.cmd # "none"

Transferring(s) ==
  s.e.state = "DATA" /\ s.hw.cmd # "none" =>
    s.hw.cmd = "DATA" \/ (s.hw.cmd = "STOP" /\ s.e.stop = "ISSUED")

Idling(s) ==
  s.e.state = "IDLE" /\ s.hw.cmd # "none" => cpc = "started" /\ s.hw.cmd = "GO_IDLE"

(* The one insertion: its pulse, its start, its end.                       *)
Once(q) == \A i, j \in 1 .. Len(q) : q[i] = "INSERTION" /\ q[j] = "INSERTION" => i = j

Inserted(s) ==
  /\ "REMOVAL" \notin Members(s.ctl) /\ Once(s.ctl)
  /\ "INSERTION" \in Members(s.ctl) \/ cpc = "started" =>
       "READY" \notin s.e.flags /\ s.e.state = "IDLE"
  /\ cpc = "started" => "INSERTION" \notin Members(s.ctl) /\ s.hw.cmd # "none"
  /\ "INSERTED" \in s.e.flags => Present
  /\ "INSERTED" \notin s.e.flags =>
       /\ s.e.state = "IDLE" /\ s.hw.cmd = "none" /\ "READY" \notin s.e.flags
       /\ cpc = "wait" /\ "INSERTION" \notin Members(s.ctl)

CalmFit(s) == Going(s) /\ Identifying(s) /\ Transferring(s) /\ Idling(s) /\ Inserted(s)

MmcInv ==
  /\ Surround /\ Unseen /\ Fit(Driver) /\ Enqueued(Driver)
  /\ Calm => CalmFit(Driver) /\ ("INSERTED" \in ext.flags => ~cardIrq)

----------------------------------------------------------------------------
(* Identification.                                                         *)

(* What a stage of the identification leaves as it was.                    *)
Alike(e, f) ==
  /\ f \in Exts /\ f.state = e.state /\ f.stop = e.stop
  /\ "INSERTED" \in f.flags <=> "INSERTED" \in e.flags
  /\ "READY" \in f.flags <=> "READY" \in e.flags

(* The flags of a card are changed without touching the rest.              *)
LEMMA FlagsAlike ==
  ASSUME NEW e \in Exts, NEW F \in SUBSET {"WP", "HC"}
  PROVE  Alike(e, [e EXCEPT !.flags = @ \cup F]) /\ Alike(e, [e EXCEPT !.flags = @ \ F])
<1>1. e.flags \cup F \in SUBSET Flags /\ e.flags \ F \in SUBSET Flags BY DEF Exts, Flags
<1>2. [e EXCEPT !.flags = @ \cup F] \in Exts /\ [e EXCEPT !.flags = @ \ F] \in Exts
  BY <1>1 DEF Exts
<1>3. [e EXCEPT !.flags = @ \cup F].flags = e.flags \cup F
      /\ [e EXCEPT !.flags = @ \ F].flags = e.flags \ F
  BY DEF Exts
<1> QED BY <1>2, <1>3 DEF Alike, Exts

(* mmc_detect looks for the write protection at most.                      *)
LEMMA DetectedAlike ==
  ASSUME NEW e \in Exts
  PROVE  Alike(e, Detected(e))
<1>1. Alike(e, e) BY DEF Alike
<1> QED BY <1>1, FlagsAlike DEF Detected, ClearFlags

(* Other fields of the state may be set as well.                           *)
LEMMA FieldsAlike ==
  ASSUME NEW e \in Exts, NEW n \in Nat
  PROVE  Alike(e, [e EXCEPT !.istage = n]) /\ Alike(e, [e EXCEPT !.count = n])
<1>1. [e EXCEPT !.istage = n] \in Exts /\ [e EXCEPT !.count = n] \in Exts BY DEF Exts
<1> QED BY <1>1 DEF Alike, Exts

LEMMA IdentAlike ==
  ASSUME NEW e \in Exts, NEW id \in Idents
  PROVE  Alike(e, [e EXCEPT !.ident = id])
<1>1. [e EXCEPT !.ident = id] \in Exts BY DEF Exts
<1> QED BY <1>1 DEF Alike, Exts

(* What is alike twice is alike.                                           *)
LEMMA AlikeTwice ==
  ASSUME NEW e, NEW f, NEW g, Alike(e, f), Alike(f, g)
  PROVE  Alike(e, g)
BY DEF Alike

(* A stage ends with a command of an identification, with "done" or fails. *)
Staged(e, d) ==
  /\ Alike(e, d.e) /\ d.cmd \in IdentCommands \cup {"none", "done"}
  /\ d.cmd = "done" => d.e.ident = "NONE"

LEMMA StageStaged ==
  ASSUME NEW e \in Exts, NEW f, Alike(e, f), NEW id \in Idents,
         NEW c \in IdentCommands \cup {"done"}, c = "done" => id = "NONE"
  PROVE  Staged(e, Stage(f, id, c))
<1>1. f \in Exts BY DEF Alike
<1>2. Alike(f, [f EXCEPT !.ident = id]) BY <1>1, IdentAlike
<1>3. [f EXCEPT !.ident = id].ident = id BY <1>1 DEF Exts
<1>4. Alike(e, [f EXCEPT !.ident = id]) BY <1>2, AlikeTwice
<1> QED BY <1>3, <1>4 DEF Staged, Stage

LEMMA FailsStaged ==
  ASSUME NEW e \in Exts, NEW f, Alike(e, f)
  PROVE  Staged(e, Fails(f))
BY DEF Staged, Fails

(* mmc_ident_start.                                                        *)
LEMMA StartStaged ==
  ASSUME NEW e \in Exts
  PROVE  /\ Staged(e, IdentStart(e))
         /\ IdentStart(e).cmd \in {"none", "GO_IDLE"}
         /\ Present => IdentStart(e).cmd = "GO_IDLE"
<1> DEFINE f == Forget(e)
           d == Detected(f)
<1>1. Alike(e, f)
  <2>1. Alike(e, e) BY DEF Alike
  <2> QED BY <2>1, FlagsAlike DEF Forget, ClearFlags
<1>2. f \in Exts BY <1>1 DEF Alike
<1>3. Alike(e, d) /\ d \in Exts
  <2>1. Alike(f, d) BY <1>2, DetectedAlike
  <2> QED BY <1>1, <2>1, AlikeTwice DEF Alike
<1> HIDE DEF f, d
<1>4. Alike(e, [d EXCEPT !.count = 0]) /\ Alike(e, [d EXCEPT !.count = @ + 1])
  <2>1. d.count \in Nat BY <1>3 DEF Exts
  <2>2. d.count + 1 \in Nat BY <2>1
  <2>3. Alike(d, [d EXCEPT !.count = 0]) /\ Alike(d, [d EXCEPT !.count = d.count + 1])
    BY <1>3, <2>2, FieldsAlike
  <2> QED BY <1>3, <2>3, AlikeTwice
<1>5. /\ Staged(e, Fails(f)) /\ Staged(e, Stage([d EXCEPT !.count = 0], "GO_IDLE", "GO_IDLE"))
      /\ Staged(e, Stage([d EXCEPT !.count = @ + 1], "START", "GO_IDLE"))
  BY <1>1, <1>4, StageStaged, FailsStaged DEF Idents, IdentCommands
<1>6. IdentStart(e) = IF ~Present THEN Fails(f)
      ELSE IF e.count + 1 > 3 THEN Stage([d EXCEPT !.count = 0], "GO_IDLE", "GO_IDLE")
      ELSE Stage([d EXCEPT !.count = @ + 1], "START", "GO_IDLE")
  BY DEF IdentStart, f, d
<1> QED BY <1>5, <1>6 DEF Stage, Fails

(* mmc_ident_sd_powerup.                                                   *)
LEMMA SdPowerupStaged ==
  ASSUME NEW e \in Exts, NEW res \in ResultsOf
  PROVE  Staged(e, SdPowerup(e, res))
<1> DEFINE hc == IF res \in {"okHC", "busyHC"} THEN SetFlag(e, "HC") ELSE e
           next == [e EXCEPT !.istage = @ + 1]
           zero == [e EXCEPT !.istage = 0]
           hcz == [hc EXCEPT !.istage = 0]
           hcn == [hc EXCEPT !.istage = @ + 1]
<1>1. e.istage \in Nat /\ e.istage + 1 \in Nat /\ MaxStage \in Nat
  BY BoundsAssumption DEF Exts
<1>2. Alike(e, next) /\ Alike(e, zero) BY <1>1, FieldsAlike
<1>3. Alike(e, hc) /\ hc \in Exts /\ hc.istage \in Nat
  <2>1. Alike(e, e) BY DEF Alike
  <2>2. {"HC"} \in SUBSET {"WP", "HC"} OBVIOUS
  <2>3. Alike(e, [e EXCEPT !.flags = @ \cup {"HC"}]) BY <2>2, FlagsAlike
  <2>4. Alike(e, hc) BY <2>1, <2>3 DEF SetFlag
  <2>5. hc \in Exts BY <2>4 DEF Alike
  <2> HIDE DEF hc
  <2> QED BY <2>4, <2>5 DEF Exts
<1>7. Alike(e, e) BY DEF Alike
<1>4. Alike(e, hcz) /\ Alike(e, hcn)
  <2> HIDE DEF hc
  <2>1. hc.istage + 1 \in Nat BY <1>3
  <2>2. Alike(hc, hcz) /\ Alike(hc, hcn) BY <1>3, <2>1, FieldsAlike
  <2> QED BY <1>3, <2>2, AlikeTwice
<1> HIDE DEF hc, next, zero, hcz, hcn
<1>5. /\ Staged(e, Fails(e)) /\ Staged(e, Stage(next, "SD_POWERUP", "APP_CMD"))
      /\ Staged(e, Stage(zero, "MMC_POWERUP", "GO_IDLE"))
      /\ Staged(e, Stage(next, "SD_POWERUP", "SD_OP_COND"))
      /\ Staged(e, Stage(hcz, "ALL_SEND_CID", "ALL_SEND_CID"))
      /\ Staged(e, Stage(hcn, "SD_POWERUP", "APP_CMD"))
  BY <1>2, <1>4, <1>7, StageStaged, FailsStaged DEF Idents, IdentCommands
<1>6. SdPowerup(e, res) \in
        {Fails(e), Stage(next, "SD_POWERUP", "APP_CMD"), Stage(zero, "MMC_POWERUP", "GO_IDLE"),
         Stage(next, "SD_POWERUP", "SD_OP_COND"), Stage(hcz, "ALL_SEND_CID", "ALL_SEND_CID"),
         Stage(hcn, "SD_POWERUP", "APP_CMD")}
  <2>1. e.istage % 3 \in 0 .. 2 BY <1>1
  <2>2. e.istage = 1 => e.istage % 3 # 0 BY <1>1
  <2> QED BY <1>1, <2>1, <2>2, SMTT(30) DEF SdPowerup, hc, next, zero, hcz, hcn
<1> QED BY <1>5, <1>6

(* mmc_ident_mmc_card_powerup.                                             *)
LEMMA MmcPowerupStaged ==
  ASSUME NEW e \in Exts, NEW res \in ResultsOf
  PROVE  Staged(e, MmcPowerup(e, res))
<1> DEFINE n == [e EXCEPT !.istage = @ + 1]
           z == [n EXCEPT !.istage = 0, !.version = "MMC"]
<1>1. e.istage + 1 \in Nat BY DEF Exts
<1>2. Alike(e, n) /\ n \in Exts
  <2>1. Alike(e, n) BY <1>1, FieldsAlike
  <2> QED BY <2>1 DEF Alike
<1>3. z \in Exts BY <1>2 DEF Exts
<1>4. Alike(e, z) BY <1>2, <1>3 DEF Alike, Exts
<1> HIDE DEF z
<1>5. /\ Staged(e, Fails(n)) /\ Staged(e, Stage(z, "ALL_SEND_CID", "ALL_SEND_CID"))
      /\ Staged(e, Stage(n, "MMC_POWERUP", "MMC_OP_COND"))
  BY <1>2, <1>4, StageStaged, FailsStaged DEF Idents, IdentCommands
<1>6. MmcPowerup(e, res) \in {Fails(n), Stage(z, "ALL_SEND_CID", "ALL_SEND_CID"),
                              Stage(n, "MMC_POWERUP", "MMC_OP_COND")}
  BY DEF MmcPowerup, z
<1> QED BY <1>5, <1>6

(* mmc_ident_card_version.                                                 *)
LEMMA VersionStaged ==
  ASSUME NEW e \in Exts, NEW res \in ResultsOf
  PROVE  Staged(e, CardVersion(e, res))
<1> DEFINE v == IF res = "timeout" THEN "SD1" ELSE "SD2"
           f == [e EXCEPT !.version = v, !.ident = "SD_POWERUP", !.istage = 0]
<1>1. f \in Exts BY DEF Exts, Idents
<1>2. Alike(e, f) BY <1>1 DEF Alike, Exts
<1> HIDE DEF f
<1>3. Staged(f, SdPowerup(f, res)) BY <1>1, SdPowerupStaged
<1>4. Staged(e, SdPowerup(f, res)) BY <1>2, <1>3, AlikeTwice DEF Staged
<1>5. Alike(e, e) BY DEF Alike
<1>6. CardVersion(e, res) = Fails(e) \/ CardVersion(e, res) = SdPowerup(f, res)
  BY DEF CardVersion, f
<1> QED BY <1>4, <1>5, <1>6, FailsStaged

(* mmc_card_ident.                                                         *)
LEMMA IdentStaged ==
  ASSUME NEW e \in Exts, NEW res \in ResultsOf, NEW more \in BOOLEAN,
         Surround
  PROVE  Staged(e, CardIdent(e, res, more))
<1> DEFINE z == [e EXCEPT !.istage = 0]
           none == [e EXCEPT !.ident = "NONE"]
           p == ParseCsd(e)
<1>1. Alike(e, e) /\ Alike(e, z) /\ Alike(e, none)
  <2>1. Alike(e, e) BY DEF Alike
  <2>2. 0 \in Nat /\ "NONE" \in Idents BY DEF Idents
  <2> QED BY <2>1, <2>2, FieldsAlike, IdentAlike
<1>2. Alike(e, p)
  <2>1. {"WP"} \in SUBSET {"WP", "HC"} OBVIOUS
  <2>2. Alike(e, [e EXCEPT !.flags = @ \cup {"WP"}]) BY <2>1, FlagsAlike
  <2> QED BY <1>1, <2>2 DEF ParseCsd, SetFlag
<1> HIDE DEF z, none, p
<1>3. \A id \in Idents : \A c \in IdentCommands :
        Staged(e, Stage(e, id, c)) /\ Staged(e, Stage(z, id, c)) /\ Staged(e, Stage(p, id, c))
  <2> SUFFICES ASSUME NEW id \in Idents, NEW c \in IdentCommands
               PROVE  /\ Staged(e, Stage(e, id, c)) /\ Staged(e, Stage(z, id, c))
                      /\ Staged(e, Stage(p, id, c))
    OBVIOUS
  <2>1. c # "done" BY DEF IdentCommands
  <2> QED BY <1>1, <1>2, <2>1, StageStaged
<1>4. Staged(e, Stage(e, "NONE", "done"))
  BY <1>1, StageStaged DEF Idents
<1>5. Staged(e, Fails(e)) /\ Staged(e, Fails(none)) BY <1>1, FailsStaged
<1>6. /\ Staged(e, IdentStart(e)) /\ Staged(e, CardVersion(e, res))
      /\ Staged(e, SdPowerup(e, res)) /\ Staged(e, MmcPowerup(e, res))
  BY StartStaged, VersionStaged, SdPowerupStaged, MmcPowerupStaged
<1>7. e.ident \in Idents BY DEF Exts
<1> DEFINE d == CardIdent(e, res, more)
<1>8. \/ \E id \in Idents : \E c \in IdentCommands :
            d = Stage(e, id, c) \/ d = Stage(z, id, c) \/ d = Stage(p, id, c)
      \/ d \in {Stage(e, "NONE", "done"), Fails(e), Fails(none), IdentStart(e),
               CardVersion(e, res), SdPowerup(e, res), MmcPowerup(e, res)}
  <2>1. CASE e.ident \in {"START", "CARD_VERSION", "SD_POWERUP", "MMC_POWERUP"}
    BY <2>1 DEF CardIdent
  <2>2. CASE e.ident = "FINAL"
    BY <2>2 DEF CardIdent, none
  <2>3. CASE e.ident = "CHECK_MODE"
    BY <2>3 DEF CardIdent, SdClock, Idents, IdentCommands
  <2>4. CASE e.ident \notin {"START", "CARD_VERSION", "SD_POWERUP", "MMC_POWERUP", "FINAL",
                            "CHECK_MODE"} /\ Err(res)
    BY <2>4 DEF CardIdent
  <2>5. CASE e.ident \in {"GO_IDLE", "ALL_SEND_CID", "SET_ADDRESS", "SEND_CID"} /\ ~Err(res)
    BY <2>5 DEF CardIdent, Idents, IdentCommands, z
  <2>6. CASE e.ident \in {"SEND_CSD", "SEL_DES_CARD"} /\ ~Err(res)
    BY <2>6 DEF CardIdent, Idents, IdentCommands, p
  <2>7. CASE e.ident = "CHECK_STS" /\ ~Err(res)
    BY <2>7 DEF CardIdent, Idents, IdentCommands, StatusDone
  <2>8. CASE e.ident = "SET_BW_APP" /\ ~Err(res)
    BY <2>8 DEF CardIdent, Idents, IdentCommands
  <2>9. CASE e.ident = "SET_BW" /\ ~Err(res)
    BY <2>9 DEF CardIdent, Idents, IdentCommands, SdClock
  <2>10. CASE e.ident = "SEND_SCR" /\ ~Err(res)
    BY <2>10 DEF CardIdent, Idents, IdentCommands
  <2>11. CASE e.ident = "PARSE_SCR" /\ ~Err(res)
    BY <2>11 DEF CardIdent, Idents, IdentCommands, SdClock
  <2>12. CASE e.ident = "SWITCH_MODE" /\ ~Err(res)
    BY <2>12 DEF CardIdent, Idents, IdentCommands, SdClock
  <2>13. CASE e.ident = "NONE" /\ ~Err(res)
    BY <2>13 DEF CardIdent
  <2> QED BY <1>7, <2>1, <2>2, <2>3, <2>4, <2>5, <2>6, <2>7, <2>8, <2>9, <2>10, <2>11, <2>12, <2>13
       DEF Idents
<1> QED BY <1>3, <1>4, <1>5, <1>6, <1>8

----------------------------------------------------------------------------
(* What the calls of a handler make of a driver record.                    *)

(* The queue, the block in work and the state are those of before.         *)
Near(s, t) ==
  /\ t \in Drivers /\ t.nexus = s.nexus /\ t.queue = s.queue /\ t.answer = s.answer
  /\ t.enq = s.enq /\ t.e.state = s.e.state /\ t.hw \in {s.hw, Quiet}

(* So are the command on the line and what the control thread is told.     *)
Same(s, t) == Alike(s.e, t.e) /\ t.hw = s.hw /\ t.ctl = s.ctl

LEMMA QuietLine == Quiet \in Lines
BY DEF Quiet, Command, Lines, ResultsOf

LEMMA InsertedFlag ==
  ASSUME NEW e \in Exts
  PROVE  /\ SetFlag(e, "INSERTED") \in Exts /\ SetFlag(e, "INSERTED").state = e.state
         /\ SetFlag(e, "INSERTED").flags = e.flags \cup {"INSERTED"}
<1>1. e.flags \cup {"INSERTED"} \in SUBSET Flags BY DEF Exts, Flags
<1> QED BY <1>1 DEF SetFlag, Exts

LEMMA RemovedFlags ==
  ASSUME NEW e \in Exts
  PROVE  LET f == ClearFlags(e, {"INSERTED", "READY"})
         IN  f \in Exts /\ f.state = e.state /\ f.flags = e.flags \ {"INSERTED", "READY"}
<1>1. e.flags \ {"INSERTED", "READY"} \in SUBSET Flags BY DEF Exts, Flags
<1> QED BY <1>1 DEF ClearFlags, Exts

(* The record with other parts, and what is left.                          *)
LEMMA StatusSet ==
  ASSUME NEW s \in Drivers, NEW x \in Finals \cup {"inprog"}
  PROVE  LET t == [s EXCEPT !.st = x]
         IN  Near(s, t) /\ Same(s, t) /\ t.st = x /\ t.e = s.e
<1>1. [s EXCEPT !.st = x] \in Drivers BY DEF Drivers
<1>2. Alike(s.e, s.e) BY DEF Alike, Drivers
<1> QED BY <1>1, <1>2 DEF Near, Same, Drivers

LEMMA ExtSet ==
  ASSUME NEW s \in Drivers, NEW f, Alike(s.e, f)
  PROVE  LET t == [s EXCEPT !.e = f]
         IN  Near(s, t) /\ Same(s, t) /\ t.st = s.st /\ t.e = f
<1>1. [s EXCEPT !.e = f] \in Drivers BY DEF Drivers, Alike
<1> QED BY <1>1 DEF Near, Same, Drivers, Alike

(* mmc_media_check: nothing changes for a card that is known.              *)
LEMMA MediaCheckDone ==
  ASSUME NEW s \in Drivers
  PROVE  LET t == MediaCheck(s)
         IN  /\ Near(s, t) /\ t.st = s.st
             /\ Present /\ "INSERTED" \in s.e.flags => Same(s, t)
             /\ ~Present /\ "INSERTED" \notin s.e.flags => t = s
             /\ Present /\ "INSERTED" \notin s.e.flags =>
                  /\ t.hw = s.hw /\ t.ctl = Append(s.ctl, "INSERTION")
                  /\ "INSERTED" \in t.e.flags
                  /\ "READY" \in t.e.flags <=> "READY" \in s.e.flags
<1>0. s.e \in Exts /\ s.ctl \in Seq(Pulses) /\ s.hw \in Lines BY DEF Drivers
<1>1. CASE Present /\ "INSERTED" \in s.e.flags
  <2>1. MediaCheck(s) = [s EXCEPT !.e = Detected(s.e)] BY <1>1 DEF MediaCheck
  <2>2. Alike(s.e, Detected(s.e)) BY <1>0, DetectedAlike
  <2> QED BY <1>1, <2>1, <2>2, ExtSet
<1>2. CASE Present /\ "INSERTED" \notin s.e.flags
  <2> DEFINE d == Detected(s.e)
             f == SetFlag(d, "INSERTED")
             q == Append(s.ctl, "INSERTION")
             t == [s EXCEPT !.e = f, !.ctl = q]
  <2>1. MediaCheck(s) = t BY <1>2 DEF MediaCheck
  <2>2. Alike(s.e, d) BY <1>0, DetectedAlike
  <2>3. f \in Exts /\ f.state = s.e.state /\ f.flags = d.flags \cup {"INSERTED"}
    BY <2>2, InsertedFlag DEF Alike
  <2>4. q \in Seq(Pulses) BY <1>0 DEF Pulses
  <2>5. "READY" \in f.flags <=> "READY" \in s.e.flags BY <2>2, <2>3 DEF Alike
  <2> HIDE DEF f, q
  <2>6. t \in Drivers BY <2>3, <2>4 DEF Drivers
  <2>7. t.e = f /\ t.ctl = q /\ t.hw = s.hw /\ t.st = s.st BY DEF Drivers
  <2>8. Near(s, t) BY <2>3, <2>6, <2>7 DEF Near, Drivers
  <2> QED BY <1>2, <2>1, <2>3, <2>5, <2>7, <2>8 DEF q
<1>3. CASE ~Present /\ "INSERTED" \in s.e.flags
  <2> DEFINE f == ClearFlags(s.e, {"INSERTED", "READY"})
             q == Append(s.ctl, "REMOVAL")
             t == [s EXCEPT !.e = f, !.hw = Quiet, !.ctl = q]
  <2>1. MediaCheck(s) = t BY <1>3 DEF MediaCheck
  <2>2. f \in Exts /\ f.state = s.e.state BY <1>0, RemovedFlags
  <2>3. q \in Seq(Pulses) BY <1>0 DEF Pulses
  <2> HIDE DEF f, q
  <2>4. t \in Drivers BY <2>2, <2>3, QuietLine DEF Drivers
  <2>5. t.e = f /\ t.hw = Quiet /\ t.st = s.st BY DEF Drivers
  <2>6. Near(s, t) BY <2>2, <2>4, <2>5 DEF Near, Drivers
  <2> QED BY <1>3, <2>1, <2>5, <2>6
<1>4. CASE ~Present /\ "INSERTED" \notin s.e.flags
  <2>1. MediaCheck(s) = s BY <1>4 DEF MediaCheck
  <2> QED BY <1>4, <2>1 DEF Near
<1> QED BY <1>1, <1>2, <1>3, <1>4

(* mmc_unit_ready.                                                         *)
LEMMA UnitReadyDone ==
  ASSUME NEW s \in Drivers
  PROVE  LET t == UnitReady(s)
         IN  /\ Near(s, t) /\ t.st \in Finals
             /\ "READY" \notin s.e.flags \/ Present => Same(s, t)
<1>1. CASE "READY" \notin s.e.flags
  <2>1. UnitReady(s) = [s EXCEPT !.st = "notReady"] BY <1>1 DEF UnitReady
  <2>2. "notReady" \in Finals BY DEF Finals
  <2>3. Near(s, UnitReady(s)) /\ Same(s, UnitReady(s)) /\ UnitReady(s).st = "notReady"
    BY <2>1, <2>2, StatusSet
  <2> QED BY <2>2, <2>3
<1>2. CASE "READY" \in s.e.flags /\ Present
  <2> DEFINE f == Detected(s.e)
             u == [s EXCEPT !.e = f]
  <2>1. Alike(s.e, f) BY DetectedAlike DEF Drivers
  <2>2. UnitReady(s) = [u EXCEPT !.st = "ok"] BY <1>2 DEF UnitReady, Drivers
  <2>3. Near(s, u) /\ Same(s, u) BY <2>1, ExtSet
  <2> HIDE DEF u
  <2>4. u \in Drivers /\ "ok" \in Finals BY <2>3 DEF Near, Finals
  <2>5. Near(u, UnitReady(s)) /\ Same(u, UnitReady(s)) /\ UnitReady(s).st \in Finals
    BY <2>2, <2>4, StatusSet
  <2> QED BY <2>3, <2>5, AlikeTwice DEF Near, Same
<1>3. CASE "READY" \in s.e.flags /\ ~Present
  <2> DEFINE u == MediaCheck(s)
  <2>1. UnitReady(s) = [u EXCEPT !.st = "notReady"] BY <1>3 DEF UnitReady
  <2>2. Near(s, u) BY MediaCheckDone
  <2> HIDE DEF u
  <2>3. u \in Drivers /\ "notReady" \in Finals BY <2>2 DEF Near, Finals
  <2>4. Near(u, UnitReady(s)) /\ UnitReady(s).st \in Finals BY <2>1, <2>3, StatusSet
  <2> QED BY <1>3, <2>2, <2>4 DEF Near
<1> QED BY <1>1, <1>2, <1>3

(* The command of the block in work is sent.                               *)
Sent(s, t) ==
  /\ t \in Drivers /\ t.nexus = s.nexus /\ t.queue = s.queue /\ t.answer = s.answer
  /\ t.enq = s.enq /\ t.ctl = s.ctl /\ t.st = s.st
  /\ t.e.state = "DATA" /\ t.e.flags = s.e.flags /\ "READY" \in s.e.flags
  /\ t.hw.cmd = "DATA" /\ t.hw.req = s.nexus

LEMMA InitiateDone ==
  ASSUME NEW s \in Drivers, NEW busy \in BOOLEAN, s.nexus # None, "READY" \in s.e.flags,
         Surround
  PROVE  LET t == Initiate(s, busy)
         IN  Sent(s, t) \/ (Near(s, t) /\ Same(s, t) /\ t.st \in Finals)
<1>1. CASE busy
  <2>1. Initiate(s, busy) = [s EXCEPT !.st = "error"] BY <1>1 DEF Initiate
  <2> QED BY <2>1, StatusSet DEF Finals
<1>2. CASE ~busy
  <2> DEFINE x == StopFor(kind[s.nexus])
             f == [s.e EXCEPT !.stop = x, !.state = "DATA"]
             h == [cmd |-> "DATA", req |-> s.nexus, hc |-> "HC" \in s.e.flags, res |-> "none"]
             t == [s EXCEPT !.e = f, !.hw = h]
  <2>1. Initiate(s, busy) = t BY <1>2 DEF Initiate, Drivers, Exts
  <2>2. x \in {"NONE", "AUTO", "PEND", "ISSUED"} BY DEF StopFor
  <2> HIDE DEF x
  <2>3. f \in Exts /\ f.state = "DATA" /\ f.flags = s.e.flags BY <2>2 DEF Drivers, Exts
  <2>4. h \in Lines
    <3>1. s.nexus \in Requests \cup {None} BY DEF Drivers
    <3>2. ("HC" \in s.e.flags) \in BOOLEAN OBVIOUS
    <3> QED BY <3>1, <3>2 DEF Lines, ResultsOf
  <2>5. h.cmd = "DATA" /\ h.req = s.nexus OBVIOUS
  <2> HIDE DEF f, h
  <2>6. t \in Drivers BY <2>3, <2>4 DEF Drivers
  <2>7. /\ t.e = f /\ t.hw = h /\ t.nexus = s.nexus /\ t.queue = s.queue
        /\ t.answer = s.answer /\ t.enq = s.enq /\ t.ctl = s.ctl /\ t.st = s.st
    BY DEF Drivers
  <2> QED BY <2>1, <2>3, <2>5, <2>6, <2>7 DEF Sent
<1> QED BY <1>1, <1>2

(* mmc_io_cmds.                                                            *)
LEMMA IoCmdsDone ==
  ASSUME NEW s \in Drivers, NEW busy \in BOOLEAN, s.nexus # None, Surround
  PROVE  LET t == IoCmds(s, busy)
         IN  \/ t = s /\ s.e.state = "IDENT"
             \/ Sent(s, t)
             \/ /\ Near(s, t) /\ t.st \in Finals
                /\ "READY" \notin s.e.flags \/ Present => Same(s, t)
<1> DEFINE k == kind[s.nexus]
<1> HIDE DEF k
<1>1. IoCmds(s, busy) =
        IF s.e.state = "IDENT" THEN s
        ELSE IF k = "unitReady" THEN UnitReady(s)
        ELSE IF Writes(k) /\ "WP" \in s.e.flags THEN [s EXCEPT !.st = "protected"]
        ELSE IF "READY" \notin s.e.flags THEN [s EXCEPT !.st = "notReady"]
        ELSE IF Data(k) THEN Initiate(s, busy)
        ELSE [s EXCEPT !.st = "ok"]
  BY DEF IoCmds, k
<1>2. \A x \in Finals : LET t == [s EXCEPT !.st = x]
                        IN  Near(s, t) /\ Same(s, t) /\ t.st \in Finals
  <2> TAKE x \in Finals
  <2> QED BY StatusSet
<1>3. {"protected", "notReady", "ok"} \subseteq Finals BY DEF Finals
<1>4. LET t == UnitReady(s)
      IN  /\ Near(s, t) /\ t.st \in Finals
          /\ "READY" \notin s.e.flags \/ Present => Same(s, t)
  BY UnitReadyDone
<1>5. "READY" \in s.e.flags =>
        LET t == Initiate(s, busy)
        IN  Sent(s, t) \/ (Near(s, t) /\ Same(s, t) /\ t.st \in Finals)
  BY InitiateDone
<1> QED BY <1>1, <1>2, <1>3, <1>4, <1>5

----------------------------------------------------------------------------
(* Answers and new work.                                                   *)

LEMMA HeadTail ==
  ASSUME NEW S, NEW q \in Seq(S), q # <<>>
  PROVE  /\ Head(q) \in S /\ Tail(q) \in Seq(S)
         /\ Head(q) \in Members(q) /\ Members(Tail(q)) \subseteq Members(q)
         /\ Distinct(q) => Distinct(Tail(q)) /\ Head(q) \notin Members(Tail(q))
<1>1. Len(q) \in Nat /\ Len(q) > 0 /\ Head(q) = q[1] /\ Len(Tail(q)) = Len(q) - 1
  OBVIOUS
<1>2. \A i \in 1 .. Len(Tail(q)) : Tail(q)[i] = q[i + 1] /\ i + 1 \in 2 .. Len(q)
  BY <1>1
<1>3. Head(q) \in S /\ Tail(q) \in Seq(S) OBVIOUS
<1>4. Head(q) \in Members(q) BY <1>1 DEF Members
<1>5. Members(Tail(q)) \subseteq Members(q) BY <1>1, <1>2 DEF Members
<1>6. ASSUME Distinct(q) PROVE Distinct(Tail(q))
  <2> SUFFICES ASSUME NEW i \in 1 .. Len(Tail(q)), NEW j \in 1 .. Len(Tail(q)),
                      Tail(q)[i] = Tail(q)[j]
               PROVE  i = j
    BY DEF Distinct
  <2>1. q[i + 1] = q[j + 1] /\ i + 1 \in 1 .. Len(q) /\ j + 1 \in 1 .. Len(q)
    BY <1>2
  <2>2. i + 1 = j + 1 BY <2>1, <1>6 DEF Distinct
  <2> QED BY <2>2
<1>7. ASSUME Distinct(q) PROVE Head(q) \notin Members(Tail(q))
  <2> SUFFICES ASSUME NEW i \in 1 .. Len(Tail(q)), Tail(q)[i] = Head(q)
               PROVE  FALSE
    BY DEF Members
  <2>1. q[i + 1] = q[1] /\ i + 1 \in 2 .. Len(q) /\ 1 \in 1 .. Len(q) BY <1>1, <1>2
  <2>2. i + 1 = 1 BY <2>1, <1>1, <1>7 DEF Distinct
  <2> QED BY <2>1, <2>2
<1> QED BY <1>3, <1>4, <1>5, <1>6, <1>7

(* simq_post_ccb answers the block in work and keeps the rest.             *)
LEMMA PostDone ==
  ASSUME NEW s \in Drivers, s.nexus # None, s.st # "inprog"
  PROVE  LET t == Post(s)
         IN  /\ t \in Drivers /\ t.nexus = None /\ t.queue = s.queue /\ t.e = s.e
             /\ t.hw = s.hw /\ t.ctl = s.ctl /\ t.st = s.st /\ Enqueued(t)
             /\ \A r \in Requests : r # s.nexus => t.answer[r] = s.answer[r]
<1> DEFINE n == IF s.queue = <<>> THEN s.enq ELSE s.enq + 1
           a == [s.answer EXCEPT ![s.nexus] = s.st]
           t == [s EXCEPT !.nexus = None, !.answer = a, !.enq = n]
<1>1. Post(s) = t BY DEF Post, Drivers
<1>2. n \in Nat /\ (s.queue # <<>> => n > 0) BY DEF Drivers
<1>3. a \in [Requests -> Finals \cup {"inprog", "none"}]
      /\ \A r \in Requests : r # s.nexus => a[r] = s.answer[r]
  BY DEF Drivers
<1> HIDE DEF n, a
<1>4. t \in Drivers BY <1>2, <1>3 DEF Drivers
<1>5. /\ t.nexus = None /\ t.queue = s.queue /\ t.e = s.e /\ t.hw = s.hw /\ t.ctl = s.ctl
      /\ t.st = s.st /\ t.enq = n /\ t.answer = a
  BY DEF Drivers
<1> QED BY <1>1, <1>2, <1>3, <1>4, <1>5 DEF Enqueued

(* An answered block is no longer anywhere.                                *)
LEMMA PostFit ==
  ASSUME NEW s, Fit(s), s.nexus # None, s.st # "inprog", s.e.state # "DATA"
  PROVE  Fit(Post(s)) /\ Enqueued(Post(s))
<1>1. s \in Drivers BY DEF Fit
<1> DEFINE t == Post(s)
<1>2. /\ t \in Drivers /\ t.nexus = None /\ t.queue = s.queue /\ t.e = s.e
      /\ t.hw = s.hw /\ t.st = s.st /\ Enqueued(t)
      /\ \A r \in Requests : r # s.nexus => t.answer[r] = s.answer[r]
  BY <1>1, PostDone
<1> HIDE DEF t
<1>3. Members(s.queue) \subseteq Requests BY <1>1 DEF Members, Drivers
<1>4. None \notin Requests BY BoundsAssumption
<1>5. Placed(t)
  <2>1. \A r \in Members(t.queue) : t.answer[r] = "none" BY <1>2, <1>3 DEF Fit, Placed
  <2>2. Distinct(t.queue) /\ t.nexus \notin Members(t.queue)
    BY <1>2, <1>3, <1>4 DEF Fit, Placed
  <2> QED BY <1>2, <2>1, <2>2 DEF Placed
<1>6. Linked(t) BY <1>2 DEF Fit, Linked
<1> QED BY <1>2, <1>5, <1>6 DEF Fit, t

(* A call that leaves the block in work where it is keeps the places; with *)
(* an answer, no data command may be on the line.                          *)
LEMMA NearPlaced ==
  ASSUME NEW s, NEW t, Placed(s), Near(s, t)
  PROVE  Placed(t)
BY DEF Near, Placed

(* mmc_start_ccb.                                                          *)
LEMMA StartDone ==
  ASSUME NEW s, Fit(s), NEW busy \in BOOLEAN, ~Busy(s), Surround
  PROVE  LET t == StartCcb(s, busy)
         IN  /\ Fit(t) /\ Enqueued(t)
             /\ t.st = "inprog" \/ t.nexus = None
             /\ t.hw.cmd = "SEL_DES_CARD" => t.hw = s.hw
             /\ CalmFit(s) =>
                  CalmFit(t) /\ ("INSERTED" \in t.e.flags => "INSERTED" \in s.e.flags)
<1> DEFINE q == Tail(s.queue)
           a == Head(s.queue)
           u == [s EXCEPT !.nexus = a, !.queue = q, !.st = "inprog"]
           v == IF kind[u.nexus] = "devctl" THEN [u EXCEPT !.st = "ok"] ELSE IoCmds(u, busy)
           t == StartCcb(s, busy)
<1>1. t = Post(v) BY DEF StartCcb
<1>2. s \in Drivers /\ s.nexus = None /\ s.queue \in Seq(Requests) /\ s.queue # <<>>
  BY DEF Fit, Busy, Drivers
<1>3. /\ a \in Requests /\ q \in Seq(Requests) /\ a \in Members(s.queue)
      /\ Members(q) \subseteq Members(s.queue) /\ Distinct(q) /\ a \notin Members(q)
  <2>1. Distinct(s.queue) BY DEF Fit, Placed
  <2> QED BY <1>2, <2>1, HeadTail
<1>4. a # None BY <1>3, BoundsAssumption
<1> HIDE DEF q, a
<1>5. u \in Drivers BY <1>2, <1>3 DEF Drivers
<1>6. /\ u.nexus = a /\ u.queue = q /\ u.st = "inprog" /\ u.e = s.e /\ u.hw = s.hw
      /\ u.ctl = s.ctl /\ u.answer = s.answer /\ u.enq = s.enq
  BY <1>2 DEF Drivers
<1> HIDE DEF u
<1>7. Placed(u)
  <2>1. s.e.state # "DATA" BY <1>2 DEF Fit, Placed
  <2> QED BY <1>3, <1>6, <2>1 DEF Fit, Placed
(* No data command is on the line that the card would answer.              *)
<1>8. /\ s.hw.cmd = "none" => s.hw.res = "none"
      /\ s.hw.cmd = "DATA" => s.hw.req \in Requests
      /\ ~(s.hw.cmd = "DATA" /\ s.hw.res = "none" /\ mode = "tran")
  <2>1. None \notin Requests BY BoundsAssumption
  <2> QED BY <1>2, <2>1 DEF Fit, Linked
<1>9. u.e.state # "DATA" BY <1>2, <1>6 DEF Fit, Placed
<1>10. \/ v = u /\ u.e.state = "IDENT"
       \/ Sent(u, v)
       \/ /\ Near(u, v) /\ v.st \in Finals
          /\ "READY" \notin u.e.flags \/ Present => Same(u, v)
  <2>1. CASE kind[u.nexus] = "devctl"
    <3>1. "ok" \in Finals BY DEF Finals
    <3>2. Near(u, v) /\ Same(u, v) /\ v.st = "ok" BY <1>5, <2>1, <3>1, StatusSet
    <3> QED BY <3>1, <3>2
  <2>2. CASE kind[u.nexus] # "devctl"
    BY <1>4, <1>5, <1>6, <2>2, IoCmdsDone
  <2> QED BY <2>1, <2>2
<1> HIDE DEF v
<1>11. CASE v = u /\ u.e.state = "IDENT"
  <2>1. t = u BY <1>1, <1>6, <1>11 DEF Post
  <2>2. Linked(u) BY <1>6, <1>8 DEF Linked
  <2>3. Enqueued(u) BY <1>4, <1>6 DEF Enqueued
  <2>4. CalmFit(s) => CalmFit(u)
    BY <1>6, <1>11 DEF CalmFit, Going, Identifying, Transferring, Idling, Inserted
  <2> QED BY <1>5, <1>6, <1>7, <2>1, <2>2, <2>3, <2>4 DEF Fit
<1>12. CASE Sent(u, v)
  <2>1. t = v BY <1>1, <1>6, <1>12 DEF Post, Sent
  <2>2. Linked(v) BY <1>3, <1>6, <1>12 DEF Linked, Sent
  <2>3. Enqueued(v) BY <1>4, <1>6, <1>12 DEF Enqueued, Sent
  <2>4. Placed(v) BY <1>4, <1>6, <1>7, <1>12 DEF Placed, Sent
  <2>5. CalmFit(s) => CalmFit(v)
    BY <1>6, <1>12 DEF Sent, CalmFit, Going, Identifying, Transferring, Idling, Inserted
  <2> QED BY <1>6, <1>12, <2>1, <2>2, <2>3, <2>4, <2>5 DEF Fit, Sent
<1>13. CASE /\ Near(u, v) /\ v.st \in Finals
            /\ "READY" \notin u.e.flags \/ Present => Same(u, v)
  <2>1. v \in Drivers /\ v.nexus = a /\ v.st # "inprog" /\ v.e.state # "DATA"
    BY <1>6, <1>9, <1>13 DEF Near, Finals
  <2>2. Placed(v) BY <1>7, <1>13, NearPlaced
  <2>3. Linked(v)
    <3>1. v.hw = s.hw \/ v.hw = Quiet BY <1>6, <1>13 DEF Near
    <3>2. Quiet.cmd = "none" /\ Quiet.res = "none" BY DEF Quiet, Command
    <3> QED BY <1>8, <3>1, <3>2 DEF Linked
  <2>4. Fit(t) /\ Enqueued(t) BY <1>1, <1>4, <2>1, <2>2, <2>3, PostFit DEF Fit
  <2>5. t.nexus = None /\ t.e = v.e /\ t.hw = v.hw /\ t.ctl = v.ctl /\ t.st = v.st
    BY <1>1, <1>4, <2>1, PostDone
  <2>6. t.hw.cmd = "SEL_DES_CARD" => t.hw = s.hw
    BY <1>6, <1>13, <2>5 DEF Near, Quiet, Command
  <2>7. CalmFit(s) => CalmFit(t) /\ ("INSERTED" \in t.e.flags => "INSERTED" \in s.e.flags)
    <3> SUFFICES ASSUME CalmFit(s)
                 PROVE  CalmFit(t) /\ ("INSERTED" \in t.e.flags => "INSERTED" \in s.e.flags)
      OBVIOUS
    <3>1. "READY" \notin u.e.flags \/ Present BY <1>6 DEF CalmFit, Inserted
    <3>2. Same(u, v) BY <1>13, <3>1
    <3> QED BY <1>6, <2>5, <3>2
         DEF Same, Alike, CalmFit, Going, Identifying, Transferring, Idling, Inserted
  <2> QED BY <2>4, <2>5, <2>6, <2>7
<1> QED BY <1>10, <1>11, <1>12, <1>13

(* The same, also when there is nothing to start.                          *)
LEMMA StartFit ==
  ASSUME NEW s, Fit(s), NEW busy \in BOOLEAN, Surround,
         s.st = "inprog" \/ s.nexus = None
  PROVE  LET t == StartCcb(s, busy)
         IN  /\ Fit(t) /\ Enqueued(t)
             /\ t.st = "inprog" \/ t.nexus = None
             /\ t.hw.cmd = "SEL_DES_CARD" => t.hw = s.hw
             /\ CalmFit(s) =>
                  CalmFit(t) /\ ("INSERTED" \in t.e.flags => "INSERTED" \in s.e.flags)
<1>1. CASE Busy(s)
  <2>1. StartCcb(s, busy) = s BY <1>1 DEF StartCcb
  <2>2. Enqueued(s) BY <1>1 DEF Busy, Enqueued
  <2> QED BY <2>1, <2>2
<1>2. CASE ~Busy(s)
  BY <1>2, StartDone
<1> QED BY <1>1, <1>2

LEMMA AppendMembers ==
  ASSUME NEW S, NEW q \in Seq(S), NEW x \in S
  PROVE  /\ Append(q, x) \in Seq(S) /\ Members(Append(q, x)) = Members(q) \cup {x}
         /\ Distinct(q) /\ x \notin Members(q) => Distinct(Append(q, x))
         /\ Once(q) /\ (x # "INSERTION" \/ "INSERTION" \notin Members(q)) => Once(Append(q, x))
<1> DEFINE r == Append(q, x)
<1>1. r \in Seq(S) /\ Len(r) = Len(q) + 1 /\ Len(q) \in Nat OBVIOUS
<1>2. \A i \in 1 .. Len(q) : r[i] = q[i] OBVIOUS
<1>3. r[Len(q) + 1] = x OBVIOUS
<1> HIDE DEF r
<1>4. \A i \in 1 .. Len(r) : i \in 1 .. Len(q) \/ i = Len(q) + 1 BY <1>1
<1>5. Members(r) = Members(q) \cup {x}
  <2>1. Members(r) \subseteq Members(q) \cup {x} BY <1>2, <1>3, <1>4 DEF Members
  <2>2. \A i \in 1 .. Len(q) : i \in 1 .. Len(r) BY <1>1
  <2>3. Members(q) \subseteq Members(r) BY <1>2, <2>2 DEF Members
  <2>4. Len(q) + 1 \in 1 .. Len(r) BY <1>1
  <2>5. x \in Members(r) BY <1>3, <2>4 DEF Members
  <2> QED BY <2>1, <2>3, <2>5
<1>6. Distinct(q) /\ x \notin Members(q) => Distinct(r)
  BY <1>2, <1>3, <1>4 DEF Members, Distinct
<1>7. Once(q) /\ (x # "INSERTION" \/ "INSERTION" \notin Members(q)) => Once(r)
  BY <1>2, <1>3, <1>4 DEF Members, Once
<1> QED BY <1>1, <1>5, <1>6, <1>7 DEF r

(* mmc_media_check keeps the record fit.                                   *)
LEMMA MediaFit ==
  ASSUME NEW s, Fit(s)
  PROVE  LET t == MediaCheck(s)
         IN  /\ Fit(t) /\ t.st = s.st /\ t.nexus = s.nexus /\ (Enqueued(s) => Enqueued(t))
             /\ t.hw = s.hw \/ t.hw = Quiet
             /\ CalmFit(s) => CalmFit(t)
<1> DEFINE t == MediaCheck(s)
<1>1. s \in Drivers /\ s.ctl \in Seq(Pulses) BY DEF Fit, Drivers
<1>2. /\ Near(s, t) /\ t.st = s.st
      /\ Present /\ "INSERTED" \in s.e.flags => Same(s, t)
      /\ ~Present /\ "INSERTED" \notin s.e.flags => t = s
      /\ Present /\ "INSERTED" \notin s.e.flags =>
           /\ t.hw = s.hw /\ t.ctl = Append(s.ctl, "INSERTION")
           /\ "INSERTED" \in t.e.flags
           /\ "READY" \in t.e.flags <=> "READY" \in s.e.flags
  BY <1>1, MediaCheckDone
<1> HIDE DEF t
<1>3. Placed(t) BY <1>2, NearPlaced DEF Fit
<1>4. Linked(t)
  <2>1. Quiet.cmd = "none" /\ Quiet.res = "none" BY DEF Quiet, Command
  <2> QED BY <1>2, <2>1 DEF Fit, Linked, Near
<1>5. Enqueued(s) => Enqueued(t) BY <1>2 DEF Enqueued, Near
<1>6. ASSUME CalmFit(s) PROVE CalmFit(t)
  <2>1. CASE Present /\ "INSERTED" \in s.e.flags
    BY <1>2, <1>6, <2>1
    DEF Near, Same, Alike, CalmFit, Going, Identifying, Transferring, Idling, Inserted
  <2>2. CASE "INSERTED" \in s.e.flags /\ ~Present
    BY <1>6, <2>2 DEF CalmFit, Inserted
  <2>3. CASE "INSERTED" \notin s.e.flags /\ ~Present
    BY <1>2, <1>6, <2>3
  <2>4. CASE "INSERTED" \notin s.e.flags /\ Present
    <3>1. /\ "REMOVAL" \notin Members(s.ctl) /\ Once(s.ctl) /\ s.e.state = "IDLE"
          /\ s.hw.cmd = "none" /\ "READY" \notin s.e.flags /\ cpc = "wait"
          /\ "INSERTION" \notin Members(s.ctl)
      BY <1>6, <2>4 DEF CalmFit, Inserted
    <3>2. Members(t.ctl) = Members(s.ctl) \cup {"INSERTION"} /\ Once(t.ctl)
      <4>1. "INSERTION" \in Pulses BY DEF Pulses
      <4>2. t.ctl = Append(s.ctl, "INSERTION") BY <1>2, <2>4
      <4> QED BY <1>1, <3>1, <4>1, <4>2, AppendMembers
    <3>3. t.e.state = "IDLE" /\ "READY" \notin t.e.flags /\ "INSERTED" \in t.e.flags
          /\ t.hw = s.hw /\ t.st = s.st /\ t.nexus = s.nexus
      BY <1>2, <2>4, <3>1 DEF Near
    <3>4. Inserted(t) BY <2>4, <3>1, <3>2, <3>3 DEF Inserted
    <3>5. Going(t) BY <1>6, <3>3 DEF CalmFit, Going
    <3> QED BY <3>1, <3>3, <3>4, <3>5 DEF CalmFit, Identifying, Transferring, Idling
  <2> QED BY <2>1, <2>2, <2>3, <2>4
<1> QED BY <1>2, <1>3, <1>4, <1>5, <1>6 DEF Near, Fit, t

(* The end of mmc_process_interrupt.                                       *)
LEMMA SettleFit ==
  ASSUME NEW s, Fit(s), Enqueued(s)
  PROVE  LET t == Settle(s)
         IN  /\ Fit(t) /\ Enqueued(t) /\ (t.st = "inprog" \/ t.nexus = None)
             /\ t.e.flags = s.e.flags /\ t.hw = s.hw
             /\ s.st # "inprog" /\ s.nexus # None => t.e.state = "IDLE"
             /\ s.st = "inprog" \/ s.nexus = None => t = s
             /\ t.ctl = s.ctl /\ (s.st # "inprog" => t.nexus = None)
<1> DEFINE t == Settle(s)
<1>1. CASE s.st = "inprog" \/ s.nexus = None
  <2>1. t = s BY <1>1 DEF Settle
  <2> QED BY <1>1, <2>1
<1>2. CASE s.st # "inprog" /\ s.nexus # None
  <2> DEFINE f == [s.e EXCEPT !.state = "IDLE"]
             u == [s EXCEPT !.e = f]
  <2>1. s \in Drivers BY DEF Fit
  <2>2. t = Post(u) BY <1>2, <2>1 DEF Settle, Drivers
  <2>3. f \in Exts /\ f.state = "IDLE" /\ f.flags = s.e.flags BY <2>1 DEF Drivers, Exts
  <2> HIDE DEF f
  <2>4. u \in Drivers BY <2>1, <2>3 DEF Drivers
  <2>5. /\ u.e = f /\ u.nexus = s.nexus /\ u.queue = s.queue /\ u.answer = s.answer
        /\ u.hw = s.hw /\ u.st = s.st /\ u.ctl = s.ctl
    BY <2>1 DEF Drivers
  <2> HIDE DEF u
  <2>6. Fit(u) BY <2>3, <2>4, <2>5 DEF Fit, Placed, Linked
  <2>7. Fit(Post(u)) /\ Enqueued(Post(u)) BY <1>2, <2>3, <2>5, <2>6, PostFit
  <2>8. Post(u).nexus = None /\ Post(u).e = f /\ Post(u).hw = s.hw /\ Post(u).ctl = s.ctl
    BY <1>2, <2>4, <2>5, PostDone
  <2> QED BY <1>2, <2>2, <2>3, <2>7, <2>8
<1> QED BY <1>1, <1>2

(* A fit record becomes the driver's state.                                *)
LEMMA BecomesInv ==
  ASSUME MmcInv, NEW t, Becomes(t), Fit(t), Enqueued(t),
         t.st = "inprog" \/ t.nexus = None,
         UNCHANGED <<slot, kind, cpc, host, removals>>,
         noise' \in Nat, dropped' \in BOOLEAN, dropped => dropped',
         cardIrq' = cardIrq \/ cardIrq' = FALSE,
         cardIrq' => (t.hw.cmd = "SEL_DES_CARD" => t.hw = hw),
         removals = 0 /\ ~dropped' =>
           CalmFit(t) /\ ("INSERTED" \in t.e.flags => ~cardIrq')
  PROVE  MmcInv'
<1>1. /\ ext' = t.e /\ hw' = t.hw /\ ctl' = t.ctl /\ nexus' = t.nexus /\ queue' = t.queue
      /\ answer' = t.answer /\ enq' = t.enq
      /\ mode' = mode \/ (mode' = "idle" /\ t.hw.cmd = "DATA")
  BY DEF Becomes
<1> DEFINE s == Driver'
<1>2. /\ s.e = t.e /\ s.hw = t.hw /\ s.ctl = t.ctl /\ s.nexus = t.nexus /\ s.queue = t.queue
      /\ s.answer = t.answer /\ s.enq = t.enq /\ s.st = "inprog"
  BY <1>1 DEF Driver
<1>3. s \in Drivers
  <2>1. t \in Drivers BY DEF Fit
  <2>2. /\ t.e \in Exts /\ t.hw \in Lines /\ t.ctl \in Seq(Pulses) /\ t.nexus \in Requests \cup {None}
        /\ t.queue \in Seq(Requests) /\ t.answer \in [Requests -> Finals \cup {"inprog", "none"}]
        /\ t.enq \in Nat
    BY <2>1 DEF Drivers
  <2>3. s = [e |-> t.e, hw |-> t.hw, ctl |-> t.ctl, nexus |-> t.nexus, queue |-> t.queue,
             answer |-> t.answer, enq |-> t.enq, st |-> "inprog"]
    BY <1>1 DEF Driver
  <2> QED BY <2>2, <2>3 DEF Drivers
<1> HIDE DEF s
<1>4. Surround'
  <2>1. Surround BY DEF MmcInv
  <2>2. mode' \in {"idle", "ready", "tran", "open"} BY <1>1, <2>1 DEF Surround
  <2>3. slot' = slot /\ kind' = kind /\ cpc' = cpc /\ host' = host /\ removals' = removals
    OBVIOUS
  <2>4. cardIrq' \in BOOLEAN /\ (cardIrq' => host'.cdIntr)
    <3>1. cardIrq \in BOOLEAN /\ (cardIrq => host.cdIntr) BY <2>1 DEF Surround
    <3>2. CASE cardIrq' = cardIrq BY <2>3, <3>1, <3>2
    <3>3. CASE cardIrq' = FALSE BY <3>3
    <3> QED BY <3>2, <3>3
  <2> QED BY <2>1, <2>2, <2>3, <2>4 DEF Surround
<1>5. Unseen'
  <2>1. /\ cardIrq' => cardIrq
        /\ mode' \in {"idle", mode}
    <3>1. cardIrq' => cardIrq OBVIOUS
    <3>2. mode' \in {"idle", mode} BY <1>1
    <3> QED BY <3>1, <3>2
  <2>2. Unseen BY DEF MmcInv
  <2>3. cardIrq' => mode' \in {"idle", "ready"} BY <2>1, <2>2 DEF Unseen
  <2>4. ASSUME cardIrq', mode' = "ready", hw'.cmd = "SEL_DES_CARD" PROVE hw'.res # "none"
    <3>1. mode = "ready" BY <1>1, <2>4
    <3>2. hw' = hw BY <1>1, <2>4
    <3> QED BY <2>1, <2>2, <2>4, <3>1, <3>2 DEF Unseen
  <2> QED BY <2>3, <2>4 DEF Unseen
<1>6. Placed(s) BY <1>2 DEF Fit, Placed
<1>7. Linked(Driver)'
  <2>1. /\ s.hw.cmd = "none" => s.hw.res = "none"
        /\ s.hw.cmd = "DATA" => s.hw.req \in Requests
        /\ s.hw.cmd = "DATA" /\ s.hw.res = "none" /\ mode' = "tran" =>
             s.hw.req = s.nexus /\ s.st = "inprog"
    BY <1>1, <1>2 DEF Fit, Linked
  <2> QED BY <2>1 DEF Linked, s
<1>8. Fit(Driver)' BY <1>3, <1>6, <1>7 DEF Fit, Placed, s
<1>9. Enqueued(Driver)'
  <2>1. Enqueued(s) BY <1>2 DEF Enqueued
  <2> QED BY <2>1 DEF Enqueued, s
<1>10. ASSUME Calm' PROVE CalmFit(Driver)' /\ ("INSERTED" \in ext'.flags => ~cardIrq')
  <2>1. CalmFit(t) /\ ("INSERTED" \in t.e.flags => ~cardIrq') BY <1>10 DEF Calm
  <2>2. Going(s) BY <1>2, <2>1 DEF CalmFit, Going
  <2>3. Identifying(s) /\ Transferring(s) /\ Idling(s) /\ Inserted(s)
    BY <1>2, <2>1 DEF CalmFit, Identifying, Transferring, Idling, Inserted
  <2>4. Going(Driver)' BY <2>2 DEF Going, s
  <2>5. Identifying(Driver)' /\ Transferring(Driver)' /\ Idling(Driver)'
    BY <2>3 DEF Identifying, Transferring, Idling, s
  <2>6. Inserted(Driver)' BY <2>3 DEF Inserted, Present, s
  <2> QED BY <1>1, <2>1, <2>4, <2>5, <2>6 DEF CalmFit
<1> QED BY <1>4, <1>5, <1>8, <1>9, <1>10 DEF MmcInv

----------------------------------------------------------------------------
(* mmc_process_interrupt on the result of a command.                       *)

(* The result of a handler of the interrupt, of a record with a free line. *)
Handled(s, t) ==
  /\ t \in Drivers /\ t.nexus = s.nexus /\ t.queue = s.queue /\ t.answer = s.answer
  /\ t.enq = s.enq

(* mmc_data_irq: the block is answered, a stop command is sent, or nothing *)
(* is done about a command without data or a write with PIO.               *)
DataHandled(s, t) ==
  /\ Handled(s, t) /\ t.ctl = s.ctl /\ t.e.state = s.e.state /\ t.e.flags = s.e.flags
  /\ \/ t.st \in Finals /\ t.hw = s.hw
     \/ t.st = s.st /\ t.hw.cmd = "STOP" /\ t.e.stop = "ISSUED"
     \/ /\ t.st = s.st /\ t.hw = s.hw /\ s.e.stop # "ISSUED"
        /\ hw.cmd # "DATA" \/ (host.pio /\ Writes(kind[s.nexus]))

(* Sending a stop command again or for the first time.                     *)
LEMMA StopSent ==
  ASSUME NEW s \in Drivers, NEW e \in Exts, e.state = s.e.state, e.flags = s.e.flags,
         e.stop = "ISSUED"
  PROVE  DataHandled(s, [s EXCEPT !.hw = Command("STOP"), !.e = e])
<1> DEFINE h == Command("STOP")
           t == [s EXCEPT !.hw = h, !.e = e]
<1>1. h \in Lines /\ h.cmd = "STOP" BY DEF Command, Lines, ResultsOf
<1> HIDE DEF h
<1>2. t \in Drivers BY <1>1 DEF Drivers
<1>3. /\ t.nexus = s.nexus /\ t.queue = s.queue /\ t.answer = s.answer /\ t.enq = s.enq
      /\ t.ctl = s.ctl /\ t.e = e /\ t.st = s.st /\ t.hw = h
  BY DEF Drivers
<1> HIDE DEF t
<1>4. DataHandled(s, t) BY <1>1, <1>2, <1>3 DEF DataHandled, Handled
<1> QED BY <1>4 DEF t, h

(* An answer to the block in work.                                         *)
LEMMA Answered ==
  ASSUME NEW s \in Drivers, NEW e \in Exts, e.state = s.e.state, e.flags = s.e.flags,
         NEW x \in Finals
  PROVE  DataHandled(s, [s EXCEPT !.st = x, !.e = e])
<1> DEFINE t == [s EXCEPT !.st = x, !.e = e]
<1>1. t \in Drivers BY DEF Drivers
<1>2. /\ t.nexus = s.nexus /\ t.queue = s.queue /\ t.answer = s.answer /\ t.enq = s.enq
      /\ t.ctl = s.ctl /\ t.e = e /\ t.st = x /\ t.hw = s.hw
  BY DEF Drivers
<1> HIDE DEF t
<1>3. DataHandled(s, t) BY <1>1, <1>2 DEF DataHandled, Handled
<1> QED BY <1>3 DEF t

LEMMA DataMovedDone ==
  ASSUME NEW s \in Drivers, NEW busy \in BOOLEAN
  PROVE  DataHandled(s, DataMoved(s, busy))
<1> DEFINE f == [s.e EXCEPT !.stop = "NONE"]
           g == [s.e EXCEPT !.stop = "ISSUED"]
<1>1. /\ s.e \in Exts /\ f \in Exts /\ f.state = s.e.state /\ f.flags = s.e.flags
      /\ g \in Exts /\ g.state = s.e.state /\ g.flags = s.e.flags /\ g.stop = "ISSUED"
  BY DEF Drivers, Exts
<1>2. "ok" \in Finals /\ "error" \in Finals BY DEF Finals
<1>3. CASE s.e.stop # "PEND"
  <2>1. DataMoved(s, busy) = [s EXCEPT !.st = "ok", !.e = s.e]
    BY <1>3 DEF DataMoved, Drivers
  <2> HIDE DEF f, g
  <2>2. DataHandled(s, [s EXCEPT !.st = "ok", !.e = s.e]) BY <1>1, <1>2, Answered
  <2> QED BY <2>1, <2>2
<1>4. CASE s.e.stop = "PEND" /\ busy
  <2>1. DataMoved(s, busy) = [s EXCEPT !.st = "error", !.e = f]
    BY <1>4 DEF DataMoved, Drivers
  <2> HIDE DEF f, g
  <2>2. DataHandled(s, [s EXCEPT !.st = "error", !.e = f]) BY <1>1, <1>2, Answered
  <2> QED BY <2>1, <2>2
<1>5. CASE s.e.stop = "PEND" /\ ~busy
  <2>1. DataMoved(s, busy) = [s EXCEPT !.hw = Command("STOP"), !.e = g]
    BY <1>5 DEF DataMoved, Drivers
  <2> HIDE DEF g
  <2> QED BY <1>1, <2>1, StopSent
<1> QED BY <1>3, <1>4, <1>5

LEMMA StopIrqDone ==
  ASSUME NEW s \in Drivers, NEW res \in ResultsOf, NEW busy \in BOOLEAN,
         s.e.stop = "ISSUED"
  PROVE  DataHandled(s, StopIrq(s, res, busy))
<1> DEFINE f == [s.e EXCEPT !.stop = "NONE", !.retry = 0]
           g == [s.e EXCEPT !.stop = "NONE", !.retry = @ + 1]
           h == [s.e EXCEPT !.retry = @ + 1]
<1>1. s.e \in Exts /\ s.e.retry + 1 \in Nat BY DEF Drivers, Exts
<1>2. /\ f \in Exts /\ f.state = s.e.state /\ f.flags = s.e.flags
      /\ g \in Exts /\ g.state = s.e.state /\ g.flags = s.e.flags
      /\ h \in Exts /\ h.state = s.e.state /\ h.flags = s.e.flags /\ h.stop = "ISSUED"
  BY <1>1 DEF Exts
<1>3. "ok" \in Finals /\ "error" \in Finals BY DEF Finals
<1>4. CASE ~Err(res)
  <2>1. StopIrq(s, res, busy) = [s EXCEPT !.st = "ok", !.e = f]
    BY <1>4 DEF StopIrq, Drivers
  <2> HIDE DEF f, g, h
  <2>2. DataHandled(s, [s EXCEPT !.st = "ok", !.e = f]) BY <1>2, <1>3, Answered
  <2> QED BY <2>1, <2>2
<1>5. CASE Err(res) /\ (s.e.retry > 5 \/ busy)
  <2>1. StopIrq(s, res, busy) = [s EXCEPT !.st = "error", !.e = g]
    BY <1>5 DEF StopIrq, Drivers
  <2> HIDE DEF f, g, h
  <2>2. DataHandled(s, [s EXCEPT !.st = "error", !.e = g]) BY <1>2, <1>3, Answered
  <2> QED BY <2>1, <2>2
<1>6. CASE Err(res) /\ ~(s.e.retry > 5 \/ busy)
  <2>1. StopIrq(s, res, busy) = [s EXCEPT !.hw = Command("STOP"), !.e = h]
    BY <1>6 DEF StopIrq, Drivers
  <2> HIDE DEF h
  <2> QED BY <1>2, <2>1, StopSent
<1> QED BY <1>4, <1>5, <1>6

LEMMA DataIrqDone ==
  ASSUME NEW s \in Drivers, NEW res \in ResultsOf, NEW busy \in BOOLEAN
  PROVE  DataHandled(s, DataIrq(s, res, busy))
<1> DEFINE f == [s.e EXCEPT !.retry = 0]
           r == [s EXCEPT !.e = f]
           t == DataIrq(s, res, busy)
<1>1. s.e \in Exts /\ f \in Exts /\ f.state = s.e.state /\ f.flags = s.e.flags /\ f.stop = s.e.stop
  BY DEF Drivers, Exts
<1>2. t = IF s.e.stop = "ISSUED" THEN StopIrq(s, res, busy)
          ELSE IF Err(res) \/ res = "crc" THEN [r EXCEPT !.st = "error"]
          ELSE IF hw.cmd # "DATA" \/ (host.pio /\ Writes(kind[s.nexus])) THEN r
          ELSE DataMoved(r, busy)
  BY DEF DataIrq, Drivers
<1>3. s.e.stop = "ISSUED" => DataHandled(s, StopIrq(s, res, busy)) BY StopIrqDone
<1>4. DataHandled(s, [r EXCEPT !.st = "error"])
  <2>1. [r EXCEPT !.st = "error"] = [s EXCEPT !.st = "error", !.e = f] BY DEF Drivers
  <2>2. "error" \in Finals BY DEF Finals
  <2> HIDE DEF f
  <2> QED BY <1>1, <2>1, <2>2, Answered
<1>5. r \in Drivers /\ r.e = f /\ r.hw = s.hw /\ r.st = s.st /\ r.ctl = s.ctl /\ r.nexus = s.nexus
      /\ r.queue = s.queue /\ r.answer = s.answer /\ r.enq = s.enq
  <2> HIDE DEF f
  <2> QED BY <1>1 DEF Drivers
<1> HIDE DEF r, f
<1>6. DataHandled(r, DataMoved(r, busy)) BY <1>5, DataMovedDone
<1>7. s.e.stop # "ISSUED" => DataHandled(s, DataMoved(r, busy))
  BY <1>1, <1>5, <1>6 DEF DataHandled, Handled
<1>8. s.e.stop # "ISSUED" /\ (hw.cmd # "DATA" \/ (host.pio /\ Writes(kind[s.nexus])))
        => DataHandled(s, r)
  BY <1>1, <1>5 DEF DataHandled, Handled
<1> QED BY <1>2, <1>3, <1>4, <1>7, <1>8

(* What holds of the driver as long as it is not idle.                     *)
Working(s) ==
  /\ "INSERTED" \in s.e.flags /\ Present /\ cpc = "wait"
  /\ "INSERTION" \notin Members(s.ctl) /\ "REMOVAL" \notin Members(s.ctl) /\ Once(s.ctl)

LEMMA WorkingInserted ==
  ASSUME NEW s, Working(s)
  PROVE  Inserted(s)
BY DEF Working, Inserted

(* mmc_ident_irq: the identification has failed, is done, or goes on.      *)
IdentHandled(s, t) ==
  /\ Handled(s, t) /\ (Working(s) => Working(t))
  /\ \/ t.st \in Finals /\ t.hw \in {s.hw, Quiet} /\ t.e.state = "IDLE"
     \/ t.nexus = None /\ t.st = s.st /\ t.hw = s.hw /\ t.e.state = "IDLE"
     \/ t.st = s.st /\ t.e.state = "IDENT" /\ t.hw.cmd \in IdentCommands
     \/ t.st = s.st /\ t.e.state = "DATA" /\ t.hw.cmd = "DATA" /\ t.hw.req = s.nexus
        /\ s.nexus # None

LEMMA IdentFailedDone ==
  ASSUME NEW s \in Drivers, s.hw = Quiet
  PROVE  IdentHandled(s, IdentFailed(s))
<1> DEFINE f == [s.e EXCEPT !.state = "IDLE"]
           u == [s EXCEPT !.e = f, !.st = "error"]
           t == IdentFailed(s)
<1>1. f \in Exts /\ f.state = "IDLE" /\ f.flags = s.e.flags BY DEF Drivers, Exts
<1>2. t = IF Present THEN [u EXCEPT !.e = Detected(u.e), !.hw = Quiet] ELSE MediaCheck(u)
  BY DEF IdentFailed, Drivers
<1> HIDE DEF f
<1>3. /\ u \in Drivers /\ u.e = f /\ u.st = "error" /\ u.hw = Quiet /\ u.ctl = s.ctl
      /\ u.nexus = s.nexus /\ u.queue = s.queue /\ u.answer = s.answer /\ u.enq = s.enq
  BY <1>1 DEF Drivers, Finals
<1> HIDE DEF u
<1>4. "error" \in Finals BY DEF Finals
<1>5. CASE Present
  <2> DEFINE d == Detected(f)
             v == [u EXCEPT !.e = d]
  <2>1. Alike(f, d) BY <1>1, DetectedAlike
  <2>2. Near(u, v) /\ Same(u, v) /\ v.st = u.st BY <1>3, <2>1, ExtSet
  <2>3. t = v BY <1>2, <1>3, <1>5 DEF Drivers
  <2> HIDE DEF v
  <2>4. Working(s) => Working(t) BY <1>1, <1>3, <2>2, <2>3 DEF Working, Same, Alike
  <2> QED BY <1>1, <1>3, <1>4, <2>2, <2>3, <2>4 DEF IdentHandled, Handled, Near
<1>6. CASE ~Present
  <2>1. t = MediaCheck(u) BY <1>2, <1>6
  <2>2. Near(u, t) /\ t.st = u.st BY <1>3, <2>1, MediaCheckDone
  <2>3. ~Working(s) BY <1>6 DEF Working
  <2> QED BY <1>1, <1>3, <1>4, <2>2, <2>3 DEF IdentHandled, Handled, Near
<1> QED BY <1>5, <1>6

LEMMA IdentDoneDone ==
  ASSUME NEW s \in Drivers, s.hw = Quiet, s.st = "inprog", NEW busy \in BOOLEAN,
         Surround
  PROVE  IdentHandled(s, IdentDone(s, busy))
<1> DEFINE new == "READY" \notin s.e.flags
           f == SetFlag([s.e EXCEPT !.state = "IDLE"], "READY")
           q == IF new THEN Append(s.ctl, "READY") ELSE s.ctl
           u == [s EXCEPT !.e = f, !.ctl = q]
           t == IdentDone(s, busy)
<1>1. s.e \in Exts /\ s.ctl \in Seq(Pulses) BY DEF Drivers
<1>2. f \in Exts /\ f.state = "IDLE" /\ f.flags = s.e.flags \cup {"READY"}
  <2>1. s.e.flags \cup {"READY"} \in SUBSET Flags BY <1>1 DEF Exts, Flags
  <2> QED BY <1>1, <2>1 DEF SetFlag, Exts
<1>3. q \in Seq(Pulses) /\ Members(q) \subseteq Members(s.ctl) \cup {"READY"}
      /\ (Once(s.ctl) => Once(q))
  <2>1. "READY" \in Pulses /\ "READY" # "INSERTION" BY DEF Pulses
  <2> QED BY <1>1, <2>1, AppendMembers
<1>4. t = IF u.nexus = None THEN u ELSE IoCmds(u, busy) BY DEF IdentDone
<1> HIDE DEF f, q
<1>5. u \in Drivers BY <1>2, <1>3 DEF Drivers
<1>6. /\ u.e = f /\ u.ctl = q /\ u.nexus = s.nexus /\ u.queue = s.queue /\ u.answer = s.answer
      /\ u.enq = s.enq /\ u.hw = s.hw /\ u.st = s.st
  BY DEF Drivers
<1> HIDE DEF u
<1>7. Working(s) => Working(u) BY <1>2, <1>3, <1>6 DEF Working
<1>8. CASE u.nexus = None
  <2>1. t = u BY <1>4, <1>8
  <2> QED BY <1>2, <1>5, <1>6, <1>7, <1>8, <2>1 DEF IdentHandled, Handled
<1>9. CASE u.nexus # None
  <2>1. t = IoCmds(u, busy) BY <1>4, <1>9
  <2>2. \/ t = u /\ u.e.state = "IDENT"
        \/ Sent(u, t)
        \/ /\ Near(u, t) /\ t.st \in Finals
           /\ "READY" \notin u.e.flags \/ Present => Same(u, t)
    BY <1>5, <1>9, <2>1, IoCmdsDone
  <2>3. u.e.state = "IDLE" BY <1>2, <1>6
  <2>4. CASE Sent(u, t)
    <3>1. Working(s) => Working(t) BY <1>7, <2>4 DEF Working, Sent
    <3> QED BY <1>6, <1>9, <2>4, <3>1 DEF IdentHandled, Handled, Sent
  <2>5. CASE /\ Near(u, t) /\ t.st \in Finals
             /\ "READY" \notin u.e.flags \/ Present => Same(u, t)
    <3>1. Working(s) => Working(t) BY <1>7, <2>5 DEF Working, Same, Alike
    <3> QED BY <1>6, <2>3, <2>5, <3>1 DEF IdentHandled, Handled, Near
  <2> QED BY <2>2, <2>3, <2>4, <2>5
<1> QED BY <1>8, <1>9

LEMMA IdentIrqDone ==
  ASSUME NEW s \in Drivers, s.hw = Quiet, s.st = "inprog", s.e.state = "IDENT",
         NEW res \in ResultsOf, NEW more \in BOOLEAN, NEW busy \in BOOLEAN, Surround
  PROVE  IdentHandled(s, IdentIrq(s, res, more, busy))
<1> DEFINE d == CardIdent(s.e, res, more)
           u == [s EXCEPT !.e = d.e]
           t == IdentIrq(s, res, more, busy)
<1>1. Staged(s.e, d) BY IdentStaged DEF Drivers
<1>2. t = IF d.cmd = "none" \/ (busy /\ d.cmd # "done") THEN IdentFailed(u)
          ELSE IF d.e.ident = "NONE" THEN IdentDone(u, busy)
          ELSE [u EXCEPT !.hw = Command(d.cmd)]
  BY DEF IdentIrq
<1> HIDE DEF d
<1>3. Alike(s.e, d.e) BY <1>1 DEF Staged
<1>4. Near(s, u) /\ Same(s, u) /\ u.st = s.st BY <1>3, ExtSet
<1> HIDE DEF u
<1>5. u \in Drivers /\ u.hw = Quiet /\ u.st = "inprog" /\ u.e.state = "IDENT" /\ u.nexus = s.nexus
      /\ (Working(s) => Working(u))
  BY <1>4 DEF Near, Same, Alike, Working
<1>6. IdentHandled(u, IdentFailed(u)) BY <1>5, IdentFailedDone
<1>7. IdentHandled(u, IdentDone(u, busy)) BY <1>5, IdentDoneDone
<1>8. ASSUME d.cmd # "none", d.e.ident # "NONE"
      PROVE  IdentHandled(u, [u EXCEPT !.hw = Command(d.cmd)])
  <2> DEFINE h == Command(d.cmd)
  <2>1. d.cmd \in IdentCommands BY <1>1, <1>8 DEF Staged
  <2>2. h \in Lines /\ h.cmd = d.cmd BY <2>1 DEF Command, Lines, ResultsOf
  <2> HIDE DEF h
  <2>3. [u EXCEPT !.hw = h] \in Drivers BY <1>5, <2>2 DEF Drivers
  <2>4. LET v == [u EXCEPT !.hw = h]
        IN  /\ v.nexus = u.nexus /\ v.queue = u.queue /\ v.answer = u.answer /\ v.enq = u.enq
            /\ v.st = u.st /\ v.e = u.e /\ v.hw = h /\ v.ctl = u.ctl
    BY <1>5 DEF Drivers
  <2> QED BY <1>5, <2>1, <2>2, <2>3, <2>4 DEF IdentHandled, Handled, Working, h
<1>9. IdentHandled(u, t) BY <1>2, <1>6, <1>7, <1>8
<1> QED BY <1>4, <1>5, <1>9 DEF IdentHandled, Handled, Near, Same

(* A record that differs from another where fitness does not look.         *)
LEMMA LineQuiet == Quiet.cmd = "none" /\ Quiet.res = "none"
BY DEF Quiet, Command

(* The driver's record, read from the state.                               *)
LEMMA DriverFields ==
  /\ Driver.e = ext /\ Driver.hw = hw /\ Driver.ctl = ctl /\ Driver.nexus = nexus
  /\ Driver.queue = queue /\ Driver.answer = answer /\ Driver.enq = enq /\ Driver.st = "inprog"
BY DEF Driver

LEMMA InterruptInv ==
  ASSUME MmcInv, Interrupt
  PROVE  MmcInv'
<1> DEFINE s == Again([Driver EXCEPT !.hw = Quiet])
<1>1. PICK more \in BOOLEAN, busy \in BOOLEAN :
        /\ noise' = IF busy THEN noise + 1 ELSE noise
        /\ Becomes(Settle(CASE s.e.state = "IDENT" -> IdentIrq(s, hw.res, more, busy)
                            [] s.e.state = "DATA" -> DataIrq(s, hw.res, busy)
                            [] s.e.state = "IDLE" -> s))
        /\ dropped' = (dropped \/ s.e.state = "IDLE")
  BY DEF Interrupt
<1> DEFINE u == CASE s.e.state = "IDENT" -> IdentIrq(s, hw.res, more, busy)
                  [] s.e.state = "DATA" -> DataIrq(s, hw.res, busy)
                  [] s.e.state = "IDLE" -> s
           t == Settle(u)
<1>2. /\ hw.res # "none" /\ ~cardIrq /\ Becomes(t)
      /\ UNCHANGED <<slot, kind, cpc, host, removals>> /\ cardIrq' = cardIrq
  BY <1>1 DEF Interrupt
<1>3. Surround /\ Driver \in Drivers /\ Placed(Driver) /\ Linked(Driver) /\ Enqueued(Driver)
  BY DEF MmcInv, Fit
<1>4. hw \in Lines /\ hw.res \in ResultsOf /\ hw.cmd # "none" /\ ext \in Exts
  BY <1>2, <1>3, DriverFields DEF Linked, Drivers, Lines
<1>5. /\ s \in Drivers /\ s.hw = Quiet /\ s.st = "inprog" /\ s.nexus = nexus /\ s.queue = queue
      /\ s.answer = answer /\ s.enq = enq /\ s.ctl = ctl
      /\ s.e.flags = ext.flags /\ s.e.stop = ext.stop
      /\ s.e.state = ext.state \/ (s.e.state = "IDENT" /\ hw.cmd = "DATA")
  <2> DEFINE q == [Driver EXCEPT !.hw = Quiet]
             f == [ext EXCEPT !.state = "IDENT", !.ident = "START"]
  <2>1. q \in Drivers BY <1>3, QuietLine DEF Drivers
  <2>2. /\ q.e = ext /\ q.hw = Quiet /\ q.st = "inprog" /\ q.nexus = nexus /\ q.queue = queue
        /\ q.answer = answer /\ q.enq = enq /\ q.ctl = ctl
    BY DriverFields DEF Driver
  <2>3. f \in Exts /\ f.flags = ext.flags /\ f.stop = ext.stop /\ f.state = "IDENT"
    BY <1>4 DEF Exts, Idents
  <2> HIDE DEF q
  <2>4. CASE host.to1 /\ ~host.pio /\ hw.cmd = "DATA" /\ hw.res = "crc"
    <3>1. s = [q EXCEPT !.e = f] BY <2>1, <2>2, <2>4 DEF Again, q, Drivers, Exts
    <3> HIDE DEF f
    <3>2. [q EXCEPT !.e = f] \in Drivers BY <2>1, <2>3 DEF Drivers
    <3>3. LET x == [q EXCEPT !.e = f]
          IN  /\ x.e = f /\ x.hw = q.hw /\ x.st = q.st /\ x.nexus = q.nexus /\ x.queue = q.queue
              /\ x.answer = q.answer /\ x.enq = q.enq /\ x.ctl = q.ctl
      BY <2>1 DEF Drivers
    <3> QED BY <2>2, <2>3, <2>4, <3>1, <3>2, <3>3
  <2>5. CASE ~(host.to1 /\ ~host.pio /\ hw.cmd = "DATA" /\ hw.res = "crc")
    <3>1. s = q BY <2>5 DEF Again, q
    <3> QED BY <2>1, <2>2, <3>1
  <2> QED BY <2>4, <2>5
<1>6. s.e.state \in {"IDLE", "IDENT", "DATA"} BY <1>5 DEF Drivers, Exts
<1> HIDE DEF s
<1>7. Placed(s) /\ Enqueued(s) BY <1>3, <1>5, DriverFields DEF Placed, Enqueued
<1>8. /\ s.e.state = "IDENT" => IdentHandled(s, u)
      /\ s.e.state = "DATA" => DataHandled(s, u)
      /\ s.e.state = "IDLE" => u = s
  <2>1. CASE s.e.state = "IDENT"
    <3>1. u = IdentIrq(s, hw.res, more, busy) BY <2>1
    <3> QED BY <1>3, <1>4, <1>5, <2>1, <3>1, IdentIrqDone
  <2>2. CASE s.e.state = "DATA"
    <3>1. u = DataIrq(s, hw.res, busy) BY <2>2
    <3> QED BY <1>4, <1>5, <2>2, <3>1, DataIrqDone
  <2>3. CASE s.e.state = "IDLE"
    <3>1. u = s BY <2>3
    <3> QED BY <2>3, <3>1
  <2> QED BY <1>6, <2>1, <2>2, <2>3
<1> HIDE DEF u
<1>9. /\ u \in Drivers /\ u.nexus = nexus /\ u.queue = queue /\ u.answer = answer /\ u.enq = enq
      /\ u.e.state = "DATA" => nexus # None
      /\ u.hw = Quiet \/ u.hw.cmd \in IdentCommands \/ u.hw.cmd = "STOP"
         \/ (u.hw.cmd = "DATA" /\ u.hw.req = nexus /\ nexus # None /\ u.st = "inprog")
  <2>1. CASE s.e.state = "IDENT"
    <3>1. IdentHandled(s, u) BY <1>8, <2>1
    <3>2. Handled(s, u) BY <3>1 DEF IdentHandled
    <3>3. u.e.state = "DATA" => nexus # None BY <1>5, <3>1 DEF IdentHandled
    <3> QED BY <1>5, <3>1, <3>2, <3>3 DEF IdentHandled, Handled
  <2>2. CASE s.e.state = "DATA"
    <3>1. DataHandled(s, u) BY <1>8, <2>2
    <3> QED BY <1>5, <1>7, <2>2, <3>1 DEF DataHandled, Handled, Placed
  <2>3. CASE s.e.state = "IDLE"
    <3>1. u = s BY <1>8, <2>3
    <3> QED BY <1>5, <2>3, <3>1
  <2> QED BY <1>6, <2>1, <2>2, <2>3
<1>10. Fit(u) /\ Enqueued(u)
  <2>1. Placed(u) BY <1>5, <1>7, <1>9 DEF Placed
  <2>2. nexus # None => nexus \in Requests BY <1>3, DriverFields DEF Drivers
  <2>3. "none" \notin IdentCommands /\ "DATA" \notin IdentCommands BY DEF IdentCommands
  <2>4. Linked(u) BY <1>9, <2>2, <2>3, LineQuiet DEF Linked
  <2>5. Enqueued(u) BY <1>5, <1>7, <1>9 DEF Enqueued
  <2> QED BY <1>9, <2>1, <2>4, <2>5 DEF Fit
<1>11. /\ Fit(t) /\ Enqueued(t) /\ (t.st = "inprog" \/ t.nexus = None)
       /\ t.e.flags = u.e.flags /\ t.hw = u.hw
       /\ u.st # "inprog" /\ u.nexus # None => t.e.state = "IDLE"
       /\ u.st = "inprog" \/ u.nexus = None => t = u
       /\ t.ctl = u.ctl /\ (u.st # "inprog" => t.nexus = None)
  BY <1>10, SettleFit
<1> HIDE DEF t
<1>12. ASSUME removals = 0, ~dropped' PROVE CalmFit(t)
  <2>1. s.e.state # "IDLE" /\ CalmFit(Driver)
    BY <1>1, <1>12 DEF s, MmcInv, Calm
  <2>2. ext.state # "IDLE" BY <1>4, <1>5, <2>1, DriverFields DEF CalmFit, Idling
  <2>3. Working(s)
    <3>1. Working(Driver) BY <2>1, <2>2, <1>3, DriverFields DEF CalmFit, Inserted, Working, Surround
    <3> QED BY <1>5, <3>1, DriverFields DEF Working
  <2>4. "none" \notin IdentCommands /\ "inprog" \notin Finals
        BY DEF IdentCommands, Finals
  <2>5. CASE s.e.state = "IDENT"
    <3>1. IdentHandled(s, u) BY <1>8, <2>5
    <3>2. Working(t) BY <2>3, <3>1, <1>11 DEF Working, IdentHandled
    <3>3. \/ u.st \in Finals /\ u.hw = Quiet /\ u.e.state = "IDLE"
          \/ u.nexus = None /\ u.hw = Quiet /\ u.e.state = "IDLE"
          \/ u.st = "inprog" /\ u.e.state = "IDENT" /\ u.hw.cmd \in IdentCommands
          \/ u.st = "inprog" /\ u.e.state = "DATA" /\ u.hw.cmd = "DATA"
      BY <1>5, <3>1 DEF IdentHandled
    <3>4. Going(t) BY <1>11, <2>4, <3>3, LineQuiet DEF Going
    <3>5. Identifying(t) BY <1>11, <2>4, <3>3, LineQuiet DEF Identifying
    <3>6. Transferring(t) BY <1>11, <2>4, <3>3, LineQuiet DEF Transferring
    <3>7. Idling(t) BY <1>11, <2>4, <3>3, LineQuiet DEF Idling
    <3> QED BY <3>2, <3>4, <3>5, <3>6, <3>7, WorkingInserted DEF CalmFit
  <2>6. CASE s.e.state = "DATA"
    <3>1. DataHandled(s, u) BY <1>8, <2>6
    <3>2. Working(t) BY <2>3, <3>1, <1>11 DEF Working, DataHandled
    <3>3. ext.state = "DATA" BY <1>5, <2>6
    <3>4. hw.cmd = "DATA" \/ ext.stop = "ISSUED"
      BY <1>4, <2>1, <3>3, DriverFields DEF CalmFit, Transferring
    <3>5. /\ u.e.state = "DATA"
          /\ \/ u.st \in Finals /\ u.hw = Quiet
             \/ u.st = "inprog" /\ u.hw.cmd = "STOP" /\ u.e.stop = "ISSUED"
             \/ u.st = "inprog" /\ u.hw = Quiet /\ host.pio /\ Writes(kind[u.nexus])
      BY <1>5, <2>6, <3>1, <3>4 DEF DataHandled, Handled
    <3>6. u.nexus # None BY <1>9, <3>5
    <3>7. Going(t) BY <1>11, <2>4, <3>5, LineQuiet DEF Going
    <3>8. Identifying(t) BY <1>11, <2>4, <3>5, <3>6, LineQuiet DEF Identifying
    <3>9. Transferring(t) BY <1>11, <2>4, <3>5, <3>6, LineQuiet DEF Transferring
    <3>10. Idling(t) BY <1>11, <2>4, <3>5, <3>6, LineQuiet DEF Idling
    <3> QED BY <3>2, <3>7, <3>8, <3>9, <3>10, WorkingInserted DEF CalmFit
  <2> QED BY <1>6, <2>1, <2>5, <2>6
<1>13. noise' \in Nat /\ dropped' \in BOOLEAN /\ (dropped => dropped')
  BY <1>1, <1>3 DEF Surround
<1>14. cardIrq' = cardIrq /\ ~cardIrq' BY <1>2
<1>15. Becomes(t) BY <1>2 DEF t
<1> QED BY <1>2, <1>11, <1>12, <1>13, <1>14, <1>15, BecomesInv

LEMMA CardInterruptInv ==
  ASSUME MmcInv, CardInterrupt
  PROVE  MmcInv'
<1> DEFINE h == IF hw.res = "none" THEN hw ELSE Quiet
           s == [Driver EXCEPT !.hw = h]
           m == MediaCheck(s)
           v == [m EXCEPT !.st = "error"]
           t == Settle(v)
<1>1. /\ cardIrq /\ Becomes(t) /\ cardIrq' = FALSE
      /\ UNCHANGED <<slot, kind, cpc, host, removals, noise, dropped>>
  BY DEF CardInterrupt
<1>2. Surround /\ Driver \in Drivers /\ Placed(Driver) /\ Linked(Driver) /\ Enqueued(Driver)
  BY DEF MmcInv, Fit
<1>3. mode # "tran" BY <1>1 DEF MmcInv, Unseen
<1>4. h \in Lines /\ (h = hw \/ h = Quiet)
  BY <1>2, QuietLine, DriverFields DEF Drivers
<1>5. hw.cmd = "none" => h = hw BY <1>2, DriverFields DEF Linked
<1> HIDE DEF h
<1>6. s \in Drivers BY <1>2, <1>4 DEF Drivers
<1>7. /\ s.e = ext /\ s.hw = h /\ s.ctl = ctl /\ s.nexus = nexus /\ s.queue = queue
      /\ s.answer = answer /\ s.enq = enq /\ s.st = "inprog"
  BY DriverFields DEF Driver
<1> HIDE DEF s
<1>8. Fit(s) /\ Enqueued(s)
  <2>1. Placed(s) /\ Enqueued(s) BY <1>2, <1>7, DriverFields DEF Placed, Enqueued
  <2>2. Linked(s) BY <1>2, <1>3, <1>4, <1>7, LineQuiet, DriverFields DEF Linked
  <2> QED BY <1>6, <2>1, <2>2 DEF Fit
<1>9. /\ Fit(m) /\ Enqueued(m) /\ (m.hw = s.hw \/ m.hw = Quiet)
      /\ CalmFit(s) => CalmFit(m)
  BY <1>8, MediaFit
<1> HIDE DEF m
<1>10. /\ v \in Drivers /\ v.nexus = m.nexus /\ v.queue = m.queue /\ v.answer = m.answer
       /\ v.enq = m.enq /\ v.e = m.e /\ v.hw = m.hw /\ v.ctl = m.ctl /\ v.st = "error"
  <2>1. m \in Drivers BY <1>9 DEF Fit
  <2>2. v \in Drivers BY <2>1 DEF Drivers, Finals
  <2> QED BY <2>1, <2>2 DEF Drivers
<1> HIDE DEF v
<1>11. Fit(v) /\ Enqueued(v)
  BY <1>3, <1>9, <1>10 DEF Fit, Placed, Linked, Enqueued
<1>12. /\ Fit(t) /\ Enqueued(t) /\ (t.st = "inprog" \/ t.nexus = None)
       /\ t.e.flags = v.e.flags /\ t.hw = v.hw
       /\ v.st # "inprog" /\ v.nexus # None => t.e.state = "IDLE"
       /\ v.st = "inprog" \/ v.nexus = None => t = v
       /\ t.ctl = v.ctl /\ (v.st # "inprog" => t.nexus = None)
  BY <1>11, SettleFit
<1> HIDE DEF t
<1>13. ASSUME removals = 0, ~dropped' PROVE CalmFit(t)
  <2>1. CalmFit(Driver) /\ "INSERTED" \notin ext.flags
    BY <1>1, <1>13 DEF MmcInv, Calm
  <2>2. hw.cmd = "none" BY <2>1, DriverFields DEF CalmFit, Inserted
  <2>3. CalmFit(s)
    <3>1. h = hw BY <1>5, <2>2
    <3> QED BY <1>7, <2>1, <3>1, DriverFields
         DEF CalmFit, Going, Identifying, Transferring, Idling, Inserted
  <2>4. CalmFit(m) BY <1>9, <2>3
  <2>5. t.hw.cmd = "none"
    <3>1. s.hw.cmd = "none" BY <1>5, <1>7, <2>2
    <3> QED BY <1>9, <1>10, <1>12, <3>1, LineQuiet
  <2>6. t.nexus = None BY <1>10, <1>12
  <2>7. t.e.state = "IDLE" \/ t.e.state = m.e.state BY <1>10, <1>12
  <2>8. Inserted(t)
    <3>1. m.hw.cmd = "none" /\ t.hw.cmd = "none" BY <1>10, <1>12, <2>5
    <3>2. t.e.flags = m.e.flags /\ t.ctl = m.ctl BY <1>10, <1>12
    <3> QED BY <2>4, <2>7, <3>1, <3>2 DEF CalmFit, Inserted
  <2>9. Identifying(t)
    <3>1. Identifying(m) /\ m.hw.cmd = "none" BY <1>10, <1>12, <2>4, <2>5 DEF CalmFit
    <3> QED BY <2>7, <3>1 DEF Identifying
  <2> QED BY <2>5, <2>6, <2>8, <2>9 DEF CalmFit, Going, Transferring, Idling
<1>14. noise' \in Nat /\ dropped' \in BOOLEAN /\ (dropped => dropped')
  BY <1>1, <1>2 DEF Surround
<1>15. Becomes(t) BY <1>1 DEF t
<1> QED BY <1>1, <1>12, <1>13, <1>14, <1>15, BecomesInv

LEMMA EnqueueInv ==
  ASSUME MmcInv, EnqueuePulse
  PROVE  MmcInv'
<1>1. PICK busy \in BOOLEAN :
        /\ noise' = IF busy THEN noise + 1 ELSE noise
        /\ Becomes(StartCcb(StartCcb([Driver EXCEPT !.enq = @ - 1], busy), busy))
  BY DEF EnqueuePulse
<1> DEFINE s == [Driver EXCEPT !.enq = @ - 1]
           u == StartCcb(s, busy)
           t == StartCcb(u, busy)
<1>2. /\ enq > 0 /\ cardIrq' = cardIrq /\ dropped' = dropped
      /\ UNCHANGED <<slot, kind, cpc, host, removals>>
  BY DEF EnqueuePulse
<1>3. Surround /\ Driver \in Drivers /\ Placed(Driver) /\ Linked(Driver)
  BY DEF MmcInv, Fit
<1>4. s \in Drivers
  <2>1. enq \in Nat BY <1>3, DriverFields DEF Drivers
  <2>2. Driver.enq - 1 \in Nat BY <1>2, <2>1, DriverFields
  <2> QED BY <1>3, <2>2 DEF Drivers
<1>5. /\ s.e = ext /\ s.hw = hw /\ s.ctl = ctl /\ s.nexus = nexus /\ s.queue = queue
      /\ s.answer = answer /\ s.st = "inprog"
  BY DriverFields DEF Driver
<1> HIDE DEF s
<1>6. Fit(s)
  <2>1. Placed(s) BY <1>3, <1>5, DriverFields DEF Placed
  <2>2. Linked(s) BY <1>3, <1>5, DriverFields DEF Linked
  <2> QED BY <1>4, <2>1, <2>2 DEF Fit
<1>7. CalmFit(Driver) => CalmFit(s)
  BY <1>5, DriverFields DEF CalmFit, Going, Identifying, Transferring, Idling, Inserted
<1>8. /\ Fit(u) /\ (u.st = "inprog" \/ u.nexus = None)
      /\ u.hw.cmd = "SEL_DES_CARD" => u.hw = s.hw
      /\ CalmFit(s) => CalmFit(u) /\ ("INSERTED" \in u.e.flags => "INSERTED" \in s.e.flags)
  BY <1>3, <1>5, <1>6, StartFit
<1> HIDE DEF u
<1>9. /\ Fit(t) /\ Enqueued(t) /\ (t.st = "inprog" \/ t.nexus = None)
      /\ t.hw.cmd = "SEL_DES_CARD" => t.hw = u.hw
      /\ CalmFit(u) => CalmFit(t) /\ ("INSERTED" \in t.e.flags => "INSERTED" \in u.e.flags)
  BY <1>3, <1>8, StartFit
<1> HIDE DEF t
<1>10. t.hw.cmd = "SEL_DES_CARD" => t.hw = hw BY <1>5, <1>8, <1>9
<1>11. ASSUME removals = 0, ~dropped'
       PROVE  CalmFit(t) /\ ("INSERTED" \in t.e.flags => ~cardIrq')
  <2>1. CalmFit(Driver) /\ ("INSERTED" \in ext.flags => ~cardIrq)
    BY <1>2, <1>11 DEF MmcInv, Calm
  <2> QED BY <1>2, <1>5, <1>7, <1>8, <1>9, <2>1
<1>12. noise' \in Nat /\ dropped' \in BOOLEAN /\ (dropped => dropped')
  BY <1>1, <1>2, <1>3 DEF Surround
<1>13. Becomes(t) BY <1>1 DEF t, u, s
<1> QED BY <1>2, <1>9, <1>10, <1>11, <1>12, <1>13, BecomesInv

LEMMA TimerInv ==
  ASSUME MmcInv, TimerPulse
  PROVE  MmcInv'
<1> DEFINE s == IF host.cdIntr THEN Driver ELSE MediaCheck(Driver)
           t == StartCcb(s, FALSE)
<1>1. /\ Becomes(t) /\ cardIrq' = cardIrq /\ dropped' = dropped
      /\ UNCHANGED <<slot, kind, cpc, host, noise, removals>>
  BY DEF TimerPulse
<1>2. Surround /\ Fit(Driver) BY DEF MmcInv
<1>3. /\ Fit(s) /\ s.st = "inprog" /\ (s.hw = hw \/ s.hw = Quiet)
      /\ CalmFit(Driver) => CalmFit(s)
      /\ host.cdIntr => s = Driver
  <2>1. CASE host.cdIntr BY <1>2, <2>1, DriverFields
  <2>2. CASE ~host.cdIntr
    <3>1. s = MediaCheck(Driver) BY <2>2
    <3> QED BY <1>2, <2>2, <3>1, MediaFit, DriverFields
  <2> QED BY <2>1, <2>2
<1> HIDE DEF s
<1>4. /\ Fit(t) /\ Enqueued(t) /\ (t.st = "inprog" \/ t.nexus = None)
      /\ t.hw.cmd = "SEL_DES_CARD" => t.hw = s.hw
      /\ CalmFit(s) => CalmFit(t) /\ ("INSERTED" \in t.e.flags => "INSERTED" \in s.e.flags)
  BY <1>2, <1>3, StartFit
<1> HIDE DEF t
<1>5. t.hw.cmd = "SEL_DES_CARD" => t.hw = hw BY <1>3, <1>4, LineQuiet
<1>6. ASSUME removals = 0, ~dropped'
      PROVE  CalmFit(t) /\ ("INSERTED" \in t.e.flags => ~cardIrq')
  <2>1. CalmFit(Driver) /\ ("INSERTED" \in ext.flags => ~cardIrq)
    BY <1>1, <1>6 DEF MmcInv, Calm
  <2>2. cardIrq => host.cdIntr BY <1>2 DEF Surround
  <2> QED BY <1>1, <1>3, <1>4, <2>1, <2>2, DriverFields
<1>7. noise' \in Nat /\ dropped' \in BOOLEAN /\ (dropped => dropped')
  BY <1>1, <1>2 DEF Surround
<1>8. Becomes(t) BY <1>1 DEF t
<1> QED BY <1>1, <1>4, <1>5, <1>6, <1>7, <1>8, BecomesInv

----------------------------------------------------------------------------
(* The control thread, the clients, the card.                              *)

LEMMA DriverFieldsNext ==
  /\ Driver'.e = ext' /\ Driver'.hw = hw' /\ Driver'.ctl = ctl' /\ Driver'.nexus = nexus'
  /\ Driver'.queue = queue' /\ Driver'.answer = answer' /\ Driver'.enq = enq'
  /\ Driver'.st = "inprog"
BY DEF Driver

(* What is left of the pulses when the first is taken.                     *)
LEMMA OnceTail ==
  ASSUME NEW q \in Seq(Pulses), q # <<>>, Once(q)
  PROVE  /\ Tail(q) \in Seq(Pulses) /\ Members(Tail(q)) \subseteq Members(q)
         /\ Head(q) \in Members(q) /\ Once(Tail(q))
         /\ Head(q) = "INSERTION" => "INSERTION" \notin Members(Tail(q))
<1>1. /\ Head(q) \in Members(q) /\ Tail(q) \in Seq(Pulses)
      /\ Members(Tail(q)) \subseteq Members(q)
  BY HeadTail
<1>2. Len(q) \in Nat /\ Len(q) > 0 /\ Head(q) = q[1] /\ Len(Tail(q)) = Len(q) - 1
  OBVIOUS
<1>3. \A i \in 1 .. Len(Tail(q)) :
        Tail(q)[i] = q[i + 1] /\ i + 1 \in 1 .. Len(q) /\ i + 1 # 1
  BY <1>2
<1>4. Once(Tail(q))
  <2> SUFFICES ASSUME NEW i \in 1 .. Len(Tail(q)), NEW j \in 1 .. Len(Tail(q)),
                      Tail(q)[i] = "INSERTION", Tail(q)[j] = "INSERTION"
               PROVE  i = j
    BY DEF Once
  <2>1. i + 1 = j + 1 BY <1>3 DEF Once
  <2> QED BY <2>1
<1>5. ASSUME Head(q) = "INSERTION" PROVE "INSERTION" \notin Members(Tail(q))
  <2> SUFFICES ASSUME NEW i \in 1 .. Len(Tail(q)), Tail(q)[i] = "INSERTION"
               PROVE  FALSE
    BY DEF Members
  <2>1. q[1] = "INSERTION" /\ 1 \in 1 .. Len(q) BY <1>2, <1>5
  <2>2. i + 1 = 1 BY <1>3, <2>1 DEF Once
  <2> QED BY <1>3, <2>2
<1> QED BY <1>1, <1>4, <1>5

(* What the control thread leaves alone.                                   *)
LEMMA CtrlFrame ==
  ASSUME MmcInv, CtrlUnchanged, cpc' \in {"wait", "started"},
         ext' \in Exts, ext'.state = "DATA" => ext.state = "DATA",
         hw' = hw \/ hw' = Command("GO_IDLE"), ctl' \in Seq(Pulses),
         Calm => CalmFit(Driver)' /\ ("INSERTED" \in ext'.flags => "INSERTED" \in ext.flags)
  PROVE  MmcInv'
<1>1. /\ slot' = slot /\ mode' = mode /\ cardIrq' = cardIrq /\ nexus' = nexus /\ queue' = queue
      /\ answer' = answer /\ kind' = kind /\ enq' = enq /\ host' = host /\ noise' = noise
      /\ removals' = removals /\ dropped' = dropped
  BY DEF CtrlUnchanged
<1>2. Surround /\ Driver \in Drivers /\ Placed(Driver) /\ Linked(Driver) /\ Enqueued(Driver)
      /\ Unseen
  BY DEF MmcInv, Fit
<1>3. Command("GO_IDLE") \in Lines /\ Command("GO_IDLE").cmd = "GO_IDLE"
  BY DEF Command, Lines, IdentCommands, ResultsOf
<1>4. Driver' \in Drivers
  <2>1. /\ hw \in Lines /\ nexus \in Requests \cup {None} /\ queue \in Seq(Requests)
        /\ answer \in [Requests -> Finals \cup {"inprog", "none"}] /\ enq \in Nat
    BY <1>2, DriverFields DEF Drivers
  <2>2. hw' \in Lines BY <1>3, <2>1
  <2>3. Driver' = [e |-> ext', hw |-> hw', ctl |-> ctl', nexus |-> nexus, queue |-> queue,
                   answer |-> answer, enq |-> enq, st |-> "inprog"]
    BY <1>1 DEF Driver
  <2> QED BY <2>1, <2>2, <2>3 DEF Drivers
<1>5. Surround' BY <1>1, <1>2 DEF Surround
<1>6. Unseen' BY <1>1, <1>2, <1>3 DEF Unseen
<1>7. Placed(Driver)' BY <1>1, <1>2, DriverFields, DriverFieldsNext DEF Placed
<1>8. Linked(Driver)' BY <1>1, <1>2, <1>3, DriverFields, DriverFieldsNext DEF Linked
<1>9. Enqueued(Driver)' BY <1>1, <1>2, DriverFields, DriverFieldsNext DEF Enqueued
<1>10. ASSUME Calm' PROVE CalmFit(Driver)' /\ ("INSERTED" \in ext'.flags => ~cardIrq')
  <2>1. Calm BY <1>1, <1>10 DEF Calm
  <2>2. "INSERTED" \in ext.flags => ~cardIrq BY <2>1 DEF MmcInv
  <2> QED BY <1>1, <2>1, <2>2
<1> QED BY <1>4, <1>5, <1>6, <1>7, <1>8, <1>9, <1>10 DEF MmcInv, Fit

LEMMA CtrlInsertionInv ==
  ASSUME MmcInv, CtrlInsertion
  PROVE  MmcInv'
<1> DEFINE g == SetFlag(ext, "INSERTED")
           f == [g EXCEPT !.ident = "START"]
           d == IdentStart(f)
<1>1. Driver \in Drivers /\ Surround BY DEF MmcInv, Fit
<1>2. ext \in Exts /\ ctl \in Seq(Pulses) BY <1>1, DriverFields DEF Drivers
<1>3. f \in Exts /\ f.state = ext.state /\ f.flags = ext.flags \cup {"INSERTED"} /\ f.ident = "START"
  <2>1. g \in Exts /\ g.state = ext.state /\ g.flags = ext.flags \cup {"INSERTED"}
    BY <1>2, InsertedFlag
  <2> HIDE DEF g
  <2> QED BY <2>1 DEF Exts, Idents
<1>4. CardIdent(f, "ok", FALSE) = d BY <1>3 DEF CardIdent
<1> HIDE DEF f
<1>5. Staged(f, d) /\ d.cmd \in {"none", "GO_IDLE"} /\ (Present => d.cmd = "GO_IDLE")
  BY <1>3, StartStaged
<1>6. /\ cpc = "wait" /\ ctl # <<>> /\ Head(ctl) = "INSERTION"
      /\ ext' = d.e /\ hw' = (IF d.cmd = "none" THEN hw ELSE Command(d.cmd))
      /\ cpc' = (IF d.cmd = "none" THEN "wait" ELSE "started")
      /\ ctl' = Tail(ctl) /\ CtrlUnchanged
  BY <1>4 DEF CtrlInsertion, f
<1> HIDE DEF d
<1>7. /\ ext' \in Exts /\ ext'.state = ext.state /\ "INSERTED" \in ext'.flags
      /\ "READY" \in ext'.flags <=> "READY" \in ext.flags
  BY <1>3, <1>5, <1>6 DEF Staged, Alike
<1>8. ctl' \in Seq(Pulses) BY <1>2, <1>6
<1>9. hw' = hw \/ hw' = Command("GO_IDLE") BY <1>5, <1>6
<1>10. ASSUME Calm
       PROVE  CalmFit(Driver)' /\ ("INSERTED" \in ext'.flags => "INSERTED" \in ext.flags)
  <2>1. Inserted(Driver) BY <1>10 DEF MmcInv, CalmFit
  <2>2. Once(ctl) /\ "REMOVAL" \notin Members(ctl) BY <2>1, DriverFields DEF Inserted
  <2>3. /\ Members(ctl') \subseteq Members(ctl) /\ "INSERTION" \in Members(ctl)
        /\ Once(ctl') /\ "INSERTION" \notin Members(ctl')
    BY <1>2, <1>6, <2>2, OnceTail
  <2>4. "READY" \notin ext.flags /\ ext.state = "IDLE" /\ "INSERTED" \in ext.flags /\ Present
    BY <2>1, <2>3, DriverFields DEF Inserted
  <2>5. cpc' = "started" /\ hw' = Command("GO_IDLE") BY <1>5, <1>6, <2>4
  <2>6. hw'.cmd = "GO_IDLE" BY <2>5 DEF Command
  <2>7. Present' BY <1>6, <2>4 DEF Present, CtrlUnchanged
  <2>8. Inserted(Driver)' BY <1>7, <2>2, <2>3, <2>4, <2>5, <2>6, <2>7, DriverFieldsNext DEF Inserted
  <2>9. Going(Driver)' /\ Identifying(Driver)' /\ Transferring(Driver)' /\ Idling(Driver)'
    BY <1>7, <2>4, <2>5, <2>6, DriverFieldsNext
       DEF Going, Identifying, Transferring, Idling
  <2> QED BY <2>4, <2>8, <2>9 DEF CalmFit
<1>11. cpc' \in {"wait", "started"} BY <1>6
<1> QED BY <1>6, <1>7, <1>8, <1>9, <1>10, <1>11, CtrlFrame

LEMMA CtrlStateInv ==
  ASSUME MmcInv, CtrlState
  PROVE  MmcInv'
<1>1. /\ cpc = "started" /\ cpc' = "wait" /\ ext' = [ext EXCEPT !.state = "IDENT"]
      /\ hw' = hw /\ ctl' = ctl /\ CtrlUnchanged
  BY DEF CtrlState
<1>2. ext \in Exts /\ ctl \in Seq(Pulses) BY DriverFields DEF MmcInv, Fit, Drivers
<1>3. ext' \in Exts /\ ext'.state = "IDENT" /\ ext'.flags = ext.flags BY <1>1, <1>2 DEF Exts
<1>4. ASSUME Calm
      PROVE  CalmFit(Driver)' /\ ("INSERTED" \in ext'.flags => "INSERTED" \in ext.flags)
  <2>1. Inserted(Driver) BY <1>4 DEF MmcInv, CalmFit
  <2>2. /\ Once(ctl) /\ "REMOVAL" \notin Members(ctl) /\ "INSERTION" \notin Members(ctl)
        /\ hw.cmd # "none" /\ "INSERTED" \in ext.flags /\ Present
    BY <1>1, <2>1, DriverFields DEF Inserted
  <2>3. Present' BY <1>1, <2>2 DEF Present, CtrlUnchanged
  <2>4. Inserted(Driver)' BY <1>1, <1>3, <2>2, <2>3, DriverFieldsNext DEF Inserted
  <2>5. Going(Driver)' /\ Identifying(Driver)' /\ Transferring(Driver)' /\ Idling(Driver)'
    BY <1>1, <1>3, <2>2, DriverFieldsNext DEF Going, Identifying, Transferring, Idling
  <2> QED BY <1>3, <2>4, <2>5 DEF CalmFit
<1> QED BY <1>1, <1>2, <1>3, <1>4, CtrlFrame

LEMMA CtrlRemovalInv ==
  ASSUME MmcInv, CtrlRemoval
  PROVE  MmcInv'
<1> DEFINE g == ClearFlags(ext, {"INSERTED", "READY"})
<1>1. /\ cpc = "wait" /\ ctl # <<>> /\ Head(ctl) = "REMOVAL"
      /\ ext' = [ClearFlags(ext, {"READY", "INSERTED"}) EXCEPT !.state = "IDLE"]
      /\ ctl' = Tail(ctl) /\ hw' = hw /\ cpc' = cpc /\ CtrlUnchanged
  BY DEF CtrlRemoval
<1>2. ext \in Exts /\ ctl \in Seq(Pulses) BY DriverFields DEF MmcInv, Fit, Drivers
<1>3. ext' \in Exts /\ ext'.state = "IDLE"
  <2>1. g \in Exts BY <1>2, RemovedFlags
  <2>2. {"READY", "INSERTED"} = {"INSERTED", "READY"} OBVIOUS
  <2>3. ext' = [g EXCEPT !.state = "IDLE"] BY <1>1, <2>2
  <2> HIDE DEF g
  <2> QED BY <2>1, <2>3 DEF Exts
<1>4. ctl' \in Seq(Pulses) BY <1>1, <1>2
<1>5. ~Calm
  <2> SUFFICES ASSUME Calm PROVE FALSE OBVIOUS
  <2>1. "REMOVAL" \notin Members(ctl) BY DriverFields DEF MmcInv, CalmFit, Inserted
  <2>2. Head(ctl) \in Members(ctl) BY <1>1, <1>2, HeadTail
  <2> QED BY <1>1, <2>1, <2>2
<1> QED BY <1>1, <1>3, <1>4, <1>5, CtrlFrame

LEMMA CtrlReadyInv ==
  ASSUME MmcInv, CtrlReady
  PROVE  MmcInv'
<1>1. /\ cpc = "wait" /\ ctl # <<>> /\ Head(ctl) = "READY" /\ ctl' = Tail(ctl)
      /\ hw' = hw /\ ext' = ext /\ cpc' = cpc /\ CtrlUnchanged
  BY DEF CtrlReady
<1>2. ext \in Exts /\ ctl \in Seq(Pulses) BY DriverFields DEF MmcInv, Fit, Drivers
<1>3. ctl' \in Seq(Pulses) BY <1>1, <1>2
<1>4. ASSUME Calm PROVE CalmFit(Driver)'
  <2>1. CalmFit(Driver) BY <1>4 DEF MmcInv
  <2>2. Once(ctl) BY <2>1, DriverFields DEF CalmFit, Inserted
  <2>3. Members(ctl') \subseteq Members(ctl) /\ Once(ctl') BY <1>1, <1>2, <2>2, OnceTail
  <2>4. nexus' = nexus /\ kind' = kind /\ host' = host /\ slot' = slot
    BY <1>1 DEF CtrlUnchanged
  <2>5. Present' <=> Present BY <2>4 DEF Present
  <2>6. Inserted(Driver)'
    BY <1>1, <2>1, <2>3, <2>5, DriverFields, DriverFieldsNext DEF CalmFit, Inserted
  <2>7. Going(Driver)' /\ Identifying(Driver)' /\ Transferring(Driver)' /\ Idling(Driver)'
    BY <1>1, <2>1, <2>4, DriverFields, DriverFieldsNext
    DEF CalmFit, Going, Identifying, Transferring, Idling
  <2> QED BY <2>6, <2>7 DEF CalmFit
<1>5. cpc' \in {"wait", "started"} BY <1>1
<1> QED BY <1>1, <1>2, <1>3, <1>4, <1>5, CtrlFrame

LEMMA ActionInv ==
  ASSUME MmcInv, NEW r \in Requests, Action(r)
  PROVE  MmcInv'
<1>1. /\ ~InWork(r) /\ answer' = [answer EXCEPT ![r] = "none"]
      /\ queue' = Append(queue, r) /\ enq' = enq + 1
      /\ slot' = slot /\ mode' = mode /\ hw' = hw /\ cardIrq' = cardIrq /\ ext' = ext
      /\ nexus' = nexus /\ ctl' = ctl /\ cpc' = cpc /\ host' = host /\ noise' = noise
      /\ removals' = removals /\ dropped' = dropped
  BY DEF Action
<1>2. PICK k \in Kinds : kind' = [kind EXCEPT ![r] = k] BY DEF Action
<1>3. Surround /\ Driver \in Drivers /\ Placed(Driver) /\ Linked(Driver) /\ Enqueued(Driver)
      /\ Unseen
  BY DEF MmcInv, Fit
<1>4. /\ hw \in Lines /\ nexus \in Requests \cup {None} /\ queue \in Seq(Requests)
      /\ answer \in [Requests -> Finals \cup {"inprog", "none"}] /\ enq \in Nat
      /\ ext \in Exts /\ ctl \in Seq(Pulses)
  BY <1>3, DriverFields DEF Drivers
<1>5. r \notin Members(queue) /\ r # nexus BY <1>1, <1>4 DEF InWork, Members
<1>6. /\ queue' \in Seq(Requests) /\ Members(queue') = Members(queue) \cup {r}
      /\ Distinct(queue')
  <2>1. Distinct(queue) BY <1>3, DriverFields DEF Placed
  <2> QED BY <1>1, <1>4, <1>5, <2>1, AppendMembers
<1>7. /\ answer' \in [Requests -> Finals \cup {"inprog", "none"}] /\ answer'[r] = "none"
      /\ \A q \in Requests : q # r => answer'[q] = answer[q]
  BY <1>1, <1>4
<1>8. kind' \in [Requests -> Kinds] /\ (nexus # None => kind'[nexus] = kind[nexus])
  BY <1>2, <1>3, <1>4, <1>5 DEF Surround
<1>9. Driver' \in Drivers
  <2>1. enq' \in Nat BY <1>1, <1>4
  <2>2. Driver' = [e |-> ext, hw |-> hw, ctl |-> ctl, nexus |-> nexus, queue |-> queue',
                   answer |-> answer', enq |-> enq', st |-> "inprog"]
    BY <1>1 DEF Driver
  <2> QED BY <1>4, <1>6, <1>7, <2>1, <2>2 DEF Drivers
<1>10. Surround' BY <1>1, <1>3, <1>8 DEF Surround
<1>11. Unseen' BY <1>1, <1>3 DEF Unseen
<1>12. Placed(Driver)'
  <2>1. Members(queue) \subseteq Requests BY <1>4 DEF Members
  <2>2. \A q \in Members(queue') : answer'[q] = "none"
    BY <1>3, <1>6, <1>7, <2>1, DriverFields DEF Placed
  <2>3. nexus \notin Members(queue') /\ (nexus # None => answer'[nexus] = "none")
    BY <1>3, <1>4, <1>5, <1>6, <1>7, DriverFields DEF Placed
  <2>4. ext.state = "DATA" => nexus # None BY <1>3, DriverFields DEF Placed
  <2> QED BY <1>1, <1>6, <2>2, <2>3, <2>4, DriverFieldsNext DEF Placed
<1>13. Linked(Driver)' BY <1>1, <1>3, DriverFields, DriverFieldsNext DEF Linked
<1>14. Enqueued(Driver)' BY <1>1, <1>4, DriverFieldsNext DEF Enqueued
<1>15. ASSUME Calm' PROVE CalmFit(Driver)' /\ ("INSERTED" \in ext'.flags => ~cardIrq')
  <2>1. CalmFit(Driver) /\ ("INSERTED" \in ext.flags => ~cardIrq)
    BY <1>1, <1>15 DEF MmcInv, Calm
  <2>2. Present' <=> Present BY <1>1 DEF Present
  <2>3. Inserted(Driver)'
    BY <1>1, <2>1, <2>2, DriverFields, DriverFieldsNext DEF CalmFit, Inserted
  <2>4. Going(Driver)' /\ Identifying(Driver)' /\ Transferring(Driver)' /\ Idling(Driver)'
    BY <1>1, <1>8, <2>1, DriverFields, DriverFieldsNext
    DEF CalmFit, Going, Identifying, Transferring, Idling
  <2> QED BY <1>1, <2>1, <2>3, <2>4 DEF CalmFit
<1> QED BY <1>9, <1>10, <1>11, <1>12, <1>13, <1>14, <1>15 DEF MmcInv, Fit

(* What the card and the controller leave alone.                           *)
LEMMA CardFrame ==
  ASSUME MmcInv,
         UNCHANGED <<ext, nexus, queue, answer, kind, enq, ctl, cpc, host, dropped>>,
         hw' \in Lines, hw'.cmd = hw.cmd, hw'.req = hw.req, hw.cmd = "none" => hw' = hw,
         mode' = "idle" \/ hw'.res # "none",
         Surround', Unseen',
         Calm' => /\ Calm /\ ("INSERTED" \in ext.flags => Present')
                  /\ ("INSERTED" \in ext'.flags => ~cardIrq')
  PROVE  MmcInv'
<1>1. /\ ext' = ext /\ nexus' = nexus /\ queue' = queue /\ answer' = answer /\ kind' = kind
      /\ enq' = enq /\ ctl' = ctl /\ cpc' = cpc /\ host' = host /\ dropped' = dropped
  OBVIOUS
<1>2. Driver \in Drivers /\ Placed(Driver) /\ Linked(Driver) /\ Enqueued(Driver)
  BY DEF MmcInv, Fit
<1>3. Driver' \in Drivers
  <2>1. /\ nexus \in Requests \cup {None} /\ queue \in Seq(Requests)
        /\ answer \in [Requests -> Finals \cup {"inprog", "none"}] /\ enq \in Nat
        /\ ext \in Exts /\ ctl \in Seq(Pulses)
    BY <1>2, DriverFields DEF Drivers
  <2>2. Driver' = [e |-> ext, hw |-> hw', ctl |-> ctl, nexus |-> nexus, queue |-> queue,
                   answer |-> answer, enq |-> enq, st |-> "inprog"]
    BY <1>1 DEF Driver
  <2> QED BY <2>1, <2>2 DEF Drivers
<1>4. Placed(Driver)' BY <1>1, <1>2, DriverFields, DriverFieldsNext DEF Placed
<1>5. Linked(Driver)' BY <1>1, <1>2, DriverFields, DriverFieldsNext DEF Linked
<1>6. Enqueued(Driver)' BY <1>1, <1>2, DriverFields, DriverFieldsNext DEF Enqueued
<1>7. ASSUME Calm' PROVE CalmFit(Driver)' /\ ("INSERTED" \in ext'.flags => ~cardIrq')
  <2>1. CalmFit(Driver) BY <1>7 DEF MmcInv
  <2>2. Inserted(Driver)'
    BY <1>1, <1>7, <2>1, DriverFields, DriverFieldsNext DEF CalmFit, Inserted
  <2>3. Going(Driver)' /\ Identifying(Driver)' /\ Transferring(Driver)' /\ Idling(Driver)'
    BY <1>1, <2>1, DriverFields, DriverFieldsNext
    DEF CalmFit, Going, Identifying, Transferring, Idling
  <2> QED BY <1>7, <2>2, <2>3 DEF CalmFit
<1> QED BY <1>3, <1>4, <1>5, <1>6, <1>7 DEF MmcInv, Fit

LEMMA RespondInv ==
  ASSUME MmcInv, Respond
  PROVE  MmcInv'
<1>1. PICK res \in Results(hw.cmd) \cup Spoilt(hw.cmd) :
        /\ hw' = [hw EXCEPT !.res = res]
        /\ noise' = (IF res \in Spoilt(hw.cmd) THEN noise + 1 ELSE noise)
        /\ mode' = CASE hw.cmd = "GO_IDLE" -> "idle"
                     [] hw.cmd \in {"SD_OP_COND", "MMC_OP_COND"} /\ res \in {"ok", "okHC"} -> "ready"
                     [] hw.cmd = "SEL_DES_CARD" /\ res = "ok" -> "tran"
                     [] hw.cmd = "STOP" /\ res = "ok" -> "tran"
                     [] hw.cmd = "DATA" /\ mode = "tran" /\ Multi(kind[hw.req])
                          /\ ~(host.autoStop /\ res = "ok") -> "open"
                     [] OTHER -> mode
  BY DEF Respond
<1>2. /\ hw.cmd # "none" /\ hw.res = "none"
      /\ slot' = slot /\ cardIrq' = cardIrq /\ removals' = removals
      /\ UNCHANGED <<ext, nexus, queue, answer, kind, enq, ctl, cpc, host, dropped>>
  BY DEF Respond
<1>3. Surround /\ Unseen BY DEF MmcInv
<1>4. hw \in Lines BY DriverFields DEF MmcInv, Fit, Drivers
<1>5. res \in ResultsOf \ {"none"}
  BY DEF Results, Spoilt, ResultsOf
<1>6. hw' \in Lines /\ hw'.cmd = hw.cmd /\ hw'.req = hw.req /\ hw'.res # "none"
  BY <1>1, <1>4, <1>5 DEF Lines
<1>7. mode' \in {"idle", "ready", "tran", "open"} BY <1>1, <1>3 DEF Surround
<1>8. Surround'
  <2>1. noise' \in Nat BY <1>1, <1>3 DEF Surround
  <2>2. kind' = kind /\ cpc' = cpc /\ host' = host /\ dropped' = dropped BY <1>2
  <2> QED BY <1>2, <1>3, <1>7, <2>1, <2>2 DEF Surround
<1>9. Unseen'
  <2>1. ASSUME cardIrq PROVE mode' \in {"idle", "ready"}
    <3>1. mode \in {"idle", "ready"} BY <1>3, <2>1 DEF Unseen
    <3>2. ~(hw.cmd = "SEL_DES_CARD" /\ res = "ok")
      <4>1. hw.cmd = "SEL_DES_CARD" => mode = "idle" BY <1>2, <1>3, <2>1, <3>1 DEF Unseen
      <4>2. hw.cmd = "SEL_DES_CARD" /\ mode = "idle" => res # "ok"
        <5>1. ASSUME hw.cmd = "SEL_DES_CARD", mode = "idle"
              PROVE  Results(hw.cmd) = {"timeout"} /\ Spoilt(hw.cmd) \subseteq {"error"}
          BY <5>1 DEF Results, Spoilt
        <5> QED BY <5>1
      <4> QED BY <4>1, <4>2
    <3>3. ~(hw.cmd = "STOP" /\ res = "ok")
      <4>1. ASSUME hw.cmd = "STOP"
            PROVE  Results(hw.cmd) = {"timeout"} /\ Spoilt(hw.cmd) \subseteq {"error"}
        BY <3>1, <4>1 DEF Results, Spoilt
      <4> QED BY <4>1
    <3> QED BY <1>1, <3>1, <3>2, <3>3
  <2> QED BY <1>2, <1>6, <2>1 DEF Unseen
<1>10. Calm' => /\ Calm /\ ("INSERTED" \in ext.flags => Present')
                /\ ("INSERTED" \in ext'.flags => ~cardIrq')
  <2> SUFFICES ASSUME Calm'
               PROVE  /\ Calm /\ ("INSERTED" \in ext.flags => Present')
                      /\ ("INSERTED" \in ext'.flags => ~cardIrq')
    OBVIOUS
  <2>1. Calm BY <1>2 DEF Calm
  <2>2. "INSERTED" \in ext.flags => Present /\ ~cardIrq
    BY <2>1, DriverFields DEF MmcInv, CalmFit, Inserted
  <2> QED BY <1>2, <2>1, <2>2 DEF Present
<1> QED BY <1>2, <1>6, <1>8, <1>9, <1>10, CardFrame

LEMMA ChangeInv ==
  ASSUME MmcInv, NEW c \in Cards \cup {NoCard}, Change(c),
         c # NoCard => slot = NoCard
  PROVE  MmcInv'
<1>1. /\ slot' = c /\ mode' = "idle" /\ cardIrq' = host.cdIntr
      /\ removals' = (IF c = NoCard THEN removals + 1 ELSE removals)
      /\ hw' = hw /\ noise' = noise
      /\ UNCHANGED <<ext, nexus, queue, answer, kind, enq, ctl, cpc, host, dropped>>
  BY DEF Change
<1>2. Surround BY DEF MmcInv
<1>3. host \in Hosts /\ host.cdIntr \in BOOLEAN /\ (host.cdIntr => ~host.blind)
  BY <1>2, BoundsAssumption DEF Surround
<1>4. hw \in Lines BY DriverFields DEF MmcInv, Fit, Drivers
<1>5. Surround'
  <2>1. kind' = kind /\ cpc' = cpc /\ host' = host /\ dropped' = dropped BY <1>1
  <2>2. removals' \in Nat BY <1>1, <1>2 DEF Surround
  <2>3. cardIrq' \in BOOLEAN /\ (cardIrq' => host'.cdIntr) BY <1>1, <1>3, <2>1
  <2> QED BY <1>1, <1>2, <2>1, <2>2, <2>3 DEF Surround
<1>6. Unseen' BY <1>1 DEF Unseen
<1>7. ASSUME Calm'
      PROVE  /\ Calm /\ ("INSERTED" \in ext.flags => Present')
             /\ ("INSERTED" \in ext'.flags => ~cardIrq')
  <2>1. c # NoCard
    <3> SUFFICES ASSUME c = NoCard PROVE FALSE OBVIOUS
    <3>1. removals' = removals + 1 /\ removals \in Nat BY <1>1, <1>2 DEF Surround
    <3> QED BY <1>7, <3>1 DEF Calm
  <2>2. Calm BY <1>1, <1>7, <2>1 DEF Calm
  <2>3. slot = NoCard BY <2>1
  <2>4. "INSERTED" \in ext.flags => Present
    BY <2>2, DriverFields DEF MmcInv, CalmFit, Inserted
  <2>5. "INSERTED" \in ext.flags => host.blind BY <2>3, <2>4 DEF Present
  <2> QED BY <1>1, <1>3, <2>1, <2>2, <2>5 DEF Present
<1> QED BY <1>1, <1>4, <1>5, <1>6, <1>7, CardFrame

(* The driver starts with the insertion of a card that is there.           *)
LEMMA InitInv ==
  ASSUME Init
  PROVE  MmcInv
<1>1. /\ host \in Hosts /\ slot \in Cards \cup {NoCard} /\ mode = "idle" /\ hw = Quiet
      /\ cardIrq = FALSE /\ ext = Fresh(IF Present THEN {"INSERTED"} ELSE {})
      /\ ctl = (IF Present THEN <<"INSERTION">> ELSE <<>>)
      /\ nexus = None /\ queue = <<>> /\ enq = 0 /\ cpc = "wait"
      /\ answer = [r \in Requests |-> "none"]
      /\ kind \in [Requests -> {CHOOSE k \in Kinds : TRUE}]
      /\ noise = 0 /\ removals = 0 /\ dropped = FALSE
  BY DEF Init
<1>2. kind \in [Requests -> Kinds]
  <2>1. (CHOOSE k \in Kinds : TRUE) \in Kinds BY BoundsAssumption
  <2> QED BY <1>1, <2>1
<1>3. /\ ext \in Exts /\ ext.state = "IDLE"
      /\ ext.flags = (IF Present THEN {"INSERTED"} ELSE {})
  BY <1>1 DEF Fresh, Exts, Idents, Flags
<1>4. /\ ctl \in Seq(Pulses) /\ Once(ctl) /\ "REMOVAL" \notin Members(ctl)
      /\ ~Present => "INSERTION" \notin Members(ctl)
  <2>1. CASE Present
    <3>1. ctl = <<"INSERTION">> /\ "INSERTION" \in Pulses BY <1>1, <2>1 DEF Pulses
    <3>2. ctl \in Seq(Pulses) BY <3>1
    <3>3. Len(ctl) = 1 /\ ctl[1] = "INSERTION" BY <3>1
    <3>4. \A i \in 1 .. Len(ctl) : i = 1 BY <3>3
    <3> QED BY <2>1, <3>2, <3>3, <3>4 DEF Once, Members
  <2>2. CASE ~Present
    <3>1. ctl = <<>> BY <1>1, <2>2
    <3>2. ctl \in Seq(Pulses) /\ Len(ctl) = 0 BY <3>1
    <3>3. 1 .. Len(ctl) = {} BY <3>2
    <3> QED BY <3>2, <3>3 DEF Once, Members
  <2> QED BY <2>1, <2>2
<1>5. Driver \in Drivers
  <2>1. queue \in Seq(Requests) BY <1>1
  <2>2. answer \in [Requests -> Finals \cup {"inprog", "none"}] BY <1>1
  <2>3. hw \in Lines /\ nexus \in Requests \cup {None} /\ enq \in Nat BY <1>1, QuietLine
  <2> QED BY <1>3, <1>4, <2>1, <2>2, <2>3 DEF Driver, Drivers
<1>6. Surround BY <1>1, <1>2 DEF Surround
<1>7. Unseen BY <1>1 DEF Unseen
<1>8. Placed(Driver)
  <2>1. Members(queue) = {} /\ Distinct(queue)
    <3>1. 1 .. Len(queue) = {} BY <1>1
    <3> QED BY <3>1 DEF Members, Distinct
  <2> QED BY <1>1, <1>3, <2>1, DriverFields DEF Placed
<1>9. Linked(Driver) /\ Enqueued(Driver) BY <1>1, LineQuiet, DriverFields DEF Linked, Enqueued
<1>10. CalmFit(Driver)
  <2>1. hw.cmd = "none" BY <1>1, LineQuiet
  <2>2. Inserted(Driver) BY <1>1, <1>3, <1>4, <2>1, DriverFields DEF Inserted
  <2> QED BY <1>1, <1>3, <2>1, <2>2, DriverFields
       DEF CalmFit, Going, Identifying, Transferring, Idling
<1> QED BY <1>1, <1>5, <1>6, <1>7, <1>8, <1>9, <1>10 DEF MmcInv, Fit

(* The type of the state of the driver, with what holds of it at every     *)
(* step of its threads, the clients and the card.                          *)
THEOREM MmcInvariant == Spec => []MmcInv
<1>1. Init => MmcInv BY InitInv
<1>2. MmcInv /\ [Next]_vars => MmcInv'
  <2> SUFFICES ASSUME MmcInv, [Next]_vars PROVE MmcInv' OBVIOUS
  <2>1. CASE CardInterrupt BY <2>1, CardInterruptInv
  <2>2. CASE Interrupt BY <2>2, InterruptInv
  <2>3. CASE EnqueuePulse BY <2>3, EnqueueInv
  <2>4. CASE TimerPulse BY <2>4, TimerInv
  <2>5. CASE CtrlInsertion BY <2>5, CtrlInsertionInv
  <2>6. CASE CtrlState BY <2>6, CtrlStateInv
  <2>7. CASE CtrlRemoval BY <2>7, CtrlRemovalInv
  <2>8. CASE CtrlReady BY <2>8, CtrlReadyInv
  <2>9. CASE Respond BY <2>9, RespondInv
  <2>10. CASE Insert
    <3>1. PICK c \in Cards : Change(c) BY <2>10 DEF Insert
    <3>2. slot = NoCard BY <2>10 DEF Insert
    <3> QED BY <3>1, <3>2, ChangeInv
  <2>11. CASE Remove
    <3>1. Change(NoCard) BY <2>11 DEF Remove
    <3> QED BY <3>1, ChangeInv
  <2>12. ASSUME NEW r \in Requests, Action(r) PROVE MmcInv' BY <2>12, ActionInv
  <2>13. CASE UNCHANGED vars
    BY <2>13 DEF vars, MmcInv, Surround, Unseen, Fit, Placed, Linked, Enqueued, Calm,
       CalmFit,
       Going, Identifying, Transferring, Idling, Inserted, Driver, Present
  <2> QED BY <2>1, <2>2, <2>3, <2>4, <2>5, <2>6, <2>7, <2>8, <2>9, <2>10, <2>11, <2>12, <2>13
       DEF Next, Work, DriverStep, Control
<1> QED BY <1>1, <1>2, PTL DEF Spec

(* RequestHeld: a command block is in one place, and the engine moves data *)
(* only for the one in work, whatever is inserted, removed, spoilt or      *)
(* refused.                                                                *)
THEOREM RequestHeldCorrect == Spec => []RequestHeld
<1>1. MmcInv => RequestHeld
  <2> SUFFICES ASSUME MmcInv PROVE RequestHeld OBVIOUS
  <2>1. Driver \in Drivers /\ Placed(Driver) /\ Linked(Driver) BY DEF MmcInv, Fit
  <2>2. queue \in Seq(Requests) /\ DOMAIN queue = 1 .. Len(queue)
    BY <2>1, DriverFields DEF Drivers
  <2>3. \A r \in Requests : InWork(r) => r = nexus \/ r \in Members(queue)
    BY <2>2 DEF InWork, Members
  <2>4. None \notin Requests BY BoundsAssumption
  <2>5. \A i \in DOMAIN queue : queue[i] # nexus
    BY <2>1, <2>2, DriverFields DEF Placed, Members
  <2>6. \A r \in Requests : InWork(r) => answer[r] = "none"
    BY <2>1, <2>3, <2>4, DriverFields DEF Placed
  <2>7. \A i, j \in DOMAIN queue : queue[i] = queue[j] => i = j
    BY <2>1, <2>2, DriverFields DEF Placed, Distinct
  <2>8. /\ hw.cmd = "DATA" /\ hw.res = "none" /\ mode = "tran" => hw.req = nexus
        /\ ext.state = "DATA" => nexus # None
    BY <2>1, DriverFields DEF Linked, Placed
  <2> QED BY <2>5, <2>6, <2>7, <2>8 DEF RequestHeld
<1> QED BY <1>1, MmcInvariant, PTL

(* NoneForgotten: a command block in work waits for a command on the line  *)
(* or for the control thread, and a queue for a pulse, but for the three   *)
(* ways out that the code has (Lost).                                      *)
THEOREM NoneForgottenCorrect == Spec => []NoneForgotten
<1>1. MmcInv => NoneForgotten
  <2> SUFFICES ASSUME MmcInv, ~Lost
               PROVE  /\ nexus # None => hw.cmd # "none" \/ cpc = "started"
                      /\ queue # <<>> /\ nexus = None => enq > 0
    BY DEF NoneForgotten
  <2>1. Calm BY DEF MmcInv, Surround, Lost, Calm
  <2>2. Going(Driver) /\ Enqueued(Driver) BY <2>1 DEF MmcInv, CalmFit
  <2>3. nexus \in Requests \cup {None} BY DriverFields DEF MmcInv, Fit, Drivers
  <2>4. nexus # None => ~(host.pio /\ Writes(kind[nexus]))
    BY <2>3 DEF Lost, InWork
  <2> QED BY <2>2, <2>4, DriverFields DEF Going, Enqueued
<1> QED BY <1>1, MmcInvariant, PTL
=============================================================================
