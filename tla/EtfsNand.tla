------------------------------ MODULE EtfsNand ------------------------------
(***************************************************************************)
(* The NAND driver of the flash file system (etfs/.../devio.c), and the    *)
(* chip, when power may fail at any time.  A block is erased and its first *)
(* cluster then gets the erase signature; a cluster is posted by           *)
(* programming its data and the spare area, in which a CRC covers the      *)
(* transaction.  What a cluster is, is found out from what is read back.   *)
(*                                                                         *)
(* Programming only clears bits.  An area of a page is blank, holds what   *)
(* was programmed, or is torn: programmed in part, or twice with different *)
(* things.  A CRC tells torn areas from whole ones.                        *)
(*                                                                         *)
(* The file system is external: it erases any block, and posts to the      *)
(* clusters of a block in order, beginning with a first cluster that was   *)
(* erased or that reads as erased when it starts.                          *)
(***************************************************************************)
EXTENDS Integers

CONSTANTS
  Blocks, clusters2blk,   \* blocks, clusters in each
  Trans, Data,            \* transactions and contents of clusters
  BLANK, TORN,            \* an area with no bit cleared, or torn
  NONE                    \* of no cluster

(* What a transaction looks like in the spare area, its CRC taken over it. *)
Transactions == [trans : Trans, crcdata : Data, crctrans : {"sig", BLANK}]

ASSUME EtfsAssumption ==
  /\ clusters2blk \in Nat \ {0}
  /\ BLANK # TORN
  /\ {BLANK, TORN} \cap (Data \cup {"sig"} \cup Transactions) = {}
  /\ NONE \notin [trans : Trans, clean : BOOLEAN]

Clusters == Blocks \X (0 .. clusters2blk - 1)

VARIABLES
  page,      \* [Clusters -> the page: data, sig and trans]
  op,        \* the operation the chip is at work on
  next,      \* [Blocks -> the cluster the file system will post to next]
  posted     \* [Clusters -> what devio_postcluster said is there]

etfsVars == <<page, op, next, posted>>

IDLE  == [kind |-> "idle"]
FULL  == clusters2blk    \* a block that may not be posted to

(* The first 16 bytes of the spare area hold the signature, the rest of it *)
(* the transaction, its CRC and that of the data.                          *)
BlankPage == [data |-> BLANK, sig |-> BLANK, trans |-> BLANK]

EtfsInit ==
  /\ page = [c \in Clusters |-> BlankPage] /\ op = IDLE
  /\ next = [b \in Blocks |-> FULL] /\ posted = [c \in Clusters |-> NONE]
-----------------------------------------------------------------------------
(***************************************************************************)
(* The chip (external).  Programming a blank area with ones leaves it.     *)
(***************************************************************************)
Over(old, new) == IF new \in {BLANK, old} THEN old ELSE IF old = BLANK THEN new ELSE TORN

Programmed(p, w) == [a \in DOMAIN p |-> Over(p[a], w[a])]

(* Power failed, or the chip: every area is as before, torn, or done. *)
HalfProgrammed(p, w) ==
  {q \in [data : {p.data, TORN, Over(p.data, w.data)},
          sig : {p.sig, TORN, Over(p.sig, w.sig)},
          trans : {p.trans, TORN, Over(p.trans, w.trans)}] :
     \A a \in DOMAIN w : w[a] = BLANK => q[a] = p[a]}

(* The cells of a page are erased together: what was programmed is there   *)
(* or torn in all of its areas, or the page is blank.                      *)
HalfErased(p) ==
  {p, BlankPage, [a \in DOMAIN p |-> IF p[a] = BLANK THEN BLANK ELSE TORN]}
-----------------------------------------------------------------------------
(***************************************************************************)
(* devio_readtrans and devio_readcluster.  The erase signature and the     *)
(* CRC of the transaction, which covers the place of the signature.        *)
(***************************************************************************)
(* Mutant: blank clusters count as erased without the signature. *)
BlankIsErased(p) == p.trans = BLANK

Erased(p) == p.trans = BLANK /\ p.sig = "sig"

ReadTrans(p) ==
  CASE Erased(p) -> "ERASED"
    [] ~Erased(p) /\ p.trans = BLANK -> "FOXES"
    [] p.trans \notin {BLANK, TORN} -> IF p.trans.crctrans = p.sig THEN "OK" ELSE "DATAERR"
    [] p.trans = TORN -> "DATAERR"

(* The error correction may repair data that do not agree with their CRC. *)
ReadCluster(p) ==
  IF ReadTrans(p) # "OK" THEN {ReadTrans(p)}
  ELSE IF p.data = p.trans.crcdata THEN {"OK"}
  ELSE {"ECC", "DATAERR"}
-----------------------------------------------------------------------------
(***************************************************************************)
(* devio_postcluster.  The CRC is taken with the signature in its place;   *)
(* in the first cluster of a block it is not programmed again.             *)
(***************************************************************************)
Spare(c, t, d, sig, crc) ==
  [data |-> d, sig |-> sig, trans |-> [trans |-> t, crcdata |-> d, crctrans |-> crc]]

(* Mutant: the signature is taken out before the CRC is computed. *)
BuiltLate(c, t, d) ==
  LET sig == IF c[2] = 0 THEN BLANK ELSE "sig" IN Spare(c, t, d, sig, sig)

Built(c, t, d) ==
  Spare(c, t, d, IF c[2] = 0 THEN BLANK ELSE "sig", "sig")

Post(c, t, d) ==
  /\ op = IDLE /\ next[c[1]] = c[2]
  /\ op' = [kind |-> "post", at |-> c, write |-> Built(c, t, d),
            posting |-> [trans |-> t, clean |-> page[c].data = BLANK]]
  /\ next' = [next EXCEPT ![c[1]] = c[2] + 1]
  /\ UNCHANGED <<page, posted>>

(* The page of the erase signature, for devio_postcluster without a        *)
(* transaction.                                                            *)
Signature == [data |-> BLANK, sig |-> "sig", trans |-> BLANK]

PostDone ==
  /\ op.kind = "post"
  /\ page' = [page EXCEPT ![op.at] = Programmed(@, op.write)]
  /\ posted' = [posted EXCEPT ![op.at] = op.posting]
  /\ op' = IDLE
  /\ UNCHANGED next

(* NAND_PROGRAM_ERASE_ERROR: the file system writes no more to the block. *)
PostFails ==
  /\ op.kind = "post"
  /\ \E p \in HalfProgrammed(page[op.at], op.write) : page' = [page EXCEPT ![op.at] = p]
  /\ next' = [next EXCEPT ![op.at[1]] = FULL]
  /\ op' = IDLE
  /\ UNCHANGED posted
-----------------------------------------------------------------------------
(***************************************************************************)
(* devio_eraseblk: the erase, and the signature if that went well.         *)
(***************************************************************************)
InBlock(b) == {c \in Clusters : c[1] = b}

Erase(b) ==
  /\ op = IDLE
  /\ op' = [kind |-> "erase", blk |-> b]
  /\ next' = [next EXCEPT ![b] = FULL]
  /\ posted' = [c \in Clusters |-> IF c[1] = b THEN NONE ELSE posted[c]]
  /\ UNCHANGED page

EraseDone ==
  /\ op.kind = "erase"
  /\ page' = [c \in Clusters |-> IF c[1] = op.blk THEN BlankPage ELSE page[c]]
  /\ op' = [kind |-> "sign", at |-> <<op.blk, 0>>]
  /\ UNCHANGED <<next, posted>>

SignDone ==
  /\ op.kind = "sign"
  /\ page' = [page EXCEPT ![op.at] = Programmed(@, Signature)]
  /\ next' = [next EXCEPT ![op.at[1]] = 0]
  /\ op' = IDLE
  /\ UNCHANGED posted

HalfErasedPages(b) ==
  {f \in [InBlock(b) -> UNION {HalfErased(page[c]) : c \in InBlock(b)}] :
     \A c \in InBlock(b) : f[c] \in HalfErased(page[c])}

EraseFails ==
  /\ op.kind = "erase"
  /\ \E f \in HalfErasedPages(op.blk) :
       page' = [c \in Clusters |-> IF c[1] = op.blk THEN f[c] ELSE page[c]]
  /\ op' = IDLE
  /\ UNCHANGED <<next, posted>>

SignFails ==
  /\ op.kind = "sign"
  /\ \E p \in HalfProgrammed(page[op.at], Signature) : page' = [page EXCEPT ![op.at] = p]
  /\ op' = IDLE
  /\ UNCHANGED <<next, posted>>
-----------------------------------------------------------------------------
(***************************************************************************)
(* Power fails, in the middle of whatever the chip does, and the file      *)
(* system starts again and reads the first cluster of every block.         *)
(***************************************************************************)
AfterPowerLoss ==
  CASE op.kind = "idle" -> {page}
    [] op.kind = "post" -> {[page EXCEPT ![op.at] = p] : p \in HalfProgrammed(page[op.at], op.write)}
    [] op.kind = "sign" -> {[page EXCEPT ![op.at] = p] : p \in HalfProgrammed(page[op.at], Signature)}
    [] op.kind = "erase" ->
         {[c \in Clusters |-> IF c[1] = op.blk THEN f[c] ELSE page[c]] : f \in HalfErasedPages(op.blk)}

Restart ==
  /\ page' \in AfterPowerLoss
  /\ next' = [b \in Blocks |-> IF ReadTrans(page'[<<b, 0>>]) = "ERASED" THEN 0 ELSE FULL]
  /\ op' = IDLE
  /\ UNCHANGED posted

EtfsNext ==
  \/ \E c \in Clusters, t \in Trans, d \in Data : Post(c, t, d)
  \/ PostDone \/ PostFails
  \/ \E b \in Blocks : Erase(b)
  \/ EraseDone \/ EraseFails \/ SignDone \/ SignFails
  \/ Restart

EtfsSpec == EtfsInit /\ [][EtfsNext]_etfsVars
-----------------------------------------------------------------------------
(* Every variable has its type.                                           *)
EtfsTypeOK ==
  /\ \A c \in Clusters : /\ page[c].data \in Data \cup {BLANK, TORN}
                         /\ page[c].sig \in {"sig", BLANK, TORN}
                         /\ page[c].trans \in Transactions \cup {BLANK, TORN}
  /\ op.kind \in {"idle", "post", "erase", "sign"}
  /\ next \in [Blocks -> 0 .. FULL]

(* A block whose first cluster reads as erased is blank behind the         *)
(* signature, wherever power failed before: a file system that starts may  *)
(* fill it.  Excepted are the data of the first cluster: programming it    *)
(* may have been cut short before it reached the spare area.               *)
ErasedIsBlank ==
  \A b \in Blocks :
    (op = IDLE /\ ReadTrans(page[<<b, 0>>]) = "ERASED") =>
      \A c \in InBlock(b) : c[2] > 0 => page[c] = BlankPage

(* A cluster that was posted is read back as the transaction it was        *)
(* posted with, until its block is erased again, whatever power failures   *)
(* came before and after; and its data are what was posted, if it was      *)
(* posted to a page whose data were blank.                                 *)
PostedReadsBack ==
  /\ EtfsTypeOK
  /\ \A c \in Clusters :
       posted[c] # NONE =>
         /\ ReadTrans(page[c]) = "OK" /\ page[c].trans.trans = posted[c].trans
         /\ posted[c].clean => ReadCluster(page[c]) = {"OK"}
=============================================================================
