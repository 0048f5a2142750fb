----------------------------- MODULE MCRatchets -----------------------------
(***************************************************************************)
(* TLC instance of the three ratchets.  They share no state, so one of     *)
(* them runs in each behaviour and the others rest in their initial state. *)
(* The double ratchet runs in three sizes: within the limits of the        *)
(* protocol, with every limit in reach and a duplicating network, and with *)
(* a chain so short that the sender is forced to turn it.                  *)
(***************************************************************************)
EXTENDS SymmetricRatchet, FiniteSetsExt

CONSTANT Subjects   \* the ratchets to run

VARIABLES subject,
          ratchet, dr_sealed, dr_delivered, dr_returned, dr_opened, dr_refused, dr_burnt,
          session, rs_sealed, rs_delivered, rs_opened, rs_failed, rs_burnt

Within == INSTANCE DoubleRatchet
  WITH MaxMessages <- 8, MaxCopies <- 1, MaxSkip <- 7, MaxCache <- 8, MaxChain <- 8,
       sealed <- dr_sealed, delivered <- dr_delivered, returned <- dr_returned,
       opened <- dr_opened, refused <- dr_refused, burnt <- dr_burnt

Limits == INSTANCE DoubleRatchet
  WITH MaxMessages <- 5, MaxCopies <- 2, MaxSkip <- 1, MaxCache <- 1, MaxChain <- 2,
       sealed <- dr_sealed, delivered <- dr_delivered, returned <- dr_returned,
       opened <- dr_opened, refused <- dr_refused, burnt <- dr_burnt

Forced == INSTANCE DoubleRatchet
  WITH MaxMessages <- 4, MaxCopies <- 1, MaxSkip <- 4, MaxCache <- 4, MaxChain <- 2,
       sealed <- dr_sealed, delivered <- dr_delivered, returned <- dr_returned,
       opened <- dr_opened, refused <- dr_refused, burnt <- dr_burnt

Session == INSTANCE RatchetSession
  WITH MaxMessages <- 5, MaxCopies <- 2, MaxSkip <- 1,
       sealed <- rs_sealed, delivered <- rs_delivered, opened <- rs_opened,
       failed <- rs_failed, burnt <- rs_burnt

Duplicated == INSTANCE RatchetSession
  WITH MaxMessages <- 2, MaxCopies <- 2, MaxSkip <- 8,
       sealed <- rs_sealed, delivered <- rs_delivered, opened <- rs_opened,
       failed <- rs_failed, burnt <- rs_burnt

ASSUME Sizes ==
  /\ Within!ConstantsOK /\ Limits!ConstantsOK /\ Forced!ConstantsOK
  /\ Session!ConstantsOK /\ Duplicated!ConstantsOK

doubleVars == <<ratchet, dr_sealed, dr_delivered, dr_returned, dr_opened, dr_refused, dr_burnt>>
sessionVars == <<session, rs_sealed, rs_delivered, rs_opened, rs_failed, rs_burnt>>

RatchetsInit ==
  /\ subject \in Subjects /\ Init
  /\ CASE subject = "within" -> Within!Init
       [] subject = "forced" -> Forced!Init
       [] OTHER -> Limits!Init
  /\ IF subject = "duplicated" THEN Duplicated!Init ELSE Session!Init

RatchetsNext ==
  /\ UNCHANGED subject
  /\ \/ subject = "symmetric" /\ Next /\ UNCHANGED <<doubleVars, sessionVars>>
     \/ subject = "within" /\ Within!Next /\ UNCHANGED <<vars, sessionVars>>
     \/ subject = "limits" /\ Limits!Next /\ UNCHANGED <<vars, sessionVars>>
     \/ subject = "forced" /\ Forced!Next /\ UNCHANGED <<vars, sessionVars>>
     \/ subject = "session" /\ Session!Next /\ UNCHANGED <<vars, doubleVars>>
     \/ subject = "duplicated" /\ Duplicated!Next /\ UNCHANGED <<vars, doubleVars>>

RatchetsSpec == RatchetsInit /\ [][RatchetsNext]_<<subject, vars, doubleVars, sessionVars>>

-----------------------------------------------------------------------------
TypesOK ==
  /\ TypeOK
  /\ subject = "limits" => Limits!TypeOK
  /\ subject = "session" => Session!TypeOK

(* Within the limits every delivery is answered with the right key, and    *)
(* without duplicates every message of a session opens.                    *)
EveryDeliveryOpens ==
  /\ subject = "within" => Within!KeyAgreement /\ Within!NothingRefused
  /\ subject = "session" => Session!FirstCopiesOpen

(* No ratchet uses a key twice or keeps one after its use.                 *)
KeysUsedOnce ==
  /\ subject = "limits" => Limits!FreshKeys /\ Limits!ForwardSecrecy
  /\ subject = "session" => Session!FreshKeys /\ Session!ForwardSecrecy

(* Both double ratchets implement AtMostOnce: they start as it does, and   *)
(* each of their steps is one of its steps or none.                        *)
SessionsImplementAtMostOnce ==
  /\ subject = "limits" => Limits!Filter!Init
  /\ subject = "session" => Session!Filter!Init
  /\ [][subject = "limits" => Limits!Filter!Next]_dr_opened
  /\ [][subject = "session" => Session!Filter!Next]_rs_opened

(* What ratchet.rs 221 and 789 and double_ratchet.rs 42 and 571 promise.   *)
ForcedKeyAgreement == subject = "forced" => Forced!KeyAgreement
DuplicatesDoNoHarm == subject = "duplicated" => Duplicated!DuplicatesDoNoHarm

-----------------------------------------------------------------------------
(* One turn of the loop at ratchet.rs 591-601: evict the minimum of a full *)
(* cache, then insert.                                                     *)
InsertOne(cache, s) ==
  (IF Cardinality(cache) >= MaxCache THEN cache \ {Min(cache)} ELSE cache)
    \cup {s}

InsertLoop(cache, from, to) ==
  LET loop[i \in from - 1 .. to] ==
        IF i = from - 1 THEN cache ELSE InsertOne(loop[i - 1], i)
  IN loop[to]

(* KeepNewest is what the insertion loop of key_for computes, from every   *)
(* cache the receiver can hold and for every gap that may follow.          *)
KeepNewestIsTheLoop ==
  LET n == recv.message_number
      cache == DOMAIN skipped
  IN \A m \in n .. MaxSeq : InsertLoop(cache, n, m) = KeepNewest(cache \cup (n .. m))
=============================================================================
