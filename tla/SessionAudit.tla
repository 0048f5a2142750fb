---------------------------- MODULE SessionAudit ----------------------------
(***************************************************************************)
(* What each endpoint of hidra_core keeps beside its keys.  SessionGuard   *)
(* of session.rs: the cryptoperiod of a session, in messages and in time,  *)
(* with a soft limit before the hard one.  AuditLogger of audit.rs: a log  *)
(* whose entries are chained by HMAC, each keyed with the one before, and  *)
(* cut to half when it grows too long.  The entries are public, so they    *)
(* can be altered in place, their HMACs included, or removed.              *)
(***************************************************************************)
EXTENDS Naturals, Sequences, SequencesExt

CONSTANTS max_messages,       \* SessionConfig (100 000)
          max_duration,       \* (24 hours)
          warning_percent     \* warning_threshold (0.8), in percent

(* The soft limit is reached at least one message and one tick before the  *)
(* hard one, as it is with 80 percent of limits of five or more.           *)
GuardConstants ==
  /\ {max_messages, max_duration} \subseteq Nat \ {0} /\ warning_percent \in Nat
  /\ (max_messages - 1) * 100 >= warning_percent * max_messages
  /\ (max_duration - 1) * 100 >= warning_percent * max_duration

VARIABLES messages_sent, messages_received, elapsed, valid,
          warned    \* history: some call was answered RekeyRecommended

guardVars == <<messages_sent, messages_received, elapsed, valid, warned>>

GuardInit ==
  /\ messages_sent = 0 /\ messages_received = 0
  /\ elapsed = 0 /\ valid = TRUE /\ warned = FALSE

TotalMessages == messages_sent + messages_received

(* Mutant: the soft limit looks at what was sent only. *)
MutNearLimit ==
  \/ messages_sent * 100 >= warning_percent * max_messages
  \/ elapsed * 100 >= warning_percent * max_duration

(* The soft limit of validate, by messages or by time. *)
NearLimit ==
  \/ TotalMessages * 100 >= warning_percent * max_messages
  \/ elapsed * 100 >= warning_percent * max_duration

Validate ==
  IF ~valid \/ TotalMessages >= max_messages \/ elapsed >= max_duration
  THEN "SessionExpired"
  ELSE IF NearLimit THEN "RekeyRecommended" ELSE "Active"

(* The owner asks, as before each message. *)
Ask ==
  /\ warned' = (warned \/ Validate = "RekeyRecommended")
  /\ UNCHANGED <<messages_sent, messages_received, elapsed, valid>>

(* record_send and record_receive validate first and discard the advice. *)
RecordSend ==
  /\ Validate # "SessionExpired"
  /\ messages_sent' = messages_sent + 1
  /\ UNCHANGED <<messages_received, elapsed, valid, warned>>

RecordReceive ==
  /\ Validate # "SessionExpired"
  /\ messages_received' = messages_received + 1
  /\ UNCHANGED <<messages_sent, elapsed, valid, warned>>

Invalidate ==
  /\ valid' = FALSE
  /\ UNCHANGED <<messages_sent, messages_received, elapsed, warned>>

(* Time passes; past the limit it makes no difference. *)
Tick ==
  /\ elapsed < max_duration
  /\ elapsed' = elapsed + 1
  /\ UNCHANGED <<messages_sent, messages_received, valid, warned>>

(* An owner that asks after every message and every tick. *)
GuardNext ==
  \/ Ask \/ Invalidate
  \/ (Validate = "RekeyRecommended" => warned) /\ (RecordSend \/ RecordReceive \/ Tick)

GuardSpec == GuardInit /\ [][GuardNext]_guardVars

-----------------------------------------------------------------------------
(* No message is recorded beyond either limit, and an owner that asks      *)
(* between two events is told to renew its keys before the session ends,   *)
(* whichever limit ends it: the soft limit cannot be skipped in one step   *)
(* (session.rs 79-139).                                                    *)
WarnedBeforeExpiry ==
  /\ TotalMessages <= max_messages
  /\ valid /\ Validate = "SessionExpired" => warned

-----------------------------------------------------------------------------
CONSTANTS max_entries,
          MaxLogged, MaxEdits   \* bounds: the entries logged, the changes by hand

AuditConstants == max_entries \in Nat \ {0} /\ {MaxLogged, MaxEdits} \subseteq Nat

Severities == {"Info", "Warning", "Critical", "Fatal"}

VARIABLES entries, chain_key, next_seq, critical_count,
          logged,    \* history: the HMAC of every entry as it was logged
          edits      \* history: the changes made to entries by hand

auditVars == <<entries, chain_key, next_seq, critical_count, logged, edits>>

(* An HMAC is what it was computed over: no two are equal by accident, and *)
(* whoever holds the key, here the HMAC before, can compute it.  The       *)
(* severity of an entry is not part of it.                                 *)
Hmac(key, sequence, data) == <<key, sequence, data>>

InitialKey == <<>>        \* random, never part of an entry

Forged == <<"forged">>    \* an HMAC that no key yields

AuditInit ==
  /\ entries = <<>> /\ chain_key = InitialKey /\ next_seq = 0
  /\ critical_count = 0 /\ logged = <<>> /\ edits = 0

(* Mutant: the chain key is not advanced. *)
MutAdvance(hmac) == chain_key

Advance(hmac) == hmac

(* Mutant: rotation keeps the older half. *)
MutRotate(log) == SubSeq(log, 1, Len(log) - Len(log) \div 2)

Rotate(log) == SubSeq(log, Len(log) \div 2 + 1, Len(log))

(* log: compute the HMAC under the chain key, append, rotate. *)
Log(severity) ==
  /\ next_seq < MaxLogged
  /\ LET entry == [sequence |-> next_seq, severity |-> severity, data |-> "logged",
                   hmac |-> Hmac(chain_key, next_seq, "logged")]
         log == Append(entries, entry)
     IN /\ entries' = IF Len(log) > max_entries THEN Rotate(log) ELSE log
        /\ chain_key' = Advance(entry.hmac)
        /\ logged' = Append(logged, entry.hmac)
  /\ next_seq' = next_seq + 1
  /\ critical_count' = critical_count + (IF severity \in {"Critical", "Fatal"} THEN 1 ELSE 0)
  /\ UNCHANGED edits

(* entries and all its fields are public: they may change or go, and a     *)
(* writer may compute an HMAC anew from the one stored before it.          *)
Edit(log) ==
  /\ edits < MaxEdits
  /\ edits' = edits + 1
  /\ entries' = log
  /\ UNCHANGED <<chain_key, next_seq, critical_count, logged>>

Replace(i, entry) == Edit([entries EXCEPT ![i] = entry])

Alter(i) ==
  \/ Replace(i, [entries[i] EXCEPT !.data = "altered"])
  \/ Replace(i, [entries[i] EXCEPT !.severity = "Info"])
  \/ Replace(i, [entries[i] EXCEPT !.sequence = 0])
  \/ Replace(i, [entries[i] EXCEPT !.hmac = Forged])

Rechained(i) == Hmac(entries[i - 1].hmac, entries[i].sequence, entries[i].data)

Rechain(i) == i > 1 /\ Replace(i, [entries[i] EXCEPT !.hmac = Rechained(i)])

Delete(i) == Edit(RemoveAt(entries, i))

(* verify_chain: the HMAC of each entry but the first is recomputed under  *)
(* the one stored before it.                                               *)
VerifyChain == \A i \in 2 .. Len(entries) : entries[i].hmac = Rechained(i)

AuditNext ==
  \/ \E s \in {"Info", "Critical"} : Log(s)
  \/ \E i \in 1 .. Len(entries) : Alter(i) \/ Rechain(i) \/ Delete(i)

AuditSpec == AuditInit /\ [][AuditNext]_auditVars

-----------------------------------------------------------------------------
AuditTypeOK ==
  /\ Len(entries) <= max_entries /\ next_seq \in 0 .. MaxLogged
  /\ Len(logged) = next_seq /\ critical_count <= next_seq

(* Entry i is what was logged as the n-th: its HMAC is, and so is what the *)
(* HMAC covers, except in the first entry, whose key is gone.              *)
AsLogged(i, n) ==
  /\ n >= 1 /\ entries[i].hmac = logged[n]
  /\ i > 1 => entries[i].sequence = n - 1 /\ entries[i].data = "logged"

(* A log that nobody changes verifies through all rotations and ends in    *)
(* its newest entry.  Of a changed one, as soon as it ends in an HMAC that *)
(* was once logged, as it does after every call of log(), verify_chain is  *)
(* true exactly when every entry stands where it was logged, with no gap.  *)
(* Entries cut at either end, what the first one says and all severities   *)
(* go unseen, and a chain computed anew to its end does until another      *)
(* entry is logged (audit.rs 104-219).                                     *)
ChainVerdictExact ==
  /\ edits = 0 /\ next_seq > 0 =>
       VerifyChain /\ Last(entries).sequence = next_seq - 1
  /\ \A n \in 1 .. next_seq :
       entries # <<>> /\ Last(entries).hmac = logged[n] =>
         (VerifyChain <=>
            \A i \in 1 .. Len(entries) : AsLogged(i, n - (Len(entries) - i)))
=============================================================================
