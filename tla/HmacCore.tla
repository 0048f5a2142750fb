------------------------------ MODULE HmacCore ------------------------------
(* hmac_sha256.vhd and the sha256_core.vhd it feeds word by word, both on    *)
(* one clock.  A word is named by where it comes from, a hash by what it was *)
(* computed over: the inner or the outer message of an HMAC, or neither.     *)
(* Rounds and message schedule are counted, not computed.                    *)
EXTENDS Naturals, Sequences

CONSTANTS BlockWords,            \* 16
          Rounds,                \* 64
          MsgWords, HashWords,   \* 4 and 8
          Messages               \* bound: the messages on msg_in

HmacConstants ==
  /\ {BlockWords, Rounds} \subseteq Nat
  /\ {MsgWords, HashWords} \subseteq 1 .. BlockWords - 3
  /\ Rounds > BlockWords /\ Messages \subseteq Nat

VARIABLES
  hmac,       \* the registers of hmac_sha256
  sha,        \* the registers of sha256_core
  asked,      \* history: the message of the start that was taken last
  since       \* history: edges since then, 0 when nothing is computed

hmacVars == <<hmac, sha, asked, since>>

None == <<"none", 0>>
Blank == <<"zero", 0>>

------------------------------------------------------------------------------
(* The message of either hash: a padded key, what is hashed, 1, zeros and    *)
(* the length in words.                                                      *)
Padding(words) ==
  [i \in 1 .. BlockWords - words |->
     IF i = 1 THEN <<"one", 0>>
     ELSE IF i = BlockWords - words THEN <<"length", BlockWords + words>> ELSE Blank]

PadWords(pad) == [i \in 1 .. BlockWords |-> <<pad, i - 1>>]
Words(name, value, n) == [i \in 1 .. n |-> <<name, value, i - 1>>]

InnerMessage(m) == PadWords("ipad") \o Words("msg", m, MsgWords) \o Padding(MsgWords)
OuterMessage(m) == PadWords("opad") \o Words("inner", m, HashWords) \o Padding(HashWords)

HashOf(words) ==
  IF \E m \in Messages : words = InnerMessage(m)
  THEN <<"inner", CHOOSE m \in Messages : words = InnerMessage(m)>>
  ELSE IF \E m \in Messages : words = OuterMessage(m)
  THEN <<"hmac", CHOOSE m \in Messages : words = OuterMessage(m)>>
  ELSE None

(* The word mux. *)
PaddingWord(idx, one, length, value) ==
  IF idx = one THEN <<"one", 0>> ELSE IF idx = length THEN <<"length", value>> ELSE Blank

DataIn ==
  LET idx == hmac.word_idx
      source == IF hmac.phase = "INNER" THEN <<"msg", hmac.msg_latched>> ELSE hmac.inner_hash
      words == IF hmac.phase = "INNER" THEN MsgWords ELSE HashWords
  IN CASE hmac.feed_part = "PAD" -> <<IF hmac.phase = "INNER" THEN "ipad" ELSE "opad", idx>>
       [] hmac.feed_part = "MSG" -> IF idx < words THEN Append(source, idx) ELSE Blank
       [] hmac.feed_part = "PADDING" ->
            PaddingWord(idx, 0, BlockWords - words - 1, BlockWords + words)

------------------------------------------------------------------------------
(* sha256_core, one operator per state.  W stands for the words of the       *)
(* current block: the memory itself is never cleared, each block rewrites    *)
(* all its words before the first is read.                                   *)
ShaReset ==
  [state |-> "S_IDLE", word_cnt |-> 0, count |-> 0, is_last |-> FALSE, W |-> <<>>,
   taken |-> <<>>, ready |-> FALSE, hash_valid |-> FALSE]

ShaIdle(s) ==
  IF hmac.sha_start
  THEN [s EXCEPT !.ready = TRUE, !.word_cnt = 0, !.is_last = FALSE, !.taken = <<>>,
                 !.W = <<>>, !.state = "S_LOAD_MSG"]
  ELSE [s EXCEPT !.ready = FALSE]

ShaLoadMsg(s) ==
  IF ~hmac.sha_data_valid THEN [s EXCEPT !.ready = TRUE]
  ELSE IF s.word_cnt = BlockWords - 1
  THEN [s EXCEPT !.W = Append(@, DataIn), !.is_last = @ \/ hmac.sha_last_block,
                 !.ready = FALSE, !.count = BlockWords, !.state = "S_EXPAND"]
  ELSE [s EXCEPT !.W = Append(@, DataIn), !.is_last = @ \/ hmac.sha_last_block,
                 !.ready = TRUE, !.word_cnt = @ + 1]

ShaExpand(s) ==
  IF s.count = Rounds - 1 THEN [s EXCEPT !.count = 0, !.state = "S_COMPRESS"]
  ELSE [s EXCEPT !.count = @ + 1]

ShaCompress(s) ==
  IF s.count = Rounds - 1 THEN [s EXCEPT !.state = "S_UPDATE"]
  ELSE [s EXCEPT !.count = @ + 1]

ShaUpdate(s) ==
  LET u == [s EXCEPT !.taken = @ \o s.W, !.W = <<>>] IN
  IF s.is_last THEN [u EXCEPT !.state = "S_DONE"]
  ELSE [u EXCEPT !.word_cnt = 0, !.ready = TRUE, !.state = "S_LOAD_MSG"]

ShaDone(s) == [s EXCEPT !.hash_valid = TRUE, !.state = "S_IDLE"]

ShaStep ==
  LET s == [sha EXCEPT !.hash_valid = FALSE] IN
  CASE s.state = "S_IDLE" -> ShaIdle(s)
    [] s.state = "S_LOAD_MSG" -> ShaLoadMsg(s)
    [] s.state = "S_EXPAND" -> ShaExpand(s)
    [] s.state = "S_COMPRESS" -> ShaCompress(s)
    [] s.state = "S_UPDATE" -> ShaUpdate(s)
    [] s.state = "S_DONE" -> ShaDone(s)

------------------------------------------------------------------------------
(* hmac_sha256, one operator per state.  A kill leaves the padded keys and   *)
(* msg_latched in their registers; the next start overwrites them.           *)
HmacReset(m) ==
  [state |-> "H_IDLE", phase |-> "INNER", feed_part |-> "PAD", word_idx |-> 0,
   block_word_cnt |-> 0, is_block2 |-> FALSE, msg_latched |-> m,
   inner_hash |-> None, sha_start |-> FALSE, sha_data_valid |-> FALSE,
   sha_last_block |-> FALSE, busy |-> FALSE, hmac_valid |-> FALSE, hmac_out |-> None]

HIdle(h, start, msg) ==
  IF start
  THEN [h EXCEPT !.busy = TRUE, !.msg_latched = msg, !.phase = "INNER",
                 !.feed_part = "PAD", !.is_block2 = FALSE, !.state = "H_PREP"]
  ELSE [h EXCEPT !.busy = FALSE]

HPrep(h) ==
  [h EXCEPT !.sha_start = TRUE, !.word_idx = 0, !.block_word_cnt = 0,
            !.state = "H_WAIT_READY"]

(* Mutant: the next word is fed without waiting for the core. *)
MutHWaitReady(h) == [h EXCEPT !.state = "H_FEED"]

HWaitReady(h) == IF sha.ready THEN [h EXCEPT !.state = "H_FEED"] ELSE h

(* Mutant: the last word of every block is flagged as the last. *)
MutHFeed(h) ==
  [h EXCEPT !.sha_data_valid = TRUE, !.sha_last_block = h.block_word_cnt = BlockWords - 1,
            !.state = "H_FEED_NEXT"]

HFeed(h) ==
  [h EXCEPT !.sha_data_valid = TRUE,
            !.sha_last_block = h.block_word_cnt = BlockWords - 1 /\ h.is_block2,
            !.state = "H_FEED_NEXT"]

(* The words of the second block: the message to its end, then the padding.  *)
EndOfMsg(h) ==
  /\ h.is_block2 /\ h.feed_part = "MSG"
  /\ h.word_idx = (IF h.phase = "INNER" THEN MsgWords ELSE HashWords) - 1

HFeedNext(h) ==
  IF h.block_word_cnt = BlockWords - 1
  THEN IF h.is_block2
       THEN [h EXCEPT !.block_word_cnt = 0, !.state = "H_WAIT_HASH"]
       ELSE [h EXCEPT !.block_word_cnt = 0, !.is_block2 = TRUE, !.word_idx = 0,
                      !.feed_part = "MSG", !.state = "H_WAIT_READY"]
  ELSE [h EXCEPT !.block_word_cnt = @ + 1, !.state = "H_WAIT_READY",
                 !.word_idx = IF EndOfMsg(h) THEN 0 ELSE @ + 1,
                 !.feed_part = IF EndOfMsg(h) THEN "PADDING" ELSE @]

HWaitHash(h) ==
  IF ~sha.hash_valid THEN h
  ELSE IF h.phase = "INNER"
  THEN [h EXCEPT !.inner_hash = HashOf(sha.taken), !.phase = "OUTER",
                 !.feed_part = "PAD", !.is_block2 = FALSE, !.word_idx = 0,
                 !.state = "H_PREP"]
  ELSE [h EXCEPT !.hmac_out = HashOf(sha.taken), !.hmac_valid = TRUE, !.state = "H_DONE"]

HDone(h) == [h EXCEPT !.busy = FALSE, !.state = "H_IDLE"]

HmacStep(start, msg) ==
  LET h == [hmac EXCEPT !.sha_start = FALSE, !.sha_data_valid = FALSE,
                        !.sha_last_block = FALSE, !.hmac_valid = FALSE]
  IN CASE h.state = "H_IDLE" -> HIdle(h, start, msg)
       [] h.state = "H_PREP" -> HPrep(h)
       [] h.state = "H_WAIT_READY" -> HWaitReady(h)
       [] h.state = "H_FEED" -> HFeed(h)
       [] h.state = "H_FEED_NEXT" -> HFeedNext(h)
       [] h.state = "H_WAIT_HASH" -> HWaitHash(h)
       [] h.state = "H_DONE" -> HDone(h)

------------------------------------------------------------------------------
Init ==
  /\ hmac = HmacReset(0) /\ sha = ShaReset
  /\ asked = 0 /\ since = 0

(* start and msg_in are free, in the middle of a computation too. *)
Edge ==
  /\ \E start \in BOOLEAN, msg \in Messages :
       /\ hmac' = HmacStep(start, msg)
       /\ asked' = IF start /\ hmac.state = "H_IDLE" THEN msg ELSE asked
       /\ since' = IF hmac.state = "H_DONE" \/ (hmac.state = "H_IDLE" /\ ~start) THEN 0
                   ELSE since + 1
  /\ sha' = ShaStep

\* rst_n or kill_signal, which both modules see.
Reset ==
  /\ hmac' = HmacReset(hmac.msg_latched) /\ sha' = ShaReset
  /\ since' = 0 /\ UNCHANGED asked

Next == Edge \/ Reset
Spec == Init /\ [][Next]_hmacVars

------------------------------------------------------------------------------
TypeOK ==
  /\ hmac.word_idx \in 0 .. BlockWords - 1
  /\ hmac.block_word_cnt \in 0 .. BlockWords - 1
  /\ sha.word_cnt \in 0 .. BlockWords - 1 /\ sha.count \in 0 .. Rounds - 1
  /\ Len(sha.W) <= BlockWords /\ Len(sha.taken) <= 2 * BlockWords

(* One block, from the wait for ready to the next one. *)
BlockCycles == 3 * BlockWords + (Rounds - BlockWords) + Rounds + 1
AnswerCycles == 2 * (2 * BlockCycles + 4) + 1

(* Every start that is taken is answered after the same number of edges with *)
(* the HMAC of the message that was on msg_in at that edge, whatever comes   *)
(* on start and msg_in in between and at whatever point the last one was     *)
(* killed: no word is fed before the core can take it, none is lost or taken *)
(* twice, and the core is told of the right last block.                      *)
HmacExact ==
  /\ hmac.hmac_valid => hmac.hmac_out = <<"hmac", asked>>
  /\ hmac.hmac_valid <=> since = AnswerCycles
  /\ hmac.busy <=> since > 0
  /\ since <= AnswerCycles
==============================================================================
