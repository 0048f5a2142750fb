---------------------------- MODULE TitanRatchet ----------------------------
(***************************************************************************)
(* titan_ratchet, as the integration tests use it: both ends start from    *)
(* one shared secret and run the same chain, the sender sealing with the   *)
(* next key and the receiver opening with its own next key, in the order   *)
(* of the dead drop.  Each end turns the root key when it learns the new   *)
(* secret of a Kyber exchange.                                             *)
(***************************************************************************)
EXTENDS Naturals, Sequences, FiniteSets

CONSTANTS MaxKeys,   \* bound: keys an end takes
          MaxTurns   \* bound: DH ratchet turns of an end

EndsConstants == {MaxKeys, MaxTurns} \subseteq Nat

VARIABLES
  root,      \* per end: the turns its root key has made
  chain,     \* per end and chain: the steps since the chain was derived
  count,     \* per end and chain: send_count and recv_count, never reset
  drop,      \* the sealed envelopes between them, oldest first
  taken,     \* history: per end the keys handed out
  crossed    \* history: root and chain of keys spent on envelopes of another root

ratchetVars == <<root, chain, count, drop, taken, crossed>>

Ends == {"alice", "bob"}
Chains == {"send", "recv"}

Init ==
  /\ root = [e \in Ends |-> 0]
  /\ chain = [e \in Ends |-> [c \in Chains |-> 0]]
  /\ count = [e \in Ends |-> [c \in Chains |-> 0]]
  /\ drop = <<>> /\ taken = [e \in Ends |-> <<>>] /\ crossed = {}

(* A message key is named by root key, chain and position in it. *)
Key(e, c) == [root |-> root[e], chain |-> c, step |-> chain[e][c]]

(* Mutant: the chain key is kept. *)
MutAdvance(e, c) == chain

(* ChainKey::advance replaces the chain key. *)
AdvanceChain(e, c) == [chain EXCEPT ![e][c] = @ + 1]

(* next_send_key and next_recv_key. *)
NextKey(e, c) ==
  /\ Len(taken[e]) < MaxKeys
  /\ chain' = AdvanceChain(e, c)
  /\ count' = [count EXCEPT ![e][c] = @ + 1]
  /\ taken' = [taken EXCEPT ![e] = Append(@, Key(e, c))]

(* Alice seals on chain c, which Bob opens on the same chain. *)
Seal(c) ==
  /\ NextKey("alice", c)
  /\ drop' = Append(drop, Key("alice", c))
  /\ UNCHANGED <<root, crossed>>

(* open fails under another key, and both keys are gone all the same. *)
Open ==
  /\ drop # <<>>
  /\ LET sealed == Head(drop)
         c == sealed.chain
     IN /\ NextKey("bob", c)
        /\ crossed' = crossed \cup (IF sealed.root = root["bob"] THEN {}
                                    ELSE {<<sealed.root, c>>, <<root["bob"], c>>})
  /\ drop' = Tail(drop)
  /\ UNCHANGED root

(* Mutant: the chains stay those of the old root key. *)
MutDeriveChains(e) == chain

DeriveChains(e) == [chain EXCEPT ![e] = [c \in Chains |-> 0]]

(* dh_ratchet: the counts go on. *)
DhRatchet(e) ==
  /\ root[e] < MaxTurns
  /\ root' = [root EXCEPT ![e] = @ + 1]
  /\ chain' = DeriveChains(e)
  /\ UNCHANGED <<count, drop, taken, crossed>>

Next == (\E c \in Chains : Seal(c)) \/ Open \/ (\E e \in Ends : DhRatchet(e))

Spec == Init /\ [][Next]_ratchetVars

-----------------------------------------------------------------------------
(* The envelopes of a chain that wait under the root key the receiver has. *)
Waiting(c) == {i \in DOMAIN drop : drop[i].chain = c /\ drop[i].root = root["bob"]}

TypeOK ==
  /\ root \in [Ends -> 0 .. MaxTurns]
  /\ chain \in [Ends -> [Chains -> 0 .. MaxKeys]]
  /\ count \in [Ends -> [Chains -> 0 .. MaxKeys]]
  /\ drop \in Seq([root : 0 .. MaxTurns, chain : Chains, step : Nat])
  /\ crossed \subseteq (0 .. MaxTurns) \X Chains

(* titan_ratchet lib.rs 67-96, chain.rs 22-41: no end takes a key twice,   *)
(* over any turns of the root.  An envelope waiting under the root key the *)
(* receiver has now opens with the key it will then take, unless some key  *)
(* of this root and chain was spent on an envelope that crossed a turn: a  *)
(* crossing costs the channel until the next turn, and never longer.       *)
KeysMeet ==
  /\ \A e \in Ends : \A i, j \in 1 .. Len(taken[e]) :
       i # j => taken[e][i] # taken[e][j]
  /\ \A c \in Chains :
       <<root["bob"], c>> \notin crossed =>
         \A i \in Waiting(c) :
           drop[i].step = chain["bob"][c] + Cardinality({j \in Waiting(c) : j < i})
=============================================================================
