--------------------------- MODULE StaticBuffers ----------------------------
(***************************************************************************)
(* StaticRing, StaticVec and StaticBuf of static_alloc.rs, each over an    *)
(* array of N cells.  Indices start at 0 as in the code.                   *)
(***************************************************************************)
EXTENDS Naturals, Sequences

CONSTANTS N,      \* the capacity
          Value   \* bound: what a cell may hold, apart from nothing

StaticConstants == N \in Nat \ {0} /\ 0 \notin Value

VARIABLES ring,   \* StaticRing: data, head, tail, full
          vec,    \* StaticVec: data, len; 0 is None
          buf     \* StaticBuf: data, len; 0 is a cleared byte

staticVars == <<ring, vec, buf>>

Cells == [0 .. N - 1 -> Value \cup {0}]
Blank == [i \in 0 .. N - 1 |-> 0]

Init ==
  /\ ring = [data |-> Blank, head |-> 0, tail |-> 0, full |-> FALSE]
  /\ vec = [data |-> Blank, len |-> 0]
  /\ buf = [data |-> Blank, len |-> 0]

-----------------------------------------------------------------------------
(* Mutant: full is never noticed. *)
MutRingPush(v) ==
  /\ ~ring.full
  /\ ring' = [ring EXCEPT !.data[ring.head] = v, !.head = (@ + 1) % N]
  /\ UNCHANGED <<vec, buf>>

RingPush(v) ==
  LET head == (ring.head + 1) % N IN
  /\ ~ring.full
  /\ ring' = [ring EXCEPT !.data[ring.head] = v, !.head = head,
                          !.full = (head = ring.tail)]
  /\ UNCHANGED <<vec, buf>>

RingEmpty == ~ring.full /\ ring.head = ring.tail

RingPop ==
  /\ ~RingEmpty
  /\ ring' = [ring EXCEPT !.tail = (@ + 1) % N, !.full = FALSE]
  /\ UNCHANGED <<vec, buf>>

RingLen ==
  IF ring.full THEN N
  ELSE IF ring.head >= ring.tail THEN ring.head - ring.tail
  ELSE N - ring.tail + ring.head

-----------------------------------------------------------------------------
VecPush(v) ==
  /\ vec.len < N
  /\ vec' = [data |-> [vec.data EXCEPT ![vec.len] = v], len |-> vec.len + 1]
  /\ UNCHANGED <<ring, buf>>

(* Mutant: the element is copied out and stays. *)
MutVecPop ==
  vec.len > 0 /\ vec' = [vec EXCEPT !.len = @ - 1] /\ UNCHANGED <<ring, buf>>

VecPop ==
  /\ vec.len > 0
  /\ vec' = [data |-> [vec.data EXCEPT ![vec.len - 1] = 0], len |-> vec.len - 1]
  /\ UNCHANGED <<ring, buf>>

VecClear ==
  /\ vec' = [data |-> [i \in 0 .. N - 1 |-> IF i < vec.len THEN 0 ELSE vec.data[i]],
             len |-> 0]
  /\ UNCHANGED <<ring, buf>>

VecGet(i) == IF i < vec.len THEN vec.data[i] ELSE 0

-----------------------------------------------------------------------------
(* extend copies what fits and reports how much that was. *)
BufExtend(bytes) ==
  LET copied == IF Len(bytes) <= N - buf.len THEN Len(bytes) ELSE N - buf.len IN
  /\ buf' = [data |-> [i \in 0 .. N - 1 |->
                         IF i \in buf.len .. buf.len + copied - 1
                         THEN bytes[i - buf.len + 1] ELSE buf.data[i]],
             len |-> buf.len + copied]
  /\ UNCHANGED <<ring, vec>>

BufClear ==
  /\ buf' = [data |-> [i \in 0 .. N - 1 |-> IF i < buf.len THEN 0 ELSE buf.data[i]],
             len |-> 0]
  /\ UNCHANGED <<ring, vec>>

Next ==
  \/ \E v \in Value : RingPush(v) \/ VecPush(v)
  \/ RingPop \/ VecPop \/ VecClear
  \/ \E v \in Value, n \in 1 .. N + 1 : BufExtend([i \in 1 .. n |-> v])
  \/ BufClear

Spec == Init /\ [][Next]_staticVars

-----------------------------------------------------------------------------
TypeOK ==
  /\ ring \in [data : Cells, head : 0 .. N - 1, tail : 0 .. N - 1, full : BOOLEAN]
  /\ vec \in [data : Cells, len : 0 .. N]
  /\ buf \in [data : Cells, len : 0 .. N]

(* Nothing that was popped or cleared stays behind the end: a vector's     *)
(* slots are None and a buffer's bytes zero there, so a later get or       *)
(* extend never shows an old key (static_alloc.rs 38-45, 81-86, 121-124).  *)
NothingLingers ==
  /\ \A i \in 0 .. N - 1 : vec.data[i] # 0 <=> i < vec.len
  /\ \A i \in 0 .. N - 1 : buf.data[i] # 0 <=> i < buf.len
  /\ \A i \in 0 .. N : VecGet(i) # 0 <=> i < vec.len

(* The ring is the bounded queue, through any number of wraps of head and  *)
(* tail, and its len is the queue's (static_alloc.rs 155-196).             *)
RingContents == [k \in 1 .. RingLen |-> ring.data[(ring.tail + k - 1) % N]]
Queue == INSTANCE BoundedQueue WITH queue <- RingContents, Capacity <- N
RingIsQueue == Queue!Spec
=============================================================================
