------------------------ MODULE TorusExchange_proofs ------------------------
(***************************************************************************)
(* Proofs about TorusExchange, for every torus, every number of rounds and *)
(* every choice of the neighbours used in a round.                         *)
(***************************************************************************)
EXTENDS TorusExchange, YaspTorus_proofs, FiniteSetTheorems

ForeignSend(p, r) == Used[r][p] \ LocalSends(p, r)
ForeignRecv(q, r) == UsedRecv(r, q) \ LocalRecvs(q, r)

(* The send task i of round r of p was handed to MPI; and the receive task.*)
Sent(p, r, i) ==
  \/ r < round[p]
  \/ r = round[p] /\ pc[p] \in {"irecv", "pollsends", "pollrecvs"}
  \/ r = round[p] /\ pc[p] = "isend" /\ i \notin sendreqs[p]

Posted(q, r, i) ==
  \/ r < round[q]
  \/ r = round[q] /\ pc[q] \in {"pollsends", "pollrecvs"}
  \/ r = round[q] /\ pc[q] = "irecv" /\ i \notin recvreqs[q]

InFlight(p, r, i) == \E m \in inflight : m.src = p /\ m.round = r /\ m.pos = i
Waiting(q, r, i)  == \E b \in posted : b.dst = q /\ b.round = r /\ b.pos = i

-----------------------------------------------------------------------------
(* The invariant, in parts.                                                *)

(* The request queues hold a final segment of the foreign tasks. *)
RequestsInv ==
  \A p \in Rank :
    /\ pc[p] # "isend" => sendreqs[p] = {}
    /\ pc[p] \notin {"isend", "irecv"} => recvreqs[p] = {}
    /\ pc[p] = "isend" =>
         /\ sendreqs[p] \subseteq ForeignSend(p, round[p])
         /\ \A i \in ForeignSend(p, round[p]) \ sendreqs[p], j \in sendreqs[p] : i < j
         /\ recvreqs[p] = ForeignRecv(p, round[p])
    /\ pc[p] = "irecv" =>
         /\ recvreqs[p] \subseteq ForeignRecv(p, round[p])
         /\ \A i \in ForeignRecv(p, round[p]) \ recvreqs[p], j \in recvreqs[p] : i < j

(* What is in the network belongs to a task that was handed to MPI. *)
InflightInv ==
  /\ \A m \in inflight :
       /\ m.pos \in ForeignSend(m.src, m.round)
       /\ m.dst = SendRank[m.src][m.pos]
       /\ Sent(m.src, m.round, m.pos)
       /\ ~m.eager => /\ m.round = round[m.src]
                      /\ pc[m.src] \in {"isend", "irecv", "pollsends"}
  /\ \A m, n \in inflight :
       m.src = n.src /\ m.pos = n.pos /\ m.round = n.round => m = n

PostedInv ==
  \A b \in posted :
    /\ b.pos \in ForeignRecv(b.dst, b.round)
    /\ b.src = RecvRank[b.dst][b.pos]
    /\ Posted(b.dst, b.round, b.pos)
    /\ b.round = round[b.dst]
    /\ pc[b.dst] \in {"irecv", "pollsends", "pollrecvs"}

(* The send task and the receive task at one position are completed by the *)
(* same match: this is what the order of the two lists is for.             *)
MatchInv ==
  \A q \in Rank, r \in Round : \A i \in ForeignRecv(q, r) :
    (Sent(RecvRank[q][i], r, i) /\ ~InFlight(RecvRank[q][i], r, i))
      <=> (Posted(q, r, i) /\ ~Waiting(q, r, i))

(* Buffers. *)
SendBufInv ==
  \A p \in Rank : ~Idle(p) => \A i \in Used[round[p]][p] : sbuf[p][i] = round[p]

LastDone(q) == IF Idle(q) THEN round[q]-1 ELSE round[q]

RecvBufInv ==
  \A q \in Rank, r \in Round : r = LastDone(q) =>
    \A i \in UsedRecv(r, q) :
      (i \in LocalRecvs(q, r) \/ (Posted(q, r, i) /\ ~Waiting(q, r, i)))
        => rbuf[q][i] = [from |-> RecvRank[q][i], pos |-> i, round |-> r]

Inv == TypeOK /\ RequestsInv /\ InflightInv /\ PostedInv /\ MatchInv
       /\ SendBufInv /\ RecvBufInv

-----------------------------------------------------------------------------
(* The two lists of a torus fit together: the task at position i of a      *)
(* sender and the task at position i of the receiver belong to opposite    *)
(* directions of the same pair.                                            *)
LEMMA ListsFit ==
  /\ neighbors(Dims) \in Nat
  /\ SendRank \in [Rank -> [Pos -> Rank]]
  /\ RecvRank \in [Rank -> [Pos -> Rank]]
  /\ \A p, q \in Rank, i \in Pos : SendRank[p][i] = q <=> RecvRank[q][i] = p
<1>1. /\ neighbors(Dims) \in Nat
      /\ \A p \in Rank, i \in Pos : /\ sendlist(Dims, p)[i].rank \in Rank
                                  /\ recvlist(Dims, p)[i].rank \in Rank
      /\ \A p, q \in Rank, i \in Pos :
           sendlist(Dims, p)[i].rank = q <=> recvlist(Dims, q)[i].rank = p
  BY DimsAssumption, NeighborListsFit DEF Rank, Pos
<1>2. QED BY <1>1 DEF SendRank, RecvRank

(* Positions are natural numbers and there are finitely many of them. *)
LEMMA PosFacts == (\A i \in Pos : i \in Nat /\ i > 0) /\ IsFiniteSet(Pos)
<1>1. \A i \in Pos : i \in Nat /\ i > 0
  BY ListsFit DEF Pos
<1>2. IsFiniteSet(1..neighbors(Dims))
  <2> DEFINE N == neighbors(Dims)
  <2>1. N \in Int
    BY ListsFit
  <2> HIDE DEF N
  <2>2. IsFiniteSet(1..N)
    BY <2>1, FS_Interval
  <2> QED
    BY <2>2 DEF N
<1> QED
  BY <1>1, <1>2 DEF Pos

LEMMA UsedFacts ==
  ASSUME NEW p \in Rank, NEW r \in Round
  PROVE  Used[r][p] \subseteq Pos /\ UsedRecv(r, p) \subseteq Pos
  BY UsedAssumption DEF UsedRecv

(* The local tasks of a process are the same on its send and its receive   *)
(* side, so the error return of exchange() is never taken.                 *)
LEMMA LocalTasks ==
  ASSUME NEW p \in Rank, NEW r \in Round
  PROVE  LocalSends(p, r) = LocalRecvs(p, r)
  BY UsedFacts, ListsFit DEF LocalSends, LocalRecvs, UsedRecv

(* A foreign receive task and the foreign send task it waits for. *)
LEMMA ForeignTasks ==
  ASSUME NEW p \in Rank, NEW q \in Rank, NEW r \in Round, NEW i \in Pos
  PROVE  (i \in ForeignRecv(q, r) /\ p = RecvRank[q][i])
           <=> (i \in ForeignSend(p, r) /\ q = SendRank[p][i])
  BY UsedFacts, ListsFit
     DEF ForeignSend, ForeignRecv, LocalSends, LocalRecvs, UsedRecv

LEMMA RecvPartner ==
  ASSUME NEW q \in Rank, NEW r \in Round, NEW i \in ForeignRecv(q, r)
  PROVE  /\ i \in Pos
         /\ RecvRank[q][i] \in Rank
         /\ RecvRank[q][i] # q
         /\ i \in ForeignSend(RecvRank[q][i], r)
         /\ SendRank[RecvRank[q][i]][i] = q
<1>1. i \in Pos /\ i \in UsedRecv(r, q) /\ RecvRank[q][i] # q
  BY UsedFacts DEF ForeignRecv, LocalRecvs
<1>2. RecvRank[q][i] \in Rank
  BY <1>1, ListsFit
<1> QED
  BY <1>1, <1>2, ForeignTasks

LEMMA SendPartner ==
  ASSUME NEW p \in Rank, NEW r \in Round, NEW i \in ForeignSend(p, r)
  PROVE  /\ i \in Pos
         /\ SendRank[p][i] \in Rank
         /\ SendRank[p][i] # p
         /\ i \in ForeignRecv(SendRank[p][i], r)
         /\ RecvRank[SendRank[p][i]][i] = p
<1>1. i \in Pos /\ i \in Used[r][p] /\ SendRank[p][i] # p
  BY UsedFacts DEF ForeignSend, LocalSends
<1>2. SendRank[p][i] \in Rank
  BY <1>1, ListsFit
<1> QED
  BY <1>1, <1>2, ForeignTasks

(* Members of a set of numbers are told apart by how many members are not  *)
(* larger: the order of the local tasks pairs every task with itself.      *)
LEMMA NthInjective ==
  ASSUME NEW I \in SUBSET Pos, NEW i \in I, NEW j \in I, nth(i, I) = nth(j, I)
  PROVE  i = j
<1> DEFINE upto(k) == {x \in I : x <= k}
<1>0. \A x \in I : x \in Nat
  BY PosFacts
<1>1. ASSUME NEW a \in I, NEW b \in I, a < b
      PROVE  nth(a, I) < nth(b, I)
  <2>1. IsFiniteSet(upto(a)) /\ IsFiniteSet(upto(b))
    BY PosFacts, FS_Subset
  <2>2. upto(a) \subseteq upto(b) /\ b \in upto(b) /\ b \notin upto(a)
    BY <1>0, <1>1
  <2>3. Cardinality(upto(a)) \in Nat /\ Cardinality(upto(b)) \in Nat
    BY <2>1, FS_CardinalityType
  <2>4. Cardinality(upto(a)) <= Cardinality(upto(b))
        /\ (Cardinality(upto(a)) = Cardinality(upto(b)) => upto(a) = upto(b))
    BY <2>1, <2>2, FS_Subset
  <2> QED
    BY <2>2, <2>3, <2>4 DEF nth
<1>2. nth(i, I) \in Nat /\ nth(j, I) \in Nat
  BY PosFacts, FS_Subset, FS_CardinalityType DEF nth
<1> QED
  BY <1>0, <1>1, <1>2

LEMMA LocalSourceIsSelf ==
  ASSUME NEW p \in Rank, NEW r \in Round, NEW i \in LocalRecvs(p, r)
  PROVE  LocalSource(p, r, i) = i
<1>1. LocalSends(p, r) \in SUBSET Pos /\ LocalSends(p, r) = LocalRecvs(p, r)
  BY LocalTasks, UsedFacts DEF LocalSends
<1>2. \A j \in LocalSends(p, r) :
        nth(j, LocalSends(p, r)) = nth(i, LocalRecvs(p, r)) => j = i
  BY <1>1, NthInjective
<1> QED
  BY <1>1, <1>2 DEF LocalSource

-----------------------------------------------------------------------------
(* A step that hands no task to MPI and touches no message keeps the match.*)
SameTasks ==
  /\ \A p \in Rank, r \in Round : \A i \in ForeignSend(p, r) : Sent(p, r, i)' <=> Sent(p, r, i)
  /\ \A q \in Rank, r \in Round : \A i \in ForeignRecv(q, r) : Posted(q, r, i)' <=> Posted(q, r, i)

LEMMA MatchFrame ==
  ASSUME MatchInv, SameTasks, UNCHANGED <<inflight, posted>>
  PROVE  MatchInv'
<1> SUFFICES ASSUME NEW q \in Rank, NEW r \in Round, NEW i \in ForeignRecv(q, r)
             PROVE  (Sent(RecvRank[q][i], r, i)' /\ ~InFlight(RecvRank[q][i], r, i)')
                      <=> (Posted(q, r, i)' /\ ~Waiting(q, r, i)')
  BY DEF MatchInv
<1> DEFINE p == RecvRank[q][i]
<1>1. p \in Rank /\ i \in ForeignSend(p, r)
  BY RecvPartner
<1>2. (Sent(p, r, i)' <=> Sent(p, r, i)) /\ (Posted(q, r, i)' <=> Posted(q, r, i))
  BY <1>1 DEF SameTasks
<1>3. (InFlight(p, r, i)' <=> InFlight(p, r, i)) /\ (Waiting(q, r, i)' <=> Waiting(q, r, i))
  BY DEF InFlight, Waiting
<1>4. (Sent(p, r, i) /\ ~InFlight(p, r, i)) <=> (Posted(q, r, i) /\ ~Waiting(q, r, i))
  BY DEF MatchInv
<1> QED
  BY <1>2, <1>3, <1>4

LEMMA InitInv == Init => Inv
<1> SUFFICES ASSUME Init PROVE Inv
  OBVIOUS
<1> USE DEF Init
<1>1. TypeOK
  BY RoundsAssumption DEF TypeOK
<1>2. RequestsInv /\ InflightInv /\ PostedInv
  BY DEF RequestsInv, InflightInv, PostedInv
<1>3. MatchInv
  <2> SUFFICES ASSUME NEW q \in Rank, NEW r \in Round, NEW i \in ForeignRecv(q, r)
               PROVE  ~Sent(RecvRank[q][i], r, i) /\ ~Posted(q, r, i)
    BY DEF MatchInv
  <2>1. RecvRank[q][i] \in Rank /\ r \in Nat /\ ~(r < 1)
    BY RecvPartner, RoundsAssumption DEF Round
  <2> QED
    BY <2>1 DEF Sent, Posted
<1>4. SendBufInv /\ RecvBufInv
  BY RoundsAssumption DEF Round, SendBufInv, RecvBufInv, Idle, LastDone
<1> QED
  BY <1>1, <1>2, <1>3, <1>4 DEF Inv

-----------------------------------------------------------------------------
LEMMA QueueInv ==
  ASSUME Inv, NEW p \in Rank, Queue(p)
  PROVE  Inv'
<1> DEFINE r == round[p]
<1>0. /\ TypeOK /\ RequestsInv /\ InflightInv /\ PostedInv /\ MatchInv
      /\ SendBufInv /\ RecvBufInv
  BY DEF Inv
<1>1. r \in Round /\ pc[p] = "queue"
  BY <1>0, RoundsAssumption DEF TypeOK, Round, Queue
<1>2. LocalSends(p, r) = LocalRecvs(p, r) /\ Used[r][p] \subseteq Pos /\ UsedRecv(r, p) \subseteq Pos
  BY <1>1, LocalTasks, UsedFacts
<1>3. /\ pc' = [pc EXCEPT ![p] = "isend"]
      /\ sbuf' = [sbuf EXCEPT ![p] = [i \in Pos |-> IF i \in Used[r][p] THEN r ELSE sbuf[p][i]]]
      /\ sendreqs' = [sendreqs EXCEPT ![p] = ForeignSend(p, r)]
      /\ recvreqs' = [recvreqs EXCEPT ![p] = ForeignRecv(p, r)]
      /\ UNCHANGED <<round, inflight, posted>>
  BY <1>2 DEF Queue, ForeignSend, ForeignRecv
<1>4. rbuf' = [rbuf EXCEPT ![p] = [i \in Pos |->
                  IF i \in LocalRecvs(p, r)
                  THEN [from |-> p, pos |-> i, round |-> r] ELSE rbuf[p][i]]]
  BY <1>1, <1>2, LocalSourceIsSelf DEF Queue
<1>5. TypeOK'
  <2>1. ForeignSend(p, r) \in SUBSET Pos /\ ForeignRecv(p, r) \in SUBSET Pos
    BY <1>2 DEF ForeignSend, ForeignRecv
  <2>2. sbuf' \in [Rank -> [Pos -> 0..Rounds]]
    BY <1>0, <1>1, <1>3, RoundsAssumption DEF TypeOK, Round
  <2>3. rbuf' \in [Rank -> [Pos -> Data \cup {Empty}]]
    BY <1>0, <1>1, <1>4 DEF TypeOK, Data
  <2> QED
    BY <1>0, <1>1, <1>3, <2>1, <2>2, <2>3 DEF TypeOK
<1>6. RequestsInv'
  BY <1>0, <1>3 DEF RequestsInv, TypeOK
<1>7. SameTasks
  <2>1. ASSUME NEW x \in Rank, NEW k \in Round, NEW i \in ForeignSend(x, k)
        PROVE  Sent(x, k, i)' <=> Sent(x, k, i)
    BY <1>0, <1>1, <1>3 DEF TypeOK, Sent
  <2>2. ASSUME NEW x \in Rank, NEW k \in Round, NEW i \in ForeignRecv(x, k)
        PROVE  Posted(x, k, i)' <=> Posted(x, k, i)
    BY <1>0, <1>1, <1>3 DEF TypeOK, Posted
  <2> QED
    BY <2>1, <2>2 DEF SameTasks
<1>8. MatchInv'
  BY <1>0, <1>3, <1>7, MatchFrame
<1>9. InflightInv'
  <2>1. ASSUME NEW m \in inflight'
        PROVE  /\ m.pos \in ForeignSend(m.src, m.round)
               /\ m.dst = SendRank[m.src][m.pos]
               /\ Sent(m.src, m.round, m.pos)'
               /\ ~m.eager => /\ m.round = round'[m.src]
                              /\ pc'[m.src] \in {"isend", "irecv", "pollsends"}
    <3>1. m \in inflight /\ m.src \in Rank /\ m.round \in Round
      BY <1>0, <1>3 DEF TypeOK, Message
    <3>2. /\ m.pos \in ForeignSend(m.src, m.round)
          /\ m.dst = SendRank[m.src][m.pos]
          /\ Sent(m.src, m.round, m.pos)
          /\ ~m.eager => /\ m.round = round[m.src]
                         /\ pc[m.src] \in {"isend", "irecv", "pollsends"}
      BY <1>0, <3>1 DEF InflightInv
    <3>3. Sent(m.src, m.round, m.pos)'
      BY <1>7, <3>1, <3>2 DEF SameTasks
    <3> QED
      BY <1>0, <1>1, <1>3, <3>1, <3>2, <3>3 DEF TypeOK
  <2>2. \A m, n \in inflight' :
          m.src = n.src /\ m.pos = n.pos /\ m.round = n.round => m = n
    BY <1>0, <1>3 DEF InflightInv
  <2> QED
    BY <2>1, <2>2 DEF InflightInv
<1>10. PostedInv'
  <2> SUFFICES ASSUME NEW b \in posted'
               PROVE  /\ b.pos \in ForeignRecv(b.dst, b.round)
                      /\ b.src = RecvRank[b.dst][b.pos]
                      /\ Posted(b.dst, b.round, b.pos)'
                      /\ b.round = round'[b.dst]
                      /\ pc'[b.dst] \in {"irecv", "pollsends", "pollrecvs"}
    BY DEF PostedInv
  <2>1. b \in posted /\ b.dst \in Rank /\ b.round \in Round
    BY <1>0, <1>3 DEF TypeOK, Receive
  <2>2. /\ b.pos \in ForeignRecv(b.dst, b.round)
        /\ b.src = RecvRank[b.dst][b.pos]
        /\ Posted(b.dst, b.round, b.pos)
        /\ b.round = round[b.dst]
        /\ pc[b.dst] \in {"irecv", "pollsends", "pollrecvs"}
    BY <1>0, <2>1 DEF PostedInv
  <2>3. Posted(b.dst, b.round, b.pos)'
    BY <1>7, <2>1, <2>2 DEF SameTasks
  <2> QED
    BY <1>0, <1>1, <1>3, <2>1, <2>2, <2>3 DEF TypeOK
<1>11. SendBufInv'
  BY <1>0, <1>1, <1>2, <1>3 DEF SendBufInv, TypeOK, Idle
<1>12. RecvBufInv'
  <2> SUFFICES ASSUME NEW q \in Rank, NEW k \in Round, k = LastDone(q)', NEW i \in UsedRecv(k, q),
                      i \in LocalRecvs(q, k) \/ (Posted(q, k, i)' /\ ~Waiting(q, k, i)')
               PROVE  rbuf'[q][i] = [from |-> RecvRank[q][i], pos |-> i, round |-> k]
    BY DEF RecvBufInv
  <2>1. CASE q # p
    <3>1. /\ k = LastDone(q) /\ rbuf'[q] = rbuf[q]
          /\ Posted(q, k, i)' <=> Posted(q, k, i)
          /\ Waiting(q, k, i)' <=> Waiting(q, k, i)
      BY <1>0, <1>3, <1>4, <2>1 DEF TypeOK, LastDone, Idle, Posted, Waiting
    <3> QED
      BY <1>0, <3>1 DEF RecvBufInv
  <2>2. CASE q = p
    <3>1. k = r
      BY <1>0, <1>1, <1>3, <2>2 DEF LastDone, Idle, TypeOK
    <3>2. ~Posted(q, k, i)'
      BY <1>0, <1>1, <1>3, <2>2, <3>1 DEF Posted, TypeOK
    <3>3. i \in LocalRecvs(p, r) /\ RecvRank[p][i] = p /\ i \in Pos
      BY <1>2, <2>2, <3>1, <3>2 DEF LocalRecvs
    <3> QED
      BY <1>0, <1>4, <2>2, <3>1, <3>3 DEF TypeOK
  <2> QED
    BY <2>1, <2>2
<1> QED
  BY <1>5, <1>6, <1>8, <1>9, <1>10, <1>11, <1>12 DEF Inv

-----------------------------------------------------------------------------
(* The steps that only move the program counter: they hand nothing to MPI, *)
(* because the queue they leave behind is empty.                           *)
LEMMA PcStepInv ==
  ASSUME Inv, NEW p \in Rank, AllSent(p) \/ AllPosted(p) \/ PollSends(p)
  PROVE  Inv'
<1>0. /\ TypeOK /\ RequestsInv /\ InflightInv /\ PostedInv /\ MatchInv
      /\ SendBufInv /\ RecvBufInv
  BY DEF Inv
<1>1. PICK to \in {"irecv", "pollsends", "pollrecvs"} :
        /\ pc' = [pc EXCEPT ![p] = to]
        /\ \/ pc[p] = "isend" /\ to = "irecv" /\ sendreqs[p] = {}
           \/ pc[p] = "irecv" /\ to = "pollsends" /\ recvreqs[p] = {}
           \/ pc[p] = "pollsends" /\ to = "pollrecvs" /\ OpenSends(p) = {}
  BY DEF AllSent, AllPosted, PollSends
<1>2. UNCHANGED <<round, sendreqs, recvreqs, sbuf, rbuf, inflight, posted>>
  BY DEF AllSent, AllPosted, PollSends
<1>3. TypeOK'
  BY <1>0, <1>1, <1>2 DEF TypeOK
<1>4. RequestsInv'
  BY <1>0, <1>1, <1>2 DEF RequestsInv, TypeOK
<1>5. /\ \A x \in Rank, k \in Round, i \in Pos : Sent(x, k, i)' <=> Sent(x, k, i)
      /\ \A x \in Rank, k \in Round : \A i \in ForeignRecv(x, k) : Posted(x, k, i)' <=> Posted(x, k, i)
  <2>1. ASSUME NEW x \in Rank, NEW k \in Round, NEW i \in Pos
        PROVE  Sent(x, k, i)' <=> Sent(x, k, i)
    BY <1>0, <1>1, <1>2 DEF TypeOK, Sent
  <2>2. ASSUME NEW x \in Rank, NEW k \in Round, NEW i \in ForeignRecv(x, k)
        PROVE  Posted(x, k, i)' <=> Posted(x, k, i)
    BY <1>0, <1>1, <1>2 DEF TypeOK, Posted, RequestsInv
  <2> QED
    BY <2>1, <2>2
<1>6. SameTasks
  BY <1>5, SendPartner DEF SameTasks
<1>7. MatchInv'
  BY <1>0, <1>2, <1>6, MatchFrame
<1>8. InflightInv'
  <2>1. ASSUME NEW m \in inflight'
        PROVE  /\ m.pos \in ForeignSend(m.src, m.round)
               /\ m.dst = SendRank[m.src][m.pos]
               /\ Sent(m.src, m.round, m.pos)'
               /\ ~m.eager => /\ m.round = round'[m.src]
                              /\ pc'[m.src] \in {"isend", "irecv", "pollsends"}
    <3>1. m \in inflight /\ m.src \in Rank /\ m.round \in Round
      BY <1>0, <1>2 DEF TypeOK, Message
    <3>2. /\ m.pos \in ForeignSend(m.src, m.round)
          /\ m.dst = SendRank[m.src][m.pos]
          /\ Sent(m.src, m.round, m.pos)
          /\ ~m.eager => /\ m.round = round[m.src]
                         /\ pc[m.src] \in {"isend", "irecv", "pollsends"}
      BY <1>0, <3>1 DEF InflightInv
    <3>3. Sent(m.src, m.round, m.pos)'
      BY <1>6, <3>1, <3>2 DEF SameTasks
    <3>4. ~m.eager => pc'[m.src] \in {"isend", "irecv", "pollsends"}
      BY <1>0, <1>1, <3>1, <3>2 DEF TypeOK, OpenSends
    <3> QED
      BY <1>2, <3>2, <3>3, <3>4
  <2>2. \A m, n \in inflight' :
          m.src = n.src /\ m.pos = n.pos /\ m.round = n.round => m = n
    BY <1>0, <1>2 DEF InflightInv
  <2> QED
    BY <2>1, <2>2 DEF InflightInv
<1>9. PostedInv'
  <2> SUFFICES ASSUME NEW b \in posted'
               PROVE  /\ b.pos \in ForeignRecv(b.dst, b.round)
                      /\ b.src = RecvRank[b.dst][b.pos]
                      /\ Posted(b.dst, b.round, b.pos)'
                      /\ b.round = round'[b.dst]
                      /\ pc'[b.dst] \in {"irecv", "pollsends", "pollrecvs"}
    BY DEF PostedInv
  <2>1. b \in posted /\ b.dst \in Rank /\ b.round \in Round
    BY <1>0, <1>2 DEF TypeOK, Receive
  <2>2. /\ b.pos \in ForeignRecv(b.dst, b.round)
        /\ b.src = RecvRank[b.dst][b.pos]
        /\ Posted(b.dst, b.round, b.pos)
        /\ b.round = round[b.dst]
        /\ pc[b.dst] \in {"irecv", "pollsends", "pollrecvs"}
    BY <1>0, <2>1 DEF PostedInv
  <2>3. Posted(b.dst, b.round, b.pos)'
    BY <1>6, <2>1, <2>2 DEF SameTasks
  <2> QED
    BY <1>0, <1>1, <1>2, <2>1, <2>2, <2>3 DEF TypeOK
<1>10. SendBufInv'
  BY <1>0, <1>1, <1>2 DEF SendBufInv, TypeOK, Idle
<1>11. RecvBufInv'
  <2> SUFFICES ASSUME NEW q \in Rank, NEW k \in Round, k = LastDone(q)', NEW i \in UsedRecv(k, q),
                      i \in LocalRecvs(q, k) \/ (Posted(q, k, i)' /\ ~Waiting(q, k, i)')
               PROVE  rbuf'[q][i] = [from |-> RecvRank[q][i], pos |-> i, round |-> k]
    BY DEF RecvBufInv
  <2>1. k = LastDone(q) /\ rbuf' = rbuf
    BY <1>0, <1>1, <1>2 DEF TypeOK, LastDone, Idle
  <2>2. Waiting(q, k, i)' <=> Waiting(q, k, i)
    BY <1>2 DEF Waiting
  <2>3. i \in LocalRecvs(q, k) \/ (Posted(q, k, i)' <=> Posted(q, k, i))
    BY <1>5 DEF ForeignRecv
  <2> QED
    BY <1>0, <2>1, <2>2, <2>3 DEF RecvBufInv
<1> QED
  BY <1>3, <1>4, <1>7, <1>8, <1>9, <1>10, <1>11 DEF Inv

LEMMA IsendInv ==
  ASSUME Inv, NEW p \in Rank, NEW e \in sendreqs[p], NEW eager \in BOOLEAN,
         Isend(p, e, eager)
  PROVE  Inv'
<1> DEFINE r == round[p]
           msg == [src |-> p, dst |-> SendRank[p][e], pos |-> e, round |-> r, eager |-> eager]
<1>0. /\ TypeOK /\ RequestsInv /\ InflightInv /\ PostedInv /\ MatchInv
      /\ SendBufInv /\ RecvBufInv
  BY DEF Inv
<1>1. /\ r \in Round /\ pc[p] = "isend" /\ e \in Pos
      /\ \A j \in sendreqs[p] : e <= j
  BY <1>0, RoundsAssumption DEF TypeOK, Round, Isend
<1>2. /\ inflight' = inflight \cup {msg}
      /\ sendreqs' = [sendreqs EXCEPT ![p] = @ \ {e}]
      /\ UNCHANGED <<pc, round, recvreqs, sbuf, rbuf, posted>>
  BY DEF Isend
<1>3. e \in ForeignSend(p, r)
  BY <1>0, <1>1 DEF RequestsInv
<1>4. SendRank[p][e] \in Rank
  BY <1>1, <1>3, SendPartner
<1>5. TypeOK'
  <2>1. msg \in Message
    BY <1>1, <1>4 DEF Message
  <2> QED
    BY <1>0, <1>2, <2>1 DEF TypeOK
<1>6. RequestsInv'
  <2>1. \A i, j \in Pos : i \in Nat /\ j \in Nat
    BY PosFacts
  <2>2. \A i \in ForeignSend(p, r) \ sendreqs'[p], j \in sendreqs'[p] : i < j
    <3> SUFFICES ASSUME NEW i \in ForeignSend(p, r) \ sendreqs'[p], NEW j \in sendreqs'[p]
                 PROVE  i < j
      OBVIOUS
    <3>1. sendreqs'[p] = sendreqs[p] \ {e} /\ sendreqs[p] \subseteq Pos
      BY <1>0, <1>2 DEF TypeOK
    <3>2. e \in Nat /\ j \in Nat /\ e <= j /\ e # j
      BY <1>1, <2>1, <3>1
    <3>3. CASE i = e
      BY <3>2, <3>3
    <3>4. CASE i # e
      BY <1>0, <1>1, <3>1, <3>4 DEF RequestsInv
    <3> QED
      BY <3>3, <3>4
  <2> QED
    BY <1>0, <1>1, <1>2, <2>2 DEF RequestsInv, TypeOK
<1>7. \A x \in Rank, k \in Round, i \in Pos :
        Sent(x, k, i)' <=> (Sent(x, k, i) \/ (x = p /\ k = r /\ i = e))
  <2> SUFFICES ASSUME NEW x \in Rank, NEW k \in Round, NEW i \in Pos
               PROVE  Sent(x, k, i)' <=> (Sent(x, k, i) \/ (x = p /\ k = r /\ i = e))
    OBVIOUS
  <2> QED
    BY <1>0, <1>1, <1>2 DEF TypeOK, Sent
<1>8. ~Sent(p, r, e) /\ r \in Nat
  BY <1>0, <1>1, RoundsAssumption DEF Sent, Round
<1>9. \A x \in Rank, k \in Round, i \in Pos :
        InFlight(x, k, i)' <=> (InFlight(x, k, i) \/ (x = p /\ k = r /\ i = e))
  <2> SUFFICES ASSUME NEW x \in Rank, NEW k \in Round, NEW i \in Pos
               PROVE  InFlight(x, k, i)' <=> (InFlight(x, k, i) \/ (x = p /\ k = r /\ i = e))
    OBVIOUS
  <2>1. msg.src = p /\ msg.round = r /\ msg.pos = e
    OBVIOUS
  <2> HIDE DEF msg
  <2> QED
    BY <1>2, <2>1 DEF InFlight
<1>10. MatchInv'
  <2> SUFFICES ASSUME NEW q \in Rank, NEW k \in Round, NEW i \in ForeignRecv(q, k)
               PROVE  (Sent(RecvRank[q][i], k, i)' /\ ~InFlight(RecvRank[q][i], k, i)')
                        <=> (Posted(q, k, i)' /\ ~Waiting(q, k, i)')
    BY DEF MatchInv
  <2> DEFINE x == RecvRank[q][i]
  <2>1. x \in Rank /\ i \in Pos
    BY RecvPartner
  <2> HIDE DEF x
  <2>2. (Sent(x, k, i)' /\ ~InFlight(x, k, i)') <=> (Sent(x, k, i) /\ ~InFlight(x, k, i))
    BY <1>7, <1>8, <1>9, <2>1
  <2>3. (Posted(q, k, i)' <=> Posted(q, k, i)) /\ (Waiting(q, k, i)' <=> Waiting(q, k, i))
    BY <1>2 DEF Posted, Waiting
  <2>4. (Sent(x, k, i) /\ ~InFlight(x, k, i)) <=> (Posted(q, k, i) /\ ~Waiting(q, k, i))
    BY <1>0 DEF MatchInv, x
  <2> QED
    BY <2>2, <2>3, <2>4 DEF x
<1>11. InflightInv'
  <2>0. msg.src = p /\ msg.round = r /\ msg.pos = e /\ msg.dst = SendRank[p][e]
    OBVIOUS
  <2>1. ASSUME NEW m \in inflight'
        PROVE  /\ m.pos \in ForeignSend(m.src, m.round)
               /\ m.dst = SendRank[m.src][m.pos]
               /\ Sent(m.src, m.round, m.pos)'
               /\ ~m.eager => /\ m.round = round'[m.src]
                              /\ pc'[m.src] \in {"isend", "irecv", "pollsends"}
    <3>1. CASE m \in inflight
      <4>1. m.src \in Rank /\ m.round \in Round /\ m.pos \in Pos
        BY <1>0, <3>1 DEF TypeOK, Message
      <4>2. /\ m.pos \in ForeignSend(m.src, m.round)
            /\ m.dst = SendRank[m.src][m.pos]
            /\ Sent(m.src, m.round, m.pos)
            /\ ~m.eager => /\ m.round = round[m.src]
                           /\ pc[m.src] \in {"isend", "irecv", "pollsends"}
        BY <1>0, <3>1 DEF InflightInv
      <4>3. Sent(m.src, m.round, m.pos)'
        BY <1>7, <4>1, <4>2
      <4> QED
        BY <1>2, <4>2, <4>3
    <3>2. CASE m = msg
      <4>1. /\ m.src \in Rank /\ m.round \in Round /\ m.pos \in Pos
            /\ m.src = p /\ m.round = r /\ m.pos = e
        BY <1>1, <2>0, <3>2
      <4>2. Sent(m.src, m.round, m.pos)'
        BY <1>7, <4>1
      <4> QED
        BY <1>1, <1>2, <1>3, <2>0, <3>2, <4>2
    <3> QED
      BY <1>2, <3>1, <3>2
  <2>2. ASSUME NEW m \in inflight', NEW n \in inflight',
               m.src = n.src /\ m.pos = n.pos /\ m.round = n.round
        PROVE  m = n
    <3>1. \A o \in inflight : ~(o.src = p /\ o.pos = e /\ o.round = r)
      BY <1>0, <1>8 DEF InflightInv
    <3> HIDE DEF msg
    <3> QED
      BY <1>0, <1>2, <2>0, <2>2, <3>1 DEF InflightInv
  <2> QED
    BY <2>1, <2>2 DEF InflightInv
<1>12. PostedInv' /\ SendBufInv' /\ RecvBufInv'
  <2>1. PostedInv'
    BY <1>0, <1>2 DEF PostedInv, Posted
  <2>2. SendBufInv'
    BY <1>0, <1>2 DEF SendBufInv, Idle
  <2>3. RecvBufInv'
    BY <1>0, <1>2 DEF RecvBufInv, LastDone, Idle, Posted, Waiting
  <2> QED
    BY <2>1, <2>2, <2>3
<1> QED
  BY <1>5, <1>6, <1>10, <1>11, <1>12 DEF Inv

LEMMA IrecvInv ==
  ASSUME Inv, NEW q \in Rank, NEW e \in recvreqs[q], Irecv(q, e)
  PROVE  Inv'
<1> DEFINE r == round[q]
           req == [src |-> RecvRank[q][e], dst |-> q, pos |-> e, round |-> r]
<1>0. /\ TypeOK /\ RequestsInv /\ InflightInv /\ PostedInv /\ MatchInv
      /\ SendBufInv /\ RecvBufInv
  BY DEF Inv
<1>1. /\ r \in Round /\ pc[q] = "irecv" /\ e \in Pos
      /\ \A j \in recvreqs[q] : e <= j
  BY <1>0, RoundsAssumption DEF TypeOK, Round, Irecv
<1>2. /\ posted' = posted \cup {req}
      /\ recvreqs' = [recvreqs EXCEPT ![q] = @ \ {e}]
      /\ UNCHANGED <<pc, round, sendreqs, sbuf, rbuf, inflight>>
  BY DEF Irecv
<1>3. e \in ForeignRecv(q, r)
  BY <1>0, <1>1 DEF RequestsInv
<1>4. RecvRank[q][e] \in Rank
  BY <1>1, <1>3, RecvPartner
<1>5. TypeOK'
  <2>1. req \in Receive
    BY <1>1, <1>4 DEF Receive
  <2> QED
    BY <1>0, <1>2, <2>1 DEF TypeOK
<1>6. RequestsInv'
  <2>1. \A i, j \in Pos : i \in Nat /\ j \in Nat
    BY PosFacts
  <2>2. \A i \in ForeignRecv(q, r) \ recvreqs'[q], j \in recvreqs'[q] : i < j
    <3> SUFFICES ASSUME NEW i \in ForeignRecv(q, r) \ recvreqs'[q], NEW j \in recvreqs'[q]
                 PROVE  i < j
      OBVIOUS
    <3>1. recvreqs'[q] = recvreqs[q] \ {e} /\ recvreqs[q] \subseteq Pos
      BY <1>0, <1>2 DEF TypeOK
    <3>2. e \in Nat /\ j \in Nat /\ e <= j /\ e # j
      BY <1>1, <2>1, <3>1
    <3>3. CASE i = e
      BY <3>2, <3>3
    <3>4. CASE i # e
      BY <1>0, <1>1, <3>1, <3>4 DEF RequestsInv
    <3> QED
      BY <3>3, <3>4
  <2> QED
    BY <1>0, <1>1, <1>2, <2>2 DEF RequestsInv, TypeOK
<1>7. \A x \in Rank, k \in Round, i \in Pos :
        Posted(x, k, i)' <=> (Posted(x, k, i) \/ (x = q /\ k = r /\ i = e))
  <2> SUFFICES ASSUME NEW x \in Rank, NEW k \in Round, NEW i \in Pos
               PROVE  Posted(x, k, i)' <=> (Posted(x, k, i) \/ (x = q /\ k = r /\ i = e))
    OBVIOUS
  <2> QED
    BY <1>0, <1>1, <1>2 DEF TypeOK, Posted
<1>8. ~Posted(q, r, e) /\ r \in Nat
  BY <1>0, <1>1, RoundsAssumption DEF Posted, Round
<1>9. \A x \in Rank, k \in Round, i \in Pos :
        Waiting(x, k, i)' <=> (Waiting(x, k, i) \/ (x = q /\ k = r /\ i = e))
  <2> SUFFICES ASSUME NEW x \in Rank, NEW k \in Round, NEW i \in Pos
               PROVE  Waiting(x, k, i)' <=> (Waiting(x, k, i) \/ (x = q /\ k = r /\ i = e))
    OBVIOUS
  <2>1. req.dst = q /\ req.round = r /\ req.pos = e
    OBVIOUS
  <2> HIDE DEF req
  <2> QED
    BY <1>2, <2>1 DEF Waiting
<1>10. \A x \in Rank, k \in Round, i \in Pos :
         (Posted(x, k, i)' /\ ~Waiting(x, k, i)') <=> (Posted(x, k, i) /\ ~Waiting(x, k, i))
  BY <1>7, <1>8, <1>9
<1>11. MatchInv'
  <2> SUFFICES ASSUME NEW x \in Rank, NEW k \in Round, NEW i \in ForeignRecv(x, k)
               PROVE  (Sent(RecvRank[x][i], k, i)' /\ ~InFlight(RecvRank[x][i], k, i)')
                        <=> (Posted(x, k, i)' /\ ~Waiting(x, k, i)')
    BY DEF MatchInv
  <2> DEFINE y == RecvRank[x][i]
  <2>1. i \in Pos
    BY RecvPartner
  <2> HIDE DEF y
  <2>2. (Sent(y, k, i)' <=> Sent(y, k, i)) /\ (InFlight(y, k, i)' <=> InFlight(y, k, i))
    BY <1>2 DEF Sent, InFlight
  <2>3. (Sent(y, k, i) /\ ~InFlight(y, k, i)) <=> (Posted(x, k, i) /\ ~Waiting(x, k, i))
    BY <1>0 DEF MatchInv, y
  <2> QED
    BY <1>10, <2>1, <2>2, <2>3 DEF y
<1>12. PostedInv'
  <2> SUFFICES ASSUME NEW b \in posted'
               PROVE  /\ b.pos \in ForeignRecv(b.dst, b.round)
                      /\ b.src = RecvRank[b.dst][b.pos]
                      /\ Posted(b.dst, b.round, b.pos)'
                      /\ b.round = round'[b.dst]
                      /\ pc'[b.dst] \in {"irecv", "pollsends", "pollrecvs"}
    BY DEF PostedInv
  <2>1. CASE b \in posted
    <3>1. b.dst \in Rank /\ b.round \in Round /\ b.pos \in Pos
      BY <1>0, <2>1 DEF TypeOK, Receive
    <3>2. /\ b.pos \in ForeignRecv(b.dst, b.round)
          /\ b.src = RecvRank[b.dst][b.pos]
          /\ Posted(b.dst, b.round, b.pos)
          /\ b.round = round[b.dst]
          /\ pc[b.dst] \in {"irecv", "pollsends", "pollrecvs"}
      BY <1>0, <2>1 DEF PostedInv
    <3>3. Posted(b.dst, b.round, b.pos)'
      BY <1>7, <3>1, <3>2
    <3> QED
      BY <1>2, <3>2, <3>3
  <2>2. CASE b = req
    <3>1. /\ b.dst \in Rank /\ b.round \in Round /\ b.pos \in Pos
          /\ b.dst = q /\ b.round = r /\ b.pos = e /\ b.src = RecvRank[q][e]
      BY <1>1, <2>2
    <3>2. Posted(b.dst, b.round, b.pos)'
      BY <1>7, <3>1
    <3> QED
      BY <1>1, <1>2, <1>3, <3>1, <3>2
  <2> QED
    BY <1>2, <2>1, <2>2
<1>13. InflightInv' /\ SendBufInv'
  <2>1. InflightInv'
    BY <1>0, <1>2 DEF InflightInv, Sent
  <2>2. SendBufInv'
    BY <1>0, <1>2 DEF SendBufInv, Idle
  <2> QED
    BY <2>1, <2>2
<1>14. RecvBufInv'
  <2> SUFFICES ASSUME NEW x \in Rank, NEW k \in Round, k = LastDone(x)', NEW i \in UsedRecv(k, x),
                      i \in LocalRecvs(x, k) \/ (Posted(x, k, i)' /\ ~Waiting(x, k, i)')
               PROVE  rbuf'[x][i] = [from |-> RecvRank[x][i], pos |-> i, round |-> k]
    BY DEF RecvBufInv
  <2>1. i \in Pos /\ k = LastDone(x) /\ rbuf' = rbuf
    BY <1>2, UsedFacts DEF LastDone, Idle
  <2>2. i \in LocalRecvs(x, k) \/ (Posted(x, k, i) /\ ~Waiting(x, k, i))
    BY <1>10, <2>1
  <2> QED
    BY <1>0, <2>1, <2>2 DEF RecvBufInv
<1> QED
  BY <1>5, <1>6, <1>11, <1>12, <1>13, <1>14 DEF Inv

LEMMA PollRecvsInv ==
  ASSUME Inv, NEW p \in Rank, PollRecvs(p)
  PROVE  Inv'
<1> DEFINE r == round[p]
<1>0. /\ TypeOK /\ RequestsInv /\ InflightInv /\ PostedInv /\ MatchInv
      /\ SendBufInv /\ RecvBufInv
  BY DEF Inv
<1>a. pc[p] = "pollrecvs" /\ OpenRecvs(p) = {} /\ Rounds \in Nat
  BY RoundsAssumption DEF PollRecvs
<1>b. r \in 1..Rounds+1 /\ r # Rounds+1
  BY <1>0, <1>a DEF TypeOK
<1>1. /\ r \in Round /\ pc[p] = "pollrecvs" /\ OpenRecvs(p) = {}
      /\ r \in Nat /\ r > 0 /\ Rounds \in Nat /\ r <= Rounds
  BY <1>a, <1>b DEF Round
<1>2. /\ round' = [round EXCEPT ![p] = r + 1]
      /\ pc' = [pc EXCEPT ![p] = IF r = Rounds THEN "done" ELSE "queue"]
      /\ UNCHANGED <<sendreqs, recvreqs, sbuf, rbuf, inflight, posted>>
  BY DEF PollRecvs
<1>3. TypeOK'
  <2>1. r+1 \in 1..Rounds+1 /\ (r+1 = Rounds+1 <=> r = Rounds)
    BY <1>1
  <2>2. round' \in [Rank -> 1..Rounds+1]
    BY <1>0, <1>2, <2>1 DEF TypeOK
  <2>3. \A x \in Rank : round'[x] = Rounds+1 <=> pc'[x] = "done"
    BY <1>0, <1>2, <2>1 DEF TypeOK
  <2> QED
    BY <1>0, <1>2, <2>2, <2>3 DEF TypeOK
<1>4. RequestsInv'
  BY <1>0, <1>1, <1>2 DEF RequestsInv, TypeOK
<1>c. \A k \in Round : k \in Nat /\ (k < r+1 <=> (k < r \/ k = r))
  BY <1>1 DEF Round
<1>d. r+1 \in Nat /\ round'[p] = r+1 /\ pc'[p] \in {"done", "queue"}
      /\ \A x \in Rank \ {p} : round'[x] = round[x] /\ pc'[x] = pc[x]
  BY <1>0, <1>1, <1>2 DEF TypeOK
<1>5. /\ \A x \in Rank, k \in Round, i \in Pos : Sent(x, k, i)' <=> Sent(x, k, i)
      /\ \A x \in Rank, k \in Round, i \in Pos : Posted(x, k, i)' <=> Posted(x, k, i)
  <2>1. ASSUME NEW x \in Rank, NEW k \in Round, NEW i \in Pos
        PROVE  Sent(x, k, i)' <=> Sent(x, k, i)
    <3>1. CASE x = p
      BY <1>1, <1>c, <1>d, <3>1 DEF Sent
    <3>2. CASE x # p
      BY <1>2, <1>d, <3>2 DEF Sent
    <3> QED
      BY <3>1, <3>2
  <2>2. ASSUME NEW x \in Rank, NEW k \in Round, NEW i \in Pos
        PROVE  Posted(x, k, i)' <=> Posted(x, k, i)
    <3>1. CASE x = p
      BY <1>1, <1>c, <1>d, <3>1 DEF Posted
    <3>2. CASE x # p
      BY <1>2, <1>d, <3>2 DEF Posted
    <3> QED
      BY <3>1, <3>2
  <2> QED
    BY <2>1, <2>2
<1>6. SameTasks
  BY <1>5, SendPartner, RecvPartner DEF SameTasks
<1>7. MatchInv'
  BY <1>0, <1>2, <1>6, MatchFrame
<1>8. InflightInv'
  <2>1. ASSUME NEW m \in inflight'
        PROVE  /\ m.pos \in ForeignSend(m.src, m.round)
               /\ m.dst = SendRank[m.src][m.pos]
               /\ Sent(m.src, m.round, m.pos)'
               /\ ~m.eager => /\ m.round = round'[m.src]
                              /\ pc'[m.src] \in {"isend", "irecv", "pollsends"}
    <3>1. m \in inflight /\ m.src \in Rank /\ m.round \in Round
      BY <1>0, <1>2 DEF TypeOK, Message
    <3>2. /\ m.pos \in ForeignSend(m.src, m.round)
          /\ m.dst = SendRank[m.src][m.pos]
          /\ Sent(m.src, m.round, m.pos)
          /\ ~m.eager => /\ m.round = round[m.src]
                         /\ pc[m.src] \in {"isend", "irecv", "pollsends"}
      BY <1>0, <3>1 DEF InflightInv
    <3>3. Sent(m.src, m.round, m.pos)'
      BY <1>6, <3>1, <3>2 DEF SameTasks
    <3> QED
      BY <1>0, <1>1, <1>2, <3>1, <3>2, <3>3 DEF TypeOK
  <2>2. \A m, n \in inflight' :
          m.src = n.src /\ m.pos = n.pos /\ m.round = n.round => m = n
    BY <1>0, <1>2 DEF InflightInv
  <2> QED
    BY <2>1, <2>2 DEF InflightInv
<1>9. PostedInv'
  <2> SUFFICES ASSUME NEW b \in posted'
               PROVE  /\ b.pos \in ForeignRecv(b.dst, b.round)
                      /\ b.src = RecvRank[b.dst][b.pos]
                      /\ Posted(b.dst, b.round, b.pos)'
                      /\ b.round = round'[b.dst]
                      /\ pc'[b.dst] \in {"irecv", "pollsends", "pollrecvs"}
    BY DEF PostedInv
  <2>1. b \in posted /\ b.dst \in Rank /\ b.round \in Round /\ b.dst # p
    BY <1>0, <1>1, <1>2 DEF TypeOK, Receive, OpenRecvs
  <2>2. /\ b.pos \in ForeignRecv(b.dst, b.round)
        /\ b.src = RecvRank[b.dst][b.pos]
        /\ Posted(b.dst, b.round, b.pos)
        /\ b.round = round[b.dst]
        /\ pc[b.dst] \in {"irecv", "pollsends", "pollrecvs"}
    BY <1>0, <2>1 DEF PostedInv
  <2>3. Posted(b.dst, b.round, b.pos)'
    BY <1>6, <2>1, <2>2 DEF SameTasks
  <2> QED
    BY <1>0, <1>2, <2>1, <2>2, <2>3 DEF TypeOK
<1>10. SendBufInv'
  BY <1>0, <1>1, <1>2 DEF SendBufInv, TypeOK, Idle
<1>11. RecvBufInv'
  <2> SUFFICES ASSUME NEW q \in Rank, NEW k \in Round, k = LastDone(q)', NEW i \in UsedRecv(k, q),
                      i \in LocalRecvs(q, k) \/ (Posted(q, k, i)' /\ ~Waiting(q, k, i)')
               PROVE  rbuf'[q][i] = [from |-> RecvRank[q][i], pos |-> i, round |-> k]
    BY DEF RecvBufInv
  <2>1. k = LastDone(q) /\ rbuf' = rbuf
    BY <1>0, <1>1, <1>2 DEF TypeOK, LastDone, Idle
  <2>2. Waiting(q, k, i)' <=> Waiting(q, k, i)
    BY <1>2 DEF Waiting
  <2>3. Posted(q, k, i)' <=> Posted(q, k, i)
    BY <1>5, UsedFacts
  <2> QED
    BY <1>0, <2>1, <2>2, <2>3 DEF RecvBufInv
<1> QED
  BY <1>3, <1>4, <1>7, <1>8, <1>9, <1>10, <1>11 DEF Inv

-----------------------------------------------------------------------------
(* The tasks between two processes are handed to MPI in order. *)
LEMMA SentDownward ==
  ASSUME TypeOK, RequestsInv, NEW p \in Rank, NEW r \in Round, NEW k \in Round,
         NEW i \in ForeignSend(p, r), NEW j \in ForeignSend(p, k),
         Sent(p, r, i), k < r \/ (k = r /\ j < i)
  PROVE  Sent(p, k, j)
<1>1. r \in Nat /\ k \in Nat /\ round[p] \in Nat /\ i \in Nat /\ j \in Nat
  BY RoundsAssumption, SendPartner, PosFacts DEF Round, TypeOK
<1>2. CASE k < r
  BY <1>1, <1>2 DEF Sent
<1>3. CASE k = r /\ j < i
  <2>1. CASE r = round[p] /\ pc[p] = "isend" /\ i \notin sendreqs[p]
    <3>1. j \notin sendreqs[p]
      BY <1>1, <1>3, <2>1 DEF RequestsInv
    <3> QED
      BY <1>3, <2>1, <3>1 DEF Sent
  <2>2. CASE ~(r = round[p] /\ pc[p] = "isend" /\ i \notin sendreqs[p])
    BY <1>3, <2>2 DEF Sent
  <2> QED
    BY <2>1, <2>2
<1> QED
  BY <1>2, <1>3

LEMMA PostedDownward ==
  ASSUME TypeOK, RequestsInv, NEW q \in Rank, NEW r \in Round, NEW k \in Round,
         NEW i \in ForeignRecv(q, r), NEW j \in ForeignRecv(q, k),
         Posted(q, r, i), k < r \/ (k = r /\ j < i)
  PROVE  Posted(q, k, j)
<1>1. r \in Nat /\ k \in Nat /\ round[q] \in Nat /\ i \in Nat /\ j \in Nat
  BY RoundsAssumption, RecvPartner, PosFacts DEF Round, TypeOK
<1>2. CASE k < r
  BY <1>1, <1>2 DEF Posted
<1>3. CASE k = r /\ j < i
  <2>1. CASE r = round[q] /\ pc[q] = "irecv" /\ i \notin recvreqs[q]
    <3>1. j \notin recvreqs[q]
      BY <1>1, <1>3, <2>1 DEF RequestsInv
    <3> QED
      BY <1>3, <2>1, <3>1 DEF Posted
  <2>2. CASE ~(r = round[q] /\ pc[q] = "irecv" /\ i \notin recvreqs[q])
    BY <1>3, <2>2 DEF Posted
  <2> QED
    BY <2>1, <2>2
<1> QED
  BY <1>2, <1>3

(* The first message between two processes and the first receive belong to *)
(* the same position of the same round.                                    *)
LEMMA SameTask ==
  ASSUME Inv, NEW m \in inflight, NEW b \in posted,
         m.src = b.src, m.dst = b.dst, First(m, inflight), First(b, posted)
  PROVE  m.pos = b.pos /\ m.round = b.round
<1>0. TypeOK /\ RequestsInv /\ InflightInv /\ PostedInv /\ MatchInv
  BY DEF Inv
<1> DEFINE p == m.src
           q == m.dst
<1>1. /\ p \in Rank /\ q \in Rank /\ m.pos \in Pos /\ m.round \in Round
      /\ b.pos \in Pos /\ b.round \in Round
  BY <1>0 DEF TypeOK, Message, Receive
<1>2. /\ m.pos \in ForeignSend(p, m.round) /\ q = SendRank[p][m.pos]
      /\ Sent(p, m.round, m.pos)
  BY <1>0 DEF InflightInv
<1>3. /\ b.pos \in ForeignRecv(q, b.round) /\ p = RecvRank[q][b.pos]
      /\ Posted(q, b.round, b.pos)
  BY <1>0 DEF PostedInv
<1>4. m.pos \in ForeignRecv(q, m.round) /\ p = RecvRank[q][m.pos]
  BY <1>1, <1>2, ForeignTasks
<1>5. b.pos \in ForeignSend(p, b.round) /\ q = SendRank[p][b.pos]
  BY <1>1, <1>3, ForeignTasks
<1>6. InFlight(p, m.round, m.pos) /\ Waiting(q, b.round, b.pos)
  BY DEF InFlight, Waiting
<1>7. Posted(q, m.round, m.pos) => Waiting(q, m.round, m.pos)
  BY <1>0, <1>1, <1>4, <1>6 DEF MatchInv
<1>8. Sent(p, b.round, b.pos) => InFlight(p, b.round, b.pos)
  BY <1>0, <1>1, <1>3, <1>6 DEF MatchInv
<1>9. /\ m.pos \in Nat /\ b.pos \in Nat /\ m.round \in Nat /\ b.round \in Nat
  BY <1>1, PosFacts, RoundsAssumption DEF Round
<1>10. ASSUME m.round < b.round \/ (m.round = b.round /\ m.pos < b.pos)
       PROVE  FALSE
  <2>1. Posted(q, m.round, m.pos)
    BY <1>0, <1>1, <1>3, <1>4, <1>10, PostedDownward
  <2>2. PICK c \in posted : c.dst = q /\ c.round = m.round /\ c.pos = m.pos
    BY <1>7, <2>1 DEF Waiting
  <2>3. c.src = b.src /\ c.dst = b.dst
    BY <1>0, <1>4, <2>2 DEF PostedInv
  <2>4. c # b
    BY <1>9, <1>10, <2>2
  <2>5. Before(b, c)
    BY <2>3, <2>4 DEF First
  <2> QED
    BY <1>9, <1>10, <2>2, <2>5 DEF Before
<1>11. ASSUME b.round < m.round \/ (b.round = m.round /\ b.pos < m.pos)
       PROVE  FALSE
  <2>1. Sent(p, b.round, b.pos)
    BY <1>0, <1>1, <1>2, <1>5, <1>11, SentDownward
  <2>2. PICK n \in inflight : n.src = p /\ n.round = b.round /\ n.pos = b.pos
    BY <1>8, <2>1 DEF InFlight
  <2>3. n.src = m.src /\ n.dst = m.dst
    BY <1>0, <1>5, <2>2 DEF InflightInv
  <2>4. n # m
    BY <1>9, <1>11, <2>2
  <2>5. Before(m, n)
    BY <2>3, <2>4 DEF First
  <2> QED
    BY <1>9, <1>11, <2>2, <2>5 DEF Before
<1> QED
  BY <1>9, <1>10, <1>11

LEMMA DeliverInv ==
  ASSUME Inv, NEW m \in inflight, NEW b \in posted, Deliver(m, b)
  PROVE  Inv'
<1>0. /\ TypeOK /\ RequestsInv /\ InflightInv /\ PostedInv /\ MatchInv
      /\ SendBufInv /\ RecvBufInv
  BY DEF Inv
<1> DEFINE p == m.src
           q == m.dst
           r == m.round
           e == m.pos
<1>1. /\ p \in Rank /\ q \in Rank /\ e \in Pos /\ r \in Round
      /\ b.src = p /\ b.dst = q /\ b.pos = e /\ b.round = r
  BY <1>0, SameTask DEF TypeOK, Message, Deliver
<1>2. /\ inflight' = inflight \ {m} /\ posted' = posted \ {b}
      /\ UNCHANGED <<pc, round, sendreqs, recvreqs, sbuf>>
  BY DEF Deliver
<1>3. (IF m.eager THEN m.round ELSE sbuf[p][e]) = r
  <2>1. CASE ~m.eager
    <3>1. r = round[p] /\ pc[p] \in {"isend", "irecv", "pollsends"} /\ e \in ForeignSend(p, r)
      BY <1>0, <2>1 DEF InflightInv
    <3>2. e \in Used[r][p] /\ ~Idle(p)
      BY <3>1 DEF ForeignSend, Idle
    <3> QED
      BY <1>0, <1>1, <2>1, <3>1, <3>2 DEF SendBufInv
  <2> QED
    BY <2>1
<1>4. rbuf' = [rbuf EXCEPT ![q][e] = [from |-> p, pos |-> e, round |-> r]]
  BY <1>1, <1>3 DEF Deliver
<1>5. e \in ForeignRecv(q, r) /\ p = RecvRank[q][e] /\ q = SendRank[p][e]
      /\ e \in ForeignSend(p, r) /\ Posted(q, r, e) /\ Sent(p, r, e)
      /\ r = round[q] /\ ~Idle(q)
  <2>1. e \in ForeignSend(p, r) /\ q = SendRank[p][e] /\ Sent(p, r, e)
    BY <1>0 DEF InflightInv
  <2>2. /\ b.pos \in ForeignRecv(b.dst, b.round) /\ b.src = RecvRank[b.dst][b.pos]
        /\ Posted(b.dst, b.round, b.pos) /\ b.round = round[b.dst]
        /\ pc[b.dst] \in {"irecv", "pollsends", "pollrecvs"}
    BY <1>0 DEF PostedInv
  <2> QED
    BY <1>1, <2>1, <2>2 DEF Idle
<1>6. TypeOK'
  <2>1. [from |-> p, pos |-> e, round |-> r] \in Data
    BY <1>1 DEF Data
  <2>2. rbuf' \in [Rank -> [Pos -> Data \cup {Empty}]]
    BY <1>0, <1>1, <1>4, <2>1 DEF TypeOK
  <2> QED
    BY <1>0, <1>2, <2>2 DEF TypeOK
<1>7. RequestsInv' /\ SendBufInv'
  <2>1. RequestsInv'
    BY <1>0, <1>2 DEF RequestsInv
  <2>2. SendBufInv'
    BY <1>0, <1>2 DEF SendBufInv, Idle
  <2> QED
    BY <2>1, <2>2
<1>8. InflightInv' /\ PostedInv'
  <2>1. InflightInv'
    BY <1>0, <1>2 DEF InflightInv, Sent
  <2>2. PostedInv'
    BY <1>0, <1>2 DEF PostedInv, Posted
  <2> QED
    BY <2>1, <2>2
<1>9. \A x \in Rank, k \in Round, i \in Pos :
        InFlight(x, k, i)' <=> (InFlight(x, k, i) /\ ~(x = p /\ k = r /\ i = e))
  <2> SUFFICES ASSUME NEW x \in Rank, NEW k \in Round, NEW i \in Pos
               PROVE  InFlight(x, k, i)' <=> (InFlight(x, k, i) /\ ~(x = p /\ k = r /\ i = e))
    OBVIOUS
  <2>1. \A n \in inflight : n.src = p /\ n.round = r /\ n.pos = e => n = m
    BY <1>0 DEF InflightInv
  <2> QED
    BY <1>2, <2>1 DEF InFlight
<1>10. \A x \in Rank, k \in Round, i \in Pos :
        Waiting(x, k, i)' <=> (Waiting(x, k, i) /\ ~(x = q /\ k = r /\ i = e))
  <2> SUFFICES ASSUME NEW x \in Rank, NEW k \in Round, NEW i \in Pos
               PROVE  Waiting(x, k, i)' <=> (Waiting(x, k, i) /\ ~(x = q /\ k = r /\ i = e))
    OBVIOUS
  <2>1. ASSUME NEW c \in posted, c.dst = q, c.round = r, c.pos = e
        PROVE  c = b
    <3>1. c.src = p
      BY <1>0, <1>5, <2>1 DEF PostedInv
    <3>2. c \in Receive /\ b \in Receive
      BY <1>0 DEF TypeOK
    <3> QED
      BY <1>1, <2>1, <3>1, <3>2 DEF Receive
  <2> QED
    BY <1>1, <1>2, <2>1 DEF Waiting
<1>11. MatchInv'
  <2> SUFFICES ASSUME NEW x \in Rank, NEW k \in Round, NEW i \in ForeignRecv(x, k)
               PROVE  (Sent(RecvRank[x][i], k, i)' /\ ~InFlight(RecvRank[x][i], k, i)')
                        <=> (Posted(x, k, i)' /\ ~Waiting(x, k, i)')
    BY DEF MatchInv
  <2> DEFINE y == RecvRank[x][i]
  <2>1. i \in Pos /\ y \in Rank /\ SendRank[y][i] = x
    BY RecvPartner
  <2>2. (y = p /\ k = r /\ i = e) <=> (x = q /\ k = r /\ i = e)
    BY <1>5, <2>1
  <2>3. (Sent(y, k, i) /\ ~InFlight(y, k, i)) <=> (Posted(x, k, i) /\ ~Waiting(x, k, i))
    BY <1>0 DEF MatchInv
  <2> HIDE DEF y, p, q, r, e
  <2>4. (Sent(y, k, i)' <=> Sent(y, k, i)) /\ (Posted(x, k, i)' <=> Posted(x, k, i))
    BY <1>2 DEF Sent, Posted
  <2>5. CASE y = p /\ k = r /\ i = e
    BY <1>5, <1>9, <1>10, <2>1, <2>2, <2>4, <2>5
  <2>6. CASE ~(y = p /\ k = r /\ i = e)
    BY <1>9, <1>10, <2>1, <2>2, <2>3, <2>4, <2>6 DEF y
  <2> QED
    BY <2>5, <2>6 DEF y
<1>12. RecvBufInv'
  <2> SUFFICES ASSUME NEW x \in Rank, NEW k \in Round, k = LastDone(x)', NEW i \in UsedRecv(k, x),
                      i \in LocalRecvs(x, k) \/ (Posted(x, k, i)' /\ ~Waiting(x, k, i)')
               PROVE  rbuf'[x][i] = [from |-> RecvRank[x][i], pos |-> i, round |-> k]
    BY DEF RecvBufInv
  <2>1. i \in Pos /\ k = LastDone(x)
    BY <1>2, UsedFacts DEF LastDone, Idle
  <2>2. CASE x = q /\ i = e
    <3>1. k = r
      BY <1>5, <2>1, <2>2 DEF LastDone
    <3> QED
      BY <1>0, <1>1, <1>4, <1>5, <2>2, <3>1 DEF TypeOK
  <2>3. CASE ~(x = q /\ i = e)
    <3>1. rbuf'[x][i] = rbuf[x][i]
      BY <1>0, <1>1, <1>4, <2>1, <2>3 DEF TypeOK
    <3>2. i \in LocalRecvs(x, k) \/ (Posted(x, k, i)' <=> Posted(x, k, i))
      BY <1>2 DEF Posted
    <3>3. Waiting(x, k, i)' <=> Waiting(x, k, i)
      BY <1>10, <2>1, <2>3
    <3> QED
      BY <1>0, <2>1, <3>1, <3>2, <3>3 DEF RecvBufInv
  <2> QED
    BY <2>2, <2>3
<1> QED
  BY <1>6, <1>7, <1>8, <1>11, <1>12 DEF Inv

-----------------------------------------------------------------------------
(* Inv is an inductive invariant of the exchange. *)
THEOREM Invariance == Spec => []Inv
<1>1. Inv /\ [Next]_vars => Inv'
  <2> SUFFICES ASSUME Inv, [Next]_vars PROVE Inv'
    OBVIOUS
  <2>1. ASSUME NEW p \in Rank, Process(p) PROVE Inv'
    BY <2>1, QueueInv, IsendInv, IrecvInv, PcStepInv, PollRecvsInv DEF Process
  <2>2. ASSUME Network PROVE Inv'
    BY <2>2, DeliverInv DEF Network
  <2>3. CASE UNCHANGED vars
    BY <2>3 DEF vars, Inv, TypeOK, RequestsInv, InflightInv, PostedInv, MatchInv, SendBufInv,
                RecvBufInv, Sent, Posted, InFlight, Waiting, LastDone, Idle
  <2> QED
    BY <2>1, <2>2, <2>3 DEF Next, Finished
<1> QED
  BY <1>1, InitInv, PTL DEF Spec

(* Type correctness; in particular exchange() never takes its error return.*)
THEOREM TypeCorrect == Spec => []TypeOK
<1>1. Inv => TypeOK
  BY DEF Inv
<1> QED
  BY <1>1, Invariance, PTL

(* Messages of one tag between the same processes are never mixed up, over *)
(* any number of exchanges without a barrier in between: what a process    *)
(* finds in a receive buffer is what the neighbour sent for the opposite   *)
(* position of its own lists, in the same exchange.                        *)
THEOREM DeliveredCorrect == Spec => []Delivered
<1>1. Inv => Delivered
  <2> SUFFICES ASSUME Inv, NEW q \in Rank, Idle(q), round[q] > 1, NEW i \in UsedRecv(round[q]-1, q)
               PROVE  rbuf[q][i] = [from |-> RecvRank[q][i], pos |-> i, round |-> round[q]-1]
    BY DEF Delivered
  <2> DEFINE r == round[q]-1
  <2>1. r \in Round /\ r = LastDone(q) /\ r < round[q]
    BY RoundsAssumption DEF Inv, TypeOK, Round, LastDone
  <2>2. Posted(q, r, i)
    BY <2>1 DEF Posted
  <2>3. ~Waiting(q, r, i)
    BY DEF Inv, PostedInv, Waiting, Idle
  <2> QED
    BY <2>1, <2>2, <2>3 DEF Inv, RecvBufInv
<1> QED
  BY <1>1, Invariance, PTL

(* Between two exchanges MPI uses none of the caller's buffers. *)
THEOREM BuffersFreeCorrect == Spec => []BuffersFree
<1>1. Inv => BuffersFree
  <2> SUFFICES ASSUME Inv, NEW p \in Rank, Idle(p)
               PROVE  OpenSends(p) = {} /\ OpenRecvs(p) = {}
    BY DEF BuffersFree
  <2>1. OpenSends(p) = {}
    BY DEF Inv, InflightInv, OpenSends, Idle
  <2>2. OpenRecvs(p) = {}
    BY DEF Inv, PostedInv, OpenRecvs, Idle
  <2> QED
    BY <2>1, <2>2
<1> QED
  BY <1>1, Invariance, PTL

(* Messages alone keep neighbours within one round of each other. *)
THEOREM RoundSkewCorrect == Spec => []RoundSkew
<1>1. Inv => RoundSkew
  <2> SUFFICES ASSUME Inv, NEW q \in Rank, NEW r \in Round, round[q] > r,
                      NEW i \in UsedRecv(r, q)
               PROVE  \/ round[RecvRank[q][i]] > r
                      \/ round[RecvRank[q][i]] = r /\ pc[RecvRank[q][i]] # "queue"
    BY DEF RoundSkew
  <2> DEFINE p == RecvRank[q][i]
  <2>1. round[q] \in Nat /\ r \in Nat
    BY RoundsAssumption DEF Inv, TypeOK, Round
  <2>2. CASE i \in LocalRecvs(q, r)
    BY <2>1, <2>2 DEF LocalRecvs
  <2>3. CASE i \in ForeignRecv(q, r)
    <3>1. Posted(q, r, i) /\ ~Waiting(q, r, i)
      <4>1. Posted(q, r, i)
        BY <2>1 DEF Posted
      <4>2. ~Waiting(q, r, i)
        BY <2>1 DEF Inv, PostedInv, Waiting
      <4> QED
        BY <4>1, <4>2
    <3>2. Sent(p, r, i)
      BY <2>3, <3>1 DEF Inv, MatchInv
    <3>3. p \in Rank /\ round[p] \in Nat
      BY <2>3, RecvPartner, RoundsAssumption DEF Inv, TypeOK
    <3> HIDE DEF p
    <3>4. round[p] > r \/ (round[p] = r /\ pc[p] # "queue")
      BY <2>1, <3>2, <3>3 DEF Sent
    <3> QED
      BY <3>4 DEF p
  <2> QED
    BY <2>2, <2>3 DEF ForeignRecv
<1> QED
  BY <1>1, Invariance, PTL

-----------------------------------------------------------------------------
(* The exchange implements NeighborExchange: a process enters a round when *)
(* it queues its tasks and returns from it when its last receive is        *)
(* complete; all other steps change nothing that a caller sees.            *)
(* The abstract state, as the refinement mapping of Abstract gives it. *)
Expected == [r \in Round |-> [q \in Rank |-> UsedRecv(r, q)]]
Entered  == [p \in Rank |-> IF Idle(p) THEN round[p]-1 ELSE round[p]]
Returned == [p \in Rank |-> round[p]-1]
Result   == [p \in Rank |-> IF ~Idle(p) THEN "busy"
                            ELSE IF round[p] = 1 THEN <<>>
                            ELSE [i \in UsedRecv(round[p]-1, p) |-> rbuf[p][i]]]

LEMMA EnterStep ==
  ASSUME Inv, NEW p \in Rank, Queue(p)
  PROVE  Abstract!Enter(p)
<1>1. pc[p] = "queue" /\ round[p] \in 1..Rounds /\ Rounds \in Nat
  BY RoundsAssumption DEF Queue, Inv, TypeOK
<1>2. /\ pc' = [pc EXCEPT ![p] = "isend"]
      /\ round' = round
      /\ \A q \in Rank : q # p => rbuf'[q] = rbuf[q]
  <2>1. LocalSends(p, round[p]) = LocalRecvs(p, round[p])
    BY <1>1, LocalTasks DEF Round
  <2> QED
    BY <2>1 DEF Queue, Inv, TypeOK
<1>3. Idle(p) /\ ~Idle(p)' /\ \A q \in Rank : q # p => (Idle(q)' <=> Idle(q))
  BY <1>1, <1>2 DEF Idle, Inv, TypeOK
<1>4. Entered[p] = Returned[p] /\ Entered[p] < Rounds
  BY <1>1, <1>3 DEF Entered, Returned
<1>5. Entered' = [Entered EXCEPT ![p] = @ + 1]
  <2>1. \A q \in Rank : round[q] \in Nat
    BY RoundsAssumption DEF Inv, TypeOK
  <2>2. \A q \in Rank : Entered'[q] = IF q = p THEN Entered[q] + 1 ELSE Entered[q]
    BY <1>1, <1>2, <1>3, <2>1 DEF Entered
  <2> QED
    BY <2>2 DEF Entered
<1>6. Result' = [Result EXCEPT ![p] = "busy"]
  BY <1>1, <1>2, <1>3 DEF Result
<1>7. Returned' = Returned
  BY <1>2 DEF Returned
<1> QED
  BY <1>4, <1>5, <1>6, <1>7
     DEF Abstract!Enter, Abstract!Busy, Entered, Returned, Result

LEMMA ReturnStep ==
  ASSUME Inv, Delivered', RoundSkew', NEW q \in Rank, PollRecvs(q)
  PROVE  Abstract!Return(q)
<1> DEFINE r == round[q]
<1>1. r \in 1..Rounds /\ Rounds \in Nat /\ r \in Round
  <2>1. r \in 1..Rounds+1 /\ r # Rounds+1
    BY DEF PollRecvs, Inv, TypeOK
  <2> QED
    BY <2>1, RoundsAssumption DEF Round
<1>2. /\ ~Idle(q) /\ Idle(q)'
      /\ \A p \in Rank : p # q => (Idle(p)' <=> Idle(p))
      /\ \A p \in Rank : p # q => pc'[p] = pc[p] /\ round'[p] = round[p]
      /\ round' = [round EXCEPT ![q] = @ + 1] /\ round'[q] = r + 1
      /\ rbuf' = rbuf
  BY DEF PollRecvs, Idle, Inv, TypeOK
<1>3. ASSUME NEW i \in UsedRecv(r, q)
      PROVE  LET p == RecvRank[q][i]
             IN  (IF Idle(p) THEN round[p]-1 ELSE round[p]) >= r
  <2> DEFINE p == RecvRank[q][i]
  <2>1. p \in Rank
    BY <1>1, UsedFacts, ListsFit
  <2>2. CASE p = q
    BY <1>1, <1>2, <2>2
  <2>3. CASE p # q
    <3>1. round'[p] > r \/ (round'[p] = r /\ pc'[p] # "queue")
      BY <1>1, <1>2, <2>1 DEF RoundSkew
    <3>2. round[p] \in 1..Rounds+1 /\ (round[p] = Rounds+1 <=> pc[p] = "done")
      BY <2>1 DEF Inv, TypeOK
    <3>3. round[p] > r \/ (round[p] = r /\ ~Idle(p))
      BY <1>1, <1>2, <2>1, <2>3, <3>1, <3>2 DEF Idle
    <3> QED
      BY <1>1, <3>2, <3>3
  <2> QED
    BY <2>2, <2>3
<1>4. \A i \in UsedRecv(r, q) :
        rbuf'[q][i] = [from |-> RecvRank[q][i], pos |-> i, round |-> r]
  BY <1>1, <1>2 DEF Delivered
<1>5. Entered[q] = r /\ Returned[q] = r-1 /\ Entered' = Entered
  <2>1. Entered[q] = r /\ Returned[q] = r-1
    BY <1>2 DEF Entered, Returned
  <2>2. \A p \in Rank : Entered'[p] = Entered[p]
    BY <1>1, <1>2 DEF Entered
  <2> QED
    BY <2>1, <2>2 DEF Entered
<1>6. Returned' = [Returned EXCEPT ![q] = @ + 1]
  <2>1. \A p \in Rank : Returned'[p] = IF p = q THEN Returned[p] + 1 ELSE Returned[p]
    BY <1>1, <1>2 DEF Returned
  <2> QED
    BY <2>1 DEF Returned
<1>7. Result' = [Result EXCEPT ![q] = [i \in UsedRecv(r, q) |->
                    [from |-> RecvRank[q][i], pos |-> i, round |-> r]]]
  <2>1. round'[q] - 1 = r /\ round'[q] # 1
    BY <1>1, <1>2
  <2>2. [i \in UsedRecv(r, q) |-> rbuf'[q][i]]
          = [i \in UsedRecv(r, q) |->
               [from |-> RecvRank[q][i], pos |-> i, round |-> r]]
    BY <1>4
  <2>3. Result'[q] = [i \in UsedRecv(r, q) |->
                        [from |-> RecvRank[q][i], pos |-> i, round |-> r]]
    BY <1>2, <2>1, <2>2 DEF Result
  <2>4. \A p \in Rank : p # q => Result'[p] = Result[p]
    BY <1>2 DEF Result
  <2> QED
    BY <2>3, <2>4 DEF Result
<1>8. \A i \in UsedRecv(r, q) : Entered[RecvRank[q][i]] >= r
  BY <1>1, <1>3, UsedFacts, ListsFit DEF Entered
<1> QED
  <2>1. Expected[Entered[q]][q] = UsedRecv(r, q)
    BY <1>1, <1>5 DEF Expected
  <2>2. Entered[q] = Returned[q] + 1
    BY <1>1, <1>5
  <2> HIDE DEF r
  <2>3. /\ \A i \in Expected[Entered[q]][q] : Entered[RecvRank[q][i]] >= Entered[q]
        /\ Result' = [Result EXCEPT ![q] = [i \in Expected[Entered[q]][q] |->
                        [from |-> RecvRank[q][i], pos |-> i, round |-> Entered[q]]]]
    BY <1>5, <1>7, <1>8, <2>1
  <2> QED
    BY <1>5, <1>6, <2>2, <2>3
       DEF Abstract!Return, Entered, Returned, Result, Expected

(* What a caller sees does not depend on the buffers and requests of a     *)
(* process that is inside exchange().                                      *)
LEMMA StutterStep ==
  ASSUME UNCHANGED round,
         \A q \in Rank : Idle(q)' <=> Idle(q),
         \A q \in Rank : Idle(q) => rbuf'[q] = rbuf[q]
  PROVE  UNCHANGED Abstract!absVars
  BY DEF Abstract!absVars

LEMMA HiddenStep ==
  ASSUME Inv, [Next]_vars, ~\E p \in Rank : Queue(p) \/ PollRecvs(p)
  PROVE  UNCHANGED Abstract!absVars
<1>1. ASSUME NEW p \in Rank,
             \/ \E i \in sendreqs[p], eager \in BOOLEAN : Isend(p, i, eager)
             \/ AllSent(p)
             \/ \E i \in recvreqs[p] : Irecv(p, i)
             \/ AllPosted(p)
             \/ PollSends(p)
      PROVE  UNCHANGED Abstract!absVars
  <2>1. /\ UNCHANGED <<round, rbuf>>
        /\ \A q \in Rank : Idle(q)' <=> Idle(q)
    BY <1>1 DEF Isend, AllSent, Irecv, AllPosted, PollSends, Idle, Inv, TypeOK
  <2> QED
    BY <2>1, StutterStep
<1>2. ASSUME NEW m \in inflight, NEW b \in posted, Deliver(m, b)
      PROVE  UNCHANGED Abstract!absVars
  <2>1. UNCHANGED <<round, pc>> /\ \A q \in Rank : Idle(q)' <=> Idle(q)
    BY <1>2 DEF Deliver, Idle
  <2>2. b.dst \in Rank /\ ~Idle(b.dst)
    BY DEF Inv, TypeOK, Receive, PostedInv, Idle
  <2>3. \A q \in Rank : Idle(q) => rbuf'[q] = rbuf[q]
    BY <1>2, <2>2 DEF Deliver, Inv, TypeOK
  <2> QED
    BY <2>1, <2>3, StutterStep
<1>3. CASE UNCHANGED vars
  BY <1>3, StutterStep DEF vars, Idle
<1> QED
  BY <1>1, <1>2, <1>3 DEF Next, Process, Network, Finished

(* All messages, requests and buffers are invisible to the callers of      *)
(* exchange(): for them it is the collective operation of NeighborExchange,*)
(* where a round takes one step to begin and one to come back with what    *)
(* the partners of this round sent (the safety part of ImplementsExchange).*)
THEOREM ExchangeRefines ==
  Spec => Abstract!AbsInit /\ [][Abstract!AbsNext]_(Abstract!absVars)
<1>1. Init => Abstract!AbsInit
  BY RoundsAssumption DEF Init, Idle, Abstract!AbsInit
<1>2. Inv /\ Delivered' /\ RoundSkew' /\ [Next]_vars => [Abstract!AbsNext]_(Abstract!absVars)
  <2> SUFFICES ASSUME Inv, Delivered', RoundSkew', [Next]_vars
               PROVE  [Abstract!AbsNext]_(Abstract!absVars)
    OBVIOUS
  <2>1. CASE \E p \in Rank : Queue(p)
    BY <2>1, EnterStep DEF Abstract!AbsNext
  <2>2. CASE \E p \in Rank : PollRecvs(p)
    BY <2>2, ReturnStep DEF Abstract!AbsNext
  <2>3. CASE ~\E p \in Rank : Queue(p) \/ PollRecvs(p)
    BY <2>3, HiddenStep
  <2> QED
    BY <2>1, <2>2, <2>3
<1> QED
  BY <1>1, <1>2, Invariance, DeliveredCorrect, RoundSkewCorrect, PTL DEF Spec

=============================================================================
