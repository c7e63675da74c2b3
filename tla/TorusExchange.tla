--------------------------- MODULE TorusExchange ---------------------------
(***************************************************************************)
(* The message exchange of the YaspGrid torus (dune/grid/yaspgrid/torus.hh)*)
(* run concurrently by all processes, over several rounds.                 *)
(*                                                                         *)
(* In a round every process queues its send and its receive tasks in the   *)
(* order of its neighbour lists and calls exchange(): tasks whose partner  *)
(* is the process itself are served by memcpy, the others become MPI_Isend *)
(* and MPI_Irecv calls, all with the same tag, which are then polled until *)
(* complete.  There is no barrier between two rounds.                      *)
(*                                                                         *)
(* A task is named by its position in the neighbour list.  The receive     *)
(* task at position i takes a message from the neighbour in direction d,   *)
(* the send task at position i goes to the neighbour in direction -d.      *)
(***************************************************************************)
EXTENDS YaspTorus, FiniteSets

CONSTANTS
  Dims,    \* dimensions of the torus
  Rounds,  \* number of exchanges every process takes part in
  Used     \* Used[r][p]: the positions at which p sends in round r

Rank == Ranks(Dims)
Pos  == 1..neighbors(Dims)
Round == 1..Rounds

(* The partner of every task, read off the neighbour lists. *)
SendRank == [p \in Rank |-> [i \in Pos |-> sendlist(Dims, p)[i].rank]]
RecvRank == [p \in Rank |-> [i \in Pos |-> recvlist(Dims, p)[i].rank]]

ASSUME DimsAssumption == Dims \in Seq(Nat \ {0})
ASSUME RoundsAssumption == Rounds \in Nat
ASSUME UsedAssumption == Used \in [Round -> [Rank -> SUBSET Pos]]

(* Receive tasks are queued exactly for what the neighbours send. *)
UsedRecv(r, q) == {i \in Pos : i \in Used[r][RecvRank[q][i]]}

VARIABLES
  pc,        \* where a process is: "queue", "isend", "irecv", "pollsends", "pollrecvs", "done"
  round,     \* the round a process is in
  sendreqs,  \* _sendrequests not yet issued, by position
  recvreqs,  \* _recvrequests not yet issued, by position
  sbuf,      \* the caller's send buffers: the round whose data they hold
  rbuf,      \* the caller's receive buffers: what was last copied into them
  inflight,  \* messages sent and not yet matched with a receive
  posted     \* receives issued and not yet matched with a message

vars == <<pc, round, sendreqs, recvreqs, sbuf, rbuf, inflight, posted>>

(* The content of a buffer: who filled it, for which position and round. *)
Data == [from : Rank, pos : Pos, round : Round]
Empty == [from |-> 0, pos |-> 0, round |-> 0]

Message == [src : Rank, dst : Rank, pos : Pos, round : Round, eager : BOOLEAN]
Receive == [src : Rank, dst : Rank, pos : Pos, round : Round]

-----------------------------------------------------------------------------
(* MPI.  Two messages between the same processes are matched in the order  *)
(* of the calls that sent them, and so are two receives; calls are ordered *)
(* by round and, within a round, by position.                              *)
Before(x, y) == x.round < y.round \/ (x.round = y.round /\ x.pos < y.pos)

First(x, S) ==
  \A y \in S : y.src = x.src /\ y.dst = x.dst /\ y # x => Before(x, y)

(* A send that MPI did not buffer is complete only when it was matched. *)
OpenSends(p) == {m \in inflight : m.src = p /\ ~m.eager}
OpenRecvs(p) == {b \in posted : b.dst = p}

(* A process that is not inside exchange(). *)
Idle(p) == pc[p] \in {"queue", "done"}

-----------------------------------------------------------------------------
Init ==
  /\ pc = [p \in Rank |-> IF Rounds = 0 THEN "done" ELSE "queue"]
  /\ round = [p \in Rank |-> 1]
  /\ sendreqs = [p \in Rank |-> {}]
  /\ recvreqs = [p \in Rank |-> {}]
  /\ sbuf = [p \in Rank |-> [i \in Pos |-> 0]]
  /\ rbuf = [p \in Rank |-> [i \in Pos |-> Empty]]
  /\ inflight = {}
  /\ posted = {}

(* The caller fills its send buffers and queues all tasks with send() and  *)
(* recv(); exchange() begins with the local tasks, copied in the order     *)
(* they were queued.  If their numbers differ it reports an error and      *)
(* returns.                                                                *)
LocalSends(p, r) == {i \in Used[r][p] : SendRank[p][i] = p}
LocalRecvs_swapped(p, r) == {i \in UsedRecv(r, p) : RecvRank[p][i] # p}
LocalRecvs(p, r) == {i \in UsedRecv(r, p) : RecvRank[p][i] = p}

nth(i, I) == Cardinality({j \in I : j <= i})

LocalSource_lifo(p, r, i) ==
  CHOOSE j \in LocalSends(p, r) :
    nth(j, LocalSends(p, r)) = Cardinality(LocalRecvs(p, r)) + 1 - nth(i, LocalRecvs(p, r))

LocalSource(p, r, i) ==
  CHOOSE j \in LocalSends(p, r) : nth(j, LocalSends(p, r)) = nth(i, LocalRecvs(p, r))

Queue(p) ==
  LET r == round[p]
      match == Cardinality(LocalSends(p, r)) = Cardinality(LocalRecvs(p, r))
  IN /\ pc[p] = "queue"
     /\ pc' = [pc EXCEPT ![p] = IF match THEN "isend" ELSE "error"]
     /\ sbuf' = [sbuf EXCEPT ![p] = [i \in Pos |-> IF i \in Used[r][p] THEN r ELSE @[i]]]
     /\ rbuf' = [rbuf EXCEPT ![p] = [i \in Pos |->
                   IF match /\ i \in LocalRecvs(p, r)
                   THEN [from |-> p, pos |-> LocalSource(p, r, i), round |-> r]
                   ELSE @[i]]]
     /\ sendreqs' = [sendreqs EXCEPT ![p] = Used[r][p] \ LocalSends(p, r)]
     /\ recvreqs' = [recvreqs EXCEPT ![p] = UsedRecv(r, p) \ LocalRecvs(p, r)]
     /\ UNCHANGED <<round, inflight, posted>>

(* MPI_Isend for the next foreign send task.  MPI may take a copy of the   *)
(* message (eager) or leave it in the send buffer until it is received.    *)
Isend(p, i, eager) ==
  /\ pc[p] = "isend"
  /\ i \in sendreqs[p] /\ \A j \in sendreqs[p] : i <= j
  /\ inflight' = inflight \cup
       {[src |-> p, dst |-> SendRank[p][i], pos |-> i, round |-> round[p], eager |-> eager]}
  /\ sendreqs' = [sendreqs EXCEPT ![p] = @ \ {i}]
  /\ UNCHANGED <<pc, round, recvreqs, sbuf, rbuf, posted>>

AllSent_waits(p) ==
  /\ pc[p] = "isend" /\ sendreqs[p] = {} /\ OpenSends(p) = {}
  /\ pc' = [pc EXCEPT ![p] = "irecv"]
  /\ UNCHANGED <<round, sendreqs, recvreqs, sbuf, rbuf, inflight, posted>>

AllSent(p) ==
  /\ pc[p] = "isend" /\ sendreqs[p] = {}
  /\ pc' = [pc EXCEPT ![p] = "irecv"]
  /\ UNCHANGED <<round, sendreqs, recvreqs, sbuf, rbuf, inflight, posted>>

(* MPI_Irecv for the next foreign receive task. *)
Irecv(p, i) ==
  /\ pc[p] = "irecv"
  /\ i \in recvreqs[p] /\ \A j \in recvreqs[p] : i <= j
  /\ posted' = posted \cup
       {[src |-> RecvRank[p][i], dst |-> p, pos |-> i, round |-> round[p]]}
  /\ recvreqs' = [recvreqs EXCEPT ![p] = @ \ {i}]
  /\ UNCHANGED <<pc, round, sendreqs, sbuf, rbuf, inflight>>

AllPosted(p) ==
  /\ pc[p] = "irecv" /\ recvreqs[p] = {}
  /\ pc' = [pc EXCEPT ![p] = "pollsends"]
  /\ UNCHANGED <<round, sendreqs, recvreqs, sbuf, rbuf, inflight, posted>>

PollSends_skipped(p) ==
  /\ pc[p] = "pollsends"
  /\ pc' = [pc EXCEPT ![p] = "pollrecvs"]
  /\ UNCHANGED <<round, sendreqs, recvreqs, sbuf, rbuf, inflight, posted>>

(* The polling loops end when MPI_Test has reported every request. *)
PollSends(p) ==
  /\ pc[p] = "pollsends" /\ OpenSends(p) = {}
  /\ pc' = [pc EXCEPT ![p] = "pollrecvs"]
  /\ UNCHANGED <<round, sendreqs, recvreqs, sbuf, rbuf, inflight, posted>>

PollRecvs_skipped(p) ==
  /\ pc[p] = "pollrecvs"
  /\ round' = [round EXCEPT ![p] = @ + 1]
  /\ pc' = [pc EXCEPT ![p] = IF round[p] = Rounds THEN "done" ELSE "queue"]
  /\ UNCHANGED <<sendreqs, recvreqs, sbuf, rbuf, inflight, posted>>

(* exchange() returns; the caller uses what it received and goes on to its *)
(* next exchange, if there is one.                                         *)
PollRecvs(p) ==
  /\ pc[p] = "pollrecvs" /\ OpenRecvs(p) = {}
  /\ round' = [round EXCEPT ![p] = @ + 1]
  /\ pc' = [pc EXCEPT ![p] = IF round[p] = Rounds THEN "done" ELSE "queue"]
  /\ UNCHANGED <<sendreqs, recvreqs, sbuf, rbuf, inflight, posted>>

(* MPI matches the first message between two processes with the first      *)
(* receive: a message that was not buffered is read from its send buffer   *)
(* now.                                                                    *)
Deliver(m, b) ==
  /\ m.src = b.src /\ m.dst = b.dst
  /\ First(m, inflight) /\ First(b, posted)
  /\ rbuf' = [rbuf EXCEPT ![b.dst][b.pos] =
                [from |-> m.src, pos |-> m.pos,
                 round |-> IF m.eager THEN m.round ELSE sbuf[m.src][m.pos]]]
  /\ inflight' = inflight \ {m}
  /\ posted' = posted \ {b}
  /\ UNCHANGED <<pc, round, sendreqs, recvreqs, sbuf>>

Process(p) ==
  \/ Queue(p)
  \/ \E i \in sendreqs[p], eager \in BOOLEAN : Isend(p, i, eager)
  \/ AllSent(p)
  \/ \E i \in recvreqs[p] : Irecv(p, i)
  \/ AllPosted(p)
  \/ PollSends(p)
  \/ PollRecvs(p)

Network == \E m \in inflight, b \in posted : Deliver(m, b)

AllDone == \A p \in Rank : pc[p] = "done"
Finished == AllDone /\ UNCHANGED vars

Next == (\E p \in Rank : Process(p)) \/ Network \/ Finished

(* Every process keeps running and MPI makes progress: a message meets its *)
(* receive when both are there.  Nothing is assumed about buffering.       *)
Fairness == (\A p \in Rank : WF_vars(Process(p))) /\ WF_vars(Network)

Spec == Init /\ [][Next]_vars /\ Fairness

-----------------------------------------------------------------------------
TypeOK ==
  /\ pc \in [Rank -> {"queue", "isend", "irecv", "pollsends", "pollrecvs", "done"}]
  /\ round \in [Rank -> 1..Rounds+1]
  /\ sendreqs \in [Rank -> SUBSET Pos]
  /\ recvreqs \in [Rank -> SUBSET Pos]
  /\ sbuf \in [Rank -> [Pos -> 0..Rounds]]
  /\ rbuf \in [Rank -> [Pos -> Data \cup {Empty}]]
  /\ inflight \subseteq Message
  /\ posted \subseteq Receive
  /\ \A p \in Rank : round[p] = Rounds+1 <=> pc[p] = "done"

(* "A message sent to the left neighbor is received as a message from the  *)
(* right neighbor": when a process comes back from exchange(), every       *)
(* receive buffer it named holds what the neighbour in that direction sent *)
(* for the opposite direction in this very round, although all messages    *)
(* carry one tag, several go between the same pair of processes and the    *)
(* neighbour may be a round ahead.                                         *)
Delivered ==
  \A q \in Rank : Idle(q) /\ round[q] > 1 =>
    \A i \in UsedRecv(round[q]-1, q) :
       rbuf[q][i] = [from |-> RecvRank[q][i], pos |-> i, round |-> round[q]-1]

(* exchange() implements the collective operation its callers see.         *)

Abstract == INSTANCE NeighborExchange WITH
  Expect <- [r \in Round |-> [q \in Rank |-> UsedRecv(r, q)]],
  Partner <- RecvRank,
  entered <- [p \in Rank |-> IF Idle(p) THEN round[p]-1 ELSE round[p]],
  returned <- [p \in Rank |-> round[p]-1],
  result <- [p \in Rank |-> IF ~Idle(p) THEN "busy"
                            ELSE IF round[p] = 1 THEN <<>>
                            ELSE [i \in UsedRecv(round[p]-1, p) |-> rbuf[p][i]]]

ImplementsExchange == Abstract!AbsSpec

(* The caller may reuse its buffers between two exchanges: no message of   *)
(* it is still read from a send buffer and no receive is outstanding.      *)
BuffersFree ==
  \A p \in Rank : Idle(p) => OpenSends(p) = {} /\ OpenRecvs(p) = {}

(* The processes are synchronised by their messages only: a process that   *)
(* received from p in a round can be past this round only if p has begun   *)
(* it, so p is at most one round behind those that listen to it.           *)
RoundSkew ==
  \A p, q \in Rank : \A r \in Round :
    (round[q] > r /\ \E i \in UsedRecv(r, q) : RecvRank[q][i] = p)
      => round[p] > r \/ (round[p] = r /\ pc[p] # "queue")

(* No deadlock whatever MPI buffers: every process takes part in all       *)
(* exchanges and comes back from the last one.                             *)
Termination == <>AllDone
=============================================================================
