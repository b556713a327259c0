----------------------------- MODULE ShutdownProofs -----------------------------
(***************************************************************************)
(* Proofs about the drain of a pod.  The "drain complete" line of a pool   *)
(* pod accounts for every response and every socket, for any number of     *)
(* them (DrainAccounting); only an event stream is ended with a clean EOF; *)
(* and a routing pod closes its listener only after its readiness was      *)
(* withdrawn for the whole delay (DrainOrdered).                           *)
(***************************************************************************)
EXTENDS Shutdown, FiniteSetTheorems, TLAPS

RespRecord == [st : {"new", "active", "settled"}, ctype : ContentTypes,
               eventStream : BOOLEAN, headersSent : BOOLEAN, ended : BOOLEAN,
               dead : BOOLEAN, action : {"none", "end-sse", "force-close"}]
Tally == [httpAtStart : Nat, completed : Nat, clientClosed : Nat, sseEnded : Nat,
          sseForced : Nat, httpForced : Nat, wsAtStart : Nat, peerClosed : Nat,
          signalled : Nat, tunnelled : Nat, wsForced : Nat]
SocketFields == {"st", "stage", "own", "signalled", "dead", "ended", "told", "gone",
                 "stream", "pos", "cursor", "torn"}

(* A response that nobody has reset is still in one of the categories to come. *)
RespOK(x) ==
  /\ x \in RespRecord
  /\ x.eventStream <=> x.ctype = "sse"
  /\ x.action = "force-close" => x.dead
  /\ x.action = "end-sse" => x.ended /\ x.ctype = "sse"

Pending(R) == {r \in Responses : R[r].st = "active" /\ R[r].action # "force-close"}
Counted(m) == m.completed + m.clientClosed + m.sseEnded + m.sseForced + m.httpForced

(* The accounts of the responses balance, with the counters m. *)
Balanced(R, m) == Counted(m) + Cardinality(Pending(R)) = m.httpAtStart

HttpInv ==
  /\ resp \in [Responses -> RespRecord]
  /\ \A r \in Responses : RespOK(resp[r])
  /\ phase \in {"none", "grace"} => \A r \in Responses : resp[r].action = "none"
  /\ draining => Balanced(resp, metrics)

Base ==
  /\ phase \in {"none", "grace", "flush", "closing", "done"}
  /\ metrics \in Tally

(* What the drain decides about a socket it decides while the socket is open, and it marks it. *)
SocketOK(x) ==
  /\ DOMAIN x = SocketFields
  /\ x.st \in {"new", "open", "closed"}
  /\ x.told \in {"none", "going-away", "relay", "http"}
  /\ {x.signalled, x.dead, x.ended} \subseteq BOOLEAN
  /\ x.told \in {"going-away", "relay"} => x.signalled /\ x.st # "new"

(* The sockets a counter of the line can still be charged with, and those that one was, or   *)
(* that the server ended.                                                                    *)
Chargeable(w) == {s \in Sockets : w[s].st = "open" \/ w[s].told \in {"going-away", "relay"}}
Tracked(w) == {s \in Sockets : w[s].st # "new" /\ (w[s].st = "open" \/ w[s].signalled)}

SocketInv ==
  /\ DOMAIN ws = Sockets
  /\ \A s \in Sockets : SocketOK(ws[s])
  /\ phase \in {"none", "grace"} => \A s \in Sockets : ws[s].told = "none"
  /\ draining =>
       /\ metrics.signalled = Told(ws, "going-away")
       /\ metrics.tunnelled = Told(ws, "relay")
       /\ metrics.peerClosed + Cardinality(Chargeable(ws)) <= metrics.wsAtStart
       /\ metrics.wsAtStart <= metrics.peerClosed + Cardinality(Tracked(ws))

PoolInv == Base /\ HttpInv /\ SocketInv

RoutingInv ==
  /\ conn \in [Connections -> {"new", "handshake", "open", "closing", "gone"}]
  /\ waited \in Nat /\ due \in Nat
  /\ stopping \in {"no", "delay", "closing", "closed"}
  /\ process \in {"starting", "listening", "up", "exited"}
  /\ stopping # "no" => withdrawn /\ due >= DrainDelay
  /\ withdrawn => ~ready /\ process \in {"up", "exited"}
  /\ stopping \in {"closing", "closed"} => waited >= DrainDelay
                                           /\ \A k \in Connections : conn[k] # "open"
  /\ stopping = "closed" => \A k \in Connections : conn[k] \in {"new", "gone"}
-----------------------------------------------------------------------------
(* Every set of responses or sockets the counters measure is finite. *)
LEMMA Sizes ==
    /\ \A S \in SUBSET Responses : IsFiniteSet(S) /\ Cardinality(S) \in Nat
    /\ \A S \in SUBSET Sockets : IsFiniteSet(S) /\ Cardinality(S) \in Nat
<1>1. ASSUME NEW T, IsFiniteSet(T), NEW S \in SUBSET T
      PROVE  IsFiniteSet(S) /\ Cardinality(S) \in Nat
  BY <1>1, FS_Subset, FS_CardinalityType
<1> QED
  BY <1>1, PoolAssumption

(* The size of a set is the size of a part and of the rest. *)
LEMMA Split ==
    ASSUME NEW S, IsFiniteSet(S), NEW T \in SUBSET S
    PROVE  /\ Cardinality(T) \in Nat /\ Cardinality(S \ T) \in Nat
           /\ Cardinality(S) = Cardinality(T) + Cardinality(S \ T)
<1> DEFINE U == S \ T
<1>1. IsFiniteSet(T) /\ IsFiniteSet(U)
  BY FS_Subset
<1>2. Cardinality(T) \in Nat /\ Cardinality(U) \in Nat /\ Cardinality(S) \in Nat
  BY <1>1, FS_CardinalityType
<1>4. T \cup U = S /\ T \cap U = {}
  OBVIOUS
<1> HIDE DEF U
<1>3. Cardinality(T \cup U) = Cardinality(T) + Cardinality(U) - Cardinality(T \cap U)
  BY <1>1, FS_Union
<1>5. Cardinality(T \cap U) = 0
  BY <1>4, FS_EmptySet
<1>6. Cardinality(S) = Cardinality(T) + Cardinality(U)
  BY <1>2, <1>3, <1>4, <1>5
<1> QED
  BY <1>2, <1>6 DEF U

(* Taking one member away makes a set smaller by one. *)
LEMMA OneLess ==
    ASSUME NEW S, IsFiniteSet(S), NEW x \in S
    PROVE  Cardinality(S) = Cardinality(S \ {x}) + 1 /\ Cardinality(S \ {x}) \in Nat
<1>1. Cardinality({x}) = 1
  BY FS_Singleton
<1>2. Cardinality(S) = Cardinality({x}) + Cardinality(S \ {x}) /\ Cardinality(S \ {x}) \in Nat
  BY Split
<1> QED
  BY <1>1, <1>2
-----------------------------------------------------------------------------
(* The pod starts with empty accounts. *)
LEMMA PoolStarts ==
    Init => PoolInv
<1> SUFFICES ASSUME Init PROVE PoolInv
  OBVIOUS
<1>1. Base
  BY DEF Init, Base, NoMetrics, Tally
<1>2. NoResp \in RespRecord /\ RespOK(NoResp) /\ NoResp.action = "none"
  BY DEF NoResp, RespOK, RespRecord, ContentTypes
<1>3. HttpInv
  BY <1>2 DEF Init, HttpInv, draining
<1>4. SocketOK(NoSocket) /\ NoSocket.told = "none"
  BY DEF NoSocket, SocketOK, SocketFields
<1>5. SocketInv
  BY <1>4 DEF Init, SocketInv, draining
<1> QED
  BY <1>1, <1>3, <1>5 DEF PoolInv
-----------------------------------------------------------------------------
(* Responses.  Nothing that leaves them and their counters alone disturbs the accounts. *)
LEMMA HttpStill ==
    ASSUME HttpInv, resp' = resp,
           metrics'.httpAtStart = metrics.httpAtStart, Counted(metrics') = Counted(metrics),
           phase' = phase \/ (draining /\ phase' = "done")
    PROVE  HttpInv'
<1>1. Pending(resp') = Pending(resp)
  BY DEF Pending
<1>2. draining' => Balanced(resp', metrics')
  BY <1>1 DEF HttpInv, Balanced, draining
<1> QED
  BY <1>2 DEF HttpInv, draining, RespOK

(* A handler's own steps change neither what the drain decided about a response nor the accounts. *)
LEMMA HttpEdit ==
    ASSUME HttpInv, NEW r \in Responses, NEW y, resp' = [resp EXCEPT ![r] = y],
           RespOK(y), y.action = resp[r].action, y.st = resp[r].st \/ ~draining,
           phase' = phase, metrics' = metrics
    PROVE  HttpInv'
<1>1. resp' \in [Responses -> RespRecord] /\ resp'[r] = y
      /\ \A q \in Responses \ {r} : resp'[q] = resp[q]
  BY DEF HttpInv, RespOK
<1>2. \A q \in Responses : RespOK(resp'[q]) /\ resp'[q].action = resp[q].action
  BY <1>1 DEF HttpInv
<1>3. draining => Pending(resp') = Pending(resp)
  BY <1>1, <1>2 DEF Pending
<1>4. draining' => Balanced(resp', metrics')
  BY <1>3 DEF HttpInv, Balanced, draining
<1> QED
  BY <1>1, <1>2, <1>4 DEF HttpInv, RespOK, draining

(* settleResponse counts a response once: one the drain reset was counted then. *)
LEMMA HttpSettle ==
    ASSUME PoolInv, NEW r \in Responses, NEW finished \in BOOLEAN, Settle(r, finished)
    PROVE  HttpInv' /\ metrics' \in Tally
<1> DEFINE x == resp[r]
           y == [NoResp EXCEPT !.st = "settled"]
<1>2. y \in RespRecord /\ RespOK(y) /\ y.action = "none" /\ y.st = "settled"
  BY DEF NoResp, RespOK, RespRecord, ContentTypes
<1>3. /\ resp' \in [Responses -> RespRecord] /\ resp'[r] = y
      /\ \A q \in Responses \ {r} : resp'[q] = resp[q]
      /\ phase' = phase /\ metrics' = SettledMetrics(metrics, x, finished)
  <2>1. resp' = [resp EXCEPT ![r] = y] /\ phase' = phase
        /\ metrics' = SettledMetrics(metrics, x, finished)
    BY DEF Settle
  <2> HIDE DEF y
  <2> QED
    BY <1>2, <2>1 DEF PoolInv, HttpInv
<1> HIDE DEF y
<1>4. metrics \in Tally /\ x.st = "active"
  BY DEF PoolInv, Base, Settle
<1>5. metrics' \in Tally /\ metrics'.httpAtStart = metrics.httpAtStart
      /\ Counted(metrics') = Counted(metrics)
           + (IF draining /\ x.action # "force-close" THEN 1 ELSE 0)
  <2>1. x.action \in {"none", "end-sse", "force-close"}
    BY DEF PoolInv, HttpInv, RespRecord
  <2>2. CASE ~draining \/ x.action = "force-close"
    <3>0. ~draining => x.action = "none"
      BY DEF PoolInv, HttpInv, draining
    <3>1. metrics' = metrics
      BY <1>3, <2>2, <3>0 DEF SettledMetrics
    <3>2. Counted(metrics) \in Nat
      BY <1>4 DEF Tally, Counted
    <3> QED
      BY <1>4, <2>2, <3>1, <3>2
  <2>3. CASE draining /\ x.action = "end-sse"
    <3>1. metrics' = [metrics EXCEPT !.sseEnded = @ + 1]
      BY <1>3, <2>3 DEF SettledMetrics
    <3> QED
      BY <1>4, <2>3, <3>1 DEF Tally, Counted
  <2>4. CASE draining /\ x.action = "none"
    <3>1. metrics' = IF finished THEN [metrics EXCEPT !.completed = @ + 1]
                     ELSE [metrics EXCEPT !.clientClosed = @ + 1]
      BY <1>3, <2>4 DEF SettledMetrics
    <3> QED
      BY <1>4, <2>4, <3>1 DEF Tally, Counted
  <2> QED
    BY <2>1, <2>2, <2>3, <2>4
<1>6. draining' => Balanced(resp', metrics')
  <2> SUFFICES ASSUME draining PROVE Balanced(resp', metrics')
    BY <1>3 DEF draining
  <2>1. IsFiniteSet(Pending(resp)) /\ Cardinality(Pending(resp)) \in Nat
    BY Sizes DEF Pending
  <2>2. /\ Counted(metrics) \in Nat
        /\ Counted(metrics) + Cardinality(Pending(resp)) = metrics.httpAtStart
    BY <1>4 DEF Tally, Counted, PoolInv, HttpInv, Balanced
  <2>3. CASE x.action = "force-close"
    <3>1. Pending(resp') = Pending(resp)
      BY <1>2, <1>3, <2>3 DEF Pending
    <3> QED
      BY <1>5, <2>2, <2>3, <3>1 DEF Balanced
  <2>4. CASE x.action # "force-close"
    <3>1. Pending(resp') = Pending(resp) \ {r} /\ r \in Pending(resp)
      BY <1>2, <1>3, <1>4, <2>4 DEF Pending
    <3>2. /\ Cardinality(Pending(resp)) = Cardinality(Pending(resp')) + 1
          /\ Cardinality(Pending(resp')) \in Nat
      BY <2>1, <3>1, OneLess
    <3> QED
      BY <1>5, <2>2, <2>4, <3>2 DEF Balanced
  <2> QED
    BY <2>3, <2>4
<1>7. \A q \in Responses : RespOK(resp'[q]) /\ resp'[q].action \in {resp[q].action, "none"}
  BY <1>2, <1>3 DEF PoolInv, HttpInv
<1>8. phase' \in {"none", "grace"} => \A q \in Responses : resp'[q].action = "none"
  BY <1>3, <1>7 DEF PoolInv, HttpInv
<1> QED
  BY <1>3, <1>5, <1>6, <1>7, <1>8 DEF HttpInv, RespOK

(* The terminal pass counts exactly the responses it resets. *)
LEMMA TerminalCounts ==
    ASSUME PoolInv, draining, NEW R, R = [r \in Responses |-> TerminalResp(resp[r])]
    PROVE  /\ \A r \in Responses : RespOK(R[r])
           /\ R \in [Responses -> RespRecord]
           /\ Moved(resp, R, LAMBDA x : x.action = "force-close") \in Nat
           /\ Counted(metrics) + Moved(resp, R, LAMBDA x : x.action = "force-close")
                + Cardinality(Pending(R)) = metrics.httpAtStart
<1> DEFINE forced == {r \in Responses : resp[r] # R[r] /\ R[r].action = "force-close"}
<1>1. \A r \in Responses : resp[r] \in RespRecord /\ RespOK(resp[r])
  BY DEF PoolInv, HttpInv
<1>2. \A r \in Responses : R[r] = TerminalResp(resp[r])
  OBVIOUS
<1>3. \A r \in Responses : R[r] \in RespRecord /\ RespOK(R[r])
  <2> SUFFICES ASSUME NEW r \in Responses PROVE R[r] \in RespRecord /\ RespOK(R[r])
    OBVIOUS
  <2>1. resp[r] \in RespRecord /\ RespOK(resp[r])
    BY <1>1
  <2>2. CASE R[r] = resp[r]
    BY <2>1, <2>2
  <2>3. CASE R[r] = [resp[r] EXCEPT !.action = "end-sse", !.ended = TRUE] /\ resp[r].eventStream
    BY <2>1, <2>3 DEF RespRecord, RespOK
  <2>4. CASE R[r] = [resp[r] EXCEPT !.action = "force-close", !.dead = TRUE]
    BY <2>1, <2>4 DEF RespRecord, RespOK
  <2> QED
    BY <1>2, <2>2, <2>3, <2>4 DEF TerminalResp
<1>4. R \in [Responses -> RespRecord]
  BY <1>3
<1>5. Pending(R) = Pending(resp) \ forced /\ forced \subseteq Pending(resp)
  <2> SUFFICES ASSUME NEW r \in Responses
               PROVE  /\ r \in Pending(R) <=> r \in Pending(resp) /\ r \notin forced
                      /\ r \in forced => r \in Pending(resp)
    BY DEF Pending
  <2>1. resp[r] \in RespRecord /\ RespOK(resp[r])
    BY <1>1
  <2>2. CASE R[r] = resp[r]
    BY <2>1, <2>2 DEF Pending
  <2>3. CASE R[r] = [resp[r] EXCEPT !.action = "end-sse", !.ended = TRUE]
             /\ resp[r].st = "active" /\ ~resp[r].dead
    BY <2>1, <2>3 DEF RespRecord, RespOK, Pending
  <2>4. CASE R[r] = [resp[r] EXCEPT !.action = "force-close", !.dead = TRUE]
             /\ resp[r].st = "active" /\ ~resp[r].dead
    <3>1. R[r].action = "force-close" /\ R[r].dead /\ R[r] # resp[r]
      BY <2>1, <2>4 DEF RespRecord
    <3>2. resp[r].action # "force-close"
      BY <2>1, <2>4 DEF RespOK
    <3> QED
      BY <2>4, <3>1, <3>2 DEF Pending
  <2> QED
    BY <1>2, <2>2, <2>3, <2>4 DEF TerminalResp
<1>6. Moved(resp, R, LAMBDA x : x.action = "force-close") = Cardinality(forced)
  <2>1. DOMAIN resp = Responses
    BY DEF PoolInv, HttpInv
  <2> QED
    BY <2>1 DEF Moved
<1> HIDE DEF forced
<1>7. IsFiniteSet(Pending(resp))
  BY Sizes DEF Pending
<1>8. /\ Cardinality(forced) \in Nat /\ Cardinality(Pending(R)) \in Nat
      /\ Cardinality(Pending(resp)) = Cardinality(forced) + Cardinality(Pending(R))
  BY <1>5, <1>7, Split
<1>9. /\ Counted(metrics) \in Nat
      /\ Counted(metrics) + Cardinality(Pending(resp)) = metrics.httpAtStart
  BY DEF PoolInv, Base, HttpInv, Balanced, Tally, Counted
<1> QED
  BY <1>3, <1>4, <1>6, <1>8, <1>9

(* The final sweep charges each response that is left to one category. *)
LEMMA SweepCounts ==
    ASSUME NEW R \in [Responses -> RespRecord], \A r \in Responses : RespOK(R[r]),
           NEW W, NEW m \in Tally, Balanced(R, m), Sweep(R, W, m), DOMAIN W = Sockets
    PROVE  HttpInv' /\ metrics' \in Tally /\ phase' = "closing"
           /\ metrics'.wsAtStart = m.wsAtStart /\ metrics'.peerClosed = m.peerClosed
           /\ metrics'.signalled = m.signalled /\ metrics'.tunnelled = m.tunnelled
<1> DEFINE left == {r \in Responses : R[r].st = "active" /\ ~R[r].dead}
           eof == {r \in left : R[r].action = "end-sse"}
           rest == left \ eof
           cut == {s \in Sockets : W[s].st = "open" /\ ~W[s].dead}
           a == Cardinality(eof)
           b == Cardinality(rest)
           c == Cardinality(cut)
<1>1. a \in Nat /\ b \in Nat /\ c \in Nat
  BY Sizes
<1>2. resp' = [r \in Responses |-> SweptResp(R[r])] /\ phase' = "closing"
      /\ metrics' = [m EXCEPT !.sseForced = @ + a, !.httpForced = @ + b, !.wsForced = c]
  BY DEF Sweep
<1>3. \A r \in Responses : resp'[r] \in RespRecord /\ RespOK(resp'[r])
  <2> SUFFICES ASSUME NEW r \in Responses PROVE resp'[r] \in RespRecord /\ RespOK(resp'[r])
    OBVIOUS
  <2>1. R[r] \in RespRecord /\ RespOK(R[r]) /\ resp'[r] = SweptResp(R[r])
    BY <1>2
  <2>2. CASE resp'[r] = R[r]
    BY <2>1, <2>2
  <2>3. CASE resp'[r] = [R[r] EXCEPT !.dead = TRUE, !.action = "force-close"]
    BY <2>1, <2>3 DEF RespRecord, RespOK
  <2> QED
    BY <2>1, <2>2, <2>3 DEF SweptResp
<1>4. Pending(resp') = Pending(R) \ left /\ left \subseteq Pending(R)
  <2> SUFFICES ASSUME NEW r \in Responses
               PROVE  /\ r \in Pending(resp') <=> r \in Pending(R) /\ r \notin left
                      /\ r \in left => r \in Pending(R)
    BY DEF Pending
  <2>1. R[r] \in RespRecord /\ RespOK(R[r]) /\ resp'[r] = SweptResp(R[r])
    BY <1>2
  <2>2. CASE r \in left
    <3>1. R[r].action # "force-close" /\ R[r].st = "active"
      BY <2>1, <2>2 DEF RespOK
    <3>2. resp'[r].action = "force-close"
      BY <2>1, <2>2 DEF SweptResp, RespRecord
    <3> QED
      BY <2>2, <3>1, <3>2 DEF Pending
  <2>3. CASE r \notin left
    <3>1. resp'[r] = R[r]
      BY <2>1, <2>3 DEF SweptResp
    <3> QED
      BY <2>3, <3>1 DEF Pending
  <2> QED
    BY <2>2, <2>3
<1>5. IsFiniteSet(Pending(R)) /\ IsFiniteSet(left) /\ eof \subseteq left
  BY Sizes DEF Pending
<1>6. Cardinality(left) = a + b
  BY <1>5, Split
<1>7. Cardinality(Pending(R)) = Cardinality(left) + Cardinality(Pending(resp'))
      /\ Cardinality(Pending(resp')) \in Nat
  BY <1>4, <1>5, Split
<1> HIDE DEF left, eof, rest, cut, a, b, c
<1>8. metrics' \in Tally /\ metrics'.httpAtStart = m.httpAtStart
      /\ metrics'.wsAtStart = m.wsAtStart /\ metrics'.peerClosed = m.peerClosed
      /\ metrics'.signalled = m.signalled /\ metrics'.tunnelled = m.tunnelled
      /\ Counted(metrics') = Counted(m) + a + b /\ Counted(m) \in Nat
  <2> DEFINE u == m.sseForced + a
             v == m.httpForced + b
  <2>0. u \in Nat /\ v \in Nat
        /\ metrics' = [m EXCEPT !.sseForced = u, !.httpForced = v, !.wsForced = c]
    BY <1>1, <1>2 DEF Tally
  <2> HIDE DEF u, v
  <2>1. metrics'.httpAtStart = m.httpAtStart
        /\ metrics'.wsAtStart = m.wsAtStart /\ metrics'.peerClosed = m.peerClosed
        /\ metrics'.signalled = m.signalled /\ metrics'.tunnelled = m.tunnelled
    BY <2>0 DEF Tally
  <2>4. metrics' \in Tally
    BY <1>1, <2>0 DEF Tally
  <2>2. metrics'.completed = m.completed /\ metrics'.clientClosed = m.clientClosed
        /\ metrics'.sseEnded = m.sseEnded
        /\ metrics'.sseForced = m.sseForced + a /\ metrics'.httpForced = m.httpForced + b
    BY <1>1, <1>2 DEF Tally
  <2>3. {m.completed, m.clientClosed, m.sseEnded, m.sseForced, m.httpForced} \subseteq Nat
    BY DEF Tally
  <2> QED
    BY <1>1, <2>1, <2>2, <2>3, <2>4 DEF Counted
<1>9. Balanced(resp', metrics')
  BY <1>1, <1>6, <1>7, <1>8 DEF Balanced
<1>10. resp' \in [Responses -> RespRecord]
  BY <1>2, <1>3
<1> QED
  BY <1>2, <1>3, <1>8, <1>9, <1>10 DEF HttpInv
-----------------------------------------------------------------------------
(* Sockets.  A change that keeps every socket's state and verdict, and un-signals none, keeps *)
(* the accounts.                                                                               *)
LEMMA SocketsKeep ==
    ASSUME PoolInv, NEW W, DOMAIN W = Sockets, \A s \in Sockets : SocketOK(W[s]),
           \A s \in Sockets : /\ W[s].st = ws[s].st /\ W[s].told = ws[s].told
                              /\ ws[s].signalled => W[s].signalled
                              /\ ws[s].st # "open" => W[s].signalled = ws[s].signalled
    PROVE  /\ Chargeable(W) = Chargeable(ws) /\ Tracked(W) = Tracked(ws)
           /\ Told(W, "going-away") = Told(ws, "going-away")
           /\ Told(W, "relay") = Told(ws, "relay")
<1>1. Chargeable(W) = Chargeable(ws)
  BY DEF Chargeable
<1>2. Tracked(W) = Tracked(ws)
  BY DEF Tracked
<1>3. ASSUME NEW what
      PROVE  {s \in Sockets : W[s].told = what} = {s \in Sockets : ws[s].told = what}
  OBVIOUS
<1> QED
  BY <1>1, <1>2, <1>3 DEF Told

(* One socket changes that way. *)
LEMMA SocketEdit ==
    ASSUME PoolInv, NEW s \in Sockets, NEW y, ws' = [ws EXCEPT ![s] = y], SocketOK(y),
           y.told = ws[s].told, y.st = ws[s].st, ws[s].signalled => y.signalled,
           ws[s].st = "open", phase' = phase, metrics' = metrics
    PROVE  SocketInv'
<1>1. DOMAIN ws' = Sockets /\ ws'[s] = y /\ \A q \in Sockets \ {s} : ws'[q] = ws[q]
  BY DEF PoolInv, SocketInv
<1>2. \A q \in Sockets : SocketOK(ws'[q])
  BY <1>1 DEF PoolInv, SocketInv
<1>3. \A q \in Sockets : /\ ws'[q].st = ws[q].st /\ ws'[q].told = ws[q].told
                         /\ ws[q].signalled => ws'[q].signalled
                         /\ ws[q].st # "open" => ws'[q].signalled = ws[q].signalled
  BY <1>1
<1>4. /\ Chargeable(ws') = Chargeable(ws) /\ Tracked(ws') = Tracked(ws)
      /\ Told(ws', "going-away") = Told(ws, "going-away")
      /\ Told(ws', "relay") = Told(ws, "relay")
  BY <1>1, <1>2, <1>3, SocketsKeep
<1> QED
  BY <1>1, <1>2, <1>3, <1>4 DEF PoolInv, SocketInv, draining

(* A socket's `close` moves it from the open ones to those the line accounts for. *)
LEMMA SocketCloses ==
    ASSUME PoolInv, NEW s \in Sockets, SocketClose(s)
    PROVE  SocketInv' /\ metrics' \in Tally /\ metrics'.httpAtStart = metrics.httpAtStart
           /\ Counted(metrics') = Counted(metrics)
<1> DEFINE x == ws[s]
           y == [NoSocket EXCEPT !.st = "closed", !.signalled = x.signalled,
                                 !.told = x.told, !.gone = x.gone]
<1>1. SocketOK(x) /\ x.st = "open" /\ metrics \in Tally /\ phase' = phase
  BY DEF PoolInv, SocketInv, Base, SocketClose, SocketStep
<1>2. SocketOK(y) /\ y.st = "closed" /\ y.told = x.told /\ y.signalled = x.signalled
  BY <1>1 DEF SocketOK, NoSocket, SocketFields
<1>3. ws' = [ws EXCEPT ![s] = y] /\ metrics' = CloseMetrics(metrics, x)
  BY DEF SocketClose
<1> HIDE DEF y
<1>4. DOMAIN ws' = Sockets /\ ws'[s] = y /\ \A q \in Sockets \ {s} : ws'[q] = ws[q]
  BY <1>3 DEF PoolInv, SocketInv
<1>5. \A q \in Sockets : SocketOK(ws'[q]) /\ ws'[q].told = ws[q].told
  BY <1>2, <1>4 DEF PoolInv, SocketInv
<1>6. Told(ws', "going-away") = Told(ws, "going-away") /\ Told(ws', "relay") = Told(ws, "relay")
  <2>1. ASSUME NEW what
        PROVE  {q \in Sockets : ws'[q].told = what} = {q \in Sockets : ws[q].told = what}
    BY <1>5
  <2> QED
    BY <2>1 DEF Told
<1>7. /\ metrics' \in Tally /\ metrics'.httpAtStart = metrics.httpAtStart
      /\ metrics'.wsAtStart = metrics.wsAtStart /\ metrics'.signalled = metrics.signalled
      /\ metrics'.tunnelled = metrics.tunnelled
      /\ metrics'.peerClosed = metrics.peerClosed + (IF draining /\ ~x.signalled THEN 1 ELSE 0)
  BY <1>1, <1>3 DEF CloseMetrics, Tally
<1>8. Counted(metrics') = Counted(metrics)
  BY <1>1, <1>3 DEF CloseMetrics, Tally, Counted
<1>9. ASSUME draining
      PROVE  /\ metrics'.peerClosed + Cardinality(Chargeable(ws')) <= metrics'.wsAtStart
             /\ metrics'.wsAtStart <= metrics'.peerClosed + Cardinality(Tracked(ws'))
  <2>1. /\ metrics.peerClosed + Cardinality(Chargeable(ws)) <= metrics.wsAtStart
        /\ metrics.wsAtStart <= metrics.peerClosed + Cardinality(Tracked(ws))
    BY <1>9 DEF PoolInv, SocketInv
  <2>2. /\ IsFiniteSet(Chargeable(ws)) /\ Cardinality(Chargeable(ws)) \in Nat
        /\ IsFiniteSet(Tracked(ws)) /\ Cardinality(Tracked(ws)) \in Nat
        /\ Cardinality(Chargeable(ws')) \in Nat /\ Cardinality(Tracked(ws')) \in Nat
    BY Sizes DEF Chargeable, Tracked
  <2>3. metrics.peerClosed \in Nat /\ metrics.wsAtStart \in Nat
    BY <1>1 DEF Tally
  <2>4. CASE x.signalled
    <3>1. Tracked(ws') = Tracked(ws)
      BY <1>1, <1>2, <1>4, <2>4 DEF Tracked
    <3>2. Chargeable(ws') \subseteq Chargeable(ws)
      BY <1>1, <1>2, <1>4 DEF Chargeable
    <3>3. Cardinality(Chargeable(ws')) <= Cardinality(Chargeable(ws))
      BY <2>2, <3>2, FS_Subset
    <3> QED
      BY <1>7, <2>1, <2>2, <2>3, <2>4, <3>1, <3>3
  <2>5. CASE ~x.signalled
    <3>1. Tracked(ws') = Tracked(ws) \ {s} /\ s \in Tracked(ws)
      BY <1>1, <1>2, <1>4, <2>5 DEF Tracked
    <3>2. x.told \notin {"going-away", "relay"}
      BY <1>1, <2>5 DEF SocketOK
    <3>3. Chargeable(ws') = Chargeable(ws) \ {s} /\ s \in Chargeable(ws)
      BY <1>1, <1>2, <1>4, <3>2 DEF Chargeable
    <3>4. Cardinality(Tracked(ws)) = Cardinality(Tracked(ws')) + 1
          /\ Cardinality(Chargeable(ws)) = Cardinality(Chargeable(ws')) + 1
      BY <2>2, <3>1, <3>3, OneLess
    <3> QED
      BY <1>7, <1>9, <2>1, <2>2, <2>3, <2>5, <3>4
  <2> QED
    BY <1>1, <2>4, <2>5 DEF SocketOK
<1> QED
  BY <1>1, <1>4, <1>5, <1>6, <1>7, <1>8, <1>9 DEF PoolInv, SocketInv, draining
-----------------------------------------------------------------------------
(* The start of the drain: everything that is in flight is on the accounts. *)
LEMMA DrainStarts ==
    ASSUME PoolInv, Sigterm
    PROVE  PoolInv'
<1> DEFINE h == Cardinality(Active)
           o == Cardinality(Open)
<1>1. /\ phase = "none" /\ phase' = "grace" /\ resp' = resp /\ ws' = ws
      /\ metrics' = [NoMetrics EXCEPT !.httpAtStart = h, !.wsAtStart = o]
  BY DEF Sigterm, draining
<1>2. h \in Nat /\ o \in Nat
  BY Sizes DEF Active, Open
<1>3. Pending(resp') = Active
  BY <1>1 DEF Pending, Active, PoolInv, HttpInv
<1>4. Chargeable(ws') = Open
  BY <1>1 DEF Chargeable, Open, PoolInv, SocketInv
<1>5. Open \subseteq Tracked(ws')
  BY <1>1 DEF Tracked, Open
<1>6. o <= Cardinality(Tracked(ws')) /\ Cardinality(Tracked(ws')) \in Nat
  <2>1. IsFiniteSet(Tracked(ws'))
    BY Sizes DEF Tracked
  <2> QED
    BY <1>5, <2>1, FS_Subset, FS_CardinalityType
<1>7. Told(ws', "going-away") = 0 /\ Told(ws', "relay") = 0
  <2>1. {s \in Sockets : ws'[s].told = "going-away"} = {}
        /\ {s \in Sockets : ws'[s].told = "relay"} = {}
    BY <1>1 DEF PoolInv, SocketInv
  <2> QED
    BY <2>1, FS_EmptySet DEF Told
<1>8. Cardinality(Pending(resp')) = h /\ Cardinality(Chargeable(ws')) = o
  BY <1>3, <1>4
<1> HIDE DEF h, o
<1>9. /\ metrics' \in Tally /\ metrics'.httpAtStart = h /\ metrics'.wsAtStart = o
      /\ Counted(metrics') = 0 /\ metrics'.peerClosed = 0
      /\ metrics'.signalled = 0 /\ metrics'.tunnelled = 0
  <2>1. metrics' = [httpAtStart |-> h, completed |-> 0, clientClosed |-> 0, sseEnded |-> 0,
                    sseForced |-> 0, httpForced |-> 0, wsAtStart |-> o, peerClosed |-> 0,
                    signalled |-> 0, tunnelled |-> 0, wsForced |-> 0]
    BY <1>1 DEF NoMetrics
  <2>2. metrics' \in Tally
    BY <1>2, <2>1 DEF Tally
  <2>3. Counted(metrics') = 0
    BY <2>1 DEF Counted
  <2> QED
    BY <2>1, <2>2, <2>3
<1>10. Base'
  BY <1>1, <1>9 DEF Base
<1>11. HttpInv'
  <2>1. Balanced(resp', metrics')
    BY <1>2, <1>8, <1>9 DEF Balanced
  <2> QED
    BY <1>1, <2>1 DEF PoolInv, HttpInv
<1>12. SocketInv'
  BY <1>1, <1>2, <1>6, <1>7, <1>8, <1>9 DEF PoolInv, SocketInv
<1> QED
  BY <1>10, <1>11, <1>12 DEF PoolInv

(* What the terminal pass makes of one socket. *)
LEMMA TerminalSocketOK ==
    ASSUME NEW x, SocketOK(x), x.told = "none"
    PROVE  LET y == TerminalSocket(x)
           IN  /\ SocketOK(y) /\ y.st = x.st
               /\ x.signalled => y.signalled
               /\ x.st # "open" => y.signalled = x.signalled /\ y.told = "none"
<1> DEFINE z == [x EXCEPT !.signalled = TRUE]
           y == TerminalSocket(x)
<1>1. CASE x.st # "open" \/ x.dead
  BY <1>1 DEF TerminalSocket
<1>2. CASE x.st = "open" /\ ~x.dead
  <2>1. /\ DOMAIN z = SocketFields /\ z.st = "open" /\ z.signalled = TRUE /\ z.told = "none"
        /\ {z.signalled, z.dead, z.ended} \subseteq BOOLEAN
    BY <1>2 DEF SocketOK, SocketFields
  <2>2. \/ y = [z EXCEPT !.told = "going-away"]
        \/ y = InjectCloseFrame(z)
        \/ y = [z EXCEPT !.told = "relay"]
        \/ y = [z EXCEPT !.told = "http", !.ended = TRUE]
    BY <1>2 DEF TerminalSocket
  <2> HIDE DEF z
  <2>3. /\ DOMAIN y = SocketFields /\ y.st = "open" /\ y.signalled = TRUE
        /\ y.told \in {"going-away", "relay", "http"}
        /\ y.dead = z.dead /\ y.ended \in {z.ended, TRUE}
    <3>1. CASE y = [z EXCEPT !.told = "going-away"]
      BY <2>1, <3>1 DEF SocketFields
    <3>2. CASE y = InjectCloseFrame(z)
      BY <2>1, <3>2 DEF SocketFields, InjectCloseFrame
    <3>3. CASE y = [z EXCEPT !.told = "relay"]
      BY <2>1, <3>3 DEF SocketFields
    <3>4. CASE y = [z EXCEPT !.told = "http", !.ended = TRUE]
      BY <2>1, <3>4 DEF SocketFields
    <3> QED
      BY <2>2, <3>1, <3>2, <3>3, <3>4
  <2> HIDE DEF y
  <2>4. SocketOK(y)
    BY <2>1, <2>3 DEF SocketOK
  <2> QED
    BY <1>2, <2>3, <2>4 DEF y
<1> QED
  BY <1>1, <1>2

(* The sweep leaves a socket's state and verdict as they are. *)
LEMMA SweptSocketOK ==
    ASSUME NEW x, SocketOK(x)
    PROVE  LET y == SweptSocket(x)
           IN  /\ SocketOK(y) /\ y.st = x.st /\ y.told = x.told
               /\ x.signalled => y.signalled
               /\ x.st # "open" => y.signalled = x.signalled
BY DEF SweptSocket, SocketOK, SocketFields

(* The sweep keeps the accounts of the sockets. *)
LEMMA SweepSockets ==
    ASSUME NEW R, NEW W, NEW m, Sweep(R, W, m), DOMAIN W = Sockets,
           \A s \in Sockets : SocketOK(W[s])
    PROVE  /\ DOMAIN ws' = Sockets /\ \A s \in Sockets : SocketOK(ws'[s])
           /\ Chargeable(ws') = Chargeable(W) /\ Tracked(ws') = Tracked(W)
           /\ Told(ws', "going-away") = Told(W, "going-away")
           /\ Told(ws', "relay") = Told(W, "relay")
<1>1. ws' = [s \in Sockets |-> SweptSocket(W[s])]
  BY DEF Sweep
<1>2. \A s \in Sockets : /\ SocketOK(ws'[s])
                         /\ ws'[s].st = W[s].st /\ ws'[s].told = W[s].told
                         /\ W[s].signalled => ws'[s].signalled
                         /\ W[s].st # "open" => ws'[s].signalled = W[s].signalled
  BY <1>1, SweptSocketOK
<1>3. Chargeable(ws') = Chargeable(W)
  BY <1>2 DEF Chargeable
<1>4. Tracked(ws') = Tracked(W)
  BY <1>2 DEF Tracked
<1>5. ASSUME NEW what
      PROVE  {s \in Sockets : ws'[s].told = what} = {s \in Sockets : W[s].told = what}
  BY <1>2
<1> QED
  BY <1>1, <1>2, <1>3, <1>4, <1>5 DEF Told

(* A sweep of balanced accounts leaves balanced accounts. *)
LEMMA SweepKeeps ==
    ASSUME NEW R \in [Responses -> RespRecord], \A r \in Responses : RespOK(R[r]),
           NEW W, DOMAIN W = Sockets, \A s \in Sockets : SocketOK(W[s]),
           NEW m \in Tally, Balanced(R, m), Sweep(R, W, m),
           m.signalled = Told(W, "going-away"), m.tunnelled = Told(W, "relay"),
           m.peerClosed + Cardinality(Chargeable(W)) <= m.wsAtStart,
           m.wsAtStart <= m.peerClosed + Cardinality(Tracked(W))
    PROVE  PoolInv'
<1>1. HttpInv' /\ metrics' \in Tally /\ phase' = "closing"
      /\ metrics'.wsAtStart = m.wsAtStart /\ metrics'.peerClosed = m.peerClosed
      /\ metrics'.signalled = m.signalled /\ metrics'.tunnelled = m.tunnelled
  BY SweepCounts
<1>2. /\ DOMAIN ws' = Sockets /\ \A s \in Sockets : SocketOK(ws'[s])
      /\ Chargeable(ws') = Chargeable(W) /\ Tracked(ws') = Tracked(W)
      /\ Told(ws', "going-away") = Told(W, "going-away")
      /\ Told(ws', "relay") = Told(W, "relay")
  BY SweepSockets
<1>3. SocketInv'
  BY <1>1, <1>2 DEF SocketInv
<1> QED
  BY <1>1, <1>3 DEF PoolInv, Base

(* The end of the grace period: the terminal pass, and the sweep at once when nothing is left *)
(* to flush.                                                                                  *)
LEMMA GraceKeeps ==
    ASSUME PoolInv, GraceEnds
    PROVE  PoolInv'
<1> DEFINE R == [r \in Responses |-> TerminalResp(resp[r])]
           W == [s \in Sockets |-> TerminalSocket(ws[s])]
           f == Moved(resp, R, LAMBDA x : x.action = "force-close")
           g == Told(W, "going-away")
           t == Told(W, "relay")
           m == TerminalMetrics(R, W)
<1>1. phase = "grace" /\ draining
  BY DEF GraceEnds, GraceOver, draining
<1>2. \/ phase' = "flush" /\ resp' = R /\ ws' = W /\ metrics' = m
      \/ Sweep(R, W, m)
  BY DEF GraceEnds
<1>3. /\ \A r \in Responses : RespOK(R[r])
      /\ R \in [Responses -> RespRecord]
      /\ f \in Nat
      /\ Counted(metrics) + f + Cardinality(Pending(R)) = metrics.httpAtStart
  BY <1>1, TerminalCounts
<1>4. g \in Nat /\ t \in Nat
  BY Sizes DEF Told
<1>5. m = [metrics EXCEPT !.httpForced = @ + f, !.signalled = g, !.tunnelled = t]
  BY DEF TerminalMetrics
<1>6. DOMAIN W = Sockets
      /\ \A s \in Sockets : /\ SocketOK(W[s]) /\ W[s].st = ws[s].st
                            /\ ws[s].signalled => W[s].signalled
                            /\ ws[s].st # "open" => W[s].signalled = ws[s].signalled
                                                    /\ W[s].told = "none"
  <2> SUFFICES ASSUME NEW s \in Sockets
               PROVE  /\ SocketOK(W[s]) /\ W[s].st = ws[s].st
                      /\ ws[s].signalled => W[s].signalled
                      /\ ws[s].st # "open" => W[s].signalled = ws[s].signalled
                                              /\ W[s].told = "none"
    OBVIOUS
  <2>1. SocketOK(ws[s]) /\ ws[s].told = "none" /\ W[s] = TerminalSocket(ws[s])
    BY <1>1 DEF PoolInv, SocketInv
  <2> QED
    BY <2>1, TerminalSocketOK
<1>7. Chargeable(W) = Chargeable(ws)
  <2>1. \A s \in Sockets : ws[s].told = "none"
    BY <1>1 DEF PoolInv, SocketInv
  <2> QED
    BY <1>6, <2>1 DEF Chargeable
<1>8. Tracked(W) = Tracked(ws)
  BY <1>6 DEF Tracked
<1>9. metrics \in Tally
  BY DEF PoolInv, Base
<1> HIDE DEF R, W, f, g, t, m
<1>10. /\ m \in Tally /\ m.signalled = g /\ m.tunnelled = t
       /\ m.wsAtStart = metrics.wsAtStart /\ m.peerClosed = metrics.peerClosed
       /\ m.httpAtStart = metrics.httpAtStart
  <2> DEFINE u == metrics.httpForced + f
  <2>1. u \in Nat /\ m = [metrics EXCEPT !.httpForced = u, !.signalled = g, !.tunnelled = t]
    BY <1>3, <1>5, <1>9 DEF Tally
  <2> HIDE DEF u
  <2>2. m.signalled = g /\ m.tunnelled = t
        /\ m.wsAtStart = metrics.wsAtStart /\ m.peerClosed = metrics.peerClosed
        /\ m.httpAtStart = metrics.httpAtStart
    BY <1>9, <2>1 DEF Tally
  <2>3. m \in Tally
    BY <1>4, <1>9, <2>1 DEF Tally
  <2> QED
    BY <2>2, <2>3
<1>11. Counted(m) = Counted(metrics) + f
  <2>1. m.completed = metrics.completed /\ m.clientClosed = metrics.clientClosed
        /\ m.sseEnded = metrics.sseEnded /\ m.sseForced = metrics.sseForced
        /\ m.httpForced = metrics.httpForced + f
    BY <1>5, <1>9 DEF Tally
  <2>2. {metrics.completed, metrics.clientClosed, metrics.sseEnded, metrics.sseForced,
         metrics.httpForced} \subseteq Nat
    BY <1>9 DEF Tally
  <2> QED
    BY <1>3, <2>1, <2>2 DEF Counted
<1>12. Balanced(R, m)
  BY <1>3, <1>10, <1>11 DEF Balanced
<1>13. /\ m.peerClosed + Cardinality(Chargeable(W)) <= m.wsAtStart
       /\ m.wsAtStart <= m.peerClosed + Cardinality(Tracked(W))
  BY <1>1, <1>7, <1>8, <1>10 DEF PoolInv, SocketInv
<1>14. m.signalled = Told(W, "going-away") /\ m.tunnelled = Told(W, "relay")
  BY <1>10 DEF g, t
<1>15. CASE Sweep(R, W, m)
  BY <1>3, <1>6, <1>10, <1>12, <1>13, <1>14, <1>15, SweepKeeps
<1>16. CASE phase' = "flush" /\ resp' = R /\ ws' = W /\ metrics' = m
  <2>1. HttpInv'
    BY <1>3, <1>12, <1>16 DEF HttpInv
  <2>2. SocketInv'
    BY <1>6, <1>13, <1>14, <1>16 DEF SocketInv
  <2> QED
    BY <1>10, <1>16, <2>1, <2>2 DEF PoolInv, Base
<1> QED
  BY <1>2, <1>15, <1>16

(* The end of the flush window. *)
LEMMA FlushKeeps ==
    ASSUME PoolInv, FlushEnds
    PROVE  PoolInv'
<1>1. phase = "flush" /\ draining /\ Sweep(resp, ws, metrics)
  BY DEF FlushEnds, draining
<1>2. resp \in [Responses -> RespRecord] /\ metrics \in Tally
      /\ (\A r \in Responses : RespOK(resp[r])) /\ Balanced(resp, metrics)
  BY <1>1 DEF PoolInv, HttpInv, Base
<1>3. /\ DOMAIN ws = Sockets /\ \A s \in Sockets : SocketOK(ws[s])
      /\ metrics.signalled = Told(ws, "going-away") /\ metrics.tunnelled = Told(ws, "relay")
      /\ metrics.peerClosed + Cardinality(Chargeable(ws)) <= metrics.wsAtStart
      /\ metrics.wsAtStart <= metrics.peerClosed + Cardinality(Tracked(ws))
  BY <1>1 DEF PoolInv, SocketInv
<1> QED
  BY <1>1, <1>2, <1>3, SweepKeeps
-----------------------------------------------------------------------------
(* Every step of a response keeps the accounts. *)
LEMMA HttpSteps ==
    ASSUME PoolInv, NEW r \in Responses, Http(r)
    PROVE  PoolInv'
<1> DEFINE x == resp[r]
<1>1. x \in RespRecord /\ RespOK(x) /\ HttpInv /\ resp \in [Responses -> RespRecord]
  BY DEF PoolInv, HttpInv
<1>2. ASSUME ws' = ws, phase' = phase, metrics' = metrics
      PROVE  Base' /\ SocketInv'
  <2>1. Base'
    BY <1>2 DEF PoolInv, Base
  <2>2. SocketInv'
    BY <1>2 DEF PoolInv, SocketInv, SocketOK, draining, Told, Chargeable, Tracked
  <2> QED
    BY <2>1, <2>2
<1>3. ASSUME NEW y, resp' = [resp EXCEPT ![r] = y], RespOK(y), y.action = x.action,
             y.st = x.st \/ ~draining, ws' = ws, phase' = phase, metrics' = metrics
      PROVE  PoolInv'
  BY <1>1, <1>2, <1>3, HttpEdit DEF PoolInv
<1>4. CASE Request(r)
  <2> DEFINE y == [x EXCEPT !.st = "active"]
  <2>1. resp' = [resp EXCEPT ![r] = y] /\ ~draining
        /\ ws' = ws /\ phase' = phase /\ metrics' = metrics
    BY <1>4 DEF Request
  <2>2. RespOK(y) /\ y.action = x.action
    BY <1>1 DEF RespOK, RespRecord
  <2> QED
    BY <1>3, <2>1, <2>2
<1>5. ASSUME Running(r)
      PROVE  /\ ws' = ws /\ phase' = phase /\ metrics' = metrics
             /\ x.st = "active" /\ ~x.ended /\ x.action # "end-sse"
  BY <1>1, <1>5 DEF Running, RespOK
<1>6. ASSUME NEW t \in ContentTypes, SetHeader(r, t)
      PROVE  PoolInv'
  <2> DEFINE y == [x EXCEPT !.ctype = t, !.eventStream = (t = "sse")]
  <2>1. resp' = [resp EXCEPT ![r] = y]
    BY <1>6 DEF SetHeader
  <2>2. RespOK(y) /\ y.action = x.action /\ y.st = x.st
    BY <1>1, <1>5, <1>6 DEF SetHeader, RespOK, RespRecord
  <2>3. Running(r)
    BY <1>6 DEF SetHeader
  <2> HIDE DEF y
  <2> QED
    BY <1>3, <1>5, <2>1, <2>2, <2>3
<1>7. CASE RemoveHeader(r)
  <2> DEFINE y == [x EXCEPT !.ctype = "none", !.eventStream = FALSE]
  <2>1. resp' = [resp EXCEPT ![r] = y] /\ Running(r)
    BY <1>7 DEF RemoveHeader
  <2>2. RespOK(y) /\ y.action = x.action /\ y.st = x.st
    BY <1>1, <1>5, <2>1 DEF RespOK, RespRecord, ContentTypes
  <2> HIDE DEF y
  <2> QED
    BY <1>3, <1>5, <2>1, <2>2
<1>8. ASSUME NEW t \in ContentTypes, x.action # "end-sse"
      PROVE  LET y == Committed(x, t)
             IN  RespOK(y) /\ y.action = x.action /\ y.st = x.st
  <2>1. CASE t = "none"
    BY <1>1, <1>8, <2>1 DEF Committed, RespOK, RespRecord
  <2>2. CASE t # "none"
    BY <1>1, <1>8, <2>2 DEF Committed, RespOK, RespRecord
  <2> QED
    BY <2>1, <2>2
<1>9. ASSUME NEW t \in ContentTypes, WriteHead(r, t)
      PROVE  PoolInv'
  <2>1. resp' = [resp EXCEPT ![r] = Committed(x, t)] /\ Running(r)
    BY <1>9 DEF WriteHead
  <2> DEFINE y == Committed(x, t)
  <2>2. RespOK(y) /\ y.action = x.action /\ y.st = x.st
    BY <1>5, <1>8, <2>1
  <2> HIDE DEF y
  <2> QED
    BY <1>3, <1>5, <2>1, <2>2 DEF y
<1>10. ASSUME NEW z, RespOK(z), z.action = x.action, z.st = x.st
       PROVE  LET y == [z EXCEPT !.ended = TRUE]
              IN  RespOK(y) /\ y.action = x.action /\ y.st = x.st
  BY <1>10 DEF RespOK, RespRecord
<1>11. CASE HandlerEnds(r)
  <2> DEFINE y == [x EXCEPT !.ended = TRUE]
  <2>1. resp' = [resp EXCEPT ![r] = y] /\ Running(r)
    BY <1>11 DEF HandlerEnds
  <2>2. RespOK(y) /\ y.action = x.action /\ y.st = x.st
    BY <1>1, <1>10
  <2> HIDE DEF y
  <2> QED
    BY <1>3, <1>5, <2>1, <2>2
<1>12. CASE HandlerThrows(r)
  <2> DEFINE z == IF x.headersSent THEN x ELSE Committed(x, "finite")
             y == [z EXCEPT !.ended = TRUE]
  <2>1. resp' = [resp EXCEPT ![r] = y] /\ Running(r)
    BY <1>12 DEF HandlerThrows
  <2>2. RespOK(z) /\ z.action = x.action /\ z.st = x.st
    BY <1>1, <1>5, <1>8, <2>1 DEF ContentTypes
  <2>3. RespOK(y) /\ y.action = x.action /\ y.st = x.st
    BY <1>10, <2>2
  <2> HIDE DEF y
  <2> QED
    BY <1>3, <1>5, <2>1, <2>3
<1>13. CASE ClientLeaves(r)
  <2> DEFINE y == [x EXCEPT !.dead = TRUE]
  <2>1. resp' = [resp EXCEPT ![r] = y] /\ ws' = ws /\ phase' = phase /\ metrics' = metrics
    BY <1>13 DEF ClientLeaves
  <2>2. RespOK(y) /\ y.action = x.action /\ y.st = x.st
    BY <1>1 DEF RespOK, RespRecord
  <2> HIDE DEF y
  <2> QED
    BY <1>3, <2>1, <2>2
<1>14. ASSUME NEW finished \in BOOLEAN, Settle(r, finished)
       PROVE  PoolInv'
  <2>1. HttpInv' /\ metrics' \in Tally
    BY <1>14, HttpSettle
  <2>2. ws' = ws /\ phase' = phase
    BY <1>14 DEF Settle
  <2>3. metrics' = SettledMetrics(metrics, x, finished)
    BY <1>14 DEF Settle
  <2>4. /\ metrics'.wsAtStart = metrics.wsAtStart /\ metrics'.peerClosed = metrics.peerClosed
        /\ metrics'.signalled = metrics.signalled /\ metrics'.tunnelled = metrics.tunnelled
    <3>1. x.action \in {"none", "end-sse", "force-close"} /\ (~draining => x.action = "none")
      BY <1>1 DEF RespRecord, HttpInv, draining
    <3>2. metrics' \in {metrics, [metrics EXCEPT !.sseEnded = @ + 1],
                        [metrics EXCEPT !.completed = @ + 1],
                        [metrics EXCEPT !.clientClosed = @ + 1]}
      BY <2>3, <3>1 DEF SettledMetrics
    <3> QED
      BY <3>2 DEF PoolInv, Base, Tally
  <2>5. SocketInv'
    BY <2>2, <2>4 DEF PoolInv, SocketInv, SocketOK, draining, Told, Chargeable, Tracked
  <2> QED
    BY <2>1, <2>2, <2>5 DEF PoolInv, Base
<1>15. CASE Finish(r) \/ Close(r)
  BY <1>14, <1>15 DEF Finish, Close
<1> QED
  BY <1>4, <1>6, <1>7, <1>9, <1>11, <1>12, <1>13, <1>15 DEF Http

(* Every step of an upgraded socket keeps the accounts. *)
LEMMA SocketSteps ==
    ASSUME PoolInv, NEW s \in Sockets, Socket(s)
    PROVE  PoolInv'
<1> DEFINE x == ws[s]
<1>1. SocketOK(x) /\ DOMAIN ws = Sockets
  BY DEF PoolInv, SocketInv
<1>2. ASSUME resp' = resp, phase' = phase, metrics' = metrics
      PROVE  Base' /\ HttpInv'
  BY <1>2, HttpStill DEF PoolInv, Base
<1>3. ASSUME NEW y, ws' = [ws EXCEPT ![s] = y], SocketOK(y), y.st = x.st, y.told = x.told,
             x.signalled => y.signalled, SocketStep(s), metrics' = metrics
      PROVE  PoolInv'
  <2>1. x.st = "open" /\ resp' = resp /\ phase' = phase
    BY <1>3 DEF SocketStep
  <2>2. SocketInv'
    BY <1>3, <2>1, SocketEdit
  <2> QED
    BY <1>2, <1>3, <2>1, <2>2 DEF PoolInv
<1>4. CASE Upgrade(s)
  <2> DEFINE y == [x EXCEPT !.st = "open", !.stage = "resolve"]
  <2>1. ws' = [ws EXCEPT ![s] = y] /\ ~draining
        /\ resp' = resp /\ phase' = phase /\ metrics' = metrics
    BY <1>4 DEF Upgrade
  <2>2. SocketOK(y) /\ y.told = x.told
    BY <1>1 DEF SocketOK, SocketFields
  <2> HIDE DEF y
  <2>3. DOMAIN ws' = Sockets /\ \A q \in Sockets : SocketOK(ws'[q]) /\ ws'[q].told = ws[q].told
    BY <1>1, <2>1, <2>2 DEF PoolInv, SocketInv
  <2>4. SocketInv'
    BY <2>1, <2>3 DEF PoolInv, SocketInv, draining
  <2> QED
    BY <1>2, <2>1, <2>4 DEF PoolInv
<1>5. CASE Advance(s)
  <2>1. PICK next \in Stages : ws' = [ws EXCEPT ![s].stage = next]
    BY <1>5 DEF Advance
  <2> DEFINE y == [x EXCEPT !.stage = next]
  <2>2. ws' = [ws EXCEPT ![s] = y] /\ SocketStep(s) /\ metrics' = metrics
    BY <1>5, <2>1 DEF Advance
  <2>3. SocketOK(y) /\ y.st = x.st /\ y.told = x.told /\ y.signalled = x.signalled
    BY <1>1 DEF SocketOK, SocketFields
  <2> HIDE DEF y
  <2> QED
    BY <1>3, <2>2, <2>3
<1>6. CASE Reject(s)
  <2> DEFINE y == [x EXCEPT !.stage = "replying", !.ended = TRUE]
  <2>2. ws' = [ws EXCEPT ![s] = y] /\ SocketStep(s) /\ metrics' = metrics
    BY <1>6 DEF Reject
  <2>3. SocketOK(y) /\ y.st = x.st /\ y.told = x.told /\ y.signalled = x.signalled
    BY <1>1 DEF SocketOK, SocketFields
  <2> HIDE DEF y
  <2> QED
    BY <1>3, <2>2, <2>3
<1>7. CASE RelayRejection(s)
  <2>1. PICK cut \in BOOLEAN :
          ws' = [ws EXCEPT ![s].stage = "settled", ![s].dead = @ \/ cut, ![s].ended = @ \/ ~cut]
    BY <1>7 DEF RelayRejection
  <2> DEFINE y == [x EXCEPT !.stage = "settled", !.dead = @ \/ cut, !.ended = @ \/ ~cut]
  <2>2. ws' = [ws EXCEPT ![s] = y] /\ SocketStep(s) /\ metrics' = metrics
    BY <1>7, <2>1 DEF RelayRejection
  <2>3. SocketOK(y) /\ y.st = x.st /\ y.told = x.told /\ y.signalled = x.signalled
    BY <1>1 DEF SocketOK, SocketFields
  <2> HIDE DEF y
  <2> QED
    BY <1>3, <2>2, <2>3
<1>8. CASE ReplyFlushed(s) \/ HandlerDeclines(s)
  <2> DEFINE y == RejectedSocket(x)
  <2>2. ws' = [ws EXCEPT ![s] = y] /\ SocketStep(s) /\ metrics' = metrics
    BY <1>8 DEF ReplyFlushed, HandlerDeclines
  <2>3. SocketOK(y) /\ y.st = x.st /\ y.told = x.told /\ (x.signalled => y.signalled)
    <3>0. x.st = "open"
      BY <2>2 DEF SocketStep
    <3>1. CASE ~x.dead /\ ~x.ended
      <4>1. y = [x EXCEPT !.stage = "settled", !.signalled = TRUE, !.ended = TRUE]
        BY <3>1 DEF RejectedSocket
      <4> QED
        BY <1>1, <3>0, <4>1 DEF SocketOK, SocketFields
    <3>2. CASE ~(~x.dead /\ ~x.ended)
      <4>1. y = [x EXCEPT !.stage = "settled"]
        BY <3>2 DEF RejectedSocket
      <4> QED
        BY <1>1, <4>1 DEF SocketOK, SocketFields
    <3> QED
      BY <3>1, <3>2
  <2> HIDE DEF y
  <2> QED
    BY <1>3, <2>2, <2>3
<1>9. CASE HandlerAccepts(s)
  <2> DEFINE y == [x EXCEPT !.stage = "settled", !.own = "local"]
  <2>2. ws' = [ws EXCEPT ![s] = y] /\ SocketStep(s) /\ metrics' = metrics
    BY <1>9 DEF HandlerAccepts
  <2>3. SocketOK(y) /\ y.st = x.st /\ y.told = x.told /\ y.signalled = x.signalled
    BY <1>1 DEF SocketOK, SocketFields
  <2> HIDE DEF y
  <2> QED
    BY <1>3, <2>2, <2>3
<1>10. CASE UpgradeFails(s)
  <2> DEFINE y == [x EXCEPT !.stage = "settled", !.dead = TRUE]
  <2>2. ws' = [ws EXCEPT ![s] = y] /\ SocketStep(s) /\ metrics' = metrics
    BY <1>10 DEF UpgradeFails
  <2>3. SocketOK(y) /\ y.st = x.st /\ y.told = x.told /\ y.signalled = x.signalled
    BY <1>1 DEF SocketOK, SocketFields
  <2> HIDE DEF y
  <2> QED
    BY <1>3, <2>2, <2>3
<1>11. ASSUME NEW z, SocketOK(z), NEW n
       PROVE  LET y == Relayed(z, n)
              IN  SocketOK(y) /\ y.st = z.st /\ y.told = z.told /\ y.signalled = z.signalled
  <2> DEFINE p == z.pos + n
             u == Observe(z.cursor, SubSeq(FlattenSeq(z.stream), z.pos + 1, z.pos + n))
  <2>1. Relayed(z, n) = [z EXCEPT !.pos = p, !.cursor = u]
    BY DEF Relayed
  <2> HIDE DEF p, u
  <2> QED
    BY <1>11, <2>1 DEF SocketOK, SocketFields
<1>12. CASE ProxyUpgraded(s)
  <2>1. PICK stream \in Streams :
          LET z == [ws[s] EXCEPT !.stage = "settled", !.own = "tunnel", !.stream = stream]
          IN \E n \in 0..Left(z) : ws' = [ws EXCEPT ![s] = Relayed(z, n)]
    BY <1>12 DEF ProxyUpgraded
  <2> DEFINE z == [x EXCEPT !.stage = "settled", !.own = "tunnel", !.stream = stream]
  <2>2. PICK n \in 0..Left(z) : ws' = [ws EXCEPT ![s] = Relayed(z, n)]
    BY <2>1
  <2>3. SocketOK(z) /\ z.st = x.st /\ z.told = x.told /\ z.signalled = x.signalled
    BY <1>1 DEF SocketOK, SocketFields
  <2>4. SocketStep(s) /\ metrics' = metrics
    BY <1>12 DEF ProxyUpgraded
  <2> HIDE DEF z
  <2> QED
    BY <1>3, <1>11, <2>2, <2>3, <2>4
<1>13. CASE RelayChunk(s)
  <2>1. PICK n \in 1..Left(ws[s]) : ws' = [ws EXCEPT ![s] = Relayed(x, n)]
    BY <1>13 DEF RelayChunk
  <2>2. SocketStep(s) /\ metrics' = metrics
    BY <1>13 DEF RelayChunk
  <2> QED
    BY <1>1, <1>3, <1>11, <2>1, <2>2
<1>14. CASE PeerLeaves(s)
  <2> DEFINE y == [x EXCEPT !.dead = TRUE, !.gone = TRUE]
  <2>2. ws' = [ws EXCEPT ![s] = y] /\ SocketStep(s) /\ metrics' = metrics
    BY <1>14 DEF PeerLeaves
  <2>3. SocketOK(y) /\ y.st = x.st /\ y.told = x.told /\ y.signalled = x.signalled
    BY <1>1 DEF SocketOK, SocketFields
  <2> HIDE DEF y
  <2> QED
    BY <1>3, <2>2, <2>3
<1>15. CASE SocketClose(s)
  <2>1. SocketInv' /\ metrics' \in Tally /\ metrics'.httpAtStart = metrics.httpAtStart
        /\ Counted(metrics') = Counted(metrics)
    BY <1>15, SocketCloses
  <2>2. resp' = resp /\ phase' = phase
    BY <1>15 DEF SocketClose, SocketStep
  <2>3. HttpInv'
    BY <2>1, <2>2, HttpStill DEF PoolInv
  <2> QED
    BY <2>1, <2>2, <2>3 DEF PoolInv, Base
<1> QED
  BY <1>4, <1>5, <1>6, <1>7, <1>8, <1>9, <1>10, <1>12, <1>13, <1>14, <1>15 DEF Socket

(* Every step of a pool pod keeps the accounts. *)
LEMMA PoolSteps ==
    ASSUME PoolInv, Next \/ UNCHANGED vars
    PROVE  PoolInv'
<1>1. ASSUME resp' = resp, ws' = ws, metrics' = metrics,
             phase' = phase \/ (phase = "closing" /\ phase' = "done")
      PROVE  PoolInv'
  <2>1. HttpInv'
    BY <1>1, HttpStill DEF PoolInv, draining
  <2>2. SocketInv'
    BY <1>1 DEF PoolInv, SocketInv, SocketOK, draining, Told, Chargeable, Tracked
  <2> QED
    BY <1>1, <2>1, <2>2 DEF PoolInv, Base
<1>2. CASE Listen \/ VerifyOutputs \/ SigtermEarly \/ ImageWorkSettles \/ Exited
  BY <1>1, <1>2 DEF Listen, VerifyOutputs, SigtermEarly, ImageWorkSettles, Exited, vars
<1>3. CASE ServerCloses \/ StopSettles \/ Exit \/ HardExit
  BY <1>1, <1>3 DEF ServerCloses, StopSettles, Exit, HardExit
<1>4. CASE UNCHANGED vars
  BY <1>1, <1>4 DEF vars
<1>5. CASE Drain
  BY <1>3, <1>5, DrainStarts, GraceKeeps, FlushKeeps DEF Drain
<1>6. CASE \E r \in Responses : Http(r)
  BY <1>6, HttpSteps
<1>7. CASE \E s \in Sockets : Socket(s)
  BY <1>7, SocketSteps
<1> QED
  BY <1>2, <1>4, <1>5, <1>6, <1>7 DEF Next

(* Balanced accounts are what the "drain complete" line promises. *)
LEMMA PoolAccounts ==
    ASSUME PoolInv
    PROVE  DrainAccounting /\ EofOnlyForEventStreams
<1>1. HttpAccounting
  <2>1. {r \in Active : resp[r].action # "force-close"} = Pending(resp)
    BY DEF Active, Pending
  <2> QED
    BY <2>1 DEF PoolInv, HttpInv, Balanced, Counted, HttpAccounting
<1>2. SocketAccounting
  <2> SUFFICES ASSUME draining PROVE SocketAccounting
    BY DEF SocketAccounting
  <2> DEFINE away == {s \in Sockets : ws[s].told = "going-away"}
             cut == {s \in Sockets : ws[s].told = "relay"}
             ended == {s \in Sockets : ws[s].st # "new" /\ ws[s].signalled
                                       /\ ws[s].told \in {"none", "http"}}
             quiet == {s \in Open : ~ws[s].signalled}
             A == Tracked(ws)
             B == A \ away
             C == B \ cut
             m == metrics
  <2>1. \A s \in Sockets : SocketOK(ws[s])
    BY DEF PoolInv, SocketInv
  <2>2. away \subseteq Chargeable(ws) /\ cut \subseteq Chargeable(ws) \ away
    BY DEF Chargeable
  <2>3. away \subseteq A /\ cut \subseteq B /\ ended \subseteq C /\ C \ ended = quiet
    BY <2>1 DEF Tracked, SocketOK, Open
  <2>4. /\ IsFiniteSet(Chargeable(ws)) /\ IsFiniteSet(Chargeable(ws) \ away)
        /\ IsFiniteSet(A) /\ IsFiniteSet(B) /\ IsFiniteSet(C)
    BY Sizes DEF Chargeable, Tracked
  <2>5. /\ m.signalled = Cardinality(away) /\ m.tunnelled = Cardinality(cut)
        /\ m.peerClosed + Cardinality(Chargeable(ws)) <= m.wsAtStart
        /\ m.wsAtStart <= m.peerClosed + Cardinality(A)
        /\ m.peerClosed \in Nat /\ m.wsAtStart \in Nat
    BY DEF PoolInv, SocketInv, Base, Tally, Told
  <2> HIDE DEF away, cut, ended, quiet, A, m
  <2>6. /\ Cardinality(Chargeable(ws)) = Cardinality(away) + Cardinality(Chargeable(ws) \ away)
        /\ Cardinality(away) \in Nat /\ Cardinality(Chargeable(ws) \ away) \in Nat
    BY <2>2, <2>4, Split
  <2>7. /\ Cardinality(Chargeable(ws) \ away)
             = Cardinality(cut) + Cardinality((Chargeable(ws) \ away) \ cut)
        /\ Cardinality(cut) \in Nat /\ Cardinality((Chargeable(ws) \ away) \ cut) \in Nat
    BY <2>2, <2>4, Split
  <2>8. Cardinality(A) = Cardinality(away) + Cardinality(B) /\ Cardinality(B) \in Nat
    BY <2>3, <2>4, Split
  <2> HIDE DEF B
  <2>9. Cardinality(B) = Cardinality(cut) + Cardinality(C) /\ Cardinality(C) \in Nat
    BY <2>3, <2>4, Split
  <2> HIDE DEF C
  <2>10. Cardinality(C) = Cardinality(ended) + Cardinality(C \ ended)
         /\ Cardinality(ended) \in Nat /\ Cardinality(C \ ended) \in Nat
    BY <2>3, <2>4, Split
  <2>11. Cardinality(C) = Cardinality(ended) + Cardinality(quiet) /\ Cardinality(quiet) \in Nat
    BY <2>3, <2>10
  <2>12. m.peerClosed + m.signalled + m.tunnelled <= m.wsAtStart
    BY <2>5, <2>6, <2>7
  <2>13. m.wsAtStart <= m.peerClosed + m.signalled + m.tunnelled + Cardinality(ended)
                        + Cardinality(quiet)
    BY <2>5, <2>6, <2>7, <2>8, <2>9, <2>10, <2>11
  <2> QED
    BY <2>12, <2>13 DEF SocketAccounting, ended, quiet, m
<1>3. EofOnlyForEventStreams
  BY DEF PoolInv, HttpInv, RespOK, EofOnlyForEventStreams
<1> QED
  BY <1>1, <1>2, <1>3 DEF DrainAccounting
-----------------------------------------------------------------------------
(* The routing pod: every step keeps the order of its drain. *)
LEMMA RoutingSteps ==
    ASSUME RoutingInv, Routing!Next \/ UNCHANGED routing
    PROVE  RoutingInv'
<1> USE RoutingAssumption DEF RoutingInv, Routing!Serving
<1>1. CASE Routing!Start \/ Routing!HealthServerStarts
  BY <1>1 DEF Routing!Start, Routing!HealthServerStarts
<1>2. CASE Routing!PreStop
  BY <1>2 DEF Routing!PreStop, Routing!beginDrain
<1>3. CASE Routing!Sigterm
  BY <1>3 DEF Routing!Sigterm, Routing!beginDrain
<1>4. CASE Routing!Tick
  BY <1>4 DEF Routing!Tick
<1>5. CASE Routing!ListenerCloses
  BY <1>5 DEF Routing!ListenerCloses
<1>6. CASE Routing!GraceDeadline
  BY <1>6 DEF Routing!GraceDeadline
<1>7. CASE Routing!ServerClosed
  BY <1>7 DEF Routing!ServerClosed
<1>8. CASE Routing!Exit \/ Routing!HealthRequest \/ Routing!HealthRequestEnds
  BY <1>8 DEF Routing!Exit, Routing!HealthRequest, Routing!HealthRequestEnds
<1>9. CASE Routing!Exited \/ UNCHANGED routing
  BY <1>9 DEF Routing!Exited, Routing!routingVars, routing
<1>10. ASSUME NEW k \in Connections,
              Routing!Connect(k) \/ Routing!SessionOpens(k) \/ Routing!PeerCloses(k)
              \/ Routing!SessionEnds(k)
       PROVE  RoutingInv'
  <2>1. CASE Routing!Connect(k)
    BY <2>1 DEF Routing!Connect, Routing!Accepting
  <2>2. CASE Routing!SessionOpens(k)
    BY <2>2 DEF Routing!SessionOpens
  <2>3. CASE Routing!PeerCloses(k)
    BY <2>3 DEF Routing!PeerCloses
  <2>4. CASE Routing!SessionEnds(k)
    BY <2>4 DEF Routing!SessionEnds
  <2> QED
    BY <1>10, <2>1, <2>2, <2>3, <2>4
<1>11. ASSUME NEW c \in Callouts,
              Routing!CalloutArrives(c) \/ Routing!HandlerSettles(c)
              \/ Routing!BudgetSpent(c) \/ Routing!StreamEnds(c)
       PROVE  RoutingInv'
  BY <1>11 DEF Routing!CalloutArrives, Routing!HandlerSettles, Routing!BudgetSpent,
               Routing!StreamEnds
<1> QED
  BY <1>1, <1>2, <1>3, <1>4, <1>5, <1>6, <1>7, <1>8, <1>9, <1>10, <1>11 DEF Routing!Next

(* The routing pod starts before its drain. *)
LEMMA RoutingStarts ==
    Routing!Init => RoutingInv
BY RoutingAssumption DEF Routing!Init, RoutingInv
-----------------------------------------------------------------------------
(***************************************************************************)
(* The inductive invariant of a stopping pod, of either kind.              *)
(***************************************************************************)
THEOREM StopInvariant == ShutdownSpec => [](PoolInv /\ RoutingInv)
<1>1. ShutdownInit => PoolInv /\ RoutingInv
  BY PoolStarts, RoutingStarts DEF ShutdownInit
<1>2. PoolInv /\ RoutingInv /\ [PoolNext \/ RoutingNext]_allVars => (PoolInv /\ RoutingInv)'
  <2> SUFFICES ASSUME PoolInv, RoutingInv, [PoolNext \/ RoutingNext]_allVars
               PROVE  PoolInv' /\ RoutingInv'
    OBVIOUS
  <2>1. (Next \/ UNCHANGED vars) /\ (Routing!Next \/ UNCHANGED routing)
    BY DEF PoolNext, RoutingNext, allVars
  <2> QED
    BY <2>1, PoolSteps, RoutingSteps
<1> QED
  BY <1>1, <1>2, PTL DEF ShutdownSpec

(***************************************************************************)
(* The "drain complete" line of a pool pod is right: whatever was in       *)
(* flight at the signal, and in whatever order handlers end, clients       *)
(* leave, handshakes settle and the drain's timers fire, each response is  *)
(* counted in exactly one category or still open, and the socket counters  *)
(* exclude each other and miss no socket but the handshakes the server     *)
(* ended (settleResponse, the upgrade listener and stop() of server.ts).   *)
(***************************************************************************)
THEOREM DrainAccountingTheorem == ShutdownSpec => []DrainAccounting
<1>1. PoolInv /\ RoutingInv => DrainAccounting
  BY PoolAccounts
<1> QED
  BY <1>1, StopInvariant, PTL

(***************************************************************************)
(* A stop is in order: only an event stream is ever ended with a clean     *)
(* EOF, and the routing pod's listener closes after readiness has been     *)
(* withdrawn for the whole delay, with no session left unasked, whatever   *)
(* the delay and in whatever order preStop, the signal, handshakes and     *)
(* peers act (stop() of pool-server/server.ts, shutdown of                 *)
(* routing-service/index.ts).                                              *)
(***************************************************************************)
THEOREM OrderedStops == ShutdownSpec => [](EofOnlyForEventStreams /\ Routing!DrainOrdered)
<1>1. PoolInv /\ RoutingInv => EofOnlyForEventStreams /\ Routing!DrainOrdered
  BY PoolAccounts DEF RoutingInv, Routing!DrainOrdered
<1> QED
  BY <1>1, StopInvariant, PTL

=============================================================================
