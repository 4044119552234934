---------------------------- MODULE TrafficProofs ----------------------------
(***************************************************************************)
(* The data path under any wiring of queue pairs and completion queues, any*)
(* depths and any number of posts: types and counters, when a completion   *)
(* queue cannot overrun, that a queue pair with its own completion queue   *)
(* implements WriteChannel, and what the answers say on a shared one.      *)
(***************************************************************************)
EXTENDS Traffic, FiniteSetTheorems, TLAPS

-----------------------------------------------------------------------------
(* The inductive invariant.                                                *)

Wrappers ==
    [ kind : {"qp", "mr"}, made : BOOLEAN,
      state : {"RESET", "INIT", "RTR", "RTS", "none"}, peer : Id \cup {nullptr},
      send_cq : Handle \cup {nullptr}, recv_cq : Handle \cup {nullptr} ]
Requests == [from : Id, to : Id, inline : BOOLEAN, val : Nat]
Entries == [qp : Sender, ok : BOOLEAN]

TypeInv ==
    /\ use \subseteq Sender
    /\ obj \in [Node -> [Handle -> Wrappers]]
    /\ buffer \in [Id -> Nat]
    /\ req \in [Id -> Seq(Requests)]
    /\ wrote \in [Id -> Seq(Nat)]
    /\ acked \in [Id -> Nat] /\ polled \in [Id -> Nat]
    /\ cq \in [Id -> Seq(Entries)]
    /\ broken \subseteq Pair /\ overrun \subseteq Id
    /\ told \in [Id -> Seq(BOOLEAN)]
    /\ blind \subseteq Sender \X Nat

\* The wrappers are wired as the constants say.
WiredInv ==
    /\ \A q \in Pair : /\ Wrapper(q).kind = "qp"
                       /\ Wrapper(q).send_cq = send_cq[q]
                       /\ Wrapper(q).recv_cq = recv_cq[q]
                       /\ Wrapper(q).peer \in {nullptr, peer[q]}
    /\ \A r \in Id \ Pair : Wrapper(r).kind = "mr"

CountersInv ==
    \A q \in Id :
      /\ polled[q] <= acked[q] /\ acked[q] <= Len(req[q])
      /\ Len(wrote[q]) <= Len(req[q])
      /\ Len(req[q]) <= polled[q] + max_send_wr
      /\ req[q] # <<>> => q \in Sender

PostedInv ==
    \A q \in Sender :
      /\ buffer[payload[q]] <= MaxPost[q]
      /\ \A k \in 1..Len(req[q]) : req[q][k].from = payload[q] /\ req[q][k].to = target[q]

\* The completion queue of a sender.
CqOf(q) == <<q[1], send_cq[q]>>

\* The j-th entry of c completes the f[j]-th request of its queue pair.
Numbered(c, f) ==
    /\ f \in [1..Len(cq[c]) -> Nat]
    /\ \A j \in 1..Len(cq[c]) :
         /\ CqOf(cq[c][j].qp) = c
         /\ polled[cq[c][j].qp] < f[j] /\ f[j] <= acked[cq[c][j].qp]
         /\ cq[c][j].ok => f[j] <= Len(wrote[cq[c][j].qp])
    /\ \A j, k \in 1..Len(cq[c]) :
         j < k /\ cq[c][j].qp = cq[c][k].qp => f[j] < f[k] /\ (cq[c][k].ok => cq[c][j].ok)

QueuesInv == \A c \in Id : Len(cq[c]) <= cq_depth /\ \E f : Numbered(c, f)

\* A queue pair that is not broken was told no bad news.
UnbrokenInv ==
    /\ \A q \in Sender : q \notin broken => acked[q] <= Len(wrote[q])
    /\ \A c \in Id : \A j \in 1..Len(cq[c]) : cq[c][j].qp \notin broken => cq[c][j].ok

\* A poll that failed was answered.
BlindInv == \A a \in blind : a[2] \in DOMAIN told[a[1]]

TrafficInv ==
    /\ TypeInv /\ WiredInv /\ CountersInv /\ PostedInv /\ QueuesInv /\ UnbrokenInv
    /\ BlindInv /\ SizedNeverOverruns

-----------------------------------------------------------------------------
(* The constants.                                                          *)

LEMMA Wiring ==
    /\ Sender \subseteq Pair /\ Pair \subseteq Id
    /\ \A q \in Pair : q[1] \in Node /\ q[2] \in Handle /\ q = <<q[1], q[2]>>
    /\ \A q \in Pair : <<q[1], send_cq[q]>> \in Id /\ <<q[1], recv_cq[q]>> \in Id
    /\ \A q \in Pair : send_cq[q] \in Handle /\ recv_cq[q] \in Handle
    /\ \A q \in Pair : peer[q] \in Pair /\ peer[q] # q
    /\ \A q \in Sender : payload[q] \in Id /\ target[q] \in Id /\ MaxPost[q] \in Nat
    /\ \A p, q \in Sender : payload[p] # target[q] /\ (p # q => payload[p] # payload[q])
    /\ max_send_wr \in Nat \ {0} /\ cq_depth \in Nat \ {0}
BY WiringAssumption, DepthAssumption DEF Id

LEMMA IdParts == \A q \in Id : q[1] \in Node /\ q[2] \in Handle /\ q = <<q[1], q[2]>>
BY DEF Id

LEMMA SeqParts ==
  ASSUME NEW S, NEW s \in Seq(S)
  PROVE  /\ Len(s) \in Nat /\ DOMAIN s = 1..Len(s) /\ \A k \in 1..Len(s) : s[k] \in S
         /\ s # <<>> => /\ 1 \in 1..Len(s) /\ Head(s) = s[1]
                       /\ Tail(s) \in Seq(S) /\ Len(Tail(s)) = Len(s) - 1
                       /\ \A k \in 1..Len(Tail(s)) : /\ Tail(s)[k] = s[k + 1]
                                                     /\ k + 1 \in 1..Len(s) /\ 1 < k + 1
BY SMT

LEMMA AppendParts ==
  ASSUME NEW S, NEW s \in Seq(S), NEW e \in S
  PROVE  /\ Append(s, e) \in Seq(S) /\ Len(Append(s, e)) = Len(s) + 1
         /\ \A k \in 1..Len(s) : Append(s, e)[k] = s[k]
         /\ Append(s, e)[Len(s) + 1] = e /\ Append(s, e) # <<>>
         /\ \A k \in 1..Len(Append(s, e)) : k \in 1..Len(s) \/ k = Len(s) + 1
BY SMT

LEMMA UpTo ==
  ASSUME NEW n \in Nat
  PROVE  IsFiniteSet(1..n) /\ Cardinality(1..n) = n
<1>1. 1 \in Int /\ n \in Int
  OBVIOUS
<1>2. IsFiniteSet(1..n) /\ Cardinality(1..n) = IF 1 > n THEN 0 ELSE n - 1 + 1
  BY <1>1, FS_Interval
<1> QED
  BY <1>2

LEMMA QueuesUnchanged ==
  ASSUME QueuesInv, UnbrokenInv, UNCHANGED <<cq, polled, acked, wrote, broken>>
  PROVE  QueuesInv' /\ UnbrokenInv'
<1>1. ASSUME NEW c, NEW f, Numbered(c, f)
      PROVE  Numbered(c, f)'
  BY <1>1 DEF Numbered
<1> QED
  BY <1>1 DEF QueuesInv, UnbrokenInv

LEMMA TrafficInitially == Init => TrafficInv
<1> SUFFICES ASSUME Init PROVE TrafficInv
  OBVIOUS
<1>1. \A q \in Id : /\ buffer[q] = 0 /\ req[q] = <<>> /\ wrote[q] = <<>>
                    /\ acked[q] = 0 /\ polled[q] = 0 /\ cq[q] = <<>> /\ told[q] = <<>>
  BY DEF Init, DataInit
<1>2. \A q \in Id : /\ q \in Pair => \E s \in {"INIT", "RESET"} : Wrapper(q) = PairAt(q, s, nullptr)
                    /\ q \notin Pair => Wrapper(q) = Region(q)
  BY IdParts DEF Init, Wrapper
<1>3. \A q \in Pair : \A s \in {"INIT", "RESET"} : PairAt(q, s, nullptr) \in Wrappers
  BY Wiring DEF PairAt, Wrappers
<1>4. \A r : Region(r) \in Wrappers
  BY DEF Region, Wrappers
<1>5. obj \in [Node -> [Handle -> Wrappers]]
  <2>1. \A n \in Node, h \in Handle : <<n, h>> \in Id /\ obj[n][h] = Wrapper(<<n, h>>)
    BY DEF Id, Wrapper
  <2>2. \A n \in Node, h \in Handle : obj[n][h] \in Wrappers
    BY <2>1, <1>2, <1>3, <1>4
  <2>3. obj = [n \in Node |-> [h \in Handle |-> obj[n][h]]]
    BY DEF Init
  <2> QED
    BY <2>2, <2>3
<1>6. TypeInv
  <2>1. use \subseteq Sender
    BY WiringAssumption DEF Init
  <2>2. /\ buffer \in [Id -> Nat]
        /\ req \in [Id -> Seq(Requests)] /\ wrote \in [Id -> Seq(Nat)]
        /\ cq \in [Id -> Seq(Entries)] /\ told \in [Id -> Seq(BOOLEAN)]
        /\ acked \in [Id -> Nat] /\ polled \in [Id -> Nat]
    BY DEF Init, DataInit
  <2>3. broken = {} /\ overrun = {} /\ blind = {}
    BY DEF Init, DataInit
  <2> QED
    BY <1>5, <2>1, <2>2, <2>3 DEF TypeInv
<1>7. WiredInv
  BY <1>2, Wiring DEF WiredInv, PairAt, Region
<1>8. CountersInv /\ PostedInv /\ UnbrokenInv
  BY <1>1, Wiring DEF CountersInv, PostedInv, UnbrokenInv
<1>9. QueuesInv
  <2>1. \A c \in Id : Numbered(c, [j \in 1..0 |-> 0])
    BY <1>1 DEF Numbered
  <2>2. \A c \in Id : Len(cq[c]) <= cq_depth
    BY <1>1, Wiring
  <2> QED
    BY <2>1, <2>2 DEF QueuesInv
<1>10. BlindInv /\ SizedNeverOverruns
  BY DEF Init, DataInit, BlindInv, SizedNeverOverruns
<1> QED
  BY <1>6, <1>7, <1>8, <1>9, <1>10 DEF TrafficInv

-----------------------------------------------------------------------------
(* The calls of the application.                                           *)

LEMMA Cqs ==
  ASSUME WiredInv
  PROVE  \A q \in Pair : /\ Wrapper(q).kind = "qp"
                         /\ SendCq(q) = CqOf(q) /\ CqOf(q) \in Id
                         /\ RecvCq(q) = <<q[1], recv_cq[q]>> /\ RecvCq(q) \in Id
                         /\ Wrapper(q).peer \in {nullptr, peer[q]}
BY Wiring DEF WiredInv, SendCq, RecvCq, CqOf

LEMMA ConnectPreserves ==
  ASSUME TrafficInv, NEW q \in Pair, Connect(q)
  PROVE  TrafficInv'
<1> USE DEF TrafficInv
<1>1. PICK state \in {"RTS", "RTR"} :
         obj' = [obj EXCEPT ![q[1]][q[2]] = PairAt(q, state, peer[q])]
  BY DEF Connect
<1>2. UNCHANGED <<use, buffer, req, wrote, acked, polled, cq, broken, overrun, told, blind>>
  BY DEF Connect, dataVars
<1>3. obj \in [Node -> [Handle -> Wrappers]]
  BY DEF TypeInv
<1>4. PairAt(q, state, peer[q]) \in Wrappers
  BY Wiring DEF PairAt, Wrappers
<1>5. obj' \in [Node -> [Handle -> Wrappers]]
  BY <1>1, <1>3, <1>4, Wiring
<1>6. \A p \in Id : Wrapper(p)' = IF p = q THEN PairAt(q, state, peer[q]) ELSE Wrapper(p)
  BY <1>1, <1>3, Wiring, IdParts DEF Wrapper
<1>7. TypeInv'
  BY <1>2, <1>5 DEF TypeInv
<1>8. WiredInv'
  <2>1. \A p \in Pair : \/ p = q /\ Wrapper(p)' = PairAt(q, state, peer[q])
                        \/ Wrapper(p)' = Wrapper(p)
    BY <1>6, Wiring
  <2>2. \A r \in Id \ Pair : Wrapper(r)' = Wrapper(r)
    BY <1>6
  <2> QED
    BY <2>1, <2>2 DEF WiredInv, PairAt
<1>9. CountersInv' /\ PostedInv'
  BY <1>2 DEF CountersInv, PostedInv
<1>10. QueuesInv' /\ UnbrokenInv'
  BY <1>2, QueuesUnchanged
<1>11. BlindInv' /\ SizedNeverOverruns'
  BY <1>2 DEF BlindInv, SizedNeverOverruns
<1> QED
  BY <1>7, <1>8, <1>9, <1>10, <1>11

LEMMA RefillPreserves ==
  ASSUME TrafficInv, NEW q \in use, UNCHANGED use, Refill(q)
  PROVE  TrafficInv'
<1> USE DEF TrafficInv
<1>1. UNCHANGED <<obj, req, wrote, acked, polled, cq, broken, overrun, told, blind>>
  BY DEF Refill, Fill
<1>2. q \in Sender /\ buffer \in [Id -> Nat]
  BY DEF TypeInv
<1>3. /\ buffer' = [buffer EXCEPT ![payload[q]] = @ + 1]
      /\ buffer[payload[q]] <= Len(req[q]) /\ Len(req[q]) < MaxPost[q]
  BY DEF Refill, Fill
<1>4. req[q] \in Seq(Requests)
  BY <1>2, Wiring DEF TypeInv
<1>5. buffer[payload[q]] + 1 <= MaxPost[q]
  BY <1>2, <1>3, <1>4, Wiring
<1>6. TypeInv'
  <2>1. buffer' \in [Id -> Nat]
    BY <1>2, <1>3, Wiring
  <2> QED
    BY <1>1, <2>1 DEF TypeInv
<1>7. WiredInv' /\ CountersInv'
  BY <1>1 DEF WiredInv, Wrapper, CountersInv
<1>8. PostedInv'
  <2>1. \A p \in Sender : buffer'[payload[p]] =
            IF p = q THEN buffer[payload[q]] + 1 ELSE buffer[payload[p]]
    BY <1>2, <1>3, Wiring
  <2> QED
    BY <1>1, <1>5, <2>1 DEF PostedInv
<1>9. QueuesInv' /\ UnbrokenInv'
  BY <1>1, QueuesUnchanged
<1>10. BlindInv' /\ SizedNeverOverruns'
  BY <1>1 DEF BlindInv, SizedNeverOverruns
<1> QED
  BY <1>6, <1>7, <1>8, <1>9, <1>10

LEMMA SendPreserves ==
  ASSUME TrafficInv, NEW q \in use, UNCHANGED use, NEW inline \in Inline[q], Send(q, inline)
  PROVE  TrafficInv'
<1> USE DEF TrafficInv
<1> DEFINE r == Request(payload[q], target[q], inline)
<1>1. UNCHANGED <<obj, buffer, wrote, acked, polled, cq, broken, overrun, told, blind>>
  BY DEF Send, Post
<1>2. q \in Sender /\ q \in Id /\ q \in Pair
  BY Wiring DEF TypeInv
<1>3. CASE ~Accepts(q)
  <2>1. req' = req
    BY <1>3 DEF Send, Post
  <2>2. TypeInv' /\ WiredInv' /\ CountersInv' /\ PostedInv'
    BY <1>1, <2>1 DEF TypeInv, WiredInv, Wrapper, CountersInv, PostedInv
  <2>3. QueuesInv' /\ UnbrokenInv'
    BY <1>1, QueuesUnchanged
  <2>4. BlindInv' /\ SizedNeverOverruns'
    BY <1>1, <2>1 DEF BlindInv, SizedNeverOverruns
  <2> QED
    BY <2>2, <2>3, <2>4
<1>4. CASE Accepts(q)
  <2>1. req' = [req EXCEPT ![q] = Append(@, r)]
    BY <1>4 DEF Send, Post
  <2>2. req \in [Id -> Seq(Requests)] /\ req[q] \in Seq(Requests)
    BY <1>2 DEF TypeInv
  <2>3. inline \in BOOLEAN
    BY <1>2, WiringAssumption
  <2>4. r \in Requests /\ r.from = payload[q] /\ r.to = target[q]
    BY <1>2, <2>3, Wiring DEF TypeInv, Request, Requests
  <2>5. req'[q] = Append(req[q], r) /\ \A p \in Id : p # q => req'[p] = req[p]
    BY <1>2, <2>1, <2>2
  <2>6. /\ Len(req'[q]) = Len(req[q]) + 1 /\ req'[q] # <<>> /\ req'[q][Len(req[q]) + 1] = r
        /\ \A k \in 1..Len(req[q]) : req'[q][k] = req[q][k]
    BY <2>2, <2>4, <2>5
  <2>7. req' \in [Id -> Seq(Requests)]
    <3> HIDE DEF r
    <3>1. Append(req[q], r) \in Seq(Requests)
      BY <2>2, <2>4
    <3> QED
      BY <2>1, <2>2, <3>1
  <2>8. TypeInv' /\ WiredInv'
    BY <1>1, <2>7 DEF TypeInv, WiredInv, Wrapper
  <2>9. CountersInv'
    <3>1. /\ polled[q] \in Nat /\ acked[q] \in Nat /\ Len(req[q]) \in Nat
          /\ Len(wrote[q]) \in Nat /\ max_send_wr \in Nat
      BY <1>2, <2>2, Wiring DEF TypeInv
    <3>2. Len(req[q]) - polled[q] < max_send_wr
      BY <1>4 DEF Accepts
    <3>3. /\ polled[q] <= acked[q] /\ acked[q] <= Len(req[q])
          /\ Len(wrote[q]) <= Len(req[q])
      BY <1>2 DEF CountersInv
    <3>4. /\ acked[q] <= Len(req'[q]) /\ Len(wrote[q]) <= Len(req'[q])
          /\ Len(req'[q]) <= polled[q] + max_send_wr
      BY <3>1, <3>2, <3>3, <2>6
    <3> QED
      BY <1>1, <1>2, <2>5, <3>3, <3>4 DEF CountersInv
  <2>10. PostedInv'
    <3>1. \A k \in 1..Len(req'[q]) : k \in 1..Len(req[q]) \/ k = Len(req[q]) + 1
      BY <2>2, <2>6
    <3>2. \A k \in 1..Len(req'[q]) : req'[q][k].from = payload[q] /\ req'[q][k].to = target[q]
      BY <1>2, <2>4, <2>6, <3>1 DEF PostedInv
    <3>3. \A p \in Sender : p # q => req'[p] = req[p]
      BY <2>5, Wiring
    <3> QED
      BY <1>1, <3>2, <3>3 DEF PostedInv
  <2>11. QueuesInv' /\ UnbrokenInv' /\ SizedNeverOverruns'
    BY <1>1, QueuesUnchanged DEF SizedNeverOverruns
  <2>12. BlindInv'
    BY <1>1 DEF BlindInv
  <2> QED
    BY <2>8, <2>9, <2>10, <2>11, <2>12
<1> QED
  BY <1>3, <1>4

\* Whoever polls, the oldest entry of a completion queue frees a slot of the
\* queue pair it is of.
LEMMA ConsumePreserves ==
  ASSUME TrafficInv, NEW c \in Id, Consume(c),
         UNCHANGED <<use, obj, buffer, req, wrote, acked, broken, overrun>>,
         told' \in [Id -> Seq(BOOLEAN)], blind' \subseteq Sender \X Nat, BlindInv'
  PROVE  TrafficInv'
<1> USE DEF TrafficInv
<1> DEFINE p == Head(cq[c]).qp
<1>1. cq \in [Id -> Seq(Entries)] /\ polled \in [Id -> Nat] /\ cq[c] \in Seq(Entries) /\ cq[c] # <<>>
  BY DEF TypeInv, Consume
<1>2. Head(cq[c]) \in Entries /\ p \in Sender /\ p \in Id /\ Head(cq[c]) = cq[c][1] /\ 1 \in 1..Len(cq[c])
  <2>1. Head(cq[c]) \in Entries /\ Head(cq[c]) = cq[c][1] /\ 1 \in 1..Len(cq[c])
    BY <1>1, SeqParts
  <2> QED
    BY <2>1, Wiring DEF Entries
<1>3. /\ cq' = [cq EXCEPT ![c] = Tail(@)]
      /\ polled' = [polled EXCEPT ![p] = @ + 1]
  BY DEF Consume
<1>4. /\ cq'[c] = Tail(cq[c]) /\ \A d \in Id : d # c => cq'[d] = cq[d]
      /\ polled'[p] = polled[p] + 1 /\ \A q \in Id : q # p => polled'[q] = polled[q]
  BY <1>1, <1>2, <1>3
<1>5. /\ cq'[c] \in Seq(Entries) /\ Len(cq[c]) \in Nat /\ Len(cq'[c]) = Len(cq[c]) - 1
      /\ \A j \in 1..Len(cq'[c]) : /\ cq'[c][j] = cq[c][j + 1]
                                   /\ j + 1 \in 1..Len(cq[c]) /\ 1 < j + 1
  BY <1>1, <1>4, SeqParts
<1>6. TypeInv'
  <2>1. cq' \in [Id -> Seq(Entries)] /\ polled' \in [Id -> Nat]
    BY <1>1, <1>2, <1>3, <1>4, <1>5
  <2> QED
    BY <2>1 DEF TypeInv
<1>7. \A d \in Id : \A j \in 1..Len(cq[d]) : cq[d][j] \in Entries /\ cq[d][j].qp \in Sender
  <2>1. \A d \in Id : cq[d] \in Seq(Entries)
    BY <1>1
  <2>2. \A d \in Id : \A j \in 1..Len(cq[d]) : cq[d][j] \in Entries
    BY <2>1, SeqParts
  <2> QED
    BY <2>2 DEF Entries
<1>8. PICK f : Numbered(c, f)
  BY DEF QueuesInv
<1>9. /\ CqOf(p) = c /\ f[1] \in Nat
      /\ polled[p] < f[1] /\ f[1] <= acked[p]
  BY <1>2, <1>8 DEF Numbered
<1>10. /\ polled[p] \in Nat /\ acked[p] \in Nat /\ max_send_wr \in Nat
       /\ Len(req[p]) \in Nat
  BY <1>2, Wiring DEF TypeInv
<1>11. CountersInv'
  <2>1. acked[p] <= Len(req[p]) /\ Len(req[p]) <= polled[p] + max_send_wr
    BY <1>2 DEF CountersInv
  <2>2. polled'[p] <= acked[p] /\ Len(req[p]) <= polled'[p] + max_send_wr
    <3> HIDE DEF p, TrafficInv
    <3> QED
      BY <1>4, <1>9, <1>10, <2>1
  <2> QED
    BY <1>4, <2>2 DEF CountersInv
<1>12. WiredInv' /\ PostedInv' /\ SizedNeverOverruns'
  BY DEF WiredInv, Wrapper, PostedInv, SizedNeverOverruns
<1>13. QueuesInv'
  <2>1. ASSUME NEW d \in Id, d # c
        PROVE  Len(cq'[d]) <= cq_depth /\ \E g : Numbered(d, g)'
    <3>1. PICK g : Numbered(d, g)
      BY DEF QueuesInv
    <3>2. \A j \in 1..Len(cq[d]) : cq[d][j].qp # p /\ cq[d][j].qp \in Id
      BY <2>1, <1>9, <3>1, <1>7, Wiring DEF Numbered
    <3>3. cq'[d] = cq[d] /\ \A j \in 1..Len(cq[d]) : polled'[cq[d][j].qp] = polled[cq[d][j].qp]
      BY <1>4, <2>1, <3>2
    <3>4. Numbered(d, g)'
      BY <3>1, <3>3 DEF Numbered
    <3> QED
      BY <3>3, <3>4 DEF QueuesInv
  <2>2. Len(cq'[c]) <= cq_depth
    <3>1. Len(cq[c]) <= cq_depth
      BY DEF QueuesInv
    <3> QED
      BY <1>5, <3>1, Wiring
  <2>3. PICK g : g = [j \in 1..Len(cq'[c]) |-> f[j + 1]]
    OBVIOUS
  <2>4. g \in [1..Len(cq'[c]) -> Nat]
    BY <1>5, <1>8, <2>3 DEF Numbered
  <2>5. ASSUME NEW j \in 1..Len(cq'[c])
        PROVE  /\ CqOf(cq'[c][j].qp) = c
               /\ polled'[cq'[c][j].qp] < g[j] /\ g[j] <= acked[cq'[c][j].qp]
               /\ cq'[c][j].ok => g[j] <= Len(wrote[cq'[c][j].qp])
    <3> DEFINE e == cq[c][j + 1]
    <3>1. j + 1 \in 1..Len(cq[c]) /\ 1 < j + 1 /\ cq'[c][j] = e /\ g[j] = f[j + 1]
      BY <1>5, <2>3, <2>5
    <3>2. CqOf(e.qp) = c /\ polled[e.qp] < f[j + 1] /\ f[j + 1] <= acked[e.qp]
          /\ (e.ok => f[j + 1] <= Len(wrote[e.qp])) /\ f[j + 1] \in Nat
      BY <1>8, <3>1 DEF Numbered
    <3>3. e.qp \in Id
      BY <1>7, <3>1, Wiring
    <3>4. e.qp = p => f[1] < f[j + 1]
      BY <1>2, <1>8, <3>1 DEF Numbered
    <3>5. polled'[e.qp] < f[j + 1]
      BY <1>4, <1>9, <1>10, <3>2, <3>3, <3>4
    <3> HIDE DEF e
    <3> QED
      BY <3>1, <3>2, <3>5
  <2>6. \A j, k \in 1..Len(cq'[c]) :
          j < k /\ cq'[c][j].qp = cq'[c][k].qp
            => g[j] < g[k] /\ (cq'[c][k].ok => cq'[c][j].ok)
    <3>1. SUFFICES ASSUME NEW j \in 1..Len(cq'[c]), NEW k \in 1..Len(cq'[c]), j < k,
                          cq'[c][j].qp = cq'[c][k].qp
                   PROVE  g[j] < g[k] /\ (cq'[c][k].ok => cq'[c][j].ok)
      OBVIOUS
    <3>2. /\ j + 1 \in 1..Len(cq[c]) /\ cq'[c][j] = cq[c][j + 1] /\ g[j] = f[j + 1]
          /\ k + 1 \in 1..Len(cq[c]) /\ cq'[c][k] = cq[c][k + 1] /\ g[k] = f[k + 1]
          /\ j + 1 < k + 1
      <4>1. j \in Nat /\ k \in Nat /\ j < k
        BY <3>1
      <4>2. j + 1 < k + 1
        BY <4>1
      <4> HIDE DEF TrafficInv
      <4> QED
        BY <1>5, <2>3, <4>2
    <3>3. \A i, l \in 1..Len(cq[c]) :
            i < l /\ cq[c][i].qp = cq[c][l].qp => f[i] < f[l] /\ (cq[c][l].ok => cq[c][i].ok)
      BY <1>8 DEF Numbered
    <3> HIDE DEF TrafficInv
    <3> QED
      BY <3>1, <3>2, <3>3
  <2>7. Numbered(c, g)'
    BY <2>4, <2>5, <2>6 DEF Numbered
  <2> QED
    BY <2>1, <2>2, <2>7 DEF QueuesInv
<1>14. UnbrokenInv'
  <2>1. \A d \in Id : \A j \in 1..Len(cq'[d]) : \E k \in 1..Len(cq[d]) : cq'[d][j] = cq[d][k]
    <3>1. SUFFICES ASSUME NEW d \in Id, NEW j \in 1..Len(cq'[d])
                   PROVE  \E k \in 1..Len(cq[d]) : cq'[d][j] = cq[d][k]
      OBVIOUS
    <3>2. CASE d = c
      BY <1>5, <3>2
    <3>3. CASE d # c
      BY <1>4, <3>3
    <3> QED
      BY <3>2, <3>3
  <2> QED
    BY <2>1 DEF UnbrokenInv
<1> QED
  BY <1>6, <1>11, <1>12, <1>13, <1>14

LEMMA PollPreserves ==
  ASSUME TrafficInv, NEW q \in Sender, UNCHANGED use, Poll(q)
  PROVE  TrafficInv'
<1>1. /\ told \in [Id -> Seq(BOOLEAN)] /\ blind \subseteq Sender \X Nat /\ BlindInv
      /\ q \in Pair /\ q \in Id
  BY Wiring DEF TrafficInv, TypeInv
<1>2. SendCq(q) \in Id
  BY <1>1, Cqs DEF TrafficInv
<1>3. ASSUME NEW answer \in BOOLEAN, told' = [told EXCEPT ![q] = Append(@, answer)]
      PROVE  /\ told' \in [Id -> Seq(BOOLEAN)]
             /\ \A p \in Id : DOMAIN told[p] \subseteq DOMAIN told'[p]
             /\ Len(told[q]) + 1 \in Nat /\ Len(told[q]) + 1 \in DOMAIN told'[q]
  <2>1. /\ told[q] \in Seq(BOOLEAN) /\ told'[q] = Append(told[q], answer)
        /\ \A p \in Id : p # q => told'[p] = told[p]
    BY <1>1, <1>3
  <2>2. /\ Len(told[q]) \in Nat /\ DOMAIN told[q] = 1..Len(told[q])
        /\ told'[q] \in Seq(BOOLEAN) /\ Len(told'[q]) = Len(told[q]) + 1
        /\ DOMAIN told'[q] = 1..Len(told'[q])
    BY <2>1, AppendParts, SeqParts
  <2>3. DOMAIN told[q] \subseteq DOMAIN told'[q] /\ Len(told[q]) + 1 \in DOMAIN told'[q]
    BY <2>2
  <2> QED
    BY <1>1, <1>3, <2>1, <2>2, <2>3
<1>4. CASE Consume(SendCq(q)) /\ told' = [told EXCEPT ![q] = Append(@, Status(Head(cq[SendCq(q)])))]
           /\ UNCHANGED <<obj, buffer, req, wrote, acked, broken, overrun, blind>>
  <2>1. Head(cq[SendCq(q)]) \in Entries
    BY <1>2, <1>4 DEF TrafficInv, TypeInv, Consume
  <2>2. Status(Head(cq[SendCq(q)])) \in BOOLEAN
    BY <2>1 DEF Status, Entries
  <2>3. told' \in [Id -> Seq(BOOLEAN)] /\ \A p \in Id : DOMAIN told[p] \subseteq DOMAIN told'[p]
    BY <1>3, <1>4, <2>2
  <2>4. BlindInv' /\ blind' \subseteq Sender \X Nat
    BY <1>1, <1>4, <2>3, Wiring DEF BlindInv
  <2> QED
    BY <1>1, <1>2, <1>4, <2>3, <2>4, ConsumePreserves
<1>5. CASE \E status \in BOOLEAN : /\ told' = [told EXCEPT ![q] = Append(@, status)]
                                   /\ blind' = blind \cup {<<q, Len(told[q]) + 1>>}
                                   /\ UNCHANGED <<obj, buffer, req, wrote, acked, polled, cq, broken, overrun>>
  <2>1. /\ told' \in [Id -> Seq(BOOLEAN)]
        /\ \A p \in Id : DOMAIN told[p] \subseteq DOMAIN told'[p]
        /\ Len(told[q]) + 1 \in Nat /\ Len(told[q]) + 1 \in DOMAIN told'[q]
    BY <1>3, <1>5
  <2>2. /\ UNCHANGED <<obj, buffer, req, wrote, acked, polled, cq, broken, overrun>>
        /\ blind' = blind \cup {<<q, Len(told[q]) + 1>>}
    BY <1>5
  <2>3. blind' \subseteq Sender \X Nat
    BY <1>1, <2>1, <2>2
  <2>4. BlindInv'
    BY <1>1, <2>1, <2>2, Wiring DEF BlindInv
  <2>5. TypeInv' /\ WiredInv' /\ CountersInv' /\ PostedInv'
    BY <2>1, <2>2, <2>3 DEF TrafficInv, TypeInv, WiredInv, Wrapper, CountersInv, PostedInv
  <2>6. QueuesInv' /\ UnbrokenInv' /\ SizedNeverOverruns'
    BY <2>2, QueuesUnchanged DEF TrafficInv, SizedNeverOverruns
  <2> QED
    BY <2>4, <2>5, <2>6 DEF TrafficInv
<1> QED
  BY <1>4, <1>5 DEF Poll

\* A step that changes nothing.
LEMMA IdlePreserves ==
  ASSUME TrafficInv, UNCHANGED vars
  PROVE  TrafficInv'
<1>1. UNCHANGED <<use, obj, buffer, req, wrote, acked, polled, cq, broken, overrun, told, blind>>
  BY DEF vars
<1>2. TypeInv' /\ WiredInv' /\ CountersInv' /\ PostedInv'
  BY <1>1 DEF TrafficInv, TypeInv, WiredInv, Wrapper, CountersInv, PostedInv
<1>3. QueuesInv' /\ UnbrokenInv'
  BY <1>1, QueuesUnchanged DEF TrafficInv
<1>4. BlindInv' /\ SizedNeverOverruns'
  BY <1>1 DEF TrafficInv, BlindInv, SizedNeverOverruns
<1> QED
  BY <1>2, <1>3, <1>4 DEF TrafficInv

LEMMA RecvPollPreserves ==
  ASSUME TrafficInv, NEW q \in Pair, UNCHANGED use, RecvPoll(q)
  PROVE  TrafficInv'
<1>1. CASE UNCHANGED <<obj, dataVars>>
  BY <1>1, IdlePreserves DEF vars, dataVars
<1>2. CASE ~UNCHANGED <<obj, dataVars>>
  <2>1. RecvCq(q) \in Id /\ Consume(RecvCq(q))
    BY <1>2, Cqs DEF TrafficInv, RecvPoll
  <2>2. UNCHANGED <<obj, buffer, req, wrote, acked, broken, overrun, told, blind>>
    BY <1>2 DEF RecvPoll
  <2>3. told' \in [Id -> Seq(BOOLEAN)] /\ blind' \subseteq Sender \X Nat /\ BlindInv'
    BY <2>2 DEF TrafficInv, TypeInv, BlindInv
  <2> QED
    BY <2>1, <2>2, <2>3, ConsumePreserves
<1> QED
  BY <1>1, <1>2

-----------------------------------------------------------------------------
(* The device.                                                             *)

\* A write is of the next request of its queue pair; no payload is the target
\* of a write.
LEMMA LandPreserves ==
  ASSUME TrafficInv, NEW q \in Pair, UNCHANGED use, Land(q)
  PROVE  TrafficInv'
<1> USE DEF TrafficInv
<1> DEFINE n == Len(wrote[q]) + 1
           v == Carried(NextWrite(q))
<1>1. UNCHANGED <<use, obj, req, acked, polled, cq, broken, overrun, told, blind>>
  BY DEF Land
<1>2. /\ wrote' = [wrote EXCEPT ![q] = Append(@, v)]
      /\ buffer' = [buffer EXCEPT ![NextWrite(q).to] = v]
      /\ Len(wrote[q]) < Len(req[q])
  BY DEF Land
<1>3. /\ q \in Id /\ req[q] \in Seq(Requests) /\ wrote \in [Id -> Seq(Nat)]
      /\ wrote[q] \in Seq(Nat) /\ buffer \in [Id -> Nat]
  BY Wiring DEF TypeInv
<1>4. n \in 1..Len(req[q]) /\ req[q] # <<>> /\ NextWrite(q) = req[q][n]
  BY <1>2, <1>3 DEF NextWrite
<1>5. q \in Sender
  BY <1>3, <1>4 DEF CountersInv
<1>6. NextWrite(q) \in Requests /\ NextWrite(q).to = target[q]
  BY <1>3, <1>4, <1>5, SeqParts DEF PostedInv
<1>7. v \in Nat /\ (NextWrite(q).inline => v = NextWrite(q).val)
  BY <1>3, <1>6 DEF Carried, Requests
<1> HIDE DEF v
<1>8. /\ wrote'[q] = Append(wrote[q], v) /\ \A p \in Id : p # q => wrote'[p] = wrote[p]
      /\ wrote'[q] \in Seq(Nat) /\ Len(wrote'[q]) = n /\ wrote'[q][n] = v
      /\ \A i \in 1..Len(wrote[q]) : wrote'[q][i] = wrote[q][i]
      /\ DOMAIN wrote'[q] = 1..n /\ \A i \in 1..n : i \in 1..Len(wrote[q]) \/ i = n
  <2>1. wrote'[q] = Append(wrote[q], v) /\ \A p \in Id : p # q => wrote'[p] = wrote[p]
    BY <1>2, <1>3
  <2> QED
    BY <1>3, <1>7, <2>1, AppendParts, SeqParts
<1>9. TypeInv'
  <2>1. wrote' \in [Id -> Seq(Nat)]
    BY <1>2, <1>3, <1>8
  <2>2. buffer' \in [Id -> Nat]
    BY <1>2, <1>3, <1>5, <1>6, <1>7, Wiring
  <2> QED
    BY <1>1, <2>1, <2>2 DEF TypeInv
<1>10. WiredInv' /\ SizedNeverOverruns'
  BY <1>1 DEF WiredInv, Wrapper, SizedNeverOverruns
<1>11. CountersInv'
  <2>1. Len(wrote'[q]) <= Len(req[q])
    BY <1>4, <1>8
  <2> QED
    BY <1>1, <1>8, <2>1 DEF CountersInv
<1>12. PostedInv'
  <2>1. \A p \in Sender : buffer'[payload[p]] = buffer[payload[p]]
    BY <1>2, <1>3, <1>5, <1>6, Wiring
  <2> QED
    BY <1>1, <2>1 DEF PostedInv
<1>13. \A p \in Id : Len(wrote[p]) <= Len(wrote'[p]) /\ Len(wrote[p]) \in Nat /\ Len(wrote'[p]) \in Nat
  <2>1. \A p \in Id : wrote[p] \in Seq(Nat) /\ wrote'[p] \in Seq(Nat)
    BY <1>9 DEF TypeInv
  <2>2. \A p \in Id : Len(wrote[p]) \in Nat /\ Len(wrote'[p]) \in Nat
    BY <2>1, SeqParts
  <2> QED
    BY <1>8, <2>2
<1>14. QueuesInv'
  <2>1. SUFFICES ASSUME NEW c \in Id
                 PROVE  Len(cq'[c]) <= cq_depth /\ \E f : Numbered(c, f)'
    BY DEF QueuesInv
  <2>2. Len(cq[c]) <= cq_depth /\ \E f : Numbered(c, f)
    BY DEF QueuesInv
  <2>3. PICK f : Numbered(c, f)
    BY <2>2
  <2>4. \A j \in 1..Len(cq[c]) : cq[c][j].ok => f[j] <= Len(wrote'[cq[c][j].qp])
    <3>1. SUFFICES ASSUME NEW j \in 1..Len(cq[c]), cq[c][j].ok
                   PROVE  f[j] <= Len(wrote'[cq[c][j].qp])
      OBVIOUS
    <3>2. cq[c] \in Seq(Entries)
      BY DEF TypeInv
    <3>3. cq[c][j] \in Entries
      BY <3>2, SeqParts
    <3>4. cq[c][j].qp \in Id
      BY <3>3, Wiring DEF Entries
    <3>5. f[j] \in Nat /\ f[j] <= Len(wrote[cq[c][j].qp])
      BY <2>3, <3>1 DEF Numbered
    <3> QED
      BY <1>13, <3>4, <3>5
  <2>5. Numbered(c, f)'
    BY <1>1, <2>3, <2>4 DEF Numbered
  <2> QED
    BY <1>1, <2>2, <2>5
<1>15. UnbrokenInv'
  <2>1. \A p \in Sender : p \notin broken => acked[p] <= Len(wrote'[p])
    <3>1. \A p \in Sender : p \in Id /\ acked[p] \in Nat
      BY Wiring DEF TypeInv
    <3> QED
      BY <1>13, <3>1 DEF UnbrokenInv
  <2> QED
    BY <1>1, <2>1 DEF UnbrokenInv
<1>16. BlindInv'
  BY <1>1 DEF BlindInv
<1> QED
  BY <1>9, <1>10, <1>11, <1>12, <1>14, <1>15, <1>16

\* The requests that completed on c and were not polled, and one more, are
\* distinct requests of the queue pairs that complete on c, of which each has at
\* most max_send_wr.
LEMMA Slots ==
  ASSUME TrafficInv, NEW q \in Sender, acked[q] < Len(req[q]),
         Cardinality(Sharers(CqOf(q))) * max_send_wr <= cq_depth
  PROVE  Len(cq[CqOf(q)]) # cq_depth
<1> USE DEF TrafficInv
<1> DEFINE c == CqOf(q)
           L == Len(cq[c])
           S == Sharers(c) \X (1..max_send_wr)
<1>1. c \in Id /\ q \in Id /\ q \in Sharers(c)
  BY Wiring DEF CqOf, Sharers
<1>2. cq[c] \in Seq(Entries) /\ L \in Nat
  BY <1>1, SeqParts DEF TypeInv
<1>3. IsFiniteSet(Sharers(c)) /\ Cardinality(Sharers(c)) \in Nat
  <2>1. Sharers(c) \subseteq Pair
    BY Wiring DEF Sharers
  <2> QED
    BY <2>1, WiringAssumption, FS_Subset, FS_CardinalityType
<1>4. IsFiniteSet(1..max_send_wr) /\ Cardinality(1..max_send_wr) = max_send_wr
  BY Wiring, UpTo
<1>5. IsFiniteSet(S) /\ Cardinality(S) = Cardinality(Sharers(c)) * max_send_wr
  BY <1>3, <1>4, FS_Product
<1>6. IsFiniteSet(1..L + 1) /\ Cardinality(1..L + 1) = L + 1
  <2>1. L + 1 \in Nat
    BY <1>2
  <2> QED
    BY <2>1, UpTo
<1>7. PICK f : Numbered(c, f)
  BY <1>1 DEF QueuesInv
<1>8. \A p \in Id : /\ polled[p] \in Nat /\ acked[p] \in Nat /\ Len(req[p]) \in Nat
                    /\ polled[p] <= acked[p] /\ acked[p] <= Len(req[p])
                    /\ Len(req[p]) <= polled[p] + max_send_wr
  <2>1. \A p \in Id : req[p] \in Seq(Requests)
    BY DEF TypeInv
  <2> QED
    BY <2>1, SeqParts DEF TypeInv, CountersInv
<1>9. PICK g : g = [j \in 1..L + 1 |->
                      IF j = L + 1 THEN <<q, acked[q] + 1 - polled[q]>>
                      ELSE <<cq[c][j].qp, f[j] - polled[cq[c][j].qp]>>]
  OBVIOUS
<1>10. ASSUME NEW j \in 1..L
       PROVE  LET e == cq[c][j].qp IN
              /\ e \in Sharers(c) /\ e \in Id /\ f[j] \in Nat
              /\ polled[e] < f[j] /\ f[j] <= acked[e]
              /\ f[j] - polled[e] \in 1..max_send_wr
              /\ g[j] = <<e, f[j] - polled[e]>> /\ j # L + 1
  <2> DEFINE e == cq[c][j].qp
  <2>1. e \in Sender
    <3>1. cq[c][j] \in Entries
      BY <1>2, SeqParts
    <3> QED
      BY <3>1 DEF Entries
  <2>2. e \in Id /\ e \in Sharers(c)
    BY <1>7, <2>1, Wiring DEF Numbered, Sharers, CqOf
  <2>3. f[j] \in Nat /\ polled[e] < f[j] /\ f[j] <= acked[e]
    BY <1>7 DEF Numbered
  <2>4. j \in 1..L + 1 /\ j # L + 1
    BY <1>2
  <2>5. g[j] = <<e, f[j] - polled[e]>>
    BY <1>9, <2>4
  <2>6. f[j] - polled[e] \in 1..max_send_wr
    <3>1. /\ polled[e] \in Nat /\ acked[e] \in Nat /\ Len(req[e]) \in Nat
          /\ acked[e] <= Len(req[e]) /\ Len(req[e]) <= polled[e] + max_send_wr
      BY <1>8, <2>2
    <3>2. max_send_wr \in Nat
      BY Wiring
    <3> HIDE DEF e, TrafficInv
    <3> QED
      BY <2>3, <3>1, <3>2
  <2> QED
    BY <2>2, <2>3, <2>4, <2>5, <2>6
<1>11. /\ acked[q] + 1 - polled[q] \in 1..max_send_wr
       /\ L + 1 \in 1..L + 1 /\ g[L + 1] = <<q, acked[q] + 1 - polled[q]>>
  <2>1. acked[q] + 1 - polled[q] \in 1..max_send_wr
    BY <1>1, <1>8, Wiring
  <2>2. L + 1 \in 1..L + 1
    BY <1>2
  <2> QED
    BY <1>9, <2>1, <2>2
<1>12. \A j \in 1..L + 1 : j \in 1..L \/ j = L + 1
  BY <1>2
<1>13. g \in [1..L + 1 -> S]
  <2>1. \A j \in 1..L : g[j] \in S
    <3>1. SUFFICES ASSUME NEW j \in 1..L
                   PROVE  g[j] \in S
      OBVIOUS
    <3> DEFINE e == cq[c][j].qp
    <3>2. e \in Sharers(c) /\ f[j] - polled[e] \in 1..max_send_wr /\ g[j] = <<e, f[j] - polled[e]>>
      BY <1>10
    <3> QED
      BY <3>2
  <2>2. g[L + 1] \in S
    BY <1>1, <1>11
  <2>3. \A j \in 1..L + 1 : g[j] \in S
    BY <1>12, <2>1, <2>2
  <2> QED
    BY <1>9, <2>3
<1>14. ASSUME NEW j \in 1..L + 1, NEW k \in 1..L + 1, j < k
       PROVE  g[j] # g[k]
  <2>1. j \in 1..L
    BY <1>2, <1>14
  <2>2. CASE k = L + 1
    <3>1. cq[c][j].qp = q => f[j] <= acked[q]
      BY <1>10, <2>1
    <3>2. cq[c][j].qp = q => f[j] - polled[q] # acked[q] + 1 - polled[q]
      <4>1. f[j] \in Nat /\ polled[q] \in Nat /\ acked[q] \in Nat
        BY <1>1, <1>8, <1>10, <2>1
      <4> QED
        BY <3>1, <4>1
    <3> QED
      BY <1>10, <1>11, <2>1, <2>2, <3>2
  <2>3. CASE k \in 1..L
    <3>1. cq[c][j].qp = cq[c][k].qp => f[j] < f[k]
      BY <1>7, <1>14, <2>1, <2>3 DEF Numbered
    <3>2. cq[c][j].qp = cq[c][k].qp
             => f[j] - polled[cq[c][j].qp] # f[k] - polled[cq[c][k].qp]
      <4>1. /\ f[j] \in Nat /\ f[k] \in Nat
            /\ polled[cq[c][j].qp] \in Nat
        BY <1>8, <1>10, <2>1, <2>3
      <4> HIDE DEF TrafficInv
      <4> QED
        BY <3>1, <4>1
    <3> QED
      BY <1>10, <2>1, <2>3, <3>2
  <2> QED
    BY <1>12, <2>2, <2>3
<1>15. g \in Injection(1..L + 1, S)
  <2>1. \A j, k \in 1..L + 1 : j # k => g[j] # g[k]
    <3>1. \A j, k \in 1..L + 1 : j # k => j < k \/ k < j
      BY <1>2
    <3> QED
      BY <1>14, <3>1
  <2> QED
    BY <1>13, <2>1 DEF Injection, IsInjective
<1>16. L + 1 <= Cardinality(S)
  BY <1>5, <1>6, <1>15, FS_Injection
<1>17. cq_depth \in Nat /\ max_send_wr \in Nat /\ L \in Nat
  BY <1>2, Wiring
<1>18. L + 1 <= Cardinality(Sharers(c)) * max_send_wr
  BY <1>5, <1>16
<1>19. PICK m \in Nat : m = Cardinality(Sharers(c)) * max_send_wr
  BY <1>3, <1>17
<1>20. L + 1 <= m /\ m <= cq_depth
  BY <1>18, <1>19
<1> QED
  BY <1>17, <1>19, <1>20

\* What q completes goes to the end of its completion queue, or the queue had
\* no room for it and everything that completes there broke.
LEMMA CompletePreserves ==
  ASSUME TrafficInv, NEW q \in Pair, NEW ok \in BOOLEAN, NEW down \in SUBSET Pair,
         acked[q] < Len(req[q]),
         ok => acked[q] < Len(wrote[q]) /\ q \notin broken,
         ~ok => q \in broken \cup down,
         UNCHANGED <<use, buffer, wrote>>, Complete(q, ok, down)
  PROVE  TrafficInv'
<1> USE DEF TrafficInv
<1> DEFINE c == CqOf(q)
           e == [qp |-> q, ok |-> ok]
<1>1. UNCHANGED <<use, obj, buffer, req, wrote, polled, told, blind>>
  BY DEF Complete
<1>2. q \in Id /\ SendCq(q) = c /\ c \in Id
  BY Wiring, Cqs
<1>3. /\ req[q] \in Seq(Requests) /\ Len(req[q]) \in Nat /\ acked \in [Id -> Nat] /\ acked[q] \in Nat
      /\ wrote[q] \in Seq(Nat) /\ Len(wrote[q]) \in Nat
      /\ cq \in [Id -> Seq(Entries)] /\ cq[c] \in Seq(Entries) /\ Len(cq[c]) \in Nat
  BY <1>2, SeqParts DEF TypeInv
<1>4. q \in Sender
  <2>1. req[q] # <<>>
    BY <1>3
  <2> QED
    BY <1>2, <2>1 DEF CountersInv
<1>5. acked' = [acked EXCEPT ![q] = @ + 1]
  BY DEF Complete
<1>6. acked'[q] = acked[q] + 1 /\ \A p \in Id : p # q => acked'[p] = acked[p]
  BY <1>2, <1>3, <1>5
<1>7. /\ acked' \in [Id -> Nat]
      /\ \A p \in Id, m \in Nat : m <= acked[p] => m <= acked'[p]
  <2>1. acked' \in [Id -> Nat]
    BY <1>2, <1>3, <1>5
  <2>2. ASSUME NEW p \in Id, NEW m \in Nat, m <= acked[p]
        PROVE  m <= acked'[p]
    <3>1. acked[p] \in Nat
      BY <1>3
    <3>2. acked'[p] = acked[p] \/ acked'[p] = acked[p] + 1
      BY <1>6
    <3> HIDE DEF TrafficInv
    <3> QED
      BY <2>2, <3>1, <3>2
  <2> QED
    BY <2>1, <2>2
<1>8. WiredInv' /\ PostedInv' /\ BlindInv'
  BY <1>1 DEF WiredInv, Wrapper, PostedInv, BlindInv
<1>9. CountersInv'
  <2>1. polled[q] <= acked'[q] /\ acked'[q] <= Len(req[q])
    <3>1. polled[q] \in Nat /\ polled[q] <= acked[q]
      BY <1>2 DEF TypeInv, CountersInv
    <3> QED
      BY <1>3, <1>6, <3>1
  <2> QED
    BY <1>1, <1>6, <2>1 DEF CountersInv
<1>10. CASE c \in overrun \/ Len(cq[c]) = cq_depth
  <2>1. /\ overrun' = overrun \cup {c}
        /\ broken' = broken \cup down \cup {p \in Id : Wrapper(p).kind = "qp" /\ SendCq(p) = c}
        /\ cq' = cq
    BY <1>2, <1>10 DEF Complete
  <2>2. broken' \subseteq Pair /\ broken \subseteq broken'
    <3>1. \A p \in Id : Wrapper(p).kind = "qp" => p \in Pair
      BY DEF WiredInv
    <3> QED
      BY <2>1, <3>1 DEF TypeInv
  <2>3. q \in broken'
    BY <1>2, <2>1, Cqs
  <2>4. TypeInv'
    BY <1>1, <1>2, <1>7, <2>1, <2>2 DEF TypeInv
  <2>5. QueuesInv'
    <3>1. SUFFICES ASSUME NEW d \in Id
                   PROVE  Len(cq'[d]) <= cq_depth /\ \E f : Numbered(d, f)'
      BY DEF QueuesInv
    <3>2. Len(cq[d]) <= cq_depth /\ \E f : Numbered(d, f)
      BY DEF QueuesInv
    <3>3. PICK f : Numbered(d, f)
      BY <3>2
    <3>4. \A j \in 1..Len(cq[d]) : f[j] <= acked'[cq[d][j].qp]
      <4>1. SUFFICES ASSUME NEW j \in 1..Len(cq[d])
                     PROVE  f[j] <= acked'[cq[d][j].qp]
        OBVIOUS
      <4>2. cq[d][j] \in Entries
        BY <1>3, SeqParts
      <4>3. cq[d][j].qp \in Id
        BY <4>2, Wiring DEF Entries
      <4>4. f[j] \in Nat /\ f[j] <= acked[cq[d][j].qp]
        BY <3>3 DEF Numbered
      <4> QED
        BY <1>7, <4>3, <4>4
    <3>5. Numbered(d, f)'
      BY <1>1, <2>1, <3>3, <3>4 DEF Numbered
    <3> QED
      BY <2>1, <3>2, <3>5
  <2>6. UnbrokenInv'
    <3>1. \A p \in Sender : p \notin broken' => acked'[p] <= Len(wrote[p])
      BY <1>6, <2>2, <2>3, Wiring DEF UnbrokenInv
    <3> QED
      BY <1>1, <2>1, <2>2, <3>1 DEF UnbrokenInv
  <2>7. SizedNeverOverruns'
    <3>1. Cardinality(Sharers(c)) * max_send_wr <= cq_depth => c \notin overrun
      BY <1>2 DEF SizedNeverOverruns
    <3>2. Cardinality(Sharers(c)) * max_send_wr <= cq_depth => Len(cq[c]) # cq_depth
      BY <1>4, Slots
    <3>3. ~(Cardinality(Sharers(c)) * max_send_wr <= cq_depth)
      BY <1>10, <3>1, <3>2
    <3> QED
      BY <2>1, <3>3 DEF SizedNeverOverruns
  <2> QED
    BY <1>8, <1>9, <2>4, <2>5, <2>6, <2>7
<1>11. CASE ~(c \in overrun \/ Len(cq[c]) = cq_depth)
  <2>1. /\ cq' = [cq EXCEPT ![c] = Append(@, e)]
        /\ broken' = broken \cup down /\ overrun' = overrun
    BY <1>2, <1>11 DEF Complete
  <2>2. e \in Entries
    BY <1>4 DEF Entries
  <2>3. /\ cq'[c] = Append(cq[c], e) /\ \A d \in Id : d # c => cq'[d] = cq[d]
        /\ cq' \in [Id -> Seq(Entries)]
    <3> HIDE DEF e
    <3>1. Append(cq[c], e) \in Seq(Entries)
      BY <1>3, <2>2
    <3> QED
      BY <1>2, <1>3, <2>1, <3>1
  <2>4. /\ Len(cq'[c]) = Len(cq[c]) + 1 /\ cq'[c][Len(cq[c]) + 1] = e
        /\ \A j \in 1..Len(cq[c]) : cq'[c][j] = cq[c][j] /\ cq[c][j] \in Entries
        /\ \A j \in 1..Len(cq'[c]) : j \in 1..Len(cq[c]) \/ j = Len(cq[c]) + 1
    <3> HIDE DEF e
    <3>1. /\ Len(cq'[c]) = Len(cq[c]) + 1 /\ cq'[c][Len(cq[c]) + 1] = e
          /\ \A j \in 1..Len(cq[c]) : cq'[c][j] = cq[c][j]
          /\ \A j \in 1..Len(cq'[c]) : j \in 1..Len(cq[c]) \/ j = Len(cq[c]) + 1
      BY <1>3, <2>2, <2>3, AppendParts
    <3>2. \A j \in 1..Len(cq[c]) : cq[c][j] \in Entries
      BY <1>3, SeqParts
    <3> QED
      BY <3>1, <3>2
  <2>5. TypeInv' /\ SizedNeverOverruns'
    BY <1>1, <1>7, <2>1, <2>3 DEF TypeInv, SizedNeverOverruns
  <2>6. \A d \in Id, j \in Nat : j \in 1..Len(cq[d]) =>
           /\ cq[d][j].qp \in Sender /\ cq[d][j].qp \in Id
           /\ cq[d][j].qp \notin broken => cq[d][j].ok
    <3>1. \A d \in Id : \A j \in 1..Len(cq[d]) : cq[d][j] \in Entries
      BY <1>3, SeqParts
    <3> QED
      BY <3>1, Wiring DEF Entries, UnbrokenInv
  <2>7. QueuesInv'
    <3>1. ASSUME NEW d \in Id, NEW f, Numbered(d, f), NEW j \in 1..Len(cq[d])
          PROVE  f[j] \in Nat /\ f[j] <= acked[cq[d][j].qp] /\ f[j] <= acked'[cq[d][j].qp]
      <4>1. f[j] \in Nat /\ f[j] <= acked[cq[d][j].qp]
        BY <3>1 DEF Numbered
      <4>2. cq[d][j].qp \in Id
        <5>1. cq[d][j] \in Entries
          BY <1>3, SeqParts
        <5> QED
          BY <5>1, Wiring DEF Entries
      <4> QED
        BY <1>7, <4>1, <4>2
    <3>2. ASSUME NEW d \in Id, d # c
          PROVE  Len(cq'[d]) <= cq_depth /\ \E f : Numbered(d, f)'
      <4>1. PICK f : Numbered(d, f)
        BY DEF QueuesInv
      <4>2. \A j \in 1..Len(cq[d]) : f[j] <= acked'[cq[d][j].qp]
        BY <3>1, <4>1
      <4>3. cq'[d] = cq[d]
        BY <2>3, <3>2
      <4>4. Numbered(d, f)'
        BY <1>1, <4>1, <4>2, <4>3 DEF Numbered
      <4> QED
        BY <4>3, <4>4 DEF QueuesInv
    <3>3. Len(cq'[c]) <= cq_depth
      <4>1. Len(cq[c]) <= cq_depth
        BY <1>2 DEF QueuesInv
      <4> QED
        BY <1>3, <1>11, <2>4, <4>1, Wiring
    <3>4. PICK f : Numbered(c, f)
      BY <1>2 DEF QueuesInv
    <3>5. PICK g : g = [j \in 1..Len(cq'[c]) |-> IF j = Len(cq[c]) + 1 THEN acked[q] + 1 ELSE f[j]]
      OBVIOUS
    <3>6. \A j \in 1..Len(cq[c]) : j # Len(cq[c]) + 1 /\ j \in 1..Len(cq'[c]) /\ g[j] = f[j]
      BY <1>3, <2>4, <3>5
    <3>7. g[Len(cq[c]) + 1] = acked[q] + 1 /\ Len(cq[c]) + 1 \in 1..Len(cq'[c])
      BY <1>3, <2>4, <3>5
    <3>8. g \in [1..Len(cq'[c]) -> Nat]
      <4>1. \A j \in 1..Len(cq[c]) : f[j] \in Nat
        BY <1>2, <3>1, <3>4
      <4>2. \A j \in 1..Len(cq'[c]) : g[j] \in Nat
        <5>1. acked[q] + 1 \in Nat
          BY <1>3
        <5>2. \A j \in 1..Len(cq[c]) : g[j] \in Nat
          BY <3>6, <4>1
        <5> QED
          BY <2>4, <3>7, <5>1, <5>2
      <4> QED
        BY <3>5, <4>2
    <3>9. ASSUME NEW j \in 1..Len(cq'[c])
          PROVE  /\ CqOf(cq'[c][j].qp) = c
                 /\ polled[cq'[c][j].qp] < g[j] /\ g[j] <= acked'[cq'[c][j].qp]
                 /\ cq'[c][j].ok => g[j] <= Len(wrote[cq'[c][j].qp])
      <4>1. CASE j \in 1..Len(cq[c])
        <5>1. cq'[c][j] = cq[c][j] /\ g[j] = f[j]
          BY <2>4, <3>6, <4>1
        <5>2. f[j] <= acked'[cq[c][j].qp]
          BY <1>2, <3>1, <3>4, <4>1
        <5> QED
          BY <3>4, <4>1, <5>1, <5>2 DEF Numbered
      <4>2. CASE j = Len(cq[c]) + 1
        <5>1. cq'[c][j].qp = q /\ cq'[c][j].ok = ok /\ g[j] = acked[q] + 1
          BY <2>4, <3>7, <4>2
        <5>2. polled[q] \in Nat /\ polled[q] <= acked[q]
          BY <1>2 DEF TypeInv, CountersInv
        <5>3. polled[q] < acked[q] + 1 /\ acked[q] + 1 <= acked'[q] /\ (ok => acked[q] + 1 <= Len(wrote[q]))
          BY <1>3, <1>6, <5>2
        <5> HIDE DEF e
        <5> QED
          BY <5>1, <5>3
      <4> QED
        BY <2>4, <4>1, <4>2
    <3>10. ASSUME NEW j \in 1..Len(cq'[c]), NEW k \in 1..Len(cq'[c]), j < k,
                  cq'[c][j].qp = cq'[c][k].qp
           PROVE  g[j] < g[k] /\ (cq'[c][k].ok => cq'[c][j].ok)
      <4>1. j \in 1..Len(cq[c])
        BY <1>3, <2>4, <3>10
      <4>2. cq'[c][j] = cq[c][j] /\ g[j] = f[j]
        BY <2>4, <3>6, <4>1
      <4>3. CASE k \in 1..Len(cq[c])
        <5>1. cq'[c][k] = cq[c][k] /\ g[k] = f[k]
          BY <2>4, <3>6, <4>3
        <5> QED
          BY <3>4, <3>10, <4>1, <4>2, <4>3, <5>1 DEF Numbered
      <4>4. CASE k = Len(cq[c]) + 1
        <5>1. cq'[c][k].qp = q /\ cq'[c][k].ok = ok /\ g[k] = acked[q] + 1
          BY <2>4, <3>7, <4>4
        <5>2. cq[c][j].qp = q
          BY <3>10, <4>2, <5>1
        <5>3. f[j] \in Nat /\ f[j] <= acked[q]
          BY <1>2, <3>1, <3>4, <4>1, <5>2
        <5>4. ok => cq[c][j].ok
          BY <1>2, <4>1, <5>2 DEF UnbrokenInv
        <5> HIDE DEF e
        <5> QED
          BY <1>3, <4>2, <5>1, <5>3, <5>4
      <4> QED
        BY <2>4, <4>3, <4>4
    <3>11. Numbered(c, g)'
      BY <1>1, <3>8, <3>9, <3>10 DEF Numbered
    <3> QED
      BY <3>2, <3>3, <3>11 DEF QueuesInv
  <2>8. UnbrokenInv'
    <3>1. \A p \in Sender : p \notin broken' => acked'[p] <= Len(wrote[p])
      <4>1. q \notin broken' => acked'[q] <= Len(wrote[q])
        BY <1>3, <1>6, <2>1
      <4>2. \A p \in Sender : p # q /\ p \notin broken' => acked'[p] <= Len(wrote[p])
        BY <1>6, <2>1, Wiring DEF UnbrokenInv
      <4> QED
        BY <4>1, <4>2
    <3>2. \A d \in Id : \A j \in 1..Len(cq'[d]) : cq'[d][j].qp \notin broken' => cq'[d][j].ok
      <4>1. SUFFICES ASSUME NEW d \in Id, NEW j \in 1..Len(cq'[d]), cq'[d][j].qp \notin broken'
                     PROVE  cq'[d][j].ok
        OBVIOUS
      <4>2. CASE d # c \/ j \in 1..Len(cq[c])
        <5>1. cq'[d][j] = cq[d][j] /\ j \in 1..Len(cq[d])
          BY <2>3, <2>4, <4>2
        <5> QED
          BY <2>1, <4>1, <5>1 DEF UnbrokenInv
      <4>3. CASE d = c /\ j = Len(cq[c]) + 1
        <5>1. cq'[d][j].qp = q /\ cq'[d][j].ok = ok
          BY <2>4, <4>3
        <5> QED
          BY <2>1, <4>1, <5>1
      <4> QED
        BY <2>4, <4>2, <4>3
    <3> QED
      BY <1>1, <3>1, <3>2 DEF UnbrokenInv
  <2> QED
    BY <1>8, <1>9, <2>5, <2>7, <2>8
<1> QED
  BY <1>10, <1>11

LEMMA DevicePreserves ==
  ASSUME TrafficInv, NEW q \in Pair, UNCHANGED use, Device(q)
  PROVE  TrafficInv'
<1>1. /\ acked[q] \in Nat /\ Len(wrote[q]) \in Nat /\ Len(req[q]) \in Nat
      /\ Len(wrote[q]) <= Len(req[q])
  <2>1. q \in Id /\ wrote[q] \in Seq(Nat) /\ req[q] \in Seq(Requests)
    BY Wiring DEF TrafficInv, TypeInv
  <2> QED
    BY <2>1, SeqParts DEF TrafficInv, TypeInv, CountersInv
<1>2. CASE Land(q)
  BY <1>2, LandPreserves
<1>3. CASE Ack(q)
  <2>1. acked[q] < Len(wrote[q]) /\ q \notin broken
    BY <1>3 DEF Ack, Active
  <2>2. acked[q] < Len(req[q])
    BY <1>1, <2>1
  <2>3. Complete(q, TRUE, {}) /\ UNCHANGED <<buffer, wrote>>
    BY <1>3 DEF Ack
  <2> QED
    BY <2>1, <2>2, <2>3, CompletePreserves
<1>4. CASE Refuse(q)
  <2>1. acked[q] < Len(req[q])
    BY <1>4 DEF Refuse
  <2>2. Wrapper(q).peer \in Pair
    BY <1>4, Cqs, Wiring DEF TrafficInv, Refuse, Mutual, Reaches
  <2>3. Complete(q, FALSE, {q, Wrapper(q).peer}) /\ UNCHANGED <<buffer, wrote>>
    BY <1>4 DEF Refuse
  <2>4. {q, Wrapper(q).peer} \in SUBSET Pair /\ q \in broken \cup {q, Wrapper(q).peer}
    BY <2>2
  <2> QED
    BY <2>1, <2>3, <2>4, CompletePreserves
<1>5. CASE GiveUp(q)
  <2>1. acked[q] < Len(req[q]) /\ Complete(q, FALSE, {q}) /\ UNCHANGED <<buffer, wrote>>
    BY <1>5 DEF GiveUp
  <2>2. {q} \in SUBSET Pair /\ q \in broken \cup {q}
    OBVIOUS
  <2> QED
    BY <2>1, <2>2, CompletePreserves
<1>6. CASE Flush(q)
  <2>1. acked[q] < Len(req[q]) /\ Complete(q, FALSE, {}) /\ UNCHANGED <<buffer, wrote>>
    BY <1>6 DEF Flush
  <2>2. {} \in SUBSET Pair /\ q \in broken \cup {}
    BY <1>6 DEF Flush
  <2> QED
    BY <2>1, <2>2, CompletePreserves
<1> QED
  BY <1>2, <1>3, <1>4, <1>5, <1>6 DEF Device

-----------------------------------------------------------------------------
(* The theorems.                                                           *)

LEMMA TrafficStep == TrafficInv /\ [Next]_vars => TrafficInv'
<1> SUFFICES ASSUME TrafficInv, [Next]_vars PROVE TrafficInv'
  OBVIOUS
<1>1. CASE UNCHANGED vars
  BY <1>1, IdlePreserves
<1>2. ASSUME NEW q \in Pair, Connect(q)
      PROVE  TrafficInv'
  BY <1>2, ConnectPreserves
<1>3. ASSUME NEW q \in Pair, UNCHANGED use, RecvPoll(q) \/ Device(q)
      PROVE  TrafficInv'
  BY <1>3, RecvPollPreserves, DevicePreserves
<1>4. ASSUME NEW q \in use, UNCHANGED use, Refill(q)
      PROVE  TrafficInv'
  BY <1>4, RefillPreserves
<1>5. ASSUME NEW q \in use, UNCHANGED use, NEW inline \in Inline[q], Send(q, inline)
      PROVE  TrafficInv'
  BY <1>5, SendPreserves
<1>6. ASSUME NEW q \in use, UNCHANGED use, Await(q)
      PROVE  TrafficInv'
  <2>1. q \in Sender /\ Poll(q)
    BY <1>6 DEF TrafficInv, TypeInv, Await
  <2> QED
    BY <1>6, <2>1, PollPreserves
<1> QED
  BY <1>1, <1>2, <1>3, <1>4, <1>5, <1>6 DEF Next

\* What holds of the data path in every state, whatever is wired to what.
THEOREM TrafficInvariant == Spec => []TrafficInv
BY TrafficInitially, TrafficStep, PTL DEF Spec

\* The counters of a queue pair stay in the order in which a request passes
\* them and no completion queue holds more than cq_depth entries.
THEOREM TrafficTypeCorrect == Spec => []TrafficTypeOK
<1>1. TrafficInv => TrafficTypeOK
  BY DEF TrafficInv, TypeInv, CountersInv, PostedInv, QueuesInv, BlindInv, TrafficTypeOK
<1> QED
  BY <1>1, TrafficInvariant, PTL

\* A completion queue as deep as the send queues that complete on it together
\* never overruns.
THEOREM SizedNeverOverrunsCorrect == Spec => []SizedNeverOverruns
<1>1. TrafficInv => SizedNeverOverruns
  BY DEF TrafficInv
<1> QED
  BY <1>1, TrafficInvariant, PTL

-----------------------------------------------------------------------------
(* A queue pair with its own completion queue is a write channel, until a   *)
(* poll of its own failed.  The answers are those of the completions polled, and *)
(* as long as the queue pair is not broken they are all yes and the payload *)
(* is what the requests not yet written were posted with.                   *)

AllYes(q) == \A i \in DOMAIN told[q] : told[q][i]

ChannelInv(q) ==
    /\ Len(told[q]) = polled[q]
    /\ q \notin broken => AllYes(q)
    /\ \A j \in 1..Len(cq[CqOf(q)]) : cq[CqOf(q)][j].ok => AllYes(q)
    /\ q \notin broken => \A i \in 1..Len(req[q]) :
            Len(wrote[q]) < i => req[q][i].val = buffer[payload[q]]

LEMMA ExclusiveParts ==
  ASSUME NEW q \in Exclusive
  PROVE  /\ q \in Sender /\ q \in Pair /\ q \in Id /\ CqOf(q) \in Id
         /\ \A p \in Pair : /\ p # q => CqOf(p) # CqOf(q)
                            /\ <<p[1], recv_cq[p]>> # CqOf(q)
BY Wiring DEF Exclusive, CqOf

LEMMA QueuePairParts ==
  ASSUME TrafficInv, NEW q \in Sender
  PROVE  /\ q \in Id /\ CqOf(q) \in Id
         /\ req[q] \in Seq(Requests) /\ Len(req[q]) \in Nat /\ DOMAIN req[q] = 1..Len(req[q])
         /\ \A i \in 1..Len(req[q]) : req[q][i] \in Requests
         /\ wrote[q] \in Seq(Nat) /\ Len(wrote[q]) \in Nat
         /\ told[q] \in Seq(BOOLEAN) /\ Len(told[q]) \in Nat /\ DOMAIN told[q] = 1..Len(told[q])
         /\ cq[CqOf(q)] \in Seq(Entries) /\ Len(cq[CqOf(q)]) \in Nat
         /\ \A j \in 1..Len(cq[CqOf(q)]) : cq[CqOf(q)][j] \in Entries
         /\ polled[q] \in Nat /\ acked[q] \in Nat
         /\ polled[q] <= acked[q] /\ acked[q] <= Len(req[q]) /\ Len(wrote[q]) <= Len(req[q])
         /\ buffer[payload[q]] \in 0..MaxPost[q]
<1>1. q \in Id /\ CqOf(q) \in Id /\ payload[q] \in Id /\ MaxPost[q] \in Nat
  BY Wiring DEF CqOf
<1>2. /\ req[q] \in Seq(Requests) /\ wrote[q] \in Seq(Nat) /\ told[q] \in Seq(BOOLEAN)
      /\ cq[CqOf(q)] \in Seq(Entries) /\ polled[q] \in Nat /\ acked[q] \in Nat
      /\ buffer[payload[q]] \in Nat
  BY <1>1 DEF TrafficInv, TypeInv
<1>3. /\ Len(req[q]) \in Nat /\ DOMAIN req[q] = 1..Len(req[q])
      /\ \A i \in 1..Len(req[q]) : req[q][i] \in Requests
      /\ Len(wrote[q]) \in Nat /\ Len(told[q]) \in Nat /\ DOMAIN told[q] = 1..Len(told[q])
      /\ Len(cq[CqOf(q)]) \in Nat
      /\ \A j \in 1..Len(cq[CqOf(q)]) : cq[CqOf(q)][j] \in Entries
  BY <1>2, SeqParts
<1>4. polled[q] <= acked[q] /\ acked[q] <= Len(req[q]) /\ Len(wrote[q]) <= Len(req[q])
  BY <1>1 DEF TrafficInv, CountersInv
<1>5. buffer[payload[q]] <= MaxPost[q]
  BY DEF TrafficInv, PostedInv
<1> QED
  BY <1>1, <1>2, <1>3, <1>4, <1>5

\* The entry a poll takes is of a queue pair that completes on that queue.
LEMMA ConsumedEntry ==
  ASSUME TrafficInv, NEW c \in Id, Consume(c)
  PROVE  LET e == Head(cq[c]) IN
         /\ e \in Entries /\ e.qp \in Sender /\ CqOf(e.qp) = c
         /\ e = cq[c][1] /\ 1 \in 1..Len(cq[c])
         /\ polled[e.qp] < acked[e.qp] /\ (e.ok => polled[e.qp] < Len(wrote[e.qp]))
         /\ polled'[e.qp] = polled[e.qp] + 1
         /\ \A p \in Id : p # e.qp => polled'[p] = polled[p]
         /\ \A d \in Id : d # c => cq'[d] = cq[d]
         /\ \A j \in 1..Len(cq'[c]) :
              /\ j + 1 \in 1..Len(cq[c]) /\ cq'[c][j] = cq[c][j + 1]
              /\ cq'[c][j].qp = e.qp /\ cq'[c][j].ok => e.ok
<1> DEFINE e == Head(cq[c])
<1>1. /\ cq \in [Id -> Seq(Entries)] /\ cq[c] \in Seq(Entries) /\ cq[c] # <<>>
      /\ polled \in [Id -> Nat] /\ acked \in [Id -> Nat] /\ wrote \in [Id -> Seq(Nat)]
  BY DEF TrafficInv, TypeInv, Consume
<1>2. /\ e \in Entries /\ e = cq[c][1] /\ 1 \in 1..Len(cq[c])
      /\ \A j \in 1..Len(Tail(cq[c])) : /\ Tail(cq[c])[j] = cq[c][j + 1]
                                       /\ j + 1 \in 1..Len(cq[c]) /\ 1 < j + 1
  <2>1. Head(cq[c]) = cq[c][1] /\ 1 \in 1..Len(cq[c]) /\ cq[c][1] \in Entries
    BY <1>1, SeqParts
  <2>2. \A j \in 1..Len(Tail(cq[c])) : /\ Tail(cq[c])[j] = cq[c][j + 1]
                                       /\ j + 1 \in 1..Len(cq[c]) /\ 1 < j + 1
    BY <1>1, SeqParts
  <2> QED
    BY <2>1, <2>2
<1>3. e.qp \in Sender /\ e.qp \in Id
  BY <1>2, Wiring DEF Entries
<1>4. PICK f : Numbered(c, f)
  BY DEF TrafficInv, QueuesInv
<1>5. /\ CqOf(e.qp) = c /\ f[1] \in Nat /\ polled[e.qp] < f[1] /\ f[1] <= acked[e.qp]
      /\ e.ok => f[1] <= Len(wrote[e.qp])
  BY <1>2, <1>4 DEF Numbered
<1>6. polled[e.qp] \in Nat /\ acked[e.qp] \in Nat /\ Len(wrote[e.qp]) \in Nat
  BY <1>1, <1>3, SeqParts
<1>7. polled[e.qp] < acked[e.qp] /\ (e.ok => polled[e.qp] < Len(wrote[e.qp]))
  <2> HIDE DEF e
  <2> QED
    BY <1>5, <1>6
<1>8. /\ polled'[e.qp] = polled[e.qp] + 1
      /\ \A p \in Id : p # e.qp => polled'[p] = polled[p]
      /\ cq'[c] = Tail(cq[c]) /\ \A d \in Id : d # c => cq'[d] = cq[d]
  BY <1>1, <1>3 DEF Consume
<1>9. ASSUME NEW j \in 1..Len(cq'[c])
      PROVE  /\ j + 1 \in 1..Len(cq[c]) /\ cq'[c][j] = cq[c][j + 1]
             /\ cq'[c][j].qp = e.qp /\ cq'[c][j].ok => e.ok
  <2>1. j + 1 \in 1..Len(cq[c]) /\ 1 < j + 1 /\ cq'[c][j] = cq[c][j + 1]
    BY <1>2, <1>8
  <2> QED
    BY <1>2, <1>4, <2>1 DEF Numbered
<1> HIDE DEF e
<1> QED
  <2>1. /\ e \in Entries /\ e.qp \in Sender /\ CqOf(e.qp) = c
        /\ e = cq[c][1] /\ 1 \in 1..Len(cq[c])
    BY <1>2, <1>3, <1>5
  <2> QED
    BY <2>1, <1>7, <1>8, <1>9 DEF e

\* A step of somebody else.
LEMMA Elsewhere ==
  ASSUME NEW q \in Exclusive, ChannelInv(q), broken \subseteq broken',
         UNCHANGED <<req[q], wrote[q], told[q], polled[q], cq[CqOf(q)], buffer[payload[q]]>>
  PROVE  ChannelInv(q)' /\ UNCHANGED Channel(q)!vars
BY DEF ChannelInv, AllYes, CqOf, Channel!vars, Payloads

LEMMA SendIsAsk ==
  ASSUME TrafficInv, NEW q \in Exclusive, ChannelInv(q),
         NEW inline \in BOOLEAN, Send(q, inline)
  PROVE  ChannelInv(q)' /\ [Channel(q)!Next]_(Channel(q)!vars)
<1> DEFINE r == Request(payload[q], target[q], inline)
<1>1. UNCHANGED <<obj, buffer, wrote, acked, polled, cq, broken, overrun, told, blind>>
  BY DEF Send, Post
<1>2. q \in Sender /\ q \in Id
  BY ExclusiveParts
<1>3. CASE ~Accepts(q)
  <2>1. req' = req
    BY <1>3 DEF Send, Post
  <2> QED
    BY <1>1, <2>1, Elsewhere
<1>4. CASE Accepts(q)
  <2>1. req' = [req EXCEPT ![q] = Append(@, r)]
    BY <1>4 DEF Send, Post
  <2>2. req \in [Id -> Seq(Requests)] /\ req[q] \in Seq(Requests)
    BY <1>2 DEF TrafficInv, TypeInv
  <2>3. r \in Requests /\ r.val = buffer[payload[q]]
    BY <1>2, Wiring DEF TrafficInv, TypeInv, Request, Requests
  <2> HIDE DEF r
  <2>4. req'[q] = Append(req[q], r)
    BY <1>2, <2>1, <2>2
  <2>5. /\ Len(req'[q]) = Len(req[q]) + 1 /\ req'[q][Len(req[q]) + 1] = r
        /\ \A i \in 1..Len(req[q]) : req'[q][i] = req[q][i]
        /\ \A i \in 1..Len(req'[q]) : i \in 1..Len(req[q]) \/ i = Len(req[q]) + 1
        /\ DOMAIN req'[q] = 1..Len(req'[q]) /\ DOMAIN req[q] = 1..Len(req[q])
        /\ Len(req[q]) \in Nat
    BY <2>2, <2>3, <2>4, AppendParts, SeqParts
  <2>6. ChannelInv(q)'
    BY <1>1, <2>3, <2>5 DEF ChannelInv, AllYes, CqOf
  <2>7. Payloads(req'[q]) = Append(Payloads(req[q]), buffer[payload[q]])
    <3>1. \A i \in 1..Len(req[q]) : req[q][i].val \in Nat
      BY <1>2, QueuePairParts DEF Requests
    <3>2. /\ Payloads(req[q]) \in Seq(Nat) /\ Len(Payloads(req[q])) = Len(req[q])
          /\ \A i \in 1..Len(req[q]) : Payloads(req[q])[i] = req[q][i].val
      BY <2>5, <3>1 DEF Payloads
    <3>3. buffer[payload[q]] \in Nat
      BY <1>2, QueuePairParts
    <3>4. PICK a : a = Append(Payloads(req[q]), buffer[payload[q]])
      OBVIOUS
    <3>5. /\ a \in Seq(Nat) /\ Len(a) = Len(req[q]) + 1
          /\ \A i \in 1..Len(req[q]) : a[i] = req[q][i].val
          /\ a[Len(req[q]) + 1] = r.val /\ DOMAIN a = 1..Len(a)
      BY <2>3, <3>2, <3>3, <3>4, AppendParts, SeqParts
    <3>6. \A i \in 1..Len(req'[q]) : a[i] = req'[q][i].val
      BY <2>5, <3>5
    <3>7. a = [i \in 1..Len(req'[q]) |-> a[i]]
      BY <2>5, <3>5
    <3> QED
      BY <2>5, <3>4, <3>6, <3>7 DEF Payloads
  <2>8. buffer[payload[q]] \in 0..MaxPost[q]
    BY <1>2, QueuePairParts
  <2>9. Channel(q)!Ask
    BY <1>1, <2>7, <2>8 DEF Channel!Ask
  <2> QED
    BY <2>6, <2>9 DEF Channel!Next
<1> QED
  BY <1>3, <1>4

LEMMA LandIsWrite ==
  ASSUME TrafficInv, NEW q \in Exclusive, ChannelInv(q), Land(q)
  PROVE  ChannelInv(q)' /\ [Channel(q)!Next]_(Channel(q)!vars)
<1> DEFINE n == Len(wrote[q]) + 1
           v == Carried(NextWrite(q))
<1>1. UNCHANGED <<obj, req, acked, polled, cq, broken, overrun, told, blind>>
  BY DEF Land
<1>2. /\ wrote' = [wrote EXCEPT ![q] = Append(@, v)]
      /\ buffer' = [buffer EXCEPT ![NextWrite(q).to] = v]
      /\ Len(wrote[q]) < Len(req[q]) /\ q \notin broken
  BY DEF Land, Active
<1>3. q \in Sender /\ q \in Id
  BY ExclusiveParts
<1>4. /\ wrote \in [Id -> Seq(Nat)] /\ wrote[q] \in Seq(Nat) /\ Len(wrote[q]) \in Nat
      /\ buffer \in [Id -> Nat] /\ Len(req[q]) \in Nat /\ DOMAIN req[q] = 1..Len(req[q])
  BY <1>3, QueuePairParts DEF TrafficInv, TypeInv
<1>5. n \in 1..Len(req[q]) /\ NextWrite(q) = req[q][n] /\ Len(wrote[q]) < n
  BY <1>2, <1>4 DEF NextWrite
<1>6. NextWrite(q) \in Requests /\ NextWrite(q).from = payload[q] /\ NextWrite(q).to = target[q]
  BY <1>3, <1>5, QueuePairParts DEF TrafficInv, PostedInv
<1>7. v = req[q][n].val /\ v \in Nat
  <2>1. req[q][n].val = buffer[payload[q]]
    BY <1>2, <1>5 DEF ChannelInv
  <2> QED
    BY <1>5, <1>6, <2>1 DEF Carried, Requests
<1> HIDE DEF v
<1>8. buffer'[payload[q]] = buffer[payload[q]]
  BY <1>2, <1>3, <1>4, <1>6, Wiring
<1>9. wrote'[q] = Append(wrote[q], v) /\ Len(wrote'[q]) = n
  <2>1. wrote'[q] = Append(wrote[q], v)
    BY <1>2, <1>3, <1>4
  <2> QED
    BY <1>4, <1>7, <2>1, AppendParts
<1>10. ChannelInv(q)'
  <2>1. \A i \in 1..Len(req[q]) : n < i => req[q][i].val = buffer'[payload[q]]
    <3>1. \A i \in 1..Len(req[q]) : Len(wrote[q]) < i => req[q][i].val = buffer[payload[q]]
      BY <1>2 DEF ChannelInv
    <3>2. \A i \in 1..Len(req[q]) : n < i => Len(wrote[q]) < i
      BY <1>4
    <3> QED
      BY <1>8, <3>1, <3>2
  <2> HIDE DEF n
  <2> QED
    BY <1>1, <1>9, <2>1 DEF ChannelInv, AllYes, CqOf
<1>11. Channel(q)!Write
  <2>1. Channel(q)!Open
    BY <1>2 DEF ChannelInv, AllYes, Channel!Open
  <2>2. Len(Payloads(req[q])) = Len(req[q]) /\ Payloads(req[q])[n] = v
    BY <1>4, <1>5, <1>7 DEF Payloads
  <2>3. wrote'[q] = Append(wrote[q], Payloads(req[q])[Len(wrote[q]) + 1])
    BY <1>9, <2>2
  <2> QED
    BY <1>1, <1>2, <2>1, <2>2, <2>3 DEF Channel!Write
<1> QED
  BY <1>10, <1>11 DEF Channel!Next

\* A poll that is still to come did not fail.
LEMMA Unanswered ==
  ASSUME TrafficInv, NEW q \in Sender
  PROVE  <<q, Len(told[q]) + 1>> \notin blind
<1>1. Len(told[q]) \in Nat /\ DOMAIN told[q] = 1..Len(told[q])
  BY QueuePairParts
<1>2. Len(told[q]) + 1 \notin DOMAIN told[q]
  BY <1>1
<1> QED
  BY <1>2 DEF TrafficInv, BlindInv

LEMMA PollIsAnswer ==
  ASSUME TrafficInv, NEW q \in Exclusive, ChannelInv(q), Poll(q), UNCHANGED blind
  PROVE  ChannelInv(q)' /\ [Channel(q)!Next]_(Channel(q)!vars)
<1> DEFINE c == CqOf(q)
           e == Head(cq[c])
<1>1. q \in Sender /\ q \in Pair /\ q \in Id /\ c \in Id
  BY ExclusiveParts
<1>2. SendCq(q) = c
  BY <1>1, Cqs DEF TrafficInv
<1>3. /\ Consume(c)
      /\ told' = [told EXCEPT ![q] = Append(@, e.ok)]
      /\ UNCHANGED <<obj, buffer, req, wrote, acked, broken, overrun, blind>>
  <2>1. <<q, Len(told[q]) + 1>> \notin blind
    BY <1>1, Unanswered
  <2> QED
    BY <1>2, <2>1 DEF Poll, Status
<1>4. /\ e \in Entries /\ e.qp \in Sender /\ CqOf(e.qp) = c
      /\ e = cq[c][1] /\ 1 \in 1..Len(cq[c])
      /\ polled[e.qp] < acked[e.qp] /\ (e.ok => polled[e.qp] < Len(wrote[e.qp]))
      /\ polled'[e.qp] = polled[e.qp] + 1
  BY <1>1, <1>3, ConsumedEntry
<1>5. \A j \in 1..Len(cq'[c]) :
         /\ j + 1 \in 1..Len(cq[c]) /\ cq'[c][j] = cq[c][j + 1]
         /\ cq'[c][j].qp = e.qp /\ cq'[c][j].ok => e.ok
  BY <1>1, <1>3, ConsumedEntry
<1>6. \A j \in 1..Len(cq[c]) : cq[c][j].qp = q
  <2>1. SUFFICES ASSUME NEW j \in 1..Len(cq[c])
                 PROVE  cq[c][j].qp = q
    OBVIOUS
  <2>2. cq[c][j] \in Entries
    BY <1>1, QueuePairParts
  <2>3. cq[c][j].qp \in Pair
    BY <2>2, Wiring DEF Entries
  <2>4. CqOf(cq[c][j].qp) = c
    BY <1>1 DEF TrafficInv, QueuesInv, Numbered
  <2> QED
    BY <2>3, <2>4, ExclusiveParts
<1>7. e.qp = q /\ e.ok \in BOOLEAN
  BY <1>4, <1>6 DEF Entries
<1> HIDE DEF e
<1>8. /\ told \in [Id -> Seq(BOOLEAN)] /\ told[q] \in Seq(BOOLEAN) /\ Len(told[q]) \in Nat
      /\ DOMAIN told[q] = 1..Len(told[q])
  BY <1>1, QueuePairParts DEF TrafficInv, TypeInv
<1>9. told'[q] = Append(told[q], e.ok)
  BY <1>1, <1>3, <1>8
<1>10. /\ Len(told'[q]) = Len(told[q]) + 1 /\ DOMAIN told'[q] = 1..Len(told'[q])
       /\ told'[q][Len(told[q]) + 1] = e.ok
       /\ \A i \in 1..Len(told[q]) : told'[q][i] = told[q][i]
       /\ \A i \in 1..Len(told'[q]) : i \in 1..Len(told[q]) \/ i = Len(told[q]) + 1
  BY <1>7, <1>8, <1>9, AppendParts, SeqParts
<1>11. e.ok => AllYes(q) /\ AllYes(q)'
  <2>1. e.ok => AllYes(q)
    BY <1>4 DEF ChannelInv
  <2> QED
    BY <1>8, <1>10, <2>1 DEF AllYes
<1>12. q \notin broken => e.ok
  BY <1>1, <1>4, <1>7 DEF TrafficInv, UnbrokenInv
<1>13. ChannelInv(q)'
  <2>1. Len(told'[q]) = polled'[q]
    BY <1>4, <1>7, <1>10 DEF ChannelInv
  <2>2. q \notin broken => AllYes(q)'
    BY <1>11, <1>12
  <2>3. \A j \in 1..Len(cq'[c]) : cq'[c][j].ok => AllYes(q)'
    BY <1>5, <1>6, <1>7, <1>11
  <2>4. q \notin broken => \A i \in 1..Len(req[q]) :
            Len(wrote[q]) < i => req[q][i].val = buffer[payload[q]]
    BY DEF ChannelInv
  <2> QED
    BY <1>3, <2>1, <2>2, <2>3, <2>4 DEF ChannelInv, CqOf
<1>14. Len(told[q]) < Len(req[q]) /\ (e.ok => Len(told[q]) < Len(wrote[q]))
  BY <1>1, <1>4, <1>7, QueuePairParts DEF ChannelInv
<1>15. Len(Payloads(req[q])) = Len(req[q])
  BY <1>1, QueuePairParts DEF Payloads
<1>16. CASE e.ok = TRUE
  <2>1. Channel(q)!Open
    BY <1>11, <1>16 DEF AllYes, Channel!Open
  <2>2. told'[q] = Append(told[q], TRUE)
    BY <1>9, <1>16
  <2>3. Channel(q)!Yes
    BY <1>3, <1>14, <1>16, <2>1, <2>2 DEF Channel!Yes
  <2> QED
    BY <1>13, <2>3 DEF Channel!Next
<1>17. CASE e.ok = FALSE
  <2>1. told'[q] = Append(told[q], FALSE)
    BY <1>9, <1>17
  <2>2. Channel(q)!No
    BY <1>3, <1>14, <1>15, <2>1 DEF Channel!No
  <2> QED
    BY <1>13, <2>2 DEF Channel!Next
<1> QED
  BY <1>7, <1>16, <1>17

\* An application that touches the payload has all the answers, so either the
\* queue pair is broken or everything posted is written.
LEMMA RefillIsUnseen ==
  ASSUME TrafficInv, NEW q \in Exclusive, ChannelInv(q), Refill(q)
  PROVE  ChannelInv(q)' /\ UNCHANGED Channel(q)!vars
<1>1. UNCHANGED <<obj, req, wrote, acked, polled, cq, broken, overrun, told, blind>>
  BY DEF Refill, Fill
<1>2. q \in Sender /\ q \in Id
  BY ExclusiveParts
<1>3. q \notin broken => Len(req[q]) <= Len(wrote[q])
  <2>1. Len(req[q]) = polled[q]
    BY DEF Refill, Settled, ChannelInv
  <2>2. q \notin broken => acked[q] <= Len(wrote[q])
    BY <1>2 DEF TrafficInv, UnbrokenInv
  <2> QED
    BY <1>2, <2>1, <2>2, QueuePairParts
<1>4. Len(req[q]) \in Nat /\ Len(wrote[q]) \in Nat
  BY <1>2, QueuePairParts
<1>5. q \notin broken => \A i \in 1..Len(req[q]) : ~(Len(wrote[q]) < i)
  BY <1>3, <1>4
<1> QED
  BY <1>1, <1>5 DEF ChannelInv, AllYes, CqOf, Channel!vars, Payloads

\* A completion that is ok is one of a queue pair that is not broken.
LEMMA CompleteIsUnseen ==
  ASSUME TrafficInv, NEW q \in Exclusive, ChannelInv(q),
         NEW ok \in BOOLEAN, NEW down, ok => q \notin broken,
         UNCHANGED <<buffer, wrote>>, Complete(q, ok, down)
  PROVE  ChannelInv(q)' /\ UNCHANGED Channel(q)!vars
<1> DEFINE c == CqOf(q)
           e == [qp |-> q, ok |-> ok]
<1>1. UNCHANGED <<buffer, wrote, obj, req, polled, told, blind>>
  BY DEF Complete
<1>2. q \in Sender /\ q \in Pair /\ c \in Id
  BY ExclusiveParts
<1>3. SendCq(q) = c
  BY <1>2, Cqs DEF TrafficInv
<1>4. broken \subseteq broken'
  BY DEF Complete
<1>5. ok => AllYes(q)
  BY DEF ChannelInv
<1>6. cq'[c] = cq[c] \/ cq'[c] = Append(cq[c], e)
  <2>1. cq' = cq \/ cq' = [cq EXCEPT ![c] = Append(@, e)]
    BY <1>3 DEF Complete
  <2>2. cq \in [Id -> Seq(Entries)]
    BY DEF TrafficInv, TypeInv
  <2> QED
    BY <1>2, <2>1, <2>2
<1>7. \A j \in 1..Len(cq'[c]) : cq'[c][j].ok => AllYes(q)
  <2>1. \A j \in 1..Len(cq[c]) : cq[c][j].ok => AllYes(q)
    BY DEF ChannelInv
  <2>2. CASE cq'[c] = Append(cq[c], e)
    <3>1. cq[c] \in Seq(Entries) /\ e \in Entries /\ e.ok = ok
      BY <1>2, QueuePairParts DEF Entries
    <3> HIDE DEF e
    <3>2. /\ \A j \in 1..Len(cq[c]) : cq'[c][j] = cq[c][j]
          /\ cq'[c][Len(cq[c]) + 1] = e
          /\ \A j \in 1..Len(cq'[c]) : j \in 1..Len(cq[c]) \/ j = Len(cq[c]) + 1
      BY <2>2, <3>1, AppendParts
    <3> QED
      BY <1>5, <2>1, <3>1, <3>2
  <2> QED
    BY <1>6, <2>1, <2>2
<1> QED
  BY <1>1, <1>4, <1>7 DEF ChannelInv, AllYes, CqOf, Channel!vars, Payloads

LEMMA DeviceStepsChannel ==
  ASSUME TrafficInv, NEW q \in Exclusive, ChannelInv(q), NEW p \in Pair, Device(p)
  PROVE  ChannelInv(q)' /\ [Channel(q)!Next]_(Channel(q)!vars)
<1>1. /\ q \in Sender /\ q \in Pair /\ q \in Id /\ CqOf(q) \in Id /\ p \in Id
      /\ p # q => CqOf(p) # CqOf(q)
  BY ExclusiveParts, Wiring
<1>2. CASE Land(p)
  <2>1. CASE p = q
    BY <1>2, <2>1, LandIsWrite
  <2>2. CASE p # q
    <3>1. UNCHANGED <<obj, req, acked, polled, cq, broken, overrun, told, blind>>
      BY <1>2 DEF Land
    <3>2. wrote'[q] = wrote[q]
      BY <1>1, <1>2, <2>2 DEF Land, TrafficInv, TypeInv
    <3>3. buffer'[payload[q]] = buffer[payload[q]]
      <4>1. /\ req[p] \in Seq(Requests) /\ Len(req[p]) \in Nat
            /\ wrote[p] \in Seq(Nat) /\ Len(wrote[p]) \in Nat
        BY <1>1, SeqParts DEF TrafficInv, TypeInv
      <4>2. Len(wrote[p]) + 1 \in 1..Len(req[p]) /\ req[p] # <<>>
        BY <1>2, <4>1 DEF Land
      <4>3. p \in Sender
        BY <1>1, <4>2 DEF TrafficInv, CountersInv
      <4>4. NextWrite(p).to = target[p]
        BY <4>2, <4>3 DEF TrafficInv, PostedInv, NextWrite
      <4> QED
        BY <1>1, <1>2, <4>3, <4>4, Wiring DEF Land, TrafficInv, TypeInv
    <3> QED
      BY <3>1, <3>2, <3>3, Elsewhere
  <2> QED
    BY <2>1, <2>2
<1>3. ASSUME NEW ok \in BOOLEAN, NEW down, ok => p \notin broken,
             UNCHANGED <<buffer, wrote>>, Complete(p, ok, down)
      PROVE  ChannelInv(q)' /\ [Channel(q)!Next]_(Channel(q)!vars)
  <2>1. CASE p = q
    BY <1>3, <2>1, CompleteIsUnseen
  <2>2. CASE p # q
    <3>1. UNCHANGED <<req, polled, told>> /\ broken \subseteq broken'
      BY <1>3 DEF Complete
    <3>2. SendCq(p) # CqOf(q)
      BY <1>1, <2>2, Cqs DEF TrafficInv
    <3>3. cq'[CqOf(q)] = cq[CqOf(q)]
      <4>1. cq' = cq \/ \E s : cq' = [cq EXCEPT ![SendCq(p)] = s]
        BY <1>3 DEF Complete
      <4>2. cq \in [Id -> Seq(Entries)]
        BY DEF TrafficInv, TypeInv
      <4> QED
        BY <1>1, <3>2, <4>1, <4>2
    <3> QED
      BY <1>3, <3>1, <3>3, Elsewhere
  <2> QED
    BY <2>1, <2>2
<1>4. CASE Ack(p)
  <2>1. p \notin broken /\ Complete(p, TRUE, {}) /\ UNCHANGED <<buffer, wrote>>
    BY <1>4 DEF Ack, Active
  <2> QED
    BY <1>3, <2>1
<1>5. CASE Refuse(p)
  <2>1. Complete(p, FALSE, {p, Wrapper(p).peer}) /\ UNCHANGED <<buffer, wrote>>
    BY <1>5 DEF Refuse
  <2> QED
    BY <1>3, <2>1
<1>6. CASE GiveUp(p)
  <2>1. Complete(p, FALSE, {p}) /\ UNCHANGED <<buffer, wrote>>
    BY <1>6 DEF GiveUp
  <2> QED
    BY <1>3, <2>1
<1>7. CASE Flush(p)
  <2>1. Complete(p, FALSE, {}) /\ UNCHANGED <<buffer, wrote>>
    BY <1>7 DEF Flush
  <2> QED
    BY <1>3, <2>1
<1> QED
  BY <1>2, <1>4, <1>5, <1>6, <1>7 DEF Device

\* A poll of another completion queue.
LEMMA ConsumeElsewhere ==
  ASSUME TrafficInv, NEW q \in Exclusive, ChannelInv(q), NEW c \in Id, c # CqOf(q), Consume(c),
         UNCHANGED <<buffer, req, wrote, broken, told[q]>>
  PROVE  ChannelInv(q)' /\ UNCHANGED Channel(q)!vars
<1>1. CqOf(q) \in Id /\ q \in Id
  BY ExclusiveParts
<1>2. polled'[q] = polled[q] /\ cq'[CqOf(q)] = cq[CqOf(q)]
  BY <1>1, ConsumedEntry
<1> QED
  BY <1>2, Elsewhere

LEMMA ChannelStep ==
  ASSUME TrafficInv, NEW q \in Exclusive, ChannelInv(q), Sighted(q)', [Next]_vars
  PROVE  ChannelInv(q)' /\ [Channel(q)!Next]_(Channel(q)!vars)
<1>1. /\ q \in Sender /\ q \in Pair /\ q \in Id /\ use \subseteq Sender
      /\ \A p \in Pair : /\ p # q => CqOf(p) # CqOf(q)
                         /\ <<p[1], recv_cq[p]>> # CqOf(q)
  BY ExclusiveParts DEF TrafficInv, TypeInv
<1>2. CASE UNCHANGED vars
  BY <1>2, Elsewhere DEF vars
<1>3. ASSUME NEW p \in Pair, Connect(p)
      PROVE  ChannelInv(q)' /\ [Channel(q)!Next]_(Channel(q)!vars)
  BY <1>3, Elsewhere DEF Connect, dataVars
<1>4. ASSUME NEW p \in Pair, RecvPoll(p)
      PROVE  ChannelInv(q)' /\ [Channel(q)!Next]_(Channel(q)!vars)
  <2>1. RecvCq(p) \in Id /\ RecvCq(p) # CqOf(q)
    BY <1>1, Cqs DEF TrafficInv
  <2>2. CASE UNCHANGED <<obj, dataVars>>
    BY <2>2, Elsewhere DEF dataVars
  <2>3. CASE ~UNCHANGED <<obj, dataVars>>
    <3>1. Consume(RecvCq(p)) /\ UNCHANGED <<buffer, req, wrote, broken, told>>
      BY <1>4, <2>3 DEF RecvPoll
    <3> QED
      BY <2>1, <3>1, ConsumeElsewhere
  <2> QED
    BY <2>2, <2>3
<1>5. ASSUME NEW p \in Pair, Device(p)
      PROVE  ChannelInv(q)' /\ [Channel(q)!Next]_(Channel(q)!vars)
  BY <1>5, DeviceStepsChannel
<1>6. ASSUME NEW p \in use, Refill(p)
      PROVE  ChannelInv(q)' /\ [Channel(q)!Next]_(Channel(q)!vars)
  <2>1. CASE p = q
    BY <1>6, <2>1, RefillIsUnseen
  <2>2. CASE p # q
    <3>1. UNCHANGED <<obj, req, wrote, acked, polled, cq, broken, overrun, told, blind>>
      BY <1>6 DEF Refill, Fill
    <3>2. buffer'[payload[q]] = buffer[payload[q]]
      BY <1>1, <1>6, <2>2, Wiring DEF Refill, Fill, TrafficInv, TypeInv
    <3> QED
      BY <3>1, <3>2, Elsewhere
  <2> QED
    BY <2>1, <2>2
<1>7. ASSUME NEW p \in use, NEW inline \in Inline[p], Send(p, inline)
      PROVE  ChannelInv(q)' /\ [Channel(q)!Next]_(Channel(q)!vars)
  <2>1. inline \in BOOLEAN /\ p \in Sender /\ p \in Id
    BY <1>1, Wiring, WiringAssumption
  <2>2. CASE p = q
    BY <1>7, <2>1, <2>2, SendIsAsk
  <2>3. CASE p # q
    <3>1. UNCHANGED <<obj, buffer, wrote, acked, polled, cq, broken, overrun, told, blind>>
      BY <1>7 DEF Send, Post
    <3>2. req'[q] = req[q]
      BY <1>1, <1>7, <2>1, <2>3 DEF Send, Post, TrafficInv, TypeInv
    <3> QED
      BY <3>1, <3>2, Elsewhere
  <2> QED
    BY <2>2, <2>3
<1>8. ASSUME NEW p \in use, Await(p)
      PROVE  ChannelInv(q)' /\ [Channel(q)!Next]_(Channel(q)!vars)
  <2>1. p \in Sender /\ p \in Pair /\ p \in Id /\ Poll(p)
    BY <1>1, <1>8, Wiring DEF Await
  <2>2. CASE p = q
    <3>1. blind' # blind \cup {<<q, Len(told[q]) + 1>>}
      <4>1. told[q] \in Seq(BOOLEAN) /\ told \in [Id -> Seq(BOOLEAN)]
        BY <1>1, QueuePairParts DEF TrafficInv, TypeInv
      <4>2. Len(told[q]) + 1 \in DOMAIN told'[q]
        <5>1. PICK answer : told' = [told EXCEPT ![q] = Append(@, answer)]
          BY <2>1, <2>2 DEF Poll
        <5>2. told'[q] = Append(told[q], answer)
          BY <1>1, <4>1, <5>1
        <5> QED
          BY <4>1, <5>2
      <4> QED
        BY <4>2 DEF Sighted
    <3>2. UNCHANGED blind
      BY <2>1, <2>2, <3>1 DEF Poll
    <3> QED
      BY <2>1, <2>2, <3>2, PollIsAnswer
  <2>3. CASE p # q
    <3>1. SendCq(p) = CqOf(p) /\ CqOf(p) \in Id /\ CqOf(p) # CqOf(q)
      BY <1>1, <2>1, <2>3, Cqs DEF TrafficInv
    <3>2. PICK answer : /\ told' = [told EXCEPT ![p] = Append(@, answer)]
                        /\ UNCHANGED <<buffer, req, wrote, broken>>
                        /\ Consume(CqOf(p)) \/ UNCHANGED <<polled, cq>>
      BY <2>1, <3>1 DEF Poll
    <3>3. told'[q] = told[q]
      BY <1>1, <2>1, <2>3, <3>2 DEF TrafficInv, TypeInv
    <3>4. CASE Consume(CqOf(p))
      BY <3>1, <3>2, <3>3, <3>4, ConsumeElsewhere
    <3>5. CASE UNCHANGED <<polled, cq>>
      BY <3>2, <3>3, <3>5, Elsewhere
    <3> QED
      BY <3>2, <3>4, <3>5
  <2> QED
    BY <2>2, <2>3
<1> QED
  BY <1>2, <1>3, <1>4, <1>5, <1>6, <1>7, <1>8 DEF Next

LEMMA ChannelInitially ==
  ASSUME Init, NEW q \in Exclusive
  PROVE  ChannelInv(q) /\ Channel(q)!Init
<1>1. q \in Id /\ CqOf(q) \in Id
  BY ExclusiveParts
<1>2. /\ req[q] = <<>> /\ wrote[q] = <<>> /\ told[q] = <<>> /\ polled[q] = 0
      /\ cq[CqOf(q)] = <<>>
  BY <1>1 DEF Init, DataInit
<1>3. ChannelInv(q)
  BY <1>2 DEF ChannelInv, AllYes
<1>4. Payloads(<<>>) = <<>>
  BY DEF Payloads
<1> QED
  BY <1>2, <1>3, <1>4 DEF Channel!Init

\* A poll that failed stays failed.
LEMMA SightedBefore ==
  ASSUME TrafficInv, [Next]_vars, NEW q \in Exclusive, Sighted(q)'
  PROVE  Sighted(q)
<1>1. /\ q \in Sender /\ q \in Id /\ use \subseteq Sender
      /\ told \in [Id -> Seq(BOOLEAN)] /\ told[q] \in Seq(BOOLEAN)
  BY ExclusiveParts, QueuePairParts DEF TrafficInv, TypeInv
<1>2. CASE UNCHANGED <<told, blind>>
  BY <1>2 DEF Sighted
<1>3. ASSUME NEW p \in use, Await(p)
      PROVE  Sighted(q)
  <2>1. PICK answer : /\ told' = [told EXCEPT ![p] = Append(@, answer)]
                      /\ blind \subseteq blind'
    BY <1>3 DEF Await, Poll
  <2>2. told'[q] = told[q] \/ told'[q] = Append(told[q], answer)
    BY <1>1, <2>1
  <2>3. DOMAIN told[q] \subseteq DOMAIN told'[q]
    BY <1>1, <2>2
  <2> QED
    BY <2>1, <2>3 DEF Sighted
<1> QED
  BY <1>2, <1>3 DEF Next, vars, Connect, RecvPoll, Device, Land, Ack, Refuse, GiveUp, Flush,
     Complete, Refill, Fill, Send, Post, dataVars

\* Posts and polls on a queue pair with its own completion queue are a write
\* channel, until one of its polls failed: in order, each once, with the payload
\* posted, and yes only of what was written.
THEOREM ImplementsChannelCorrect == Spec => ImplementsChannel
<1> DEFINE Inv == TrafficInv /\ \A q \in Exclusive : Sighted(q) => ChannelInv(q)
           Steps == \A q \in Exclusive : Sighted(q)' => [Channel(q)!Next]_(Channel(q)!vars)
           Starts == \A q \in Exclusive : Channel(q)!Init
<1>1. Init => Inv /\ Starts
  BY TrafficInitially, ChannelInitially
<1>2. Inv /\ [Next]_vars => Inv' /\ Steps
  BY TrafficStep, ChannelStep, SightedBefore
<1> HIDE DEF Inv, Steps, Starts
<1>3. Spec => Starts /\ [][Steps]_vars
  BY <1>1, <1>2, PTL DEF Spec
<1> QED
  BY <1>3 DEF ImplementsChannel, Starts, Steps

-----------------------------------------------------------------------------
(* What the answers say on a completion queue that is shared.  Counting     *)
(* would need sums over the queue pairs that share it; an injection from    *)
(* the answers to the completions taken does without: every poll that did   *)
(* not fail took one completion, and an answer that is yes took that of a   *)
(* request that is written.  When there are as many answers as requests,    *)
(* the injection is onto, and so every request is among the completions.    *)

Posted(c) == { a \in Sharers(c) \X Nat : a[2] \in 1..Len(req[a[1]]) }
Answered(c) ==
    { a \in Sharers(c) \X Nat : a \notin blind /\ a[2] \in 1..Len(told[a[1]]) }
Consumed(c) == { a \in Sharers(c) \X Nat : a[2] \in 1..polled[a[1]] }

\* The answer a was given for the completion taken[a].
AnsweredBy(c, taken) ==
    /\ taken \in [Answered(c) -> Consumed(c)]
    /\ \A a, b \in Answered(c) : taken[a] = taken[b] => a = b
    /\ \A a \in Answered(c) : told[a[1]][a[2]] =>
         taken[a][2] <= Len(wrote[taken[a][1]])

AnswersInv ==
    /\ \A c \in Id : \E taken : AnsweredBy(c, taken)
    /\ \A c \in Id : IsFiniteSet(Posted(c))

\* The sharers of a completion queue, and what their variables hold.
LEMMA SharerParts ==
  ASSUME TrafficInv, NEW c \in Id, NEW q \in Sharers(c)
  PROVE  /\ q \in Sender /\ q \in Id /\ CqOf(q) = c
         /\ Len(req[q]) \in Nat /\ Len(wrote[q]) \in Nat /\ Len(told[q]) \in Nat
         /\ polled[q] \in Nat /\ polled[q] <= Len(req[q])
         /\ Len(wrote[q]) <= Len(req[q]) /\ DOMAIN told[q] = 1..Len(told[q])
<1>1. q \in Sender /\ CqOf(q) = c
  BY DEF Sharers, CqOf
<1>2. polled[q] <= Len(req[q])
  BY <1>1, QueuePairParts
<1> QED
  BY <1>1, <1>2, QueuePairParts

LEMMA AnswersInitially == Init => AnswersInv
<1> SUFFICES ASSUME Init PROVE AnswersInv
  OBVIOUS
<1>1. \A q \in Id : Len(req[q]) = 0 /\ Len(told[q]) = 0
  BY DEF Init, DataInit
<1>2. ASSUME NEW c \in Id
      PROVE  Answered(c) = {} /\ Posted(c) = {}
  <2>1. \A q \in Sharers(c) : q \in Id
    BY Wiring DEF Sharers
  <2> QED
    BY <1>1, <2>1 DEF Answered, Posted
<1>3. ASSUME NEW c \in Id
      PROVE  \E taken : AnsweredBy(c, taken)
  <2>1. AnsweredBy(c, [a \in {} |-> a])
    BY <1>2 DEF AnsweredBy
  <2> QED
    BY <2>1
<1>4. IsFiniteSet({})
  BY FS_EmptySet
<1> QED
  BY <1>2, <1>3, <1>4 DEF AnswersInv

\* A step in which nobody is answered: completions may be taken, writes may
\* land and requests may be posted.
LEMMA UnansweredKeeps ==
  ASSUME TrafficInv, TrafficInv', AnswersInv, UNCHANGED <<told, blind>>,
         \A q \in Sender : /\ polled[q] <= polled'[q]
                           /\ Len(wrote[q]) <= Len(wrote'[q])
  PROVE  \A c \in Id : \E taken : AnsweredBy(c, taken)'
<1> SUFFICES ASSUME NEW c \in Id
             PROVE  \E taken : AnsweredBy(c, taken)'
  OBVIOUS
<1>1. PICK taken : AnsweredBy(c, taken)
  BY DEF AnswersInv
<1>2. Answered(c)' = Answered(c)
  BY DEF Answered, Sharers
<1>3. Sharers(c)' = Sharers(c)
  BY DEF Sharers
<1>4. \A q \in Sharers(c) :
        /\ q \in Sender
        /\ polled[q] \in Nat /\ polled'[q] \in Nat
        /\ Len(wrote[q]) \in Nat /\ Len(wrote'[q]) \in Nat
  <2> SUFFICES ASSUME NEW q \in Sharers(c)
               PROVE  /\ q \in Sender
                      /\ polled[q] \in Nat /\ polled'[q] \in Nat
                      /\ Len(wrote[q]) \in Nat /\ Len(wrote'[q]) \in Nat
    OBVIOUS
  <2>1. q \in Sender /\ q \in Id /\ polled[q] \in Nat /\ Len(wrote[q]) \in Nat
    BY SharerParts
  <2>2. polled' \in [Id -> Nat] /\ wrote' \in [Id -> Seq(Nat)]
    BY DEF TrafficInv, TypeInv
  <2>3. polled'[q] \in Nat /\ wrote'[q] \in Seq(Nat)
    BY <2>1, <2>2
  <2> QED
    BY <2>1, <2>3
<1>5. ASSUME NEW a \in Consumed(c)
      PROVE  /\ a \in Consumed(c)'
             /\ a[2] <= Len(wrote[a[1]]) => a[2] <= Len(wrote'[a[1]])
  <2>1. /\ a \in Sharers(c) \X Nat /\ a[1] \in Sharers(c) /\ a[2] \in Nat
        /\ a[2] \in 1..polled[a[1]]
    BY DEF Consumed
  <2>2. polled[a[1]] <= polled'[a[1]] /\ Len(wrote[a[1]]) <= Len(wrote'[a[1]])
    BY <1>4, <2>1
  <2>3. a[2] \in 1..polled'[a[1]]
    BY <1>4, <2>1, <2>2
  <2>4. a \in Consumed(c)'
    BY <1>3, <2>1, <2>3 DEF Consumed
  <2> QED
    BY <1>4, <2>1, <2>2, <2>4
<1>6. taken \in [Answered(c) -> Consumed(c)']
  BY <1>1, <1>5 DEF AnsweredBy
<1>7. \A a \in Answered(c) : told'[a[1]][a[2]] =>
        taken[a][2] <= Len(wrote'[taken[a][1]])
  BY <1>1, <1>5 DEF AnsweredBy
<1> QED
  BY <1>1, <1>2, <1>6, <1>7 DEF AnsweredBy

\* A post adds one request.
LEMMA PostedStaysFinite ==
  ASSUME TrafficInv, AnswersInv, NEW q \in Sender, NEW inline, Send(q, inline),
         NEW c \in Id
  PROVE  IsFiniteSet(Posted(c)')
<1> DEFINE slot == <<q, Len(req[q]) + 1>>
<1>1. Sharers(c)' = Sharers(c)
  BY DEF Sharers
<1>2. q \in Id /\ req \in [Id -> Seq(Requests)] /\ Len(req[q]) \in Nat
  BY QueuePairParts DEF TrafficInv, TypeInv
<1>3. \A p \in Sharers(c) :
        /\ p \in Id /\ Len(req[p]) \in Nat
        /\ Len(req'[p]) = Len(req[p]) \/ (p = q /\ Len(req'[p]) = Len(req[q]) + 1)
  <2>1. CASE req' = req
    BY <2>1, SharerParts
  <2>2. CASE req' # req
    <3>1. PICK r : req' = [req EXCEPT ![q] = Append(@, r)]
      BY <2>2 DEF Send, Post
    <3>2. req'[q] = Append(req[q], r) /\ \A p \in Id : p # q => req'[p] = req[p]
      BY <1>2, <3>1
    <3>3. req[q] \in Seq(Requests)
      BY <1>2
    <3>4. Len(req'[q]) = Len(req[q]) + 1
      BY <3>2, <3>3
    <3> QED
      BY <3>2, <3>4, SharerParts
  <2> QED
    BY <2>1, <2>2
<1>4. Posted(c)' \subseteq Posted(c) \cup {slot}
  <2> SUFFICES ASSUME NEW a \in Posted(c)', a \notin Posted(c)
               PROVE  a = slot
    OBVIOUS
  <2>1. /\ a \in Sharers(c) \X Nat /\ a[1] \in Sharers(c) /\ a[2] \in Nat
        /\ a = <<a[1], a[2]>> /\ a[2] \in 1..Len(req'[a[1]])
    BY <1>1 DEF Posted
  <2>2. a[2] \notin 1..Len(req[a[1]])
    BY <2>1 DEF Posted
  <2>3. a[1] = q /\ Len(req'[a[1]]) = Len(req[q]) + 1
    BY <1>3, <2>1, <2>2
  <2>4. a[2] = Len(req[q]) + 1
    BY <1>2, <2>1, <2>2, <2>3
  <2> QED
    BY <2>1, <2>3, <2>4
<1>5. IsFiniteSet(Posted(c) \cup {slot})
  BY FS_AddElement DEF AnswersInv
<1> QED
  BY <1>4, <1>5, FS_Subset

\* A poll gives one more answer, for the completion it takes.
LEMMA AnswerTakes ==
  ASSUME TrafficInv, TrafficInv', AnswersInv, NEW q \in Sender,
         Consume(SendCq(q)),
         told' = [told EXCEPT ![q] = Append(@, Status(Head(cq[SendCq(q)])))],
         UNCHANGED <<wrote, blind>>
  PROVE  \A c \in Id : \E taken : AnsweredBy(c, taken)'
<1> SUFFICES ASSUME NEW c \in Id
             PROVE  \E taken : AnsweredBy(c, taken)'
  OBVIOUS
<1> DEFINE e == Head(cq[SendCq(q)])
           n == Len(told[q]) + 1
<1>1. SendCq(q) = CqOf(q) /\ CqOf(q) \in Id
  BY Wiring, Cqs DEF TrafficInv
<1>2. /\ e \in Entries /\ e.qp \in Sender /\ CqOf(e.qp) = CqOf(q)
      /\ e.ok => polled[e.qp] < Len(wrote[e.qp])
      /\ polled'[e.qp] = polled[e.qp] + 1
      /\ \A p \in Id : p # e.qp => polled'[p] = polled[p]
  BY <1>1, ConsumedEntry
<1>3. PICK taken : AnsweredBy(c, taken)
  BY DEF AnswersInv
<1>4. Sharers(c)' = Sharers(c)
  BY DEF Sharers
<1>5. /\ \A p \in Sender : /\ p \in Id /\ polled[p] \in Nat
                           /\ Len(wrote[p]) \in Nat /\ Len(told[p]) \in Nat
      /\ told \in [Id -> Seq(BOOLEAN)] /\ told[q] \in Seq(BOOLEAN)
  BY QueuePairParts DEF TrafficInv, TypeInv
<1>6. /\ Len(told'[q]) = n /\ told'[q][n] = e.ok
      /\ \A i \in 1..Len(told[q]) : told'[q][i] = told[q][i]
      /\ \A p \in Id : p # q => told'[p] = told[p]
  <2>1. Status(e) = e.ok /\ e.ok \in BOOLEAN
    BY <1>2 DEF Status, Entries
  <2>2. told'[q] = Append(told[q], e.ok) /\ \A p \in Id : p # q => told'[p] = told[p]
    BY <1>5, <2>1
  <2> QED
    BY <1>5, <2>1, <2>2, AppendParts
<1> HIDE DEF e
<1>7. Consumed(c) \subseteq Consumed(c)'
  <2> SUFFICES ASSUME NEW a \in Consumed(c) PROVE a \in Consumed(c)'
    OBVIOUS
  <2>1. a \in Sharers(c) \X Nat /\ a[1] \in Sender /\ a[2] \in 1..polled[a[1]]
    BY DEF Consumed, Sharers
  <2>2. polled'[a[1]] = polled[a[1]] \/ polled'[a[1]] = polled[a[1]] + 1
    BY <1>2, <1>5, <2>1
  <2>3. a[2] \in 1..polled'[a[1]]
    BY <1>5, <2>1, <2>2
  <2> QED
    BY <1>4, <2>1, <2>3 DEF Consumed
<1>8. CASE c # CqOf(q)
  <2>1. \A p \in Sharers(c) : p # q /\ p \in Id
    BY <1>5, <1>8 DEF Sharers, CqOf
  <2>2. Answered(c)' = Answered(c)
    BY <1>4, <1>6, <2>1 DEF Answered
  <2>3. \A a \in Answered(c) : told'[a[1]] = told[a[1]]
    BY <1>6, <2>1 DEF Answered
  <2>4. taken \in [Answered(c) -> Consumed(c)']
    BY <1>3, <1>7 DEF AnsweredBy
  <2> QED
    BY <1>3, <2>2, <2>3, <2>4 DEF AnsweredBy
<1>9. CASE c = CqOf(q)
  <2> DEFINE new == <<q, n>>
             slot == <<e.qp, polled[e.qp] + 1>>
  <2>1. q \in Sharers(c) /\ e.qp \in Sharers(c)
    BY <1>2, <1>9 DEF Sharers, CqOf
  <2>2. new \in Answered(c)' /\ new \notin Answered(c)
    <3>1. n \in Nat /\ n \in 1..Len(told'[q]) /\ n \notin 1..Len(told[q])
      BY <1>5, <1>6
    <3>2. new \notin blind'
      BY Unanswered
    <3> QED
      BY <1>4, <2>1, <3>1, <3>2 DEF Answered
  <2>3. slot \in Consumed(c)' /\ slot \notin Consumed(c)
    <3>1. /\ polled[e.qp] + 1 \in Nat /\ polled[e.qp] + 1 \in 1..polled'[e.qp]
          /\ polled[e.qp] + 1 \notin 1..polled[e.qp]
      BY <1>2, <1>5
    <3> QED
      BY <1>4, <2>1, <3>1 DEF Consumed
  <2>4. ASSUME NEW a \in Answered(c)', a # new
        PROVE  a \in Answered(c) /\ told'[a[1]][a[2]] = told[a[1]][a[2]]
    <3>1. /\ a \in Sharers(c) \X Nat /\ a[1] \in Sharers(c) /\ a[2] \in Nat
          /\ a = <<a[1], a[2]>> /\ a[2] \in 1..Len(told'[a[1]]) /\ a \notin blind
      BY <1>4 DEF Answered
    <3>2. a[1] \in Sender /\ a[1] \in Id
      BY <1>5, <3>1 DEF Sharers
    <3>3. a[2] \in 1..Len(told[a[1]])
      <4>1. CASE a[1] # q
        BY <1>6, <3>1, <3>2, <4>1
      <4>2. CASE a[1] = q
        <5>1. a[2] # n
          BY <2>4, <3>1, <4>2
        <5> QED
          BY <1>5, <1>6, <3>1, <4>2, <5>1
      <4> QED
        BY <4>1, <4>2
    <3> QED
      BY <1>6, <3>1, <3>2, <3>3 DEF Answered
  <2>5. PICK next : next = [a \in Answered(c)' |-> IF a = new THEN slot ELSE taken[a]]
    OBVIOUS
  <2>6. \A a \in Answered(c)' : a # new => next[a] = taken[a] /\ taken[a] \in Consumed(c)
    BY <1>3, <2>4, <2>5 DEF AnsweredBy
  <2>7. next[new] = slot
    BY <2>2, <2>5
  <2>8. next \in [Answered(c)' -> Consumed(c)']
    BY <1>7, <2>3, <2>6, <2>7, <2>5
  <2>9. ASSUME NEW a \in Answered(c)', NEW b \in Answered(c)', next[a] = next[b]
        PROVE  a = b
    <3>1. CASE a # new /\ b # new
      BY <1>3, <2>4, <2>6, <2>9, <3>1 DEF AnsweredBy
    <3>2. CASE a = new /\ b # new
      BY <2>3, <2>6, <2>7, <2>9, <3>2
    <3>3. CASE b = new /\ a # new
      BY <2>3, <2>6, <2>7, <2>9, <3>3
    <3> QED
      BY <3>1, <3>2, <3>3
  <2>10. ASSUME NEW a \in Answered(c)', told'[a[1]][a[2]]
        PROVE  next[a][2] <= Len(wrote'[next[a][1]])
    <3>1. CASE a # new
      BY <1>3, <2>4, <2>6, <2>10, <3>1 DEF AnsweredBy
    <3>2. CASE a = new
      <4>1. e.ok
        BY <1>6, <2>10, <3>2
      <4>2. polled[e.qp] + 1 <= Len(wrote[e.qp])
        BY <1>2, <1>5, <4>1
      <4> QED
        BY <2>7, <3>2, <4>2
    <3> QED
      BY <3>1, <3>2
  <2>11. AnsweredBy(c, next)'
    BY <2>8, <2>9, <2>10 DEF AnsweredBy
  <2> QED
    BY <2>11
<1> QED
  BY <1>8, <1>9

\* An answer of a poll that failed took none.
LEMMA BlindTakesNone ==
  ASSUME TrafficInv, AnswersInv, NEW q \in Sender, NEW status \in BOOLEAN,
         told' = [told EXCEPT ![q] = Append(@, status)],
         blind' = blind \cup {<<q, Len(told[q]) + 1>>},
         UNCHANGED <<wrote, polled>>
  PROVE  \A c \in Id : \E taken : AnsweredBy(c, taken)'
<1> SUFFICES ASSUME NEW c \in Id
             PROVE  \E taken : AnsweredBy(c, taken)'
  OBVIOUS
<1> DEFINE n == Len(told[q]) + 1
<1>1. PICK taken : AnsweredBy(c, taken)
  BY DEF AnswersInv
<1>2. /\ q \in Id /\ Len(told[q]) \in Nat /\ told \in [Id -> Seq(BOOLEAN)] /\ told[q] \in Seq(BOOLEAN)
      /\ \A p \in Sharers(c) : p \in Id
  BY QueuePairParts, SharerParts DEF TrafficInv, TypeInv
<1>3. /\ Len(told'[q]) = n /\ \A i \in 1..Len(told[q]) : told'[q][i] = told[q][i]
      /\ \A p \in Id : p # q => told'[p] = told[p]
  BY <1>2, AppendParts
<1>4. Sharers(c)' = Sharers(c) /\ Consumed(c)' = Consumed(c)
  BY DEF Sharers, Consumed
<1>5. ASSUME NEW a \in Sharers(c) \X Nat
      PROVE  /\ a \in Answered(c)' <=> a \in Answered(c)
             /\ a \in Answered(c) => told'[a[1]][a[2]] = told[a[1]][a[2]]
  <2>1. a[1] \in Sharers(c) /\ a[1] \in Id /\ a[2] \in Nat /\ a = <<a[1], a[2]>>
    BY <1>2
  <2>2. CASE a[1] # q
    <3>1. a \in blind' <=> a \in blind
      BY <2>1, <2>2
    <3> QED
      BY <1>3, <1>4, <2>1, <2>2, <3>1 DEF Answered
  <2>3. CASE a[1] = q /\ a[2] = n
    <3>1. a \in blind' /\ a[2] \notin 1..Len(told[q])
      BY <1>2, <2>1, <2>3
    <3> QED
      BY <1>4, <2>3, <3>1 DEF Answered
  <2>4. CASE a[1] = q /\ a[2] # n
    <3>1. a \in blind' <=> a \in blind
      BY <2>1, <2>4
    <3>2. a[2] \in 1..Len(told'[q]) <=> a[2] \in 1..Len(told[q])
      BY <1>2, <1>3, <2>1, <2>4
    <3> QED
      BY <1>3, <1>4, <2>4, <3>1, <3>2 DEF Answered
  <2> QED
    BY <2>2, <2>3, <2>4
<1>6. Answered(c)' = Answered(c)
  BY <1>4, <1>5 DEF Answered
<1>7. \A a \in Answered(c) : told'[a[1]][a[2]] = told[a[1]][a[2]]
  BY <1>5 DEF Answered
<1>8. AnsweredBy(c, taken)'
  BY <1>1, <1>4, <1>6, <1>7 DEF AnsweredBy
<1> QED
  BY <1>8

\* No step loses the completion behind an answer.
LEMMA AnswersStep == TrafficInv /\ AnswersInv /\ [Next]_vars => AnswersInv'
<1> SUFFICES ASSUME TrafficInv, AnswersInv, [Next]_vars PROVE AnswersInv'
  OBVIOUS
<1>1. TrafficInv'
  BY TrafficStep
<1>2. ASSUME UNCHANGED <<told, blind, req>>,
             \A q \in Sender : /\ polled[q] <= polled'[q]
                               /\ Len(wrote[q]) <= Len(wrote'[q])
      PROVE  AnswersInv'
  <2>1. \A c \in Id : Posted(c)' = Posted(c)
    BY <1>2 DEF Posted, Sharers
  <2> QED
    BY <1>1, <1>2, <2>1, UnansweredKeeps DEF AnswersInv
<1>3. \A q \in Sender : polled[q] \in Nat /\ Len(wrote[q]) \in Nat
  BY QueuePairParts
<1>4. CASE UNCHANGED <<told, blind, req, polled, wrote>>
  BY <1>2, <1>3, <1>4
<1>5. ASSUME NEW q \in Pair, RecvPoll(q)
      PROVE  AnswersInv'
  <2>1. RecvCq(q) \in Id
    BY Cqs DEF TrafficInv
  <2>2. UNCHANGED <<told, blind, req, wrote>>
    BY <1>5 DEF RecvPoll, dataVars
  <2>3. \A p \in Sender : polled'[p] = polled[p] \/ polled'[p] = polled[p] + 1
    <3>1. CASE Consume(RecvCq(q))
      BY <2>1, <3>1, ConsumedEntry, Wiring
    <3>2. CASE ~Consume(RecvCq(q))
      BY <1>5, <3>2 DEF RecvPoll, dataVars
    <3> QED
      BY <3>1, <3>2
  <2>4. \A p \in Sender : polled[p] <= polled'[p]
    BY <1>3, <2>3
  <2> QED
    BY <1>2, <1>3, <2>2, <2>4
<1>6. ASSUME NEW q \in Pair, Device(q)
      PROVE  AnswersInv'
  <2>1. CASE Land(q)
    <3>1. UNCHANGED <<told, blind, req, polled>>
      BY <2>1 DEF Land
    <3>2. PICK v : wrote' = [wrote EXCEPT ![q] = Append(@, v)]
      BY <2>1 DEF Land
    <3>3. wrote \in [Id -> Seq(Nat)] /\ q \in Id
      BY Wiring DEF TrafficInv, TypeInv
    <3>4. Len(wrote'[q]) = Len(wrote[q]) + 1 /\ \A p \in Id : p # q => wrote'[p] = wrote[p]
      BY <3>2, <3>3
    <3>5. \A p \in Sender : Len(wrote[p]) <= Len(wrote'[p])
      BY <1>3, <3>4, Wiring
    <3> QED
      BY <1>2, <1>3, <3>1, <3>5
  <2>2. CASE ~Land(q)
    BY <1>4, <1>6, <2>2 DEF Device, Ack, Refuse, GiveUp, Flush, Complete
  <2> QED
    BY <2>1, <2>2
<1>7. ASSUME NEW q \in use, NEW inline \in Inline[q], Send(q, inline)
      PROVE  AnswersInv'
  <2>1. q \in Sender
    BY DEF TrafficInv, TypeInv
  <2>2. UNCHANGED <<told, blind, polled, wrote>>
    BY <1>7 DEF Send, Post
  <2>3. \A p \in Sender : polled[p] <= polled'[p] /\ Len(wrote[p]) <= Len(wrote'[p])
    BY <1>3, <2>2
  <2>4. \A c \in Id : IsFiniteSet(Posted(c)')
    BY <1>7, <2>1, PostedStaysFinite
  <2> QED
    BY <1>1, <2>2, <2>3, <2>4, UnansweredKeeps DEF AnswersInv
<1>8. ASSUME NEW q \in use, Await(q)
      PROVE  AnswersInv'
  <2>1. q \in Sender /\ UNCHANGED <<req, wrote>>
    BY <1>8 DEF TrafficInv, TypeInv, Await, Poll
  <2>2. \A c \in Id : Posted(c)' = Posted(c)
    BY <2>1 DEF Posted, Sharers
  <2>3. \A c \in Id : \E taken : AnsweredBy(c, taken)'
    <3>1. CASE UNCHANGED blind
      <4>1. <<q, Len(told[q]) + 1>> \notin blind
        BY <2>1, Unanswered
      <4>2. /\ Consume(SendCq(q))
            /\ told' = [told EXCEPT ![q] = Append(@, Status(Head(cq[SendCq(q)])))]
        BY <1>8, <3>1, <4>1 DEF Await, Poll
      <4> QED
        BY <1>1, <2>1, <3>1, <4>2, AnswerTakes
    <3>2. CASE ~UNCHANGED blind
      <4>1. PICK status \in BOOLEAN :
              /\ told' = [told EXCEPT ![q] = Append(@, status)]
              /\ blind' = blind \cup {<<q, Len(told[q]) + 1>>}
              /\ UNCHANGED <<wrote, polled>>
        BY <1>8, <3>2 DEF Await, Poll
      <4> QED
        BY <2>1, <4>1, BlindTakesNone
    <3> QED
      BY <3>1, <3>2
  <2> QED
    BY <2>2, <2>3 DEF AnswersInv
<1>9. ASSUME NEW q \in Pair, Connect(q)
      PROVE  AnswersInv'
  BY <1>4, <1>9 DEF Connect, dataVars
<1>10. ASSUME NEW q \in use, Refill(q)
       PROVE  AnswersInv'
  BY <1>4, <1>10 DEF Refill, Fill
<1>11. CASE UNCHANGED vars
  BY <1>4, <1>11 DEF vars
<1> QED
  BY <1>5, <1>6, <1>7, <1>8, <1>9, <1>10, <1>11 DEF Next

\* When every request of a completion queue has its answer and all are yes,
\* the completions taken are all there are, and of written requests.
LEMMA AnswersTell == TrafficInv /\ AnswersInv => AllYesMeansAllWritten
<1> SUFFICES ASSUME TrafficInv, AnswersInv, NEW c \in Id,
                    \A q \in Sharers(c) : /\ Settled(q) /\ Sighted(q)
                                          /\ \A i \in DOMAIN told[q] : told[q][i],
                    NEW p \in Sharers(c)
             PROVE  Len(wrote[p]) = Len(req[p])
  BY DEF AllYesMeansAllWritten
<1>1. PICK taken : AnsweredBy(c, taken)
  BY DEF AnswersInv
<1>2. \A q \in Sharers(c) :
        /\ Len(told[q]) = Len(req[q]) /\ Len(req[q]) \in Nat
        /\ polled[q] \in Nat /\ polled[q] <= Len(req[q])
        /\ DOMAIN told[q] = 1..Len(told[q])
  BY SharerParts DEF Settled
<1>3. Answered(c) = Posted(c)
  <2>1. \A a \in Sharers(c) \X Nat : a[2] \in 1..Len(told[a[1]]) => a \notin blind
    BY <1>2 DEF Sighted
  <2> QED
    BY <1>2, <2>1 DEF Answered, Posted
<1>4. Consumed(c) \subseteq Posted(c)
  <2> SUFFICES ASSUME NEW a \in Consumed(c) PROVE a \in Posted(c)
    OBVIOUS
  <2>1. a \in Sharers(c) \X Nat /\ a[1] \in Sharers(c) /\ a[2] \in 1..polled[a[1]]
    BY DEF Consumed
  <2>2. a[2] \in 1..Len(req[a[1]])
    BY <1>2, <2>1
  <2> QED
    BY <2>1, <2>2 DEF Posted
<1>5. taken \in Injection(Posted(c), Posted(c))
  BY <1>1, <1>3, <1>4 DEF AnsweredBy, Injection, IsInjective
<1>6. IsFiniteSet(Posted(c))
  BY DEF AnswersInv
<1>7. taken \in Surjection(Posted(c), Posted(c))
  BY <1>5, <1>6, FS_Injection
<1>8. /\ Len(req[p]) \in Nat /\ Len(wrote[p]) \in Nat /\ Len(wrote[p]) <= Len(req[p])
  BY SharerParts
<1>9. CASE Len(req[p]) = 0
  BY <1>8, <1>9
<1>10. CASE Len(req[p]) # 0
  <2>1. <<p, Len(req[p])>> \in Posted(c)
    <3>1. Len(req[p]) \in 1..Len(req[p])
      BY <1>8, <1>10
    <3> QED
      BY <1>8, <3>1 DEF Posted
  <2>2. PICK a \in Posted(c) : taken[a] = <<p, Len(req[p])>>
    BY <1>7, <2>1 DEF Surjection
  <2>3. told[a[1]][a[2]]
    BY <1>2, <2>2 DEF Posted
  <2>4. Len(req[p]) <= Len(wrote[p])
    BY <1>1, <1>3, <2>2, <2>3 DEF AnsweredBy
  <2> QED
    BY <1>8, <2>4
<1> QED
  BY <1>9, <1>10

LEMMA AnswersInvariant == Spec => [](TrafficInv /\ AnswersInv)
<1>1. Init => TrafficInv /\ AnswersInv
  BY TrafficInitially, AnswersInitially
<1>2. TrafficInv /\ AnswersInv /\ [Next]_vars => TrafficInv' /\ AnswersInv'
  BY TrafficStep, AnswersStep
<1> QED
  BY <1>1, <1>2, PTL DEF Spec

\* Who has an answer to everything posted on a completion queue, all of them
\* yes, has everything written, although no answer says of which request or
\* of which queue pair it is.
THEOREM AllYesMeansAllWrittenCorrect == Spec => []AllYesMeansAllWritten
BY AnswersInvariant, AnswersTell, PTL

\* The requests written are finitely many, and an answer that is yes took the
\* completion of one of them.
LEMMA YesAreBacked == TrafficInv /\ AnswersInv => YesIsBacked
<1> SUFFICES ASSUME TrafficInv, AnswersInv, NEW c \in Id
             PROVE  Cardinality(Yes(c)) <= Cardinality(Writes(c))
  BY DEF YesIsBacked
<1>1. PICK taken : AnsweredBy(c, taken)
  BY DEF AnswersInv
<1>2. \A q \in Sharers(c) :
        /\ DOMAIN told[q] = 1..Len(told[q]) /\ DOMAIN wrote[q] = 1..Len(wrote[q])
        /\ Len(wrote[q]) \in Nat /\ Len(req[q]) \in Nat /\ Len(wrote[q]) <= Len(req[q])
  <2> SUFFICES ASSUME NEW q \in Sharers(c)
               PROVE  /\ DOMAIN told[q] = 1..Len(told[q]) /\ DOMAIN wrote[q] = 1..Len(wrote[q])
                      /\ Len(wrote[q]) \in Nat /\ Len(req[q]) \in Nat
                      /\ Len(wrote[q]) <= Len(req[q])
    OBVIOUS
  <2>1. q \in Sender
    BY SharerParts
  <2>2. wrote[q] \in Seq(Nat)
    BY <2>1, QueuePairParts
  <2> QED
    BY <2>2, SharerParts, SeqParts
<1>3. \A a \in Yes(c) : a \in Answered(c) /\ told[a[1]][a[2]]
  BY <1>2 DEF Yes, Answers, Answered
<1>4. \A a \in Sharers(c) \X Nat : a[2] \in 1..Len(wrote[a[1]]) => a \in Writes(c)
  BY <1>2 DEF Writes
<1>5. \A a \in Writes(c) : a \in Posted(c)
  BY <1>2 DEF Writes, Posted
<1>6. IsFiniteSet(Writes(c))
  BY <1>5, FS_Subset DEF AnswersInv
<1>7. \A a \in Yes(c) : taken[a] \in Writes(c)
  <2> SUFFICES ASSUME NEW a \in Yes(c) PROVE taken[a] \in Writes(c)
    OBVIOUS
  <2>1. taken[a] \in Consumed(c) /\ taken[a][2] <= Len(wrote[taken[a][1]])
    BY <1>1, <1>3 DEF AnsweredBy
  <2>2. /\ taken[a] \in Sharers(c) \X Nat /\ taken[a][1] \in Sharers(c)
        /\ taken[a][2] \in 1..polled[taken[a][1]]
    BY <2>1 DEF Consumed
  <2>3. taken[a][2] \in 1..Len(wrote[taken[a][1]])
    BY <1>2, <2>1, <2>2, SharerParts
  <2> QED
    BY <1>4, <2>2, <2>3
<1>8. PICK f : f = [a \in Yes(c) |-> taken[a]]
  OBVIOUS
<1>9. f \in Injection(Yes(c), Writes(c))
  <2>1. f \in [Yes(c) -> Writes(c)]
    BY <1>7, <1>8
  <2>2. \A a, b \in Yes(c) : f[a] = f[b] => a = b
    BY <1>1, <1>3, <1>8 DEF AnsweredBy
  <2> QED
    BY <2>1, <2>2 DEF Injection, IsInjective
<1> QED
  BY <1>6, <1>9, FS_Injection

\* At no time did the polls on a completion queue say yes more often than
\* something was written, for any number of queue pairs and any interleaving of
\* their polls, those that fail aside.
THEOREM YesIsBackedCorrect == Spec => []YesIsBacked
BY AnswersInvariant, YesAreBacked, PTL

=============================================================================
