------------------------ MODULE LifetimePacketProofs ------------------------
(***************************************************************************)
(* Proofs about Lifetime: who has a packet, and what follows for the types *)
(* of packets and for the entries of fblmap that nothing leads to.         *)
(***************************************************************************)
EXTENDS LifetimeProofs

(* Where the packet s may be. *)
HeldBy(c, s)  == rx[c].pc \in {"loop", "get", "netrx", "put"} /\ rx[c].skb = s
InQueue(k, s) == s \in Queued(k)

(* The packet s is allocated exactly if somebody has it or it is lost, and *)
(* only one has it.                                                        *)
PktOne(s) ==
    /\ s \in live <=> \/ s \in lost
                      \/ \E c \in Cpu : HeldBy(c, s)
                      \/ \E k \in Sock : InQueue(k, s)
    /\ s \in lost => /\ \A c \in Cpu : ~HeldBy(c, s)
                     /\ \A k \in Sock : ~InQueue(k, s)
    /\ \A c \in Cpu, k \in Sock : ~(HeldBy(c, s) /\ InQueue(k, s))
    /\ \A c, d \in Cpu : HeldBy(c, s) /\ HeldBy(d, s) => c = d
    /\ \A j, k \in Sock : InQueue(j, s) /\ InQueue(k, s) => j = k

(* No packet is twice in a queue, and a sock that is free has no queue. *)
QueueOK(k) ==
    /\ IsInjective(sk[k].queue)
    /\ sk[k].mem = "free" => sk[k].queue = <<>>

PktInv ==
    /\ live \subseteq Skb /\ lost \subseteq Skb
    /\ \A s \in Skb : PktOne(s)
    /\ \A k \in Sock : QueueOK(k)
-----------------------------------------------------------------------------
(* Queues *)
LEMMA QueueEmpty ==
    ToSet(<<>>) = {} /\ IsInjective(<<>>)
BY DEF ToSet, IsInjective

(* A packet that is not in the queue is put behind it. *)
LEMMA QueueAppend ==
    ASSUME NEW S, NEW q \in Seq(S), NEW p \in S, p \notin ToSet(q), IsInjective(q)
    PROVE  /\ \A s : s \in ToSet(Append(q, p)) <=> (s \in ToSet(q) \/ s = p)
           /\ IsInjective(Append(q, p))
<1> DEFINE r == Append(q, p)
<1>1. /\ DOMAIN q = 1 .. Len(q) /\ Len(q) \in Nat /\ DOMAIN r = 1 .. Len(q) + 1
      /\ r[Len(q) + 1] = p /\ \A i \in 1 .. Len(q) : r[i] = q[i]
    OBVIOUS
<1> HIDE DEF r
<1>2. \A i \in DOMAIN r : i \in DOMAIN q \/ i = Len(q) + 1
    BY <1>1
<1>3. Len(q) + 1 \in DOMAIN r /\ \A i \in DOMAIN q : i \in DOMAIN r /\ r[i] = q[i]
    BY <1>1
<1>4. \A s : s \in ToSet(r) <=> (s \in ToSet(q) \/ s = p)
    BY <1>1, <1>2, <1>3 DEF ToSet
<1>5. \A i \in DOMAIN q : q[i] # p
    BY DEF ToSet
<1>6. IsInjective(r)
    BY <1>1, <1>2, <1>3, <1>5 DEF IsInjective
<1>7. QED
    BY <1>4, <1>6 DEF r

(* The first packet is taken off a queue. *)
LEMMA QueueTail ==
    ASSUME NEW S, NEW q \in Seq(S), q # <<>>, IsInjective(q)
    PROVE  /\ Head(q) \in ToSet(q)
           /\ \A s : s \in ToSet(Tail(q)) <=> (s \in ToSet(q) /\ s # Head(q))
           /\ IsInjective(Tail(q))
<1> DEFINE r == Tail(q)
           h == Head(q)
<1>1. /\ DOMAIN q = 1 .. Len(q) /\ Len(q) \in Nat /\ Len(q) > 0 /\ DOMAIN r = 1 .. Len(q) - 1
      /\ h = q[1] /\ \A i \in 1 .. Len(q) - 1 : r[i] = q[i + 1]
    OBVIOUS
<1> HIDE DEF r, h
<1>2. 1 \in DOMAIN q /\ \A i \in DOMAIN r : i + 1 \in DOMAIN q /\ i + 1 # 1 /\ r[i] = q[i + 1]
    BY <1>1
<1>3. \A i \in DOMAIN q : i # 1 => i - 1 \in DOMAIN r /\ r[i - 1] = q[i]
    BY <1>1
<1>4. h \in ToSet(q)
    BY <1>1, <1>2 DEF ToSet
<1>5. \A s : s \in ToSet(r) => s \in ToSet(q) /\ s # h
    BY <1>1, <1>2 DEF ToSet, IsInjective
<1>6. \A s : s \in ToSet(q) /\ s # h => s \in ToSet(r)
    BY <1>1, <1>3 DEF ToSet
<1>7. IsInjective(r)
    <2> SUFFICES ASSUME NEW i \in DOMAIN r, NEW j \in DOMAIN r, r[i] = r[j] PROVE i = j
        BY DEF IsInjective
    <2>1. i + 1 = j + 1
        BY <1>2 DEF IsInjective
    <2>2. i \in Int /\ j \in Int
        BY <1>1
    <2>3. QED
        BY <2>1, <2>2
<1>8. QED
    BY <1>4, <1>5, <1>6, <1>7 DEF r, h
-----------------------------------------------------------------------------
(* Steps *)

(* Packets are of their type wherever they are. *)
LEMMA PacketTypes ==
    ASSUME Inv
    PROVE  /\ \A c \in Cpu : \A s : HeldBy(c, s) => s \in Skb
           /\ \A k \in Sock : sk[k].queue \in Seq(Skb)
           /\ \A k \in Sock : \A s : InQueue(k, s) => s \in Skb
<1>1. \A c \in Cpu : \A s : HeldBy(c, s) => s \in Skb
    BY DEF Inv, ArgInv, HeldBy
<1>2. \A k \in Sock : sk[k].queue \in Seq(Skb)
    BY DEF Inv, TypeInv, SockRec
<1>3. QED
    BY <1>1, <1>2 DEF InQueue, Queued, ToSet

(* Nothing happens to any packet. *)
LEMMA QuietPackets ==
    ASSUME PktInv, UNCHANGED <<live, lost>>,
           \A c \in Cpu, s \in Skb : HeldBy(c, s)' <=> HeldBy(c, s),
           \A k \in Sock : sk'[k].queue = sk[k].queue,
           \A k \in Sock : sk'[k].mem = "free" => sk[k].mem = "free" \/ sk[k].queue = <<>>
    PROVE  PktInv'
<1>1. \A k \in Sock : \A s : InQueue(k, s)' <=> InQueue(k, s)
    BY DEF InQueue, Queued
<1>2. ASSUME NEW s \in Skb PROVE PktOne(s)'
    <2>1. PktOne(s)
        BY DEF PktInv
    <2>2. QED
        BY <1>1, <2>1 DEF PktOne
<1>3. \A k \in Sock : QueueOK(k)'
    BY DEF PktInv, QueueOK
<1>4. QED
    BY <1>2, <1>3 DEF PktInv

(* The sockets are left alone. *)
LEMMA SameQueues ==
    ASSUME PktInv, sk' = sk
    PROVE  /\ \A k \in Sock : QueueOK(k)'
           /\ \A k \in Sock : \A s : InQueue(k, s)' <=> InQueue(k, s)
BY DEF PktInv, QueueOK, InQueue, Queued

(* A packet comes in. *)
LEMMA EnterPackets ==
    ASSUME Inv, PktInv, NEW c \in Cpu, NEW s \in NewPackets, NEW i, NEW d, NEW k, Enter(c, s, i, d, k)
    PROVE  PktInv'
<1>1. /\ rx[c].pc = "idle" /\ live' = live \cup {s} /\ lost' = lost /\ sk' = sk
      /\ rx' = [rx EXCEPT ![c] = [pc |-> "loop", skb |-> s, fb |-> NULL, dir |-> d, sender |-> k]]
    BY DEF Enter
<1>2. s \in Skb /\ s \notin live
    BY DEF NewPackets, Lowest
<1>3. rx'[c].pc = "loop" /\ rx'[c].skb = s /\ \A e \in Cpu : e # c => rx'[e] = rx[e]
    BY <1>1 DEF Inv, TypeInv
<1>4. /\ \A e \in Cpu : \A p : e # c => (HeldBy(e, p)' <=> HeldBy(e, p))
      /\ \A p : (HeldBy(c, p)' <=> p = s) /\ ~HeldBy(c, p)
    BY <1>1, <1>3 DEF HeldBy
<1>5. /\ \A l \in Sock : QueueOK(l)'
      /\ \A l \in Sock : \A p : InQueue(l, p)' <=> InQueue(l, p)
    BY <1>1, SameQueues
<1>6. ASSUME NEW p \in Skb PROVE PktOne(p)'
    <2>1. PktOne(p)
        BY DEF PktInv
    <2>2. CASE p = s
        BY <1>1, <1>2, <1>4, <1>5, <2>1, <2>2 DEF PktOne
    <2>3. CASE p # s
        BY <1>1, <1>4, <1>5, <2>1, <2>3 DEF PktOne
    <2>4. QED
        BY <2>2, <2>3
<1>7. live' \subseteq Skb /\ lost' \subseteq Skb
    BY <1>1, <1>2 DEF PktInv
<1>8. QED
    BY <1>5, <1>6, <1>7 DEF PktInv

(* The CPU c gives up its packet, which is lost or freed. *)
LEMMA GivenUp ==
    ASSUME Inv, PktInv, NEW c \in Cpu, NEW s, s = rx[c].skb, HeldBy(c, s),
           \A p : ~HeldBy(c, p)',
           \A e \in Cpu : e # c => rx'[e] = rx[e], sk' = sk,
           \/ lost' = lost \cup {s} /\ live' = live
           \/ lost' = lost /\ live' = live \ {s}
    PROVE  PktInv'
<1>1. s \in Skb
    BY PacketTypes
<1>2. /\ \A e \in Cpu : \A p : e # c => (HeldBy(e, p)' <=> HeldBy(e, p))
      /\ \A p : HeldBy(c, p) <=> p = s
    BY DEF HeldBy
<1>3. /\ \A k \in Sock : QueueOK(k)'
      /\ \A k \in Sock : \A p : InQueue(k, p)' <=> InQueue(k, p)
    BY SameQueues
<1>4. ASSUME NEW p \in Skb PROVE PktOne(p)'
    <2>1. PktOne(p)
        BY DEF PktInv
    <2>2. CASE p = s
        BY <1>2, <1>3, <2>1, <2>2 DEF PktOne
    <2>3. CASE p # s
        BY <1>2, <1>3, <2>1, <2>3 DEF PktOne
    <2>4. QED
        BY <2>2, <2>3
<1>5. live' \subseteq Skb /\ lost' \subseteq Skb
    BY <1>1 DEF PktInv
<1>6. QED
    BY <1>3, <1>4, <1>5 DEF PktInv

(* A CPU goes from one place to another and keeps its packet, or has none. *)
LEMMA CpuQuiet ==
    ASSUME PktInv, NEW c \in Cpu, \A p : HeldBy(c, p)' <=> HeldBy(c, p),
           \A e \in Cpu : e # c => rx'[e] = rx[e], UNCHANGED <<live, lost, sk>>
    PROVE  PktInv'
<1>1. \A e \in Cpu, s \in Skb : HeldBy(e, s)' <=> HeldBy(e, s)
    BY DEF HeldBy
<1>2. QED
    BY <1>1, QuietPackets

(* The packet goes on, is dropped for want of a block or is left behind. *)
LEMMA LookupPackets ==
    ASSUME Inv, PktInv, NEW c \in Cpu, Lookup(c)
    PROVE  PktInv'
<1> DEFINE s == rx[c].skb
<1>1. rx[c].pc = "loop" /\ sk' = sk
    BY DEF Lookup
<1>2. CASE /\ rx' = [rx EXCEPT ![c] = Idle]
           /\ \/ lost' = lost \cup {s} /\ live' = live
              \/ lost' = lost /\ live' = live \ {s}
    <2>1. rx'[c].pc = "idle" /\ \A e \in Cpu : e # c => rx'[e] = rx[e]
        BY <1>2, IdleFields, RxUpdate DEF Inv
    <2>2. HeldBy(c, s) /\ \A p : ~HeldBy(c, p)'
        BY <1>1, <2>1 DEF HeldBy
    <2>3. QED
        BY <1>1, <1>2, <2>1, <2>2, GivenUp
<1>3. CASE /\ UNCHANGED <<live, lost>>
           /\ rx' = [rx EXCEPT ![c].pc = "get", ![c].fb = fblmap[next[s]]]
    <2>1. /\ rx'[c].pc = "get" /\ rx'[c].skb = rx[c].skb
          /\ \A e \in Cpu : e # c => rx'[e] = rx[e]
        BY <1>3 DEF Inv, TypeInv, RxRec
    <2>2. QED
        BY <1>1, <1>3, <2>1, CpuQuiet DEF HeldBy
<1>4. QED
    BY <1>2, <1>3 DEF Lookup, Leave

(* The steps that write the place of the CPU only. *)
LEMMA PlacePackets ==
    ASSUME Inv, PktInv, NEW c \in Cpu,
           \/ GetFblock(c) \/ WriteNextIdp(c)
           \/ DummyNetrx(c) /\ rx' = [rx EXCEPT ![c].pc = "put"] /\ UNCHANGED live
    PROVE  PktInv'
<1>1. /\ UNCHANGED <<live, lost, sk>>
      /\ \/ rx[c].pc = "get" /\ rx' = [rx EXCEPT ![c].pc = "netrx"]
         \/ rx[c].pc = "touch" /\ rx' = [rx EXCEPT ![c].pc = "halt"]
         \/ rx[c].pc = "netrx" /\ rx' = [rx EXCEPT ![c].pc = "put"]
    BY DEF GetFblock, WriteNextIdp, DummyNetrx, packets
<1>2. PICK p \in {"netrx", "halt", "put"} : /\ rx' = [rx EXCEPT ![c].pc = p]
                                            /\ p = "halt" <=> rx[c].pc = "touch"
                                            /\ p # "halt" => rx[c].pc \in {"get", "netrx"}
    BY <1>1
<1>3. /\ rx'[c].pc = p /\ rx'[c].skb = rx[c].skb
      /\ \A e \in Cpu : e # c => rx'[e] = rx[e]
    BY <1>2, RxPcUpdate DEF Inv, RxPC
<1>4. \A s : HeldBy(c, s)' <=> HeldBy(c, s)
    BY <1>2, <1>3 DEF HeldBy
<1>5. QED
    BY <1>1, <1>3, <1>4, CpuQuiet

(* fb_dummy_netrx hands the packet on or frees it. *)
LEMMA DummyNetrxPackets ==
    ASSUME Inv, PktInv, NEW c \in Cpu, DummyNetrx(c)
    PROVE  PktInv'
<1> DEFINE s == rx[c].skb
<1>1. /\ rx[c].pc = "netrx" /\ UNCHANGED <<sk, lost>>
      /\ \/ live' = live \ {s} /\ rx' = [rx EXCEPT ![c].pc = "drop"]
         \/ live' = live /\ rx' = [rx EXCEPT ![c].pc = "put"]
    BY DEF DummyNetrx
<1>2. CASE live' = live \ {s} /\ rx' = [rx EXCEPT ![c].pc = "drop"]
    <2>1. rx'[c].pc = "drop" /\ \A e \in Cpu : e # c => rx'[e] = rx[e]
        BY <1>2, RxPcUpdate DEF Inv, RxPC
    <2>2. HeldBy(c, s) /\ \A p : ~HeldBy(c, p)'
        BY <1>1, <2>1 DEF HeldBy
    <2>3. QED
        BY <1>1, <1>2, <2>1, <2>2, GivenUp
<1>3. CASE live' = live /\ rx' = [rx EXCEPT ![c].pc = "put"]
    BY <1>3, PlacePackets
<1>4. QED
    BY <1>1, <1>2, <1>3

(* A packet goes into the receive queue of a socket. *)
LEMMA PflanaNetrxPackets ==
    ASSUME Inv, PktInv, NEW c \in Cpu, PflanaNetrx(c)
    PROVE  PktInv'
<1> DEFINE s == rx[c].skb
           j == fb[rx[c].fb].sock
<1>1. /\ rx[c].pc = "netrx" /\ j # NULL /\ sk[j].mem = "used" /\ live' = live
      /\ rx' = [rx EXCEPT ![c].pc = "touch"]
      /\ \/ sk' = [sk EXCEPT ![j].queue = Append(sk[j].queue, s)] /\ lost' = lost
         \/ sk' = sk /\ lost' = lost \cup {s}
    BY DEF PflanaNetrx
<1>2. rx'[c].pc = "touch" /\ \A e \in Cpu : e # c => rx'[e] = rx[e]
    BY <1>1, RxPcUpdate DEF Inv, RxPC
<1>3. HeldBy(c, s) /\ \A p : ~HeldBy(c, p)'
    BY <1>1, <1>2 DEF HeldBy
<1>4. CASE sk' = sk /\ lost' = lost \cup {s}
    BY <1>1, <1>2, <1>3, <1>4, GivenUp
<1>5. CASE sk' = [sk EXCEPT ![j].queue = Append(sk[j].queue, s)] /\ lost' = lost
    <2>0. s \in Skb /\ j \in Sock
        <3>1. rx[c].fb \in Fblock
            BY <1>1 DEF Inv, ArgInv, TypeInv, RxRec, InBlock
        <3>2. fb[rx[c].fb] \in FblockRec
            BY <3>1 DEF Inv, TypeInv
        <3>3. j \in Sock
            BY <1>1, <3>2 DEF FblockRec
        <3>4. QED
            BY <1>3, <3>3, PacketTypes
    <2>1. PICK k \in Sock : k = j /\ s \in Skb
        BY <2>0
    <2>2. /\ sk'[k].queue = Append(sk[k].queue, s) /\ sk'[k].mem = sk[k].mem
          /\ \A l \in Sock : l # k => sk'[l] = sk[l]
        BY <1>5, <2>1 DEF Inv, TypeInv, SockRec
    <2> HIDE DEF s, j
    <2>3. /\ sk[k].queue \in Seq(Skb) /\ s \notin ToSet(sk[k].queue) /\ IsInjective(sk[k].queue)
        <3>1. PktOne(s) /\ QueueOK(k)
            BY <2>1 DEF PktInv
        <3>2. QED
            BY <1>3, <2>1, <3>1, PacketTypes DEF PktOne, QueueOK, InQueue, Queued
    <2>4. /\ \A p : p \in ToSet(sk'[k].queue) <=> (p \in ToSet(sk[k].queue) \/ p = s)
          /\ IsInjective(sk'[k].queue)
        BY <2>1, <2>2, <2>3, QueueAppend
    <2>5. \A l \in Sock : QueueOK(l)'
        BY <1>1, <2>1, <2>2, <2>4 DEF PktInv, QueueOK
    <2>6. \A l \in Sock : \A p : InQueue(l, p)' <=> (InQueue(l, p) \/ (l = k /\ p = s))
        <3>1. \A l \in Sock : \A p : l # k => (InQueue(l, p)' <=> InQueue(l, p))
            BY <2>2 DEF InQueue, Queued
        <3>2. \A p : InQueue(k, p)' <=> (InQueue(k, p) \/ p = s)
            BY <2>4 DEF InQueue, Queued
        <3>3. QED
            BY <3>1, <3>2
    <2>7. /\ \A e \in Cpu : \A p : e # c => (HeldBy(e, p)' <=> HeldBy(e, p))
          /\ \A p : HeldBy(c, p) <=> p = s
        BY <1>2, <1>3 DEF HeldBy, s
    <2>8. ASSUME NEW p \in Skb PROVE PktOne(p)'
        <3>1. PktOne(p)
            BY DEF PktInv
        <3>2. CASE p = s
            <4>1. \A e \in Cpu : ~HeldBy(e, p)'
                BY <1>3, <2>7, <3>1, <3>2 DEF PktOne
            <4>2. \A l \in Sock : InQueue(l, p)' <=> l = k
                BY <1>3, <2>6, <3>1, <3>2 DEF PktOne
            <4>3. p \in live' /\ p \notin lost'
                BY <1>1, <1>3, <1>5, <3>1, <3>2 DEF PktOne
            <4>4. QED
                BY <2>1, <4>1, <4>2, <4>3 DEF PktOne
        <3>3. CASE p # s
            <4>1. \A e \in Cpu : HeldBy(e, p)' <=> HeldBy(e, p)
                BY <1>3, <2>7, <3>3
            <4>2. \A l \in Sock : InQueue(l, p)' <=> InQueue(l, p)
                BY <2>6, <3>3
            <4>3. QED
                BY <1>1, <1>5, <3>1, <4>1, <4>2 DEF PktOne
        <3>4. QED
            BY <3>2, <3>3
    <2>9. QED
        BY <1>1, <1>5, <2>5, <2>8 DEF PktInv
<1>6. QED
    BY <1>1, <1>4, <1>5

(* Putting the block, and the last look at the packet, move no packet. *)
LEMMA PutFblockPackets ==
    ASSUME Inv, PktInv, NEW c \in Cpu, PutFblock(c) \/ ReadNextIdpAgain(c)
    PROVE  PktInv'
<1>1. /\ UNCHANGED <<live, lost, sk>>
      /\ \/ rx[c].pc = "put"  /\ rx' = [rx EXCEPT ![c].pc = "loop", ![c].fb = NULL]
         \/ rx[c].pc = "halt" /\ rx' = [rx EXCEPT ![c].pc = "again", ![c].fb = NULL]
         \/ rx[c].pc \in {"drop", "again"} /\ rx' = [rx EXCEPT ![c] = Idle]
    BY DEF PutFblock, ReadNextIdpAgain, Leave, packets
<1>2. rx \in [Cpu -> RxRec] /\ rx[c] \in RxRec
    BY DEF Inv, TypeInv
<1>3. CASE rx[c].pc = "put" /\ rx' = [rx EXCEPT ![c].pc = "loop", ![c].fb = NULL]
    <2>1. /\ rx'[c].pc = "loop" /\ rx'[c].skb = rx[c].skb
          /\ \A e \in Cpu : e # c => rx'[e] = rx[e]
        BY <1>2, <1>3 DEF RxRec
    <2>2. QED
        BY <1>1, <1>3, <2>1, CpuQuiet DEF HeldBy
<1>4. CASE rx[c].pc = "halt" /\ rx' = [rx EXCEPT ![c].pc = "again", ![c].fb = NULL]
    <2>1. rx'[c].pc = "again" /\ \A e \in Cpu : e # c => rx'[e] = rx[e]
        BY <1>2, <1>4 DEF RxRec
    <2>2. QED
        BY <1>1, <1>4, <2>1, CpuQuiet DEF HeldBy
<1>5. CASE rx[c].pc \in {"drop", "again"} /\ rx' = [rx EXCEPT ![c] = Idle]
    <2>1. rx'[c].pc = "idle" /\ \A e \in Cpu : e # c => rx'[e] = rx[e]
        BY <1>5, IdleFields, RxUpdate DEF Inv
    <2>2. QED
        BY <1>1, <1>5, <2>1, CpuQuiet DEF HeldBy
<1>6. QED
    BY <1>1, <1>3, <1>4, <1>5

-----------------------------------------------------------------------------
(* The queue of the socket k loses the packets in G, which are freed. *)
LEMMA QueueFreed ==
    ASSUME Inv, PktInv, NEW k \in Sock, NEW G, \A p \in G : InQueue(k, p),
           \A p : InQueue(k, p)' <=> (InQueue(k, p) /\ p \notin G),
           \A l \in Sock : l # k => sk'[l] = sk[l], QueueOK(k)',
           live' = live \ G, UNCHANGED <<rx, lost>>
    PROVE  PktInv'
<1>1. \A l \in Sock : QueueOK(l)'
    BY DEF PktInv, QueueOK
<1>2. \A e \in Cpu : \A p : HeldBy(e, p)' <=> HeldBy(e, p)
    BY DEF HeldBy
<1>3. \A l \in Sock : \A p : l # k => (InQueue(l, p)' <=> InQueue(l, p))
    BY DEF InQueue, Queued
<1>4. ASSUME NEW p \in Skb PROVE PktOne(p)'
    <2>1. PktOne(p)
        BY DEF PktInv
    <2>2. CASE p \in G
        <3>1. InQueue(k, p) /\ ~InQueue(k, p)'
            BY <2>2
        <3>2. p \notin lost /\ \A e \in Cpu : ~HeldBy(e, p)
            BY <2>1, <3>1 DEF PktOne
        <3>3. \A l \in Sock : ~InQueue(l, p)'
            BY <1>3, <2>1, <3>1 DEF PktOne
        <3>4. QED
            BY <1>2, <2>2, <3>2, <3>3 DEF PktOne
    <2>3. CASE p \notin G
        <3>1. \A l \in Sock : InQueue(l, p)' <=> InQueue(l, p)
            BY <1>3, <2>3
        <3>2. (p \in live' <=> p \in live) /\ (p \in lost' <=> p \in lost)
            BY <2>3
        <3>3. QED
            BY <1>2, <2>1, <3>1, <3>2 DEF PktOne
    <2>4. QED
        BY <2>2, <2>3
<1>5. QED
    BY <1>1, <1>4 DEF PktInv

(* The first packet of a queue is read. *)
LEMMA RecvmsgPackets ==
    ASSUME Inv, PktInv, NEW k \in Sock, Recvmsg(k)
    PROVE  PktInv'
<1> DEFINE q == sk[k].queue
<1>1. /\ q # <<>> /\ live' = live \ {Head(q)} /\ UNCHANGED <<rx, lost>>
      /\ sk' = [sk EXCEPT ![k].queue = Tail(q)]
    BY DEF Recvmsg
<1>2. q \in Seq(Skb) /\ IsInjective(q) /\ (sk[k].mem = "free" => q = <<>>)
    BY PacketTypes DEF PktInv, QueueOK
<1>3. /\ sk'[k].queue = Tail(q) /\ sk'[k].mem = sk[k].mem
      /\ \A l \in Sock : l # k => sk'[l] = sk[l]
    BY <1>1 DEF Inv, TypeInv, SockRec
<1>4. /\ Head(q) \in ToSet(q) /\ IsInjective(Tail(q))
      /\ \A s : s \in ToSet(Tail(q)) <=> (s \in ToSet(q) /\ s # Head(q))
    BY <1>1, <1>2, QueueTail
<1>5. QueueOK(k)'
    BY <1>1, <1>2, <1>3, <1>4 DEF QueueOK
<1>6. /\ \A p \in {Head(q)} : InQueue(k, p)
      /\ \A p : InQueue(k, p)' <=> (InQueue(k, p) /\ p \notin {Head(q)})
    BY <1>3, <1>4 DEF InQueue, Queued
<1> HIDE DEF q
<1>7. QED
    BY <1>1, <1>3, <1>5, <1>6, QueueFreed

(* The queue of a socket that is released is purged. *)
LEMMA ClosePackets ==
    ASSUME Inv, PktInv, NEW k \in Sock, Close(k)
    PROVE  PktInv'
<1>1. /\ live' = live \ Queued(k) /\ UNCHANGED <<rx, lost>>
      /\ sk' = [sk EXCEPT ![k].mem = "free", ![k].queue = <<>>]
    BY DEF Close, Queued
<1>2. sk'[k].queue = <<>> /\ \A l \in Sock : l # k => sk'[l] = sk[l]
    BY <1>1 DEF Inv, TypeInv, SockRec
<1>3. QueueOK(k)'
    BY <1>2, QueueEmpty DEF QueueOK
<1>4. /\ \A p \in Queued(k) : InQueue(k, p)
      /\ \A p : InQueue(k, p)' <=> (InQueue(k, p) /\ p \notin Queued(k))
    BY <1>2, QueueEmpty DEF InQueue, Queued
<1>5. QED
    BY <1>1, <1>2, <1>3, <1>4, QueueFreed

(* A socket is created with an empty queue in a sock that was free. *)
LEMMA CreatePackets ==
    ASSUME Inv, PktInv, NEW k \in Sock, Create(k)
    PROVE  PktInv'
<1>1. /\ sk[k].mem = "free" /\ UNCHANGED <<rx, live, lost>>
      /\ \/ \E o \in Fblock : sk' = [sk EXCEPT ![k] = [NoSock EXCEPT !.mem = "used", !.fb = o]]
         \/ sk' = [sk EXCEPT ![k].mem = "lost"]
    BY Zenon DEF Create, packets, FreeSlots, Lowest
<1>2. sk[k].queue = <<>> /\ sk \in [Sock -> SockRec]
    BY <1>1 DEF PktInv, QueueOK, Inv, TypeInv
<1>3. /\ sk'[k].queue = <<>> /\ sk'[k].mem # "free"
      /\ \A l \in Sock : l # k => sk'[l] = sk[l]
    <2>1. ASSUME NEW o, sk' = [sk EXCEPT ![k] = [NoSock EXCEPT !.mem = "used", !.fb = o]]
          PROVE  /\ sk'[k].queue = <<>> /\ sk'[k].mem # "free"
                 /\ \A l \in Sock : l # k => sk'[l] = sk[l]
        <3> DEFINE t == [NoSock EXCEPT !.mem = "used", !.fb = o]
        <3>1. t.queue = <<>> /\ t.mem = "used"
            BY DEF NoSock
        <3>2. sk' = [sk EXCEPT ![k] = t]
            BY <2>1
        <3> HIDE DEF t
        <3>3. QED
            BY <1>2, <3>1, <3>2
    <2>2. CASE sk' = [sk EXCEPT ![k].mem = "lost"]
        BY <1>2, <2>2 DEF SockRec
    <2>3. QED
        BY <1>1, <2>1, <2>2
<1>4. QED
    BY <1>1, <1>2, <1>3, QuietPackets DEF HeldBy

(* The block of a released socket is destroyed. *)
LEMMA DestroyPackets ==
    ASSUME Inv, PktInv, NEW k \in Sock, Destroy(k)
    PROVE  PktInv'
<1>1. UNCHANGED <<rx, live, lost>> /\ sk' = [sk EXCEPT ![k].fb = NULL]
    BY DEF Destroy, packets
<1>2. /\ sk'[k].queue = sk[k].queue /\ sk'[k].mem = sk[k].mem
      /\ \A l \in Sock : l # k => sk'[l] = sk[l]
    BY <1>1 DEF Inv, TypeInv, SockRec
<1>3. QED
    BY <1>1, <1>2, QuietPackets DEF HeldBy

(* Whoever leaves the sockets and the CPUs alone leaves the packets alone. *)
LEMMA StillPackets ==
    ASSUME PktInv, UNCHANGED <<rx, live, lost, sk>>
    PROVE  PktInv'
BY QuietPackets DEF HeldBy
-----------------------------------------------------------------------------
(* Nobody has a packet at first. *)
LEMMA PktInit == Init => PktInv
<1> SUFFICES ASSUME Init PROVE PktInv
    OBVIOUS
<1>1. live = {} /\ lost = {} /\ rx = [c \in Cpu |-> Idle] /\ sk = [k \in Sock |-> NoSock]
    BY DEF Init
<1>2. \A c \in Cpu : \A p : ~HeldBy(c, p)
    BY <1>1, IdleFields DEF HeldBy
<1>3. \A k \in Sock : sk[k].queue = <<>>
    BY <1>1 DEF NoSock
<1>4. \A k \in Sock : \A p : ~InQueue(k, p)
    BY <1>3, QueueEmpty DEF InQueue, Queued
<1>5. \A k \in Sock : QueueOK(k)
    BY <1>3, QueueEmpty DEF QueueOK
<1>6. QED
    BY <1>1, <1>2, <1>4, <1>5 DEF PktInv, PktOne

(* Every step keeps the packets in order. *)
LEMMA PktStep == Inv /\ PktInv /\ [Next]_vars => PktInv'
<1> SUFFICES ASSUME Inv, PktInv, [Next]_vars PROVE PktInv'
    OBVIOUS
<1>1. CASE UNCHANGED vars
    BY <1>1, StillPackets DEF vars
<1>2. ASSUME NEW c \in Cpu, HandleFrame(c) PROVE PktInv'
    BY <1>2, EnterPackets DEF HandleFrame
<1>3. ASSUME NEW c \in Cpu, ProcessPacket(c) PROVE PktInv'
    BY <1>3, LookupPackets, PlacePackets, DummyNetrxPackets, PflanaNetrxPackets, PutFblockPackets
       DEF ProcessPacket
<1>4. ASSUME NEW c \in Cpu, NEW k \in Sock, Sendmsg(c, k) PROVE PktInv'
    BY <1>4, EnterPackets DEF Sendmsg
<1>5. CASE Add \/ AddFactory \/ RmLookup \/ UserctlRemove
    <2>1. UNCHANGED <<rx, live, lost, sk>>
        BY <1>5 DEF Add, AddFactory, RmLookup, UserctlRemove, RmGet, RmCheck, RmDelete, RmPut, RmEnd,
                    packets
    <2>2. QED
        BY <2>1, StillPackets
<1>6. ASSUME NEW i \in given, NEW j \in given, Bind(i, j) \/ Unbind(i, j) PROVE PktInv'
    BY <1>6, StillPackets DEF Bind, Unbind, packets
<1>7. ASSUME NEW k \in Sock,
             Create(k) \/ LanaSkInit(k) \/ Recvmsg(k) \/ Close(k) \/ LanaSkFree(k)
      PROVE  PktInv'
    <2>1. CASE LanaSkInit(k) \/ SkFreeSearch(k) \/ SkFreeGet(k) \/ SkFreeUnbind(k)
        <3>1. UNCHANGED <<rx, live, lost, sk>>
            BY <2>1 DEF LanaSkInit, SkFreeSearch, SkFreeGet, SkFreeUnbind, packets
        <3>2. QED
            BY <3>1, StillPackets
    <2>2. QED
        BY <1>7, <2>1, CreatePackets, RecvmsgPackets, ClosePackets, DestroyPackets DEF LanaSkFree
<1>8. ASSUME NEW o \in Fblock, FreeFblockRcu(o) PROVE PktInv'
    BY <1>8, StillPackets DEF FreeFblockRcu, packets
<1>9. QED
    BY <1>1, <1>2, <1>3, <1>4, <1>5, <1>6, <1>7, <1>8 DEF Next

(* Packets are in order in every reachable state, with the invariant of    *)
(* blocks and sockets that says who writes to a packet.                    *)
THEOREM PktInvHolds == Spec => [](Inv /\ PktInv)
<1>1. Init => Inv /\ PktInv
    BY InvInit, PktInit
<1>2. Inv /\ PktInv /\ [Next]_vars => Inv' /\ PktInv'
    BY InvStep, PktStep
<1>3. QED
    BY <1>1, <1>2, PTL DEF Spec

(* What the module's type invariant says of the tables, of the memory of   *)
(* blocks and sockets, of packets and of everybody's place is always true. *)
THEOREM TypeCorrect == Spec => []TypeOK
<1>1. Inv /\ PktInv => TypeOK
    <2> SUFFICES ASSUME Inv, PktInv PROVE TypeOK
        OBVIOUS
    <2>1. live \subseteq Skb /\ lost \subseteq live
        BY DEF PktInv, PktOne
    <2>2. QED
        BY <2>1 DEF TypeOK, Inv, TypeInv
<1>2. QED
    BY <1>1, PktInvHolds, PTL

(* Every packet that process_packet, sock_queue_rcv_skb and recvmsg pass   *)
(* around is with one CPU, in one receive queue or lost, never in two      *)
(* places, for any number of CPUs, sockets, packets and blocks.            *)
THEOREM PacketOwnership == Spec => []PacketsOwned
<1>1. Inv /\ PktInv => PacketsOwned
    <2> SUFFICES ASSUME Inv, PktInv PROVE PacketsOwned
        OBVIOUS
    <2>1. \A c \in Cpu : c \in Holding <=> HeldBy(c, rx[c].skb)
        BY DEF Holding, HeldBy
    <2>2. \A c \in Cpu : \A p : HeldBy(c, p) <=> (c \in Holding /\ p = rx[c].skb)
        BY DEF Holding, HeldBy
    <2>3. \A c \in Holding : c \in Cpu /\ HeldBy(c, rx[c].skb) /\ rx[c].skb \in Skb
        BY PacketTypes DEF Holding, HeldBy
    <2>4. \A p : p \in UNION {Queued(k) : k \in Sock} <=> \E k \in Sock : InQueue(k, p)
        BY DEF InQueue
    <2>5. \A p : p \in {rx[c].skb : c \in Holding} <=> \E c \in Cpu : HeldBy(c, p)
        BY <2>2, <2>3
    <2>6. \A p \in Skb : p \in live <=> \/ p \in lost
                                         \/ p \in {rx[c].skb : c \in Holding}
                                         \/ p \in UNION {Queued(k) : k \in Sock}
        BY <2>4, <2>5 DEF PktInv, PktOne
    <2>7. /\ live \subseteq Skb /\ lost \subseteq Skb /\ {rx[c].skb : c \in Holding} \subseteq Skb
          /\ UNION {Queued(k) : k \in Sock} \subseteq Skb
        BY <2>3, <2>4, PacketTypes DEF PktInv
    <2>8. live = lost \cup {rx[c].skb : c \in Holding} \cup UNION {Queued(k) : k \in Sock}
        BY <2>6, <2>7
    <2>9. \A c \in Holding : rx[c].skb \notin lost \cup UNION {Queued(k) : k \in Sock}
        <3> SUFFICES ASSUME NEW c \in Holding
                     PROVE  rx[c].skb \notin lost /\ rx[c].skb \notin UNION {Queued(k) : k \in Sock}
            OBVIOUS
        <3>1. PktOne(rx[c].skb) /\ HeldBy(c, rx[c].skb) /\ c \in Cpu
            BY <2>3 DEF PktInv
        <3>2. QED
            BY <2>4, <3>1 DEF PktOne
    <2>10. \A c, d \in Holding : rx[c].skb = rx[d].skb => c = d
        <3> SUFFICES ASSUME NEW c \in Holding, NEW d \in Holding, rx[c].skb = rx[d].skb PROVE c = d
            OBVIOUS
        <3>1. PktOne(rx[c].skb) /\ HeldBy(c, rx[c].skb) /\ HeldBy(d, rx[c].skb)
              /\ c \in Cpu /\ d \in Cpu
            BY <2>3 DEF PktInv
        <3>2. QED
            BY <3>1 DEF PktOne
    <2>11. \A k \in Sock : lost \cap Queued(k) = {} /\ IsInjective(sk[k].queue)
        <3> SUFFICES ASSUME NEW k \in Sock
                     PROVE  (\A p \in lost : p \notin Queued(k)) /\ IsInjective(sk[k].queue)
            OBVIOUS
        <3>1. \A p \in lost : ~InQueue(k, p)
            BY DEF PktInv, PktOne
        <3>2. QED
            BY <3>1 DEF InQueue, PktInv, QueueOK
    <2>12. QED
        BY <2>8, <2>9, <2>10, <2>11 DEF PacketsOwned
<1>2. QED
    BY <1>1, PktInvHolds, PTL

(* The entry of fblmap that a failed registration leaves behind is never   *)
(* reached: no packet and no port ever has its idp.                        *)
THEOREM StaleNeverReached == Spec => []StaleOutOfReach
<1>1. Inv /\ PktInv => StaleOutOfReach
    <2> SUFFICES ASSUME Inv, PktInv, NEW i \in Idp, fblmap[i] # NULL, ~Leads(i)
                 PROVE  /\ \A s \in live : next[s] # i
                        /\ \A o \in Fblock, d \in Path : Exists(o) => fb[o].port[d] # i
        BY DEF StaleOutOfReach
    <2>1. i \notin given
        BY DEF Inv, TableInv
    <2>2. i # IDP_UNKNOWN
        BY IdpAssumption DEF Idp, IDP_UNKNOWN
    <2>3. live \subseteq Skb
        BY DEF PktInv
    <2>4. QED
        BY <2>1, <2>2, <2>3 DEF Inv, TableInv
<1>2. QED
    BY <1>1, PktInvHolds, PTL
=============================================================================
