-------------------------- MODULE EngineFlowProofs --------------------------
(***************************************************************************)
(* The life of a packet in the engine: no packet has two owners, and the   *)
(* engine implements PacketFlow.                                           *)
(***************************************************************************)
EXTENDS EngineProofs

(* The parts of SingleOwner. *)
HeldOnce ==
    \A c, d \in Cpu, l, m \in Level :
        skb[c][l] = skb[d][m] /\ skb[c][l] # NULL => c = d /\ l = m
QueuedOnce ==
    \A c, d \in Cpu : \A i \in DOMAIN backlog[c], j \in DOMAIN backlog[d] :
        backlog[c][i] = backlog[d][j] => c = d /\ i = j
HeldOrQueued ==
    \A c, d \in Cpu, l \in Level : \A i \in DOMAIN backlog[d] :
        skb[c][l] # backlog[d][i]
HeldLive == \A c \in Cpu, l \in Level : skb[c][l] # NULL => skb[c][l] \in live
QueuedLive == \A c \in Cpu : \A i \in DOMAIN backlog[c] : backlog[c][i] \in live

(* A context that is not about to process a packet holds none: no step     *)
(* leaves a packet behind in a variable nobody looks at.                   *)
HandsEmpty ==
    \A c \in Cpu, l \in Level :
        pc[c][l] \notin {"check", "start", "loop"} => skb[c][l] = NULL

OwnerInv ==
    HeldOnce /\ QueuedOnce /\ HeldOrQueued /\ HeldLive /\ QueuedLive /\ HandsEmpty

(* OwnerInv says at least what the runs check. *)
LEMMA OwnerInvImplies == OwnerInv => SingleOwner
BY DEF OwnerInv, SingleOwner, HeldOnce, QueuedOnce, HeldOrQueued, HeldLive, QueuedLive

-----------------------------------------------------------------------------
(* Where the packets of a backlog are after one is queued at its tail. *)
LEMMA AppendIndex ==
    ASSUME NEW q \in Seq(Skb), NEW s \in Skb, NEW i \in DOMAIN Append(q, s)
    PROVE  \/ i \in DOMAIN q /\ Append(q, s)[i] = q[i]
           \/ i = Len(q) + 1 /\ i \notin DOMAIN q /\ Append(q, s)[i] = s
OBVIOUS

(* Where they are after the first one is dequeued. *)
LEMMA TailIndex ==
    ASSUME NEW q \in Seq(Skb), q # <<>>, NEW i \in DOMAIN Tail(q)
    PROVE  i + 1 \in DOMAIN q /\ i \in Nat /\ i # 0 /\ Tail(q)[i] = q[i + 1]
OBVIOUS

(* The packet that skb_dequeue returns is the first. *)
LEMMA HeadIndex ==
    ASSUME NEW q \in Seq(Skb), q # <<>>
    PROVE  1 \in DOMAIN q /\ Head(q) = q[1]
OBVIOUS

(* What a backlog holds, with a packet more. *)
LEMMA AppendHolds ==
    ASSUME NEW q \in Seq(Skb), NEW s \in Skb, NEW x
    PROVE  (\E i \in DOMAIN Append(q, s) : Append(q, s)[i] = x)
               <=> (x = s \/ \E i \in DOMAIN q : q[i] = x)
<1>1. /\ Len(q) + 1 \in DOMAIN Append(q, s)
      /\ Append(q, s)[Len(q) + 1] = s
      /\ \A i \in DOMAIN q : i \in DOMAIN Append(q, s) /\ Append(q, s)[i] = q[i]
    OBVIOUS
<1>2. QED
    BY <1>1, AppendIndex

(* What a backlog holds: its first packet and those of the rest. *)
LEMMA HeadTailHolds ==
    ASSUME NEW q \in Seq(Skb), q # <<>>, NEW x
    PROVE  (\E i \in DOMAIN q : q[i] = x)
               <=> (x = Head(q) \/ \E i \in DOMAIN Tail(q) : Tail(q)[i] = x)
<1>1. \A i \in DOMAIN q : i = 1 \/ (i - 1 \in DOMAIN Tail(q) /\ Tail(q)[i - 1] = q[i])
    OBVIOUS
<1>2. ASSUME NEW i \in DOMAIN q, q[i] = x
      PROVE  x = Head(q) \/ \E j \in DOMAIN Tail(q) : Tail(q)[j] = x
    BY <1>1, <1>2, HeadIndex
<1>3. ASSUME NEW j \in DOMAIN Tail(q), Tail(q)[j] = x
      PROVE  \E i \in DOMAIN q : q[i] = x
    BY <1>3, TailIndex
<1>4. QED
    BY <1>2, <1>3, HeadIndex

-----------------------------------------------------------------------------
(* No packet exists when init_engine returns. *)
LEMMA OwnerInit == Init => OwnerInv
BY DEF Init, OwnerInv, HeldOnce, QueuedOnce, HeldOrQueued, HeldLive, QueuedLive,
       HandsEmpty, Level

(* The owners after the context l of CPU c has queued its packet at the    *)
(* tail of the backlog of CPU c.                                           *)
LEMMA HandsToBacklog ==
    ASSUME TypeInv, OwnerInv, NEW c \in Cpu, NEW l \in Level, skb[c][l] \in Skb,
           backlog' = [backlog EXCEPT ![c] = Append(@, skb[c][l])],
           skb' = [skb EXCEPT ![c][l] = NULL],
           live' = live
    PROVE  HeldOnce' /\ QueuedOnce' /\ HeldOrQueued' /\ HeldLive' /\ QueuedLive'
<1>b. backlog \in [Cpu -> Seq(Skb)]
    BY DEF TypeInv, TypeOK
<1>s. skb \in [Cpu -> [Level -> Skb \cup {NULL}]]
    BY DEF TypeInv, TypeOK
<1>o. HeldOnce /\ QueuedOnce /\ HeldOrQueued /\ HeldLive /\ QueuedLive
    BY DEF OwnerInv
<1>1. \A d \in Cpu, m \in Level :
          \/ skb'[d][m] = skb[d][m] /\ ~(d = c /\ m = l)
          \/ d = c /\ m = l /\ skb'[d][m] = NULL
    BY <1>s
<1>2. \A d \in Cpu : \A i \in DOMAIN backlog'[d] :
          \/ i \in DOMAIN backlog[d] /\ backlog'[d][i] = backlog[d][i]
          \/ /\ d = c /\ i = Len(backlog[c]) + 1
             /\ i \notin DOMAIN backlog[c] /\ backlog'[d][i] = skb[c][l]
    BY <1>b, AppendIndex
<1>3. \A d \in Cpu : \A i \in DOMAIN backlog[d] : backlog[d][i] \in Skb
    BY <1>b
<1>4. HeldOnce'
    BY <1>o, <1>1 DEF HeldOnce
<1>5. QueuedOnce'
    BY <1>o, <1>2 DEF QueuedOnce, HeldOrQueued
<1>6. HeldOrQueued'
    BY <1>o, <1>1, <1>2, <1>3, SkbAssumption DEF HeldOnce, HeldOrQueued
<1>7. HeldLive'
    BY <1>o, <1>1 DEF HeldLive
<1>8. QueuedLive'
    BY <1>o, <1>2, SkbAssumption DEF HeldLive, QueuedLive
<1>9. QED
    BY <1>4, <1>5, <1>6, <1>7, <1>8

(* The owners after the context l of CPU c, which had none, has taken the  *)
(* first packet of the backlog of CPU d.                                   *)
LEMMA BacklogToHands ==
    ASSUME TypeInv, OwnerInv, NEW c \in Cpu, NEW l \in Level, NEW d \in Cpu,
           backlog[d] # <<>>,
           backlog' = [backlog EXCEPT ![d] = Tail(@)],
           skb' = [skb EXCEPT ![c][l] = Head(backlog[d])],
           live' = live
    PROVE  HeldOnce' /\ QueuedOnce' /\ HeldOrQueued' /\ HeldLive' /\ QueuedLive'
<1>b. backlog \in [Cpu -> Seq(Skb)]
    BY DEF TypeInv, TypeOK
<1>s. skb \in [Cpu -> [Level -> Skb \cup {NULL}]]
    BY DEF TypeInv, TypeOK
<1>o. HeldOnce /\ QueuedOnce /\ HeldOrQueued /\ HeldLive /\ QueuedLive
    BY DEF OwnerInv
<1>1. 1 \in DOMAIN backlog[d] /\ Head(backlog[d]) = backlog[d][1]
    BY <1>b, HeadIndex
<1>2. \A e \in Cpu, m \in Level :
          \/ skb'[e][m] = skb[e][m] /\ ~(e = c /\ m = l)
          \/ e = c /\ m = l /\ skb'[e][m] = backlog[d][1]
    BY <1>s, <1>1
<1>3. \A e \in Cpu : e # d => backlog'[e] = backlog[e]
    BY <1>b
<1>4. \A i \in DOMAIN backlog'[d] :
          /\ i \in Nat /\ i # 0 /\ i + 1 \in DOMAIN backlog[d]
          /\ backlog'[d][i] = backlog[d][i + 1]
    <2>1. backlog'[d] = Tail(backlog[d])
        BY <1>b
    <2>2. QED
        BY <1>b, <2>1, TailIndex
<1>5. HeldOnce'
    BY <1>o, <1>1, <1>2 DEF HeldOnce, HeldOrQueued
<1>6. QueuedOnce'
    <2> SUFFICES ASSUME NEW e \in Cpu, NEW f \in Cpu, NEW i \in DOMAIN backlog'[e],
                        NEW j \in DOMAIN backlog'[f], backlog'[e][i] = backlog'[f][j]
                 PROVE  e = f /\ i = j
        BY DEF QueuedOnce
    <2>1. CASE e # d /\ f # d
        BY <2>1, <1>o, <1>3 DEF QueuedOnce
    <2>2. CASE e = d /\ f # d
        BY <2>2, <1>o, <1>3, <1>4 DEF QueuedOnce
    <2>3. CASE e # d /\ f = d
        BY <2>3, <1>o, <1>3, <1>4 DEF QueuedOnce
    <2>4. CASE e = d /\ f = d
        <3>1. i + 1 = j + 1
            BY <2>4, <1>o, <1>4 DEF QueuedOnce
        <3>2. i \in Nat /\ j \in Nat
            BY <2>4, <1>4
        <3>3. QED
            BY <2>4, <3>1, <3>2
    <2>5. QED
        BY <2>1, <2>2, <2>3, <2>4
<1>7. HeldOrQueued'
    <2> SUFFICES ASSUME NEW e \in Cpu, NEW f \in Cpu, NEW m \in Level,
                        NEW i \in DOMAIN backlog'[f]
                 PROVE  skb'[e][m] # backlog'[f][i]
        BY DEF HeldOrQueued
    <2>1. \/ skb'[e][m] = skb[e][m]
          \/ skb'[e][m] = backlog[d][1]
        BY <1>2
    <2>2. \E j \in DOMAIN backlog[f] :
              backlog'[f][i] = backlog[f][j] /\ (f = d => j # 1)
        <3>1. CASE f = d
            <4>1. i \in Nat /\ i # 0 => i + 1 # 1
                OBVIOUS
            <4>2. QED
                BY <3>1, <4>1, <1>4
        <3>2. CASE f # d
            BY <3>2, <1>3
        <3>3. QED
            BY <3>1, <3>2
    <2>3. QED
        BY <2>1, <2>2, <1>1, <1>o DEF HeldOrQueued, QueuedOnce
<1>8. HeldLive'
    BY <1>o, <1>1, <1>2 DEF HeldLive, QueuedLive
<1>9. QueuedLive'
    BY <1>o, <1>3, <1>4 DEF QueuedLive
<1>10. QED
    BY <1>5, <1>6, <1>7, <1>8, <1>9

(* Every step of the engine keeps each packet with one owner. *)
LEMMA OwnerStep ==
    ASSUME TypeInv, OwnerInv, [Next]_vars
    PROVE  OwnerInv'
<1>b. backlog \in [Cpu -> Seq(Skb)]
    BY DEF TypeInv, TypeOK
<1>c. pc \in [Cpu -> [Level -> PC]]
    BY DEF TypeInv, TypeOK
<1>s. skb \in [Cpu -> [Level -> Skb \cup {NULL}]]
    BY DEF TypeInv, TypeOK
<1>l. "soft" \in Level
    BY DEF Level
<1>o. HeldOnce /\ QueuedOnce /\ HeldOrQueued /\ HeldLive /\ QueuedLive /\ HandsEmpty
    BY DEF OwnerInv
<1>q. \A d \in Cpu : \A i \in DOMAIN backlog[d] : backlog[d][i] \in Skb
    BY <1>b
<1>e. ASSUME HeldOnce' /\ QueuedOnce' /\ HeldOrQueued' /\ HeldLive' /\ QueuedLive',
             HandsEmpty'
      PROVE  OwnerInv'
    BY <1>e DEF OwnerInv
<1>k. ASSUME backlog' = backlog, skb' = skb, live' = live
      PROVE  HeldOnce' /\ QueuedOnce' /\ HeldOrQueued' /\ HeldLive' /\ QueuedLive'
    BY <1>k, <1>o DEF HeldOnce, QueuedOnce, HeldOrQueued, HeldLive, QueuedLive
<1>r. ASSUME NEW c \in Cpu, NEW l \in Level, backlog' = backlog,
             skb' = [skb EXCEPT ![c][l] = NULL],
             live' = live \/ live' = live \ {skb[c][l]}
      PROVE  HeldOnce' /\ QueuedOnce' /\ HeldOrQueued' /\ HeldLive' /\ QueuedLive'
    <2>1. \A d \in Cpu, m \in Level :
              \/ skb'[d][m] = skb[d][m] /\ ~(d = c /\ m = l)
              \/ d = c /\ m = l /\ skb'[d][m] = NULL
        BY <1>r, <1>s
    <2>2. HeldOnce'
        BY <2>1, <1>o DEF HeldOnce
    <2>3. QueuedOnce'
        BY <1>r, <1>o DEF QueuedOnce
    <2>4. HeldOrQueued'
        BY <2>1, <1>r, <1>o, <1>q, SkbAssumption DEF HeldOrQueued
    <2>5. HeldLive'
        BY <2>1, <1>r, <1>o DEF HeldLive, HeldOnce
    <2>6. QueuedLive'
        BY <1>r, <1>o DEF QueuedLive, HeldOrQueued
    <2>7. QED
        BY <2>2, <2>3, <2>4, <2>5, <2>6
<1>1. ASSUME NEW c \in Cpu, NEW l \in Level, Enter(c, l) PROVE OwnerInv'
    <2>1. PICK s \in Skb \ live : live' = live \cup {s} /\ skb' = [skb EXCEPT ![c][l] = s]
        BY <1>1 DEF Enter
    <2>2. backlog' = backlog
        BY <1>1 DEF Enter
    <2>3. \A d \in Cpu, m \in Level :
              \/ skb'[d][m] = skb[d][m] /\ ~(d = c /\ m = l)
              \/ d = c /\ m = l /\ skb'[d][m] = s
        BY <2>1, <1>s
    <2>4. HeldOnce'
        BY <2>1, <2>3, <1>o, SkbAssumption DEF HeldOnce, HeldLive
    <2>5. QueuedOnce'
        BY <2>2, <1>o DEF QueuedOnce
    <2>6. HeldOrQueued'
        BY <2>1, <2>2, <2>3, <1>o DEF HeldOrQueued, QueuedLive
    <2>7. HeldLive'
        BY <2>1, <2>3, <1>o DEF HeldLive
    <2>8. QueuedLive'
        BY <2>1, <2>2, <1>o DEF QueuedLive
    <2>9. HandsEmpty'
        BY <2>3, <1>1, <1>c, <1>o DEF Enter, Goto, HandsEmpty
    <2>10. QED
        BY <2>4, <2>5, <2>6, <2>7, <2>8, <2>9, <1>e
<1>2. ASSUME NEW c \in Cpu, NEW l \in Level, CheckActive(c, l) PROVE OwnerInv'
    <2>1. CASE active[c]
        <3>1. skb[c][l] \in Skb
            BY <1>2 DEF CheckActive, TypeInv, HasPacket
        <3>2. /\ backlog' = [backlog EXCEPT ![c] = Append(@, skb[c][l])]
              /\ skb' = [skb EXCEPT ![c][l] = NULL]
              /\ live' = live
            BY <1>2, <2>1 DEF CheckActive
        <3>3. HeldOnce' /\ QueuedOnce' /\ HeldOrQueued' /\ HeldLive' /\ QueuedLive'
            BY <3>1, <3>2, HandsToBacklog
        <3>4. HandsEmpty'
            BY <3>2, <2>1, <1>2, <1>c, <1>s, <1>o DEF CheckActive, Return, Goto, HandsEmpty
        <3>5. QED
            BY <3>3, <3>4, <1>e
    <2>2. CASE ~active[c]
        <3>1. HandsEmpty'
            BY <2>2, <1>2, <1>c, <1>o DEF CheckActive, Goto, HandsEmpty
        <3>2. QED
            BY <2>2, <3>1, <1>2, <1>k, <1>e DEF CheckActive
    <2>3. QED
        BY <2>1, <2>2
<1>3. ASSUME NEW c \in Cpu, NEW l \in Level, SetActive(c, l) PROVE OwnerInv'
    <2>1. HandsEmpty'
        BY <1>3, <1>c, <1>o DEF SetActive, Goto, HandsEmpty
    <2>2. QED
        BY <2>1, <1>3, <1>k, <1>e DEF SetActive
<1>4. ASSUME NEW c \in Cpu, NEW l \in Level, NoNext(c, l) PROVE OwnerInv'
    <2>1. HandsEmpty'
        BY <1>4, <1>c, <1>s, <1>o DEF NoNext, Goto, HandsEmpty
    <2>2. QED
        BY <2>1, <1>4, <1>r, <1>e DEF NoNext
<1>5. ASSUME NEW c \in Cpu, NEW l \in Level, Drop(c, l) PROVE OwnerInv'
    <2>1. HandsEmpty'
        BY <1>5, <1>c, <1>s, <1>o DEF Drop, Goto, HandsEmpty
    <2>2. QED
        BY <2>1, <1>5, <1>r, <1>e DEF Drop
<1>6. ASSUME NEW c \in Cpu, NEW l \in Level, Forward(c, l) PROVE OwnerInv'
    <2>1. HandsEmpty'
        BY <1>6, <1>o DEF Forward, HandsEmpty
    <2>2. QED
        BY <2>1, <1>6, <1>k, <1>e DEF Forward
<1>7. ASSUME NEW c \in Cpu, NEW l \in Level, Tee(c, l) PROVE OwnerInv'
    <2>1. PICK s \in Skb \ live :
              /\ backlog' = [backlog EXCEPT ![c] = Append(@, s)]
              /\ \/ /\ live' = (live \ {skb[c][l]}) \cup {s}
                    /\ skb' = [skb EXCEPT ![c][l] = NULL]
                    /\ pc' = [pc EXCEPT ![c][l] = "reduce"]
                 \/ /\ live' = live \cup {s}
                    /\ skb' = skb /\ pc' = pc
        BY <1>7 DEF Tee, Goto
    <2>2. \A d \in Cpu, m \in Level :
              \/ /\ skb'[d][m] = skb[d][m]
                 /\ ~(d = c /\ m = l) \/ live' = live \cup {s}
              \/ d = c /\ m = l /\ skb'[d][m] = NULL
        BY <2>1, <1>s
    <2>3. \A d \in Cpu : \A i \in DOMAIN backlog'[d] :
              \/ i \in DOMAIN backlog[d] /\ backlog'[d][i] = backlog[d][i]
              \/ /\ d = c /\ i = Len(backlog[c]) + 1
                 /\ i \notin DOMAIN backlog[c] /\ backlog'[d][i] = s
        BY <2>1, <1>b, AppendIndex
    <2>4. s \in live' /\ \A x \in live : x # skb[c][l] => x \in live'
        BY <2>1
    <2>5. HeldOnce'
        BY <2>2, <1>o DEF HeldOnce
    <2>6. QueuedOnce'
        BY <2>3, <1>o DEF QueuedOnce, QueuedLive
    <2>7. HeldOrQueued'
        BY <2>2, <2>3, <1>o, <1>q, SkbAssumption DEF HeldOrQueued, HeldLive
    <2>8. HeldLive'
        BY <2>1, <2>2, <1>o DEF HeldLive, HeldOnce
    <2>9. QueuedLive'
        BY <2>3, <2>4, <1>o DEF QueuedLive, HeldOrQueued
    <2>10. HandsEmpty'
        <3>1. CASE skb' = skb /\ pc' = pc
            BY <3>1, <1>o DEF HandsEmpty
        <3>2. CASE skb' = [skb EXCEPT ![c][l] = NULL] /\ pc' = [pc EXCEPT ![c][l] = "reduce"]
            BY <3>2, <1>c, <1>s, <1>o DEF HandsEmpty
        <3>3. QED
            BY <2>1, <3>1, <3>2
    <2>11. QED
        BY <2>5, <2>6, <2>7, <2>8, <2>9, <2>10, <1>e
<1>8. ASSUME NEW c \in Cpu, NEW l \in Level, Reduce(c, l) PROVE OwnerInv'
    <2>1. CASE backlog[c] # <<>>
        <3>1. /\ skb' = [skb EXCEPT ![c][l] = Head(backlog[c])]
              /\ backlog' = [backlog EXCEPT ![c] = Tail(@)]
              /\ live' = live
            BY <1>8, <2>1 DEF Reduce
        <3>2. HeldOnce' /\ QueuedOnce' /\ HeldOrQueued' /\ HeldLive' /\ QueuedLive'
            BY <3>1, <2>1, BacklogToHands
        <3>3. HandsEmpty'
            BY <3>1, <2>1, <1>8, <1>c, <1>s, <1>o DEF Reduce, Goto, HandsEmpty
        <3>4. QED
            BY <3>2, <3>3, <1>e
    <2>2. CASE backlog[c] = <<>>
        <3>1. HandsEmpty'
            BY <2>2, <1>8, <1>c, <1>o DEF Reduce, Goto, HandsEmpty
        <3>2. QED
            BY <2>2, <3>1, <1>8, <1>k, <1>e DEF Reduce
    <2>3. QED
        BY <2>1, <2>2
<1>9. ASSUME NEW c \in Cpu, NEW l \in Level, SetInactive(c, l) PROVE OwnerInv'
    <2>1. HandsEmpty'
        BY <1>9, <1>c, <1>o DEF SetInactive, Return, Goto, HandsEmpty
    <2>2. QED
        BY <2>1, <1>9, <1>k, <1>e DEF SetInactive
<1>10. ASSUME NEW c \in Cpu, NEW d \in Cpu, TimerExpires(c, d) PROVE OwnerInv'
    <2>1. HandsEmpty'
        BY <1>10, <1>c, <1>o, <1>l DEF TimerExpires, Goto, HandsEmpty
    <2>2. QED
        BY <2>1, <1>10, <1>k, <1>e DEF TimerExpires
<1>11. ASSUME NEW c \in Cpu, TimerActive(c) PROVE OwnerInv'
    <2>1. /\ pc[c]["soft"] = "t_active" /\ skb' = skb
          /\ \E step \in {"idle", "t_empty"} : pc' = [pc EXCEPT ![c]["soft"] = step]
        BY <1>11 DEF TimerActive, Return, Goto
    <2>2. HandsEmpty'
        BY <2>1, <1>c, <1>o, <1>l DEF HandsEmpty
    <2>3. QED
        BY <2>2, <1>11, <1>k, <1>e DEF TimerActive
<1>12. ASSUME NEW c \in Cpu, TimerEmpty(c) PROVE OwnerInv'
    <2>1. /\ pc[c]["soft"] = "t_empty" /\ skb' = skb
          /\ \E step \in {"idle", "t_cpu"} : pc' = [pc EXCEPT ![c]["soft"] = step]
        BY <1>12 DEF TimerEmpty, Return, Goto
    <2>2. HandsEmpty'
        BY <2>1, <1>c, <1>o, <1>l DEF HandsEmpty
    <2>3. QED
        BY <2>2, <1>12, <1>k, <1>e DEF TimerEmpty
<1>13. ASSUME NEW c \in Cpu, TimerCpu(c) PROVE OwnerInv'
    <2>1. /\ pc[c]["soft"] = "t_cpu" /\ skb' = skb
          /\ \E step \in {"idle", "t_reduce"} : pc' = [pc EXCEPT ![c]["soft"] = step]
        BY <1>13 DEF TimerCpu, Return, Goto
    <2>2. HandsEmpty'
        BY <2>1, <1>c, <1>o, <1>l DEF HandsEmpty
    <2>3. QED
        BY <2>2, <1>13, <1>k, <1>e DEF TimerCpu
<1>14. ASSUME NEW c \in Cpu, TimerReduce(c) PROVE OwnerInv'
    <2>0. disc[c] \in Cpu
        BY <1>14 DEF TimerReduce, TypeInv, HasDisc
    <2>1. CASE backlog[disc[c]] # <<>>
        <3>1. /\ skb' = [skb EXCEPT ![c]["soft"] = Head(backlog[disc[c]])]
              /\ backlog' = [backlog EXCEPT ![disc[c]] = Tail(@)]
              /\ live' = live
            BY <1>14, <2>1 DEF TimerReduce
        <3>2. HeldOnce' /\ QueuedOnce' /\ HeldOrQueued' /\ HeldLive' /\ QueuedLive'
            BY <3>1, <2>0, <2>1, <1>l, BacklogToHands
        <3>3. HandsEmpty'
            BY <3>1, <2>1, <1>14, <1>c, <1>s, <1>o, <1>l DEF TimerReduce, Goto, HandsEmpty
        <3>4. QED
            BY <3>2, <3>3, <1>e
    <2>2. CASE backlog[disc[c]] = <<>>
        <3>1. HandsEmpty'
            BY <2>2, <1>14, <1>c, <1>o, <1>l DEF TimerReduce, Goto, HandsEmpty
        <3>2. QED
            BY <2>2, <3>1, <1>14, <1>k, <1>e DEF TimerReduce
    <2>3. QED
        BY <2>1, <2>2
<1>15. CASE UNCHANGED vars
    <2>1. HandsEmpty'
        BY <1>15, <1>o DEF HandsEmpty, vars
    <2>2. QED
        BY <2>1, <1>15, <1>k, <1>e DEF vars
<1>16. QED
    BY <1>1, <1>2, <1>3, <1>4, <1>5, <1>6, <1>7, <1>8, <1>9, <1>10, <1>11,
       <1>12, <1>13, <1>14, <1>15
       DEF Next, ProcessPacket, TimerHandler

(* No packet is ever owned twice, and none is freed while somebody owns    *)
(* it, however the contexts of the CPUs and the roaming timers interleave. *)
THEOREM PacketHasOneOwner == Spec => []SingleOwner
<1>1. TypeInv /\ OwnerInv /\ [Next]_vars => OwnerInv'
    BY OwnerStep
<1>2. QED
    BY TypeInvInit, TypeInvStep, OwnerInit, <1>1, OwnerInvImplies, PTL DEF Spec

-----------------------------------------------------------------------------
(* The refinement.  What a step of the engine does to the view that        *)
(* PacketFlow has of it, in terms of who holds and who queues a packet.    *)
Held(s) == \E c \in Cpu, l \in Level : skb[c][l] = s

(* A packet is owned by a context or by a backlog. *)
LEMMA OwnedSplit ==
    ASSUME NEW s
    PROVE  /\ Owned(s) <=> (Held(s) \/ \E c \in Cpu : Queued(s, c))
           /\ Owned(s)' <=> (Held(s)' \/ \E c \in Cpu : Queued(s, c)')
BY DEF Owned, Held, Queued

(* The packet of a context that runs in the loop is the one its CPU is     *)
(* busy with, and no other context of that CPU is in the loop.             *)
LEMMA BusyInLoop ==
    ASSUME TypeInv, ExclusionInv, NEW c \in Cpu, NEW l \in Level, pc[c][l] = "loop"
    PROVE  /\ Busy[c] = skb[c][l]
           /\ \A m \in Level : m # l => pc[c][m] # "loop"
BY DEF TypeInv, TypeOK, ExclusionInv, OneContextInEngine, InEngine, Busy, Level

(* A CPU none of whose contexts runs in the loop is not busy. *)
LEMMA NotBusy ==
    ASSUME NEW c \in Cpu, \A m \in Level : pc[c][m] # "loop"
    PROVE  Busy[c] = NULL
BY DEF Busy, Level

(* Nothing PacketFlow sees changes. *)
LEMMA SameView ==
    ASSUME backlog' = backlog, skb' = skb, live' = live,
           \A c \in Cpu, l \in Level :
               /\ pc'[c][l] = "loop" <=> pc[c][l] = "loop"
               /\ pc'[c][l] \in {"check", "start"} <=> pc[c][l] \in {"check", "start"},
           Nowhere' = Nowhere
    PROVE  UNCHANGED Flow!flow
<1>1. Arriving' = Arriving
    BY DEF Arriving
<1>2. Busy' = Busy
    BY DEF Busy, Level
<1>3. Lost' = Lost
    BY DEF Lost, Owned
<1>4. QED
    BY <1>1, <1>2, <1>3 DEF Flow!flow

(* Who holds a packet after one context has exchanged what it holds. *)
LEMMA HeldAfter ==
    ASSUME skb \in [Cpu -> [Level -> Skb \cup {NULL}]], HeldOnce,
           NEW c \in Cpu, NEW l \in Level, NEW v,
           skb' = [skb EXCEPT ![c][l] = v], NEW x \in Skb
    PROVE  /\ x # v /\ x # skb[c][l] => (Held(x)' <=> Held(x))
           /\ x = v => Held(x)'
           /\ x = skb[c][l] /\ x # v => ~Held(x)'
<1>1. \A d \in Cpu, m \in Level :
          \/ skb'[d][m] = skb[d][m] /\ ~(d = c /\ m = l)
          \/ d = c /\ m = l /\ skb'[d][m] = v
    OBVIOUS
<1>2. x # v /\ x # skb[c][l] => (Held(x)' <=> Held(x))
    BY <1>1 DEF Held
<1>3. x = v => Held(x)'
    BY <1>1 DEF Held
<1>4. x = skb[c][l] /\ x # v => ~Held(x)'
    BY <1>1, SkbAssumption DEF Held, HeldOnce
<1>5. QED
    BY <1>2, <1>3, <1>4

(* Who holds a packet after one context has let go of the one it held. *)
LEMMA HeldReleased ==
    ASSUME skb \in [Cpu -> [Level -> Skb \cup {NULL}]], HeldOnce,
           NEW c \in Cpu, NEW l \in Level, skb[c][l] \in Skb,
           skb' = [skb EXCEPT ![c][l] = NULL]
    PROVE  \A x \in Skb : /\ x # skb[c][l] => (Held(x)' <=> Held(x))
                          /\ x = skb[c][l] => Held(x) /\ ~Held(x)'
<1>1. Held(skb[c][l])
    BY DEF Held
<1>2. \A x \in Skb : x # NULL
    BY SkbAssumption
<1>3. QED
    BY <1>1, <1>2, HeldAfter

(* Who holds a packet after one context that held none has taken one. *)
LEMMA HeldTaken ==
    ASSUME skb \in [Cpu -> [Level -> Skb \cup {NULL}]],
           NEW c \in Cpu, NEW l \in Level, skb[c][l] = NULL, NEW v \in Skb,
           skb' = [skb EXCEPT ![c][l] = v]
    PROVE  \A x \in Skb : Held(x)' <=> (Held(x) \/ x = v)
<1>1. \A d \in Cpu, m \in Level :
          \/ skb'[d][m] = skb[d][m] /\ ~(d = c /\ m = l)
          \/ d = c /\ m = l /\ skb'[d][m] = v
    OBVIOUS
<1>2. QED
    BY <1>1, SkbAssumption DEF Held

(* What the backlogs hold after a packet is queued for CPU c. *)
LEMMA QueuedAppended ==
    ASSUME backlog \in [Cpu -> Seq(Skb)], NEW c \in Cpu, NEW s \in Skb,
           backlog' = [backlog EXCEPT ![c] = Append(@, s)]
    PROVE  \A x \in Skb, d \in Cpu :
               Queued(x, d)' <=> (Queued(x, d) \/ (d = c /\ x = s))
<1> SUFFICES ASSUME NEW x \in Skb, NEW d \in Cpu
             PROVE  Queued(x, d)' <=> (Queued(x, d) \/ (d = c /\ x = s))
    OBVIOUS
<1>1. CASE d = c
    <2>1. backlog'[d] = Append(backlog[c], s)
        BY <1>1
    <2>2. backlog[c] \in Seq(Skb)
        OBVIOUS
    <2>3. \A q \in Seq(Skb) :
              (\E i \in DOMAIN Append(q, s) : Append(q, s)[i] = x)
                  <=> (x = s \/ \E i \in DOMAIN q : q[i] = x)
        BY AppendHolds, ZenonT(30)
    <2>4. QED
        BY <1>1, <2>1, <2>2, <2>3 DEF Queued
<1>2. CASE d # c
    BY <1>2 DEF Queued
<1>3. QED
    BY <1>1, <1>2

(* What the backlogs hold after the first packet of CPU c is taken off. *)
LEMMA QueuedTaken ==
    ASSUME TypeInv, OwnerInv, NEW c \in Cpu, backlog[c] # <<>>,
           backlog' = [backlog EXCEPT ![c] = Tail(@)]
    PROVE  \A x \in Skb : (\E d \in Cpu : Queued(x, d))
                             <=> ((\E d \in Cpu : Queued(x, d)') \/ x = Head(backlog[c]))
<1>b. backlog \in [Cpu -> Seq(Skb)]
    BY DEF TypeInv, TypeOK
<1>1. \A x \in Skb : Queued(x, c) <=> (Queued(x, c)' \/ x = Head(backlog[c]))
    <2>1. backlog'[c] = Tail(backlog[c])
        BY <1>b
    <2>2. backlog[c] \in Seq(Skb)
        BY <1>b
    <2>3. \A x \in Skb : (\E i \in DOMAIN backlog[c] : backlog[c][i] = x)
              <=> (x = Head(backlog[c])
                      \/ \E i \in DOMAIN Tail(backlog[c]) : Tail(backlog[c])[i] = x)
        BY <2>2, HeadTailHolds, Zenon
    <2>4. QED
        BY <2>1, <2>3 DEF Queued
<1>2. \A x \in Skb, d \in Cpu : d # c => (Queued(x, d)' <=> Queued(x, d))
    BY <1>b DEF Queued
<1>3. QED
    BY <1>1, <1>2

(* A step of CPU c changes at most what CPU c is busy with. *)
LEMMA BusyAfter ==
    ASSUME NEW c \in Cpu, NEW v, Busy'[c] = v,
           \A d \in Cpu, m \in Level :
               d # c => pc'[d][m] = pc[d][m] /\ skb'[d][m] = skb[d][m]
    PROVE  Busy' = [Busy EXCEPT ![c] = v]
<1>1. \A d \in Cpu : d # c => Busy'[d] = Busy[d]
    BY DEF Busy, Level
<1>2. Busy = [d \in Cpu |-> Busy[d]] /\ Busy' = [d \in Cpu |-> Busy'[d]]
    BY DEF Busy
<1>3. QED
    BY <1>1, <1>2

(* A packet without an owner is unknown to PacketFlow when it is not live. *)
LEMMA DeadUnknown ==
    ASSUME TypeInv, OwnerInv, NEW s \in Skb \ live
    PROVE  Flow!Unknown(s)
<1>1. s \notin Arriving
    BY SkbAssumption DEF OwnerInv, HeldLive, Arriving
<1>2. s \notin Lost
    BY DEF Lost
<1>3. ~Flow!InQueue(s)
    BY DEF OwnerInv, QueuedLive, Flow!InQueue
<1>4. \A c \in Cpu : Busy[c] # s
    BY SkbAssumption DEF OwnerInv, HeldLive, Busy, Level
<1>5. QED
    BY <1>1, <1>2, <1>3, <1>4 DEF Flow!Unknown

(* A new packet is an arrival. *)
LEMMA EnterFlow ==
    ASSUME TypeInv, ExclusionInv, OwnerInv, NEW c \in Cpu, NEW l \in Level, Enter(c, l)
    PROVE  \E s \in Skb : Flow!Arrive(s)
<1>b. backlog' = backlog
    BY DEF Enter
<1>c. pc \in [Cpu -> [Level -> PC]]
    BY DEF TypeInv, TypeOK
<1>s. skb \in [Cpu -> [Level -> Skb \cup {NULL}]]
    BY DEF TypeInv, TypeOK
<1>n. next \in [Skb -> 0 .. MaxHops] /\ live \subseteq Skb
    BY DEF TypeInv, TypeOK
<1>1. PICK s \in Skb \ live, k \in EntryIdp :
          /\ live' = live \cup {s}
          /\ next' = [next EXCEPT ![s] = k]
          /\ skb' = [skb EXCEPT ![c][l] = s]
    BY DEF Enter
<1>2. pc[c][l] = "idle" /\ pc' = [pc EXCEPT ![c][l] = "check"]
    BY DEF Enter, Goto
<1>3. skb[c][l] = NULL
    BY <1>2 DEF OwnerInv, HandsEmpty
<1>4. \A d \in Cpu, m \in Level :
          \/ /\ ~(d = c /\ m = l)
             /\ skb'[d][m] = skb[d][m] /\ pc'[d][m] = pc[d][m]
          \/ d = c /\ m = l /\ skb'[d][m] = s /\ pc'[d][m] = "check"
    BY <1>1, <1>2, <1>c, <1>s
<1>5. Arriving' = Arriving \cup {s}
    <2>1. \A x \in Skb : x \in Arriving' <=> x \in Arriving \/ x = s
        BY <1>2, <1>4 DEF Arriving
    <2>2. Arriving \subseteq Skb /\ Arriving' \subseteq Skb
        BY DEF Arriving
    <2>3. QED
        BY <2>1, <2>2
<1>6. Busy' = Busy
    BY <1>2, <1>4 DEF Busy, Level
<1>7. Nowhere' \in {Nowhere, Nowhere \cup {s}}
    BY <1>1, <1>n DEF Nowhere
<1>8. Lost' = Lost
    <2>1. \A x \in Skb : Held(x)' <=> (Held(x) \/ x = s)
        BY <1>1, <1>3, <1>s, HeldTaken
    <2>2. \A x \in Skb, d \in Cpu : Queued(x, d)' <=> Queued(x, d)
        BY <1>b DEF Queued
    <2>3. \A x \in Skb : Owned(x)' <=> (Owned(x) \/ x = s)
        BY <2>1, <2>2 DEF Owned, Held, Queued
    <2>4. QED
        BY <2>3, <1>1, <1>n DEF Lost
<1>9. Flow!Arrive(s)
    BY <1>1, <1>5, <1>6, <1>7, <1>8, <1>b, DeadUnknown DEF Flow!Arrive
<1>10. QED
    BY <1>9

(* A packet that is queued because its CPU is in the engine starts to      *)
(* wait; one that goes on to set_active is seen as still arriving.         *)
LEMMA CheckActiveFlow ==
    ASSUME TypeInv, ExclusionInv, OwnerInv, NEW c \in Cpu, NEW l \in Level,
           CheckActive(c, l)
    PROVE  (\E s \in Skb : Flow!Wait(c, s)) \/ UNCHANGED Flow!flow
<1>b. backlog \in [Cpu -> Seq(Skb)]
    BY DEF TypeInv, TypeOK
<1>c. pc \in [Cpu -> [Level -> PC]]
    BY DEF TypeInv, TypeOK
<1>s. skb \in [Cpu -> [Level -> Skb \cup {NULL}]]
    BY DEF TypeInv, TypeOK
<1>h. skb[c][l] \in Skb /\ pc[c][l] = "check"
    BY DEF CheckActive, TypeInv, HasPacket
<1>1. CASE active[c]
    <2>1. /\ backlog' = [backlog EXCEPT ![c] = Append(@, skb[c][l])]
          /\ skb' = [skb EXCEPT ![c][l] = NULL]
          /\ pc' = [pc EXCEPT ![c][l] = "idle"]
          /\ next' = next /\ live' = live
        BY <1>1 DEF CheckActive, Return, Goto
    <2>2. \A d \in Cpu, m \in Level :
              \/ /\ ~(d = c /\ m = l)
                 /\ skb'[d][m] = skb[d][m] /\ pc'[d][m] = pc[d][m]
              \/ d = c /\ m = l /\ skb'[d][m] = NULL /\ pc'[d][m] = "idle"
        BY <2>1, <1>c, <1>s
    <2>3. skb[c][l] \in Arriving
        BY <1>h DEF Arriving
    <2>4. Arriving' = Arriving \ {skb[c][l]}
        <3>1. \A x \in Skb : x \in Arriving' <=> x \in Arriving /\ x # skb[c][l]
            BY <2>2, <1>h, SkbAssumption DEF Arriving, OwnerInv, HeldOnce
        <3>2. Arriving \subseteq Skb /\ Arriving' \subseteq Skb
            BY DEF Arriving
        <3>3. QED
            BY <3>1, <3>2
    <2>5. Busy' = Busy
        BY <2>2, <1>h DEF Busy, Level
    <2>6. Nowhere' = Nowhere
        BY <2>1 DEF Nowhere
    <2>7. Lost' = Lost
        <3>1. \A x \in Skb : /\ x # skb[c][l] => (Held(x)' <=> Held(x))
                             /\ x = skb[c][l] => Held(x) /\ ~Held(x)'
            BY <2>1, <1>s, <1>h, HeldReleased DEF OwnerInv
        <3>2. \A x \in Skb, d \in Cpu :
                  Queued(x, d)' <=> (Queued(x, d) \/ (d = c /\ x = skb[c][l]))
            BY <2>1, <1>b, <1>h, QueuedAppended
        <3>3. \A x \in Skb : Owned(x)' <=> Owned(x)
            BY <3>1, <3>2 DEF Owned, Held, Queued
        <3>4. QED
            BY <3>3, <2>1 DEF Lost, TypeInv, TypeOK
    <2>8. Flow!Wait(c, skb[c][l])
        BY <2>1, <2>3, <2>4, <2>5, <2>6, <2>7 DEF Flow!Wait
    <2>9. QED
        BY <1>h, <2>8
<1>2. CASE ~active[c]
    <2>1. /\ backlog' = backlog /\ skb' = skb /\ next' = next /\ live' = live
          /\ pc' = [pc EXCEPT ![c][l] = "start"]
        BY <1>2 DEF CheckActive, Goto
    <2>2. \A d \in Cpu, m \in Level :
              /\ pc'[d][m] = "loop" <=> pc[d][m] = "loop"
              /\ pc'[d][m] \in {"check", "start"} <=> pc[d][m] \in {"check", "start"}
        BY <2>1, <1>c, <1>h
    <2>3. QED
        BY <2>1, <2>2, SameView DEF Nowhere
<1>3. QED
    BY <1>1, <1>2

(* set_active begins to run the packet: until then no context of the CPU   *)
(* runs another one.                                                       *)
LEMMA SetActiveFlow ==
    ASSUME TypeInv, ExclusionInv, OwnerInv, NEW c \in Cpu, NEW l \in Level,
           SetActive(c, l)
    PROVE  \E s \in Skb : Flow!Begin(c, s)
<1>b. backlog \in [Cpu -> Seq(Skb)]
    BY DEF TypeInv, TypeOK
<1>c. pc \in [Cpu -> [Level -> PC]]
    BY DEF TypeInv, TypeOK
<1>s. skb \in [Cpu -> [Level -> Skb \cup {NULL}]]
    BY DEF TypeInv, TypeOK
<1>h. skb[c][l] \in Skb /\ pc[c][l] = "start"
    BY DEF SetActive, TypeInv, HasPacket
<1>1. /\ backlog' = backlog /\ skb' = skb /\ next' = next /\ live' = live
      /\ pc' = [pc EXCEPT ![c][l] = "loop"]
    BY DEF SetActive, Goto
<1>2. \A d \in Cpu, m \in Level :
          \/ ~(d = c /\ m = l) /\ pc'[d][m] = pc[d][m]
          \/ d = c /\ m = l /\ pc'[d][m] = "loop"
    BY <1>1, <1>c
<1>3. \A m \in Level : pc[c][m] # "loop"
    BY <1>h DEF SetActive, Runs, ExclusionInv, SoftMayEnter, InEngine, Level
<1>4. Busy[c] = NULL
    BY <1>3, NotBusy
<1>5. Busy' = [Busy EXCEPT ![c] = skb[c][l]]
    <2>1. Busy'[c] = skb[c][l]
        BY <1>1, <1>2, <1>3 DEF Busy, Level
    <2>2. QED
        BY <2>1, <1>1, <1>2, BusyAfter
<1>6. skb[c][l] \in Arriving /\ Arriving' = Arriving \ {skb[c][l]}
    <2>1. \A x \in Skb : x \in Arriving' <=> x \in Arriving /\ x # skb[c][l]
        BY <1>1, <1>2, <1>h, SkbAssumption DEF Arriving, OwnerInv, HeldOnce
    <2>2. Arriving \subseteq Skb /\ Arriving' \subseteq Skb /\ skb[c][l] \in Arriving
        BY <1>h DEF Arriving
    <2>3. QED
        BY <2>1, <2>2
<1>7. Nowhere' = Nowhere /\ Lost' = Lost
    BY <1>1 DEF Nowhere, Lost, Owned
<1>8. Flow!Begin(c, skb[c][l])
    BY <1>1, <1>4, <1>5, <1>6, <1>7 DEF Flow!Begin
<1>9. QED
    BY <1>h, <1>8

(* The view after a context in the loop has let go of its packet. *)
LEMMA LetGo ==
    ASSUME TypeInv, ExclusionInv, OwnerInv, NEW c \in Cpu, NEW l \in Level,
           pc[c][l] = "loop",
           skb' = [skb EXCEPT ![c][l] = NULL],
           pc' = [pc EXCEPT ![c][l] = "reduce"]
    PROVE  /\ Arriving' = Arriving
           /\ Busy[c] = skb[c][l] /\ skb[c][l] \in live
           /\ skb[c][l] \in Skb /\ skb[c][l] # NULL
           /\ Busy' = [Busy EXCEPT ![c] = NULL]
           /\ \A x \in Skb : /\ x # skb[c][l] => (Held(x)' <=> Held(x))
                             /\ x = skb[c][l] => Held(x) /\ ~Held(x)'
           /\ \A d \in Cpu : ~Queued(skb[c][l], d)
<1>b. backlog \in [Cpu -> Seq(Skb)]
    BY DEF TypeInv, TypeOK
<1>c. pc \in [Cpu -> [Level -> PC]]
    BY DEF TypeInv, TypeOK
<1>s. skb \in [Cpu -> [Level -> Skb \cup {NULL}]]
    BY DEF TypeInv, TypeOK
<1>h. skb[c][l] \in Skb /\ skb[c][l] # NULL
    BY SkbAssumption DEF TypeInv, HasPacket
<1>1. \A d \in Cpu, m \in Level :
          \/ /\ ~(d = c /\ m = l)
             /\ skb'[d][m] = skb[d][m] /\ pc'[d][m] = pc[d][m]
          \/ d = c /\ m = l /\ skb'[d][m] = NULL /\ pc'[d][m] = "reduce"
    BY <1>c, <1>s
<1>2. Arriving' = Arriving
    BY <1>1 DEF Arriving
<1>3. Busy[c] = skb[c][l] /\ \A m \in Level : m # l => pc[c][m] # "loop"
    BY BusyInLoop
<1>4. Busy' = [Busy EXCEPT ![c] = NULL]
    <2>1. Busy'[c] = NULL
        BY <1>1, <1>3 DEF Busy, Level
    <2>2. QED
        BY <2>1, <1>1, BusyAfter
<1>5. \A x \in Skb : /\ x # skb[c][l] => (Held(x)' <=> Held(x))
                     /\ x = skb[c][l] => Held(x) /\ ~Held(x)'
    BY <1>s, <1>h, HeldReleased DEF OwnerInv
<1>6. skb[c][l] \in live /\ \A d \in Cpu : ~Queued(skb[c][l], d)
    BY <1>h DEF OwnerInv, HeldLive, HeldOrQueued, Queued
<1>7. QED
    BY <1>h, <1>2, <1>3, <1>4, <1>5, <1>6

(* The loop ends for a packet without a next idp: it is lost. *)
LEMMA NoNextFlow ==
    ASSUME TypeInv, ExclusionInv, OwnerInv, NEW c \in Cpu, NEW l \in Level,
           NoNext(c, l)
    PROVE  Flow!Lose(c)
<1>n. next \in [Skb -> 0 .. MaxHops] /\ live \subseteq Skb
    BY DEF TypeInv, TypeOK
<1>1. /\ backlog' = backlog /\ next' = next /\ live' = live
      /\ pc[c][l] = "loop" /\ next[skb[c][l]] = IDP_UNKNOWN
      /\ skb' = [skb EXCEPT ![c][l] = NULL]
      /\ pc' = [pc EXCEPT ![c][l] = "reduce"]
    BY DEF NoNext, Goto
<1>2. /\ Arriving' = Arriving
      /\ Busy[c] = skb[c][l] /\ skb[c][l] \in live
      /\ skb[c][l] \in Skb /\ skb[c][l] # NULL
      /\ Busy' = [Busy EXCEPT ![c] = NULL]
      /\ \A x \in Skb : /\ x # skb[c][l] => (Held(x)' <=> Held(x))
                        /\ x = skb[c][l] => Held(x) /\ ~Held(x)'
      /\ \A d \in Cpu : ~Queued(skb[c][l], d)
    BY <1>1, LetGo
<1>3. Nowhere' = Nowhere /\ skb[c][l] \in Nowhere
    BY <1>1, <1>2 DEF Nowhere
<1>4. Lost' = Lost \cup {skb[c][l]}
    <2>1. \A x \in Skb : Owned(x)' <=> (Owned(x) /\ x # skb[c][l])
        BY <1>1, <1>2 DEF Owned, Held, Queued
    <2>2. QED
        BY <2>1, <1>1, <1>2, <1>n DEF Lost
<1>5. QED
    BY <1>1, <1>2, <1>3, <1>4 DEF Flow!Lose

(* A packet that a block disposes of is finished. *)
LEMMA DropFlow ==
    ASSUME TypeInv, ExclusionInv, OwnerInv, NEW c \in Cpu, NEW l \in Level,
           Drop(c, l)
    PROVE  Flow!Finish(c)
<1>n. next \in [Skb -> 0 .. MaxHops] /\ live \subseteq Skb
    BY DEF TypeInv, TypeOK
<1>1. /\ backlog' = backlog /\ live' = live \ {skb[c][l]}
      /\ next' = [next EXCEPT ![skb[c][l]] = IDP_UNKNOWN]
      /\ pc[c][l] = "loop" /\ next[skb[c][l]] # IDP_UNKNOWN
      /\ skb' = [skb EXCEPT ![c][l] = NULL]
      /\ pc' = [pc EXCEPT ![c][l] = "reduce"]
    BY DEF Drop, Goto
<1>2. /\ Arriving' = Arriving
      /\ Busy[c] = skb[c][l] /\ skb[c][l] \in live
      /\ skb[c][l] \in Skb /\ skb[c][l] # NULL
      /\ Busy' = [Busy EXCEPT ![c] = NULL]
      /\ \A x \in Skb : /\ x # skb[c][l] => (Held(x)' <=> Held(x))
                        /\ x = skb[c][l] => Held(x) /\ ~Held(x)'
      /\ \A d \in Cpu : ~Queued(skb[c][l], d)
    BY <1>1, LetGo
<1>3. Nowhere' = Nowhere /\ skb[c][l] \notin Nowhere
    BY <1>1, <1>2, <1>n DEF Nowhere
<1>4. Lost' = Lost
    <2>1. \A x \in Skb : x # skb[c][l] => (Owned(x)' <=> Owned(x))
        BY <1>1, <1>2 DEF Owned, Held, Queued
    <2>2. Owned(skb[c][l])
        BY <1>2 DEF Owned, Held
    <2>3. QED
        BY <2>1, <2>2, <1>1, <1>2, <1>n DEF Lost
<1>5. QED
    BY <1>1, <1>2, <1>3, <1>4 DEF Flow!Finish

(* A packet passed on to the next block stays where it is. *)
LEMMA ForwardFlow ==
    ASSUME TypeInv, ExclusionInv, OwnerInv, NEW c \in Cpu, NEW l \in Level,
           Forward(c, l)
    PROVE  UNCHANGED Flow!flow
<1>n. next \in [Skb -> 0 .. MaxHops] /\ live \subseteq Skb
    BY DEF TypeInv, TypeOK
<1>1. skb[c][l] \in Skb
    BY DEF Forward, TypeInv, HasPacket
<1>2. /\ backlog' = backlog /\ skb' = skb /\ pc' = pc /\ live' = live
      /\ next' = [next EXCEPT ![skb[c][l]] = @ - 1] /\ next[skb[c][l]] > 1
    BY DEF Forward
<1>3. Nowhere' = Nowhere
    BY <1>1, <1>2, <1>n DEF Nowhere, IDP_UNKNOWN
<1>4. QED
    BY <1>2, <1>3, SameView

(* The copy a tee block makes is queued behind the packets that wait. *)
LEMMA TeeFlow ==
    ASSUME TypeInv, ExclusionInv, OwnerInv, NEW c \in Cpu, NEW l \in Level,
           Tee(c, l)
    PROVE  \E s \in Skb : Flow!Copy(c, s)
<1>b. backlog \in [Cpu -> Seq(Skb)]
    BY DEF TypeInv, TypeOK
<1>c. pc \in [Cpu -> [Level -> PC]]
    BY DEF TypeInv, TypeOK
<1>s. skb \in [Cpu -> [Level -> Skb \cup {NULL}]]
    BY DEF TypeInv, TypeOK
<1>n. next \in [Skb -> 0 .. MaxHops] /\ live \subseteq Skb
    BY DEF TypeInv, TypeOK
<1>h. skb[c][l] \in Skb /\ pc[c][l] = "loop" /\ next[skb[c][l]] > 1
    BY DEF Tee, TypeInv, HasPacket
<1>1. PICK s \in Skb \ live :
          /\ backlog' = [backlog EXCEPT ![c] = Append(@, s)]
          /\ \/ /\ live' = (live \ {skb[c][l]}) \cup {s}
                /\ next' = [next EXCEPT ![skb[c][l]] = IDP_UNKNOWN,
                                         ![s] = next[skb[c][l]] - 1]
                /\ skb' = [skb EXCEPT ![c][l] = NULL]
                /\ pc' = [pc EXCEPT ![c][l] = "reduce"]
             \/ /\ live' = live \cup {s}
                /\ next' = [next EXCEPT ![skb[c][l]] = @ - 1,
                                         ![s] = next[skb[c][l]] - 1]
                /\ skb' = skb /\ pc' = pc
    BY DEF Tee, Goto
<1>2. Busy[c] = skb[c][l] /\ skb[c][l] # NULL /\ skb[c][l] \in live
    BY <1>h, BusyInLoop, SkbAssumption DEF OwnerInv, HeldLive
<1>3. skb[c][l] \notin Nowhere
    BY <1>h, <1>n DEF Nowhere, IDP_UNKNOWN
<1>4. Flow!Unknown(s)
    BY DeadUnknown
<1>5. \A x \in Skb, d \in Cpu :
          Queued(x, d)' <=> (Queued(x, d) \/ (d = c /\ x = s))
    BY <1>1, <1>b, QueuedAppended
<1>6. CASE skb' = [skb EXCEPT ![c][l] = NULL] /\ pc' = [pc EXCEPT ![c][l] = "reduce"]
           /\ live' = (live \ {skb[c][l]}) \cup {s}
           /\ next' = [next EXCEPT ![skb[c][l]] = IDP_UNKNOWN, ![s] = next[skb[c][l]] - 1]
    <2>1. /\ Arriving' = Arriving
          /\ Busy' = [Busy EXCEPT ![c] = NULL]
          /\ \A x \in Skb : x # skb[c][l] => (Held(x)' <=> Held(x))
        BY <1>6, <1>h, LetGo
    <2>2. Nowhere' = Nowhere
        BY <1>6, <1>h, <1>2, <1>n DEF Nowhere, IDP_UNKNOWN
    <2>3. Lost' = Lost
        <3>1. \A x \in Skb : x # skb[c][l] => (Owned(x)' <=> (Owned(x) \/ x = s))
            BY <2>1, <1>5, OwnedSplit
        <3>2. Owned(skb[c][l])
            BY DEF Owned
        <3>3. QED
            BY <3>1, <3>2, <1>6, <1>n, <1>1, <1>2 DEF Lost
    <2>4. Flow!Copy(c, s)
        BY <2>1, <2>2, <2>3, <1>1, <1>2, <1>3, <1>4 DEF Flow!Copy
    <2>5. QED
        BY <2>4
<1>7. CASE skb' = skb /\ pc' = pc /\ live' = live \cup {s}
           /\ next' = [next EXCEPT ![skb[c][l]] = @ - 1, ![s] = next[skb[c][l]] - 1]
    <2>1. Arriving' = Arriving /\ Busy' = Busy
        BY <1>7 DEF Arriving, Busy
    <2>2. Nowhere' = Nowhere
        BY <1>7, <1>h, <1>2, <1>n DEF Nowhere, IDP_UNKNOWN
    <2>3. Lost' = Lost
        <3>1. \A x \in Skb : Owned(x)' <=> (Owned(x) \/ x = s)
            BY <1>7, <1>5 DEF Owned, Queued
        <3>2. QED
            BY <3>1, <1>7, <1>n DEF Lost
    <2>4. Flow!Copy(c, s)
        BY <2>1, <2>2, <2>3, <1>1, <1>2, <1>3, <1>4 DEF Flow!Copy
    <2>5. QED
        BY <2>4
<1>8. QED
    BY <1>1, <1>6, <1>7

(* The next packet of the backlog is taken, or the loop is left. *)
LEMMA ReduceFlow ==
    ASSUME TypeInv, ExclusionInv, OwnerInv, NEW c \in Cpu, NEW l \in Level,
           Reduce(c, l)
    PROVE  Flow!Take(c) \/ UNCHANGED Flow!flow
<1>b. backlog \in [Cpu -> Seq(Skb)]
    BY DEF TypeInv, TypeOK
<1>c. pc \in [Cpu -> [Level -> PC]]
    BY DEF TypeInv, TypeOK
<1>s. skb \in [Cpu -> [Level -> Skb \cup {NULL}]]
    BY DEF TypeInv, TypeOK
<1>n. next \in [Skb -> 0 .. MaxHops] /\ live \subseteq Skb
    BY DEF TypeInv, TypeOK
<1>h. pc[c][l] = "reduce" /\ skb[c][l] = NULL
    BY DEF Reduce, OwnerInv, HandsEmpty
<1>1. CASE backlog[c] # <<>>
    <2>1. /\ skb' = [skb EXCEPT ![c][l] = Head(backlog[c])]
          /\ backlog' = [backlog EXCEPT ![c] = Tail(@)]
          /\ pc' = [pc EXCEPT ![c][l] = "loop"]
          /\ next' = next /\ live' = live
        BY <1>1 DEF Reduce, Goto
    <2>2. \A d \in Cpu, m \in Level :
              \/ /\ ~(d = c /\ m = l)
                 /\ skb'[d][m] = skb[d][m] /\ pc'[d][m] = pc[d][m]
              \/ d = c /\ m = l /\ skb'[d][m] = Head(backlog[c]) /\ pc'[d][m] = "loop"
        BY <2>1, <1>c, <1>s
    <2>3. \A m \in Level : pc[c][m] # "loop"
        BY <1>h DEF ExclusionInv, OneContextInEngine, InEngine, Level
    <2>4. Busy[c] = NULL
        BY <2>3, NotBusy
    <2>5. Busy' = [Busy EXCEPT ![c] = Head(backlog[c])]
        <3>1. Busy'[c] = Head(backlog[c])
            BY <2>2, <2>3 DEF Busy, Level
        <3>2. QED
            BY <3>1, <2>2, BusyAfter
    <2>6. Arriving' = Arriving
        BY <2>2, <1>h DEF Arriving
    <2>7. Nowhere' = Nowhere
        BY <2>1 DEF Nowhere
    <2>8. Lost' = Lost
        <3>1. \A x \in Skb : Held(x)' <=> (Held(x) \/ x = Head(backlog[c]))
            <4>1. Head(backlog[c]) \in Skb
                BY <1>1, <1>b, HeadTail
            <4>2. QED
                BY <4>1, <2>1, <1>h, <1>s, HeldTaken
        <3>2. \A x \in Skb : Owned(x)' <=> Owned(x)
            BY <3>1, <2>1, <1>1, QueuedTaken, OwnedSplit
        <3>3. QED
            BY <3>2, <2>1, <1>n DEF Lost
    <2>9. Flow!Take(c)
        BY <2>1, <2>4, <2>5, <2>6, <2>7, <2>8, <1>1 DEF Flow!Take
    <2>10. QED
        BY <2>9
<1>2. CASE backlog[c] = <<>>
    <2>1. /\ backlog' = backlog /\ skb' = skb /\ next' = next /\ live' = live
          /\ pc' = [pc EXCEPT ![c][l] = "inactive"]
        BY <1>2 DEF Reduce, Goto
    <2>2. \A d \in Cpu, m \in Level :
              /\ pc'[d][m] = "loop" <=> pc[d][m] = "loop"
              /\ pc'[d][m] \in {"check", "start"} <=> pc[d][m] \in {"check", "start"}
        BY <2>1, <1>c, <1>h
    <2>3. QED
        BY <2>1, <2>2, SameView DEF Nowhere
<1>3. QED
    BY <1>1, <1>2

(* A timer hands the first packet of a backlog to process_packet again, or *)
(* hits its BUG_ON, which PacketFlow does not see.                         *)
LEMMA TimerReduceFlow ==
    ASSUME TypeInv, ExclusionInv, OwnerInv, NEW c \in Cpu, TimerReduce(c)
    PROVE  (\E d \in Cpu : Flow!Rearrive(d)) \/ UNCHANGED Flow!flow
<1>b. backlog \in [Cpu -> Seq(Skb)]
    BY DEF TypeInv, TypeOK
<1>c. pc \in [Cpu -> [Level -> PC]]
    BY DEF TypeInv, TypeOK
<1>s. skb \in [Cpu -> [Level -> Skb \cup {NULL}]]
    BY DEF TypeInv, TypeOK
<1>n. next \in [Skb -> 0 .. MaxHops] /\ live \subseteq Skb
    BY DEF TypeInv, TypeOK
<1>l. "soft" \in Level
    BY DEF Level
<1>d. disc[c] \in Cpu
    BY DEF TimerReduce, TypeInv, HasDisc
<1>h. pc[c]["soft"] = "t_reduce" /\ skb[c]["soft"] = NULL
    BY <1>l DEF TimerReduce, OwnerInv, HandsEmpty
<1>1. CASE backlog[disc[c]] # <<>>
    <2>1. /\ skb' = [skb EXCEPT ![c]["soft"] = Head(backlog[disc[c]])]
          /\ backlog' = [backlog EXCEPT ![disc[c]] = Tail(@)]
          /\ pc' = [pc EXCEPT ![c]["soft"] = "check"]
          /\ next' = next /\ live' = live
        BY <1>1 DEF TimerReduce, Goto
    <2>2. \A d \in Cpu, m \in Level :
              \/ /\ ~(d = c /\ m = "soft")
                 /\ skb'[d][m] = skb[d][m] /\ pc'[d][m] = pc[d][m]
              \/ /\ d = c /\ m = "soft"
                 /\ skb'[d][m] = Head(backlog[disc[c]]) /\ pc'[d][m] = "check"
        BY <2>1, <1>c, <1>s
    <2>3. Head(backlog[disc[c]]) \in Skb
        BY <1>1, <1>b, <1>d, HeadTail
    <2>4. Arriving' = Arriving \cup {Head(backlog[disc[c]])}
        <3>1. \A x \in Skb : x \in Arriving' <=> (x \in Arriving \/ x = Head(backlog[disc[c]]))
            BY <2>2, <1>h, <1>l DEF Arriving
        <3>2. Arriving \subseteq Skb /\ Arriving' \subseteq Skb
            BY DEF Arriving
        <3>3. QED
            BY <2>3, <3>1, <3>2
    <2>5. Busy' = Busy
        BY <2>2, <1>h DEF Busy, Level
    <2>6. Nowhere' = Nowhere
        BY <2>1 DEF Nowhere
    <2>7. Lost' = Lost
        <3>1. \A x \in Skb : Held(x)' <=> (Held(x) \/ x = Head(backlog[disc[c]]))
            BY <2>1, <2>3, <1>h, <1>l, <1>s, HeldTaken
        <3>2. \A x \in Skb : Owned(x)' <=> Owned(x)
            BY <3>1, <2>1, <1>1, <1>d, QueuedTaken, OwnedSplit
        <3>3. QED
            BY <3>2, <2>1, <1>n DEF Lost
    <2>8. Flow!Rearrive(disc[c])
        BY <2>1, <2>4, <2>5, <2>6, <2>7, <1>1 DEF Flow!Rearrive
    <2>9. QED
        BY <2>8, <1>d
<1>2. CASE backlog[disc[c]] = <<>>
    <2>1. /\ backlog' = backlog /\ skb' = skb /\ next' = next /\ live' = live
          /\ pc' = [pc EXCEPT ![c]["soft"] = "t_bug"]
        BY <1>2 DEF TimerReduce, Goto
    <2>2. \A d \in Cpu, m \in Level :
              /\ pc'[d][m] = "loop" <=> pc[d][m] = "loop"
              /\ pc'[d][m] \in {"check", "start"} <=> pc[d][m] \in {"check", "start"}
        BY <2>1, <1>c, <1>h
    <2>3. QED
        BY <2>1, <2>2, SameView DEF Nowhere
<1>3. QED
    BY <1>1, <1>2

(* Steps that touch neither a packet nor a backlog, and neither enter nor  *)
(* leave a step at which a packet is held.                                 *)
LEMMA QuietFlow ==
    ASSUME TypeInv, NEW c \in Cpu, NEW l \in Level,
           pc[c][l] \notin {"check", "start", "loop"},
           NEW step, step \notin {"check", "start", "loop"},
           pc' = [pc EXCEPT ![c][l] = step],
           UNCHANGED <<backlog, skb, next, live>>
    PROVE  UNCHANGED Flow!flow
<1>1. pc \in [Cpu -> [Level -> PC]]
    BY DEF TypeInv, TypeOK
<1>2. \A d \in Cpu, m \in Level :
          /\ pc'[d][m] = "loop" <=> pc[d][m] = "loop"
          /\ pc'[d][m] \in {"check", "start"} <=> pc[d][m] \in {"check", "start"}
    BY <1>1
<1>3. QED
    BY <1>2, SameView DEF Nowhere

(* Every step of the engine is a step of PacketFlow or leaves its view. *)
LEMMA FlowStep ==
    ASSUME TypeInv, ExclusionInv, OwnerInv, [Next]_vars
    PROVE  [Flow!Next]_(Flow!flow)
<1>l. "soft" \in Level
    BY DEF Level
<1>q. \A step \in {"idle", "inactive", "t_active"} : step \notin {"check", "start", "loop"}
    OBVIOUS
<1>1. ASSUME NEW c \in Cpu, NEW l \in Level, Enter(c, l) PROVE [Flow!Next]_(Flow!flow)
    BY <1>1, EnterFlow DEF Flow!Next
<1>2. ASSUME NEW c \in Cpu, NEW l \in Level, CheckActive(c, l) PROVE [Flow!Next]_(Flow!flow)
    BY <1>2, CheckActiveFlow DEF Flow!Next
<1>3. ASSUME NEW c \in Cpu, NEW l \in Level, SetActive(c, l) PROVE [Flow!Next]_(Flow!flow)
    BY <1>3, SetActiveFlow DEF Flow!Next
<1>4. ASSUME NEW c \in Cpu, NEW l \in Level, NoNext(c, l) PROVE [Flow!Next]_(Flow!flow)
    BY <1>4, NoNextFlow DEF Flow!Next
<1>5. ASSUME NEW c \in Cpu, NEW l \in Level, Drop(c, l) PROVE [Flow!Next]_(Flow!flow)
    BY <1>5, DropFlow DEF Flow!Next
<1>6. ASSUME NEW c \in Cpu, NEW l \in Level, Forward(c, l) PROVE [Flow!Next]_(Flow!flow)
    BY <1>6, ForwardFlow
<1>7. ASSUME NEW c \in Cpu, NEW l \in Level, Tee(c, l) PROVE [Flow!Next]_(Flow!flow)
    BY <1>7, TeeFlow DEF Flow!Next
<1>8. ASSUME NEW c \in Cpu, NEW l \in Level, Reduce(c, l) PROVE [Flow!Next]_(Flow!flow)
    BY <1>8, ReduceFlow DEF Flow!Next
<1>9. ASSUME NEW c \in Cpu, NEW l \in Level, SetInactive(c, l) PROVE [Flow!Next]_(Flow!flow)
    <2>1. /\ pc[c][l] = "inactive" /\ pc' = [pc EXCEPT ![c][l] = "idle"]
          /\ UNCHANGED <<backlog, skb, next, live>>
        BY <1>9 DEF SetInactive, Return, Goto
    <2>2. UNCHANGED Flow!flow
        BY <2>1, <1>l, <1>q, QuietFlow
    <2>3. QED
        BY <2>2
<1>10. ASSUME NEW c \in Cpu, NEW d \in Cpu, TimerExpires(c, d)
       PROVE  [Flow!Next]_(Flow!flow)
    <2>1. /\ pc[c]["soft"] = "idle" /\ pc' = [pc EXCEPT ![c]["soft"] = "t_active"]
          /\ UNCHANGED <<backlog, skb, next, live>>
        BY <1>10 DEF TimerExpires, Goto
    <2>2. UNCHANGED Flow!flow
        BY <2>1, <1>l, <1>q, QuietFlow
    <2>3. QED
        BY <2>2
<1>11. ASSUME NEW c \in Cpu, TimerActive(c) PROVE [Flow!Next]_(Flow!flow)
    BY <1>11, <1>l, QuietFlow DEF TimerActive, Return, Goto
<1>12. ASSUME NEW c \in Cpu, TimerEmpty(c) PROVE [Flow!Next]_(Flow!flow)
    BY <1>12, <1>l, QuietFlow DEF TimerEmpty, Return, Goto
<1>13. ASSUME NEW c \in Cpu, TimerCpu(c) PROVE [Flow!Next]_(Flow!flow)
    BY <1>13, <1>l, QuietFlow DEF TimerCpu, Return, Goto
<1>14. ASSUME NEW c \in Cpu, TimerReduce(c) PROVE [Flow!Next]_(Flow!flow)
    BY <1>14, TimerReduceFlow DEF Flow!Next
<1>15. CASE UNCHANGED vars
    BY <1>15 DEF vars, Flow!flow, Arriving, Busy, Nowhere, Lost, Owned
<1>16. QED
    BY <1>1, <1>2, <1>3, <1>4, <1>5, <1>6, <1>7, <1>8, <1>9, <1>10, <1>11,
       <1>12, <1>13, <1>14, <1>15
       DEF Next, ProcessPacket, TimerHandler

(* PacketFlow sees no packet at first. *)
LEMMA FlowInit == Init => Flow!Init
BY SkbAssumption DEF Init, Flow!Init, Arriving, Busy, Nowhere, Lost, Level

(* The engine implements PacketFlow, for any number of CPUs and packets    *)
(* and wherever the timers expire.                                         *)
THEOREM EngineImplementsFlow == Spec => ImplementsFlow
<1>1. TypeInv /\ OwnerInv /\ [Next]_vars => OwnerInv'
    BY OwnerStep
<1>2. TypeInv /\ ExclusionInv /\ OwnerInv /\ [Next]_vars => [Flow!Next]_(Flow!flow)
    BY FlowStep
<1>3. QED
    BY TypeInvInit, TypeInvStep, ExclusionInit, ExclusionStep, OwnerInit,
       FlowInit, <1>1, <1>2, PTL DEF Spec, ImplementsFlow, Flow!Spec
=============================================================================
