---------------------------- MODULE FblockProofs ----------------------------
(***************************************************************************)
(* Proofs about the registry of functional blocks (Fblock) for any number  *)
(* of slots, names, devices, types, idps and notifier nodes, any choice of *)
(* commands and any history of them.                                       *)
(*                                                                         *)
(* A command is first described by what it does to the memory: a lemma per *)
(* operator and per command over two memories f and g, nodes nn and gn.    *)
(* The invariants are operators over the same values, and one lemma for    *)
(* each kind of outcome shows that it keeps the invariant.                 *)
(***************************************************************************)
EXTENDS Fblock, FiniteSetTheorems, WellFoundedInduction, TLAPS

(* Unhook lets a count of 2 pass, which may be the reference of one        *)
(* subscription: the proofs about the nodes need that devices are unhooked *)
(* only where nobody subscribes by command.                                *)
UnhookUnsubscribed == ~ ("SUBSCRIBE" \in Commands /\ "UNHOOK" \in Commands)

(* A replacement by a block of another type does not move the ports. *)
OneType == "REPLACE" \in Commands => \A s, t \in Type : s = t

(* A replacement that finds no memory for the new entry of fblmap leaves   *)
(* the name without a block.                                               *)
EntryKept == "REPLACE" \in Commands => "radix" \notin Failures

(* A tee has one third port for both directions: an unbind in the          *)
(* direction opposite to the bind gives it up at the tee only.             *)
NoTee == "tee" \notin Type \cup {NULL}

-----------------------------------------------------------------------------
(* Blocks and reference counts *)

(* The memory of the slots and of the nodes, as values. *)
Blocks == [Fblock -> FblockRec]
Nodes  == [Nb -> NodeRec]

(* Everything but the count and the state. *)
Kept(r, s) ==
    /\ r.idp = s.idp
    /\ r.name = s.name
    /\ r.factory = s.factory
    /\ r.port = s.port
    /\ r.notifiers = s.notifiers
    /\ r.others = s.others

(* Everything but the count. *)
Alike(r, s) == Kept(r, s) /\ r.state = s.state

(* How often q is one of the two ends o and p of a connection. *)
Ends(q, o, p) == (IF q = o THEN 1 ELSE 0) + (IF q = p THEN 1 ELSE 0)

(* A set of naturals that is not empty has a least element: NewNode and    *)
(* Unsubscribe choose one.                                                 *)
LEMMA Least ==
    ASSUME NEW S, S \subseteq Nat, S # {}
    PROVE  \E m \in S : \A k \in S : m <= k
<1> DEFINE R == OpToRel(<, Nat)
<1>1. IsWellFoundedOn(R, Nat)
  BY NatLessThanWellFounded
<1>2. \A i, j \in Nat : i < j => <<i, j>> \in R
  BY DEF OpToRel
<1> HIDE DEF R
<1>3. PICK m \in S : \A y \in S : ~(<<y, m>> \in R)
  BY <1>1, WFMin
<1>4. ASSUME NEW k \in S PROVE m <= k
  <2>1. m \in Nat /\ k \in Nat
    OBVIOUS
  <2>2. ~(k < m)
    BY <1>2, <1>3, <2>1
  <2> QED BY <2>1, <2>2
<1> QED BY <1>4

(* get_fblock changes only the count of its block. *)
LEMMA GetFacts ==
    ASSUME NEW f \in Blocks, NEW o \in Fblock
    PROVE  /\ Get(f, o) \in Blocks
           /\ \A q \in Fblock :
                 /\ Alike(Get(f, o)[q], f[q])
                 /\ Get(f, o)[q].refcnt = f[q].refcnt + (IF q = o THEN 1 ELSE 0)
<1> DEFINE t == [f[o] EXCEPT !.refcnt = f[o].refcnt + 1]
<1>1. f[o] \in FblockRec
  BY DEF Blocks
<1>2. t \in FblockRec /\ Alike(t, f[o]) /\ t.refcnt = f[o].refcnt + 1
  <2>1. f[o].refcnt + 1 \in Int
    BY <1>1 DEF FblockRec
  <2>2. t \in FblockRec
    BY <1>1, <2>1 DEF FblockRec
  <2>3. t.refcnt = f[o].refcnt + 1
    BY <1>1 DEF FblockRec
  <2>4. Alike(t, f[o])
    BY <1>1 DEF FblockRec, Alike, Kept
  <2> QED BY <2>2, <2>3, <2>4
<1>3. Get(f, o) = [f EXCEPT ![o] = t]
  BY <1>1 DEF Get, FblockRec
<1> HIDE DEF t
<1>4. \A q \in Fblock : f[q].refcnt \in Int /\ Alike(f[q], f[q])
  BY DEF Alike, Kept, Blocks, FblockRec
<1> QED BY <1>2, <1>3, <1>4 DEF Blocks

(* The two references of a command that has looked up two blocks. *)
LEMMA Get2Facts ==
    ASSUME NEW f \in Blocks, NEW o \in Fblock, NEW p \in Fblock
    PROVE  /\ Get2(f, o, p) \in Blocks
           /\ \A q \in Fblock :
                 /\ Alike(Get2(f, o, p)[q], f[q])
                 /\ Get2(f, o, p)[q].refcnt = f[q].refcnt + Ends(q, o, p)
<1> DEFINE g == Get(f, o)
<1>1. /\ g \in Blocks
      /\ \A q \in Fblock : /\ Alike(g[q], f[q])
                           /\ g[q].refcnt = f[q].refcnt + (IF q = o THEN 1 ELSE 0)
  BY GetFacts
<1>2. Get2(f, o, p) = Get(g, p)
  BY DEF Get2
<1> HIDE DEF g
<1> DEFINE h == Get(g, p)
<1>3. /\ h \in Blocks
      /\ \A q \in Fblock : /\ Alike(h[q], g[q])
                           /\ h[q].refcnt = g[q].refcnt + (IF q = p THEN 1 ELSE 0)
  BY <1>1, GetFacts
<1> HIDE DEF h
<1>4. \A q \in Fblock : f[q].refcnt \in Int /\ Alike(h[q], f[q])
  BY <1>1, <1>3 DEF Alike, Kept, Blocks, FblockRec
<1>5. \A q \in Fblock : h[q].refcnt = f[q].refcnt + Ends(q, o, p)
  BY <1>1, <1>3, <1>4 DEF Ends
<1> QED BY <1>2, <1>3, <1>4, <1>5 DEF h

(* put_fblock changes the count, and the state when the count was 1. *)
LEMMA PutFacts ==
    ASSUME NEW f \in Blocks, NEW o \in Fblock
    PROVE  /\ Put(f, o) \in Blocks
           /\ \A q \in Fblock :
                 /\ Kept(Put(f, o)[q], f[q])
                 /\ q # o \/ f[o].refcnt # 1 => Put(f, o)[q].state = f[q].state
                 /\ Put(f, o)[q].refcnt = f[q].refcnt - (IF q = o THEN 1 ELSE 0)
           /\ f[o].refcnt = 1 /\ f[o].factory # NULL => Put(f, o)[o].state = "rcu"
<1> DEFINE s == IF f[o].refcnt = 1 /\ f[o].factory # NULL THEN "rcu" ELSE f[o].state
           t == [f[o] EXCEPT !.refcnt = f[o].refcnt - 1, !.state = s]
<1>1. f[o] \in FblockRec
  BY DEF Blocks
<1>2. /\ s \in {"free", "live", "rcu"}
      /\ f[o].refcnt # 1 => s = f[o].state
      /\ f[o].refcnt = 1 /\ f[o].factory # NULL => s = "rcu"
  BY <1>1 DEF FblockRec
<1>3. Put(f, o) = [f EXCEPT ![o] = t]
  BY <1>1 DEF Put, FblockRec
<1> HIDE DEF s
<1>4. t \in FblockRec /\ Kept(t, f[o]) /\ t.refcnt = f[o].refcnt - 1 /\ t.state = s
  <2>1. Kept(t, f[o]) /\ t.refcnt = f[o].refcnt - 1 /\ t.state = s
    BY <1>1 DEF FblockRec, Kept
  <2>2. t \in FblockRec
    <3> DEFINE u == [f[o] EXCEPT !.refcnt = f[o].refcnt - 1]
    <3>1. u \in FblockRec
      <4>1. f[o].refcnt - 1 \in Int
        BY <1>1 DEF FblockRec
      <4> QED BY <1>1, <4>1 DEF FblockRec
    <3>2. t = [u EXCEPT !.state = s]
      BY <1>1 DEF FblockRec
    <3> HIDE DEF u, t
    <3> QED BY <1>2, <3>1, <3>2 DEF FblockRec
  <2> QED BY <2>1, <2>2
<1> HIDE DEF t
<1>5. \A q \in Fblock : f[q].refcnt \in Int /\ Kept(f[q], f[q])
  BY DEF Kept, Blocks, FblockRec
<1>6. Put(f, o)[o] = t /\ \A q \in Fblock : q # o => Put(f, o)[q] = f[q]
  BY <1>3 DEF Blocks
<1>7. Put(f, o) \in Blocks
  BY <1>3, <1>4 DEF Blocks
<1> QED BY <1>2, <1>4, <1>5, <1>6, <1>7

(* g is f after one reference to o is dropped. *)
PutOnce(f, o, g) ==
    /\ g \in Blocks
    /\ \A q \in Fblock : /\ Kept(g[q], f[q])
                         /\ q # o \/ f[o].refcnt # 1 => g[q].state = f[q].state
                         /\ g[q].refcnt = f[q].refcnt - (IF q = o THEN 1 ELSE 0)

(* put_fblock once. *)
LEMMA PutOnceFacts ==
    ASSUME NEW f \in Blocks, NEW o \in Fblock, NEW g, g = Put(f, o)
    PROVE  PutOnce(f, o, g)
BY PutFacts DEF PutOnce

(* Both blocks have a reference left when one for each end is dropped. *)
Spare(f, o, p) == \A q \in {o, p} : f[q].refcnt >= 1 + Ends(q, o, p)

(* h is f after one reference for each end is dropped. *)
Released(f, o, p, h) ==
    /\ h \in Blocks
    /\ \A q \in Fblock : Kept(h[q], f[q])
    /\ Spare(f, o, p) => \A q \in Fblock :
          Alike(h[q], f[q]) /\ h[q].refcnt = f[q].refcnt - Ends(q, o, p)

(* Dropping two references frees nothing while references are spare. *)
LEMMA Put2Facts ==
    ASSUME NEW f \in Blocks, NEW o \in Fblock, NEW p \in Fblock,
           NEW h, h = Put2(f, o, p)
    PROVE  Released(f, o, p, h)
<1> DEFINE g == Put(f, o)
<1>1. /\ g \in Blocks
      /\ \A q \in Fblock : /\ Kept(g[q], f[q])
                           /\ q # o \/ f[o].refcnt # 1 => g[q].state = f[q].state
                           /\ g[q].refcnt = f[q].refcnt - (IF q = o THEN 1 ELSE 0)
  BY PutFacts, Zenon
<1>2. h = Put(g, p)
  BY DEF Put2
<1> HIDE DEF g
<1>3. /\ h \in Blocks
      /\ \A q \in Fblock : /\ Kept(h[q], g[q])
                           /\ q # p \/ g[p].refcnt # 1 => h[q].state = g[q].state
                           /\ h[q].refcnt = g[q].refcnt - (IF q = p THEN 1 ELSE 0)
  <2>1. PutOnce(g, p, h)
    BY <1>1, <1>2, PutOnceFacts
  <2> QED BY <2>1 DEF PutOnce
<1>4. ASSUME Spare(f, o, p), NEW q \in Fblock
      PROVE  Alike(h[q], f[q]) /\ h[q].refcnt = f[q].refcnt - Ends(q, o, p)
  <2>1. f[q].refcnt \in Int /\ f[o].refcnt \in Int /\ f[p].refcnt \in Int
    BY DEF Blocks, FblockRec
  <2>2. f[o].refcnt # 1 /\ g[p].refcnt # 1
    BY <1>1, <1>4, <2>1 DEF Ends, Spare
  <2>3. Alike(h[q], f[q])
    BY <1>1, <1>3, <2>2 DEF Alike, Kept
  <2>4. h[q].refcnt = f[q].refcnt - Ends(q, o, p)
    BY <1>1, <1>3, <2>1 DEF Ends
  <2> QED BY <2>3, <2>4
<1>5. \A q \in Fblock : Kept(h[q], f[q])
  BY <1>1, <1>3 DEF Kept
<1> QED BY <1>3, <1>4, <1>5 DEF Released

-----------------------------------------------------------------------------
(* Ports *)

(* The number of bound ports, and of ports that hold the idp j. *)
NBound(port) == Cardinality({p \in Port : port[p] # IDP_UNKNOWN})
NTo(port, j) == Cardinality({p \in Port : port[p] = j})
PortMap == [Port -> 0 .. MaxIdp]

(* A set of ports is finite. *)
LEMMA PortFinite ==
    ASSUME NEW S, S \subseteq Port
    PROVE  IsFiniteSet(S) /\ Cardinality(S) \in Nat
<1>1. IsFiniteSet({"ingress"} \cup {"egress"} \cup {"clone"})
  <2>1. IsFiniteSet({"ingress"})
    BY FS_Singleton
  <2>2. IsFiniteSet({"ingress"} \cup {"egress"})
    BY <2>1, FS_AddElement
  <2> QED BY <2>2, FS_AddElement
<1>2. Port = {"ingress"} \cup {"egress"} \cup {"clone"}
  BY DEF Port
<1>3. IsFiniteSet(S)
  BY <1>1, <1>2, FS_Subset
<1> QED BY <1>3, FS_CardinalityType

(* No port is counted exactly when none is bound. *)
LEMMA PortCounts ==
    ASSUME NEW port \in PortMap
    PROVE  /\ NBound(port) \in Nat
           /\ \A j : NTo(port, j) \in Nat
           /\ NBound(port) = 0 <=> port = NoPorts
           /\ \A p \in Port : port[p] \in Idp => NTo(port, port[p]) >= 1
<1>1. NBound(port) \in Nat /\ \A j : NTo(port, j) \in Nat
  BY PortFinite DEF NBound, NTo
<1>2. NBound(port) = 0 <=> {p \in Port : port[p] # IDP_UNKNOWN} = {}
  BY PortFinite, FS_EmptySet DEF NBound
<1>3. {p \in Port : port[p] # IDP_UNKNOWN} = {} <=> \A p \in Port : port[p] = IDP_UNKNOWN
  OBVIOUS
<1>4. (\A p \in Port : port[p] = IDP_UNKNOWN) <=> port = NoPorts
  BY DEF PortMap, NoPorts
<1>5. ASSUME NEW p \in Port, port[p] \in Idp
      PROVE  NTo(port, port[p]) >= 1
  <2> DEFINE S == {r \in Port : port[r] = port[p]}
  <2>1. S # {} /\ S \subseteq Port /\ Cardinality(S) = NTo(port, port[p])
    BY DEF NTo
  <2> HIDE DEF S
  <2>2. IsFiniteSet(S) /\ Cardinality(S) \in Nat
    BY <2>1, PortFinite
  <2>3. Cardinality(S) # 0
    BY <2>1, <2>2, FS_EmptySet
  <2> QED BY <2>1, <2>2, <2>3
<1> QED BY <1>1, <1>2, <1>3, <1>4, <1>5

(* Setting an unbound port adds one to the counts. *)
LEMMA PortSetCounts ==
    ASSUME NEW port \in PortMap, NEW new \in PortMap, NEW p \in Port, NEW i \in Idp,
           port[p] = IDP_UNKNOWN, new[p] = i,
           \A r \in Port : r # p => new[r] = port[r]
    PROVE  /\ NBound(new) = NBound(port) + 1
           /\ \A j \in Idp : NTo(new, j) = NTo(port, j) + (IF j = i THEN 1 ELSE 0)
<1> USE IdpAssumption DEF Idp, IDP_UNKNOWN
<1> DEFINE S == {r \in Port : port[r] # IDP_UNKNOWN}
<1>1. {r \in Port : new[r] # IDP_UNKNOWN} = S \cup {p} /\ p \notin S /\ S \subseteq Port
  OBVIOUS
<1>2. NBound(new) = Cardinality(S \cup {p}) /\ NBound(port) = Cardinality(S)
  BY <1>1 DEF NBound
<1> HIDE DEF S
<1>3. NBound(new) = NBound(port) + 1
  BY <1>1, <1>2, PortFinite, FS_AddElement
<1>4. ASSUME NEW j \in Idp
      PROVE  NTo(new, j) = NTo(port, j) + (IF j = i THEN 1 ELSE 0)
  <2> DEFINE T == {r \in Port : port[r] = j}
  <2>1. CASE j = i
    <3>1. {r \in Port : new[r] = j} = T \cup {p} /\ p \notin T /\ T \subseteq Port
      BY <2>1
    <3>2. NTo(new, j) = Cardinality(T \cup {p}) /\ NTo(port, j) = Cardinality(T)
      BY <3>1 DEF NTo
    <3> HIDE DEF T
    <3> QED BY <2>1, <3>1, <3>2, PortFinite, FS_AddElement
  <2>2. CASE j # i
    <3>1. {r \in Port : new[r] = j} = T
      BY <2>2
    <3>2. NTo(port, j) \in Nat
      BY PortCounts
    <3> QED BY <2>2, <3>1, <3>2 DEF NTo
  <2> QED BY <2>1, <2>2
<1> QED BY <1>3, <1>4

(* The port a BIND event sets was unbound. *)
LEMMA PortToBindFacts ==
    ASSUME NEW f, NEW o, NEW dir \in {"ingress", "egress"},
           NEW r, r = PortToBind(f, o, dir)
    PROVE  \/ /\ r = NULL
              /\ f[o].port[dir] # IDP_UNKNOWN
           \/ /\ r \in Port /\ r # NULL
              /\ f[o].port[r] = IDP_UNKNOWN
              /\ r = dir \/ (r = "clone" /\ IsTee(f, o))
BY NullAssumption DEF PortToBind, Port

(* The port an UNBIND event clears held the idp. *)
LEMMA PortToUnbindFacts ==
    ASSUME NEW f, NEW o, NEW dir \in {"ingress", "egress"}, NEW i,
           NEW r, r = PortToUnbind(f, o, dir, i)
    PROVE  \/ /\ r = NULL
              /\ f[o].port[dir] # i
              /\ ~(IsTee(f, o) /\ f[o].port["clone"] = i)
           \/ /\ r \in Port /\ r # NULL
              /\ f[o].port[r] = i
              /\ r = dir \/ (r = "clone" /\ IsTee(f, o))
BY NullAssumption DEF PortToUnbind, Port

(* Everything but the count and the ports. *)
Rest(r, s) ==
    /\ r.state = s.state
    /\ r.idp = s.idp
    /\ r.name = s.name
    /\ r.factory = s.factory
    /\ r.notifiers = s.notifiers
    /\ r.others = s.others

(* The types of a block's fields. *)
LEMMA BlocksFields ==
    ASSUME NEW f \in Blocks, NEW o \in Fblock
    PROVE  /\ f[o] \in FblockRec
           /\ f[o].state \in {"free", "live", "rcu"}
           /\ f[o].refcnt \in Int
           /\ f[o].idp \in 0 .. MaxIdp
           /\ f[o].name \in Name \cup {NULL}
           /\ f[o].factory \in Type \cup {NULL}
           /\ f[o].port \in PortMap
           /\ f[o].notifiers \in Seq(Nb)
           /\ f[o].others \in SUBSET Nb
BY DEF Blocks, FblockRec, PortMap

(* Setting a port changes nothing else. *)
LEMMA SetPortFacts ==
    ASSUME NEW f \in Blocks, NEW o \in Fblock, NEW p \in Port, NEW i \in 0 .. MaxIdp,
           NEW g, g = SetPort(f, o, p, i)
    PROVE  /\ g \in Blocks
           /\ \A q \in Fblock :
                 /\ Rest(g[q], f[q])
                 /\ g[q].refcnt = f[q].refcnt
                 /\ q # o => g[q].port = f[q].port
           /\ g[o].port[p] = i
           /\ \A r \in Port : r # p => g[o].port[r] = f[o].port[r]
<1> DEFINE u == [f[o].port EXCEPT ![p] = i]
           t == [f[o] EXCEPT !.port = u]
<1>1. f[o] \in FblockRec /\ f[o].port \in PortMap
  BY BlocksFields
<1>2. u \in PortMap /\ u[p] = i /\ \A r \in Port : r # p => u[r] = f[o].port[r]
  BY <1>1 DEF PortMap
<1>3. g = [f EXCEPT ![o] = t]
  BY <1>1 DEF SetPort, FblockRec
<1> HIDE DEF u
<1>4. t \in FblockRec /\ Rest(t, f[o]) /\ t.refcnt = f[o].refcnt /\ t.port = u
  BY <1>1, <1>2 DEF FblockRec, PortMap, Rest
<1> HIDE DEF t
<1>5. \A q \in Fblock : Rest(f[q], f[q])
  BY DEF Rest
<1>6. g[o] = t /\ \A q \in Fblock : q # o => g[q] = f[q]
  BY <1>3 DEF Blocks
<1>7. g \in Blocks
  BY <1>3, <1>4 DEF Blocks
<1> QED BY <1>2, <1>4, <1>5, <1>6, <1>7

(* g is f with i in the port p of o. *)
PortPut(f, o, p, i, g) ==
    /\ g \in Blocks
    /\ \A q \in Fblock : /\ Rest(g[q], f[q])
                         /\ g[q].refcnt = f[q].refcnt
                         /\ q # o => g[q].port = f[q].port
    /\ g[o].port[p] = i
    /\ \A r \in Port : r # p => g[o].port[r] = f[o].port[r]

(* A port is set. *)
LEMMA PortPutFacts ==
    ASSUME NEW f \in Blocks, NEW o \in Fblock, NEW p \in Port, NEW i \in 0 .. MaxIdp,
           NEW g, g = SetPort(f, o, p, i)
    PROVE  PortPut(f, o, p, i, g)
BY SetPortFacts DEF PortPut

(* One at q = o, and at the port count of o for the idp i. *)
At(q, o) == IF q = o THEN 1 ELSE 0
AtTo(q, o, j, i) == IF q = o /\ j = i THEN 1 ELSE 0

(* Setting an unbound port, for all blocks at once. *)
LEMMA BindPort ==
    ASSUME NEW f \in Blocks, NEW o \in Fblock, NEW p \in Port, NEW i \in Idp,
           f[o].port[p] = IDP_UNKNOWN, NEW g, g = SetPort(f, o, p, i)
    PROVE  \A q \in Fblock :
              /\ NBound(g[q].port) = NBound(f[q].port) + At(q, o)
              /\ \A j \in Idp : NTo(g[q].port, j) = NTo(f[q].port, j) + AtTo(q, o, j, i)
<1> TAKE q \in Fblock
<1>0. i \in 0 .. MaxIdp
  BY IdpAssumption DEF Idp
<1>1. /\ g \in Blocks
      /\ q # o => g[q].port = f[q].port
      /\ g[o].port[p] = i
      /\ \A r \in Port : r # p => g[o].port[r] = f[o].port[r]
  BY <1>0, SetPortFacts
<1>2. f[q].port \in PortMap /\ f[o].port \in PortMap /\ g[o].port \in PortMap
  BY <1>1, BlocksFields
<1>3. NBound(f[q].port) \in Nat /\ \A j : NTo(f[q].port, j) \in Nat
  BY <1>2, PortCounts
<1>4. CASE q = o
  <2> DEFINE new == g[o].port
             port == f[o].port
  <2>1. /\ NBound(new) = NBound(port) + 1
        /\ \A j \in Idp : NTo(new, j) = NTo(port, j) + (IF j = i THEN 1 ELSE 0)
    BY <1>1, <1>2, PortSetCounts
  <2> QED BY <1>4, <2>1 DEF At, AtTo
<1>5. CASE q # o
  BY <1>1, <1>3, <1>5 DEF At, AtTo
<1> QED BY <1>4, <1>5

(* Clearing a bound port, for all blocks at once. *)
LEMMA ClearPort ==
    ASSUME NEW f \in Blocks, NEW o \in Fblock, NEW p \in Port, NEW i \in Idp,
           f[o].port[p] = i, NEW g, g = SetPort(f, o, p, IDP_UNKNOWN)
    PROVE  \A q \in Fblock :
              /\ NBound(g[q].port) = NBound(f[q].port) - At(q, o)
              /\ \A j \in Idp : NTo(g[q].port, j) = NTo(f[q].port, j) - AtTo(q, o, j, i)
<1> TAKE q \in Fblock
<1>0. IDP_UNKNOWN \in 0 .. MaxIdp
  BY IdpAssumption DEF IDP_UNKNOWN
<1>1. /\ g \in Blocks
      /\ q # o => g[q].port = f[q].port
      /\ g[o].port[p] = IDP_UNKNOWN
      /\ \A r \in Port : r # p => g[o].port[r] = f[o].port[r]
  BY <1>0, SetPortFacts
<1>2. f[q].port \in PortMap /\ f[o].port \in PortMap /\ g[o].port \in PortMap
  BY <1>1, BlocksFields
<1>3. /\ NBound(f[q].port) \in Nat /\ \A j : NTo(f[q].port, j) \in Nat
      /\ NBound(g[o].port) \in Nat /\ \A j : NTo(g[o].port, j) \in Nat
  BY <1>2, PortCounts
<1>4. CASE q = o
  <2> DEFINE port == g[o].port
             new == f[o].port
  <2>1. /\ NBound(new) = NBound(port) + 1
        /\ \A j \in Idp : NTo(new, j) = NTo(port, j) + (IF j = i THEN 1 ELSE 0)
    BY <1>1, <1>2, PortSetCounts
  <2> QED BY <1>3, <1>4, <2>1 DEF At, AtTo
<1>5. CASE q # o
  BY <1>1, <1>3, <1>5 DEF At, AtTo
<1> QED BY <1>4, <1>5

(* The ports after o1 was bound on top of o2, neither being a tee. *)
PlainPorts(f, g, o1, o2) ==
    \A q \in Fblock :
        /\ g[q].port["clone"] = f[q].port["clone"]
        /\ g[q].port["egress"] = IF q = o1 THEN f[o2].idp ELSE f[q].port["egress"]
        /\ g[q].port["ingress"] = IF q = o2 THEN f[o1].idp ELSE f[q].port["ingress"]

(* The ports after o1 was bound on top of o2. *)
PortsBound(f, g, o1, o2) ==
    /\ \A q \in Fblock :
          /\ NBound(g[q].port) = NBound(f[q].port) + Ends(q, o1, o2)
          /\ \A j \in Idp : NTo(g[q].port, j) = NTo(f[q].port, j)
                + AtTo(q, o1, j, f[o2].idp) + AtTo(q, o2, j, f[o1].idp)
    /\ ~IsTee(f, o1) /\ ~IsTee(f, o2) =>
          /\ f[o1].port["egress"] = IDP_UNKNOWN
          /\ f[o2].port["ingress"] = IDP_UNKNOWN
          /\ PlainPorts(f, g, o1, o2)

(* The ports after a bind that was refused: a tee may have given up        *)
(* another port with the same idp.                                         *)
PortsAsBefore(f, g) ==
    /\ \A q \in Fblock :
          /\ NBound(g[q].port) = NBound(f[q].port)
          /\ \A j \in Idp : NTo(g[q].port, j) = NTo(f[q].port, j)
    /\ (\A q \in Fblock : ~IsTee(f, q)) => \A q \in Fblock : g[q].port = f[q].port

(* What the first half of __fblock_bind leaves behind. *)
PortsChosen(f, o1, o2, ok, g) ==
    /\ g \in Blocks /\ ok \in BOOLEAN
    /\ \A q \in Fblock : Rest(g[q], f[q]) /\ g[q].refcnt = f[q].refcnt
    /\ ok => PortsBound(f, g, o1, o2)
    /\ ~ok => PortsAsBefore(f, g)

(* The first half of __fblock_bind sets one port at each end or none. *)
LEMMA PortsSetFacts ==
    ASSUME NEW f \in Blocks, NEW o1 \in Fblock, NEW o2 \in Fblock,
           f[o1].idp \in Idp, f[o2].idp \in Idp,
           NEW ok, ok = PortsSet(f, o1, o2).ok, NEW g, g = PortsSet(f, o1, o2).fb
    PROVE  PortsChosen(f, o1, o2, ok, g)
<1> USE DEF IDP_UNKNOWN
<1> DEFINE i1 == f[o1].idp
           i2 == f[o2].idp
           p1 == PortToBind(f, o1, "egress")
           f1 == SetPort(f, o1, p1, i2)
           p2 == PortToBind(f1, o2, "ingress")
           un == PortToUnbind(f1, o1, "egress", i2)
           gu == SetPort(f1, o1, un, IDP_UNKNOWN)
           gb == SetPort(f1, o2, p2, i1)
<1>0. /\ i1 \in 0 .. MaxIdp /\ i2 \in 0 .. MaxIdp /\ 0 \in 0 .. MaxIdp
      /\ i1 # 0 /\ i2 # 0
  BY IdpAssumption DEF Idp
<1>1. \/ p1 = NULL /\ f[o1].port["egress"] # 0
      \/ /\ p1 \in Port /\ p1 # NULL
         /\ f[o1].port[p1] = 0
         /\ p1 = "egress" \/ (p1 = "clone" /\ IsTee(f, o1))
  BY PortToBindFacts
<1>2. \/ p2 = NULL /\ f1[o2].port["ingress"] # 0
      \/ /\ p2 \in Port /\ p2 # NULL
         /\ f1[o2].port[p2] = 0
         /\ p2 = "ingress" \/ (p2 = "clone" /\ IsTee(f1, o2))
  BY PortToBindFacts
<1>3. \/ /\ un = NULL
         /\ f1[o1].port["egress"] # i2
         /\ ~(IsTee(f1, o1) /\ f1[o1].port["clone"] = i2)
      \/ /\ un \in Port /\ un # NULL
         /\ f1[o1].port[un] = i2
         /\ un = "egress" \/ (un = "clone" /\ IsTee(f1, o1))
  BY PortToUnbindFacts
<1>4. /\ p1 = NULL => ok = FALSE /\ g = f
      /\ p1 # NULL /\ p2 = NULL => ok = FALSE /\ g = gu
      /\ p1 # NULL /\ p2 # NULL => ok = TRUE /\ g = gb
  BY DEF PortsSet
<1>4a. f1 = SetPort(f, o1, p1, i2) /\ gu = SetPort(f1, o1, un, IDP_UNKNOWN)
       /\ gb = SetPort(f1, o2, p2, i1)
  OBVIOUS
<1>4b. i1 \in Idp /\ i2 \in Idp /\ i1 = f[o1].idp /\ i2 = f[o2].idp
  OBVIOUS
<1> HIDE DEF p1, f1, p2, un, gu, gb, i1, i2
<1>5. CASE p1 = NULL
  <2>1. ok = FALSE /\ g = f
    BY <1>4, <1>5
  <2>2. \A q \in Fblock : Rest(f[q], f[q])
    BY DEF Rest
  <2> QED BY <2>1, <2>2 DEF PortsChosen, PortsAsBefore
<1>6. CASE p1 # NULL
  <2>1. /\ p1 \in Port /\ f[o1].port[p1] = 0
        /\ p1 = "egress" \/ (p1 = "clone" /\ IsTee(f, o1))
    BY <1>1, <1>6
  <2>2. /\ f1 \in Blocks
        /\ \A q \in Fblock :
              /\ Rest(f1[q], f[q])
              /\ f1[q].refcnt = f[q].refcnt
              /\ q # o1 => f1[q].port = f[q].port
        /\ f1[o1].port[p1] = i2
        /\ \A r \in Port : r # p1 => f1[o1].port[r] = f[o1].port[r]
    <3>1. PortPut(f, o1, p1, i2, f1)
      BY <1>0, <1>4a, <2>1, PortPutFacts
    <3> QED BY <3>1 DEF PortPut
  <2>3. \A q \in Fblock :
           /\ NBound(f1[q].port) = NBound(f[q].port) + At(q, o1)
           /\ \A j \in Idp : NTo(f1[q].port, j) = NTo(f[q].port, j) + AtTo(q, o1, j, i2)
    BY <1>4a, <1>4b, <2>1, BindPort
  <2>4. \A q \in Fblock : /\ NBound(f[q].port) \in Nat
                          /\ \A j : NTo(f[q].port, j) \in Nat
    BY BlocksFields, PortCounts
  <2>5. IsTee(f1, o1) <=> IsTee(f, o1)
    BY <2>2 DEF IsTee, Rest
  <2>6. IsTee(f1, o2) <=> IsTee(f, o2)
    BY <2>2 DEF IsTee, Rest
  <2>7. CASE p2 = NULL
    <3>1. ok = FALSE /\ g = gu
      BY <1>4, <1>6, <2>7
    <3>2. /\ un \in Port /\ f1[o1].port[un] = i2
          /\ un = "egress" \/ (un = "clone" /\ IsTee(f, o1))
      BY <1>3, <2>1, <2>2, <2>5
    <3>3. /\ g \in Blocks
          /\ \A q \in Fblock :
                /\ Rest(g[q], f1[q])
                /\ g[q].refcnt = f1[q].refcnt
                /\ q # o1 => g[q].port = f1[q].port
          /\ g[o1].port[un] = IDP_UNKNOWN
          /\ \A r \in Port : r # un => g[o1].port[r] = f1[o1].port[r]
      <4>1. f1 \in Blocks /\ un \in Port /\ 0 \in 0 .. MaxIdp /\ g = SetPort(f1, o1, un, 0)
        BY <1>0, <1>4a, <2>2, <3>1, <3>2
      <4> QED BY <4>1, SetPortFacts
    <3>4. \A q \in Fblock :
             /\ NBound(g[q].port) = NBound(f1[q].port) - At(q, o1)
             /\ \A j \in Idp : NTo(g[q].port, j) = NTo(f1[q].port, j) - AtTo(q, o1, j, i2)
      BY <1>4a, <1>4b, <2>2, <3>1, <3>2, ClearPort
    <3>5. \A q \in Fblock : Rest(g[q], f[q]) /\ g[q].refcnt = f[q].refcnt
      BY <2>2, <3>3 DEF Rest
    <3>6. \A q \in Fblock : /\ NBound(g[q].port) = NBound(f[q].port)
                            /\ \A j \in Idp : NTo(g[q].port, j) = NTo(f[q].port, j)
      BY <2>3, <2>4, <3>4 DEF At, AtTo
    <3>7. ASSUME ~IsTee(f, o1), NEW q \in Fblock PROVE g[q].port = f[q].port
      <4>1. un = p1
        BY <2>1, <3>2, <3>7
      <4>2. \A r \in Port : g[q].port[r] = f[q].port[r]
        BY <2>1, <2>2, <3>3, <4>1
      <4>3. g[q].port \in PortMap /\ f[q].port \in PortMap
        BY <3>3, BlocksFields
      <4> QED BY <4>2, <4>3 DEF PortMap
    <3> QED BY <3>1, <3>3, <3>5, <3>6, <3>7 DEF PortsChosen, PortsAsBefore
  <2>8. CASE p2 # NULL
    <3>1. ok = TRUE /\ g = gb
      BY <1>4, <1>6, <2>8
    <3>2. /\ p2 \in Port /\ f1[o2].port[p2] = 0
          /\ p2 = "ingress" \/ (p2 = "clone" /\ IsTee(f, o2))
      BY <1>2, <2>6, <2>8
    <3>3. /\ g \in Blocks
          /\ \A q \in Fblock :
                /\ Rest(g[q], f1[q])
                /\ g[q].refcnt = f1[q].refcnt
                /\ q # o2 => g[q].port = f1[q].port
          /\ g[o2].port[p2] = i1
          /\ \A r \in Port : r # p2 => g[o2].port[r] = f1[o2].port[r]
      <4>1. f1 \in Blocks /\ p2 \in Port /\ i1 \in 0 .. MaxIdp /\ g = SetPort(f1, o2, p2, i1)
        BY <1>0, <1>4a, <2>2, <3>1, <3>2
      <4> QED BY <4>1, SetPortFacts
    <3>4. \A q \in Fblock :
             /\ NBound(g[q].port) = NBound(f1[q].port) + At(q, o2)
             /\ \A j \in Idp : NTo(g[q].port, j) = NTo(f1[q].port, j) + AtTo(q, o2, j, i1)
      BY <1>4a, <1>4b, <2>2, <3>1, <3>2, BindPort
    <3>5. \A q \in Fblock : Rest(g[q], f[q]) /\ g[q].refcnt = f[q].refcnt
      BY <2>2, <3>3 DEF Rest
    <3>6. \A q \in Fblock :
             /\ NBound(g[q].port) = NBound(f[q].port) + Ends(q, o1, o2)
             /\ \A j \in Idp : NTo(g[q].port, j) = NTo(f[q].port, j)
                       + AtTo(q, o1, j, i2) + AtTo(q, o2, j, i1)
      BY <2>3, <2>4, <3>4 DEF At, AtTo, Ends
    <3>7. ASSUME ~IsTee(f, o1), ~IsTee(f, o2)
          PROVE  /\ f[o1].port["egress"] = IDP_UNKNOWN
                 /\ f[o2].port["ingress"] = IDP_UNKNOWN
                 /\ PlainPorts(f, g, o1, o2)
      <4>1. p1 = "egress" /\ p2 = "ingress"
        BY <2>1, <3>2, <3>7
      <4>2. f[o1].port["egress"] = IDP_UNKNOWN /\ f[o2].port["ingress"] = IDP_UNKNOWN
        BY <2>1, <2>2, <3>2, <4>1 DEF Port
      <4>3. PlainPorts(f, g, o1, o2)
        BY <1>4b, <2>2, <3>3, <4>1 DEF PlainPorts, Port
      <4> QED BY <4>2, <4>3
    <3> QED BY <1>4b, <3>1, <3>3, <3>5, <3>6, <3>7 DEF PortsChosen, PortsBound
  <2> QED BY <2>7, <2>8
<1> QED BY <1>5, <1>6

-----------------------------------------------------------------------------
(* Lists of notifiers *)

(* The nodes of a list. *)
Elems(s) == {n \in Nb : Contains(s, n)}

(* No node is twice in the list. *)
Distinct(s) == \A i, j \in 1 .. Len(s) : s[i] = s[j] => i = j

(* The nodes of a list are the values at its positions. *)
LEMMA ElemsFacts ==
    ASSUME NEW s \in Seq(Nb)
    PROVE  /\ Elems(s) \subseteq Nb
           /\ \A i \in 1 .. Len(s) : s[i] \in Elems(s)
           /\ \A n \in Elems(s) : \E i \in 1 .. Len(s) : s[i] = n
           /\ Elems(s) = {} <=> s = <<>>
<1>1. \A i \in 1 .. Len(s) : s[i] \in Elems(s)
  BY DEF Elems, Contains
<1>2. \A n \in Elems(s) : \E i \in 1 .. Len(s) : s[i] = n
  BY DEF Elems, Contains
<1>3. s = <<>> => Elems(s) = {}
  BY <1>2
<1>4. s # <<>> => 1 \in 1 .. Len(s)
  OBVIOUS
<1>5. s # <<>> => Elems(s) # {}
  BY <1>1, <1>4
<1> QED BY <1>1, <1>2, <1>3, <1>5 DEF Elems

(* Putting a node at the head of a list. *)
LEMMA ElemsCons ==
    ASSUME NEW s \in Seq(Nb), NEW n \in Nb, NEW t, t = <<n>> \o s
    PROVE  /\ t \in Seq(Nb)
           /\ Elems(t) = Elems(s) \cup {n}
           /\ Distinct(s) /\ n \notin Elems(s) => Distinct(t)
<1>1. /\ t \in Seq(Nb) /\ Len(t) = Len(s) + 1 /\ t[1] = n
      /\ \A i \in 2 .. Len(t) : i - 1 \in 1 .. Len(s) /\ t[i] = s[i - 1]
      /\ \A i \in 1 .. Len(s) : i + 1 \in 1 .. Len(t) /\ t[i + 1] = s[i]
      /\ Len(s) \in Nat
  OBVIOUS
<1>2. Elems(t) \subseteq Elems(s) \cup {n}
  <2>1. ASSUME NEW k \in Elems(t), k # n PROVE k \in Elems(s)
    <3>1. PICK i \in 1 .. Len(t) : t[i] = k
      BY <1>1, ElemsFacts
    <3>2. i \in 2 .. Len(t)
      BY <1>1, <2>1, <3>1
    <3>3. i - 1 \in 1 .. Len(s) /\ s[i - 1] = k
      BY <1>1, <3>1, <3>2
    <3> QED BY <3>3, ElemsFacts
  <2> QED BY <2>1
<1>3. n \in Elems(t)
  <2>1. t \in Seq(Nb) /\ t[1] = n /\ 1 \in 1 .. Len(t)
    BY <1>1
  <2>2. \A i \in 1 .. Len(t) : t[i] \in Elems(t)
    BY <2>1, ElemsFacts
  <2> QED BY <2>1, <2>2
<1>4. Elems(s) \subseteq Elems(t)
  <2>1. ASSUME NEW k \in Elems(s) PROVE k \in Elems(t)
    <3>1. PICK i \in 1 .. Len(s) : s[i] = k
      BY ElemsFacts
    <3>2. i + 1 \in 1 .. Len(t) /\ t[i + 1] = k
      BY <1>1, <3>1
    <3> QED BY <1>1, <3>2, ElemsFacts
  <2> QED BY <2>1
<1>5. ASSUME Distinct(s), n \notin Elems(s) PROVE Distinct(t)
  <2>1. SUFFICES ASSUME NEW i \in 1 .. Len(t), NEW j \in 1 .. Len(t), t[i] = t[j]
                 PROVE  i = j
    BY DEF Distinct
  <2>2. \A k \in 2 .. Len(t) : t[k] # n
    BY <1>1, <1>5, ElemsFacts
  <2>3. CASE i = 1 \/ j = 1
    BY <1>1, <2>1, <2>2, <2>3
  <2>4. CASE i # 1 /\ j # 1
    <3>1. i - 1 \in 1 .. Len(s) /\ j - 1 \in 1 .. Len(s) /\ s[i - 1] = s[j - 1]
      BY <1>1, <2>1, <2>4
    <3>2. i - 1 = j - 1
      BY <1>5, <3>1 DEF Distinct
    <3> QED BY <3>2
  <2> QED BY <2>3, <2>4
<1> QED BY <1>1, <1>2, <1>3, <1>4, <1>5

(* Taking the node at a position off a list. *)
LEMMA ElemsRemove ==
    ASSUME NEW s \in Seq(Nb), NEW i \in 1 .. Len(s), NEW t, t = RemoveAt(s, i)
    PROVE  /\ t \in Seq(Nb)
           /\ Elems(t) \subseteq Elems(s)
           /\ Distinct(s) => Distinct(t) /\ Elems(t) = Elems(s) \ {s[i]}
<1> DEFINE a == SubSeq(s, 1, i - 1)
           b == SubSeq(s, i + 1, Len(s))
<1>0. Len(s) \in Nat
  OBVIOUS
<1>1. /\ a \in Seq(Nb) /\ Len(a) = i - 1
      /\ \A k \in 1 .. i - 1 : a[k] = s[k]
  BY <1>0
<1>2. /\ b \in Seq(Nb) /\ Len(b) = Len(s) - i
      /\ \A k \in 1 .. Len(s) - i : b[k] = s[k + i]
  BY <1>0
<1>3. t = a \o b
  BY DEF RemoveAt
<1> HIDE DEF a, b
<1>4. /\ t \in Seq(Nb) /\ Len(t) = Len(s) - 1
      /\ \A k \in 1 .. Len(t) : t[k] = IF k < i THEN s[k] ELSE s[k + 1]
  <2>1. t \in Seq(Nb) /\ Len(t) = Len(s) - 1
    BY <1>0, <1>1, <1>2, <1>3
  <2>2. \A k \in 1 .. Len(t) : t[k] = IF k <= Len(a) THEN a[k] ELSE b[k - Len(a)]
    BY <1>0, <1>1, <1>2, <1>3
  <2>3. ASSUME NEW k \in 1 .. Len(t) PROVE t[k] = IF k < i THEN s[k] ELSE s[k + 1]
    <3>1. CASE k < i
      BY <1>0, <1>1, <2>1, <2>2, <3>1
    <3>2. CASE ~(k < i)
      <4>1. k - Len(a) \in 1 .. Len(s) - i /\ (k - Len(a)) + i = k + 1
        BY <1>0, <1>1, <2>1, <3>2
      <4>2. t[k] = b[k - Len(a)]
        BY <1>0, <1>1, <2>1, <2>2, <3>2
      <4> QED BY <1>2, <3>2, <4>1, <4>2
    <3> QED BY <3>1, <3>2
  <2> QED BY <2>1, <2>3
<1>5. Elems(t) \subseteq Elems(s)
  <2>1. ASSUME NEW n \in Elems(t) PROVE n \in Elems(s)
    <3>1. PICK k \in 1 .. Len(t) : t[k] = n
      BY <1>4, ElemsFacts
    <3>2. CASE k < i
      BY <1>0, <1>4, <3>1, <3>2, ElemsFacts
    <3>3. CASE ~(k < i)
      <4>1. k + 1 \in 1 .. Len(s) /\ s[k + 1] = n
        BY <1>0, <1>4, <3>1, <3>3
      <4> QED BY <4>1, ElemsFacts
    <3> QED BY <3>2, <3>3
  <2> QED BY <2>1
<1>6. ASSUME Distinct(s) PROVE Distinct(t)
  <2>1. SUFFICES ASSUME NEW k \in 1 .. Len(t), NEW j \in 1 .. Len(t), t[k] = t[j]
                 PROVE  k = j
    BY DEF Distinct
  <2> DEFINE x == IF k < i THEN k ELSE k + 1
             y == IF j < i THEN j ELSE j + 1
  <2>2. x \in 1 .. Len(s) /\ y \in 1 .. Len(s) /\ s[x] = s[y]
    BY <1>0, <1>4, <2>1
  <2>3. x = y
    BY <1>6, <2>2 DEF Distinct
  <2> QED BY <2>3
<1>7. ASSUME Distinct(s) PROVE s[i] \notin Elems(t)
  <2>1. SUFFICES ASSUME s[i] \in Elems(t) PROVE FALSE
    OBVIOUS
  <2>2. PICK k \in 1 .. Len(t) : t[k] = s[i]
    BY <1>4, <2>1, ElemsFacts
  <2> DEFINE x == IF k < i THEN k ELSE k + 1
  <2>3. x \in 1 .. Len(s) /\ s[x] = s[i] /\ x # i
    BY <1>0, <1>4, <2>2
  <2> QED BY <1>7, <2>3 DEF Distinct
<1>8. Elems(s) \ {s[i]} \subseteq Elems(t)
  <2>1. SUFFICES ASSUME NEW n \in Elems(s), n # s[i] PROVE n \in Elems(t)
    OBVIOUS
  <2>2. PICK k \in 1 .. Len(s) : s[k] = n
    BY ElemsFacts
  <2> DEFINE x == IF k < i THEN k ELSE k - 1
  <2>3. x \in 1 .. Len(t) /\ t[x] = n
    BY <1>0, <1>4, <2>1, <2>2
  <2> QED BY <1>4, <2>3, ElemsFacts
<1> QED BY <1>4, <1>5, <1>6, <1>7, <1>8

(* The types of a node's fields. *)
LEMMA NodesFields ==
    ASSUME NEW nn \in Nodes, NEW n \in Nb
    PROVE  nn[n] \in NodeRec /\ nn[n].self \in Fblock \cup {NULL} /\ nn[n].remote \in 0 .. MaxIdp
BY DEF Nodes, NodeRec

(* A block's identity and ports. *)
Placed(r, s) ==
    /\ r.idp = s.idp
    /\ r.name = s.name
    /\ r.factory = s.factory
    /\ r.port = s.port

(* The node that is allocated was not in use. *)
LEMMA NewNodeFacts ==
    ASSUME NEW f, NEW nn \in Nodes, NEW m, m = [fb |-> f, fn |-> nn],
           UnusedNodes(m) # {}
    PROVE  NewNode(m) \in Nb /\ nn[NewNode(m)] = NoNode
<1>1. UnusedNodes(m) = {n \in Nb : nn[n] = NoNode}
  BY DEF UnusedNodes
<1>2. UnusedNodes(m) \subseteq Nat
  BY <1>1, NbAssumption
<1>3. NewNode(m) \in UnusedNodes(m)
  BY <1>2, Least DEF NewNode
<1> QED BY <1>1, <1>3

(* The memory after subscribe_to_remote_fblock with the new node n. *)
Subscribed(f, nn, us, remote, n, g, gn) ==
    /\ n \in Nb /\ nn[n] = NoNode
    /\ g \in Blocks
    /\ \A q \in Fblock :
          /\ Placed(g[q], f[q])
          /\ g[q].state = f[q].state
          /\ g[q].refcnt = f[q].refcnt + Ends(q, us, remote)
          /\ g[q].notifiers = IF q = us THEN <<n>> \o f[q].notifiers ELSE f[q].notifiers
          /\ g[q].others = IF q = remote THEN f[q].others \cup {n} ELSE f[q].others
    /\ gn \in Nodes
    /\ gn[n] = [self |-> us, remote |-> f[remote].idp]
    /\ \A k \in Nb : k # n => gn[k] = nn[k]

(* subscribe_to_remote_fblock. *)
LEMMA SubscribeFacts ==
    ASSUME NEW f \in Blocks, NEW nn \in Nodes, NEW m, m = [fb |-> f, fn |-> nn],
           UnusedNodes(m) # {}, NEW us \in Fblock, NEW remote \in Fblock,
           NEW n, n = NewNode(m),
           NEW g, g = Subscribe(m, us, remote).fb,
           NEW gn, gn = Subscribe(m, us, remote).fn
    PROVE  /\ Subscribe(m, us, remote) = [fb |-> g, fn |-> gn]
           /\ Subscribed(f, nn, us, remote, n, g, gn)
<1>1. n \in Nb /\ nn[n] = NoNode
  BY NewNodeFacts
<1> DEFINE h == Get2(f, us, remote)
           a == [h[us] EXCEPT !.notifiers = <<n>> \o h[us].notifiers]
           h1 == [h EXCEPT ![us] = a]
           b == [h1[remote] EXCEPT !.others = h1[remote].others \cup {n}]
           h2 == [h1 EXCEPT ![remote] = b]
           e == [self |-> us, remote |-> h[remote].idp]
<1>2. /\ h \in Blocks
      /\ \A q \in Fblock : /\ Alike(h[q], f[q])
                           /\ h[q].refcnt = f[q].refcnt + Ends(q, us, remote)
  BY Get2Facts
<1>3. Subscribe(m, us, remote) = [fb |-> g, fn |-> gn]
  BY DEF Subscribe
<1>4. g = [h EXCEPT ![us].notifiers = <<n>> \o @, ![remote].others = @ \cup {n}]
  BY DEF Subscribe
<1>5. gn = [nn EXCEPT ![n] = e]
  BY DEF Subscribe
<1> HIDE DEF h
<1>6. /\ h[us] \in FblockRec /\ h[us].notifiers \in Seq(Nb)
      /\ h[remote] \in FblockRec
  BY <1>2, BlocksFields
<1>7. /\ a \in FblockRec /\ Placed(a, h[us]) /\ a.state = h[us].state
      /\ a.refcnt = h[us].refcnt /\ a.others = h[us].others
      /\ a.notifiers = <<n>> \o h[us].notifiers
  <2>1. <<n>> \o h[us].notifiers \in Seq(Nb)
    BY <1>1, <1>6
  <2> QED BY <1>6, <2>1 DEF FblockRec, Placed
<1>8. h1 = [h EXCEPT ![us].notifiers = <<n>> \o @]
  BY <1>2, <1>6 DEF Blocks, FblockRec
<1>8a. g = [h1 EXCEPT ![remote].others = h[remote].others \cup {n}]
  BY <1>4, <1>8
<1> HIDE DEF a
<1>9. h1 \in Blocks /\ h1[us] = a /\ \A q \in Fblock : q # us => h1[q] = h[q]
  BY <1>2, <1>7 DEF Blocks
<1> HIDE DEF h1
<1>8b. g = h2
  <2>1. h1[remote].others = h[remote].others
    BY <1>7, <1>9
  <2> QED BY <1>8a, <1>9, <2>1 DEF Blocks, FblockRec
<1>10. h1[remote] \in FblockRec /\ h1[remote].others \in SUBSET Nb
  BY <1>9, BlocksFields
<1>11. /\ b \in FblockRec /\ Placed(b, h1[remote]) /\ b.state = h1[remote].state
       /\ b.refcnt = h1[remote].refcnt /\ b.others = h1[remote].others \cup {n}
       /\ b.notifiers = h1[remote].notifiers
  BY <1>1, <1>10 DEF FblockRec, Placed
<1> HIDE DEF b
<1>12. g \in Blocks /\ g[remote] = b /\ \A q \in Fblock : q # remote => g[q] = h1[q]
  BY <1>8b, <1>9, <1>11 DEF Blocks
<1>13. ASSUME NEW q \in Fblock
       PROVE  /\ Placed(g[q], f[q])
              /\ g[q].state = f[q].state
              /\ g[q].refcnt = f[q].refcnt + Ends(q, us, remote)
              /\ g[q].notifiers = IF q = us THEN <<n>> \o f[q].notifiers ELSE f[q].notifiers
              /\ g[q].others = IF q = remote THEN f[q].others \cup {n} ELSE f[q].others
  <2>1. /\ Placed(h1[q], h[q]) /\ h1[q].state = h[q].state
        /\ h1[q].refcnt = h[q].refcnt /\ h1[q].others = h[q].others
        /\ h1[q].notifiers = IF q = us THEN <<n>> \o h[q].notifiers ELSE h[q].notifiers
    BY <1>7, <1>9 DEF Placed
  <2>2. /\ Placed(g[q], h1[q]) /\ g[q].state = h1[q].state
        /\ g[q].refcnt = h1[q].refcnt /\ g[q].notifiers = h1[q].notifiers
        /\ g[q].others = IF q = remote THEN h1[q].others \cup {n} ELSE h1[q].others
    BY <1>11, <1>12 DEF Placed
  <2>3. Alike(h[q], f[q]) /\ h[q].refcnt = f[q].refcnt + Ends(q, us, remote)
    BY <1>2
  <2>4. /\ Placed(h[q], f[q]) /\ h[q].state = f[q].state
        /\ h[q].notifiers = f[q].notifiers /\ h[q].others = f[q].others
    BY <2>3 DEF Placed, Alike, Kept
  <2>5. Placed(g[q], f[q])
    BY <2>1, <2>2, <2>4 DEF Placed
  <2>6. g[q].state = f[q].state /\ g[q].refcnt = f[q].refcnt + Ends(q, us, remote)
    BY <2>1, <2>2, <2>3, <2>4
  <2>7. g[q].notifiers = IF q = us THEN <<n>> \o f[q].notifiers ELSE f[q].notifiers
    BY <2>1, <2>2, <2>4
  <2>8. g[q].others = IF q = remote THEN f[q].others \cup {n} ELSE f[q].others
    BY <2>1, <2>2, <2>4
  <2> QED BY <2>5, <2>6, <2>7, <2>8
<1>14. e \in NodeRec /\ e = [self |-> us, remote |-> f[remote].idp]
  <2>1. h[remote].idp = f[remote].idp /\ f[remote].idp \in 0 .. MaxIdp
    BY <1>2, BlocksFields DEF Alike, Kept
  <2> QED BY <2>1 DEF NodeRec
<1> HIDE DEF e
<1>15. gn \in Nodes /\ gn[n] = e /\ \A k \in Nb : k # n => gn[k] = nn[k]
  BY <1>1, <1>5, <1>14 DEF Nodes
<1> QED BY <1>1, <1>3, <1>12, <1>13, <1>14, <1>15 DEF Subscribed

(* The node x for the remote block is off the list of us. *)
Taken(f, nn, us, remote, g, gn, x) ==
    /\ x \in Elems(f[us].notifiers)
    /\ nn[x].remote = f[remote].idp
    /\ Distinct(g[us].notifiers)
    /\ Elems(g[us].notifiers) = Elems(f[us].notifiers) \ {x}
    /\ \A q \in Fblock : f[q].others \ {x} \subseteq g[q].others
    /\ \A k \in Nb : k # x => gn[k] = nn[k]

(* The memory after unsubscribe_from_remote_fblock: when there is a node   *)
(* for the remote block, one such node is taken off the list.              *)
Unsubscribed(f, nn, us, remote, g, gn) ==
    /\ g \in Blocks /\ gn \in Nodes
    /\ \A q \in Fblock :
          /\ Placed(g[q], f[q])
          /\ q # us => g[q].notifiers = f[q].notifiers
    /\ Spare(f, us, remote) =>
          \A q \in Fblock :
             /\ g[q].state = f[q].state
             /\ g[q].refcnt = f[q].refcnt
                   - (IF f[us].notifiers = <<>> THEN 0 ELSE Ends(q, us, remote))
    /\ (/\ Distinct(f[us].notifiers)
        /\ \E y \in Elems(f[us].notifiers) : nn[y].remote = f[remote].idp)
       => \E x : Taken(f, nn, us, remote, g, gn, x)

(* unsubscribe_from_remote_fblock, in all its four cases. *)
LEMMA UnsubscribeFacts ==
    ASSUME NEW f \in Blocks, NEW nn \in Nodes, NEW m, m = [fb |-> f, fn |-> nn],
           NEW us \in Fblock, NEW remote \in Fblock,
           NEW g, g = Unsubscribe(m, us, remote).fb,
           NEW gn, gn = Unsubscribe(m, us, remote).fn
    PROVE  /\ Unsubscribe(m, us, remote) = [fb |-> g, fn |-> gn]
           /\ Unsubscribed(f, nn, us, remote, g, gn)
<1> DEFINE list  == f[us].notifiers
           found == NodesFor(m, us, remote)
           i     == CHOOSE k \in found : \A j \in found : k <= j
           t     == [f[us] EXCEPT !.notifiers = RemoveAt(list, i)]
           cut   == [f EXCEPT ![us] = t]
           u     == [cut[remote] EXCEPT !.others = cut[remote].others \ {list[i]}]
           cut2  == [cut EXCEPT ![remote] = u]
           node2 == [nn EXCEPT ![list[i]] = NoNode]
<1>1. /\ f[us] \in FblockRec /\ list \in Seq(Nb)
      /\ \A q \in Fblock : f[q].refcnt \in Int /\ Placed(f[q], f[q])
  BY BlocksFields DEF Placed
<1>2. found = {k \in 1 .. Len(list) : nn[list[k]].remote = f[remote].idp}
  BY <1>1 DEF NodesFor
<1>3. found # {} => i \in found
  <2>1. found \subseteq Nat
    BY <1>2
  <2> QED BY <2>1, Least
<1>4. cut = [m.fb EXCEPT ![us].notifiers = RemoveAt(list, i)]
  BY <1>1 DEF Blocks, FblockRec
<1>5. /\ list = <<>> => g = f /\ gn = nn
      /\ list # <<>> /\ found = {} => g = Put2(f, us, remote) /\ gn = nn
      /\ list # <<>> /\ found # {} /\ i = 1 => g = Put2(cut, us, remote) /\ gn = nn
      /\ list # <<>> /\ found # {} /\ i # 1 =>
            g = Put2([cut EXCEPT ![remote].others = @ \ {list[i]}], us, remote) /\ gn = node2
      /\ Unsubscribe(m, us, remote) = [fb |-> g, fn |-> gn]
  BY <1>4 DEF Unsubscribe
<1> HIDE DEF i, found
<1>6. CASE list = <<>>
  <2>1. g = f /\ gn = nn
    BY <1>5, <1>6
  <2>2. Elems(list) = {}
    BY <1>1, <1>6, ElemsFacts
  <2> QED BY <1>1, <1>5, <1>6, <2>1, <2>2 DEF Unsubscribed
<1>7. CASE list # <<>> /\ found = {}
  <2>1. g = Put2(f, us, remote) /\ gn = nn
    BY <1>5, <1>7
  <2>2. /\ g \in Blocks
        /\ \A q \in Fblock : Kept(g[q], f[q])
        /\ Spare(f, us, remote) => \A q \in Fblock :
              Alike(g[q], f[q]) /\ g[q].refcnt = f[q].refcnt - Ends(q, us, remote)
    <3>1. Released(f, us, remote, g)
      BY <2>1, Put2Facts
    <3> QED BY <3>1 DEF Released
  <2>3. ~ \E y \in Elems(list) : nn[y].remote = f[remote].idp
    BY <1>1, <1>2, <1>7, ElemsFacts
  <2> QED BY <1>5, <1>7, <2>1, <2>2, <2>3 DEF Kept, Alike, Placed, Unsubscribed
<1>8. CASE list # <<>> /\ found # {}
  <2>1. i \in 1 .. Len(list) /\ nn[list[i]].remote = f[remote].idp /\ list[i] \in Nb
    BY <1>1, <1>2, <1>3, <1>8
  <2> DEFINE s == RemoveAt(list, i)
             x == list[i]
  <2>2. /\ s \in Seq(Nb) /\ x \in Elems(list)
        /\ Distinct(list) => Distinct(s) /\ Elems(s) = Elems(list) \ {x}
    <3>1. s = RemoveAt(list, i) /\ i \in 1 .. Len(list) /\ list \in Seq(Nb)
      BY <1>1, <2>1
    <3> HIDE DEF s, list
    <3>2. /\ s \in Seq(Nb)
          /\ Distinct(list) => Distinct(s) /\ Elems(s) = Elems(list) \ {x}
      BY <3>1, ElemsRemove, Zenon
    <3>3. x \in Elems(list)
      BY <3>1, ElemsFacts
    <3> QED BY <3>2, <3>3
  <2> HIDE DEF s
  <2>3. /\ t \in FblockRec /\ Rest(t, [f[us] EXCEPT !.notifiers = s])
        /\ Placed(t, f[us]) /\ t.state = f[us].state /\ t.refcnt = f[us].refcnt
        /\ t.others = f[us].others /\ t.notifiers = s
    <3>1. t = [f[us] EXCEPT !.notifiers = s]
      BY DEF s
    <3> HIDE DEF t
    <3> QED BY <1>1, <2>2, <3>1 DEF FblockRec, Placed, Rest
  <2> HIDE DEF t
  <2>4. cut \in Blocks /\ cut[us] = t /\ \A q \in Fblock : q # us => cut[q] = f[q]
    BY <2>3 DEF Blocks
  <2> HIDE DEF cut
  <2>5. \A q \in Fblock : /\ Placed(cut[q], f[q]) /\ cut[q].state = f[q].state
                          /\ cut[q].refcnt = f[q].refcnt /\ cut[q].others = f[q].others
                          /\ cut[q].notifiers = IF q = us THEN s ELSE f[q].notifiers
    BY <2>3, <2>4 DEF Placed
  <2>6. ASSUME NEW c \in Blocks, g = Put2(c, us, remote),
               \A q \in Fblock : /\ Placed(c[q], f[q]) /\ c[q].state = f[q].state
                          /\ c[q].refcnt = f[q].refcnt /\ f[q].others \ {x} \subseteq c[q].others
                          /\ c[q].notifiers = IF q = us THEN s ELSE f[q].notifiers,
               gn \in Nodes, \A k \in Nb : k # x => gn[k] = nn[k]
        PROVE  Unsubscribed(f, nn, us, remote, g, gn)
    <3>1. /\ g \in Blocks
          /\ \A q \in Fblock : Kept(g[q], c[q])
          /\ Spare(c, us, remote) => \A q \in Fblock :
                Alike(g[q], c[q]) /\ g[q].refcnt = c[q].refcnt - Ends(q, us, remote)
      <4>1. Released(c, us, remote, g)
        BY <2>6, Put2Facts
      <4> QED BY <4>1 DEF Released
    <3>2. Spare(f, us, remote) => Spare(c, us, remote)
      BY <2>6 DEF Spare
    <3>3. \A q \in Fblock : /\ Placed(g[q], f[q])
                            /\ q # us => g[q].notifiers = f[q].notifiers
                            /\ f[q].others \ {x} \subseteq g[q].others
      BY <2>6, <3>1 DEF Kept, Placed
    <3>4. g[us].notifiers = s
      BY <2>6, <3>1 DEF Kept
    <3>5. Spare(f, us, remote) => \A q \in Fblock :
             /\ g[q].state = f[q].state
             /\ g[q].refcnt = f[q].refcnt - Ends(q, us, remote)
      BY <2>6, <3>1, <3>2 DEF Alike
    <3>6. Distinct(list) => Taken(f, nn, us, remote, g, gn, x)
      BY <2>1, <2>2, <2>6, <3>3, <3>4 DEF Taken
    <3> QED BY <1>8, <2>6, <3>1, <3>3, <3>5, <3>6 DEF Unsubscribed
  <2>7. CASE i = 1
    <3>1. g = Put2(cut, us, remote) /\ gn = nn
      BY <1>5, <1>8, <2>7
    <3> QED BY <1>5, <2>4, <2>5, <2>6, <3>1
  <2>8. CASE i # 1
    <3>1. g = Put2([cut EXCEPT ![remote].others = @ \ {x}], us, remote) /\ gn = node2
      BY <1>5, <1>8, <2>8
    <3>2. cut[remote] \in FblockRec /\ cut[remote].others \in SUBSET Nb
      BY <2>4, BlocksFields
    <3>3. cut2 = [cut EXCEPT ![remote].others = @ \ {x}]
      BY <2>4, <3>2 DEF Blocks, FblockRec
    <3>4. u \in FblockRec /\ Placed(u, cut[remote]) /\ u.state = cut[remote].state
          /\ u.refcnt = cut[remote].refcnt /\ u.others = cut[remote].others \ {x}
          /\ u.notifiers = cut[remote].notifiers
      BY <3>2 DEF FblockRec, Placed
    <3> HIDE DEF u
    <3>5. cut2 \in Blocks /\ cut2[remote] = u /\ \A q \in Fblock : q # remote => cut2[q] = cut[q]
      BY <2>4, <3>4 DEF Blocks
    <3>6. g = Put2(cut2, us, remote)
      BY <3>1, <3>3
    <3> HIDE DEF cut2
    <3>7. \A q \in Fblock : /\ Placed(cut2[q], f[q]) /\ cut2[q].state = f[q].state
                          /\ cut2[q].refcnt = f[q].refcnt /\ f[q].others \ {x} \subseteq cut2[q].others
                          /\ cut2[q].notifiers = IF q = us THEN s ELSE f[q].notifiers
      BY <2>5, <3>4, <3>5 DEF Placed
    <3>8. NoNode \in NodeRec
      BY IdpAssumption DEF NoNode, NodeRec, IDP_UNKNOWN
    <3>9. gn \in Nodes /\ \A k \in Nb : k # x => gn[k] = nn[k]
      BY <2>1, <3>1, <3>8 DEF Nodes
    <3> QED BY <1>5, <2>6, <3>5, <3>6, <3>7, <3>9
  <2> QED BY <1>5, <2>7, <2>8
<1> QED BY <1>6, <1>7, <1>8

(* Every list has its nodes once, and they point back to its owner. *)
Lists(f, nn) ==
    \A q \in Fblock :
        /\ Distinct(f[q].notifiers)
        /\ \A n \in Elems(f[q].notifiers) : nn[n].self = q

(* The nodes in the list of q that name j, and those of any list. *)
ToIn(f, nn, q, j) == {n \in Elems(f[q].notifiers) : nn[n].remote = j}
NamingIn(f, nn, j) ==
    {n \in Nb : nn[n].remote = j /\ \E q \in Fblock : n \in Elems(f[q].notifiers)}

(* The numbers of those nodes. *)
NListed(f, q) == Cardinality(Elems(f[q].notifiers))
NNodes(f, nn, q, j) == Cardinality(ToIn(f, nn, q, j))
NNaming(f, nn, j) == Cardinality(NamingIn(f, nn, j))

(* A listed node is in the chain of the block that has its remote idp. *)
Delivered(f, nn, map) ==
    \A q \in Fblock : \A n \in Elems(f[q].notifiers) :
        /\ map[nn[n].remote] \in Fblock
        /\ n \in f[map[nn[n].remote]].others

(* A set of nodes is finite. *)
LEMMA NodesFinite ==
    ASSUME NEW S, S \subseteq Nb
    PROVE  IsFiniteSet(S) /\ Cardinality(S) \in Nat
BY NbAssumption, FS_Subset, FS_CardinalityType

(* The numbers of nodes are naturals, and 0 only of no nodes. *)
LEMMA NodeCounts ==
    ASSUME NEW f, NEW nn, NEW q
    PROVE  /\ NListed(f, q) \in Nat
           /\ \A j : NNodes(f, nn, q, j) \in Nat /\ NNaming(f, nn, j) \in Nat
           /\ NListed(f, q) = 0 => Elems(f[q].notifiers) = {}
           /\ \A j : NNodes(f, nn, q, j) = 0 => ToIn(f, nn, q, j) = {}
           /\ \A j : NNaming(f, nn, j) = 0 => NamingIn(f, nn, j) = {}
<1>1. /\ Elems(f[q].notifiers) \subseteq Nb
      /\ \A j : ToIn(f, nn, q, j) \subseteq Nb
      /\ \A j : NamingIn(f, nn, j) \subseteq Nb
  BY DEF Elems, ToIn, NamingIn
<1> QED BY <1>1, NodesFinite, FS_EmptySet DEF NListed, NNodes, NNaming

(* There is one node more: in the list of us, for the idp j. *)
CountUp(f, nn, g, gn, us, j) ==
    /\ \A q \in Fblock :
          /\ NListed(g, q) = NListed(f, q) + At(q, us)
          /\ \A k : NNodes(g, gn, q, k) = NNodes(f, nn, q, k) + AtTo(q, us, k, j)
    /\ \A k : NNaming(g, gn, k) = NNaming(f, nn, k) + At(k, j)

(* The list of us has the node n besides, which names j. *)
NodeAdded(f, nn, g, gn, us, j, n) ==
    /\ n \in Nb
    /\ \A q \in Fblock : n \notin Elems(f[q].notifiers)
    /\ Elems(g[us].notifiers) = Elems(f[us].notifiers) \cup {n}
    /\ \A q \in Fblock : q # us => Elems(g[q].notifiers) = Elems(f[q].notifiers)
    /\ gn[n].remote = j
    /\ \A k \in Nb : k # n => gn[k] = nn[k]

(* One node more in the list is one more in the counts. *)
LEMMA AddedCount ==
    ASSUME NEW f, NEW nn, NEW g, NEW gn, NEW us \in Fblock, NEW j, NEW n,
           NodeAdded(f, nn, g, gn, us, j, n)
    PROVE  CountUp(f, nn, g, gn, us, j)
<1> USE DEF NodeAdded
<1>0. \A q \in Fblock : Elems(f[q].notifiers) \subseteq Nb
  BY DEF Elems
<1>1. ASSUME NEW q \in Fblock PROVE NListed(g, q) = NListed(f, q) + At(q, us)
  <2>1. NListed(f, q) \in Nat
    BY NodeCounts
  <2>2. CASE q = us
    BY <2>2, <1>0, NodesFinite, FS_AddElement DEF NListed, At
  <2>3. CASE q # us
    BY <2>1, <2>3 DEF NListed, At
  <2> QED BY <2>2, <2>3
<1>2. ASSUME NEW q \in Fblock, NEW k
      PROVE  NNodes(g, gn, q, k) = NNodes(f, nn, q, k) + AtTo(q, us, k, j)
  <2>1. NNodes(f, nn, q, k) \in Nat
    BY NodeCounts
  <2>2. CASE q = us /\ k = j
    <3>1. /\ ToIn(g, gn, q, k) = ToIn(f, nn, q, k) \cup {n}
          /\ n \notin ToIn(f, nn, q, k) /\ ToIn(f, nn, q, k) \subseteq Nb
      BY <1>0, <2>2 DEF ToIn
    <3> QED BY <2>2, <3>1, NodesFinite, FS_AddElement DEF NNodes, AtTo
  <2>3. CASE ~(q = us /\ k = j)
    <3>1. ToIn(g, gn, q, k) = ToIn(f, nn, q, k)
      <4>1. CASE q # us
        BY <1>0, <4>1 DEF ToIn
      <4>2. CASE q = us
        <5>1. k # j
          BY <2>3, <4>2
        <5> QED BY <1>0, <4>2, <5>1 DEF ToIn
      <4> QED BY <4>1, <4>2
    <3> QED BY <2>1, <2>3, <3>1 DEF NNodes, AtTo
  <2> QED BY <2>2, <2>3
<1>3. ASSUME NEW k PROVE NNaming(g, gn, k) = NNaming(f, nn, k) + At(k, j)
  <2>1. NNaming(f, nn, k) \in Nat
    BY NodeCounts
  <2>2. \A x \in Nb : (\E q \in Fblock : x \in Elems(g[q].notifiers))
                        <=> x = n \/ \E q \in Fblock : x \in Elems(f[q].notifiers)
    OBVIOUS
  <2>3. CASE k = j
    <3>1. /\ NamingIn(g, gn, k) = NamingIn(f, nn, k) \cup {n}
          /\ n \notin NamingIn(f, nn, k) /\ NamingIn(f, nn, k) \subseteq Nb
      BY <2>2, <2>3 DEF NamingIn
    <3> QED BY <2>3, <3>1, NodesFinite, FS_AddElement DEF NNaming, At
  <2>4. CASE k # j
    <3>1. NamingIn(g, gn, k) = NamingIn(f, nn, k)
      BY <2>2, <2>4 DEF NamingIn
    <3> QED BY <2>1, <2>4, <3>1 DEF NNaming, At
  <2> QED BY <2>3, <2>4
<1> QED BY <1>1, <1>2, <1>3 DEF CountUp

(* What a subscription does to the lists, the counts and the deliveries. *)
ListsUp(f, nn, us, remote, g, gn) ==
    /\ Lists(g, gn)
    /\ CountUp(f, nn, g, gn, us, f[remote].idp)
    /\ \A map : map[f[remote].idp] = remote /\ Delivered(f, nn, map)
                   => Delivered(g, gn, map)

(* subscribe_to_remote_fblock keeps the lists in order. *)
LEMMA SubscribeNodes ==
    ASSUME NEW f \in Blocks, NEW nn \in Nodes, NEW us \in Fblock, NEW remote \in Fblock,
           NEW n, NEW g, NEW gn, Subscribed(f, nn, us, remote, n, g, gn), Lists(f, nn)
    PROVE  ListsUp(f, nn, us, remote, g, gn)
<1> DEFINE j == f[remote].idp
<1>1. /\ n \in Nb /\ nn[n] = NoNode
      /\ \A q \in Fblock :
            /\ g[q].notifiers = IF q = us THEN <<n>> \o f[q].notifiers ELSE f[q].notifiers
            /\ g[q].others = IF q = remote THEN f[q].others \cup {n} ELSE f[q].others
      /\ gn[n] = [self |-> us, remote |-> j]
      /\ \A k \in Nb : k # n => gn[k] = nn[k]
  BY DEF Subscribed
<1>2. ASSUME NEW q \in Fblock, n \in Elems(f[q].notifiers) PROVE FALSE
  BY <1>1, <1>2, NullAssumption DEF Lists, NoNode
<1>3. f[us].notifiers \in Seq(Nb)
  BY BlocksFields
<1>4. /\ Elems(g[us].notifiers) = Elems(f[us].notifiers) \cup {n}
      /\ Distinct(g[us].notifiers)
  <2>1. g[us].notifiers = <<n>> \o f[us].notifiers
    BY <1>1
  <2>2. Distinct(f[us].notifiers) /\ n \notin Elems(f[us].notifiers)
    BY <1>2 DEF Lists
  <2> QED BY <1>1, <1>3, <2>1, <2>2, ElemsCons
<1>5. \A q \in Fblock : q # us => g[q].notifiers = f[q].notifiers
  BY <1>1
<1>6. NodeAdded(f, nn, g, gn, us, j, n)
  BY <1>1, <1>2, <1>4, <1>5 DEF NodeAdded
<1>7. Lists(g, gn)
  <2>1. ASSUME NEW q \in Fblock
        PROVE  Distinct(g[q].notifiers) /\ \A k \in Elems(g[q].notifiers) : gn[k].self = q
    <3>1. \A k \in Elems(f[q].notifiers) : k # n /\ gn[k] = nn[k] /\ nn[k].self = q
      BY <1>1, <1>2 DEF Lists, Elems
    <3>2. Distinct(f[q].notifiers) /\ gn[n].self = us
      BY <1>1 DEF Lists
    <3> QED BY <1>4, <1>5, <3>1, <3>2
  <2> QED BY <2>1 DEF Lists
<1>8. ASSUME NEW map, map[j] = remote, Delivered(f, nn, map)
      PROVE  Delivered(g, gn, map)
  <2>1. SUFFICES ASSUME NEW q \in Fblock, NEW k \in Elems(g[q].notifiers)
                 PROVE  map[gn[k].remote] \in Fblock /\ k \in g[map[gn[k].remote]].others
    BY DEF Delivered
  <2>2. CASE k = n
    <3>1. gn[k].remote = j
      BY <1>1, <2>2
    <3>2. n \in g[remote].others
      BY <1>1
    <3> QED BY <1>8, <2>2, <3>1, <3>2
  <2>3. CASE k # n
    <3>1. k \in Elems(f[q].notifiers) /\ gn[k] = nn[k]
      BY <1>1, <1>4, <1>5, <2>1, <2>3 DEF Elems
    <3>2. map[nn[k].remote] \in Fblock /\ k \in f[map[nn[k].remote]].others
      BY <1>8, <3>1 DEF Delivered
    <3>3. \A o \in Fblock : k \in f[o].others => k \in g[o].others
      BY <1>1
    <3> QED BY <3>1, <3>2, <3>3
  <2> QED BY <2>2, <2>3
<1>9. CountUp(f, nn, g, gn, us, j)
  BY <1>6, AddedCount
<1> QED BY <1>7, <1>8, <1>9 DEF ListsUp

(* Taking one node off a list keeps the lists in order; what remains is    *)
(* still delivered.                                                        *)
LEMMA TakenNodes ==
    ASSUME NEW f, NEW nn, NEW us \in Fblock, NEW remote,
           NEW g, NEW gn, NEW x, Taken(f, nn, us, remote, g, gn, x), Lists(f, nn),
           \A q \in Fblock : q # us => g[q].notifiers = f[q].notifiers
    PROVE  /\ Lists(g, gn)
           /\ CountUp(g, gn, f, nn, us, f[remote].idp)
           /\ \A map : Delivered(f, nn, map) => Delivered(g, gn, map)
<1> USE DEF Taken
<1>1. ASSUME NEW q \in Fblock PROVE x \notin Elems(g[q].notifiers)
  <2>1. q # us => x \notin Elems(f[q].notifiers)
    BY DEF Lists
  <2> QED BY <2>1
<1>2. \A q \in Fblock : Elems(g[q].notifiers) \subseteq Elems(f[q].notifiers)
  OBVIOUS
<1>3. x \in Nb
  BY DEF Elems
<1>4. NodeAdded(g, gn, f, nn, us, f[remote].idp, x)
  BY <1>1, <1>3 DEF NodeAdded
<1>5. ASSUME NEW q \in Fblock, NEW k \in Elems(g[q].notifiers)
      PROVE  k \in Elems(f[q].notifiers) /\ k # x /\ gn[k] = nn[k]
  BY <1>1, <1>2 DEF Elems
<1>6. Lists(g, gn)
  BY <1>5 DEF Lists
<1>7. ASSUME NEW map, Delivered(f, nn, map) PROVE Delivered(g, gn, map)
  <2>1. SUFFICES ASSUME NEW q \in Fblock, NEW k \in Elems(g[q].notifiers)
                 PROVE  map[gn[k].remote] \in Fblock /\ k \in g[map[gn[k].remote]].others
    BY DEF Delivered
  <2>2. map[nn[k].remote] \in Fblock /\ k \in f[map[nn[k].remote]].others
    BY <1>5, <1>7 DEF Delivered
  <2> QED BY <1>5, <2>2
<1> QED BY <1>4, <1>6, <1>7, AddedCount

(* The lists and what they name are as before. *)
ListsSame(f, nn, g, gn) ==
    /\ Lists(f, nn) => Lists(g, gn)
    /\ \A q \in Fblock : NListed(g, q) = NListed(f, q)
    /\ \A q \in Fblock : \A j : NNodes(g, gn, q, j) = NNodes(f, nn, q, j)
    /\ \A j : NNaming(g, gn, j) = NNaming(f, nn, j)
    /\ \A map : (/\ Delivered(f, nn, map)
                 /\ \A q \in Fblock : f[q].others \subseteq g[q].others)
                => Delivered(g, gn, map)

(* Lists that are unchanged are counted and delivered as before. *)
LEMMA SameNodes ==
    ASSUME NEW f, NEW nn, NEW g, NEW gn,
           \A q \in Fblock : g[q].notifiers = f[q].notifiers,
           \A q \in Fblock : \A n \in Elems(f[q].notifiers) : gn[n] = nn[n]
    PROVE  ListsSame(f, nn, g, gn)
<1>1. Lists(f, nn) => Lists(g, gn)
  BY DEF Lists
<1>2. ASSUME NEW q \in Fblock, NEW j PROVE ToIn(g, gn, q, j) = ToIn(f, nn, q, j)
  BY DEF ToIn
<1>3. ASSUME NEW j PROVE NamingIn(g, gn, j) = NamingIn(f, nn, j)
  BY DEF NamingIn
<1>4. ASSUME NEW map, Delivered(f, nn, map),
             \A q \in Fblock : f[q].others \subseteq g[q].others
      PROVE  Delivered(g, gn, map)
  BY <1>4 DEF Delivered
<1>5. \A q \in Fblock : NListed(g, q) = NListed(f, q)
  BY DEF NListed
<1> QED BY <1>1, <1>2, <1>3, <1>4, <1>5 DEF NNodes, NNaming, ListsSame

-----------------------------------------------------------------------------
(* Binding and unbinding two blocks *)

(* A bind up to the subscriptions: four references, one port each. *)
LEMMA BindPrepared ==
    ASSUME NEW f \in Blocks, NEW o1 \in Fblock, NEW o2 \in Fblock,
           f[o1].idp \in Idp, f[o2].idp \in Idp,
           NEW set, set = PortsSet(Get2(Get2(f, o1, o2), o1, o2), o1, o2),
           NEW g, g = set.fb
    PROVE  /\ g \in Blocks /\ set.ok \in BOOLEAN
           /\ \A q \in Fblock :
                 Rest(g[q], f[q]) /\ g[q].refcnt = f[q].refcnt + 2 * Ends(q, o1, o2)
           /\ set.ok => PortsBound(f, g, o1, o2)
           /\ ~set.ok => PortsAsBefore(f, g)
<1> DEFINE h1 == Get2(f, o1, o2)
           h2 == Get2(h1, o1, o2)
<1>1. /\ h1 \in Blocks
      /\ \A q \in Fblock : Alike(h1[q], f[q]) /\ h1[q].refcnt = f[q].refcnt + Ends(q, o1, o2)
  BY Get2Facts
<1>2. set = PortsSet(h2, o1, o2)
  OBVIOUS
<1> HIDE DEF h1
<1>3. /\ h2 \in Blocks
      /\ \A q \in Fblock : Alike(h2[q], h1[q]) /\ h2[q].refcnt = h1[q].refcnt + Ends(q, o1, o2)
  BY <1>1, Get2Facts
<1> HIDE DEF h2
<1>4. \A q \in Fblock : f[q].refcnt \in Int /\ Ends(q, o1, o2) \in Int
  BY BlocksFields DEF Ends
<1>5. \A q \in Fblock :
         Alike(h2[q], f[q]) /\ h2[q].refcnt = f[q].refcnt + 2 * Ends(q, o1, o2)
  <2>1. \A q \in Fblock : Alike(h2[q], f[q])
    BY <1>1, <1>3 DEF Alike, Kept
  <2>2. \A q \in Fblock : h2[q].refcnt = f[q].refcnt + 2 * Ends(q, o1, o2)
    BY <1>1, <1>3, <1>4
  <2> QED BY <2>1, <2>2
<1>6. \A q \in Fblock : /\ h2[q].port = f[q].port /\ h2[q].idp = f[q].idp
                        /\ h2[q].factory = f[q].factory
  BY <1>5 DEF Alike, Kept
<1>7. \A q \in Fblock : IsTee(h2, q) <=> IsTee(f, q)
  BY <1>6 DEF IsTee
<1> DEFINE ok == set.ok
<1>8. /\ h2[o1].idp \in Idp /\ h2[o2].idp \in Idp
      /\ ok = PortsSet(h2, o1, o2).ok /\ g = PortsSet(h2, o1, o2).fb
  BY <1>2, <1>6
<1> HIDE DEF ok
<1>9. PortsChosen(h2, o1, o2, ok, g)
  BY <1>3, <1>8, PortsSetFacts
<1>13. \A q \in Fblock :
         Rest(g[q], f[q]) /\ g[q].refcnt = f[q].refcnt + 2 * Ends(q, o1, o2)
  BY <1>5, <1>9 DEF PortsChosen, Rest, Alike, Kept
<1>14. PlainPorts(h2, g, o1, o2) => PlainPorts(f, g, o1, o2)
  BY <1>6 DEF PlainPorts
<1>15. ok => PortsBound(f, g, o1, o2)
  <2>1. SUFFICES ASSUME ok PROVE PortsBound(f, g, o1, o2)
    OBVIOUS
  <2>2. PortsBound(h2, g, o1, o2)
    BY <1>9, <2>1 DEF PortsChosen
  <2>3. \A q \in Fblock :
                  /\ NBound(g[q].port) = NBound(f[q].port) + Ends(q, o1, o2)
                  /\ \A j \in Idp : NTo(g[q].port, j) = NTo(f[q].port, j)
                        + AtTo(q, o1, j, f[o2].idp) + AtTo(q, o2, j, f[o1].idp)
    BY <1>6, <2>2 DEF PortsBound
  <2>4. ASSUME ~IsTee(f, o1), ~IsTee(f, o2)
        PROVE  /\ f[o1].port["egress"] = IDP_UNKNOWN
               /\ f[o2].port["ingress"] = IDP_UNKNOWN
               /\ PlainPorts(f, g, o1, o2)
    BY <1>6, <1>7, <1>14, <2>2, <2>4 DEF PortsBound
  <2> QED BY <2>3, <2>4 DEF PortsBound
<1>16. ~ok => PortsAsBefore(f, g)
  <2>1. SUFFICES ASSUME ~ok PROVE PortsAsBefore(f, g)
    OBVIOUS
  <2>2. PortsAsBefore(h2, g)
    BY <1>9, <2>1 DEF PortsChosen
  <2> QED BY <1>6, <1>7, <2>2 DEF PortsAsBefore
<1> QED BY <1>9, <1>13, <1>15, <1>16 DEF ok, PortsChosen

(* What a block is known by. *)
Ident(r, s) ==
    /\ r.state = s.state
    /\ r.idp = s.idp
    /\ r.name = s.name
    /\ r.factory = s.factory

(* The nodes in the lists have kept their contents. *)
Agree(g, nn, gn) == \A q \in Fblock : \A n \in Elems(g[q].notifiers) : gn[n] = nn[n]

(* A command that was refused: nothing but the nodes in no list differs. *)
Untouched(f, nn, g, gn) ==
    /\ g \in Blocks /\ gn \in Nodes /\ Agree(g, nn, gn)
    /\ PortsAsBefore(f, g)
    /\ \A q \in Fblock : Rest(g[q], f[q]) /\ g[q].refcnt = f[q].refcnt

(* A bind that is refused gives all references back. *)
LEMMA BindRefused ==
    ASSUME NEW f \in Blocks, NEW nn \in Nodes, NEW o1 \in Fblock, NEW o2 \in Fblock,
           f[o1].refcnt >= 1, f[o2].refcnt >= 1,
           NEW g0 \in Blocks, PortsAsBefore(f, g0),
           \A q \in Fblock :
              Rest(g0[q], f[q]) /\ g0[q].refcnt = f[q].refcnt + 2 * Ends(q, o1, o2),
           NEW g, g = Put2(Put2(g0, o1, o2), o1, o2)
    PROVE  Untouched(f, nn, g, nn)
<1> DEFINE h == Put2(g0, o1, o2)
<1>0. \A q \in Fblock : f[q].refcnt \in Int /\ Ends(q, o1, o2) \in Nat
  BY BlocksFields DEF Ends
<1>1. Released(g0, o1, o2, h)
  BY Put2Facts
<1>2. g = Put2(h, o1, o2)
  OBVIOUS
<1> HIDE DEF h
<1>3. Spare(g0, o1, o2)
  BY <1>0 DEF Spare
<1>4. /\ h \in Blocks
      /\ \A q \in Fblock : Alike(h[q], g0[q]) /\ h[q].refcnt = f[q].refcnt + Ends(q, o1, o2)
  BY <1>0, <1>1, <1>3 DEF Released
<1>5. Released(h, o1, o2, g)
  BY <1>2, <1>4, Put2Facts
<1>6. Spare(h, o1, o2)
  BY <1>0, <1>4 DEF Spare
<1>7. /\ g \in Blocks
      /\ \A q \in Fblock : Alike(g[q], h[q]) /\ g[q].refcnt = f[q].refcnt
  BY <1>0, <1>4, <1>5, <1>6 DEF Released
<1>8. \A q \in Fblock : Alike(g[q], g0[q])
  BY <1>4, <1>7 DEF Alike, Kept
<1>9. \A q \in Fblock : Rest(g[q], f[q]) /\ g[q].port = g0[q].port
  BY <1>8 DEF Rest, Alike, Kept
<1>10. PortsAsBefore(f, g)
  BY <1>9 DEF PortsAsBefore
<1>11. Agree(g, nn, nn)
  BY DEF Agree
<1> QED BY <1>7, <1>9, <1>10, <1>11 DEF Untouched

(* The nodes after a bind: each end has one node more, for the other. *)
NodesBound(f, nn, o1, o2, g, gn) ==
    /\ Lists(g, gn)
    /\ \A q \in Fblock :
          /\ NListed(g, q) = NListed(f, q) + Ends(q, o1, o2)
          /\ \A j : NNodes(g, gn, q, j) = NNodes(f, nn, q, j)
                + AtTo(q, o1, j, f[o2].idp) + AtTo(q, o2, j, f[o1].idp)
    /\ \A j : NNaming(g, gn, j) = NNaming(f, nn, j) + Ends(j, f[o2].idp, f[o1].idp)
    /\ \A map : map[f[o1].idp] = o1 /\ map[f[o2].idp] = o2 /\ Delivered(f, nn, map)
                   => Delivered(g, gn, map)

(* The memory after a bind: three references at each end, one for the port *)
(* and two for the subscriptions.                                          *)
FullyBound(f, nn, o1, o2, g, gn) ==
    /\ g \in Blocks /\ gn \in Nodes
    /\ \A q \in Fblock :
          Ident(g[q], f[q]) /\ g[q].refcnt = f[q].refcnt + 3 * Ends(q, o1, o2)
    /\ PortsBound(f, g, o1, o2)
    /\ Lists(f, nn) => NodesBound(f, nn, o1, o2, g, gn)

(* A bind that is done. *)
LEMMA BindDone ==
    ASSUME NEW f \in Blocks, NEW nn \in Nodes, NEW o1 \in Fblock, NEW o2 \in Fblock,
           f[o1].refcnt >= 1, f[o2].refcnt >= 1,
           NEW g0 \in Blocks, PortsBound(f, g0, o1, o2),
           \A q \in Fblock :
              Rest(g0[q], f[q]) /\ g0[q].refcnt = f[q].refcnt + 2 * Ends(q, o1, o2),
           NEW m0, m0 = [fb |-> g0, fn |-> nn], Cardinality(UnusedNodes(m0)) >= 2,
           NEW m, m = Subscribe(Subscribe(m0, o1, o2), o2, o1),
           NEW g, g = Put2(m.fb, o1, o2), NEW gn, gn = m.fn
    PROVE  FullyBound(f, nn, o1, o2, g, gn)
<1> DEFINE m1 == Subscribe(m0, o1, o2)
           f1 == m1.fb
           n1 == m1.fn
           f2 == m.fb
           n  == NewNode(m0)
<1>0. \A q \in Fblock : f[q].refcnt \in Int /\ Ends(q, o1, o2) \in Nat
                        /\ Ends(q, o2, o1) = Ends(q, o1, o2)
  BY BlocksFields DEF Ends
<1>1. UnusedNodes(m0) = {k \in Nb : nn[k] = NoNode}
  BY DEF UnusedNodes
<1>2. UnusedNodes(m0) # {} /\ UnusedNodes(m0) # {n}
  <2>1. \A x : Cardinality({x}) = 1
    BY FS_Singleton
  <2>2. Cardinality({}) = 0
    BY FS_EmptySet
  <2> DEFINE U == UnusedNodes(m0)
  <2>3. Cardinality(U) >= 2
    OBVIOUS
  <2> HIDE DEF U, n
  <2>4. U # {} /\ U # {n}
    <3>1. Cardinality({n}) = 1
      BY <2>1
    <3>2. ASSUME U = {n} PROVE FALSE
      <4>1. Cardinality(U) = 1
        BY <3>1, <3>2, Zenon
      <4> QED BY <2>3, <4>1
    <3>3. ASSUME U = {} PROVE FALSE
      <4>1. Cardinality(U) = 0
        BY <2>2, <3>3, Zenon
      <4> QED BY <2>3, <4>1
    <3> QED BY <3>2, <3>3
  <2> QED BY <2>4 DEF U
<1>3. m1 = [fb |-> f1, fn |-> n1] /\ Subscribed(g0, nn, o1, o2, n, f1, n1)
  BY <1>2, SubscribeFacts
<1>3a. /\ n \in Nb /\ f1 \in Blocks /\ n1 \in Nodes
       /\ \A q \in Fblock : /\ Placed(f1[q], g0[q]) /\ f1[q].state = g0[q].state
                            /\ f1[q].refcnt = g0[q].refcnt + Ends(q, o1, o2)
       /\ \A k \in Nb : k # n => n1[k] = nn[k]
  BY <1>3 DEF Subscribed
<1>4. m = Subscribe(m1, o2, o1)
  OBVIOUS
<1>5. UnusedNodes(m1) # {}
  <2>1. PICK k \in UnusedNodes(m0) : k # n
    BY <1>2
  <2>2. UnusedNodes(m1) = {j \in Nb : n1[j] = NoNode}
    BY <1>3 DEF UnusedNodes
  <2> QED BY <1>1, <1>3a, <2>1, <2>2
<1>6. Lists(g0, nn) => ListsUp(g0, nn, o1, o2, f1, n1)
  BY <1>3, SubscribeNodes
<1> HIDE DEF m1, f1, n1, n
<1> DEFINE k2 == NewNode(m1)
<1>7. m = [fb |-> f2, fn |-> gn] /\ Subscribed(f1, n1, o2, o1, k2, f2, gn)
  BY <1>3, <1>3a, <1>4, <1>5, SubscribeFacts
<1>8. Lists(f1, n1) => ListsUp(f1, n1, o2, o1, f2, gn)
  BY <1>3a, <1>7, SubscribeNodes
<1>7a. /\ f2 \in Blocks /\ gn \in Nodes
       /\ \A q \in Fblock : /\ Placed(f2[q], f1[q]) /\ f2[q].state = f1[q].state
                            /\ f2[q].refcnt = f1[q].refcnt + Ends(q, o2, o1)
  BY <1>7 DEF Subscribed
<1>9. Released(f2, o1, o2, g)
  BY <1>7a, Put2Facts
<1> HIDE DEF f2
<1>10. \A q \in Fblock : f2[q].refcnt = f[q].refcnt + 4 * Ends(q, o1, o2)
  BY <1>0, <1>3a, <1>7a
<1>11. Spare(f2, o1, o2)
  BY <1>0, <1>10 DEF Spare
<1>12. /\ g \in Blocks
       /\ \A q \in Fblock : Alike(g[q], f2[q]) /\ g[q].refcnt = f[q].refcnt + 3 * Ends(q, o1, o2)
  BY <1>0, <1>9, <1>10, <1>11 DEF Released
<1>13. \A q \in Fblock : Ident(g[q], f[q]) /\ g[q].port = g0[q].port
  BY <1>3a, <1>7a, <1>12 DEF Ident, Placed, Alike, Kept, Rest
<1>14. PortsBound(f, g, o1, o2)
  BY <1>13 DEF PortsBound, PlainPorts
<1>15. ASSUME Lists(f, nn) PROVE NodesBound(f, nn, o1, o2, g, gn)
  <2>1. /\ Lists(g0, nn)
        /\ \A q \in Fblock : NListed(g0, q) = NListed(f, q)
        /\ \A q \in Fblock : \A j : NNodes(g0, nn, q, j) = NNodes(f, nn, q, j)
        /\ \A j : NNaming(g0, nn, j) = NNaming(f, nn, j)
        /\ \A map : Delivered(f, nn, map) => Delivered(g0, nn, map)
    <3>1. \A q \in Fblock : g0[q].notifiers = f[q].notifiers /\ f[q].others \subseteq g0[q].others
      BY DEF Rest
    <3>2. ListsSame(f, nn, g0, nn)
      BY <3>1, SameNodes
    <3> QED BY <1>15, <3>1, <3>2 DEF ListsSame
  <2>2. /\ g0[o1].idp = f[o1].idp /\ g0[o2].idp = f[o2].idp
        /\ f1[o1].idp = f[o1].idp
    BY <1>3a DEF Rest, Placed
  <2>3. /\ Lists(f1, n1)
        /\ CountUp(g0, nn, f1, n1, o1, f[o2].idp)
        /\ \A map : map[f[o2].idp] = o2 /\ Delivered(g0, nn, map) => Delivered(f1, n1, map)
    BY <1>6, <2>1, <2>2 DEF ListsUp
  <2>4. /\ Lists(f2, gn)
        /\ CountUp(f1, n1, f2, gn, o2, f[o1].idp)
        /\ \A map : map[f[o1].idp] = o1 /\ Delivered(f1, n1, map) => Delivered(f2, gn, map)
    BY <1>8, <2>2, <2>3 DEF ListsUp
  <2>5. /\ Lists(g, gn)
        /\ \A q \in Fblock : NListed(g, q) = NListed(f2, q)
        /\ \A q \in Fblock : \A j : NNodes(g, gn, q, j) = NNodes(f2, gn, q, j)
        /\ \A j : NNaming(g, gn, j) = NNaming(f2, gn, j)
        /\ \A map : Delivered(f2, gn, map) => Delivered(g, gn, map)
    <3>1. \A q \in Fblock : g[q].notifiers = f2[q].notifiers /\ f2[q].others \subseteq g[q].others
      BY <1>12 DEF Alike, Kept
    <3>2. ListsSame(f2, gn, g, gn)
      BY <3>1, SameNodes
    <3> QED BY <2>4, <3>1, <3>2 DEF ListsSame
  <2>6. \A q \in Fblock : /\ NListed(f, q) \in Nat
                          /\ \A j : NNodes(f, nn, q, j) \in Nat /\ NNaming(f, nn, j) \in Nat
    BY NodeCounts
  <2>6a. \A j : NNaming(f, nn, j) \in Nat
    BY NodeCounts
  <2>7. \A q \in Fblock : NListed(g, q) = NListed(f, q) + Ends(q, o1, o2)
    BY <2>1, <2>3, <2>4, <2>5, <2>6 DEF CountUp, Ends, At
  <2>8. \A q \in Fblock : \A j : NNodes(g, gn, q, j) = NNodes(f, nn, q, j)
                + AtTo(q, o1, j, f[o2].idp) + AtTo(q, o2, j, f[o1].idp)
    BY <2>1, <2>3, <2>4, <2>5, <2>6 DEF CountUp
  <2>9. \A j : NNaming(g, gn, j) = NNaming(f, nn, j) + Ends(j, f[o2].idp, f[o1].idp)
    BY <2>1, <2>3, <2>4, <2>5, <2>6a DEF CountUp, Ends, At
  <2> QED BY <2>1, <2>3, <2>4, <2>5, <2>7, <2>8, <2>9 DEF NodesBound
<1> QED BY <1>7a, <1>12, <1>13, <1>14, <1>15 DEF FullyBound

(* One port of o is given up. *)
PortsReleased(f, g, o) ==
    \A q \in Fblock :
        /\ NBound(g[q].port) = NBound(f[q].port) - At(q, o)
        /\ \A j \in Idp : NTo(g[q].port, j) <= NTo(f[q].port, j)

(* The ports after o1 was unbound from o2. *)
PortsUnbound(f, g, o1, o2) ==
    /\ \A q \in Fblock :
          /\ NBound(g[q].port) = NBound(f[q].port) - Ends(q, o1, o2)
          /\ \A j \in Idp : NTo(g[q].port, j) = NTo(f[q].port, j)
                - AtTo(q, o1, j, f[o2].idp) - AtTo(q, o2, j, f[o1].idp)
    /\ ~IsTee(f, o1) /\ ~IsTee(f, o2) =>
          /\ f[o1].port["egress"] = f[o2].idp
          /\ \A q \in Fblock :
                /\ g[q].port["clone"] = f[q].port["clone"]
                /\ g[q].port["egress"] = IF q = o1 THEN IDP_UNKNOWN ELSE f[q].port["egress"]
                /\ g[q].port["ingress"] = IF q = o2 THEN IDP_UNKNOWN ELSE f[q].port["ingress"]

(* o1 had a port to o2, but o2 had none to o1. *)
Half(f, o1, o2) ==
    ~IsTee(f, o1) /\ ~IsTee(f, o2) =>
        /\ f[o1].port["egress"] = f[o2].idp
        /\ f[o2].port["ingress"] # f[o1].idp

(* The ports that __fblock_unbind clears, at one end or at both. *)
LEMMA UnboundPorts ==
    ASSUME NEW f \in Blocks, NEW o1 \in Fblock, NEW o2 \in Fblock,
           f[o1].idp \in Idp, f[o2].idp \in Idp,
           NEW p1, p1 = PortToUnbind(f, o1, "egress", f[o2].idp), p1 # NULL,
           NEW f1, f1 = SetPort(f, o1, p1, IDP_UNKNOWN),
           NEW p2, p2 = PortToUnbind(f1, o2, "ingress", f[o1].idp),
           NEW f2, f2 = SetPort(f1, o2, p2, IDP_UNKNOWN)
    PROVE  /\ f1 \in Blocks
           /\ \A q \in Fblock : Rest(f1[q], f[q]) /\ f1[q].refcnt = f[q].refcnt
           /\ PortsReleased(f, f1, o1)
           /\ p2 = NULL => Half(f, o1, o2)
           /\ p2 # NULL =>
                 /\ f2 \in Blocks
                 /\ \A q \in Fblock : Rest(f2[q], f[q]) /\ f2[q].refcnt = f[q].refcnt
                 /\ PortsUnbound(f, f2, o1, o2)
<1> DEFINE i1 == f[o1].idp
           i2 == f[o2].idp
<1>0. /\ i1 \in Idp /\ i2 \in Idp /\ i1 # IDP_UNKNOWN /\ i2 # IDP_UNKNOWN
      /\ IDP_UNKNOWN \in 0 .. MaxIdp
      /\ i1 = f[o1].idp /\ i2 = f[o2].idp
  BY IdpAssumption DEF Idp, IDP_UNKNOWN
<1> HIDE DEF i1, i2
<1>1. /\ p1 \in Port /\ f[o1].port[p1] = i2
      /\ p1 = "egress" \/ (p1 = "clone" /\ IsTee(f, o1))
  BY <1>0, PortToUnbindFacts
<1>2. \/ /\ p2 = NULL
         /\ f1[o2].port["ingress"] # i1
      \/ /\ p2 \in Port /\ p2 # NULL
         /\ f1[o2].port[p2] = i1
         /\ p2 = "ingress" \/ (p2 = "clone" /\ IsTee(f1, o2))
  BY <1>0, PortToUnbindFacts
<1>3. /\ f1 \in Blocks
      /\ \A q \in Fblock : /\ Rest(f1[q], f[q])
                           /\ f1[q].refcnt = f[q].refcnt
                           /\ q # o1 => f1[q].port = f[q].port
      /\ f1[o1].port[p1] = IDP_UNKNOWN
      /\ \A r \in Port : r # p1 => f1[o1].port[r] = f[o1].port[r]
  BY <1>0, <1>1, SetPortFacts
<1>4. \A q \in Fblock :
         /\ NBound(f1[q].port) = NBound(f[q].port) - At(q, o1)
         /\ \A j \in Idp : NTo(f1[q].port, j) = NTo(f[q].port, j) - AtTo(q, o1, j, i2)
  BY <1>0, <1>1, ClearPort
<1>5. \A q \in Fblock : NBound(f[q].port) \in Nat /\ \A j : NTo(f[q].port, j) \in Nat
  BY BlocksFields, PortCounts
<1>6. PortsReleased(f, f1, o1)
  BY <1>4, <1>5 DEF PortsReleased, AtTo
<1>7. IsTee(f1, o2) <=> IsTee(f, o2)
  BY <1>3 DEF IsTee, Rest
<1>8. ASSUME p2 = NULL PROVE Half(f, o1, o2)
  BY <1>0, <1>1, <1>2, <1>3, <1>8 DEF Half, Port
<1>9. ASSUME p2 # NULL
      PROVE  /\ f2 \in Blocks
             /\ \A q \in Fblock : Rest(f2[q], f[q]) /\ f2[q].refcnt = f[q].refcnt
             /\ PortsUnbound(f, f2, o1, o2)
  <2>1. /\ p2 \in Port /\ f1[o2].port[p2] = i1
        /\ p2 = "ingress" \/ (p2 = "clone" /\ IsTee(f, o2))
    BY <1>2, <1>7, <1>9
  <2>2. /\ f2 \in Blocks
        /\ \A q \in Fblock : /\ Rest(f2[q], f1[q])
                             /\ f2[q].refcnt = f1[q].refcnt
                             /\ q # o2 => f2[q].port = f1[q].port
        /\ f2[o2].port[p2] = IDP_UNKNOWN
        /\ \A r \in Port : r # p2 => f2[o2].port[r] = f1[o2].port[r]
    <3>1. f1 \in Blocks
      BY <1>3
    <3>2. PortPut(f1, o2, p2, IDP_UNKNOWN, f2)
      BY <1>0, <2>1, <3>1, PortPutFacts
    <3> QED BY <3>2 DEF PortPut
  <2>3. \A q \in Fblock :
           /\ NBound(f2[q].port) = NBound(f1[q].port) - At(q, o2)
           /\ \A j \in Idp : NTo(f2[q].port, j) = NTo(f1[q].port, j) - AtTo(q, o2, j, i1)
    <3>1. f1 \in Blocks
      BY <1>3
    <3> QED BY <1>0, <3>1, <2>1, ClearPort
  <2>4. \A q \in Fblock : Rest(f2[q], f[q]) /\ f2[q].refcnt = f[q].refcnt
    <3>1. ASSUME NEW q \in Fblock PROVE Rest(f2[q], f[q]) /\ f2[q].refcnt = f[q].refcnt
      <4>1. Rest(f2[q], f1[q]) /\ f2[q].refcnt = f1[q].refcnt
        BY <2>2
      <4>2. Rest(f1[q], f[q]) /\ f1[q].refcnt = f[q].refcnt
        BY <1>3
      <4> QED BY <4>1, <4>2 DEF Rest
    <3> QED BY <3>1
  <2>5. \A q \in Fblock :
          /\ NBound(f2[q].port) = NBound(f[q].port) - Ends(q, o1, o2)
          /\ \A j \in Idp : NTo(f2[q].port, j) = NTo(f[q].port, j)
                - AtTo(q, o1, j, i2) - AtTo(q, o2, j, i1)
    BY <1>4, <1>5, <2>3 DEF Ends, At, AtTo
  <2>6. ASSUME ~IsTee(f, o1), ~IsTee(f, o2)
        PROVE  /\ f[o1].port["egress"] = i2
               /\ \A q \in Fblock :
                /\ f2[q].port["clone"] = f[q].port["clone"]
                /\ f2[q].port["egress"] = IF q = o1 THEN IDP_UNKNOWN ELSE f[q].port["egress"]
                /\ f2[q].port["ingress"] = IF q = o2 THEN IDP_UNKNOWN ELSE f[q].port["ingress"]
    <3>1. p1 = "egress" /\ p2 = "ingress"
      BY <1>1, <2>1, <2>6
    <3>2. \A r \in Port : r # "egress" => f1[o1].port[r] = f[o1].port[r]
      BY <1>3, <3>1
    <3>3. \A r \in Port : r # "ingress" => f2[o2].port[r] = f1[o2].port[r]
      BY <2>2, <3>1
    <3>4. f1[o1].port["egress"] = IDP_UNKNOWN /\ f2[o2].port["ingress"] = IDP_UNKNOWN
      BY <1>3, <2>2, <3>1
    <3>5. \A q \in Fblock : /\ q # o1 => f1[q].port = f[q].port
                            /\ q # o2 => f2[q].port = f1[q].port
      BY <1>3, <2>2
    <3>6. f[o1].port["egress"] = i2
      BY <1>1, <3>1
    <3>7. \A q \in Fblock : f2[q].port["clone"] = f[q].port["clone"]
      BY <3>2, <3>3, <3>5 DEF Port
    <3>8. \A q \in Fblock : f2[q].port["egress"] =
              IF q = o1 THEN IDP_UNKNOWN ELSE f[q].port["egress"]
      BY <3>3, <3>4, <3>5 DEF Port
    <3>9. \A q \in Fblock : f2[q].port["ingress"] =
              IF q = o2 THEN IDP_UNKNOWN ELSE f[q].port["ingress"]
      BY <3>2, <3>4, <3>5 DEF Port
    <3> QED BY <3>6, <3>7, <3>8, <3>9
  <2> QED BY <1>0, <2>2, <2>4, <2>5, <2>6 DEF PortsUnbound
<1> QED BY <1>3, <1>6, <1>8, <1>9

(* The memory after an unbind that finds a port at one end only. *)
HalfUnbound(f, nn, o1, o2, g, gn) ==
    /\ g \in Blocks /\ gn \in Nodes /\ Agree(g, nn, gn)
    /\ \A q \in Fblock : Rest(g[q], f[q]) /\ g[q].refcnt = f[q].refcnt - At(q, o1)
    /\ PortsReleased(f, g, o1)
    /\ Half(f, o1, o2)

(* The nodes after an unbind: each end has one node less. *)
NodesUnbound(f, nn, o1, o2, g, gn) ==
    /\ Lists(g, gn)
    /\ \A q \in Fblock :
          /\ NListed(g, q) = NListed(f, q) - Ends(q, o1, o2)
          /\ \A j : NNodes(g, gn, q, j) = NNodes(f, nn, q, j)
                - AtTo(q, o1, j, f[o2].idp) - AtTo(q, o2, j, f[o1].idp)
    /\ \A j : NNaming(g, gn, j) = NNaming(f, nn, j) - Ends(j, f[o2].idp, f[o1].idp)
    /\ \A map : Delivered(f, nn, map) => Delivered(g, gn, map)
    /\ \A q \in Fblock : g[q].refcnt = f[q].refcnt - 3 * Ends(q, o1, o2)

(* The memory after an unbind: at most three references are dropped at     *)
(* each end, and exactly three when each end had a node for the other.     *)
FullyUnbound(f, nn, o1, o2, g, gn) ==
    /\ g \in Blocks /\ gn \in Nodes
    /\ \A q \in Fblock :
          Ident(g[q], f[q]) /\ g[q].refcnt >= f[q].refcnt - 3 * Ends(q, o1, o2)
    /\ PortsUnbound(f, g, o1, o2)
    /\ (/\ Lists(f, nn)
        /\ NNodes(f, nn, o1, f[o2].idp) >= 1
        /\ NNodes(f, nn, o2, f[o1].idp) >= 1 + AtTo(o2, o1, f[o1].idp, f[o2].idp))
       => NodesUnbound(f, nn, o1, o2, g, gn)

(* The references of an unbind that stops half way. *)
LEMMA HalfPut ==
    ASSUME NEW f \in Blocks, NEW o1 \in Fblock, NEW o2 \in Fblock,
           f[o1].refcnt >= 2, f[o2].refcnt >= 1,
           NEW f1 \in Blocks,
           \A q \in Fblock :
              Rest(f1[q], f[q]) /\ f1[q].refcnt = f[q].refcnt + Ends(q, o1, o2),
           NEW g, g = Put2(Put(f1, o1), o1, o2)
    PROVE  /\ g \in Blocks
           /\ \A q \in Fblock : /\ Rest(g[q], f[q])
                                /\ g[q].refcnt = f[q].refcnt - At(q, o1)
                                /\ g[q].port = f1[q].port
<1> DEFINE h == Put(f1, o1)
<1>0. \A q \in Fblock : f[q].refcnt \in Int /\ Ends(q, o1, o2) \in Nat
  BY BlocksFields DEF Ends
<1>1. /\ h \in Blocks
      /\ \A q \in Fblock : /\ Kept(h[q], f1[q])
                           /\ q # o1 \/ f1[o1].refcnt # 1 => h[q].state = f1[q].state
                           /\ h[q].refcnt = f1[q].refcnt - (IF q = o1 THEN 1 ELSE 0)
  BY PutFacts, Zenon
<1>2. g = Put2(h, o1, o2)
  OBVIOUS
<1> HIDE DEF h
<1>3. f1[o1].refcnt # 1
  BY <1>0 DEF Ends
<1>4. \A q \in Fblock : Alike(h[q], f1[q])
                        /\ h[q].refcnt = f[q].refcnt + Ends(q, o1, o2) - At(q, o1)
  <2>1. \A q \in Fblock : Alike(h[q], f1[q])
    BY <1>1, <1>3 DEF Alike
  <2>2. \A q \in Fblock : h[q].refcnt = f[q].refcnt + Ends(q, o1, o2) - At(q, o1)
    BY <1>0, <1>1 DEF At
  <2> QED BY <2>1, <2>2
<1>5. Released(h, o1, o2, g)
  BY <1>1, <1>2, Put2Facts
<1>6. Spare(h, o1, o2)
  BY <1>0, <1>4 DEF Spare, At
<1>7. g \in Blocks /\ \A q \in Fblock : Alike(g[q], h[q])
                                        /\ g[q].refcnt = h[q].refcnt - Ends(q, o1, o2)
  BY <1>5, <1>6 DEF Released
<1>8. \A q \in Fblock : Rest(g[q], f[q]) /\ g[q].port = f1[q].port
  BY <1>4, <1>7 DEF Rest, Alike, Kept
<1>9. \A q \in Fblock : g[q].refcnt = f[q].refcnt - At(q, o1)
  BY <1>0, <1>4, <1>7 DEF At
<1> QED BY <1>7, <1>8, <1>9

(* The references and the nodes of a complete unbind. The bound of three   *)
(* references per port leaves enough of them for its four drops.           *)
LEMMA FullPut ==
    ASSUME NEW f \in Blocks, NEW nn \in Nodes, NEW o1 \in Fblock, NEW o2 \in Fblock,
           \A q \in {o1, o2} : f[q].refcnt >= 1 + 3 * NBound(f[q].port),
           NEW f2 \in Blocks,
           \A q \in Fblock :
              Rest(f2[q], f[q]) /\ f2[q].refcnt = f[q].refcnt + Ends(q, o1, o2),
           PortsUnbound(f, f2, o1, o2),
           NEW m2, m2 = [fb |-> f2, fn |-> nn],
           NEW ma, ma = Unsubscribe(m2, o1, o2),
           NEW mb, mb = Unsubscribe(ma, o2, o1),
           NEW g, g = Put2(Put2(mb.fb, o2, o1), o1, o2), NEW gn, gn = mb.fn
    PROVE  FullyUnbound(f, nn, o1, o2, g, gn)
<1> DEFINE fa == ma.fb
           na == ma.fn
           fc == mb.fb
           h  == Put2(fc, o2, o1)
           i1 == f[o1].idp
           i2 == f[o2].idp
           ca(q) == IF f2[o1].notifiers = <<>> THEN 0 ELSE Ends(q, o1, o2)
           cb(q) == IF fa[o2].notifiers = <<>> THEN 0 ELSE Ends(q, o2, o1)
<1>0. \A q \in Fblock : f[q].refcnt \in Int /\ Ends(q, o1, o2) \in Nat
                        /\ Ends(q, o2, o1) = Ends(q, o1, o2)
  BY BlocksFields DEF Ends
<1>1. \A q \in {o1, o2} : f[q].refcnt >= 1 + 3 * Ends(q, o1, o2)
  <2>1. ASSUME NEW q \in {o1, o2} PROVE f[q].refcnt >= 1 + 3 * Ends(q, o1, o2)
    <3>1. NBound(f[q].port) \in Nat /\ NBound(f2[q].port) \in Nat
      BY BlocksFields, PortCounts
    <3>2. NBound(f2[q].port) = NBound(f[q].port) - Ends(q, o1, o2)
      BY DEF PortsUnbound
    <3> QED BY <1>0, <3>1, <3>2
  <2> QED BY <2>1
<1>2. ma = [fb |-> fa, fn |-> na] /\ Unsubscribed(f2, nn, o1, o2, fa, na)
  BY UnsubscribeFacts
<1>3. Spare(f2, o1, o2)
  BY <1>0, <1>1 DEF Spare
<1>4. /\ fa \in Blocks /\ na \in Nodes
      /\ \A q \in Fblock : /\ Placed(fa[q], f2[q]) /\ fa[q].state = f2[q].state
                           /\ q # o1 => fa[q].notifiers = f2[q].notifiers
                           /\ fa[q].refcnt = f2[q].refcnt - ca(q)
  BY <1>2, <1>3 DEF Unsubscribed
<1> HIDE DEF fa, na
<1>5. mb = [fb |-> fc, fn |-> gn] /\ Unsubscribed(fa, na, o2, o1, fc, gn)
  BY <1>2, <1>4, UnsubscribeFacts
<1> HIDE DEF fc
<1>6. Spare(fa, o2, o1)
  <2>1. ASSUME NEW q \in {o1, o2} PROVE fa[q].refcnt >= 1 + Ends(q, o2, o1)
    <3>1. PICK e \in Nat : e = Ends(q, o1, o2) /\ e = Ends(q, o2, o1)
      BY <1>0
    <3>2. ca(q) = 0 \/ ca(q) = e
      BY <3>1
    <3>3. fa[q].refcnt = f2[q].refcnt - ca(q)
      BY <1>4
    <3>4. f2[q].refcnt = f[q].refcnt + e /\ f[q].refcnt \in Int
      BY <1>0, <3>1
    <3>5. f[q].refcnt >= 1 + 3 * e
      BY <1>1, <3>1
    <3> HIDE DEF ca
    <3>6. fa[q].refcnt >= 1 + e
      BY <3>2, <3>3, <3>4, <3>5
    <3> QED BY <3>1, <3>6
  <2> QED BY <2>1 DEF Spare
<1>7. /\ fc \in Blocks /\ gn \in Nodes
      /\ \A q \in Fblock : /\ Placed(fc[q], fa[q]) /\ fc[q].state = fa[q].state
                           /\ q # o2 => fc[q].notifiers = fa[q].notifiers
                           /\ fc[q].refcnt = fa[q].refcnt - cb(q)
  BY <1>5, <1>6 DEF Unsubscribed
<1>8. Released(fc, o2, o1, h)
  BY <1>7, Put2Facts
<1>9. g = Put2(h, o1, o2)
  BY DEF fc
<1> HIDE DEF h
<1>10. \A q \in Fblock : ca(q) \in {0, Ends(q, o1, o2)} /\ cb(q) \in {0, Ends(q, o1, o2)}
  BY <1>0
<1> HIDE DEF ca, cb
<1>11. \A q \in Fblock : fc[q].refcnt = f[q].refcnt + Ends(q, o1, o2) - ca(q) - cb(q)
  BY <1>0, <1>4, <1>7, <1>10
<1>12. Spare(fc, o2, o1)
  BY <1>0, <1>1, <1>10, <1>11 DEF Spare
<1>13. /\ h \in Blocks
       /\ \A q \in Fblock : Alike(h[q], fc[q]) /\ h[q].refcnt = f[q].refcnt - ca(q) - cb(q)
  BY <1>0, <1>8, <1>10, <1>11, <1>12 DEF Released
<1>14. Released(h, o1, o2, g)
  BY <1>9, <1>13, Put2Facts
<1>15. Spare(h, o1, o2)
  BY <1>0, <1>1, <1>10, <1>13 DEF Spare
<1>16. /\ g \in Blocks
       /\ \A q \in Fblock : /\ Alike(g[q], h[q])
             /\ g[q].refcnt = f[q].refcnt - ca(q) - cb(q) - Ends(q, o1, o2)
  BY <1>0, <1>10, <1>13, <1>14, <1>15 DEF Released
<1>17. \A q \in Fblock : /\ Ident(g[q], f[q]) /\ g[q].port = f2[q].port
                         /\ g[q].notifiers = fc[q].notifiers /\ g[q].others = fc[q].others
  BY <1>4, <1>7, <1>13, <1>16 DEF Ident, Placed, Alike, Kept, Rest
<1>18. \A q \in Fblock : g[q].refcnt >= f[q].refcnt - 3 * Ends(q, o1, o2)
  BY <1>0, <1>10, <1>16
<1>19. PortsUnbound(f, g, o1, o2)
  BY <1>17 DEF PortsUnbound
<1>20. ASSUME Lists(f, nn), NNodes(f, nn, o1, i2) >= 1,
              NNodes(f, nn, o2, i1) >= 1 + AtTo(o2, o1, i1, i2)
       PROVE  NodesUnbound(f, nn, o1, o2, g, gn)
  <2>1. \A q \in Fblock : /\ NListed(f, q) \in Nat
                          /\ \A j : NNodes(f, nn, q, j) \in Nat
                          /\ NListed(fa, q) \in Nat /\ NListed(fc, q) \in Nat
                          /\ \A j : NNodes(fa, na, q, j) \in Nat /\ NNodes(fc, gn, q, j) \in Nat
    BY NodeCounts
  <2>2. \A j : NNaming(f, nn, j) \in Nat /\ NNaming(fa, na, j) \in Nat /\ NNaming(fc, gn, j) \in Nat
    BY NodeCounts
  <2>3. \A q \in Fblock : /\ f2[q].notifiers = f[q].notifiers
                          /\ f[q].others \subseteq f2[q].others
                          /\ f2[q].idp = f[q].idp
    BY DEF Rest
  <2>4. ListsSame(f, nn, f2, nn)
    BY <2>3, SameNodes
  <2>5. /\ Lists(f2, nn)
        /\ \A q \in Fblock : NListed(f2, q) = NListed(f, q)
        /\ \A q \in Fblock : \A j : NNodes(f2, nn, q, j) = NNodes(f, nn, q, j)
        /\ \A j : NNaming(f2, nn, j) = NNaming(f, nn, j)
        /\ \A map : Delivered(f, nn, map) => Delivered(f2, nn, map)
    BY <1>20, <2>3, <2>4 DEF ListsSame
  <2>6. \E x : Taken(f2, nn, o1, o2, fa, na, x)
    <3>1. ToIn(f2, nn, o1, i2) # {}
      <4>1. NNodes(f2, nn, o1, i2) # 0
        BY <1>20, <2>5
      <4>2. Cardinality({}) = 0
        BY FS_EmptySet
      <4> QED BY <4>1, <4>2, Zenon DEF NNodes
    <3>2. \E y \in Elems(f2[o1].notifiers) : nn[y].remote = f2[o2].idp
      BY <2>3, <3>1 DEF ToIn
    <3>3. Distinct(f2[o1].notifiers)
      BY <2>5 DEF Lists
    <3> QED BY <1>2, <3>2, <3>3 DEF Unsubscribed
  <2>7. PICK x : Taken(f2, nn, o1, o2, fa, na, x)
    BY <2>6
  <2>8. /\ Lists(fa, na)
        /\ CountUp(fa, na, f2, nn, o1, f2[o2].idp)
        /\ \A map : Delivered(f2, nn, map) => Delivered(fa, na, map)
    <3>1. \A q \in Fblock : q # o1 => fa[q].notifiers = f2[q].notifiers
      BY <1>4
    <3> QED BY <2>5, <2>7, <3>1, TakenNodes
  <2>9. f2[o2].idp = i2 /\ fa[o1].idp = i1
    BY <1>4, <2>3 DEF Placed
  <2>10. NNodes(fa, na, o2, i1) >= 1
    <3>1. NNodes(f2, nn, o2, i1) = NNodes(fa, na, o2, i1) + AtTo(o2, o1, i1, i2)
      BY <2>8, <2>9 DEF CountUp
    <3>2. NNodes(f2, nn, o2, i1) >= 1 + AtTo(o2, o1, i1, i2)
      BY <1>20, <2>5
    <3> QED BY <2>1, <3>1, <3>2 DEF AtTo
  <2>11. \E y : Taken(fa, na, o2, o1, fc, gn, y)
    <3>1. ToIn(fa, na, o2, i1) # {}
      <4>1. NNodes(fa, na, o2, i1) # 0
        BY <2>10
      <4>2. Cardinality({}) = 0
        BY FS_EmptySet
      <4> QED BY <4>1, <4>2, Zenon DEF NNodes
    <3>2. \E y \in Elems(fa[o2].notifiers) : na[y].remote = fa[o1].idp
      BY <2>9, <3>1 DEF ToIn
    <3>3. Distinct(fa[o2].notifiers)
      BY <2>8 DEF Lists
    <3> QED BY <1>5, <3>2, <3>3 DEF Unsubscribed
  <2>12. PICK y : Taken(fa, na, o2, o1, fc, gn, y)
    BY <2>11
  <2>13. /\ Lists(fc, gn)
         /\ CountUp(fc, gn, fa, na, o2, fa[o1].idp)
         /\ \A map : Delivered(fa, na, map) => Delivered(fc, gn, map)
    <3>1. \A q \in Fblock : q # o2 => fc[q].notifiers = fa[q].notifiers
      BY <1>7
    <3> QED BY <2>8, <2>12, <3>1, TakenNodes
  <2>14. ListsSame(fc, gn, g, gn)
    <3>1. \A q \in Fblock : g[q].notifiers = fc[q].notifiers
      BY <1>17
    <3> QED BY <3>1, SameNodes
  <2>15. /\ Lists(g, gn)
         /\ \A q \in Fblock : NListed(g, q) = NListed(fc, q)
         /\ \A q \in Fblock : \A j : NNodes(g, gn, q, j) = NNodes(fc, gn, q, j)
         /\ \A j : NNaming(g, gn, j) = NNaming(fc, gn, j)
         /\ \A map : Delivered(fc, gn, map) => Delivered(g, gn, map)
    <3>1. \A q \in Fblock : fc[q].others \subseteq g[q].others
      BY <1>17
    <3> QED BY <2>13, <2>14, <3>1 DEF ListsSame
  <2>16. \A q \in Fblock : NListed(g, q) = NListed(f, q) - Ends(q, o1, o2)
    BY <2>1, <2>5, <2>8, <2>13, <2>15 DEF CountUp, Ends, At
  <2>17. \A q \in Fblock : \A j : NNodes(g, gn, q, j) = NNodes(f, nn, q, j)
                - AtTo(q, o1, j, i2) - AtTo(q, o2, j, i1)
    BY <2>1, <2>5, <2>8, <2>9, <2>13, <2>15 DEF CountUp, AtTo
  <2>18. \A j : NNaming(g, gn, j) = NNaming(f, nn, j) - Ends(j, i2, i1)
    BY <2>2, <2>5, <2>8, <2>9, <2>13, <2>15 DEF CountUp, Ends, At
  <2>19. f2[o1].notifiers # <<>> /\ fa[o2].notifiers # <<>>
    <3>1. Elems(<<>>) = {}
      BY DEF Elems, Contains
    <3>2. x \in Elems(f2[o1].notifiers) /\ y \in Elems(fa[o2].notifiers)
      BY <2>7, <2>12 DEF Taken
    <3> QED BY <3>1, <3>2
  <2>20. \A q \in Fblock : g[q].refcnt = f[q].refcnt - 3 * Ends(q, o1, o2)
    <3>1. ASSUME NEW q \in Fblock PROVE g[q].refcnt = f[q].refcnt - 3 * Ends(q, o1, o2)
      <4>1. ca(q) = Ends(q, o1, o2)
        BY <2>19 DEF ca
      <4>2. cb(q) = Ends(q, o1, o2)
        BY <1>0, <2>19 DEF cb
      <4>3. g[q].refcnt = f[q].refcnt - ca(q) - cb(q) - Ends(q, o1, o2)
        BY <1>16
      <4> QED BY <1>0, <4>1, <4>2, <4>3
    <3> QED BY <3>1
  <2>21. \A map : Delivered(f, nn, map) => Delivered(g, gn, map)
    BY <2>5, <2>8, <2>13, <2>15
  <2> QED BY <2>15, <2>16, <2>17, <2>18, <2>20, <2>21 DEF NodesUnbound
<1> QED BY <1>7, <1>16, <1>17, <1>18, <1>19, <1>20 DEF FullyUnbound

(* An unbind is refused, stops half way or is complete. *)
LEMMA UnbindFacts ==
    ASSUME NEW f \in Blocks, NEW nn \in Nodes, NEW o1 \in Fblock, NEW o2 \in Fblock,
           f[o1].idp \in Idp, f[o2].idp \in Idp,
           \A q \in {o1, o2} : f[q].refcnt >= 1 + 3 * NBound(f[q].port),
           NEW m0, m0 = [fb |-> Get2(f, o1, o2), fn |-> nn],
           NEW m, m = Unbound(m0, o1, o2),
           NEW g, g = Put2(m.fb, o1, o2), NEW gn, gn = m.fn
    PROVE  /\ m = [fb |-> m.fb, fn |-> gn]
           /\ \/ Untouched(f, nn, g, gn)
              \/ HalfUnbound(f, nn, o1, o2, g, gn)
              \/ FullyUnbound(f, nn, o1, o2, g, gn)
<1> DEFINE h  == Get2(f, o1, o2)
           p1 == PortToUnbind(h, o1, "egress", h[o2].idp)
           f1 == SetPort(h, o1, p1, IDP_UNKNOWN)
           p2 == PortToUnbind(f1, o2, "ingress", h[o1].idp)
           f2 == SetPort(f1, o2, p2, IDP_UNKNOWN)
           m2 == [fb |-> f2, fn |-> nn]
           ma == Unsubscribe(m2, o1, o2)
           mb == Unsubscribe(ma, o2, o1)
<1>0. \A q \in Fblock : /\ f[q].refcnt \in Int /\ Ends(q, o1, o2) \in Nat
                        /\ NBound(f[q].port) \in Nat
  BY BlocksFields, PortCounts DEF Ends
<1>1. /\ h \in Blocks
      /\ \A q \in Fblock : Alike(h[q], f[q]) /\ h[q].refcnt = f[q].refcnt + Ends(q, o1, o2)
  BY Get2Facts
<1>2. m0.fb = h /\ m0.fn = nn /\ m2 = [m0 EXCEPT !.fb = f2]
  OBVIOUS
<1>3. /\ p1 = NULL => m = m0
      /\ p1 # NULL /\ p2 = NULL => m = [m0 EXCEPT !.fb = Put(f1, o1)]
      /\ p1 # NULL /\ p2 # NULL => m = [mb EXCEPT !.fb = Put2(@, o2, o1)]
  BY DEF Unbound
<1>3a. /\ p1 = PortToUnbind(h, o1, "egress", h[o2].idp)
       /\ f1 = SetPort(h, o1, p1, IDP_UNKNOWN)
       /\ p2 = PortToUnbind(f1, o2, "ingress", h[o1].idp)
       /\ f2 = SetPort(f1, o2, p2, IDP_UNKNOWN)
  OBVIOUS
<1> HIDE DEF h, p1, f1, p2, f2
<1>4. \A q \in Fblock : /\ h[q].port = f[q].port /\ h[q].idp = f[q].idp
                        /\ h[q].factory = f[q].factory
  BY <1>1 DEF Alike, Kept
<1>5. \A q \in Fblock : IsTee(h, q) <=> IsTee(f, q)
  BY <1>4 DEF IsTee
<1>6. CASE p1 = NULL
  <2>1. g = Put2(h, o1, o2) /\ gn = nn
    BY <1>2, <1>3, <1>6
  <2>2. Released(h, o1, o2, g)
    BY <1>1, <2>1, Put2Facts
  <2>3. Spare(h, o1, o2)
    BY <1>0, <1>1 DEF Spare
  <2>4. g \in Blocks /\ \A q \in Fblock : Alike(g[q], h[q]) /\ g[q].refcnt = f[q].refcnt
    BY <1>0, <1>1, <2>2, <2>3 DEF Released
  <2>5. \A q \in Fblock : Rest(g[q], f[q]) /\ g[q].port = f[q].port
    BY <1>1, <2>4 DEF Rest, Alike, Kept
  <2>6. PortsAsBefore(f, g)
    BY <2>5 DEF PortsAsBefore
  <2>7. Agree(g, nn, gn)
    BY <2>1 DEF Agree
  <2>8. Untouched(f, nn, g, gn)
    BY <2>1, <2>4, <2>5, <2>6, <2>7 DEF Untouched
  <2>9. m = [fb |-> m.fb, fn |-> gn]
    BY <1>3, <1>6
  <2> QED BY <2>8, <2>9
<1>7. CASE p1 # NULL
  <2>1. h[o1].idp \in Idp /\ h[o2].idp \in Idp
    BY <1>4
  <2>2. /\ f1 \in Blocks
        /\ \A q \in Fblock : Rest(f1[q], h[q]) /\ f1[q].refcnt = h[q].refcnt
        /\ PortsReleased(h, f1, o1)
        /\ p2 = NULL => Half(h, o1, o2)
        /\ p2 # NULL =>
              /\ f2 \in Blocks
              /\ \A q \in Fblock : Rest(f2[q], h[q]) /\ f2[q].refcnt = h[q].refcnt
              /\ PortsUnbound(h, f2, o1, o2)
    BY <1>1, <1>3a, <1>7, <2>1, UnboundPorts
  <2>3. CASE p2 = NULL
    <3>1. g = Put2(Put(f1, o1), o1, o2) /\ gn = nn
      BY <1>2, <1>3, <1>7, <2>3
    <3>2. \A q \in Fblock :
            Rest(f1[q], f[q]) /\ f1[q].refcnt = f[q].refcnt + Ends(q, o1, o2)
      BY <1>1, <2>2 DEF Rest, Alike, Kept
    <3>3. PortsReleased(f, f1, o1)
      BY <1>4, <2>2 DEF PortsReleased
    <3>4. Half(f, o1, o2)
      BY <1>4, <1>5, <2>2, <2>3 DEF Half
    <3>5. f[o1].refcnt >= 2 /\ f[o2].refcnt >= 1
      <4>1. NBound(f1[o1].port) \in Nat
        BY <2>2, BlocksFields, PortCounts
      <4>2. NBound(f1[o1].port) = NBound(f[o1].port) - 1
        BY <3>3 DEF PortsReleased, At
      <4> QED BY <1>0, <4>1, <4>2
    <3>6. /\ g \in Blocks
          /\ \A q \in Fblock : /\ Rest(g[q], f[q])
                               /\ g[q].refcnt = f[q].refcnt - At(q, o1)
                               /\ g[q].port = f1[q].port
      <4>1. f1 \in Blocks
        BY <2>2
      <4> QED BY <3>1, <3>2, <3>5, <4>1, HalfPut
    <3>7. PortsReleased(f, g, o1)
      BY <3>3, <3>6 DEF PortsReleased
    <3>8. HalfUnbound(f, nn, o1, o2, g, gn)
      BY <3>1, <3>4, <3>6, <3>7 DEF HalfUnbound, Agree
    <3>9. m = [fb |-> m.fb, fn |-> gn]
      BY <1>3, <1>7, <2>3
    <3> QED BY <3>8, <3>9
  <2>4. CASE p2 # NULL
    <3>0. /\ f2 \in Blocks
          /\ \A q \in Fblock : Rest(f2[q], h[q]) /\ f2[q].refcnt = h[q].refcnt
          /\ PortsUnbound(h, f2, o1, o2)
      BY <2>2, <2>4
    <3>1. m = [mb EXCEPT !.fb = Put2(@, o2, o1)]
      BY <1>3, <1>7, <2>4
    <3>2. \A q \in Fblock :
            Rest(f2[q], f[q]) /\ f2[q].refcnt = f[q].refcnt + Ends(q, o1, o2)
      BY <1>1, <3>0 DEF Rest, Alike, Kept
    <3>3. PortsUnbound(f, f2, o1, o2)
      BY <1>4, <1>5, <3>0 DEF PortsUnbound
    <3>4. m2 = [fb |-> f2, fn |-> nn] /\ ma = Unsubscribe(m2, o1, o2) /\ mb = Unsubscribe(ma, o2, o1)
      OBVIOUS
    <3> HIDE DEF m2, ma, mb
    <3>5. mb = [fb |-> mb.fb, fn |-> mb.fn]
      <4> DEFINE fa == ma.fb
                 na == ma.fn
      <4>1. ma = [fb |-> fa, fn |-> na] /\ Unsubscribed(f2, nn, o1, o2, fa, na)
        BY <3>0, <3>4, UnsubscribeFacts
      <4>2. fa \in Blocks /\ na \in Nodes
        BY <4>1 DEF Unsubscribed
      <4> HIDE DEF fa, na
      <4> QED BY <3>4, <4>1, <4>2, UnsubscribeFacts
    <3>6. g = Put2(Put2(mb.fb, o2, o1), o1, o2) /\ gn = mb.fn
      BY <3>1, <3>5
    <3>7. FullyUnbound(f, nn, o1, o2, g, gn)
      <4>1. f2 \in Blocks
        BY <3>0
      <4> QED BY <3>2, <3>3, <3>4, <3>6, <4>1, FullPut
    <3>8. m = [fb |-> m.fb, fn |-> gn]
      BY <3>1, <3>5
    <3> QED BY <3>7, <3>8
  <2> QED BY <2>3, <2>4
<1> QED BY <1>6, <1>7

-----------------------------------------------------------------------------
(* Replacing a block *)

(* dst and src have exchanged their ports. *)
PortsExchanged(f, dst, src, g) ==
    /\ g \in Blocks
    /\ \A q \in Fblock : Rest(g[q], f[q]) /\ g[q].refcnt = f[q].refcnt
    /\ \A q \in Fblock : q \notin {dst, src} => g[q] = f[q]
    /\ g[dst].port = f[src].port
    /\ g[src].port = f[dst].port

(* fblock_migrate_p exchanges the private data. *)
LEMMA MigratePFacts ==
    ASSUME NEW f \in Blocks, NEW dst \in Fblock, NEW src \in Fblock, dst # src,
           NEW g, g = MigrateP(f, dst, src)
    PROVE  PortsExchanged(f, dst, src, g)
<1> DEFINE d == [f[dst] EXCEPT !.port = f[src].port]
           s == [f[src] EXCEPT !.port = f[dst].port]
           h == [f EXCEPT ![dst] = d]
<1>1. f[dst] \in FblockRec /\ f[src] \in FblockRec
  BY DEF Blocks
<1>2. /\ d \in FblockRec /\ Rest(d, f[dst]) /\ d.refcnt = f[dst].refcnt /\ d.port = f[src].port
      /\ s \in FblockRec /\ Rest(s, f[src]) /\ s.refcnt = f[src].refcnt /\ s.port = f[dst].port
  BY <1>1 DEF FblockRec, Rest
<1>3. h = [f EXCEPT ![dst].port = f[src].port]
  BY <1>1 DEF Blocks, FblockRec
<1>4. g = [h EXCEPT ![src].port = f[dst].port]
  BY <1>3 DEF MigrateP
<1> HIDE DEF d
<1>5. h \in Blocks /\ h[dst] = d /\ \A q \in Fblock : q # dst => h[q] = f[q]
  BY <1>2 DEF Blocks
<1> HIDE DEF h
<1>6. g = [h EXCEPT ![src] = s]
  <2>1. h[src] = f[src]
    BY <1>5
  <2> QED BY <1>1, <1>4, <1>5, <2>1 DEF Blocks, FblockRec
<1> HIDE DEF s
<1>7. g \in Blocks /\ g[src] = s /\ \A q \in Fblock : q # src => g[q] = h[q]
  BY <1>2, <1>5, <1>6 DEF Blocks
<1>8. g[dst] = d /\ \A q \in Fblock : q \notin {dst, src} => g[q] = f[q]
  BY <1>5, <1>7
<1>9. \A q \in Fblock : Rest(f[q], f[q])
  BY DEF Rest
<1> QED BY <1>2, <1>7, <1>8, <1>9 DEF PortsExchanged

(* fblock_migrate_r moves the identity and exchanges the rest. *)
LEMMA MigrateRFacts ==
    ASSUME NEW f \in Blocks, NEW dst \in Fblock, NEW src \in Fblock, dst # src,
           NEW g, g = MigrateR(f, dst, src)
    PROVE  /\ g \in Blocks
           /\ \A q \in Fblock : q \notin {dst, src} => g[q] = f[q]
           /\ /\ g[dst].state = f[dst].state /\ g[dst].factory = f[dst].factory
              /\ g[dst].port = f[dst].port
              /\ g[dst].idp = f[src].idp /\ g[dst].name = f[src].name
              /\ g[dst].refcnt = f[src].refcnt
              /\ g[dst].notifiers = f[src].notifiers /\ g[dst].others = f[src].others
           /\ /\ g[src].state = f[src].state /\ g[src].factory = f[src].factory
              /\ g[src].port = f[src].port
              /\ g[src].idp = f[src].idp /\ g[src].name = f[src].name
              /\ g[src].refcnt = f[dst].refcnt
              /\ g[src].notifiers = f[dst].notifiers /\ g[src].others = f[dst].others
<1> DEFINE d == f[dst]
           s == f[src]
           a == [d EXCEPT !.idp = s.idp, !.name = s.name, !.refcnt = s.refcnt,
                          !.notifiers = s.notifiers, !.others = s.others]
           b == [s EXCEPT !.refcnt = d.refcnt,
                          !.notifiers = d.notifiers, !.others = d.others]
<1>1. d \in FblockRec /\ s \in FblockRec
  BY DEF Blocks
<1>2. g = [f EXCEPT ![dst] = a, ![src] = b]
  BY DEF MigrateR
<1>3. /\ a.state = d.state /\ a.factory = d.factory /\ a.port = d.port
      /\ a.idp = s.idp /\ a.name = s.name /\ a.refcnt = s.refcnt
      /\ a.notifiers = s.notifiers /\ a.others = s.others
  BY <1>1 DEF FblockRec
<1>4. /\ b.state = s.state /\ b.factory = s.factory /\ b.port = s.port
      /\ b.idp = s.idp /\ b.name = s.name /\ b.refcnt = d.refcnt
      /\ b.notifiers = d.notifiers /\ b.others = d.others
  BY <1>1 DEF FblockRec
<1>5. a \in FblockRec
  BY <1>1 DEF FblockRec
<1>6. b \in FblockRec
  BY <1>1 DEF FblockRec
<1> HIDE DEF a, b
<1>7. g \in Blocks /\ g[dst] = a /\ g[src] = b
      /\ \A q \in Fblock : q \notin {dst, src} => g[q] = f[q]
  BY <1>2, <1>5, <1>6 DEF Blocks
<1> QED BY <1>3, <1>4, <1>7

(* The nodes of the list point to o. *)
Selfref(nn, list, o, gn) ==
    /\ gn \in Nodes
    /\ \A n \in Nb : /\ gn[n].remote = nn[n].remote
                     /\ n \in Elems(list) => gn[n].self = o
                     /\ n \notin Elems(list) => gn[n] = nn[n]

(* fblock_update_selfref. *)
LEMMA SelfrefFacts ==
    ASSUME NEW nn \in Nodes, NEW list, NEW o \in Fblock,
           NEW gn, gn = UpdateSelfref(nn, list, o)
    PROVE  Selfref(nn, list, o, gn)
<1>1. ASSUME NEW n \in Nb
      PROVE  /\ gn[n] \in NodeRec /\ gn[n].remote = nn[n].remote
             /\ n \in Elems(list) => gn[n].self = o
             /\ n \notin Elems(list) => gn[n] = nn[n]
  <2> DEFINE t == [nn[n] EXCEPT !.self = o]
  <2>1. nn[n] \in NodeRec
    BY DEF Nodes
  <2>2. t \in NodeRec /\ t.remote = nn[n].remote /\ t.self = o
    BY <2>1 DEF NodeRec
  <2>3. gn[n] = IF Contains(list, n) THEN t ELSE nn[n]
    BY DEF UpdateSelfref
  <2>4. n \in Elems(list) <=> Contains(list, n)
    BY DEF Elems
  <2> HIDE DEF t
  <2>5. CASE n \in Elems(list)
    BY <2>2, <2>3, <2>4, <2>5
  <2>6. CASE n \notin Elems(list)
    BY <2>1, <2>3, <2>4, <2>6
  <2> QED BY <2>5, <2>6
<1>2. gn = [n \in Nb |-> gn[n]]
  BY DEF UpdateSelfref
<1>3. gn \in Nodes
  BY <1>1, <1>2 DEF Nodes
<1> QED BY <1>1, <1>3 DEF Selfref

(* o2 has taken over from o1, with its ports or without; o1 waits for its  *)
(* grace period.                                                           *)
TookOver(f, o1, o2, keep, g) ==
    /\ g \in Blocks
    /\ \A q \in Fblock : q \notin {o1, o2} => Alike(g[q], f[q]) /\ g[q].refcnt = f[q].refcnt
    /\ /\ g[o2].state = f[o2].state /\ g[o2].factory = f[o2].factory
       /\ g[o2].idp = f[o1].idp /\ g[o2].name = f[o1].name
       /\ g[o2].refcnt = f[o1].refcnt
       /\ g[o2].notifiers = f[o1].notifiers /\ g[o2].others = f[o1].others
    /\ keep => g[o2].port = f[o1].port
    /\ ~keep => g[o2].port = f[o2].port
    /\ ~keep => g[o1].port = f[o1].port
    /\ keep => g[o1].port = f[o2].port
    /\ g[o1].state = "rcu" /\ g[o1].notifiers = f[o2].notifiers

(* The memory after the two blocks have exchanged their contents. *)
Migrated(f, nn, o1, o2, keep, g, gn) ==
    /\ o1 # o2 /\ f[o2].refcnt = 1
    /\ TookOver(f, o1, o2, keep, g)
    /\ \E hn : /\ Selfref(nn, f[o1].notifiers, o2, hn)
               /\ Selfref(hn, f[o2].notifiers, o1, gn)

(* userctl_replace takes and drops references so that the new block has    *)
(* the old one's count and the old block none.                             *)
LEMMA ReplaceFacts ==
    ASSUME NEW f \in Blocks, NEW nn \in Nodes, NEW o1 \in Fblock, NEW o2 \in Fblock,
           f[o1].refcnt >= 1, f[o2].refcnt >= 1, f[o1].factory # NULL,
           Get2(f, o1, o2)[o2].refcnt <= 2,
           NEW keep \in BOOLEAN,
           NEW m0, m0 = [fb |-> Get2(f, o1, o2), fn |-> nn],
           NEW m, m = Migrate(m0, o2, o1, keep),
           NEW g, g = Put2(Put(m.fb, o1), o1, o2), NEW gn, gn = m.fn
    PROVE  Migrated(f, nn, o1, o2, keep, g, gn)
<1> DEFINE h == Get2(f, o1, o2)
           p == IF keep THEN MigrateP(h, o2, o1) ELSE h
           r == MigrateR(p, o2, o1)
           u == Put(r, o1)
           v == Put(u, o1)
           hn == UpdateSelfref(nn, r[o2].notifiers, o2)
<1>1. /\ h \in Blocks
      /\ \A q \in Fblock : Alike(h[q], f[q]) /\ h[q].refcnt = f[q].refcnt + Ends(q, o1, o2)
  BY Get2Facts
<1>2. m0.fb = h /\ m0.fn = nn
  OBVIOUS
<1>3. /\ m.fb = r
      /\ gn = UpdateSelfref(hn, r[o1].notifiers, o1)
  BY DEF Migrate
<1>4. g = Put(v, o2)
  BY <1>3 DEF Put2
<1>5. o1 # o2 /\ f[o2].refcnt = 1
  BY <1>1, BlocksFields DEF Ends
<1>5a. hn = UpdateSelfref(nn, r[o2].notifiers, o2)
  OBVIOUS
<1> HIDE DEF h, hn
<1>6. /\ p \in Blocks
      /\ \A q \in Fblock : Rest(p[q], h[q]) /\ p[q].refcnt = h[q].refcnt
      /\ \A q \in Fblock : q \notin {o1, o2} => p[q] = h[q]
      /\ keep => p[o2].port = h[o1].port
      /\ ~keep => p[o2].port = h[o2].port
      /\ ~keep => p[o1].port = h[o1].port
      /\ keep => p[o1].port = h[o2].port
  <2>1. CASE keep
    <3>1. p = MigrateP(h, o2, o1)
      BY <2>1
    <3> HIDE DEF p
    <3>2. /\ p \in Blocks
          /\ \A q \in Fblock : Rest(p[q], h[q]) /\ p[q].refcnt = h[q].refcnt
          /\ \A q \in Fblock : q \notin {o2, o1} => p[q] = h[q]
          /\ p[o2].port = h[o1].port
          /\ p[o1].port = h[o2].port
      <4>1. h \in Blocks /\ o2 # o1
        BY <1>1, <1>5
      <4>2. PortsExchanged(h, o2, o1, p)
        BY <3>1, <4>1, MigratePFacts
      <4> QED BY <4>2 DEF PortsExchanged
    <3> QED BY <2>1, <3>2
  <2>2. CASE ~keep
    <3>1. p = h
      BY <2>2
    <3> HIDE DEF p
    <3>2. \A q \in Fblock : Rest(h[q], h[q])
      BY DEF Rest
    <3> QED BY <1>1, <2>2, <3>1, <3>2
  <2> QED BY <2>1, <2>2
<1> HIDE DEF p
<1>7. /\ r \in Blocks
      /\ \A q \in Fblock : q \notin {o1, o2} => r[q] = p[q]
      /\ /\ r[o2].state = p[o2].state /\ r[o2].factory = p[o2].factory
         /\ r[o2].port = p[o2].port
         /\ r[o2].idp = p[o1].idp /\ r[o2].name = p[o1].name
         /\ r[o2].refcnt = p[o1].refcnt
         /\ r[o2].notifiers = p[o1].notifiers /\ r[o2].others = p[o1].others
      /\ /\ r[o1].factory = p[o1].factory
         /\ r[o1].port = p[o1].port
         /\ r[o1].refcnt = p[o2].refcnt
         /\ r[o1].notifiers = p[o2].notifiers
  BY <1>5, <1>6, MigrateRFacts
<1> HIDE DEF r
<1>8. /\ \A q \in Fblock : q \notin {o1, o2} => Alike(r[q], f[q]) /\ r[q].refcnt = f[q].refcnt
      /\ r[o1].refcnt = 2 /\ r[o1].factory # NULL /\ r[o2].refcnt = f[o1].refcnt + 1
  <2>1. \A q \in Fblock : q \notin {o1, o2} => Ends(q, o1, o2) = 0 /\ f[q].refcnt \in Int
    BY BlocksFields DEF Ends
  <2>2. Ends(o1, o1, o2) = 1 /\ Ends(o2, o1, o2) = 1
    BY <1>5 DEF Ends
  <2>3. \A q \in Fblock : q \notin {o1, o2} => Alike(r[q], f[q]) /\ r[q].refcnt = f[q].refcnt
    BY <1>1, <1>6, <1>7, <2>1
  <2>4. r[o1].refcnt = 2 /\ r[o2].refcnt = f[o1].refcnt + 1
    BY <1>1, <1>5, <1>6, <1>7, <2>2
  <2>5. r[o1].factory # NULL
    BY <1>1, <1>6, <1>7 DEF Alike, Kept, Rest
  <2> QED BY <2>3, <2>4, <2>5
<1>9. /\ u \in Blocks
      /\ \A q \in Fblock : /\ Kept(u[q], r[q])
                           /\ q # o1 \/ r[o1].refcnt # 1 => u[q].state = r[q].state
                           /\ u[q].refcnt = r[q].refcnt - (IF q = o1 THEN 1 ELSE 0)
  BY <1>7, PutFacts
<1> HIDE DEF u
<1>10. u[o1].refcnt = 1 /\ u[o1].factory # NULL /\ u[o2].refcnt = f[o1].refcnt + 1
  <2>1. u[o1].factory = r[o1].factory
    BY <1>9 DEF Kept
  <2>2. f[o1].refcnt \in Int
    BY BlocksFields
  <2> QED BY <1>5, <1>8, <1>9, <2>1, <2>2
<1>11. /\ v \in Blocks
       /\ \A q \in Fblock : /\ Kept(v[q], u[q])
                            /\ q # o1 \/ u[o1].refcnt # 1 => v[q].state = u[q].state
                            /\ v[q].refcnt = u[q].refcnt - (IF q = o1 THEN 1 ELSE 0)
       /\ u[o1].refcnt = 1 /\ u[o1].factory # NULL => v[o1].state = "rcu"
  BY <1>9, PutFacts
<1> HIDE DEF v
<1>12. v[o1].state = "rcu" /\ v[o2].refcnt = f[o1].refcnt + 1
  <2>2. f[o1].refcnt \in Int
    BY BlocksFields
  <2> QED BY <1>5, <1>10, <1>11, <2>2
<1>13. /\ g \in Blocks
       /\ \A q \in Fblock : /\ Kept(g[q], v[q])
                            /\ q # o2 \/ v[o2].refcnt # 1 => g[q].state = v[q].state
                            /\ g[q].refcnt = v[q].refcnt - (IF q = o2 THEN 1 ELSE 0)
  <2>1. PutOnce(v, o2, g)
    BY <1>4, <1>11, PutOnceFacts
  <2> QED BY <2>1 DEF PutOnce
<1>14. v[o2].refcnt # 1
  <2>2. f[o1].refcnt \in Int
    BY BlocksFields
  <2> QED BY <1>12, <2>2
<1>15. ASSUME NEW q \in Fblock, q \notin {o1, o2}
       PROVE  Alike(g[q], f[q]) /\ g[q].refcnt = f[q].refcnt
  <2>1. g[q].state = r[q].state
    BY <1>9, <1>11, <1>13, <1>15
  <2>2. g[q].refcnt = f[q].refcnt
    BY <1>8, <1>9, <1>11, <1>13, <1>15, BlocksFields
  <2>3. Kept(g[q], r[q]) /\ Alike(r[q], f[q])
    BY <1>8, <1>9, <1>11, <1>13, <1>15 DEF Kept
  <2> QED BY <2>1, <2>2, <2>3 DEF Alike, Kept
<1>16. Kept(g[o2], r[o2]) /\ Kept(g[o1], r[o1])
  BY <1>9, <1>11, <1>13 DEF Kept
<1>17. g[o2].state = r[o2].state /\ g[o2].refcnt = f[o1].refcnt /\ g[o1].state = "rcu"
  <2>2. f[o1].refcnt \in Int
    BY BlocksFields
  <2> QED BY <1>5, <1>9, <1>11, <1>12, <1>13, <1>14, <2>2
<1>18. Rest(p[o1], f[o1]) /\ Rest(p[o2], f[o2]) /\ h[o1].port = f[o1].port /\ h[o2].port = f[o2].port
  BY <1>1, <1>6 DEF Rest, Alike, Kept
<1>19. TookOver(f, o1, o2, keep, g)
  <2>1. /\ g[o2].state = f[o2].state /\ g[o2].factory = f[o2].factory
        /\ g[o2].idp = f[o1].idp /\ g[o2].name = f[o1].name
        /\ g[o2].refcnt = f[o1].refcnt
        /\ g[o2].notifiers = f[o1].notifiers /\ g[o2].others = f[o1].others
    BY <1>7, <1>16, <1>17, <1>18 DEF Rest, Kept
  <2>2. /\ keep => g[o2].port = f[o1].port
        /\ ~keep => g[o2].port = f[o2].port
        /\ ~keep => g[o1].port = f[o1].port
        /\ keep => g[o1].port = f[o2].port
    BY <1>6, <1>7, <1>16, <1>18 DEF Kept
  <2>3. g[o1].state = "rcu" /\ g[o1].notifiers = f[o2].notifiers
    BY <1>7, <1>16, <1>17, <1>18 DEF Rest, Kept
  <2> QED BY <1>13, <1>15, <2>1, <2>2, <2>3 DEF TookOver
<1>20. r[o2].notifiers = f[o1].notifiers /\ r[o1].notifiers = f[o2].notifiers
  BY <1>7, <1>18 DEF Rest
<1>21. Selfref(nn, f[o1].notifiers, o2, hn)
  BY <1>5a, <1>20, SelfrefFacts
<1>22. Selfref(hn, f[o2].notifiers, o1, gn)
  <2>1. hn \in Nodes
    BY <1>21 DEF Selfref
  <2> QED BY <1>3, <1>20, <2>1, SelfrefFacts
<1> QED BY <1>5, <1>19, <1>21, <1>22 DEF Migrated

-----------------------------------------------------------------------------
(* The end of a command *)

(* Nodes that are in no list do not matter. *)
LEMMA Recollected ==
    ASSUME NEW f, NEW nn, NEW o1, NEW o2, NEW g, NEW gn, NEW hn \in Nodes, Agree(g, gn, hn)
    PROVE  /\ Untouched(f, nn, g, gn) => Untouched(f, nn, g, hn)
           /\ HalfUnbound(f, nn, o1, o2, g, gn) => HalfUnbound(f, nn, o1, o2, g, hn)
           /\ FullyUnbound(f, nn, o1, o2, g, gn) => FullyUnbound(f, nn, o1, o2, g, hn)
           /\ FullyBound(f, nn, o1, o2, g, gn) => FullyBound(f, nn, o1, o2, g, hn)
<1>1. Agree(g, nn, gn) => Agree(g, nn, hn)
  BY DEF Agree
<1>2. ListsSame(g, gn, g, hn)
  BY SameNodes DEF Agree
<1>3. /\ Lists(g, gn) => Lists(g, hn)
      /\ \A q \in Fblock : \A j : NNodes(g, hn, q, j) = NNodes(g, gn, q, j)
      /\ \A j : NNaming(g, hn, j) = NNaming(g, gn, j)
      /\ \A map : Delivered(g, gn, map) => Delivered(g, hn, map)
  BY <1>2 DEF ListsSame
<1>4. NodesUnbound(f, nn, o1, o2, g, gn) => NodesUnbound(f, nn, o1, o2, g, hn)
  BY <1>3 DEF NodesUnbound
<1>5. NodesBound(f, nn, o1, o2, g, gn) => NodesBound(f, nn, o1, o2, g, hn)
  BY <1>3 DEF NodesBound
<1>6. Untouched(f, nn, g, gn) => Untouched(f, nn, g, hn)
  BY <1>1 DEF Untouched
<1>7. HalfUnbound(f, nn, o1, o2, g, gn) => HalfUnbound(f, nn, o1, o2, g, hn)
  BY <1>1 DEF HalfUnbound
<1>8. FullyUnbound(f, nn, o1, o2, g, gn) => FullyUnbound(f, nn, o1, o2, g, hn)
  BY <1>4 DEF FullyUnbound
<1>9. FullyBound(f, nn, o1, o2, g, gn) => FullyBound(f, nn, o1, o2, g, hn)
  BY <1>5 DEF FullyBound
<1> QED BY <1>6, <1>7, <1>8, <1>9

(* What a command writes back. *)
LEMMA CommitFacts ==
    ASSUME NEW m, NEW g \in Blocks, NEW gn \in Nodes, m.fb = g, m.fn = gn, Commit(m)
    PROVE  fb' = g /\ fn' \in Nodes /\ Agree(g, gn, fn')
<1>1. fb' = g /\ fn' = [n \in Nb |-> IF Reachable(g, n) THEN gn[n] ELSE NoNode]
  BY DEF Commit
<1>2. NoNode \in NodeRec
  BY IdpAssumption DEF NoNode, NodeRec, IDP_UNKNOWN
<1>3. \A n \in Nb : (IF Reachable(g, n) THEN gn[n] ELSE NoNode) \in NodeRec
  BY <1>2 DEF Nodes
<1>4. fn' \in Nodes
  BY <1>1, <1>3 DEF Nodes
<1>5. \A q \in Fblock : \A n \in Elems(g[q].notifiers) : n \in Nb /\ Reachable(g, n)
  BY DEF Elems, Reachable
<1> QED BY <1>1, <1>4, <1>5 DEF Agree

(* The live blocks of a memory. *)
LiveIn(f) == {o \in Fblock : f[o].state = "live"}

(* The registry: fblmap leads to live blocks under their own idps, all of  *)
(* them given away and different; each bound port is worth three           *)
(* references; and a device's block is alive, is nobody else's and has no  *)
(* factory.                                                                *)
Registered(map, cnt, f, hk) ==
    /\ \A i \in Idp : map[i] # NULL => map[i] \in LiveIn(f) /\ f[map[i]].idp = i
    /\ \A o \in LiveIn(f) : f[o].idp \in 1 .. cnt
    /\ \A o, q \in LiveIn(f) : f[o].idp = f[q].idp => o = q
    /\ \A o \in LiveIn(f) : f[o].refcnt >= 1 + 3 * NBound(f[o].port)
    /\ \A d \in Device : hk[d] # NULL => hk[d] \in LiveIn(f) /\ f[hk[d]].factory = NULL
    /\ \A d, e \in Device : hk[d] # NULL /\ hk[d] = hk[e] => d = e

(* The registry as a state predicate: inductive together with the types. *)
RegistryInv == Registered(fblmap, idp_counter, fb, hooked)

Base == TypeOK /\ RegistryInv

(* The types and the registry, in the terms of the lemmas. *)
LEMMA BaseFacts ==
    ASSUME Base
    PROVE  /\ fb \in Blocks /\ fn \in Nodes
           /\ fblmap \in [Idp -> Fblock \cup {NULL}]
           /\ idpmap \in [Name -> 0 .. MaxIdp]
           /\ idp_counter \in 0 .. MaxIdp
           /\ hooked \in [Device -> Fblock \cup {NULL}]
           /\ Registered(fblmap, idp_counter, fb, hooked)
           /\ \A o \in LiveIn(fb) : fb[o].idp \in Idp
           /\ \A o \in LiveIn(fb) : fb[o].refcnt >= 1 + 3 * NBound(fb[o].port)
           /\ \A o \in LiveIn(fb) : fb[o].refcnt >= 1
<1>1. fb \in Blocks /\ fn \in Nodes /\ idp_counter \in 0 .. MaxIdp
  BY DEF Base, TypeOK, Blocks, Nodes
<1>2. \A o \in LiveIn(fb) : fb[o].idp \in Idp
  BY <1>1, IdpAssumption DEF Base, RegistryInv, Registered, Idp
<1>3. \A o \in LiveIn(fb) : fb[o].refcnt >= 1 + 3 * NBound(fb[o].port)
  BY DEF Base, RegistryInv, Registered
<1>4. \A o \in LiveIn(fb) : NBound(fb[o].port) \in Nat /\ fb[o].refcnt \in Int
  BY <1>1, BlocksFields, PortCounts DEF LiveIn
<1>5. \A o \in LiveIn(fb) : fb[o].refcnt >= 1
  BY <1>3, <1>4
<1> QED BY <1>1, <1>2, <1>3, <1>5 DEF Base, TypeOK, RegistryInv

(* A name that is found leads to a live block under its own idp. *)
LEMMA FoundFacts ==
    ASSUME Base, NEW n \in Name, Found(n)
    PROVE  /\ Search(n) \in Fblock /\ Search(n) \in LiveIn(fb)
           /\ idpmap[n] = fb[Search(n)].idp /\ idpmap[n] \in Idp
           /\ fblmap[fb[Search(n)].idp] = Search(n)
           /\ fb[Search(n)].idp \in Idp
<1>1. idpmap[n] # IDP_UNKNOWN /\ Search(n) = fblmap[idpmap[n]] /\ Search(n) # NULL
  BY DEF Found, Search
<1>2. idpmap[n] \in Idp
  BY <1>1, BaseFacts, IdpAssumption DEF Idp, IDP_UNKNOWN
<1>3. Search(n) \in LiveIn(fb) /\ fb[Search(n)].idp = idpmap[n]
  BY <1>1, <1>2 DEF Base, RegistryInv, Registered
<1> QED BY <1>1, <1>2, <1>3 DEF LiveIn

-----------------------------------------------------------------------------
(* The commands *)

(* userctl_bind. *)
LEMMA BindStep ==
    ASSUME Base, NEW n1 \in Name, NEW n2 \in Name, Bind(n1, n2),
           NEW o1, o1 = Search(n1), NEW o2, o2 = Search(n2)
    PROVE  \/ Untouched(fb, fn, fb', fn')
           \/ FullyBound(fb, fn, o1, o2, fb', fn')
<1> DEFINE set == PortsSet(Get2(Get2(fb, o1, o2), o1, o2), o1, o2)
           g0 == set.fb
           m0 == [fb |-> set.fb, fn |-> fn]
<1>1. fb \in Blocks /\ fn \in Nodes
  BY BaseFacts
<1>2. Found(n1) /\ Found(n2)
  BY DEF Bind
<1>3. /\ o1 \in Fblock /\ o2 \in Fblock /\ fb[o1].idp \in Idp /\ fb[o2].idp \in Idp
      /\ fb[o1].refcnt >= 1 /\ fb[o2].refcnt >= 1
  BY <1>2, FoundFacts, BaseFacts
<1>4. \/ /\ ~set.ok
         /\ Commit([[m0 EXCEPT !.fb = Put2(@, o1, o2)] EXCEPT !.fb = Put2(@, o1, o2)])
      \/ /\ set.ok
         /\ Cardinality(UnusedNodes(m0)) >= 2
         /\ Commit([Subscribe(Subscribe(m0, o1, o2), o2, o1) EXCEPT !.fb = Put2(@, o1, o2)])
  BY DEF Bind
<1>5. /\ g0 \in Blocks /\ set.ok \in BOOLEAN
      /\ \A q \in Fblock :
            Rest(g0[q], fb[q]) /\ g0[q].refcnt = fb[q].refcnt + 2 * Ends(q, o1, o2)
      /\ set.ok => PortsBound(fb, g0, o1, o2)
      /\ ~set.ok => PortsAsBefore(fb, g0)
  BY <1>1, <1>3, BindPrepared
<1>6. m0 = [fb |-> g0, fn |-> fn]
  OBVIOUS
<1> HIDE DEF set, g0, m0
<1>7. CASE ~set.ok
  <2> DEFINE g == Put2(Put2(g0, o1, o2), o1, o2)
             mm == [[m0 EXCEPT !.fb = Put2(@, o1, o2)] EXCEPT !.fb = Put2(@, o1, o2)]
  <2>1. Untouched(fb, fn, g, fn)
    BY <1>1, <1>3, <1>5, <1>7, BindRefused
  <2>2. Commit(mm) /\ mm.fb = g /\ mm.fn = fn
    BY <1>4, <1>6, <1>7
  <2> HIDE DEF g, mm
  <2>3. g \in Blocks
    BY <2>1 DEF Untouched
  <2>4. fb' = g /\ fn' \in Nodes /\ Agree(g, fn, fn')
    BY <1>1, <2>2, <2>3, CommitFacts
  <2>5. Untouched(fb, fn, g, fn')
    BY <2>1, <2>4, Recollected
  <2> QED BY <2>4, <2>5
<1>8. CASE set.ok
  <2> DEFINE m == Subscribe(Subscribe(m0, o1, o2), o2, o1)
             g == Put2(m.fb, o1, o2)
             gn == m.fn
             mm == [m EXCEPT !.fb = Put2(@, o1, o2)]
  <2>1. Cardinality(UnusedNodes(m0)) >= 2 /\ Commit(mm)
    BY <1>4, <1>8
  <2>2. FullyBound(fb, fn, o1, o2, g, gn)
    BY <1>1, <1>3, <1>5, <1>6, <1>8, <2>1, BindDone
  <2>3. mm.fb = g /\ mm.fn = gn
    BY DEF Subscribe
  <2> HIDE DEF g, gn, mm
  <2>4. g \in Blocks /\ gn \in Nodes
    BY <2>2 DEF FullyBound
  <2>5. fb' = g /\ fn' \in Nodes /\ Agree(g, gn, fn')
    BY <2>1, <2>3, <2>4, CommitFacts
  <2>6. FullyBound(fb, fn, o1, o2, g, fn')
    BY <2>2, <2>5, Recollected
  <2> QED BY <2>5, <2>6
<1> QED BY <1>5, <1>7, <1>8

(* userctl_unbind. *)
LEMMA UnbindStep ==
    ASSUME Base, NEW n1 \in Name, NEW n2 \in Name, Unbind(n1, n2),
           NEW o1, o1 = Search(n1), NEW o2, o2 = Search(n2)
    PROVE  \/ Untouched(fb, fn, fb', fn')
           \/ HalfUnbound(fb, fn, o1, o2, fb', fn')
           \/ FullyUnbound(fb, fn, o1, o2, fb', fn')
<1> DEFINE m0 == [fb |-> Get2(fb, o1, o2), fn |-> fn]
           m  == Unbound(m0, o1, o2)
           g  == Put2(m.fb, o1, o2)
           gn == m.fn
           mm == [m EXCEPT !.fb = Put2(@, o1, o2)]
<1>1. fb \in Blocks /\ fn \in Nodes
  BY BaseFacts
<1>2. Found(n1) /\ Found(n2)
  BY DEF Unbind
<1>3. /\ o1 \in Fblock /\ o2 \in Fblock /\ fb[o1].idp \in Idp /\ fb[o2].idp \in Idp
      /\ \A q \in {o1, o2} : fb[q].refcnt >= 1 + 3 * NBound(fb[q].port)
  BY <1>2, FoundFacts, BaseFacts
<1>4. Commit(mm)
  <2>1. [Memory EXCEPT !.fb = Get2(@, o1, o2)] = m0
    BY DEF Memory
  <2> QED BY <2>1 DEF Unbind
<1>5. /\ m = [fb |-> m.fb, fn |-> gn]
      /\ \/ Untouched(fb, fn, g, gn)
         \/ HalfUnbound(fb, fn, o1, o2, g, gn)
         \/ FullyUnbound(fb, fn, o1, o2, g, gn)
  BY <1>1, <1>3, UnbindFacts
<1> HIDE DEF m
<1>6. mm.fb = g /\ mm.fn = gn
  BY <1>5
<1> HIDE DEF m0, g, gn, mm
<1>7. g \in Blocks /\ gn \in Nodes
  BY <1>5 DEF Untouched, HalfUnbound, FullyUnbound
<1>8. fb' = g /\ fn' \in Nodes /\ Agree(g, gn, fn')
  BY <1>4, <1>6, <1>7, CommitFacts
<1>9. \/ Untouched(fb, fn, g, fn')
      \/ HalfUnbound(fb, fn, o1, o2, g, fn')
      \/ FullyUnbound(fb, fn, o1, o2, g, fn')
  BY <1>5, <1>8, Recollected
<1> QED BY <1>8, <1>9

(* The memory after a subscription by command. *)
SubscribeStepped(f, nn, us, remote, g, gn) ==
    /\ g \in Blocks /\ gn \in Nodes
    /\ \A q \in Fblock :
          /\ Placed(g[q], f[q])
          /\ g[q].state = f[q].state
          /\ g[q].refcnt = f[q].refcnt + Ends(q, us, remote)
    /\ Lists(f, nn) => ListsUp(f, nn, us, remote, g, gn)

(* userctl_subscribe. *)
LEMMA SubscribeStep ==
    ASSUME Base, NEW n1 \in Name, NEW n2 \in Name, SubscribeCmd(n1, n2),
           NEW us, us = Search(n2), NEW remote, remote = Search(n1)
    PROVE  SubscribeStepped(fb, fn, us, remote, fb', fn')
<1> DEFINE m  == Subscribe(Memory, us, remote)
           g  == m.fb
           gn == m.fn
           n  == NewNode(Memory)
<1>1. fb \in Blocks /\ fn \in Nodes
  BY BaseFacts
<1>2. Found(n1) /\ Found(n2) /\ UnusedNodes(Memory) # {} /\ Commit(m)
  BY DEF SubscribeCmd
<1>3. us \in Fblock /\ remote \in Fblock
  BY <1>2, FoundFacts
<1>4. Subscribed(fb, fn, us, remote, n, g, gn)
  BY <1>1, <1>2, <1>3, SubscribeFacts DEF Memory
<1> HIDE DEF g, gn, n
<1>5. g \in Blocks /\ gn \in Nodes
  BY <1>4 DEF Subscribed
<1>6. fb' = g /\ fn' \in Nodes /\ Agree(g, gn, fn')
  BY <1>2, <1>5, CommitFacts DEF g, gn
<1>7. Lists(fb, fn) => ListsUp(fb, fn, us, remote, g, gn)
  BY <1>1, <1>3, <1>4, SubscribeNodes
<1>8. ListsSame(g, gn, g, fn')
  BY <1>6, SameNodes DEF Agree
<1>9. ListsUp(fb, fn, us, remote, g, gn) => ListsUp(fb, fn, us, remote, g, fn')
  BY <1>8 DEF ListsSame, ListsUp, CountUp
<1> QED BY <1>4, <1>6, <1>7, <1>9 DEF SubscribeStepped, Subscribed

(* The nodes after a replacement: o2 has the list of o1. *)
NodesReplaced(f, nn, o1, o2, g, gn) ==
    /\ Lists(g, gn)
    /\ \A q \in Fblock : q \notin {o1, o2} =>
          /\ NListed(g, q) = NListed(f, q)
          /\ \A j : NNodes(g, gn, q, j) = NNodes(f, nn, q, j)
    /\ NListed(g, o2) = NListed(f, o1)
    /\ \A j : NNodes(g, gn, o2, j) = NNodes(f, nn, o1, j)
    /\ \A j : NNaming(g, gn, j) = NNaming(f, nn, j)
    /\ \A q \in Fblock : \A n \in Elems(g[q].notifiers) :
          \E p \in Fblock : n \in Elems(f[p].notifiers) /\ gn[n].remote = nn[n].remote

(* A replacement keeps the lists in order: the nodes of both blocks are    *)
(* made to point to their new owner.                                       *)
LEMMA ReplaceNodes ==
    ASSUME NEW f \in Blocks, NEW nn \in Nodes, NEW o1 \in Fblock, NEW o2 \in Fblock, o1 # o2,
           NEW keep, NEW g, TookOver(f, o1, o2, keep, g), Lists(f, nn),
           NEW hn, Selfref(nn, f[o1].notifiers, o2, hn),
           NEW gn, Selfref(hn, f[o2].notifiers, o1, gn)
    PROVE  NodesReplaced(f, nn, o1, o2, g, gn)
<1> DEFINE pre(q) == IF q = o1 THEN o2 ELSE IF q = o2 THEN o1 ELSE q
<1>1. ASSUME NEW q \in Fblock
      PROVE  /\ pre(q) \in Fblock /\ pre(pre(q)) = q
             /\ g[q].notifiers = f[pre(q)].notifiers
  BY DEF TookOver, Alike, Kept
<1>2. pre(o2) = o1 /\ \A q : q \notin {o1, o2} => pre(q) = q
  OBVIOUS
<1>3. \A n \in Nb : gn[n].remote = nn[n].remote
  BY DEF Selfref
<1>4. ASSUME NEW q \in Fblock, NEW n \in Elems(g[q].notifiers) PROVE gn[n].self = q
  <2>1. n \in Nb /\ n \in Elems(f[pre(q)].notifiers) /\ nn[n].self = pre(q)
    BY <1>1 DEF Elems, Lists
  <2>2. \A p \in Fblock : n \in Elems(f[p].notifiers) => p = pre(q)
    BY <2>1 DEF Lists
  <2>3. CASE q = o1
    BY <2>1, <2>3 DEF Selfref
  <2>4. CASE q = o2
    BY <2>1, <2>2, <2>4 DEF Selfref
  <2>5. CASE q \notin {o1, o2}
    BY <2>1, <2>2, <2>5 DEF Selfref
  <2> QED BY <2>3, <2>4, <2>5
<1> HIDE DEF pre
<1>5. Lists(g, gn)
  BY <1>1, <1>4 DEF Lists
<1>6. ASSUME NEW q \in Fblock, NEW p \in Fblock, p = pre(q)
      PROVE  /\ NListed(g, q) = NListed(f, p)
             /\ \A j : NNodes(g, gn, q, j) = NNodes(f, nn, p, j)
  <2>1. Elems(g[q].notifiers) = Elems(f[p].notifiers)
    BY <1>1, <1>6
  <2>2. ASSUME NEW j PROVE ToIn(g, gn, q, j) = ToIn(f, nn, p, j)
    BY <1>3, <2>1 DEF ToIn, Elems
  <2> QED BY <2>1, <2>2 DEF NListed, NNodes
<1>7. ASSUME NEW n \in Nb
      PROVE  (\E q \in Fblock : n \in Elems(g[q].notifiers))
                <=> (\E q \in Fblock : n \in Elems(f[q].notifiers))
  BY <1>1
<1>8. ASSUME NEW j PROVE NNaming(g, gn, j) = NNaming(f, nn, j)
  <2>1. NamingIn(g, gn, j) = NamingIn(f, nn, j)
    BY <1>3, <1>7 DEF NamingIn
  <2> QED BY <2>1 DEF NNaming
<1>9. ASSUME NEW q \in Fblock, NEW n \in Elems(g[q].notifiers)
      PROVE  \E p \in Fblock : n \in Elems(f[p].notifiers) /\ gn[n].remote = nn[n].remote
  BY <1>1, <1>3 DEF Elems
<1> QED BY <1>2, <1>5, <1>6, <1>8, <1>9 DEF NodesReplaced

(* The memory after a replacement. *)
Replaced(f, nn, o1, o2, g, gn) ==
    /\ gn \in Nodes
    /\ o1 # o2 /\ f[o2].refcnt = 1
    /\ TookOver(f, o1, o2, f[o1].factory = f[o2].factory, g)
    /\ Lists(f, nn) => NodesReplaced(f, nn, o1, o2, g, gn)

(* userctl_replace: only a block with no other reference than its          *)
(* registration replaces another, and never itself.                        *)
LEMMA ReplaceStep ==
    ASSUME Base, NEW n1 \in Name, NEW n2 \in Name, Replace(n1, n2, FALSE),
           NEW o1, o1 = Search(n1), NEW o2, o2 = Search(n2)
    PROVE  Replaced(fb, fn, o1, o2, fb', fn')
<1> DEFINE keep == fb[o1].factory = fb[o2].factory
           m0 == [fb |-> Get2(fb, o1, o2), fn |-> fn]
           m  == Migrate(m0, o2, o1, keep)
           g  == Put2(Put(m.fb, o1), o1, o2)
           gn == m.fn
           mm == [m EXCEPT !.fb = Put2(Put(@, o1), o1, o2)]
<1>1. fb \in Blocks /\ fn \in Nodes
  BY BaseFacts
<1>2. Found(n1) /\ Found(n2) /\ fb[o1].factory # NULL /\ Get2(fb, o1, o2)[o2].refcnt <= 2
  BY DEF Replace
<1>3. o1 \in Fblock /\ o2 \in Fblock /\ fb[o1].refcnt >= 1 /\ fb[o2].refcnt >= 1
  BY <1>2, FoundFacts, BaseFacts
<1>4. Commit(mm)
  <2>1. [Memory EXCEPT !.fb = Get2(@, o1, o2)] = m0
    BY DEF Memory
  <2> QED BY <2>1 DEF Replace
<1>5. mm.fb = g /\ mm.fn = gn
  BY DEF Migrate
<1>6. keep \in BOOLEAN
  OBVIOUS
<1>7. PICK hn : /\ o1 # o2 /\ fb[o2].refcnt = 1
                /\ TookOver(fb, o1, o2, keep, g)
                /\ Selfref(fn, fb[o1].notifiers, o2, hn)
                /\ Selfref(hn, fb[o2].notifiers, o1, gn)
  <2>1. Migrated(fb, fn, o1, o2, keep, g, gn)
    BY <1>1, <1>2, <1>3, <1>6, ReplaceFacts
  <2> QED BY <2>1, Zenon DEF Migrated
<1> HIDE DEF m0, m, g, gn, mm
<1>8. g \in Blocks /\ gn \in Nodes
  BY <1>7 DEF TookOver, Selfref
<1>9. fb' = g /\ fn' \in Nodes /\ Agree(g, gn, fn')
  BY <1>4, <1>5, <1>8, CommitFacts
<1>10. Lists(fb, fn) => NodesReplaced(fb, fn, o1, o2, g, gn)
  BY <1>1, <1>3, <1>7, ReplaceNodes
<1>11. ListsSame(g, gn, g, fn')
  BY <1>9, SameNodes DEF Agree
<1>12. NodesReplaced(fb, fn, o1, o2, g, gn) => NodesReplaced(fb, fn, o1, o2, g, fn')
  <2>1. \A q \in Fblock : \A n \in Elems(g[q].notifiers) : fn'[n] = gn[n]
    BY <1>9 DEF Agree
  <2> QED BY <1>3, <1>11, <2>1 DEF ListsSame, NodesReplaced
<1>13. Lists(fb, fn) => NodesReplaced(fb, fn, o1, o2, g, fn')
  BY <1>10, <1>12
<1> QED BY <1>7, <1>9, <1>13 DEF Replaced

(* The memory after o was registered as n under the idp i. *)
BlockBorn(f, o, n, type, i, g) ==
    /\ g \in Blocks
    /\ \A q \in Fblock : q # o => g[q] = f[q]
    /\ g[o].state = "live" /\ g[o].refcnt = 1 /\ g[o].idp = i
    /\ g[o].name = n /\ g[o].factory = type /\ g[o].port = NoPorts
    /\ g[o].notifiers = f[o].notifiers

(* The memory after o is no longer alive. *)
BlockGone(f, o, g) ==
    /\ g \in Blocks
    /\ \A q \in Fblock : q # o => Alike(g[q], f[q]) /\ g[q].refcnt = f[q].refcnt
    /\ g[o].state # "live" /\ g[o].notifiers = f[o].notifiers

(* Free memory has no ports; its list is what it was. *)
LEMMA FreeFblockFacts ==
    ASSUME NEW s \in Seq(Nb), NEW r, r = FreeFblock(s)
    PROVE  r \in FblockRec /\ r.state = "free" /\ r.notifiers = s /\ r.port = NoPorts
<1>1. NoPorts \in PortMap
  BY IdpAssumption DEF NoPorts, PortMap, IDP_UNKNOWN
<1> QED BY <1>1, IdpAssumption DEF FreeFblock, FblockRec, PortMap, IDP_UNKNOWN

(* init_fblock and the constructors. *)
LEMMA NewFblockFacts ==
    ASSUME fb \in Blocks, NEW o \in Fblock, NEW n \in Name, NEW type \in Type \cup {NULL},
           NEW i \in 0 .. MaxIdp, NEW g, g = [fb EXCEPT ![o] = NewFblock(o, n, type, i)]
    PROVE  BlockBorn(fb, o, n, type, i, g)
<1> DEFINE s == fb[o].notifiers
           e == FreeFblock(s)
           r == NewFblock(o, n, type, i)
<1>1. s \in Seq(Nb)
  BY BlocksFields
<1>2. e \in FblockRec /\ e.notifiers = s /\ e.port = NoPorts
  BY <1>1, FreeFblockFacts
<1>3. r = [e EXCEPT !.state = "live", !.refcnt = 1, !.idp = i, !.name = n, !.factory = type]
  BY DEF NewFblock
<1> HIDE DEF e, r, s
<1>4. /\ r \in FblockRec /\ r.state = "live" /\ r.refcnt = 1 /\ r.idp = i
      /\ r.name = n /\ r.factory = type /\ r.port = NoPorts /\ r.notifiers = s
  <2>1. /\ r.state = "live" /\ r.refcnt = 1 /\ r.idp = i /\ r.name = n /\ r.factory = type
        /\ r.port = e.port /\ r.notifiers = e.notifiers
    BY <1>2, <1>3 DEF FblockRec
  <2>2. n \in Name \cup {NULL} /\ 1 \in Int
    OBVIOUS
  <2>3. r \in FblockRec
    BY <1>2, <1>3, <2>2 DEF FblockRec
  <2> QED BY <1>2, <2>1, <2>3
<1>5. g \in Blocks /\ g[o] = r /\ \A q \in Fblock : q # o => g[q] = fb[q]
  BY <1>4 DEF Blocks, r
<1> QED BY <1>4, <1>5 DEF BlockBorn, s

(* The memory is given back to the slab. *)
LEMMA FreedFacts ==
    ASSUME NEW f \in Blocks, NEW o \in Fblock,
           NEW g, g = [f EXCEPT ![o] = FreeFblock(@.notifiers)]
    PROVE  BlockGone(f, o, g)
<1> DEFINE r == FreeFblock(f[o].notifiers)
<1>1. f[o].notifiers \in Seq(Nb)
  BY BlocksFields
<1>2. r \in FblockRec /\ r.state = "free" /\ r.notifiers = f[o].notifiers
  BY <1>1, FreeFblockFacts
<1>3. g = [f EXCEPT ![o] = r]
  OBVIOUS
<1> HIDE DEF r
<1>4. g \in Blocks /\ g[o] = r /\ \A q \in Fblock : q # o => g[q] = f[q]
  BY <1>2, <1>3 DEF Blocks
<1>5. \A q \in Fblock : Alike(f[q], f[q])
  BY DEF Alike, Kept
<1> QED BY <1>2, <1>4, <1>5 DEF BlockGone

(* The last reference to a block with a factory is dropped. *)
LEMMA DroppedFacts ==
    ASSUME NEW f \in Blocks, NEW o \in Fblock, f[o].refcnt = 1, f[o].factory # NULL,
           NEW g, g = Put(f, o)
    PROVE  BlockGone(f, o, g)
<1>1. /\ g \in Blocks
      /\ \A q \in Fblock : /\ Kept(g[q], f[q])
                           /\ q # o \/ f[o].refcnt # 1 => g[q].state = f[q].state
                           /\ g[q].refcnt = f[q].refcnt - (IF q = o THEN 1 ELSE 0)
      /\ f[o].refcnt = 1 /\ f[o].factory # NULL => g[o].state = "rcu"
  BY PutFacts
<1>2. \A q \in Fblock : f[q].refcnt \in Int
  BY BlocksFields
<1>3. ASSUME NEW q \in Fblock, q # o PROVE Alike(g[q], f[q]) /\ g[q].refcnt = f[q].refcnt
  BY <1>1, <1>2, <1>3 DEF Alike
<1>4. g[o].state # "live" /\ g[o].notifiers = f[o].notifiers
  BY <1>1 DEF Kept
<1> QED BY <1>1, <1>3, <1>4 DEF BlockGone

(* An idp is given away and the block is not registered. *)
Skipped ==
    /\ idp_counter < MaxIdp /\ idp_counter' = idp_counter + 1
    /\ UNCHANGED <<fblmap, idpmap, fb, fn, hooked>>

(* A block is registered. *)
Born(o, n, type) ==
    /\ o \in Fblock /\ fb[o].state = "free"
    /\ idp_counter < MaxIdp /\ idp_counter' = idp_counter + 1
    /\ idpmap[n] = IDP_UNKNOWN
    /\ fblmap' = [fblmap EXCEPT ![idp_counter + 1] = o]
    /\ idpmap' = [idpmap EXCEPT ![n] = idp_counter + 1]
    /\ BlockBorn(fb, o, n, type, idp_counter + 1, fb')
    /\ fn' = fn

(* register_fblock_namespace registers the block or loses an idp. *)
LEMMA RegisterFacts ==
    ASSUME Base, NEW o \in Fblock, fb[o].state = "free", NEW n \in Name,
           NEW type \in Type \cup {NULL}, Register(o, n, type), fn' = fn
    PROVE  \/ Born(o, n, type)
           \/ /\ idp_counter < MaxIdp /\ idp_counter' = idp_counter + 1
              /\ UNCHANGED <<fblmap, idpmap, fb, fn>>
<1>1. fb \in Blocks /\ idp_counter \in 0 .. MaxIdp
  BY BaseFacts
<1>2. idp_counter < MaxIdp /\ idp_counter' = idp_counter + 1
  BY DEF Register
<1>3. idp_counter + 1 \in 0 .. MaxIdp
  BY <1>1, <1>2, IdpAssumption
<1>4. CASE UNCHANGED <<fblmap, idpmap, fb>>
  BY <1>2, <1>4
<1>5. CASE /\ idpmap[n] = IDP_UNKNOWN
           /\ fblmap' = [fblmap EXCEPT ![idp_counter + 1] = o]
           /\ idpmap' = [idpmap EXCEPT ![n] = idp_counter + 1]
           /\ fb' = [fb EXCEPT ![o] = NewFblock(o, n, type, idp_counter + 1)]
  <2>1. BlockBorn(fb, o, n, type, idp_counter + 1, fb')
    BY <1>1, <1>3, <1>5, NewFblockFacts
  <2> QED BY <1>2, <1>5, <2>1 DEF Born
<1> QED BY <1>4, <1>5 DEF Register

(* userctl_add. *)
LEMMA AddStep ==
    ASSUME Base, NEW n \in FbName, NEW type \in Type, Add(n, type)
    PROVE  \/ Skipped
           \/ hooked' = hooked /\ \E o : Born(o, n, type)
<1>1. PICK o \in Fblock : fb[o].state = "free" /\ Register(o, n, type)
  BY DEF Add
<1>2. n \in Name /\ fn' = fn /\ hooked' = hooked
  BY DEF Add, Name
<1>3. \/ Born(o, n, type)
      \/ /\ idp_counter < MaxIdp /\ idp_counter' = idp_counter + 1
         /\ UNCHANGED <<fblmap, idpmap, fb, fn>>
  BY <1>1, <1>2, RegisterFacts
<1> QED BY <1>2, <1>3 DEF Skipped

(* fb_eth_start_hook_dev. *)
LEMMA HookStep ==
    ASSUME Base, NEW d \in Device, Hook(d)
    PROVE  \/ Skipped
           \/ /\ hooked[d] = NULL
              /\ \E o : Born(o, d, NULL) /\ hooked' = [hooked EXCEPT ![d] = o]
<1>1. PICK o \in Fblock :
          /\ fb[o].state = "free"
          /\ \/ /\ Register(o, d, NULL)
                /\ hooked' = IF fb'[o].state = "live" THEN [hooked EXCEPT ![d] = o] ELSE hooked
             \/ /\ idp_counter < MaxIdp
                /\ idp_counter' = idp_counter + 1
                /\ UNCHANGED <<fblmap, idpmap, fb, hooked>>
  BY DEF Hook
<1>2. d \in Name /\ fn' = fn /\ hooked[d] = NULL
  BY DEF Hook, Name
<1>3. CASE /\ Register(o, d, NULL)
           /\ hooked' = IF fb'[o].state = "live" THEN [hooked EXCEPT ![d] = o] ELSE hooked
  <2>1. \/ Born(o, d, NULL)
        \/ /\ idp_counter < MaxIdp /\ idp_counter' = idp_counter + 1
           /\ UNCHANGED <<fblmap, idpmap, fb, fn>>
    BY <1>1, <1>2, <1>3, RegisterFacts
  <2>2. CASE Born(o, d, NULL)
    <3>1. fb'[o].state = "live"
      BY <2>2 DEF Born, BlockBorn
    <3> QED BY <1>2, <1>3, <2>2, <3>1
  <2>3. CASE /\ idp_counter < MaxIdp /\ idp_counter' = idp_counter + 1
             /\ UNCHANGED <<fblmap, idpmap, fb, fn>>
    BY <1>1, <1>3, <2>3 DEF Skipped
  <2> QED BY <2>1, <2>2, <2>3
<1>4. CASE /\ idp_counter < MaxIdp
           /\ idp_counter' = idp_counter + 1
           /\ UNCHANGED <<fblmap, idpmap, fb, hooked>>
  BY <1>2, <1>4 DEF Skipped
<1> QED BY <1>1, <1>3, <1>4

(* userctl_remove frees a block that has the reference of its registration *)
(* only.                                                                   *)
LEMMA RmStep ==
    ASSUME Base, NEW n \in Name, Rm(n), NEW o, o = Search(n)
    PROVE  /\ o \in LiveIn(fb) /\ fb[o].factory # NULL /\ fb[o].refcnt = 1
           /\ BlockGone(fb, o, fb')
<1>1. fb[o].factory # NULL /\ fb[o].refcnt + 1 <= 2 /\ fb' = Put(fb, o) /\ Found(n)
  BY DEF Rm
<1>2. o \in LiveIn(fb) /\ o \in Fblock /\ fb[o].refcnt >= 1 /\ fb \in Blocks
  BY <1>1, FoundFacts, BaseFacts
<1>3. fb[o].refcnt = 1
  BY <1>1, <1>2, BlocksFields
<1> QED BY <1>1, <1>2, <1>3, DroppedFacts

(* The block is gone and the memory written back. *)
Collected(f, nn, o, g, gn) ==
    BlockGone(f, o, g) /\ gn \in Nodes /\ Agree(g, nn, gn)

(* A block's memory is given back and the chain is freed. *)
LEMMA CollectedFacts ==
    ASSUME Base, NEW o \in Fblock,
           Commit([fb |-> [fb EXCEPT ![o] = FreeFblock(@.notifiers)], fn |-> fn])
    PROVE  Collected(fb, fn, o, fb', fn')
<1> DEFINE g == [fb EXCEPT ![o] = FreeFblock(@.notifiers)]
           m == [fb |-> g, fn |-> fn]
<1>1. fb \in Blocks /\ fn \in Nodes
  BY BaseFacts
<1>2. BlockGone(fb, o, g)
  BY <1>1, FreedFacts
<1>3. Commit(m) /\ m.fb = g /\ m.fn = fn
  OBVIOUS
<1> HIDE DEF g, m
<1>4. g \in Blocks
  BY <1>2 DEF BlockGone
<1>5. fb' = g /\ fn' \in Nodes /\ Agree(g, fn, fn')
  BY <1>1, <1>3, <1>4, CommitFacts
<1> QED BY <1>2, <1>5 DEF Collected

(* fb_eth_stop_hook_dev. *)
LEMMA UnhookStep ==
    ASSUME Base, NEW d \in Device, Unhook(d), NEW o, o = hooked[d]
    PROVE  /\ o \in LiveIn(fb) /\ fb[o].factory = NULL /\ fb[o].refcnt <= 2
           /\ Collected(fb, fn, o, fb', fn')
<1>1. /\ o # NULL /\ fb[o].refcnt <= 2
      /\ Commit([fb |-> [fb EXCEPT ![o] = FreeFblock(@.notifiers)], fn |-> fn])
  BY DEF Unhook
<1>2. o \in LiveIn(fb) /\ fb[o].factory = NULL
  BY <1>1, BaseFacts DEF Registered
<1>3. o \in Fblock
  BY <1>2 DEF LiveIn
<1> QED BY <1>1, <1>2, <1>3, CollectedFacts

(* free_fblock_rcu. *)
LEMMA RcuFreeStep ==
    ASSUME Base, NEW o \in Fblock, RcuFree(o)
    PROVE  /\ o \notin LiveIn(fb)
           /\ Collected(fb, fn, o, fb', fn')
           /\ UNCHANGED <<fblmap, idpmap, idp_counter, hooked>>
<1>1. Commit([fb |-> [fb EXCEPT ![o] = FreeFblock(@.notifiers)], fn |-> fn])
  BY DEF RcuFree
<1>2. Collected(fb, fn, o, fb', fn')
  BY <1>1, CollectedFacts
<1> QED BY <1>2 DEF RcuFree, LiveIn

-----------------------------------------------------------------------------
(* The registry and the types *)

(* A step that keeps the identities and the bound on the counts keeps the  *)
(* registry.                                                               *)
LEMMA QuietRegistered ==
    ASSUME NEW map, NEW cnt, NEW f \in Blocks, NEW hk, NEW g \in Blocks,
           Registered(map, cnt, f, hk),
           \A q \in Fblock : Ident(g[q], f[q]),
           \A q \in LiveIn(f) : g[q].refcnt >= 1 + 3 * NBound(g[q].port)
    PROVE  Registered(map, cnt, g, hk)
<1>1. LiveIn(g) = LiveIn(f)
  BY DEF LiveIn, Ident
<1>2. \A q \in LiveIn(f) : g[q].idp = f[q].idp /\ g[q].factory = f[q].factory
  BY DEF LiveIn, Ident
<1> QED BY <1>1, <1>2 DEF Registered

(* The devices after a block was registered: none is hooked, or one is. *)
HooksBorn(hk, o, type, hk1) ==
    \/ hk1 = hk
    \/ /\ hk \in [Device -> Fblock \cup {NULL}] /\ type = NULL
       /\ \E d \in Device : hk1 = [hk EXCEPT ![d] = o]

(* Registering a block under a new idp keeps the registry. *)
LEMMA BornRegistered ==
    ASSUME NEW map \in [Idp -> Fblock \cup {NULL}], NEW cnt \in Nat, cnt < MaxIdp,
           NEW f \in Blocks, NEW hk, NEW g, NEW o \in Fblock, f[o].state = "free",
           NEW n, NEW type, BlockBorn(f, o, n, type, cnt + 1, g),
           Registered(map, cnt, f, hk),
           NEW map1, map1 = [map EXCEPT ![cnt + 1] = o],
           NEW hk1, HooksBorn(hk, o, type, hk1)
    PROVE  Registered(map1, cnt + 1, g, hk1)
<1>1. cnt + 1 \in Idp /\ map1[cnt + 1] = o /\ \A i \in Idp : i # cnt + 1 => map1[i] = map[i]
  BY IdpAssumption DEF Idp
<1>2. LiveIn(g) = LiveIn(f) \cup {o} /\ o \notin LiveIn(f) /\ LiveIn(f) \subseteq Fblock
  BY DEF LiveIn, BlockBorn
<1>3. \A q \in LiveIn(f) : g[q] = f[q]
  BY <1>2 DEF BlockBorn
<1>4. g[o].idp = cnt + 1 /\ g[o].refcnt = 1 /\ g[o].factory = type /\ NBound(g[o].port) = 0
  <2>1. NBound(NoPorts) = 0
    <3>1. {p \in Port : NoPorts[p] # IDP_UNKNOWN} = {}
      BY DEF NoPorts
    <3> QED BY <3>1, FS_EmptySet DEF NBound
  <2> QED BY <2>1 DEF BlockBorn
<1>5. \A i \in Idp : map1[i] # NULL => map1[i] \in LiveIn(g) /\ g[map1[i]].idp = i
  BY <1>1, <1>2, <1>3, <1>4 DEF Registered
<1>6. \A q \in LiveIn(g) : g[q].idp \in 1 .. cnt + 1
  BY <1>2, <1>3, <1>4 DEF Registered
<1>7. \A q \in LiveIn(f) : f[q].idp # cnt + 1
  BY DEF Registered
<1>8. \A q, r \in LiveIn(g) : g[q].idp = g[r].idp => q = r
  BY <1>2, <1>3, <1>4, <1>7 DEF Registered
<1>9. \A q \in LiveIn(g) : g[q].refcnt >= 1 + 3 * NBound(g[q].port)
  BY <1>2, <1>3, <1>4 DEF Registered
<1>10. o # NULL
  BY NullAssumption
<1>11. /\ \A d \in Device : hk1[d] # NULL => hk1[d] \in LiveIn(g) /\ g[hk1[d]].factory = NULL
       /\ \A d, e \in Device : hk1[d] # NULL /\ hk1[d] = hk1[e] => d = e
  <2>1. CASE hk1 = hk
    BY <1>2, <1>3, <2>1 DEF Registered
  <2>2. CASE /\ hk \in [Device -> Fblock \cup {NULL}] /\ type = NULL
             /\ \E d \in Device : hk1 = [hk EXCEPT ![d] = o]
    <3>1. PICK d \in Device : hk1 = [hk EXCEPT ![d] = o]
      BY <2>2
    <3>2. hk1[d] = o /\ \A e \in Device : e # d => hk1[e] = hk[e]
      BY <2>2, <3>1
    <3>3. \A e \in Device : hk[e] # NULL => hk[e] \in LiveIn(f) /\ hk[e] # o
      BY <1>2 DEF Registered
    <3>4. \A e \in Device : hk1[e] # NULL => hk1[e] \in LiveIn(g) /\ g[hk1[e]].factory = NULL
      BY <1>2, <1>3, <1>4, <2>2, <3>2, <3>3 DEF Registered
    <3>5. \A e, c \in Device : hk1[e] # NULL /\ hk1[e] = hk1[c] => e = c
      BY <1>10, <3>2, <3>3 DEF Registered
    <3> QED BY <3>4, <3>5
  <2> QED BY <2>1, <2>2 DEF HooksBorn
<1> QED BY <1>5, <1>6, <1>8, <1>9, <1>11 DEF Registered

(* So does a block that goes with its entry and its device. *)
LEMMA GoneRegistered ==
    ASSUME NEW map \in [Idp -> Fblock \cup {NULL}], NEW cnt \in Nat, NEW f \in Blocks,
           NEW hk \in [Device -> Fblock \cup {NULL}], NEW g, NEW o \in Fblock,
           BlockGone(f, o, g), Registered(map, cnt, f, hk),
           NEW map1, o \in LiveIn(f) => map1 = [map EXCEPT ![f[o].idp] = NULL],
           o \notin LiveIn(f) => map1 = map,
           NEW hk1, \/ hk1 = hk /\ ~(o \in LiveIn(f) /\ f[o].factory = NULL)
                    \/ \E d \in Device : hk[d] = o /\ hk1 = [hk EXCEPT ![d] = NULL]
    PROVE  Registered(map1, cnt, g, hk1)
<1>1. LiveIn(g) = LiveIn(f) \ {o} /\ LiveIn(f) \subseteq Fblock
  BY DEF LiveIn, BlockGone, Alike
<1>2. \A q \in LiveIn(g) : /\ q \in LiveIn(f) /\ q # o /\ g[q].idp = f[q].idp
                           /\ g[q].refcnt = f[q].refcnt
                           /\ g[q].factory = f[q].factory /\ g[q].port = f[q].port
  BY <1>1 DEF BlockGone, Alike, Kept
<1>3. \A i \in Idp : map1[i] # NULL => map1[i] = map[i] /\ map[i] # o
  BY NullAssumption DEF Registered
<1>4. \A i \in Idp : map1[i] # NULL => map1[i] \in LiveIn(g) /\ g[map1[i]].idp = i
  BY <1>1, <1>2, <1>3 DEF Registered
<1>5. /\ \A q \in LiveIn(g) : g[q].idp \in 1 .. cnt
      /\ \A q, r \in LiveIn(g) : g[q].idp = g[r].idp => q = r
      /\ \A q \in LiveIn(g) : g[q].refcnt >= 1 + 3 * NBound(g[q].port)
  BY <1>2 DEF Registered
<1>6. \A d \in Device : hk1[d] # NULL => hk1[d] = hk[d] /\ hk[d] # o
  <2>1. CASE hk1 = hk /\ ~(o \in LiveIn(f) /\ f[o].factory = NULL)
    BY <2>1 DEF Registered
  <2>2. CASE \E d \in Device : hk[d] = o /\ hk1 = [hk EXCEPT ![d] = NULL]
    BY <2>2, NullAssumption DEF Registered
  <2> QED BY <2>1, <2>2
<1>7. /\ \A d \in Device : hk1[d] # NULL => hk1[d] \in LiveIn(g) /\ g[hk1[d]].factory = NULL
      /\ \A d, e \in Device : hk1[d] # NULL /\ hk1[d] = hk1[e] => d = e
  BY <1>1, <1>2, <1>6 DEF Registered
<1> QED BY <1>4, <1>5, <1>7 DEF Registered

(* So does a replacement: the new block is found under the old idp. *)
LEMMA ReplacedRegistered ==
    ASSUME NEW map \in [Idp -> Fblock \cup {NULL}], NEW cnt \in Nat, NEW f \in Blocks,
           NEW hk, NEW g, NEW o1 \in LiveIn(f), NEW o2 \in LiveIn(f), o1 # o2,
           f[o1].idp \in Idp, f[o2].idp \in Idp,
           f[o1].factory # NULL, f[o2].factory # NULL, f[o2].refcnt = 1,
           NEW keep \in BOOLEAN, TookOver(f, o1, o2, keep, g), Registered(map, cnt, f, hk),
           NEW map1, \A i \in Idp : i \notin {f[o1].idp, f[o2].idp} => map1[i] = map[i],
           map1[f[o2].idp] = NULL, map1[f[o1].idp] \in {o2, NULL}
    PROVE  Registered(map1, cnt, g, hk)
<1>0. o1 \in Fblock /\ o2 \in Fblock /\ f[o2].state = "live"
  BY DEF LiveIn
<1>1. LiveIn(g) = LiveIn(f) \ {o1}
  BY <1>0 DEF LiveIn, TookOver, Alike
<1>2. \A q \in LiveIn(g) : q # o2 =>
          /\ q \in LiveIn(f) /\ q \notin {o1, o2} /\ g[q].idp = f[q].idp
          /\ g[q].refcnt = f[q].refcnt
          /\ g[q].factory = f[q].factory /\ g[q].port = f[q].port
  BY <1>1 DEF LiveIn, TookOver, Alike, Kept
<1>3. g[o2].idp = f[o1].idp /\ g[o2].refcnt = f[o1].refcnt
  BY DEF TookOver
<1>4. g[o2].refcnt >= 1 + 3 * NBound(g[o2].port)
  <2>1. NBound(f[o2].port) \in Nat /\ NBound(f[o1].port) \in Nat /\ f[o1].refcnt \in Int
    BY <1>0, BlocksFields, PortCounts
  <2>2. f[o2].refcnt >= 1 + 3 * NBound(f[o2].port) /\ f[o1].refcnt >= 1 + 3 * NBound(f[o1].port)
    BY DEF Registered
  <2>3. NBound(f[o2].port) = 0
    BY <2>1, <2>2
  <2>4. g[o2].port = f[o1].port \/ g[o2].port = f[o2].port
    BY DEF TookOver
  <2>5. g[o2].port = f[o1].port => NBound(g[o2].port) = NBound(f[o1].port)
    OBVIOUS
  <2>6. g[o2].port = f[o2].port => NBound(g[o2].port) = 0
    BY <2>3
  <2> QED BY <1>3, <2>1, <2>2, <2>4, <2>5, <2>6
<1>5. \A i \in Idp : map1[i] # NULL => map1[i] \in LiveIn(g) /\ g[map1[i]].idp = i
  <2> SUFFICES ASSUME NEW i \in Idp, map1[i] # NULL
               PROVE  map1[i] \in LiveIn(g) /\ g[map1[i]].idp = i
    OBVIOUS
  <2>1. CASE i = f[o1].idp
    BY <1>1, <1>3, <2>1
  <2>2. CASE i # f[o1].idp
    <3>1. i # f[o2].idp /\ map1[i] = map[i]
      BY <2>2
    <3>2. map[i] \in LiveIn(f) /\ f[map[i]].idp = i
      BY <3>1 DEF Registered
    <3>3. map[i] \notin {o1, o2}
      BY <2>2, <3>1, <3>2
    <3> QED BY <1>1, <1>2, <3>1, <3>2, <3>3
  <2> QED BY <2>1, <2>2
<1>6. /\ \A q \in LiveIn(g) : g[q].idp \in 1 .. cnt
      /\ \A q \in LiveIn(g) : g[q].refcnt >= 1 + 3 * NBound(g[q].port)
  <2>1. \A q \in LiveIn(g) : q # o2 => g[q].idp \in 1 .. cnt /\ g[q].refcnt >= 1 + 3 * NBound(g[q].port)
    BY <1>2 DEF Registered
  <2>2. g[o2].idp \in 1 .. cnt
    BY <1>3 DEF Registered
  <2> QED BY <1>4, <2>1, <2>2
<1>7. \A q, r \in LiveIn(g) : g[q].idp = g[r].idp => q = r
  <2>1. \A q \in LiveIn(f) : q # o1 => f[q].idp # f[o1].idp
    BY DEF Registered
  <2>2. \A q \in LiveIn(g) : q # o2 => g[q].idp # g[o2].idp
    BY <1>2, <1>3, <2>1
  <2>3. \A q, r \in LiveIn(g) : q # o2 /\ r # o2 /\ g[q].idp = g[r].idp => q = r
    BY <1>2 DEF Registered
  <2> QED BY <2>2, <2>3
<1>8. \A d \in Device : hk[d] # NULL => hk[d] \in LiveIn(g) /\ g[hk[d]].factory = NULL
  <2>1. \A d \in Device : hk[d] # NULL => hk[d] \in LiveIn(f) /\ hk[d] \notin {o1, o2}
    BY DEF Registered
  <2> QED BY <1>1, <1>2, <2>1 DEF Registered
<1> QED BY <1>5, <1>6, <1>7, <1>8 DEF Registered

(* The memory after a step that keeps all identities. *)
Quiet(f, g, gn) ==
    /\ g \in Blocks /\ gn \in Nodes
    /\ \A q \in Fblock : Ident(g[q], f[q])
    /\ \A q \in LiveIn(f) : g[q].refcnt >= 1 + 3 * NBound(g[q].port)

(* All outcomes of the connecting commands are of this kind. *)
LEMMA QuietFacts ==
    ASSUME NEW f \in Blocks, NEW nn, NEW o1 \in Fblock, NEW o2 \in Fblock, NEW g, NEW gn,
           \A q \in LiveIn(f) : f[q].refcnt >= 1 + 3 * NBound(f[q].port)
    PROVE  /\ Untouched(f, nn, g, gn) => Quiet(f, g, gn)
           /\ FullyBound(f, nn, o1, o2, g, gn) => Quiet(f, g, gn)
           /\ HalfUnbound(f, nn, o1, o2, g, gn) => Quiet(f, g, gn)
           /\ FullyUnbound(f, nn, o1, o2, g, gn) => Quiet(f, g, gn)
           /\ SubscribeStepped(f, nn, o1, o2, g, gn) => Quiet(f, g, gn)
<1>1. \A q \in LiveIn(f) : /\ q \in Fblock /\ f[q].refcnt \in Int /\ NBound(f[q].port) \in Nat
                           /\ Ends(q, o1, o2) \in Nat /\ At(q, o1) \in 0 .. 1
  BY BlocksFields, PortCounts DEF LiveIn, Ends, At
<1>2. ASSUME Untouched(f, nn, g, gn) PROVE Quiet(f, g, gn)
  <2>1. \A q \in Fblock : Ident(g[q], f[q])
    BY <1>2 DEF Untouched, Rest, Ident
  <2>2. \A q \in LiveIn(f) : g[q].refcnt = f[q].refcnt /\ NBound(g[q].port) = NBound(f[q].port)
    BY <1>1, <1>2 DEF Untouched, PortsAsBefore
  <2> QED BY <1>2, <2>1, <2>2 DEF Untouched, Quiet
<1>3. ASSUME FullyBound(f, nn, o1, o2, g, gn) PROVE Quiet(f, g, gn)
  <2>1. \A q \in Fblock : Ident(g[q], f[q])
    BY <1>3 DEF FullyBound
  <2>2. \A q \in LiveIn(f) : /\ g[q].refcnt = f[q].refcnt + 3 * Ends(q, o1, o2)
                             /\ NBound(g[q].port) = NBound(f[q].port) + Ends(q, o1, o2)
    BY <1>1, <1>3 DEF FullyBound, PortsBound
  <2>3. \A q \in LiveIn(f) : g[q].refcnt >= 1 + 3 * NBound(g[q].port)
    BY <1>1, <2>2
  <2> QED BY <1>3, <2>1, <2>3 DEF FullyBound, Quiet
<1>4. ASSUME HalfUnbound(f, nn, o1, o2, g, gn) PROVE Quiet(f, g, gn)
  <2>1. \A q \in Fblock : Ident(g[q], f[q])
    BY <1>4 DEF HalfUnbound, Rest, Ident
  <2>2. \A q \in LiveIn(f) : /\ g[q].refcnt = f[q].refcnt - At(q, o1)
                             /\ NBound(g[q].port) = NBound(f[q].port) - At(q, o1)
    BY <1>1, <1>4 DEF HalfUnbound, PortsReleased
  <2>3. \A q \in LiveIn(f) : g[q].refcnt >= 1 + 3 * NBound(g[q].port)
    BY <1>1, <2>2
  <2> QED BY <1>4, <2>1, <2>3 DEF HalfUnbound, Quiet
<1>5. ASSUME FullyUnbound(f, nn, o1, o2, g, gn) PROVE Quiet(f, g, gn)
  <2>1. \A q \in Fblock : Ident(g[q], f[q])
    BY <1>5 DEF FullyUnbound
  <2>2. \A q \in LiveIn(f) : /\ g[q].refcnt >= f[q].refcnt - 3 * Ends(q, o1, o2)
                             /\ NBound(g[q].port) = NBound(f[q].port) - Ends(q, o1, o2)
                             /\ g[q].refcnt \in Int
    BY <1>1, <1>5, BlocksFields DEF FullyUnbound, PortsUnbound
  <2>3. \A q \in LiveIn(f) : g[q].refcnt >= 1 + 3 * NBound(g[q].port)
    BY <1>1, <2>2
  <2> QED BY <1>5, <2>1, <2>3 DEF FullyUnbound, Quiet
<1>6. ASSUME SubscribeStepped(f, nn, o1, o2, g, gn) PROVE Quiet(f, g, gn)
  <2>1. \A q \in Fblock : Ident(g[q], f[q])
    BY <1>6 DEF SubscribeStepped, Placed, Ident
  <2>2. \A q \in LiveIn(f) : /\ g[q].refcnt = f[q].refcnt + Ends(q, o1, o2)
                             /\ NBound(g[q].port) = NBound(f[q].port)
    BY <1>1, <1>6 DEF SubscribeStepped, Placed
  <2>3. \A q \in LiveIn(f) : g[q].refcnt >= 1 + 3 * NBound(g[q].port)
    BY <1>1, <2>2
  <2> QED BY <1>6, <2>1, <2>3 DEF SubscribeStepped, Quiet
<1> QED BY <1>2, <1>3, <1>4, <1>5, <1>6

(* The commands that connect two blocks or disconnect them. *)
Connecting(n1, n2) ==
    \/ Bind(n1, n2)
    \/ Unbind(n1, n2)
    \/ SubscribeCmd(n1, n2)

(* They leave the tables alone. *)
LEMMA ConnectingStep ==
    ASSUME Base, NEW n1 \in Name, NEW n2 \in Name, Connecting(n1, n2)
    PROVE  Quiet(fb, fb', fn') /\ UNCHANGED <<fblmap, idpmap, idp_counter, hooked>>
<1>1. UNCHANGED <<fblmap, idpmap, idp_counter, hooked>>
  BY DEF Connecting, Bind, Unbind, SubscribeCmd
<1>2. Found(n1) /\ Found(n2)
  BY DEF Connecting, Bind, Unbind, SubscribeCmd
<1>3. PICK o1, o2 : o1 = Search(n1) /\ o2 = Search(n2)
  OBVIOUS
<1>4. /\ o1 \in Fblock /\ o2 \in Fblock /\ fb \in Blocks
      /\ \A q \in LiveIn(fb) : fb[q].refcnt >= 1 + 3 * NBound(fb[q].port)
  BY <1>2, <1>3, FoundFacts, BaseFacts
<1>5. CASE Bind(n1, n2)
  <2>1. Untouched(fb, fn, fb', fn') \/ FullyBound(fb, fn, o1, o2, fb', fn')
    BY <1>3, <1>5, BindStep
  <2> QED BY <1>1, <1>4, <2>1, QuietFacts
<1>6. CASE Unbind(n1, n2)
  <2>1. \/ Untouched(fb, fn, fb', fn')
        \/ HalfUnbound(fb, fn, o1, o2, fb', fn')
        \/ FullyUnbound(fb, fn, o1, o2, fb', fn')
    BY <1>3, <1>6, UnbindStep
  <2> QED BY <1>1, <1>4, <2>1, QuietFacts
<1>7. CASE SubscribeCmd(n1, n2)
  <2>1. SubscribeStepped(fb, fn, o2, o1, fb', fn')
    BY <1>3, <1>7, SubscribeStep
  <2> QED BY <1>1, <1>4, <2>1, QuietFacts
<1> QED BY <1>5, <1>6, <1>7 DEF Connecting

(* The invariant of the next state, part by part. *)
LEMMA BaseNext ==
    ASSUME fb' \in Blocks, fn' \in Nodes,
           fblmap' \in [Idp -> Fblock \cup {NULL}], idpmap' \in [Name -> 0 .. MaxIdp],
           idp_counter' \in 0 .. MaxIdp, hooked' \in [Device -> Fblock \cup {NULL}],
           Registered(fblmap', idp_counter', fb', hooked')
    PROVE  Base'
BY DEF Base, TypeOK, RegistryInv, Blocks, Nodes

(* The tables after a replacement. *)
TablesReplaced(o1, o2) ==
    /\ o1 \in LiveIn(fb) /\ o2 \in LiveIn(fb)
    /\ fb[o1].idp \in Idp /\ fb[o2].idp \in Idp
    /\ fblmap[fb[o1].idp] = o1 /\ fblmap[fb[o2].idp] = o2
    /\ fb[o1].factory # NULL /\ fb[o2].factory # NULL
    /\ Replaced(fb, fn, o1, o2, fb', fn')
    /\ fb[o1].idp # fb[o2].idp
    /\ fblmap' \in [Idp -> Fblock \cup {NULL}]
    /\ \A i \in Idp : i \notin {fb[o1].idp, fb[o2].idp} => fblmap'[i] = fblmap[i]
    /\ fblmap'[fb[o2].idp] = NULL
    /\ fblmap'[fb[o1].idp] \in {o2, NULL}
    /\ "radix" \notin Failures => fblmap'[fb[o1].idp] = o2
    /\ idpmap' = [idpmap EXCEPT ![fb[o2].name] = IDP_UNKNOWN]
    /\ UNCHANGED <<idp_counter, hooked>>
    /\ "REPLACE" \in Commands

(* userctl_replace: the name of the new block is given up, and its entry   *)
(* moves to the idp of the old one.                                        *)
LEMMA ReplaceTables ==
    ASSUME Base, NEW n1 \in Name, NEW n2 \in Name, Replace(n1, n2, FALSE),
           NEW o1, o1 = Search(n1), NEW o2, o2 = Search(n2)
    PROVE  TablesReplaced(o1, o2)
<1> DEFINE i1 == fb[o1].idp
           i2 == fb[o2].idp
           gone == [fblmap EXCEPT ![i2] = NULL, ![i1] = NULL]
<1>1. /\ Found(n1) /\ Found(n2) /\ fb[o1].factory # NULL /\ fb[o2].factory # NULL
      /\ idpmap' = [idpmap EXCEPT ![fb[o2].name] = IDP_UNKNOWN]
      /\ fblmap' \in {[gone EXCEPT ![i1] = o2]} \cup (IF "radix" \in Failures THEN {gone} ELSE {})
      /\ UNCHANGED <<idp_counter, hooked>> /\ "REPLACE" \in Commands
  BY DEF Replace
<1>2. Replaced(fb, fn, o1, o2, fb', fn')
  BY ReplaceStep
<1>3. /\ o1 \in LiveIn(fb) /\ o2 \in LiveIn(fb) /\ o1 \in Fblock /\ o2 \in Fblock
      /\ i1 \in Idp /\ i2 \in Idp
      /\ fblmap[i1] = o1 /\ fblmap[i2] = o2 /\ fblmap \in [Idp -> Fblock \cup {NULL}]
  BY <1>1, FoundFacts, BaseFacts
<1>4. i1 # i2
  BY <1>2, <1>3 DEF Replaced
<1>5. fblmap' = [gone EXCEPT ![i1] = o2] \/ (fblmap' = gone /\ "radix" \in Failures)
  BY <1>1
<1> HIDE DEF i1, i2
<1>6. /\ fblmap' \in [Idp -> Fblock \cup {NULL}]
      /\ \A i \in Idp : i \notin {i1, i2} => fblmap'[i] = fblmap[i]
      /\ fblmap'[i2] = NULL /\ fblmap'[i1] \in {o2, NULL}
      /\ "radix" \notin Failures => fblmap'[i1] = o2
  BY <1>3, <1>4, <1>5
<1> QED BY <1>1, <1>2, <1>3, <1>4, <1>6 DEF i1, i2, TablesReplaced

(* Registering a block keeps the types and the registry. *)
LEMMA BornBase ==
    ASSUME Base, NEW o, NEW n \in Name, NEW type \in Type \cup {NULL}, Born(o, n, type),
           \/ hooked' = hooked
           \/ type = NULL /\ \E d \in Device : hooked' = [hooked EXCEPT ![d] = o]
    PROVE  Base'
<1> USE DEF Born
<1>1. /\ fb \in Blocks /\ fn \in Nodes /\ idp_counter \in 0 .. MaxIdp /\ idp_counter \in Nat
      /\ fblmap \in [Idp -> Fblock \cup {NULL}] /\ idpmap \in [Name -> 0 .. MaxIdp]
      /\ hooked \in [Device -> Fblock \cup {NULL}]
      /\ Registered(fblmap, idp_counter, fb, hooked)
  BY BaseFacts, IdpAssumption
<1>2. idp_counter + 1 \in 0 .. MaxIdp
  BY <1>1, IdpAssumption
<1>3. fb' \in Blocks /\ fn' \in Nodes
  BY <1>1 DEF BlockBorn
<1>4. fblmap' \in [Idp -> Fblock \cup {NULL}] /\ idpmap' \in [Name -> 0 .. MaxIdp]
  BY <1>1, <1>2
<1>5. hooked' \in [Device -> Fblock \cup {NULL}]
  BY <1>1
<1>6. Registered(fblmap', idp_counter + 1, fb', hooked')
  <2>1. HooksBorn(hooked, o, type, hooked')
    BY <1>1 DEF HooksBorn
  <2>2. /\ o \in Fblock /\ fb[o].state = "free" /\ idp_counter < MaxIdp
        /\ fblmap' = [fblmap EXCEPT ![idp_counter + 1] = o]
        /\ BlockBorn(fb, o, n, type, idp_counter + 1, fb')
    OBVIOUS
  <2> HIDE DEF Born
  <2> QED BY <1>1, <2>1, <2>2, BornRegistered
<1> QED BY <1>2, <1>3, <1>4, <1>5, <1>6, BaseNext

(* So does freeing one. *)
LEMMA GoneBase ==
    ASSUME Base, NEW o \in Fblock, BlockGone(fb, o, fb'), fn' \in Nodes,
           o \in LiveIn(fb) => fblmap' = [fblmap EXCEPT ![fb[o].idp] = NULL],
           o \notin LiveIn(fb) => fblmap' = fblmap,
           \/ idpmap' = idpmap
           \/ \E n : idpmap' = [idpmap EXCEPT ![n] = IDP_UNKNOWN],
           idp_counter' = idp_counter,
           \/ hooked' = hooked /\ ~(o \in LiveIn(fb) /\ fb[o].factory = NULL)
           \/ \E d \in Device : hooked[d] = o /\ hooked' = [hooked EXCEPT ![d] = NULL]
    PROVE  Base'
<1>1. /\ fb \in Blocks /\ fn \in Nodes /\ idp_counter \in 0 .. MaxIdp /\ idp_counter \in Nat
      /\ fblmap \in [Idp -> Fblock \cup {NULL}] /\ idpmap \in [Name -> 0 .. MaxIdp]
      /\ hooked \in [Device -> Fblock \cup {NULL}]
      /\ Registered(fblmap, idp_counter, fb, hooked)
  BY BaseFacts, IdpAssumption
<1>2. fb' \in Blocks
  BY DEF BlockGone
<1>3. fblmap' \in [Idp -> Fblock \cup {NULL}]
  BY <1>1
<1>4. idpmap' \in [Name -> 0 .. MaxIdp]
  BY <1>1, IdpAssumption DEF IDP_UNKNOWN
<1>5. hooked' \in [Device -> Fblock \cup {NULL}]
  BY <1>1
<1>6. Registered(fblmap', idp_counter, fb', hooked')
  BY <1>1, GoneRegistered
<1> QED BY <1>1, <1>2, <1>3, <1>4, <1>5, <1>6, BaseNext

(* Every step keeps the types and the registry. *)
LEMMA BaseStep ==
    ASSUME Base, [Next]_vars
    PROVE  Base'
<1>0. /\ fb \in Blocks /\ fn \in Nodes /\ idp_counter \in 0 .. MaxIdp /\ idp_counter \in Nat
      /\ fblmap \in [Idp -> Fblock \cup {NULL}] /\ idpmap \in [Name -> 0 .. MaxIdp]
      /\ hooked \in [Device -> Fblock \cup {NULL}]
      /\ Registered(fblmap, idp_counter, fb, hooked)
  BY BaseFacts, IdpAssumption
<1>skip. ASSUME Skipped PROVE Base'
  <2>1. idp_counter' \in 0 .. MaxIdp /\ idp_counter' = idp_counter + 1
    BY <1>0, <1>skip, IdpAssumption DEF Skipped
  <2>2. Registered(fblmap, idp_counter + 1, fb, hooked)
    <3>1. \A o \in LiveIn(fb) : fb[o].idp \in 1 .. idp_counter + 1
      BY <1>0 DEF Registered
    <3> QED BY <1>0, <3>1 DEF Registered
  <2> QED BY <1>0, <1>skip, <2>1, <2>2, BaseNext DEF Skipped
<1>1. ASSUME NEW n \in FbName, NEW type \in Type, Add(n, type) PROVE Base'
  <2>1. Skipped \/ (hooked' = hooked /\ \E o : Born(o, n, type))
    BY <1>1, AddStep
  <2>2. n \in Name
    BY DEF Name
  <2> QED BY <1>skip, <2>1, <2>2, BornBase
<1>2. ASSUME NEW n \in Name, Rm(n) PROVE Base'
  <2>1. PICK o : o = Search(n)
    OBVIOUS
  <2>2. /\ o \in LiveIn(fb) /\ fb[o].factory # NULL /\ fb[o].refcnt = 1
        /\ BlockGone(fb, o, fb')
    BY <1>2, <2>1, RmStep
  <2>3. /\ fblmap' = [fblmap EXCEPT ![fb[o].idp] = NULL]
        /\ idpmap' = [idpmap EXCEPT ![fb[o].name] = IDP_UNKNOWN]
        /\ UNCHANGED <<idp_counter, fn, hooked>>
    BY <1>2, <2>1 DEF Rm
  <2>4. o \in Fblock /\ fn' \in Nodes
    BY <1>0, <2>2, <2>3 DEF LiveIn
  <2> QED BY <2>2, <2>3, <2>4, GoneBase
<1>3. ASSUME NEW n1 \in Name, NEW n2 \in Name, Connecting(n1, n2) PROVE Base'
  <2>1. Quiet(fb, fb', fn') /\ UNCHANGED <<fblmap, idpmap, idp_counter, hooked>>
    BY <1>3, ConnectingStep
  <2>2. fb' \in Blocks /\ fn' \in Nodes
    BY <2>1 DEF Quiet
  <2>3. Registered(fblmap, idp_counter, fb', hooked)
    BY <1>0, <2>1, <2>2, QuietRegistered DEF Quiet
  <2> QED BY <1>0, <2>1, <2>2, <2>3, BaseNext
<1>4. ASSUME NEW n1 \in Name, NEW n2 \in Name, Replace(n1, n2, FALSE) PROVE Base'
  <2>1. PICK o1, o2 : o1 = Search(n1) /\ o2 = Search(n2)
    OBVIOUS
  <2>2. /\ o1 \in LiveIn(fb) /\ o2 \in LiveIn(fb)
        /\ fb[o1].idp \in Idp /\ fb[o2].idp \in Idp
        /\ fb[o1].factory # NULL /\ fb[o2].factory # NULL
        /\ Replaced(fb, fn, o1, o2, fb', fn')
        /\ fblmap' \in [Idp -> Fblock \cup {NULL}]
        /\ \A i \in Idp : i \notin {fb[o1].idp, fb[o2].idp} => fblmap'[i] = fblmap[i]
        /\ fblmap'[fb[o2].idp] = NULL
        /\ fblmap'[fb[o1].idp] \in {o2, NULL}
        /\ idpmap' = [idpmap EXCEPT ![fb[o2].name] = IDP_UNKNOWN]
        /\ UNCHANGED <<idp_counter, hooked>>
    <3>1. TablesReplaced(o1, o2)
      BY <1>4, <2>1, ReplaceTables
    <3> QED BY <3>1 DEF TablesReplaced
  <2>3. /\ fn' \in Nodes /\ o1 # o2 /\ fb[o2].refcnt = 1
        /\ TookOver(fb, o1, o2, fb[o1].factory = fb[o2].factory, fb')
    BY <2>2 DEF Replaced
  <2>4. fb' \in Blocks
    BY <2>3 DEF TookOver
  <2>5. Registered(fblmap', idp_counter, fb', hooked)
    <3>1. PICK keep \in BOOLEAN : keep = (fb[o1].factory = fb[o2].factory)
      OBVIOUS
    <3>2. TookOver(fb, o1, o2, keep, fb')
      BY <2>3, <3>1
    <3> QED BY <1>0, <2>2, <2>3, <3>2, ReplacedRegistered
  <2>6. idpmap' \in [Name -> 0 .. MaxIdp]
    <3>1. PICK n : idpmap' = [idpmap EXCEPT ![n] = IDP_UNKNOWN]
      BY <2>2
    <3>2. idpmap \in [Name -> 0 .. MaxIdp] /\ IDP_UNKNOWN \in 0 .. MaxIdp
      BY <1>0, IdpAssumption DEF IDP_UNKNOWN
    <3> QED BY <3>1, <3>2
  <2> QED BY <1>0, <2>2, <2>3, <2>4, <2>5, <2>6, BaseNext
<1>5. ASSUME NEW d \in Device, Hook(d) PROVE Base'
  <2>1. Skipped \/ \E o : Born(o, d, NULL) /\ hooked' = [hooked EXCEPT ![d] = o]
    BY <1>5, HookStep
  <2>2. d \in Name
    BY DEF Name
  <2> QED BY <1>skip, <2>1, <2>2, BornBase
<1>6. ASSUME NEW d \in Device, Unhook(d) PROVE Base'
  <2>1. PICK o : o = hooked[d]
    OBVIOUS
  <2>2. o \in LiveIn(fb) /\ Collected(fb, fn, o, fb', fn')
    BY <1>6, <2>1, UnhookStep
  <2>3. BlockGone(fb, o, fb') /\ fn' \in Nodes
    BY <2>2 DEF Collected
  <2>4. /\ fblmap' = [fblmap EXCEPT ![fb[o].idp] = NULL]
        /\ idpmap' = [idpmap EXCEPT ![fb[o].name] = IDP_UNKNOWN]
        /\ hooked' = [hooked EXCEPT ![d] = NULL] /\ idp_counter' = idp_counter
    BY <1>6, <2>1 DEF Unhook
  <2>5. o \in Fblock
    BY <2>2 DEF LiveIn
  <2> QED BY <2>1, <2>2, <2>3, <2>4, <2>5, GoneBase
<1>7. ASSUME NEW o \in Fblock, RcuFree(o) PROVE Base'
  <2>1. /\ o \notin LiveIn(fb) /\ Collected(fb, fn, o, fb', fn')
        /\ UNCHANGED <<fblmap, idpmap, idp_counter, hooked>>
    BY <1>7, RcuFreeStep
  <2>2. BlockGone(fb, o, fb') /\ fn' \in Nodes
    BY <2>1 DEF Collected
  <2> QED BY <2>1, <2>2, GoneBase
<1>8. CASE UNCHANGED vars
  BY <1>0, <1>8, BaseNext DEF vars
<1> QED BY <1>1, <1>2, <1>3, <1>4, <1>5, <1>6, <1>7, <1>8 DEF Next, Connecting

(* The tables that init_fblock_tables sets up are a registry. *)
LEMMA BaseInit ==
    ASSUME Init
    PROVE  Base
<1> USE DEF Init
<1>1. FreeFblock(<<>>) \in FblockRec /\ FreeFblock(<<>>).state = "free"
  <2>1. <<>> \in Seq(Nb)
    OBVIOUS
  <2> QED BY <2>1, FreeFblockFacts
<1>2. NoNode \in NodeRec
  BY IdpAssumption DEF NoNode, NodeRec, IDP_UNKNOWN
<1>3. fb \in [Fblock -> FblockRec] /\ fn \in [Nb -> NodeRec] /\ \A o \in Fblock : fb[o].state = "free"
  BY <1>1, <1>2
<1>4. TypeOK
  BY <1>3, IdpAssumption DEF TypeOK, IDP_UNKNOWN
<1>5. LiveIn(fb) = {}
  BY <1>3 DEF LiveIn
<1>6. Registered(fblmap, idp_counter, fb, hooked)
  BY <1>5 DEF Registered
<1> QED BY <1>4, <1>6 DEF Base, RegistryInv

(* The types and the registry are invariants of every history of commands: *)
(* fblmap leads to live blocks only, each under the idp it was given, and  *)
(* the count of a block is at least one and three for each port that a     *)
(* bind has set.                                                           *)
THEOREM BaseInvariant == Spec => []Base
<1>1. Init => Base
  BY BaseInit
<1>2. Base /\ [Next]_vars => Base'
  BY BaseStep
<1> QED BY <1>1, <1>2, PTL DEF Spec

(* The tables and the memory of the registry keep their types. *)
THEOREM TypeCorrect == Spec => []TypeOK
<1>1. Base => TypeOK
  BY DEF Base
<1> QED BY <1>1, BaseInvariant, PTL

(* What a step may do to fblmap. *)
MapStepped ==
    \/ fblmap' = fblmap
    \/ \E o : fblmap' = [fblmap EXCEPT ![idp_counter + 1] = o]
    \/ \E i : fblmap' = [fblmap EXCEPT ![i] = NULL]
    \/ \E n1, n2 \in Name : Replace(n1, n2, FALSE)

(* A step enters a block under the next idp, clears an entry, or replaces  *)
(* a block.                                                                *)
LEMMA MapStep ==
    ASSUME Base, [Next]_vars
    PROVE  MapStepped
<1>skip. ASSUME Skipped PROVE fblmap' = fblmap
  BY <1>skip DEF Skipped
<1>born. ASSUME NEW o, NEW n, NEW type, Born(o, n, type)
         PROVE  fblmap' = [fblmap EXCEPT ![idp_counter + 1] = o]
  BY <1>born DEF Born
<1>1. ASSUME NEW n \in FbName, NEW type \in Type, Add(n, type) PROVE MapStepped
  <2>1. Skipped \/ \E o : Born(o, n, type)
    BY <1>1, AddStep
  <2> QED BY <2>1, <1>skip, <1>born, Zenon DEF MapStepped
<1>2. ASSUME NEW n \in Name, Rm(n) PROVE MapStepped
  <2>1. \E i : fblmap' = [fblmap EXCEPT ![i] = NULL]
    BY <1>2 DEF Rm
  <2> QED BY <2>1, Zenon DEF MapStepped
<1>3. ASSUME NEW n1 \in Name, NEW n2 \in Name, Connecting(n1, n2) PROVE MapStepped
  <2>1. fblmap' = fblmap
    BY <1>3 DEF Connecting, Bind, Unbind, SubscribeCmd
  <2> QED BY <2>1 DEF MapStepped
<1>4. ASSUME NEW n1 \in Name, NEW n2 \in Name, Replace(n1, n2, FALSE) PROVE MapStepped
  BY <1>4, Zenon DEF MapStepped
<1>5. ASSUME NEW d \in Device, Hook(d) PROVE MapStepped
  <2>1. Skipped \/ \E o : Born(o, d, NULL)
    BY <1>5, HookStep
  <2> QED BY <2>1, <1>skip, <1>born, Zenon DEF MapStepped
<1>6. ASSUME NEW d \in Device, Unhook(d) PROVE MapStepped
  <2>1. \E i : fblmap' = [fblmap EXCEPT ![i] = NULL]
    BY <1>6 DEF Unhook
  <2> QED BY <2>1, Zenon DEF MapStepped
<1>7. ASSUME NEW o \in Fblock, RcuFree(o) PROVE MapStepped
  BY <1>7 DEF MapStepped, RcuFree
<1>8. CASE UNCHANGED vars
  BY <1>8 DEF vars, MapStepped
<1> QED BY <1>1, <1>2, <1>3, <1>4, <1>5, <1>6, <1>7, <1>8 DEF Next, Connecting

(* An entry that is empty stays empty. *)
LEMMA IdpStep ==
    ASSUME Base, [Next]_vars, NEW i \in 1 .. idp_counter, fblmap[i] = NULL
    PROVE  fblmap'[i] = NULL
<1>1. /\ fblmap \in [Idp -> Fblock \cup {NULL}] /\ idp_counter \in 0 .. MaxIdp
      /\ i \in Idp /\ i # idp_counter + 1
  BY BaseFacts, IdpAssumption DEF Idp
<1>2. MapStepped
  BY MapStep
<1>3. CASE fblmap' = fblmap
  BY <1>3
<1>4. ASSUME NEW o, fblmap' = [fblmap EXCEPT ![idp_counter + 1] = o] PROVE fblmap'[i] = NULL
  BY <1>1, <1>4
<1>5. ASSUME NEW j, fblmap' = [fblmap EXCEPT ![j] = NULL] PROVE fblmap'[i] = NULL
  BY <1>1, <1>5
<1>6. ASSUME NEW n1 \in Name, NEW n2 \in Name, Replace(n1, n2, FALSE) PROVE fblmap'[i] = NULL
  <2>1. PICK o1, o2 : o1 = Search(n1) /\ o2 = Search(n2)
    OBVIOUS
  <2>2. TablesReplaced(o1, o2)
    BY <1>6, <2>1, ReplaceTables
  <2>3. /\ \A k \in Idp : k \notin {fb[o1].idp, fb[o2].idp} => fblmap'[k] = fblmap[k]
        /\ fblmap'[fb[o2].idp] = NULL /\ fblmap[fb[o1].idp] = o1 /\ o1 \in Fblock
    BY <2>2 DEF TablesReplaced, LiveIn
  <2> QED BY <1>1, <2>3, NullAssumption
<1> QED BY <1>2, <1>3, <1>4, <1>5, <1>6 DEF MapStepped

(* register_fblock takes its idps from a counter: an idp that has been     *)
(* given away and leads nowhere will lead nowhere for ever, so that the    *)
(* stale idp in a port, in a subscription or in a packet never reaches     *)
(* another block.                                                          *)
THEOREM IdpsNeverReused == Spec => IdpNeverReused
<1>1. Base /\ [Next]_vars =>
        [\A i \in 1 .. idp_counter : fblmap[i] = NULL => fblmap'[i] = NULL]_vars
  BY IdpStep
<1> QED BY <1>1, BaseInvariant, PTL DEF Spec, IdpNeverReused

(* The block that takes over an idp has the ports of the block before it. *)
LEMMA TakenOverStep ==
    ASSUME Base, OneType, [Next]_vars, NEW i \in Idp,
           fblmap[i] # NULL, fblmap'[i] # NULL, fblmap'[i] # fblmap[i], NEW p \in Port
    PROVE  fb'[fblmap'[i]].port[p] = fb[fblmap[i]].port[p]
<1>1. /\ fblmap \in [Idp -> Fblock \cup {NULL}] /\ idp_counter \in 0 .. MaxIdp
      /\ fb \in Blocks /\ Registered(fblmap, idp_counter, fb, hooked)
  BY BaseFacts
<1>2. i # idp_counter + 1
  BY <1>1 DEF Registered, Idp
<1>3. PICK n1 \in Name, n2 \in Name : Replace(n1, n2, FALSE)
  <2>1. MapStepped
    BY MapStep
  <2>2. ASSUME NEW o, fblmap' = [fblmap EXCEPT ![idp_counter + 1] = o] PROVE FALSE
    BY <1>1, <1>2, <2>2
  <2>3. ASSUME NEW j, fblmap' = [fblmap EXCEPT ![j] = NULL] PROVE FALSE
    BY <1>1, <2>3
  <2> QED BY <2>1, <2>2, <2>3 DEF MapStepped
<1>4. PICK o1, o2 : o1 = Search(n1) /\ o2 = Search(n2)
  OBVIOUS
<1>5. TablesReplaced(o1, o2)
  BY <1>3, <1>4, ReplaceTables
<1>6. /\ o1 \in Fblock /\ o2 \in Fblock /\ fblmap[fb[o1].idp] = o1
      /\ fb[o1].factory # NULL /\ fb[o2].factory # NULL
      /\ \A k \in Idp : k \notin {fb[o1].idp, fb[o2].idp} => fblmap'[k] = fblmap[k]
      /\ fblmap'[fb[o2].idp] = NULL /\ fblmap'[fb[o1].idp] \in {o2, NULL}
      /\ Replaced(fb, fn, o1, o2, fb', fn') /\ "REPLACE" \in Commands
  BY <1>5 DEF TablesReplaced, LiveIn
<1>7. i = fb[o1].idp /\ fblmap'[i] = o2 /\ fblmap[i] = o1
  BY <1>6
<1>8. fb[o1].factory = fb[o2].factory
  BY <1>1, <1>6, BlocksFields DEF OneType
<1>9. fb'[o2].port = fb[o1].port
  BY <1>6, <1>8 DEF Replaced, TookOver
<1> QED BY <1>7, <1>9

(* userctl_replace between blocks of one type keeps the connections of the *)
(* block it replaces: fblock_migrate_p moves the ports with the idp.       *)
THEOREM ReplacementKeepsConnections == OneType /\ Spec => ReplaceKeepsConnections
<1>1. OneType /\ Base /\ [Next]_vars =>
        [\A i \in Idp :
          (fblmap[i] # NULL /\ fblmap'[i] # NULL /\ fblmap'[i] # fblmap[i])
             => \A p \in Port : PortOf(i, p)' = PortOf(i, p)]_vars
  <2> SUFFICES ASSUME OneType, Base, [Next]_vars, NEW i \in Idp,
                      fblmap[i] # NULL, fblmap'[i] # NULL, fblmap'[i] # fblmap[i], NEW p \in Port
               PROVE  PortOf(i, p)' = PortOf(i, p)
    OBVIOUS
  <2>1. fb'[fblmap'[i]].port[p] = fb[fblmap[i]].port[p]
    BY TakenOverStep
  <2> QED BY <2>1 DEF PortOf
<1>2. OneType => []OneType
  <2>1. OneType => OneType'
    BY DEF OneType
  <2> QED BY <2>1, PTL
<1> QED BY <1>1, <1>2, BaseInvariant, PTL DEF Spec, ReplaceKeepsConnections

-----------------------------------------------------------------------------
(* The two tables *)

(* A name leads to the block of this name, and a live block is found under *)
(* its idp and under its name.                                             *)
Tabled(map, nm, f) ==
    /\ \A n \in Name : nm[n] # IDP_UNKNOWN =>
          map[nm[n]] # NULL /\ f[map[nm[n]]].name = n
    /\ \A o \in LiveIn(f) :
          f[o].name \in Name /\ map[f[o].idp] = o /\ nm[f[o].name] = f[o].idp

(* The tables as a state predicate: inductive with the registry. *)
TablesInv == Tabled(fblmap, idpmap, fb)

(* A name in idpmap leads to a live block. *)
LEMMA NameFacts ==
    ASSUME NEW map, NEW nm \in [Name -> 0 .. MaxIdp], NEW cnt, NEW f, NEW hk,
           Registered(map, cnt, f, hk), Tabled(map, nm, f), NEW n \in Name, nm[n] # IDP_UNKNOWN
    PROVE  /\ nm[n] \in Idp /\ map[nm[n]] \in LiveIn(f)
           /\ f[map[nm[n]]].name = n /\ f[map[nm[n]]].idp = nm[n]
<1>1. nm[n] \in Idp
  BY IdpAssumption DEF Idp, IDP_UNKNOWN
<1> QED BY <1>1 DEF Registered, Tabled

(* A step that keeps the identities keeps the tables. *)
LEMMA QuietTabled ==
    ASSUME NEW map, NEW nm \in [Name -> 0 .. MaxIdp], NEW cnt, NEW f, NEW hk, NEW g,
           Registered(map, cnt, f, hk), Tabled(map, nm, f),
           \A q \in Fblock : Ident(g[q], f[q])
    PROVE  Tabled(map, nm, g)
<1>1. LiveIn(g) = LiveIn(f)
  BY DEF LiveIn, Ident
<1>2. \A q \in LiveIn(f) : g[q].idp = f[q].idp /\ g[q].name = f[q].name
  BY DEF LiveIn, Ident
<1>3. \A n \in Name : nm[n] # IDP_UNKNOWN => map[nm[n]] # NULL /\ g[map[nm[n]]].name = n
  BY <1>2, NameFacts DEF Tabled
<1> QED BY <1>1, <1>2, <1>3 DEF Tabled

(* The entries of a new block. *)
EntryBorn(map, nm, i, o, n, map1, nm1) ==
    /\ nm[n] = IDP_UNKNOWN
    /\ map1 = [map EXCEPT ![i] = o]
    /\ nm1 = [nm EXCEPT ![n] = i]

(* Registering a block under a name that was not in use. *)
LEMMA BornTabled ==
    ASSUME NEW map \in [Idp -> Fblock \cup {NULL}], NEW nm \in [Name -> 0 .. MaxIdp],
           NEW cnt \in Nat, cnt < MaxIdp,
           NEW f \in Blocks, NEW hk, NEW g, NEW o \in Fblock, f[o].state = "free",
           NEW n \in Name, NEW type, BlockBorn(f, o, n, type, cnt + 1, g),
           Registered(map, cnt, f, hk), Tabled(map, nm, f),
           NEW map1, NEW nm1, EntryBorn(map, nm, cnt + 1, o, n, map1, nm1)
    PROVE  Tabled(map1, nm1, g)
<1> USE DEF EntryBorn
<1>1. cnt + 1 \in Idp /\ map1[cnt + 1] = o /\ \A i \in Idp : i # cnt + 1 => map1[i] = map[i]
  BY IdpAssumption DEF Idp
<1>2. nm1[n] = cnt + 1 /\ \A k \in Name : k # n => nm1[k] = nm[k]
  OBVIOUS
<1>3. LiveIn(g) = LiveIn(f) \cup {o} /\ o \notin LiveIn(f) /\ LiveIn(f) \subseteq Fblock
  BY DEF LiveIn, BlockBorn
<1>4. \A q \in LiveIn(f) : g[q] = f[q]
  BY <1>3 DEF BlockBorn
<1>5. g[o].idp = cnt + 1 /\ g[o].name = n /\ o # NULL
  BY NullAssumption DEF BlockBorn
<1>6. \A q \in LiveIn(f) : f[q].idp \in Idp /\ f[q].idp # cnt + 1
  BY IdpAssumption DEF Registered, Idp
<1>7. \A k \in Name : k # n /\ nm[k] # IDP_UNKNOWN =>
          /\ nm[k] \in Idp /\ nm[k] # cnt + 1
          /\ map[nm[k]] \in LiveIn(f) /\ f[map[nm[k]]].name = k
  BY <1>6, NameFacts
<1>8. \A k \in Name : nm1[k] # IDP_UNKNOWN => map1[nm1[k]] # NULL /\ g[map1[nm1[k]]].name = k
  <2> SUFFICES ASSUME NEW k \in Name, nm1[k] # IDP_UNKNOWN
               PROVE  map1[nm1[k]] # NULL /\ g[map1[nm1[k]]].name = k
    OBVIOUS
  <2>1. CASE k = n
    BY <1>1, <1>2, <1>5, <2>1
  <2>2. CASE k # n
    BY <1>1, <1>2, <1>4, <1>7, <2>2 DEF Tabled
  <2> QED BY <2>1, <2>2
<1>9. \A q \in LiveIn(f) : f[q].name \in Name /\ f[q].name # n
                           /\ map[f[q].idp] = q /\ nm[f[q].name] = f[q].idp
  BY <1>6, IdpAssumption DEF Tabled, Idp, IDP_UNKNOWN
<1>10. \A q \in LiveIn(g) :
          g[q].name \in Name /\ map1[g[q].idp] = q /\ nm1[g[q].name] = g[q].idp
  BY <1>1, <1>2, <1>3, <1>4, <1>5, <1>6, <1>9
<1> QED BY <1>8, <1>10 DEF Tabled

(* Taking a block out of both tables. *)
LEMMA GoneTabled ==
    ASSUME NEW map \in [Idp -> Fblock \cup {NULL}], NEW nm \in [Name -> 0 .. MaxIdp],
           NEW cnt \in Nat, cnt <= MaxIdp, NEW f \in Blocks, NEW hk, NEW g, NEW o \in LiveIn(f),
           BlockGone(f, o, g), Registered(map, cnt, f, hk), Tabled(map, nm, f),
           NEW map1, map1 = [map EXCEPT ![f[o].idp] = NULL],
           NEW nm1, nm1 = [nm EXCEPT ![f[o].name] = IDP_UNKNOWN]
    PROVE  Tabled(map1, nm1, g)
<1>1. \A q \in LiveIn(f) : /\ f[q].idp \in Idp /\ f[q].name \in Name
                           /\ map[f[q].idp] = q /\ nm[f[q].name] = f[q].idp
  BY IdpAssumption DEF Registered, Tabled, Idp
<1>2. LiveIn(g) = LiveIn(f) \ {o} /\ LiveIn(f) \subseteq Fblock
  BY DEF LiveIn, BlockGone, Alike
<1>3. \A q \in LiveIn(g) : q \in LiveIn(f) /\ q # o /\ g[q].idp = f[q].idp /\ g[q].name = f[q].name
  BY <1>2 DEF BlockGone, Alike, Kept
<1>4. map1[f[o].idp] = NULL /\ \A i \in Idp : i # f[o].idp => map1[i] = map[i]
  BY <1>1
<1>5. nm1[f[o].name] = IDP_UNKNOWN /\ \A k \in Name : k # f[o].name => nm1[k] = nm[k]
  BY <1>1
<1>6. ASSUME NEW k \in Name, nm1[k] # IDP_UNKNOWN
      PROVE  map1[nm1[k]] # NULL /\ g[map1[nm1[k]]].name = k
  <2>1. k # f[o].name /\ nm1[k] = nm[k]
    BY <1>5, <1>6
  <2>2. /\ nm[k] \in Idp /\ map[nm[k]] \in LiveIn(f)
        /\ f[map[nm[k]]].name = k /\ f[map[nm[k]]].idp = nm[k]
    BY <1>6, <2>1, NameFacts
  <2>3. map[nm[k]] # o
    BY <2>1, <2>2
  <2>4. nm[k] # f[o].idp
    BY <1>1, <2>2, <2>3
  <2>5. map[nm[k]] \in LiveIn(g) /\ map[nm[k]] # NULL
    BY <1>2, <2>2, <2>3, NullAssumption
  <2> QED BY <1>3, <1>4, <2>1, <2>2, <2>4, <2>5
<1>7. ASSUME NEW q \in LiveIn(g)
      PROVE  g[q].name \in Name /\ map1[g[q].idp] = q /\ nm1[g[q].name] = g[q].idp
  <2>1. q \in LiveIn(f) /\ q # o /\ g[q].idp = f[q].idp /\ g[q].name = f[q].name
    BY <1>3
  <2>2. f[q].idp # f[o].idp /\ f[q].name # f[o].name
    BY <1>1, <2>1
  <2> QED BY <1>1, <1>4, <1>5, <2>1, <2>2
<1> QED BY <1>6, <1>7 DEF Tabled

(* The entry of o1 leads to o2. *)
EntryMoved(map, f, o1, o2, map1) ==
    /\ \A i \in Idp : i \notin {f[o1].idp, f[o2].idp} => map1[i] = map[i]
    /\ map1[f[o1].idp] = o2

(* Replacing a block: the entry under its idp, and so its name, lead to    *)
(* the new block, which has lost its own.                                  *)
LEMMA ReplacedTabled ==
    ASSUME NEW map \in [Idp -> Fblock \cup {NULL}], NEW nm \in [Name -> 0 .. MaxIdp],
           NEW cnt \in Nat, cnt <= MaxIdp, NEW f \in Blocks, NEW hk, NEW g,
           NEW o1 \in LiveIn(f), NEW o2 \in LiveIn(f), o1 # o2,
           NEW keep, TookOver(f, o1, o2, keep, g),
           Registered(map, cnt, f, hk), Tabled(map, nm, f),
           NEW map1, EntryMoved(map, f, o1, o2, map1),
           NEW nm1, nm1 = [nm EXCEPT ![f[o2].name] = IDP_UNKNOWN]
    PROVE  Tabled(map1, nm1, g)
<1> USE DEF EntryMoved
<1>0. o1 \in Fblock /\ o2 \in Fblock /\ o2 # NULL /\ f[o2].state = "live"
  BY NullAssumption DEF LiveIn
<1>1. \A q \in LiveIn(f) : /\ f[q].idp \in Idp /\ f[q].name \in Name
                           /\ map[f[q].idp] = q /\ nm[f[q].name] = f[q].idp
  BY IdpAssumption DEF Registered, Tabled, Idp
<1>2. LiveIn(g) = LiveIn(f) \ {o1}
  BY <1>0 DEF LiveIn, TookOver, Alike
<1>3. \A q \in LiveIn(g) : q # o2 =>
          q \in LiveIn(f) /\ q \notin {o1, o2} /\ g[q].idp = f[q].idp /\ g[q].name = f[q].name
  BY <1>2 DEF LiveIn, TookOver, Alike, Kept
<1>4. g[o2].idp = f[o1].idp /\ g[o2].name = f[o1].name
  BY DEF TookOver
<1>5. nm1[f[o2].name] = IDP_UNKNOWN /\ \A k \in Name : k # f[o2].name => nm1[k] = nm[k]
  BY <1>1
<1>6. ASSUME NEW k \in Name, nm1[k] # IDP_UNKNOWN
      PROVE  map1[nm1[k]] # NULL /\ g[map1[nm1[k]]].name = k
  <2>1. k # f[o2].name /\ nm1[k] = nm[k]
    BY <1>5, <1>6
  <2>2. /\ nm[k] \in Idp /\ map[nm[k]] \in LiveIn(f)
        /\ f[map[nm[k]]].name = k /\ f[map[nm[k]]].idp = nm[k]
    BY <1>6, <2>1, NameFacts
  <2>3. map[nm[k]] # o2 /\ nm[k] # f[o2].idp
    BY <1>1, <2>1, <2>2
  <2>4. CASE map[nm[k]] = o1
    BY <1>0, <1>4, <2>1, <2>2, <2>4
  <2>5. CASE map[nm[k]] # o1
    <3>1. nm[k] # f[o1].idp
      BY <1>1, <2>2, <2>5
    <3>2. map1[nm1[k]] = map[nm[k]]
      BY <2>1, <2>2, <2>3, <3>1
    <3>3. map[nm[k]] \in LiveIn(g) /\ map[nm[k]] # NULL
      BY <1>2, <2>2, <2>5, NullAssumption DEF LiveIn
    <3> QED BY <1>3, <2>2, <2>3, <3>2, <3>3
  <2> QED BY <2>4, <2>5
<1>7. ASSUME NEW q \in LiveIn(g)
      PROVE  g[q].name \in Name /\ map1[g[q].idp] = q /\ nm1[g[q].name] = g[q].idp
  <2>1. CASE q = o2
    <3>1. f[o1].name # f[o2].name
      BY <1>1
    <3> QED BY <1>1, <1>4, <1>5, <2>1, <3>1
  <2>2. CASE q # o2
    <3>1. q \in LiveIn(f) /\ q \notin {o1, o2} /\ g[q].idp = f[q].idp /\ g[q].name = f[q].name
      BY <1>3, <2>2
    <3>2. f[q].idp \notin {f[o1].idp, f[o2].idp} /\ f[q].name # f[o2].name
      BY <1>1, <3>1
    <3> QED BY <1>1, <1>5, <3>1, <3>2
  <2> QED BY <2>1, <2>2
<1> QED BY <1>6, <1>7 DEF Tabled

(* The other blocks are untouched by the end of a grace period. *)
LEMMA RestGone ==
    ASSUME NEW f, NEW o, NEW g, BlockGone(f, o, g), o \notin LiveIn(f), NEW q \in LiveIn(f)
    PROVE  q \in Fblock /\ q # o /\ Alike(g[q], f[q]) /\ g[q].refcnt = f[q].refcnt
BY DEF BlockGone, LiveIn

(* The end of a grace period frees no live block. *)
LEMMA SameLive ==
    ASSUME NEW f, NEW o \in Fblock, NEW g, BlockGone(f, o, g), o \notin LiveIn(f)
    PROVE  LiveIn(g) = LiveIn(f)
BY DEF BlockGone, LiveIn, Alike

(* Every step keeps the tables. *)
LEMMA TablesStep ==
    ASSUME Base, EntryKept, TablesInv, [Next]_vars
    PROVE  TablesInv'
<1> SUFFICES Tabled(fblmap', idpmap', fb')
  BY DEF TablesInv
<1>0. /\ fb \in Blocks /\ idp_counter \in Nat /\ idp_counter <= MaxIdp
      /\ fblmap \in [Idp -> Fblock \cup {NULL}] /\ idpmap \in [Name -> 0 .. MaxIdp]
      /\ Registered(fblmap, idp_counter, fb, hooked)
      /\ Tabled(fblmap, idpmap, fb)
  BY BaseFacts, IdpAssumption DEF TablesInv
<1>skip. ASSUME Skipped PROVE Tabled(fblmap', idpmap', fb')
  BY <1>0, <1>skip DEF Skipped
<1>born. ASSUME NEW o, NEW n \in Name, NEW type, Born(o, n, type)
         PROVE  Tabled(fblmap', idpmap', fb')
  <2>1. /\ o \in Fblock /\ fb[o].state = "free" /\ idp_counter < MaxIdp
        /\ EntryBorn(fblmap, idpmap, idp_counter + 1, o, n, fblmap', idpmap')
        /\ BlockBorn(fb, o, n, type, idp_counter + 1, fb')
    BY <1>born DEF Born, EntryBorn
  <2> QED BY <1>0, <2>1, BornTabled
<1>1. ASSUME NEW n \in FbName, NEW type \in Type, Add(n, type)
      PROVE  Tabled(fblmap', idpmap', fb')
  <2>1. Skipped \/ \E o : Born(o, n, type)
    BY <1>1, AddStep
  <2>2. n \in Name
    BY DEF Name
  <2> QED BY <1>skip, <1>born, <2>1, <2>2
<1>2. ASSUME NEW n \in Name, Rm(n) PROVE Tabled(fblmap', idpmap', fb')
  <2>1. PICK o : o = Search(n)
    OBVIOUS
  <2>2. o \in LiveIn(fb) /\ BlockGone(fb, o, fb')
    BY <1>2, <2>1, RmStep
  <2>3. /\ fblmap' = [fblmap EXCEPT ![fb[o].idp] = NULL]
        /\ idpmap' = [idpmap EXCEPT ![fb[o].name] = IDP_UNKNOWN]
    BY <1>2, <2>1 DEF Rm
  <2> QED BY <1>0, <2>2, <2>3, GoneTabled
<1>3. ASSUME NEW n1 \in Name, NEW n2 \in Name, Connecting(n1, n2)
      PROVE  Tabled(fblmap', idpmap', fb')
  <2>1. Quiet(fb, fb', fn') /\ UNCHANGED <<fblmap, idpmap, idp_counter, hooked>>
    BY <1>3, ConnectingStep
  <2>2. \A q \in Fblock : Ident(fb'[q], fb[q])
    BY <2>1 DEF Quiet
  <2>3. Tabled(fblmap, idpmap, fb')
    BY <1>0, <2>2, QuietTabled
  <2> QED BY <2>1, <2>3
<1>4. ASSUME NEW n1 \in Name, NEW n2 \in Name, Replace(n1, n2, FALSE)
      PROVE  Tabled(fblmap', idpmap', fb')
  <2>1. PICK o1, o2 : o1 = Search(n1) /\ o2 = Search(n2)
    OBVIOUS
  <2>2. TablesReplaced(o1, o2)
    BY <1>4, <2>1, ReplaceTables
  <2>3. /\ o1 \in LiveIn(fb) /\ o2 \in LiveIn(fb)
        /\ Replaced(fb, fn, o1, o2, fb', fn')
        /\ EntryMoved(fblmap, fb, o1, o2, fblmap')
        /\ idpmap' = [idpmap EXCEPT ![fb[o2].name] = IDP_UNKNOWN]
    BY <2>2 DEF TablesReplaced, EntryKept, EntryMoved
  <2>4. PICK keep : o1 # o2 /\ TookOver(fb, o1, o2, keep, fb')
    BY <2>3 DEF Replaced
  <2> QED BY <1>0, <2>3, <2>4, ReplacedTabled
<1>5. ASSUME NEW d \in Device, Hook(d) PROVE Tabled(fblmap', idpmap', fb')
  <2>1. Skipped \/ \E o : Born(o, d, NULL)
    BY <1>5, HookStep
  <2>2. d \in Name
    BY DEF Name
  <2> QED BY <1>skip, <1>born, <2>1, <2>2
<1>6. ASSUME NEW d \in Device, Unhook(d) PROVE Tabled(fblmap', idpmap', fb')
  <2>1. PICK o : o = hooked[d]
    OBVIOUS
  <2>2. o \in LiveIn(fb) /\ BlockGone(fb, o, fb')
    BY <1>6, <2>1, UnhookStep DEF Collected
  <2>3. /\ fblmap' = [fblmap EXCEPT ![fb[o].idp] = NULL]
        /\ idpmap' = [idpmap EXCEPT ![fb[o].name] = IDP_UNKNOWN]
    BY <1>6, <2>1 DEF Unhook
  <2> QED BY <1>0, <2>2, <2>3, GoneTabled
<1>7. ASSUME NEW o \in Fblock, RcuFree(o) PROVE Tabled(fblmap', idpmap', fb')
  <2>1. o \notin LiveIn(fb) /\ BlockGone(fb, o, fb') /\ fblmap' = fblmap /\ idpmap' = idpmap
    BY <1>7, RcuFreeStep DEF Collected
  <2>2. LiveIn(fb') = LiveIn(fb)
    BY <2>1, SameLive
  <2>3. \A q \in LiveIn(fb) : fb'[q].idp = fb[q].idp /\ fb'[q].name = fb[q].name
    BY <2>1, RestGone DEF Alike, Kept
  <2>4. \A n \in Name : idpmap[n] # IDP_UNKNOWN => fblmap[idpmap[n]] \in LiveIn(fb)
    BY <1>0, NameFacts
  <2> QED BY <1>0, <2>1, <2>2, <2>3, <2>4 DEF Tabled
<1>8. CASE UNCHANGED vars
  BY <1>0, <1>8 DEF vars
<1> QED BY <1>1, <1>2, <1>3, <1>4, <1>5, <1>6, <1>7, <1>8 DEF Next, Connecting

(* The empty tables agree. *)
LEMMA TablesInit ==
    ASSUME Init
    PROVE  TablesInv
<1> USE DEF Init
<1>1. FreeFblock(<<>>).state = "free"
  BY DEF FreeFblock
<1>2. \A o \in Fblock : fb[o].state = "free"
  BY <1>1
<1>3. LiveIn(fb) = {} /\ \A n \in Name : idpmap[n] = IDP_UNKNOWN
  BY <1>2 DEF LiveIn
<1> QED BY <1>3 DEF TablesInv, Tabled

(* The inductive invariant of the two tables. *)
THEOREM TablesInvariant == EntryKept /\ Spec => []TablesInv
<1>1. Init => TablesInv
  BY TablesInit
<1>2. EntryKept /\ Base /\ TablesInv /\ [Next]_vars => TablesInv'
  BY TablesStep
<1>3. EntryKept => []EntryKept
  <2>1. EntryKept => EntryKept'
    BY DEF EntryKept
  <2> QED BY <2>1, PTL
<1> QED BY <1>1, <1>2, <1>3, BaseInvariant, PTL DEF Spec

(* The live blocks of the model. *)
LEMMA LiveSame ==
    ASSUME TRUE
    PROVE  Live = LiveIn(fb)
BY DEF Live, LiveIn

(* idpmap, fblmap and the blocks agree after every command, whichever of   *)
(* them fail: no entry of either table points to freed memory, and no live *)
(* block is lost. It needs that the insertion into fblmap in               *)
(* userctl_replace does not fail, for the command does not undo what it    *)
(* did before.                                                             *)
THEOREM TablesAgree == EntryKept /\ Spec => []TablesConsistent
<1>1. Base /\ TablesInv => TablesConsistent
  BY LiveSame DEF Base, RegistryInv, Registered, TablesInv, Tabled, TablesConsistent
<1> QED BY <1>1, BaseInvariant, TablesInvariant, PTL

-----------------------------------------------------------------------------
(* Pairs of ports *)

(* A live block is at the other end, and its port leads back. *)
Joined(f, o, out, in) ==
    \E q \in LiveIn(f) : f[o].port[out] = f[q].idp /\ f[q].port[in] = f[o].idp

(* Every bound port is one of a pair. *)
Paired(f) ==
    \A o \in LiveIn(f) :
        /\ f[o].port["clone"] = IDP_UNKNOWN
        /\ f[o].port["egress"] # IDP_UNKNOWN => Joined(f, o, "egress", "ingress")
        /\ f[o].port["ingress"] # IDP_UNKNOWN => Joined(f, o, "ingress", "egress")

(* The pairs as a state predicate: stated over idps, not over fblmap, so   *)
(* that it is inductive by itself with the registry.                       *)
PairedInv == Paired(fb)

(* Live blocks have idps, and different ones. *)
IdpsDiffer(f) ==
    /\ \A o \in LiveIn(f) : f[o].idp \in Idp
    /\ \A o, q \in LiveIn(f) : f[o].idp = f[q].idp => o = q

(* Ports that have not changed are still paired. *)
LEMMA SamePaired ==
    ASSUME NEW f, NEW g, Paired(f), LiveIn(g) = LiveIn(f),
           \A q \in LiveIn(f) : g[q].idp = f[q].idp /\ g[q].port = f[q].port
    PROVE  Paired(g)
BY DEF Paired, Joined

(* A bind makes a pair. *)
LEMMA BoundPaired ==
    ASSUME NEW f, NEW g, Paired(f), IdpsDiffer(f),
           NEW o1 \in LiveIn(f), NEW o2 \in LiveIn(f),
           LiveIn(g) = LiveIn(f), \A q \in LiveIn(f) : g[q].idp = f[q].idp,
           f[o1].port["egress"] = IDP_UNKNOWN, f[o2].port["ingress"] = IDP_UNKNOWN,
           PlainPorts(f, g, o1, o2)
    PROVE  Paired(g)
<1>0. LiveIn(f) \subseteq Fblock
  BY DEF LiveIn
<1>1. \A q \in LiveIn(f) :
        /\ g[q].port["clone"] = f[q].port["clone"]
        /\ g[q].port["egress"] = IF q = o1 THEN f[o2].idp ELSE f[q].port["egress"]
        /\ g[q].port["ingress"] = IF q = o2 THEN f[o1].idp ELSE f[q].port["ingress"]
  BY <1>0 DEF PlainPorts
<1>2. \A q \in LiveIn(f) : f[q].idp # IDP_UNKNOWN
  BY IdpAssumption DEF IdpsDiffer, Idp, IDP_UNKNOWN
<1>3. ASSUME NEW o \in LiveIn(g), g[o].port["egress"] # IDP_UNKNOWN
      PROVE  Joined(g, o, "egress", "ingress")
  <2>1. CASE o = o1
    BY <1>1, <2>1 DEF Joined
  <2>2. CASE o # o1
    <3>1. PICK q \in LiveIn(f) : f[o].port["egress"] = f[q].idp /\ f[q].port["ingress"] = f[o].idp
      BY <1>1, <1>3, <2>2 DEF Paired, Joined
    <3>2. q # o2
      BY <1>2, <3>1
    <3> QED BY <1>1, <2>2, <3>1, <3>2 DEF Joined
  <2> QED BY <2>1, <2>2
<1>4. ASSUME NEW o \in LiveIn(g), g[o].port["ingress"] # IDP_UNKNOWN
      PROVE  Joined(g, o, "ingress", "egress")
  <2>1. CASE o = o2
    BY <1>1, <2>1 DEF Joined
  <2>2. CASE o # o2
    <3>1. PICK q \in LiveIn(f) : f[o].port["ingress"] = f[q].idp /\ f[q].port["egress"] = f[o].idp
      BY <1>1, <1>4, <2>2 DEF Paired, Joined
    <3>2. q # o1
      BY <1>2, <3>1
    <3> QED BY <1>1, <2>2, <3>1, <3>2 DEF Joined
  <2> QED BY <2>1, <2>2
<1> QED BY <1>1, <1>3, <1>4 DEF Paired

(* The ports after an unbind of blocks that are no tees. *)
PlainUnbound(f, g, o1, o2) ==
    \A q \in Fblock :
        /\ g[q].port["clone"] = f[q].port["clone"]
        /\ g[q].port["egress"] = IF q = o1 THEN IDP_UNKNOWN ELSE f[q].port["egress"]
        /\ g[q].port["ingress"] = IF q = o2 THEN IDP_UNKNOWN ELSE f[q].port["ingress"]

(* An unbind dissolves a pair: nobody else is bound to either port. *)
LEMMA UnboundPaired ==
    ASSUME NEW f, NEW g, Paired(f), IdpsDiffer(f),
           NEW o1 \in LiveIn(f), NEW o2 \in LiveIn(f),
           LiveIn(g) = LiveIn(f), \A q \in LiveIn(f) : g[q].idp = f[q].idp,
           f[o1].port["egress"] = f[o2].idp, PlainUnbound(f, g, o1, o2)
    PROVE  Paired(g)
<1>0. LiveIn(f) \subseteq Fblock
  BY DEF LiveIn
<1>1. \A q \in LiveIn(f) :
        /\ g[q].port["clone"] = f[q].port["clone"]
        /\ g[q].port["egress"] = IF q = o1 THEN IDP_UNKNOWN ELSE f[q].port["egress"]
        /\ g[q].port["ingress"] = IF q = o2 THEN IDP_UNKNOWN ELSE f[q].port["ingress"]
  BY <1>0 DEF PlainUnbound
<1>2. \A q \in LiveIn(f) : f[q].idp # IDP_UNKNOWN
  BY IdpAssumption DEF IdpsDiffer, Idp, IDP_UNKNOWN
<1>3. f[o2].port["ingress"] = f[o1].idp
  <2>1. PICK q \in LiveIn(f) : f[o1].port["egress"] = f[q].idp /\ f[q].port["ingress"] = f[o1].idp
    BY <1>2 DEF Paired, Joined
  <2> QED BY <2>1 DEF IdpsDiffer
<1>4. ASSUME NEW o \in LiveIn(g), g[o].port["egress"] # IDP_UNKNOWN
      PROVE  Joined(g, o, "egress", "ingress")
  <2>1. o # o1 /\ g[o].port["egress"] = f[o].port["egress"]
    BY <1>1, <1>4
  <2>2. PICK q \in LiveIn(f) : f[o].port["egress"] = f[q].idp /\ f[q].port["ingress"] = f[o].idp
    BY <1>4, <2>1 DEF Paired, Joined
  <2>3. q # o2
    BY <1>3, <2>1, <2>2 DEF IdpsDiffer
  <2> QED BY <1>1, <2>1, <2>2, <2>3 DEF Joined
<1>5. ASSUME NEW o \in LiveIn(g), g[o].port["ingress"] # IDP_UNKNOWN
      PROVE  Joined(g, o, "ingress", "egress")
  <2>1. o # o2 /\ g[o].port["ingress"] = f[o].port["ingress"]
    BY <1>1, <1>5
  <2>2. PICK q \in LiveIn(f) : f[o].port["ingress"] = f[q].idp /\ f[q].port["egress"] = f[o].idp
    BY <1>5, <2>1 DEF Paired, Joined
  <2>3. q # o1
    BY <2>1, <2>2 DEF IdpsDiffer
  <2> QED BY <1>1, <2>1, <2>2, <2>3 DEF Joined
<1> QED BY <1>1, <1>4, <1>5 DEF Paired

(* A count of at most 2 says that no port is bound, as each is worth three *)
(* references.                                                             *)
LEMMA NoPortsBound ==
    ASSUME NEW f \in Blocks, NEW o \in Fblock,
           f[o].refcnt <= 2, f[o].refcnt >= 1 + 3 * NBound(f[o].port)
    PROVE  NBound(f[o].port) = 0 /\ \A p \in Port : f[o].port[p] = IDP_UNKNOWN
<1> DEFINE S == {p \in Port : f[o].port[p] # IDP_UNKNOWN}
<1>1. NBound(f[o].port) \in Nat /\ f[o].refcnt \in Int
  BY BlocksFields, PortCounts
<1>2. NBound(f[o].port) = 0
  BY <1>1
<1>3. Cardinality(S) = 0
  BY <1>2 DEF NBound
<1>4. S = {}
  <2>1. IsFiniteSet(S)
    BY PortFinite
  <2> QED BY <1>3, <2>1, FS_EmptySet
<1> QED BY <1>2, <1>4

(* A block without bound ports may go: no port leads to it. *)
LEMMA GonePaired ==
    ASSUME NEW f, NEW o \in LiveIn(f), NEW g, Paired(f), IdpsDiffer(f), BlockGone(f, o, g),
           \A p \in Port : f[o].port[p] = IDP_UNKNOWN
    PROVE  Paired(g)
<1>1. LiveIn(g) = LiveIn(f) \ {o}
  BY DEF LiveIn, BlockGone, Alike
<1>2. \A q \in LiveIn(g) : q \in LiveIn(f) /\ q # o /\ g[q].idp = f[q].idp /\ g[q].port = f[q].port
  BY <1>1 DEF LiveIn, BlockGone, Alike, Kept
<1>3. \A q \in LiveIn(f) : f[q].idp # IDP_UNKNOWN
  BY IdpAssumption DEF IdpsDiffer, Idp, IDP_UNKNOWN
<1>4. f[o].port["egress"] = IDP_UNKNOWN /\ f[o].port["ingress"] = IDP_UNKNOWN
  BY DEF Port
<1>5. ASSUME NEW q \in LiveIn(g), NEW out, NEW in \in {"egress", "ingress"}, Joined(f, q, out, in)
      PROVE  Joined(g, q, out, in)
  <2>1. PICK r \in LiveIn(f) : f[q].port[out] = f[r].idp /\ f[r].port[in] = f[q].idp
    BY <1>5 DEF Joined
  <2>2. r # o
    BY <1>2, <1>3, <1>4, <2>1
  <2>3. r \in LiveIn(g)
    BY <1>1, <2>1, <2>2
  <2> QED BY <1>2, <2>1, <2>3 DEF Joined
<1> QED BY <1>2, <1>5 DEF Paired

(* A new block has no ports that are bound. *)
LEMMA BornPaired ==
    ASSUME NEW f, NEW o \in Fblock, f[o].state = "free", NEW g, Paired(f),
           NEW n, NEW type, NEW i, BlockBorn(f, o, n, type, i, g)
    PROVE  Paired(g)
<1>1. LiveIn(g) = LiveIn(f) \cup {o} /\ o \notin LiveIn(f)
  BY DEF LiveIn, BlockBorn
<1>2. \A q \in LiveIn(f) : g[q] = f[q]
  BY <1>1 DEF BlockBorn, LiveIn
<1>3. g[o].port["clone"] = IDP_UNKNOWN /\ g[o].port["egress"] = IDP_UNKNOWN
      /\ g[o].port["ingress"] = IDP_UNKNOWN
  BY DEF BlockBorn, NoPorts, Port
<1>4. ASSUME NEW q \in LiveIn(f), NEW out, NEW in, Joined(f, q, out, in)
      PROVE  Joined(g, q, out, in)
  BY <1>1, <1>2, <1>4 DEF Joined
<1> QED BY <1>1, <1>2, <1>3, <1>4 DEF Paired

(* A replacement that moves the ports keeps the pairs. *)
LEMMA ReplacedPaired ==
    ASSUME NEW f, NEW o1 \in LiveIn(f), NEW o2 \in LiveIn(f), o1 # o2, NEW g,
           Paired(f), IdpsDiffer(f), TookOver(f, o1, o2, TRUE, g),
           \A p \in Port : f[o2].port[p] = IDP_UNKNOWN
    PROVE  Paired(g)
<1>0. o1 \in Fblock /\ o2 \in Fblock /\ f[o2].state = "live"
  BY DEF LiveIn
<1>1. LiveIn(g) = LiveIn(f) \ {o1}
  BY <1>0 DEF LiveIn, TookOver, Alike
<1>2. \A q \in LiveIn(g) : q # o2 =>
          q \in LiveIn(f) /\ q \notin {o1, o2} /\ g[q].idp = f[q].idp /\ g[q].port = f[q].port
  BY <1>1 DEF LiveIn, TookOver, Alike, Kept
<1>3. g[o2].idp = f[o1].idp /\ g[o2].port = f[o1].port
  BY DEF TookOver
<1>4. \A q \in LiveIn(f) : f[q].idp # IDP_UNKNOWN
  BY IdpAssumption DEF IdpsDiffer, Idp, IDP_UNKNOWN
<1>5. f[o2].port["egress"] = IDP_UNKNOWN /\ f[o2].port["ingress"] = IDP_UNKNOWN
  BY DEF Port
<1>6. ASSUME NEW q \in LiveIn(g), NEW s \in LiveIn(f), NEW out, NEW in \in {"egress", "ingress"},
             g[q].idp = f[s].idp, g[q].port = f[s].port, Joined(f, s, out, in)
      PROVE  Joined(g, q, out, in)
  <2>1. PICK r \in LiveIn(f) : f[s].port[out] = f[r].idp /\ f[r].port[in] = f[s].idp
    BY <1>6 DEF Joined
  <2>2. r # o2
    BY <1>4, <1>5, <2>1
  <2>3. CASE r = o1
    <3>1. o2 \in LiveIn(g)
      BY <1>1
    <3> QED BY <1>3, <1>6, <2>1, <2>3, <3>1 DEF Joined
  <2>4. CASE r # o1
    <3>1. r \in LiveIn(g)
      BY <1>1, <2>1, <2>4
    <3> QED BY <1>2, <1>6, <2>1, <2>2, <3>1 DEF Joined
  <2> QED BY <2>3, <2>4
<1>7. ASSUME NEW q \in LiveIn(g)
      PROVE  \E s \in LiveIn(f) : g[q].idp = f[s].idp /\ g[q].port = f[s].port
  BY <1>2, <1>3
<1> QED BY <1>6, <1>7 DEF Paired

(* No block is a tee. *)
LEMMA NoTees ==
    ASSUME NoTee, NEW f \in Blocks, NEW o \in Fblock
    PROVE  ~IsTee(f, o)
BY BlocksFields DEF NoTee, IsTee

(* The connecting commands keep the pairs. *)
LEMMA ConnectedPaired ==
    ASSUME NoTee, NEW f \in Blocks, NEW nn, NEW g, NEW gn, Paired(f), IdpsDiffer(f),
           NEW o1 \in LiveIn(f), NEW o2 \in LiveIn(f),
           \/ Untouched(f, nn, g, gn)
           \/ FullyBound(f, nn, o1, o2, g, gn)
           \/ HalfUnbound(f, nn, o1, o2, g, gn)
           \/ FullyUnbound(f, nn, o1, o2, g, gn)
           \/ SubscribeStepped(f, nn, o2, o1, g, gn)
    PROVE  Paired(g)
<1>0. /\ o1 \in Fblock /\ o2 \in Fblock /\ LiveIn(f) \subseteq Fblock
      /\ \A q \in Fblock : ~IsTee(f, q)
  BY NoTees DEF LiveIn
<1>ident. ASSUME \A q \in Fblock : Ident(g[q], f[q])
          PROVE  LiveIn(g) = LiveIn(f) /\ \A q \in LiveIn(f) : g[q].idp = f[q].idp
  BY <1>ident DEF LiveIn, Ident
<1>1. CASE Untouched(f, nn, g, gn)
  <2>1. \A q \in Fblock : Rest(g[q], f[q]) /\ g[q].port = f[q].port
    BY <1>0, <1>1 DEF Untouched, PortsAsBefore
  <2>2. LiveIn(g) = LiveIn(f) /\ \A q \in LiveIn(f) : g[q].idp = f[q].idp /\ g[q].port = f[q].port
    BY <2>1 DEF Rest, LiveIn
  <2> QED BY <2>2, SamePaired
<1>2. CASE FullyBound(f, nn, o1, o2, g, gn)
  <2>1. (\A q \in Fblock : Ident(g[q], f[q])) /\ PortsBound(f, g, o1, o2)
    BY <1>2 DEF FullyBound
  <2>2. /\ f[o1].port["egress"] = IDP_UNKNOWN /\ f[o2].port["ingress"] = IDP_UNKNOWN
        /\ PlainPorts(f, g, o1, o2)
    BY <1>0, <2>1 DEF PortsBound
  <2>3. LiveIn(g) = LiveIn(f) /\ \A q \in LiveIn(f) : g[q].idp = f[q].idp
    BY <1>ident, <2>1
  <2> QED BY <2>2, <2>3, BoundPaired
<1>3. CASE HalfUnbound(f, nn, o1, o2, g, gn)
  <2>1. f[o1].port["egress"] = f[o2].idp /\ f[o2].port["ingress"] # f[o1].idp
    BY <1>0, <1>3 DEF HalfUnbound, Half
  <2>2. f[o2].idp # IDP_UNKNOWN
    BY IdpAssumption DEF IdpsDiffer, Idp, IDP_UNKNOWN
  <2>3. PICK q \in LiveIn(f) : f[o1].port["egress"] = f[q].idp /\ f[q].port["ingress"] = f[o1].idp
    BY <2>1, <2>2 DEF Paired, Joined
  <2> QED BY <2>1, <2>3 DEF IdpsDiffer
<1>4. CASE FullyUnbound(f, nn, o1, o2, g, gn)
  <2>1. (\A q \in Fblock : Ident(g[q], f[q])) /\ PortsUnbound(f, g, o1, o2)
    BY <1>4 DEF FullyUnbound
  <2>2. f[o1].port["egress"] = f[o2].idp /\ PlainUnbound(f, g, o1, o2)
    BY <1>0, <2>1 DEF PortsUnbound, PlainUnbound
  <2>3. LiveIn(g) = LiveIn(f) /\ \A q \in LiveIn(f) : g[q].idp = f[q].idp
    BY <1>ident, <2>1
  <2> QED BY <2>2, <2>3, UnboundPaired
<1>5. CASE SubscribeStepped(f, nn, o2, o1, g, gn)
  <2>1. LiveIn(g) = LiveIn(f) /\ \A q \in LiveIn(f) : g[q].idp = f[q].idp /\ g[q].port = f[q].port
    BY <1>5 DEF SubscribeStepped, Placed, LiveIn
  <2> QED BY <2>1, SamePaired
<1> QED BY <1>1, <1>2, <1>3, <1>4, <1>5

(* The outcomes of the connecting commands. *)
ConnectingShape(o1, o2) ==
    \/ Untouched(fb, fn, fb', fn')
    \/ FullyBound(fb, fn, o1, o2, fb', fn')
    \/ HalfUnbound(fb, fn, o1, o2, fb', fn')
    \/ FullyUnbound(fb, fn, o1, o2, fb', fn')
    \/ SubscribeStepped(fb, fn, o2, o1, fb', fn') /\ "SUBSCRIBE" \in Commands

(* They have no other outcome. *)
LEMMA ConnectingShapes ==
    ASSUME Base, NEW n1 \in Name, NEW n2 \in Name, Connecting(n1, n2),
           NEW o1, o1 = Search(n1), NEW o2, o2 = Search(n2)
    PROVE  /\ ConnectingShape(o1, o2)
           /\ o1 \in LiveIn(fb) /\ o2 \in LiveIn(fb)
           /\ fblmap[fb[o1].idp] = o1 /\ fblmap[fb[o2].idp] = o2
           /\ UNCHANGED <<fblmap, idpmap, idp_counter, hooked>>
<1>1. UNCHANGED <<fblmap, idpmap, idp_counter, hooked>> /\ Found(n1) /\ Found(n2)
  BY DEF Connecting, Bind, Unbind, SubscribeCmd
<1>2. /\ o1 \in LiveIn(fb) /\ o2 \in LiveIn(fb)
      /\ fblmap[fb[o1].idp] = o1 /\ fblmap[fb[o2].idp] = o2
  BY <1>1, FoundFacts
<1>3. CASE Bind(n1, n2)
  <2>1. Untouched(fb, fn, fb', fn') \/ FullyBound(fb, fn, o1, o2, fb', fn')
    BY <1>3, BindStep
  <2> QED BY <1>1, <1>2, <2>1 DEF ConnectingShape
<1>4. CASE Unbind(n1, n2)
  <2>1. \/ Untouched(fb, fn, fb', fn')
        \/ HalfUnbound(fb, fn, o1, o2, fb', fn')
        \/ FullyUnbound(fb, fn, o1, o2, fb', fn')
    BY <1>4, UnbindStep
  <2> QED BY <1>1, <1>2, <2>1 DEF ConnectingShape
<1>5. CASE SubscribeCmd(n1, n2)
  <2>1. SubscribeStepped(fb, fn, o2, o1, fb', fn')
    BY <1>5, SubscribeStep
  <2>2. "SUBSCRIBE" \in Commands
    BY <1>5 DEF SubscribeCmd
  <2> QED BY <1>1, <1>2, <2>1, <2>2 DEF ConnectingShape
<1> QED BY <1>3, <1>4, <1>5 DEF Connecting

(* The registry has different idps. *)
LEMMA BaseIdps ==
    ASSUME Base
    PROVE  IdpsDiffer(fb)
BY BaseFacts DEF IdpsDiffer, Registered

(* Every step keeps the pairs. *)
LEMMA PairedStep ==
    ASSUME Base, NoTee, OneType, PairedInv, [Next]_vars
    PROVE  PairedInv'
<1> SUFFICES Paired(fb')
  BY DEF PairedInv
<1>0. /\ fb \in Blocks /\ Paired(fb) /\ IdpsDiffer(fb)
      /\ \A q \in LiveIn(fb) : q \in Fblock /\ fb[q].refcnt >= 1 + 3 * NBound(fb[q].port)
  BY BaseFacts, BaseIdps DEF PairedInv, LiveIn
<1>skip. ASSUME Skipped PROVE Paired(fb')
  BY <1>0, <1>skip DEF Skipped
<1>born. ASSUME NEW o, NEW n, NEW type, Born(o, n, type) PROVE Paired(fb')
  <2>1. o \in Fblock /\ fb[o].state = "free" /\ BlockBorn(fb, o, n, type, idp_counter + 1, fb')
    BY <1>born DEF Born
  <2> QED BY <1>0, <2>1, BornPaired
<1>1. ASSUME NEW n \in FbName, NEW type \in Type, Add(n, type) PROVE Paired(fb')
  <2>1. Skipped \/ \E o : Born(o, n, type)
    BY <1>1, AddStep
  <2> QED BY <1>skip, <1>born, <2>1
<1>2. ASSUME NEW n \in Name, Rm(n) PROVE Paired(fb')
  <2>1. PICK o : o = Search(n)
    OBVIOUS
  <2>2. o \in LiveIn(fb) /\ BlockGone(fb, o, fb') /\ fb[o].refcnt = 1
    BY <1>2, <2>1, RmStep
  <2>3. \A p \in Port : fb[o].port[p] = IDP_UNKNOWN
    BY <1>0, <2>2, NoPortsBound
  <2> QED BY <1>0, <2>2, <2>3, GonePaired
<1>3. ASSUME NEW n1 \in Name, NEW n2 \in Name, Connecting(n1, n2) PROVE Paired(fb')
  <2>1. PICK o1, o2 : o1 = Search(n1) /\ o2 = Search(n2)
    OBVIOUS
  <2>2. ConnectingShape(o1, o2) /\ o1 \in LiveIn(fb) /\ o2 \in LiveIn(fb)
    BY <1>3, <2>1, ConnectingShapes
  <2>3. \/ Untouched(fb, fn, fb', fn')
        \/ FullyBound(fb, fn, o1, o2, fb', fn')
        \/ HalfUnbound(fb, fn, o1, o2, fb', fn')
        \/ FullyUnbound(fb, fn, o1, o2, fb', fn')
        \/ SubscribeStepped(fb, fn, o2, o1, fb', fn')
    BY <2>2 DEF ConnectingShape
  <2> QED BY <1>0, <2>2, <2>3, ConnectedPaired
<1>4. ASSUME NEW n1 \in Name, NEW n2 \in Name, Replace(n1, n2, FALSE) PROVE Paired(fb')
  <2>1. PICK o1, o2 : o1 = Search(n1) /\ o2 = Search(n2)
    OBVIOUS
  <2>2. TablesReplaced(o1, o2)
    BY <1>4, <2>1, ReplaceTables
  <2>3. /\ o1 \in LiveIn(fb) /\ o2 \in LiveIn(fb) /\ Replaced(fb, fn, o1, o2, fb', fn')
        /\ fb[o1].factory # NULL /\ fb[o2].factory # NULL /\ "REPLACE" \in Commands
    BY <2>2 DEF TablesReplaced
  <2>4. fb[o1].factory = fb[o2].factory
    BY <1>0, <2>3, BlocksFields DEF OneType
  <2>5. o1 # o2 /\ TookOver(fb, o1, o2, TRUE, fb') /\ fb[o2].refcnt = 1
    BY <2>3, <2>4 DEF Replaced
  <2>6. \A p \in Port : fb[o2].port[p] = IDP_UNKNOWN
    BY <1>0, <2>3, <2>5, NoPortsBound
  <2> QED BY <1>0, <2>3, <2>5, <2>6, ReplacedPaired
<1>5. ASSUME NEW d \in Device, Hook(d) PROVE Paired(fb')
  <2>1. Skipped \/ \E o : Born(o, d, NULL)
    BY <1>5, HookStep
  <2> QED BY <1>skip, <1>born, <2>1
<1>6. ASSUME NEW d \in Device, Unhook(d) PROVE Paired(fb')
  <2>1. PICK o : o = hooked[d]
    OBVIOUS
  <2>2. o \in LiveIn(fb) /\ BlockGone(fb, o, fb') /\ fb[o].refcnt <= 2
    BY <1>6, <2>1, UnhookStep DEF Collected
  <2>3. \A p \in Port : fb[o].port[p] = IDP_UNKNOWN
    BY <1>0, <2>2, NoPortsBound
  <2> QED BY <1>0, <2>2, <2>3, GonePaired
<1>7. ASSUME NEW o \in Fblock, RcuFree(o) PROVE Paired(fb')
  <2>1. o \notin LiveIn(fb) /\ BlockGone(fb, o, fb')
    BY <1>7, RcuFreeStep DEF Collected
  <2>2. LiveIn(fb') = LiveIn(fb)
    BY <2>1, SameLive
  <2>3. \A q \in LiveIn(fb) : fb'[q].idp = fb[q].idp /\ fb'[q].port = fb[q].port
    BY <2>1, RestGone DEF Alike, Kept
  <2> QED BY <1>0, <2>2, <2>3, SamePaired
<1>8. CASE UNCHANGED vars
  BY <1>0, <1>8 DEF vars
<1> QED BY <1>1, <1>2, <1>3, <1>4, <1>5, <1>6, <1>7, <1>8 DEF Next, Connecting

(* In the beginning no block is alive. *)
LEMMA InitLive ==
    ASSUME Init
    PROVE  LiveIn(fb) = {}
<1>1. FreeFblock(<<>>).state = "free"
  BY DEF FreeFblock
<1>2. \A o \in Fblock : fb[o].state = "free"
  BY <1>1 DEF Init
<1> QED BY <1>2 DEF LiveIn

(* The pairs and the tables give the property. *)
LEMMA PairedPorts ==
    ASSUME Base, TablesInv, PairedInv
    PROVE  PortsPaired
<1>1. /\ \A o \in LiveIn(fb) : fb[o].idp \in Idp /\ fblmap[fb[o].idp] = o
      /\ \A o \in LiveIn(fb) : o # NULL
  BY BaseFacts, NullAssumption DEF TablesInv, Tabled, LiveIn
<1>2. ASSUME NEW o \in LiveIn(fb)
      PROVE  /\ fb[o].port["clone"] = IDP_UNKNOWN
             /\ fb[o].port["egress"] # IDP_UNKNOWN => Joined(fb, o, "egress", "ingress")
             /\ fb[o].port["ingress"] # IDP_UNKNOWN => Joined(fb, o, "ingress", "egress")
  BY DEF PairedInv, Paired
<1>3. ASSUME NEW o \in LiveIn(fb), NEW out, NEW in, Joined(fb, o, out, in)
      PROVE  /\ fblmap[fb[o].port[out]] # NULL
             /\ Answers(fblmap[fb[o].port[out]], in, fb[o].idp)
  <2>1. PICK q \in LiveIn(fb) : fb[o].port[out] = fb[q].idp /\ fb[q].port[in] = fb[o].idp
    BY <1>3 DEF Joined
  <2>2. fblmap[fb[o].port[out]] = q
    BY <1>1, <2>1
  <2> QED BY <1>1, <2>1, <2>2 DEF Answers
<1> QED BY <1>2, <1>3, LiveSame DEF PortsPaired

(* Without tees, a port that a bind has set always leads to a live block   *)
(* that has the other port set to this block: __fblock_bind and            *)
(* __fblock_unbind undo what they did when one end refuses, userctl_remove *)
(* and fb_eth_stop_hook_dev refuse a bound block, and a replacement within *)
(* one type moves both ends.                                               *)
THEOREM PortsArePaired == NoTee /\ OneType /\ EntryKept /\ Spec => []PortsPaired
<1>1. Init => PairedInv
  BY InitLive DEF PairedInv, Paired
<1>2. NoTee /\ OneType /\ Base /\ PairedInv /\ [Next]_vars => PairedInv'
  BY PairedStep
<1>3. NoTee /\ OneType => [](NoTee /\ OneType)
  <2>1. NoTee /\ OneType => (NoTee /\ OneType)'
    BY DEF NoTee, OneType
  <2> QED BY <2>1, PTL
<1>4. NoTee /\ OneType /\ Spec => []PairedInv
  BY <1>1, <1>2, <1>3, BaseInvariant, PTL DEF Spec
<1>5. Base /\ TablesInv /\ PairedInv => PortsPaired
  BY PairedPorts
<1> QED BY <1>4, <1>5, BaseInvariant, TablesInvariant, PTL

-----------------------------------------------------------------------------
(* Reference counts and nodes *)

(* The number of references to o. *)
Refs(f, nn, o) == 1 + NBound(f[o].port) + NListed(f, o) + NNaming(f, nn, f[o].idp)

(* For each port of o that leads to j there is a node for j in its list. *)
Covered(f, nn, o) == \A j \in Idp : NTo(f[o].port, j) <= NNodes(f, nn, o, j)

(* The count is not below the number of references, and it is exact where  *)
(* no replacement has left ports behind. Without subscriptions by command, *)
(* the nodes come in pairs.                                                *)
Counted(f, nn, o) ==
    /\ f[o].refcnt >= Refs(f, nn, o)
    /\ OneType \/ f[o].factory = NULL => f[o].refcnt = Refs(f, nn, o)
    /\ "SUBSCRIBE" \notin Commands => NListed(f, o) = NNaming(f, nn, f[o].idp)

(* The lists are in order, name only idps that were given away, and are    *)
(* empty in memory that is not alive; live blocks are counted.             *)
NodesKept(f, nn, cnt) ==
    /\ Lists(f, nn)
    /\ \A j \in 0 .. MaxIdp : j \notin 1 .. cnt => NNaming(f, nn, j) = 0
    /\ \A o \in Fblock : o \notin LiveIn(f) => NListed(f, o) = 0
    /\ \A o \in LiveIn(f) : Covered(f, nn, o) /\ Counted(f, nn, o)

(* The nodes as a state predicate: inductive with the registry. *)
NodesInv == NodesKept(fb, fn, idp_counter)

(* The numbers are naturals. *)
Counts(f, nn, q) ==
    /\ f[q].refcnt \in Int /\ NBound(f[q].port) \in Nat
    /\ NListed(f, q) \in Nat /\ NNaming(f, nn, f[q].idp) \in Nat
    /\ \A j : NTo(f[q].port, j) \in Nat /\ NNodes(f, nn, q, j) \in Nat

(* They are, in every memory. *)
LEMMA CountsFacts ==
    ASSUME NEW f \in Blocks, NEW nn, NEW q \in Fblock
    PROVE  Counts(f, nn, q)
BY BlocksFields, PortCounts, NodeCounts DEF Counts

(* A count that moves with the ports, the list and the names of a block    *)
(* stays exact.                                                            *)
LEMMA CountedShift ==
    ASSUME NEW f \in Blocks, NEW g \in Blocks, NEW nn, NEW gn,
           NEW p \in Fblock, NEW q \in Fblock, Counted(f, nn, p),
           NEW b \in Int, NEW l \in Int, NEW n \in Int,
           NBound(g[q].port) = NBound(f[p].port) + b,
           NListed(g, q) = NListed(f, p) + l,
           NNaming(g, gn, g[q].idp) = NNaming(f, nn, f[p].idp) + n,
           g[q].refcnt = f[p].refcnt + b + l + n,
           "SUBSCRIBE" \notin Commands => l = n,
           g[q].factory = NULL => f[p].factory = NULL
    PROVE  Counted(g, gn, q)
<1>1. Counts(f, nn, p)
  BY CountsFacts
<1>2. /\ f[p].refcnt \in Int /\ NBound(f[p].port) \in Nat
      /\ NListed(f, p) \in Nat /\ NNaming(f, nn, f[p].idp) \in Nat
  BY <1>1 DEF Counts
<1>3. Refs(g, gn, q) = Refs(f, nn, p) + b + l + n /\ Refs(f, nn, p) \in Int
  BY <1>2 DEF Refs
<1> HIDE DEF Refs
<1>4. /\ f[p].refcnt >= Refs(f, nn, p)
      /\ OneType \/ f[p].factory = NULL => f[p].refcnt = Refs(f, nn, p)
      /\ "SUBSCRIBE" \notin Commands => NListed(f, p) = NNaming(f, nn, f[p].idp)
  BY DEF Counted
<1>5. g[q].refcnt >= Refs(g, gn, q)
  BY <1>2, <1>3, <1>4
<1>6. OneType \/ g[q].factory = NULL => g[q].refcnt = Refs(g, gn, q)
  BY <1>2, <1>3, <1>4
<1>7. "SUBSCRIBE" \notin Commands => NListed(g, q) = NNaming(g, gn, g[q].idp)
  BY <1>2, <1>4
<1> QED BY <1>5, <1>6, <1>7 DEF Counted

(* Counting blocks or counting their idps is the same. *)
LEMMA EndsIdp ==
    ASSUME NEW f, IdpsDiffer(f), NEW o1 \in LiveIn(f), NEW o2 \in LiveIn(f), NEW q \in LiveIn(f)
    PROVE  /\ Ends(f[q].idp, f[o2].idp, f[o1].idp) = Ends(q, o1, o2)
           /\ At(f[q].idp, f[o1].idp) = At(q, o1)
           /\ Ends(q, o1, o2) \in Nat
           /\ Ends(q, o1, o2) = At(q, o1) + At(q, o2)
           /\ At(q, o1) \in Nat /\ At(q, o2) \in Nat
<1>1. f[q].idp = f[o1].idp <=> q = o1
  BY DEF IdpsDiffer
<1>2. f[q].idp = f[o2].idp <=> q = o2
  BY DEF IdpsDiffer
<1> QED BY <1>1, <1>2 DEF Ends, At

(* The idps of the live blocks are different and were given away. *)
IdpsUpTo(f, cnt) == IdpsDiffer(f) /\ \A o \in LiveIn(f) : f[o].idp \in 1 .. cnt

(* A bind keeps the nodes: three references for a port and two nodes. *)
LEMMA BoundKept ==
    ASSUME NEW f \in Blocks, NEW nn, NEW g, NEW gn, NEW cnt, IdpsUpTo(f, cnt),
           NEW o1 \in LiveIn(f), NEW o2 \in LiveIn(f),
           NodesKept(f, nn, cnt), FullyBound(f, nn, o1, o2, g, gn)
    PROVE  NodesKept(g, gn, cnt)
<1>1. /\ g \in Blocks /\ PortsBound(f, g, o1, o2) /\ NodesBound(f, nn, o1, o2, g, gn)
      /\ \A q \in Fblock : Ident(g[q], f[q]) /\ g[q].refcnt = f[q].refcnt + 3 * Ends(q, o1, o2)
  BY DEF FullyBound, NodesKept
<1>2. LiveIn(g) = LiveIn(f) /\ LiveIn(f) \subseteq Fblock
      /\ \A q \in LiveIn(f) : g[q].idp = f[q].idp /\ g[q].factory = f[q].factory
  BY <1>1 DEF LiveIn, Ident
<1>3. \A j : NNaming(g, gn, j) = NNaming(f, nn, j) + Ends(j, f[o2].idp, f[o1].idp)
  BY <1>1 DEF NodesBound
<1>4. \A q \in Fblock : /\ NBound(g[q].port) = NBound(f[q].port) + Ends(q, o1, o2)
                        /\ NListed(g, q) = NListed(f, q) + Ends(q, o1, o2)
  BY <1>1 DEF NodesBound, PortsBound
<1>5. ASSUME NEW j \in 0 .. MaxIdp, j \notin 1 .. cnt PROVE NNaming(g, gn, j) = 0
  <2>1. Ends(j, f[o2].idp, f[o1].idp) = 0
    BY <1>5 DEF Ends, IdpsUpTo
  <2> QED BY <1>3, <1>5, <2>1 DEF NodesKept
<1>6. ASSUME NEW o \in Fblock, o \notin LiveIn(g) PROVE NListed(g, o) = 0
  <2>1. Ends(o, o1, o2) = 0
    BY <1>2, <1>6 DEF Ends
  <2> QED BY <1>2, <1>4, <1>6, <2>1 DEF NodesKept
<1>7. ASSUME NEW q \in LiveIn(f) PROVE Covered(g, gn, q)
  <2> SUFFICES ASSUME NEW j \in Idp PROVE NTo(g[q].port, j) <= NNodes(g, gn, q, j)
    BY DEF Covered
  <2> DEFINE a == AtTo(q, o1, j, f[o2].idp)
             c == AtTo(q, o2, j, f[o1].idp)
  <2>1. NTo(g[q].port, j) = NTo(f[q].port, j) + a + c /\ NNodes(g, gn, q, j) = NNodes(f, nn, q, j) + a + c
    BY <1>1, <1>2 DEF PortsBound, NodesBound
  <2>2. a \in Nat /\ c \in Nat
    BY DEF AtTo
  <2> HIDE DEF a, c
  <2>3. NTo(f[q].port, j) \in Nat /\ NNodes(f, nn, q, j) \in Nat
    BY <1>2, CountsFacts DEF Counts
  <2>4. NTo(f[q].port, j) <= NNodes(f, nn, q, j)
    BY DEF NodesKept, Covered
  <2> QED BY <2>1, <2>2, <2>3, <2>4
<1>8. ASSUME NEW q \in LiveIn(f) PROVE Counted(g, gn, q)
  <2>1. PICK e \in Int : e = Ends(q, o1, o2) /\ Ends(f[q].idp, f[o2].idp, f[o1].idp) = e
    BY EndsIdp DEF IdpsUpTo
  <2>2. q \in Fblock /\ Counted(f, nn, q) /\ f[q].refcnt \in Int
    BY <1>2, BlocksFields DEF NodesKept
  <2>3. NNaming(g, gn, g[q].idp) = NNaming(f, nn, f[q].idp) + e
    BY <1>2, <1>3, <2>1
  <2>4. /\ NBound(g[q].port) = NBound(f[q].port) + e /\ NListed(g, q) = NListed(f, q) + e
        /\ g[q].refcnt = f[q].refcnt + e + e + e
    BY <1>1, <1>4, <2>1, <2>2
  <2>5. g[q].factory = NULL => f[q].factory = NULL
    BY <1>2
  <2> QED BY <1>1, <2>2, <2>3, <2>4, <2>5, CountedShift
<1> QED BY <1>1, <1>2, <1>5, <1>6, <1>7, <1>8 DEF NodesKept, NodesBound

(* An unbind finds a node at each end, because each port is covered by     *)
(* one, and drops what it was worth.                                       *)
LEMMA UnboundKept ==
    ASSUME NEW f \in Blocks, NEW nn, NEW g, NEW gn, NEW cnt, IdpsUpTo(f, cnt),
           NEW o1 \in LiveIn(f), NEW o2 \in LiveIn(f),
           NodesKept(f, nn, cnt), FullyUnbound(f, nn, o1, o2, g, gn)
    PROVE  NodesKept(g, gn, cnt) /\ NodesUnbound(f, nn, o1, o2, g, gn)
<1>1. /\ g \in Blocks /\ PortsUnbound(f, g, o1, o2) /\ Lists(f, nn)
      /\ \A q \in Fblock : Ident(g[q], f[q])
  BY DEF FullyUnbound, NodesKept
<1>2. LiveIn(g) = LiveIn(f) /\ LiveIn(f) \subseteq Fblock
      /\ \A q \in LiveIn(f) : g[q].idp = f[q].idp /\ g[q].factory = f[q].factory
  BY <1>1 DEF LiveIn, Ident
<1>3. \A q \in LiveIn(f) : \A j \in Idp :
        /\ NTo(g[q].port, j) = NTo(f[q].port, j)
                - AtTo(q, o1, j, f[o2].idp) - AtTo(q, o2, j, f[o1].idp)
        /\ NTo(g[q].port, j) \in Nat /\ NTo(f[q].port, j) \in Nat /\ NNodes(f, nn, q, j) \in Nat
        /\ NTo(f[q].port, j) <= NNodes(f, nn, q, j)
        /\ AtTo(q, o1, j, f[o2].idp) \in Nat /\ AtTo(q, o2, j, f[o1].idp) \in Nat
  <2>1. \A q \in LiveIn(f) : Counts(f, nn, q) /\ Counts(g, gn, q)
    BY <1>1, <1>2, CountsFacts
  <2>2. \A q, j, o, i : AtTo(q, o, j, i) \in Nat
    BY DEF AtTo
  <2>3. \A q \in LiveIn(f) : \A j \in Idp :
           NTo(g[q].port, j) = NTo(f[q].port, j)
                - AtTo(q, o1, j, f[o2].idp) - AtTo(q, o2, j, f[o1].idp)
    BY <1>1, <1>2 DEF PortsUnbound
  <2>4. \A q \in LiveIn(f) : \A j \in Idp : NTo(f[q].port, j) <= NNodes(f, nn, q, j)
    BY DEF NodesKept, Covered
  <2> QED BY <2>1, <2>2, <2>3, <2>4 DEF Counts
<1>4. f[o1].idp \in Idp /\ f[o2].idp \in Idp
  BY DEF IdpsUpTo, IdpsDiffer
<1>5. NNodes(f, nn, o1, f[o2].idp) >= 1
  <2>1. AtTo(o1, o1, f[o2].idp, f[o2].idp) = 1
    BY DEF AtTo
  <2> QED BY <1>3, <1>4, <2>1
<1>6. NNodes(f, nn, o2, f[o1].idp) >= 1 + AtTo(o2, o1, f[o1].idp, f[o2].idp)
  <2>1. AtTo(o2, o2, f[o1].idp, f[o1].idp) = 1
    BY DEF AtTo
  <2> QED BY <1>3, <1>4, <2>1
<1>7. NodesUnbound(f, nn, o1, o2, g, gn)
  BY <1>1, <1>5, <1>6 DEF FullyUnbound
<1>8. \A j : NNaming(g, gn, j) = NNaming(f, nn, j) - Ends(j, f[o2].idp, f[o1].idp)
  BY <1>7 DEF NodesUnbound
<1>9. \A q \in Fblock : /\ NBound(g[q].port) = NBound(f[q].port) - Ends(q, o1, o2)
                        /\ NListed(g, q) = NListed(f, q) - Ends(q, o1, o2)
                        /\ g[q].refcnt = f[q].refcnt - 3 * Ends(q, o1, o2)
  BY <1>1, <1>7 DEF NodesUnbound, PortsUnbound
<1>10. ASSUME NEW j \in 0 .. MaxIdp, j \notin 1 .. cnt PROVE NNaming(g, gn, j) = 0
  <2>1. Ends(j, f[o2].idp, f[o1].idp) = 0
    BY <1>10 DEF Ends, IdpsUpTo
  <2> QED BY <1>8, <1>10, <2>1 DEF NodesKept
<1>11. ASSUME NEW o \in Fblock, o \notin LiveIn(g) PROVE NListed(g, o) = 0
  <2>1. Ends(o, o1, o2) = 0
    BY <1>2, <1>11 DEF Ends
  <2> QED BY <1>2, <1>9, <1>11, <2>1 DEF NodesKept
<1>12. ASSUME NEW q \in LiveIn(f) PROVE Covered(g, gn, q)
  <2> SUFFICES ASSUME NEW j \in Idp PROVE NTo(g[q].port, j) <= NNodes(g, gn, q, j)
    BY DEF Covered
  <2>1. NNodes(g, gn, q, j) = NNodes(f, nn, q, j)
                - AtTo(q, o1, j, f[o2].idp) - AtTo(q, o2, j, f[o1].idp)
    BY <1>2, <1>7 DEF NodesUnbound
  <2> QED BY <1>3, <2>1
<1>13. ASSUME NEW q \in LiveIn(f) PROVE Counted(g, gn, q)
  <2>1. PICK e \in Int : Ends(q, o1, o2) = 0 - e /\ Ends(f[q].idp, f[o2].idp, f[o1].idp) = 0 - e
    <3>1. Ends(q, o1, o2) \in Int /\ Ends(f[q].idp, f[o2].idp, f[o1].idp) = Ends(q, o1, o2)
      BY EndsIdp DEF IdpsUpTo
    <3>2. 0 - Ends(q, o1, o2) \in Int /\ 0 - (0 - Ends(q, o1, o2)) = Ends(q, o1, o2)
      BY <3>1
    <3> QED BY <3>1, <3>2
  <2>2. q \in Fblock /\ Counted(f, nn, q) /\ Counts(f, nn, q)
    BY <1>2, CountsFacts DEF NodesKept
  <2>3. NNaming(g, gn, g[q].idp) = NNaming(f, nn, f[q].idp) + e
    BY <1>2, <1>8, <2>1, <2>2 DEF Counts
  <2>4. /\ NBound(g[q].port) = NBound(f[q].port) + e /\ NListed(g, q) = NListed(f, q) + e
        /\ g[q].refcnt = f[q].refcnt + e + e + e
    BY <1>9, <2>1, <2>2 DEF Counts
  <2>5. g[q].factory = NULL => f[q].factory = NULL
    BY <1>2
  <2> QED BY <1>1, <2>2, <2>3, <2>4, <2>5, CountedShift
<1> QED BY <1>2, <1>7, <1>10, <1>11, <1>12, <1>13 DEF NodesKept, NodesUnbound

(* One port less at one end, and one reference. *)
LEMMA ReleasedKept ==
    ASSUME NEW f \in Blocks, NEW nn, NEW g \in Blocks, NEW gn, NEW cnt,
           NodesKept(f, nn, cnt), ListsSame(f, nn, g, gn),
           \A q \in Fblock : Ident(g[q], f[q]),
           NEW o1,
           \A q \in Fblock :
              /\ g[q].refcnt = f[q].refcnt - At(q, o1)
              /\ NBound(g[q].port) = NBound(f[q].port) - At(q, o1)
              /\ \A j \in Idp : NTo(g[q].port, j) <= NTo(f[q].port, j)
    PROVE  NodesKept(g, gn, cnt)
<1>2. LiveIn(g) = LiveIn(f) /\ LiveIn(f) \subseteq Fblock
      /\ \A q \in LiveIn(f) : g[q].idp = f[q].idp /\ g[q].factory = f[q].factory
  BY DEF LiveIn, Ident
<1>3. /\ Lists(g, gn)
      /\ \A q \in Fblock : NListed(g, q) = NListed(f, q)
      /\ \A q \in Fblock : \A j : NNodes(g, gn, q, j) = NNodes(f, nn, q, j)
      /\ \A j : NNaming(g, gn, j) = NNaming(f, nn, j)
  BY DEF ListsSame, NodesKept
<1>4. ASSUME NEW q \in LiveIn(f) PROVE Covered(g, gn, q)
  <2> SUFFICES ASSUME NEW j \in Idp PROVE NTo(g[q].port, j) <= NNodes(g, gn, q, j)
    BY DEF Covered
  <2>1. q \in Fblock /\ Counts(f, nn, q) /\ Counts(g, gn, q)
    BY <1>2, CountsFacts
  <2>2. NTo(f[q].port, j) \in Nat /\ NTo(g[q].port, j) \in Nat /\ NNodes(f, nn, q, j) \in Nat
    BY <2>1 DEF Counts
  <2>3. NTo(f[q].port, j) <= NNodes(f, nn, q, j)
    BY DEF NodesKept, Covered
  <2> QED BY <1>3, <2>1, <2>2, <2>3
<1>5. ASSUME NEW q \in LiveIn(f) PROVE Counted(g, gn, q)
  <2>1. PICK e \in Int : At(q, o1) = 0 - e
    <3>1. At(q, o1) = 0 - (0 - At(q, o1)) /\ 0 - At(q, o1) \in Int
      BY DEF At
    <3> QED BY <3>1
  <2>2. q \in Fblock /\ Counted(f, nn, q) /\ Counts(f, nn, q)
    BY <1>2, CountsFacts DEF NodesKept
  <2>3. /\ NNaming(g, gn, g[q].idp) = NNaming(f, nn, f[q].idp) + 0
        /\ NListed(g, q) = NListed(f, q) + 0
    BY <1>2, <1>3, <2>2 DEF Counts
  <2>4. /\ NBound(g[q].port) = NBound(f[q].port) + e
        /\ g[q].refcnt = f[q].refcnt + e + 0 + 0
    BY <2>1, <2>2 DEF Counts
  <2>5. (g[q].factory = NULL => f[q].factory = NULL) /\ 0 \in Int
    BY <1>2
  <2> QED BY <2>2, <2>3, <2>4, <2>5, CountedShift
<1> QED BY <1>2, <1>3, <1>4, <1>5 DEF NodesKept

(* A refused command. *)
LEMMA UntouchedKept ==
    ASSUME NEW f \in Blocks, NEW nn, NEW g, NEW gn, NEW cnt,
           NodesKept(f, nn, cnt), Untouched(f, nn, g, gn)
    PROVE  NodesKept(g, gn, cnt)
<1>1. /\ g \in Blocks /\ Agree(g, nn, gn)
      /\ \A q \in Fblock : Rest(g[q], f[q]) /\ g[q].refcnt = f[q].refcnt
      /\ \A q \in Fblock : /\ NBound(g[q].port) = NBound(f[q].port)
                           /\ \A j \in Idp : NTo(g[q].port, j) = NTo(f[q].port, j)
  BY DEF Untouched, PortsAsBefore
<1>2. \A q \in Fblock : g[q].notifiers = f[q].notifiers /\ Ident(g[q], f[q])
  BY <1>1 DEF Rest, Ident
<1>3. ListsSame(f, nn, g, gn)
  BY <1>1, <1>2, SameNodes DEF Agree
<1>4. \A q \in Fblock : Counts(f, nn, q) /\ At(q, NULL) = 0
  BY CountsFacts, NullAssumption DEF At
<1>5. \A q \in Fblock :
              /\ g[q].refcnt = f[q].refcnt - At(q, NULL)
              /\ NBound(g[q].port) = NBound(f[q].port) - At(q, NULL)
              /\ \A j \in Idp : NTo(g[q].port, j) <= NTo(f[q].port, j)
  <2>1. \A q \in Fblock : f[q].refcnt \in Int /\ NBound(f[q].port) \in Nat
    BY <1>4 DEF Counts
  <2>2. \A q \in Fblock : \A j \in Idp : NTo(f[q].port, j) \in Nat
    BY <1>4 DEF Counts
  <2>3. \A q \in Fblock : \A j \in Idp : NTo(g[q].port, j) <= NTo(f[q].port, j)
    BY <1>1, <2>2
  <2> QED BY <1>1, <1>4, <2>1, <2>3
<1> QED BY <1>1, <1>2, <1>3, <1>5, ReleasedKept

(* An unbind that stops half way drops one port and one reference. *)
LEMMA HalfKept ==
    ASSUME NEW f \in Blocks, NEW nn, NEW g, NEW gn, NEW cnt, NEW o1, NEW o2,
           NodesKept(f, nn, cnt), HalfUnbound(f, nn, o1, o2, g, gn)
    PROVE  NodesKept(g, gn, cnt)
<1>1. /\ g \in Blocks /\ Agree(g, nn, gn)
      /\ \A q \in Fblock : Rest(g[q], f[q]) /\ g[q].refcnt = f[q].refcnt - At(q, o1)
      /\ PortsReleased(f, g, o1)
  BY DEF HalfUnbound
<1>2. \A q \in Fblock : g[q].notifiers = f[q].notifiers /\ Ident(g[q], f[q])
  BY <1>1 DEF Rest, Ident
<1>3. ListsSame(f, nn, g, gn)
  BY <1>1, <1>2, SameNodes DEF Agree
<1> QED BY <1>1, <1>2, <1>3, ReleasedKept DEF PortsReleased

(* A subscription is worth one reference at each end. *)
LEMMA SubscribedKept ==
    ASSUME NEW f \in Blocks, NEW nn, NEW g, NEW gn, NEW cnt, IdpsUpTo(f, cnt),
           NEW us \in LiveIn(f), NEW remote \in LiveIn(f), "SUBSCRIBE" \in Commands,
           NodesKept(f, nn, cnt), SubscribeStepped(f, nn, us, remote, g, gn)
    PROVE  NodesKept(g, gn, cnt) /\ ListsUp(f, nn, us, remote, g, gn)
<1>1. /\ g \in Blocks /\ ListsUp(f, nn, us, remote, g, gn)
      /\ \A q \in Fblock :
          /\ Placed(g[q], f[q])
          /\ g[q].state = f[q].state
          /\ g[q].refcnt = f[q].refcnt + Ends(q, us, remote)
  BY DEF SubscribeStepped, NodesKept
<1>2. LiveIn(g) = LiveIn(f) /\ LiveIn(f) \subseteq Fblock
      /\ \A q \in LiveIn(f) : /\ g[q].idp = f[q].idp /\ g[q].factory = f[q].factory
                              /\ g[q].port = f[q].port
  BY <1>1 DEF LiveIn, Placed
<1>3. /\ Lists(g, gn)
      /\ \A q \in Fblock :
          /\ NListed(g, q) = NListed(f, q) + At(q, us)
          /\ \A k : NNodes(g, gn, q, k) = NNodes(f, nn, q, k) + AtTo(q, us, k, f[remote].idp)
      /\ \A k : NNaming(g, gn, k) = NNaming(f, nn, k) + At(k, f[remote].idp)
  BY <1>1 DEF ListsUp, CountUp
<1>5. ASSUME NEW j \in 0 .. MaxIdp, j \notin 1 .. cnt PROVE NNaming(g, gn, j) = 0
  <2>1. At(j, f[remote].idp) = 0
    BY <1>5 DEF At, IdpsUpTo
  <2> QED BY <1>3, <1>5, <2>1 DEF NodesKept
<1>6. ASSUME NEW o \in Fblock, o \notin LiveIn(g) PROVE NListed(g, o) = 0
  <2>1. At(o, us) = 0
    BY <1>2, <1>6 DEF At
  <2> QED BY <1>2, <1>3, <1>6, <2>1 DEF NodesKept
<1>7. ASSUME NEW q \in LiveIn(f) PROVE Covered(g, gn, q)
  <2> SUFFICES ASSUME NEW j \in Idp PROVE NTo(g[q].port, j) <= NNodes(g, gn, q, j)
    BY DEF Covered
  <2> DEFINE a == AtTo(q, us, j, f[remote].idp)
  <2>1. NTo(g[q].port, j) = NTo(f[q].port, j) /\ NNodes(g, gn, q, j) = NNodes(f, nn, q, j) + a
    BY <1>2, <1>3
  <2>2. a \in Nat
    BY DEF AtTo
  <2> HIDE DEF a
  <2>3. NTo(f[q].port, j) \in Nat /\ NNodes(f, nn, q, j) \in Nat
    BY <1>2, CountsFacts DEF Counts
  <2>4. NTo(f[q].port, j) <= NNodes(f, nn, q, j)
    BY DEF NodesKept, Covered
  <2> QED BY <2>1, <2>2, <2>3, <2>4
<1>8. ASSUME NEW q \in LiveIn(f) PROVE Counted(g, gn, q)
  <2>1. PICK l \in Int, n \in Int : /\ l = At(q, us) /\ n = At(f[q].idp, f[remote].idp)
                                    /\ Ends(q, us, remote) = l + n
    <3>1. /\ At(f[q].idp, f[remote].idp) = At(q, remote)
          /\ Ends(q, us, remote) = At(q, us) + At(q, remote)
          /\ At(q, us) \in Int /\ At(q, remote) \in Int
      BY EndsIdp DEF IdpsUpTo
    <3> QED BY <3>1
  <2>2. q \in Fblock /\ Counted(f, nn, q) /\ Counts(f, nn, q)
    BY <1>2, CountsFacts DEF NodesKept
  <2>3. /\ NNaming(g, gn, g[q].idp) = NNaming(f, nn, f[q].idp) + n
        /\ NListed(g, q) = NListed(f, q) + l
    BY <1>2, <1>3, <2>1, <2>2
  <2>4. /\ NBound(g[q].port) = NBound(f[q].port) + 0
        /\ g[q].refcnt = f[q].refcnt + 0 + l + n
    BY <1>1, <1>2, <2>1, <2>2 DEF Counts
  <2>5. (g[q].factory = NULL => f[q].factory = NULL) /\ 0 \in Int
    BY <1>2
  <2> QED BY <1>1, <2>2, <2>3, <2>4, <2>5, CountedShift
<1> QED BY <1>1, <1>2, <1>3, <1>5, <1>6, <1>7, <1>8 DEF NodesKept

(* A block that has not changed is still counted. *)
LEMMA StillKept ==
    ASSUME NEW f \in Blocks, NEW g \in Blocks, NEW nn, NEW gn, ListsSame(f, nn, g, gn),
           NEW q \in Fblock, Covered(f, nn, q), Counted(f, nn, q),
           g[q].idp = f[q].idp, g[q].refcnt = f[q].refcnt,
           g[q].factory = f[q].factory, g[q].port = f[q].port
    PROVE  Covered(g, gn, q) /\ Counted(g, gn, q)
<1>1. Counts(f, nn, q)
  BY CountsFacts
<1>2. /\ NListed(g, q) = NListed(f, q)
      /\ \A j : NNodes(g, gn, q, j) = NNodes(f, nn, q, j)
      /\ NNaming(g, gn, g[q].idp) = NNaming(f, nn, f[q].idp)
  BY DEF ListsSame
<1>3. Covered(g, gn, q)
  BY <1>2 DEF Covered
<1>4. Refs(g, gn, q) = Refs(f, nn, q)
  BY <1>2 DEF Refs
<1>5. Counted(g, gn, q)
  BY <1>2, <1>4 DEF Counted
<1> QED BY <1>3, <1>5

(* A block without a list may go. *)
LEMMA GoneKept ==
    ASSUME NEW f \in Blocks, NEW nn, NEW g, NEW gn, NEW cnt, NEW o \in Fblock,
           NodesKept(f, nn, cnt), BlockGone(f, o, g), Agree(g, nn, gn), NListed(f, o) = 0
    PROVE  NodesKept(g, gn, cnt) /\ ListsSame(f, nn, g, gn)
<1>1. /\ g \in Blocks /\ \A q \in Fblock : g[q].notifiers = f[q].notifiers
      /\ \A q \in Fblock : q # o => Alike(g[q], f[q]) /\ g[q].refcnt = f[q].refcnt
  BY DEF BlockGone, Alike, Kept
<1>2. LiveIn(g) = LiveIn(f) \ {o} /\ LiveIn(f) \subseteq Fblock
  BY DEF LiveIn, BlockGone, Alike
<1>3. ListsSame(f, nn, g, gn)
  BY <1>1, SameNodes DEF Agree
<1>4. /\ Lists(g, gn)
      /\ \A q \in Fblock : NListed(g, q) = NListed(f, q)
      /\ \A j : NNaming(g, gn, j) = NNaming(f, nn, j)
  BY <1>3 DEF ListsSame, NodesKept
<1>5. ASSUME NEW q \in LiveIn(g) PROVE Covered(g, gn, q) /\ Counted(g, gn, q)
  <2>1. q \in LiveIn(f) /\ q # o /\ q \in Fblock
    BY <1>2
  <2>2. Covered(f, nn, q) /\ Counted(f, nn, q)
    BY <2>1 DEF NodesKept
  <2>3. /\ g[q].idp = f[q].idp /\ g[q].refcnt = f[q].refcnt
        /\ g[q].factory = f[q].factory /\ g[q].port = f[q].port
    BY <1>1, <2>1 DEF Alike, Kept
  <2> QED BY <1>1, <1>3, <2>1, <2>2, <2>3, StillKept
<1> QED BY <1>2, <1>3, <1>4, <1>5 DEF NodesKept

(* The memory of a new block has no list: nobody names its idp. *)
LEMMA BornKept ==
    ASSUME NEW f \in Blocks, NEW nn, NEW g, NEW cnt \in Nat, cnt < MaxIdp,
           NEW o \in Fblock, f[o].state = "free",
           NEW n, NEW type, BlockBorn(f, o, n, type, cnt + 1, g), NodesKept(f, nn, cnt)
    PROVE  NodesKept(g, nn, cnt + 1) /\ ListsSame(f, nn, g, nn)
<1>1. g \in Blocks /\ \A q \in Fblock : g[q].notifiers = f[q].notifiers
  BY DEF BlockBorn
<1>2. LiveIn(g) = LiveIn(f) \cup {o} /\ o \notin LiveIn(f) /\ LiveIn(f) \subseteq Fblock
  BY DEF LiveIn, BlockBorn
<1>3. ListsSame(f, nn, g, nn)
  BY <1>1, SameNodes
<1>4. /\ Lists(g, nn)
      /\ \A q \in Fblock : NListed(g, q) = NListed(f, q)
      /\ \A j : NNaming(g, nn, j) = NNaming(f, nn, j)
  BY <1>3 DEF ListsSame, NodesKept
<1>5. ASSUME NEW q \in LiveIn(f) PROVE Covered(g, nn, q) /\ Counted(g, nn, q)
  <2>1. q # o /\ q \in Fblock
    BY <1>2
  <2>2. Covered(f, nn, q) /\ Counted(f, nn, q)
    BY <2>1 DEF NodesKept
  <2>3. g[q] = f[q]
    BY <2>1 DEF BlockBorn
  <2> QED BY <1>1, <1>3, <2>1, <2>2, <2>3, StillKept
<1>6. /\ g[o].port = NoPorts /\ g[o].refcnt = 1 /\ g[o].idp = cnt + 1
      /\ NBound(NoPorts) = 0 /\ \A j \in Idp : NTo(NoPorts, j) = 0
  <2>1. {p \in Port : NoPorts[p] # IDP_UNKNOWN} = {}
    BY DEF NoPorts
  <2>2. ASSUME NEW j \in Idp PROVE {p \in Port : NoPorts[p] = j} = {}
    BY IdpAssumption DEF NoPorts, Idp, IDP_UNKNOWN
  <2> QED BY <2>1, <2>2, FS_EmptySet DEF NBound, NTo, BlockBorn
<1>7. NListed(g, o) = 0 /\ NNaming(g, nn, cnt + 1) = 0
  <2>1. cnt + 1 \in 0 .. MaxIdp /\ cnt + 1 \notin 1 .. cnt
    BY IdpAssumption
  <2> QED BY <1>2, <1>4, <2>1 DEF NodesKept
<1>8. Covered(g, nn, o)
  <2>1. \A j : NNodes(g, nn, o, j) \in Nat
    BY <1>1, CountsFacts DEF Counts
  <2> QED BY <1>6, <2>1 DEF Covered
<1>9. Counted(g, nn, o)
  BY <1>6, <1>7 DEF Counted, Refs
<1>10. \A j \in 0 .. MaxIdp : j \notin 1 .. cnt + 1 => NNaming(g, nn, j) = 0
  BY <1>4, IdpAssumption DEF NodesKept
<1> QED BY <1>2, <1>3, <1>4, <1>5, <1>8, <1>9, <1>10 DEF NodesKept

(* The new block takes over list, count and the nodes that name the idp;   *)
(* its own were none.                                                      *)
LEMMA ReplacedKept ==
    ASSUME NEW f \in Blocks, NEW nn, NEW g, NEW gn, NEW cnt,
           NEW o1 \in LiveIn(f), NEW o2 \in LiveIn(f), "REPLACE" \in Commands,
           f[o1].factory # NULL, f[o2].factory # NULL,
           \A q \in LiveIn(f) : f[q].refcnt >= 1 + 3 * NBound(f[q].port),
           NodesKept(f, nn, cnt), Replaced(f, nn, o1, o2, g, gn)
    PROVE  NodesKept(g, gn, cnt) /\ NodesReplaced(f, nn, o1, o2, g, gn)
<1> DEFINE keep == f[o1].factory = f[o2].factory
<1>0. o1 \in Fblock /\ o2 \in Fblock /\ f[o2].state = "live" /\ LiveIn(f) \subseteq Fblock
  BY DEF LiveIn
<1>1. /\ o1 # o2 /\ f[o2].refcnt = 1 /\ TookOver(f, o1, o2, keep, g)
      /\ NodesReplaced(f, nn, o1, o2, g, gn) /\ g \in Blocks
  BY DEF Replaced, NodesKept, TookOver
<1>2. LiveIn(g) = LiveIn(f) \ {o1}
  BY <1>0, <1>1 DEF LiveIn, TookOver, Alike
<1>3. \A q \in LiveIn(g) : q # o2 =>
          /\ q \in LiveIn(f) /\ q \notin {o1, o2} /\ g[q].idp = f[q].idp
          /\ g[q].refcnt = f[q].refcnt
          /\ g[q].factory = f[q].factory /\ g[q].port = f[q].port
  BY <1>1, <1>2 DEF LiveIn, TookOver, Alike, Kept
<1>4. /\ Lists(g, gn)
      /\ \A q \in Fblock : q \notin {o1, o2} =>
          /\ NListed(g, q) = NListed(f, q)
          /\ \A j : NNodes(g, gn, q, j) = NNodes(f, nn, q, j)
      /\ NListed(g, o2) = NListed(f, o1)
      /\ \A j : NNodes(g, gn, o2, j) = NNodes(f, nn, o1, j)
      /\ \A j : NNaming(g, gn, j) = NNaming(f, nn, j)
  BY <1>1 DEF NodesReplaced
<1>5. NListed(f, o2) = 0 /\ NBound(f[o2].port) = 0
  <2>1. Counts(f, nn, o2)
    BY <1>0, CountsFacts
  <2>2. f[o2].refcnt >= Refs(f, nn, o2)
    BY DEF NodesKept, Counted
  <2> QED BY <1>1, <2>1, <2>2 DEF Counts, Refs
<1>6. NListed(g, o1) = 0
  <2>1. g[o1].notifiers = f[o2].notifiers
    BY <1>1 DEF TookOver
  <2> QED BY <1>5, <2>1 DEF NListed
<1>7. ASSUME NEW o \in Fblock, o \notin LiveIn(g) PROVE NListed(g, o) = 0
  <2>1. o = o1 \/ (o \notin LiveIn(f) /\ o \notin {o1, o2})
    BY <1>2, <1>7
  <2> QED BY <1>4, <1>6, <2>1 DEF NodesKept
<1>8. ASSUME NEW q \in LiveIn(g), q # o2 PROVE Covered(g, gn, q) /\ Counted(g, gn, q)
  <2>1. /\ q \in LiveIn(f) /\ q \in Fblock /\ q \notin {o1, o2} /\ g[q].idp = f[q].idp
        /\ g[q].refcnt = f[q].refcnt
        /\ g[q].factory = f[q].factory /\ g[q].port = f[q].port
    BY <1>0, <1>3, <1>8
  <2>2. Covered(f, nn, q) /\ Counted(f, nn, q) /\ Counts(f, nn, q)
    BY <2>1, CountsFacts DEF NodesKept
  <2>3. Covered(g, gn, q)
    BY <1>4, <2>1, <2>2 DEF Covered
  <2>4. Refs(g, gn, q) = Refs(f, nn, q)
    BY <1>4, <2>1 DEF Refs
  <2>5. Counted(g, gn, q)
    BY <1>4, <2>1, <2>2, <2>4 DEF Counted
  <2> QED BY <2>3, <2>5
<1>9. /\ g[o2].idp = f[o1].idp /\ g[o2].refcnt = f[o1].refcnt /\ g[o2].factory = f[o2].factory
      /\ keep => g[o2].port = f[o1].port
      /\ ~keep => g[o2].port = f[o2].port
  BY <1>1 DEF TookOver
<1>10. OneType => keep
  BY <1>0, BlocksFields DEF OneType
<1>11. Covered(f, nn, o1) /\ Counted(f, nn, o1) /\ Counts(f, nn, o1)
  BY <1>0, CountsFacts DEF NodesKept
<1> HIDE DEF keep
<1>12. CASE keep
  <2>1. Covered(g, gn, o2)
    BY <1>4, <1>9, <1>11, <1>12 DEF Covered
  <2>2. Refs(g, gn, o2) = Refs(f, nn, o1)
    BY <1>4, <1>9, <1>12 DEF Refs
  <2>3. Counted(g, gn, o2)
    BY <1>4, <1>9, <1>11, <2>2 DEF Counted
  <2>4. \A q \in LiveIn(g) : Covered(g, gn, q) /\ Counted(g, gn, q)
    BY <1>8, <2>1, <2>3
  <2> QED BY <1>1, <1>4, <1>7, <2>4 DEF NodesKept
<1>13. CASE ~keep
  <2>1. f[o2].port = NoPorts /\ \A j \in Idp : NTo(NoPorts, j) = 0
    <3>1. f[o2].port = NoPorts
      BY <1>0, <1>5, BlocksFields, PortCounts
    <3>2. ASSUME NEW j \in Idp PROVE {p \in Port : NoPorts[p] = j} = {}
      BY IdpAssumption DEF NoPorts, Idp, IDP_UNKNOWN
    <3> QED BY <3>1, <3>2, FS_EmptySet DEF NTo
  <2>2. Covered(g, gn, o2)
    <3>1. \A j : NNodes(g, gn, o2, j) \in Nat
      BY <1>0, <1>1, CountsFacts DEF Counts
    <3> QED BY <1>9, <1>13, <2>1, <3>1 DEF Covered
  <2>3. Counted(g, gn, o2)
    <3>1. NBound(g[o2].port) = 0
      BY <1>5, <1>9, <1>13
    <3>2. f[o1].refcnt >= Refs(f, nn, o1)
          /\ ("SUBSCRIBE" \notin Commands => NListed(f, o1) = NNaming(f, nn, f[o1].idp))
      BY <1>11 DEF Counted
    <3>3. g[o2].refcnt >= Refs(g, gn, o2)
      BY <1>4, <1>9, <1>11, <3>1, <3>2 DEF Refs, Counts
    <3> QED BY <1>4, <1>9, <1>10, <1>13, <3>2, <3>3 DEF Counted
  <2>4. \A q \in LiveIn(g) : Covered(g, gn, q) /\ Counted(g, gn, q)
    BY <1>8, <2>2, <2>3
  <2> QED BY <1>1, <1>4, <1>7, <2>4 DEF NodesKept
<1> QED BY <1>12, <1>13

(* A count of 1, or of 2 for a device's block, says that nothing but the   *)
(* registration refers to the block.                                       *)
LEMMA UnusedBlock ==
    ASSUME NEW f \in Blocks, NEW nn, NEW cnt, NodesKept(f, nn, cnt), NEW o \in LiveIn(f),
           \/ f[o].refcnt = 1
           \/ /\ f[o].refcnt <= 2 /\ f[o].factory = NULL /\ "SUBSCRIBE" \notin Commands
              /\ f[o].refcnt >= 1 + 3 * NBound(f[o].port)
    PROVE  f[o].refcnt = 1 /\ NListed(f, o) = 0 /\ NNaming(f, nn, f[o].idp) = 0
<1>1. Counts(f, nn, o)
  BY CountsFacts DEF LiveIn
<1>2. /\ f[o].refcnt >= Refs(f, nn, o)
      /\ f[o].factory = NULL => f[o].refcnt = Refs(f, nn, o)
      /\ "SUBSCRIBE" \notin Commands => NListed(f, o) = NNaming(f, nn, f[o].idp)
  BY DEF NodesKept, Counted
<1>3. CASE f[o].refcnt = 1
  BY <1>1, <1>2, <1>3 DEF Counts, Refs
<1>4. CASE /\ f[o].refcnt <= 2 /\ f[o].factory = NULL /\ "SUBSCRIBE" \notin Commands
           /\ f[o].refcnt >= 1 + 3 * NBound(f[o].port)
  <2>1. f[o].refcnt = Refs(f, nn, o) /\ NListed(f, o) = NNaming(f, nn, f[o].idp)
    BY <1>2, <1>4
  <2> QED BY <1>1, <1>4, <2>1 DEF Counts, Refs
<1> QED BY <1>3, <1>4

(* The registry's idps. *)
LEMMA BaseUpTo ==
    ASSUME Base
    PROVE  IdpsUpTo(fb, idp_counter)
BY BaseIdps, BaseFacts DEF IdpsUpTo, Registered

(* A device's block that is destroyed was in no connection. *)
LEMMA UnhookFrees ==
    ASSUME Base, UnhookUnsubscribed, NodesInv, NEW d \in Device, Unhook(d),
           NEW o, o = hooked[d]
    PROVE  /\ o \in LiveIn(fb) /\ fb[o].refcnt = 1
           /\ NListed(fb, o) = 0 /\ NNaming(fb, fn, fb[o].idp) = 0
           /\ Collected(fb, fn, o, fb', fn')
<1>1. /\ o \in LiveIn(fb) /\ fb[o].factory = NULL /\ fb[o].refcnt <= 2
      /\ Collected(fb, fn, o, fb', fn')
  BY UnhookStep
<1>2. "SUBSCRIBE" \notin Commands
  BY DEF UnhookUnsubscribed, Unhook
<1>3. fb \in Blocks /\ fb[o].refcnt >= 1 + 3 * NBound(fb[o].port)
  BY <1>1, BaseFacts
<1> QED BY <1>1, <1>2, <1>3, UnusedBlock DEF NodesInv

(* A block that is removed was in no connection. *)
LEMMA RmFrees ==
    ASSUME Base, NodesInv, NEW n \in Name, Rm(n), NEW o, o = Search(n)
    PROVE  /\ o \in LiveIn(fb)
           /\ NListed(fb, o) = 0 /\ NNaming(fb, fn, fb[o].idp) = 0
           /\ BlockGone(fb, o, fb') /\ fn' = fn
<1>1. o \in LiveIn(fb) /\ fb[o].refcnt = 1 /\ BlockGone(fb, o, fb')
  BY RmStep
<1>2. fb \in Blocks /\ fn' = fn
  BY BaseFacts DEF Rm
<1> QED BY <1>1, <1>2, UnusedBlock DEF NodesInv

(* Every step keeps the nodes. *)
LEMMA NodesStep ==
    ASSUME Base, UnhookUnsubscribed, NodesInv, [Next]_vars
    PROVE  NodesInv'
<1> SUFFICES NodesKept(fb', fn', idp_counter')
  BY DEF NodesInv
<1>0. /\ fb \in Blocks /\ idp_counter \in Nat /\ NodesKept(fb, fn, idp_counter)
      /\ IdpsUpTo(fb, idp_counter) /\ LiveIn(fb) \subseteq Fblock
      /\ \A q \in LiveIn(fb) : fb[q].refcnt >= 1 + 3 * NBound(fb[q].port)
  BY BaseFacts, BaseUpTo, IdpAssumption DEF NodesInv, LiveIn
<1>skip. ASSUME Skipped PROVE NodesKept(fb', fn', idp_counter')
  <2>1. \A j : j \notin 1 .. idp_counter + 1 => j \notin 1 .. idp_counter
    BY <1>0
  <2>2. NodesKept(fb, fn, idp_counter + 1)
    BY <1>0, <2>1 DEF NodesKept
  <2> QED BY <1>skip, <2>2 DEF Skipped
<1>born. ASSUME NEW o, NEW n, NEW type, Born(o, n, type)
         PROVE  NodesKept(fb', fn', idp_counter')
  <2>1. /\ o \in Fblock /\ fb[o].state = "free" /\ idp_counter < MaxIdp
        /\ BlockBorn(fb, o, n, type, idp_counter + 1, fb')
        /\ fn' = fn /\ idp_counter' = idp_counter + 1
    BY <1>born DEF Born
  <2>2. NodesKept(fb', fn, idp_counter + 1)
    BY <1>0, <2>1, BornKept
  <2> QED BY <2>1, <2>2
<1>1. ASSUME NEW n \in FbName, NEW type \in Type, Add(n, type)
      PROVE  NodesKept(fb', fn', idp_counter')
  <2>1. Skipped \/ \E o : Born(o, n, type)
    BY <1>1, AddStep
  <2> QED BY <1>skip, <1>born, <2>1
<1>2. ASSUME NEW n \in Name, Rm(n) PROVE NodesKept(fb', fn', idp_counter')
  <2>1. PICK o : o = Search(n)
    OBVIOUS
  <2>2. o \in LiveIn(fb) /\ NListed(fb, o) = 0 /\ BlockGone(fb, o, fb') /\ fn' = fn
    BY <1>2, <2>1, RmFrees
  <2>3. Agree(fb', fn, fn) /\ o \in Fblock /\ idp_counter' = idp_counter
    BY <1>0, <1>2, <2>2 DEF Agree, Rm
  <2>4. NodesKept(fb', fn, idp_counter)
    BY <1>0, <2>2, <2>3, GoneKept
  <2> QED BY <2>2, <2>3, <2>4
<1>3. ASSUME NEW n1 \in Name, NEW n2 \in Name, Connecting(n1, n2)
      PROVE  NodesKept(fb', fn', idp_counter')
  <2>1. PICK o1, o2 : o1 = Search(n1) /\ o2 = Search(n2)
    OBVIOUS
  <2>2. /\ ConnectingShape(o1, o2) /\ o1 \in LiveIn(fb) /\ o2 \in LiveIn(fb)
        /\ idp_counter' = idp_counter
    BY <1>3, <2>1, ConnectingShapes
  <2>3. CASE Untouched(fb, fn, fb', fn')
    BY <1>0, <2>2, <2>3, UntouchedKept
  <2>4. CASE FullyBound(fb, fn, o1, o2, fb', fn')
    BY <1>0, <2>2, <2>4, BoundKept
  <2>5. CASE HalfUnbound(fb, fn, o1, o2, fb', fn')
    BY <1>0, <2>2, <2>5, HalfKept
  <2>6. CASE FullyUnbound(fb, fn, o1, o2, fb', fn')
    BY <1>0, <2>2, <2>6, UnboundKept
  <2>7. CASE SubscribeStepped(fb, fn, o2, o1, fb', fn') /\ "SUBSCRIBE" \in Commands
    BY <1>0, <2>2, <2>7, SubscribedKept
  <2> QED BY <2>2, <2>3, <2>4, <2>5, <2>6, <2>7 DEF ConnectingShape
<1>4. ASSUME NEW n1 \in Name, NEW n2 \in Name, Replace(n1, n2, FALSE)
      PROVE  NodesKept(fb', fn', idp_counter')
  <2>1. PICK o1, o2 : o1 = Search(n1) /\ o2 = Search(n2)
    OBVIOUS
  <2>2. TablesReplaced(o1, o2)
    BY <1>4, <2>1, ReplaceTables
  <2>3. /\ o1 \in LiveIn(fb) /\ o2 \in LiveIn(fb) /\ Replaced(fb, fn, o1, o2, fb', fn')
        /\ fb[o1].factory # NULL /\ fb[o2].factory # NULL /\ "REPLACE" \in Commands
        /\ idp_counter' = idp_counter
    BY <2>2 DEF TablesReplaced
  <2>4. NodesKept(fb', fn', idp_counter)
    BY <1>0, <2>3, ReplacedKept
  <2> QED BY <2>3, <2>4
<1>5. ASSUME NEW d \in Device, Hook(d) PROVE NodesKept(fb', fn', idp_counter')
  <2>1. Skipped \/ \E o : Born(o, d, NULL)
    BY <1>5, HookStep
  <2> QED BY <1>skip, <1>born, <2>1
<1>6. ASSUME NEW d \in Device, Unhook(d) PROVE NodesKept(fb', fn', idp_counter')
  <2>1. PICK o : o = hooked[d]
    OBVIOUS
  <2>2. o \in LiveIn(fb) /\ NListed(fb, o) = 0 /\ Collected(fb, fn, o, fb', fn')
    BY <1>6, <2>1, UnhookFrees
  <2>3. BlockGone(fb, o, fb') /\ Agree(fb', fn, fn') /\ o \in Fblock
    BY <1>0, <2>2 DEF Collected
  <2>4. NodesKept(fb', fn', idp_counter)
    BY <1>0, <2>2, <2>3, GoneKept
  <2>5. idp_counter' = idp_counter
    BY <1>6 DEF Unhook
  <2> QED BY <2>4, <2>5
<1>7. ASSUME NEW o \in Fblock, RcuFree(o) PROVE NodesKept(fb', fn', idp_counter')
  <2>1. o \notin LiveIn(fb) /\ Collected(fb, fn, o, fb', fn') /\ idp_counter' = idp_counter
    BY <1>7, RcuFreeStep
  <2>2. BlockGone(fb, o, fb') /\ Agree(fb', fn, fn') /\ NListed(fb, o) = 0
    BY <1>0, <2>1 DEF Collected, NodesKept
  <2>3. NodesKept(fb', fn', idp_counter)
    BY <1>0, <2>2, GoneKept
  <2> QED BY <2>1, <2>3
<1>8. CASE UNCHANGED vars
  BY <1>0, <1>8 DEF vars
<1> QED BY <1>1, <1>2, <1>3, <1>4, <1>5, <1>6, <1>7, <1>8 DEF Next, Connecting

(* In the beginning all lists are empty. *)
LEMMA NodesInit ==
    ASSUME Init
    PROVE  NodesInv
<1>1. \A o \in Fblock : fb[o] = FreeFblock(<<>>)
  BY DEF Init
<1>2. \A o \in Fblock : fb[o].notifiers = <<>>
  BY <1>1 DEF FreeFblock
<1>3. Elems(<<>>) = {}
  <2>1. <<>> \in Seq(Nb)
    OBVIOUS
  <2> QED BY <2>1, ElemsFacts
<1>4. \A o \in Fblock : Elems(fb[o].notifiers) = {}
  BY <1>2, <1>3
<1>5. Distinct(<<>>)
  BY DEF Distinct
<1>6. Lists(fb, fn)
  BY <1>2, <1>4, <1>5 DEF Lists
<1>7. \A o \in Fblock : NListed(fb, o) = 0
  BY <1>4, FS_EmptySet DEF NListed
<1>8. ASSUME NEW j PROVE NNaming(fb, fn, j) = 0
  <2>1. NamingIn(fb, fn, j) = {}
    BY <1>4 DEF NamingIn
  <2> QED BY <2>1, FS_EmptySet DEF NNaming
<1> QED BY <1>6, <1>7, <1>8, InitLive DEF NodesInv, NodesKept

(* The inductive invariant of the lists, the nodes and the counts. It      *)
(* holds as long as devices are not unhooked while blocks subscribe by     *)
(* command.                                                                *)
THEOREM NodesInvariant == UnhookUnsubscribed /\ Spec => []NodesInv
<1>1. Init => NodesInv
  BY NodesInit
<1>2. UnhookUnsubscribed /\ Base /\ NodesInv /\ [Next]_vars => NodesInv'
  BY NodesStep
<1>3. UnhookUnsubscribed => []UnhookUnsubscribed
  <2>1. UnhookUnsubscribed => UnhookUnsubscribed'
    BY DEF UnhookUnsubscribed
  <2> QED BY <2>1, PTL
<1> QED BY <1>1, <1>2, <1>3, BaseInvariant, PTL DEF Spec

(* The model's set of listed nodes. *)
LEMMA ListedSame ==
    ASSUME NEW o
    PROVE  Listed(o) = Elems(fb[o].notifiers)
BY DEF Listed, Elems

(* Memory that is not alive has an empty list. *)
LEMMA FreedLists ==
    ASSUME Base, NodesInv
    PROVE  FreedWithoutNotifiers /\ \A o \in Fblock \ Live : Elems(fb[o].notifiers) = {}
<1>1. ASSUME NEW o \in Fblock \ Live
      PROVE  fb[o].notifiers = <<>> /\ Elems(fb[o].notifiers) = {}
  <2>1. NListed(fb, o) = 0
    BY LiveSame DEF NodesInv, NodesKept
  <2>2. Elems(fb[o].notifiers) = {}
    BY <2>1, NodeCounts
  <2>3. fb[o].notifiers \in Seq(Nb)
    BY BaseFacts, BlocksFields
  <2> QED BY <2>2, <2>3, ElemsFacts
<1> QED BY <1>1 DEF FreedWithoutNotifiers

(* The slab constructor that empties the list of notifiers runs once per   *)
(* slot only; still the memory that kmem_cache_alloc hands out again never *)
(* has a subscription of its previous owner in the list, as a block goes   *)
(* only when its count says that its list is empty.                        *)
THEOREM FreedMemoryUnsubscribed == UnhookUnsubscribed /\ Spec => []FreedWithoutNotifiers
<1>1. Base /\ NodesInv => FreedWithoutNotifiers
  BY FreedLists
<1> QED BY <1>1, BaseInvariant, NodesInvariant, PTL

(* The model's number of references. *)
LEMMA ReferencesSame ==
    ASSUME Base, NodesInv, NEW o
    PROVE  References(o) = Refs(fb, fn, o)
<1>1. NodesNaming(fb[o].idp) = NamingIn(fb, fn, fb[o].idp)
  <2>1. ASSUME NEW n \in Nb
        PROVE  (\E q \in Live : n \in Listed(q)) <=> (\E q \in Fblock : n \in Elems(fb[q].notifiers))
    BY FreedLists, ListedSame DEF Live
  <2> QED BY <2>1 DEF NodesNaming, NamingIn
<1>2. Cardinality(NodesNaming(fb[o].idp)) = NNaming(fb, fn, fb[o].idp)
  BY <1>1 DEF NNaming
<1>3. Cardinality(Listed(o)) = NListed(fb, o)
  BY ListedSame DEF NListed
<1>4. Cardinality(BoundPorts(o)) = NBound(fb[o].port)
  BY DEF BoundPorts, NBound
<1> QED BY <1>2, <1>3, <1>4 DEF References, Refs

(* The count of a live block is exactly the number of its references after *)
(* every command, if replacements stay within one type: a block is never   *)
(* freed in use and never left over.                                       *)
THEOREM RefcountsExact == UnhookUnsubscribed /\ OneType /\ Spec => []RefcountExact
<1>1. OneType /\ Base /\ NodesInv => RefcountExact
  <2> SUFFICES ASSUME OneType, Base, NodesInv, NEW o \in Live
               PROVE  fb[o].refcnt = References(o)
    BY DEF RefcountExact
  <2>1. References(o) = Refs(fb, fn, o)
    BY ReferencesSame
  <2>2. fb[o].refcnt = Refs(fb, fn, o)
    BY LiveSame DEF NodesInv, NodesKept, Counted
  <2> QED BY <2>1, <2>2
<1>2. OneType => []OneType
  <2>1. OneType => OneType'
    BY DEF OneType
  <2> QED BY <2>1, PTL
<1> QED BY <1>1, <1>2, BaseInvariant, NodesInvariant, PTL

(* The count of a live block is never below the number of references. *)
RefcountCovers == \A o \in Live : fb[o].refcnt >= References(o)

(* Whatever the types of the blocks that replace each other,               *)
(* atomic_dec_and_test in put_fblock never frees a block that somebody     *)
(* refers to: the count may be too high after a replacement that leaves    *)
(* the ports behind, but not too low.                                      *)
THEOREM RefcountsCover == UnhookUnsubscribed /\ Spec => []RefcountCovers
<1>1. Base /\ NodesInv => RefcountCovers
  <2> SUFFICES ASSUME Base, NodesInv, NEW o \in Live
               PROVE  fb[o].refcnt >= References(o)
    BY DEF RefcountCovers
  <2>1. References(o) = Refs(fb, fn, o)
    BY ReferencesSame
  <2>2. fb[o].refcnt >= Refs(fb, fn, o)
    BY LiveSame DEF NodesInv, NodesKept, Counted
  <2> QED BY <2>1, <2>2
<1> QED BY <1>1, BaseInvariant, NodesInvariant, PTL

(* A step that unhooks a device finds a count of 1. *)
LEMMA UnhookedStep ==
    ASSUME Base, UnhookUnsubscribed, NodesInv, [Next]_vars,
           NEW d \in Device, hooked[d] # NULL, hooked'[d] = NULL
    PROVE  fb[hooked[d]].refcnt = 1
<1>1. hooked \in [Device -> Fblock \cup {NULL}]
  BY BaseFacts
<1>2. hooked' # hooked
  OBVIOUS
<1>3. ASSUME NEW e \in Device, Hook(e) PROVE FALSE
  <2>1. PICK o : Born(o, e, NULL) /\ hooked' = [hooked EXCEPT ![e] = o]
    BY <1>2, <1>3, HookStep DEF Skipped
  <2>2. o # NULL
    BY <2>1, NullAssumption DEF Born
  <2> QED BY <1>1, <2>1, <2>2
<1>4. ASSUME NEW e \in Device, Unhook(e) PROVE fb[hooked[d]].refcnt = 1
  <2>1. hooked' = [hooked EXCEPT ![e] = NULL]
    BY <1>4 DEF Unhook
  <2>2. e = d
    BY <1>1, <2>1
  <2>3. PICK o : o = hooked[d]
    OBVIOUS
  <2> QED BY <1>4, <2>2, <2>3, UnhookFrees
<1>5. \/ \E e \in Device : Hook(e)
      \/ \E e \in Device : Unhook(e)
  BY <1>2 DEF Next, vars, Add, Rm, Bind, Unbind, SubscribeCmd, Replace, RcuFree
<1> QED BY <1>3, <1>4, <1>5

(* fb_eth_stop_hook_dev, which lets a count of 2 pass, destroys a device's *)
(* block only when nobody but its registration has a reference, as long as *)
(* nobody subscribes by command: all other references come in threes.      *)
THEOREM UnhookedUnused == UnhookUnsubscribed /\ Spec => UnhookUnused
<1>1. UnhookUnsubscribed /\ Base /\ NodesInv /\ [Next]_vars =>
        [\A d \in Device :
          (hooked[d] # NULL /\ hooked'[d] = NULL) => fb[hooked[d]].refcnt = 1]_vars
  BY UnhookedStep
<1>2. UnhookUnsubscribed => []UnhookUnsubscribed
  <2>1. UnhookUnsubscribed => UnhookUnsubscribed'
    BY DEF UnhookUnsubscribed
  <2> QED BY <2>1, PTL
<1> QED BY <1>1, <1>2, BaseInvariant, NodesInvariant, PTL DEF Spec, UnhookUnused

-----------------------------------------------------------------------------
(* Deliveries *)

(* The deliveries as a state predicate: inductive with the nodes. *)
DeliveredInv == Delivered(fb, fn, fblmap)

(* Every node in a list was in some list before and names the same idp. *)
Carried(f, nn, g, gn) ==
    \A q \in Fblock : \A n \in Elems(g[q].notifiers) :
        \E p \in Fblock : n \in Elems(f[p].notifiers) /\ gn[n].remote = nn[n].remote

(* The block under each idp that is named has the chain that the block     *)
(* before it had.                                                          *)
ChainsMoved(f, nn, map, g, map1) ==
    \A j \in 0 .. MaxIdp : NNaming(f, nn, j) # 0 /\ map[j] \in Fblock =>
        map1[j] \in Fblock /\ f[map[j]].others \subseteq g[map1[j]].others

(* Then what was delivered is delivered. *)
LEMMA DeliveredMoved ==
    ASSUME NEW f, NEW nn \in Nodes, NEW map, NEW g, NEW gn, NEW map1,
           Delivered(f, nn, map), Carried(f, nn, g, gn), ChainsMoved(f, nn, map, g, map1)
    PROVE  Delivered(g, gn, map1)
<1> SUFFICES ASSUME NEW q \in Fblock, NEW n \in Elems(g[q].notifiers)
             PROVE  map1[gn[n].remote] \in Fblock /\ n \in g[map1[gn[n].remote]].others
  BY DEF Delivered
<1>1. PICK p \in Fblock : n \in Elems(f[p].notifiers) /\ gn[n].remote = nn[n].remote
  BY DEF Carried
<1>2. n \in Nb
  BY DEF Elems
<1>3. PICK j \in 0 .. MaxIdp : j = nn[n].remote
  BY <1>2, NodesFields
<1>4. NNaming(f, nn, j) # 0
  <2>1. n \in NamingIn(f, nn, j)
    BY <1>1, <1>2, <1>3 DEF NamingIn
  <2> QED BY <2>1, NodeCounts
<1>5. map[j] \in Fblock /\ n \in f[map[j]].others
  BY <1>1, <1>3 DEF Delivered
<1>6. map1[j] \in Fblock /\ f[map[j]].others \subseteq g[map1[j]].others
  BY <1>4, <1>5 DEF ChainsMoved
<1> QED BY <1>1, <1>3, <1>5, <1>6

(* Lists that have not changed. *)
LEMMA SameCarried ==
    ASSUME NEW f, NEW nn, NEW g, NEW gn, Agree(g, nn, gn),
           \A q \in Fblock : g[q].notifiers = f[q].notifiers
    PROVE  Carried(f, nn, g, gn)
BY DEF Agree, Carried

(* Nodes name idps that were given away. *)
NamesKnown(f, nn, cnt) == \A j \in 0 .. MaxIdp : NNaming(f, nn, j) # 0 => j \in 1 .. cnt

(* One entry of fblmap is written. *)
EntrySet(map, i, o, map1) == map1 = [map EXCEPT ![i] = o]

(* A block that no node names may go. *)
LEMMA GoneDelivered ==
    ASSUME NEW f, NEW nn \in Nodes, NEW map \in [Idp -> Fblock \cup {NULL}],
           NEW cnt \in 0 .. MaxIdp, NEW hk, Registered(map, cnt, f, hk),
           NEW o \in LiveIn(f), NEW g, NEW gn, BlockGone(f, o, g), Agree(g, nn, gn),
           NamesKnown(f, nn, cnt), NNaming(f, nn, f[o].idp) = 0, Delivered(f, nn, map),
           NEW map1, EntrySet(map, f[o].idp, NULL, map1)
    PROVE  Delivered(g, gn, map1)
<1>1. o \in Fblock /\ \A q \in Fblock : g[q].notifiers = f[q].notifiers
  BY DEF BlockGone, Alike, Kept, LiveIn
<1>2. Carried(f, nn, g, gn)
  BY <1>1, SameCarried
<1>3. ASSUME NEW j \in 0 .. MaxIdp, NNaming(f, nn, j) # 0, map[j] \in Fblock
      PROVE  map1[j] \in Fblock /\ f[map[j]].others \subseteq g[map1[j]].others
  <2>1. j \in 1 .. cnt /\ j \in Idp /\ j # f[o].idp
    BY <1>3, IdpAssumption DEF NamesKnown, Idp
  <2>2. map1[j] = map[j]
    BY <2>1 DEF EntrySet
  <2>3. map[j] # NULL /\ f[map[j]].idp = j
    BY <1>3, <2>1, NullAssumption DEF Registered
  <2>4. map[j] # o
    BY <2>1, <2>3
  <2>5. g[map[j]].others = f[map[j]].others
    BY <1>3, <2>4 DEF BlockGone, Alike, Kept
  <2> QED BY <1>3, <2>2, <2>5
<1>4. ChainsMoved(f, nn, map, g, map1)
  BY <1>3 DEF ChainsMoved
<1> QED BY <1>2, <1>4, DeliveredMoved

(* A new block has an idp that no node names. *)
LEMMA BornDelivered ==
    ASSUME NEW f, NEW nn \in Nodes, NEW map \in [Idp -> Fblock \cup {NULL}],
           NEW cnt \in 0 .. MaxIdp, NEW hk, Registered(map, cnt, f, hk),
           NEW o \in Fblock, f[o].state = "free", NEW n, NEW type, NEW g,
           BlockBorn(f, o, n, type, cnt + 1, g),
           NamesKnown(f, nn, cnt), Delivered(f, nn, map),
           NEW map1, EntrySet(map, cnt + 1, o, map1)
    PROVE  Delivered(g, nn, map1)
<1>1. \A q \in Fblock : g[q].notifiers = f[q].notifiers
  BY DEF BlockBorn
<1>2. Carried(f, nn, g, nn)
  BY <1>1 DEF Carried
<1>3. ASSUME NEW j \in 0 .. MaxIdp, NNaming(f, nn, j) # 0, map[j] \in Fblock
      PROVE  map1[j] \in Fblock /\ f[map[j]].others \subseteq g[map1[j]].others
  <2>1. j \in 1 .. cnt /\ j \in Idp /\ j # cnt + 1
    BY <1>3, IdpAssumption DEF NamesKnown, Idp
  <2>2. map1[j] = map[j]
    BY <2>1 DEF EntrySet
  <2>3. map[j] # NULL /\ map[j] \in LiveIn(f)
    BY <1>3, <2>1, NullAssumption DEF Registered
  <2>4. map[j] # o
    BY <2>3 DEF LiveIn
  <2>5. g[map[j]] = f[map[j]]
    BY <1>3, <2>4 DEF BlockBorn
  <2> QED BY <1>3, <2>2, <2>5
<1>4. ChainsMoved(f, nn, map, g, map1)
  BY <1>3 DEF ChainsMoved
<1> QED BY <1>2, <1>4, DeliveredMoved

(* A replacement moves the chain with the idp. *)
LEMMA ReplacedDelivered ==
    ASSUME NEW f, NEW nn \in Nodes, NEW map \in [Idp -> Fblock \cup {NULL}],
           NEW cnt \in 0 .. MaxIdp, NEW hk, Registered(map, cnt, f, hk),
           NEW o1 \in LiveIn(f), NEW o2 \in LiveIn(f), NEW keep, NEW g, NEW gn,
           TookOver(f, o1, o2, keep, g), NodesReplaced(f, nn, o1, o2, g, gn),
           NamesKnown(f, nn, cnt), NNaming(f, nn, f[o2].idp) = 0, Delivered(f, nn, map),
           map[f[o1].idp] = o1,
           NEW map1, EntryMoved(map, f, o1, o2, map1)
    PROVE  Delivered(g, gn, map1)
<1>1. Carried(f, nn, g, gn)
  BY DEF NodesReplaced, Carried
<1>2. ASSUME NEW j \in 0 .. MaxIdp, NNaming(f, nn, j) # 0, map[j] \in Fblock
      PROVE  map1[j] \in Fblock /\ f[map[j]].others \subseteq g[map1[j]].others
  <2>1. j \in 1 .. cnt /\ j \in Idp /\ j # f[o2].idp
    BY <1>2, IdpAssumption DEF NamesKnown, Idp
  <2>2. CASE j = f[o1].idp
    <3>1. map1[j] = o2 /\ map[j] = o1 /\ o2 \in Fblock
      BY <2>2 DEF EntryMoved, LiveIn
    <3>2. g[o2].others = f[o1].others
      BY DEF TookOver
    <3> QED BY <3>1, <3>2
  <2>3. CASE j # f[o1].idp
    <3>1. map1[j] = map[j]
      BY <2>1, <2>3 DEF EntryMoved
    <3>2. map[j] # NULL /\ f[map[j]].idp = j
      BY <1>2, <2>1, NullAssumption DEF Registered
    <3>3. map[j] \notin {o1, o2}
      BY <2>1, <2>3, <3>2
    <3>4. g[map[j]].others = f[map[j]].others
      BY <1>2, <3>3 DEF TookOver, Alike, Kept
    <3> QED BY <1>2, <3>1, <3>4
  <2> QED BY <2>2, <2>3
<1>3. ChainsMoved(f, nn, map, g, map1)
  BY <1>2 DEF ChainsMoved
<1> QED BY <1>1, <1>3, DeliveredMoved

(* The connecting commands add and take off a node in list and chain; a    *)
(* node at the head of the list stays in the chain, which does no harm     *)
(* here.                                                                   *)
LEMMA ConnectedDelivered ==
    ASSUME NEW f \in Blocks, NEW nn, NEW g, NEW gn, NEW map, NEW cnt,
           IdpsUpTo(f, cnt), NodesKept(f, nn, cnt), Delivered(f, nn, map),
           NEW o1 \in LiveIn(f), NEW o2 \in LiveIn(f),
           map[f[o1].idp] = o1, map[f[o2].idp] = o2,
           \/ Untouched(f, nn, g, gn)
           \/ FullyBound(f, nn, o1, o2, g, gn)
           \/ HalfUnbound(f, nn, o1, o2, g, gn)
           \/ FullyUnbound(f, nn, o1, o2, g, gn)
           \/ SubscribeStepped(f, nn, o2, o1, g, gn) /\ "SUBSCRIBE" \in Commands
    PROVE  Delivered(g, gn, map)
<1>same. ASSUME Agree(g, nn, gn), \A q \in Fblock : Rest(g[q], f[q])
         PROVE  Delivered(g, gn, map)
  <2>1. \A q \in Fblock : g[q].notifiers = f[q].notifiers /\ g[q].others = f[q].others
    BY <1>same DEF Rest
  <2>2. ListsSame(f, nn, g, gn)
    BY <1>same, <2>1, SameNodes DEF Agree
  <2> QED BY <2>1, <2>2 DEF ListsSame
<1>1. CASE Untouched(f, nn, g, gn)
  BY <1>1, <1>same DEF Untouched
<1>2. CASE FullyBound(f, nn, o1, o2, g, gn)
  <2>1. NodesBound(f, nn, o1, o2, g, gn)
    BY <1>2 DEF FullyBound, NodesKept
  <2> QED BY <2>1 DEF NodesBound
<1>3. CASE HalfUnbound(f, nn, o1, o2, g, gn)
  BY <1>3, <1>same DEF HalfUnbound
<1>4. CASE FullyUnbound(f, nn, o1, o2, g, gn)
  <2>1. NodesUnbound(f, nn, o1, o2, g, gn)
    BY <1>4, UnboundKept
  <2> QED BY <2>1 DEF NodesUnbound
<1>5. CASE SubscribeStepped(f, nn, o2, o1, g, gn) /\ "SUBSCRIBE" \in Commands
  <2>1. ListsUp(f, nn, o2, o1, g, gn)
    BY <1>5, SubscribedKept
  <2> QED BY <2>1 DEF ListsUp
<1> QED BY <1>1, <1>2, <1>3, <1>4, <1>5

(* The chain that is freed at the end of a grace period is nobody's. *)
LEMMA CollectedDelivered ==
    ASSUME NEW f, NEW nn \in Nodes, NEW map \in [Idp -> Fblock \cup {NULL}],
           NEW cnt \in 0 .. MaxIdp, NEW hk, Registered(map, cnt, f, hk),
           NEW o \in Fblock, o \notin LiveIn(f), NEW g, NEW gn,
           BlockGone(f, o, g), Agree(g, nn, gn),
           NamesKnown(f, nn, cnt), Delivered(f, nn, map)
    PROVE  Delivered(g, gn, map)
<1>1. \A q \in Fblock : g[q].notifiers = f[q].notifiers
  BY DEF BlockGone, Alike, Kept
<1>2. Carried(f, nn, g, gn)
  BY <1>1, SameCarried
<1>3. ASSUME NEW j \in 0 .. MaxIdp, NNaming(f, nn, j) # 0, map[j] \in Fblock
      PROVE  map[j] \in Fblock /\ f[map[j]].others \subseteq g[map[j]].others
  <2>1. j \in 1 .. cnt /\ j \in Idp
    BY <1>3, IdpAssumption DEF NamesKnown, Idp
  <2>2. map[j] \in LiveIn(f)
    BY <1>3, <2>1, NullAssumption DEF Registered
  <2>3. map[j] # o
    BY <2>2
  <2>4. g[map[j]].others = f[map[j]].others
    BY <1>3, <2>3 DEF BlockGone, Alike, Kept
  <2> QED BY <1>3, <2>4
<1>4. ChainsMoved(f, nn, map, g, map)
  BY <1>3 DEF ChainsMoved
<1> QED BY <1>2, <1>4, DeliveredMoved

(* The invariant of the nodes says so. *)
LEMMA KeptNamesKnown ==
    ASSUME NEW f, NEW nn, NEW cnt, NodesKept(f, nn, cnt)
    PROVE  NamesKnown(f, nn, cnt)
BY DEF NodesKept, NamesKnown

(* Every step keeps the deliveries. *)
LEMMA DeliveredStep ==
    ASSUME Base, UnhookUnsubscribed, EntryKept, NodesInv, DeliveredInv, [Next]_vars
    PROVE  DeliveredInv'
<1> SUFFICES Delivered(fb', fn', fblmap')
  BY DEF DeliveredInv
<1>0. /\ fb \in Blocks /\ fn \in Nodes /\ fblmap \in [Idp -> Fblock \cup {NULL}]
      /\ idp_counter \in 0 .. MaxIdp /\ Registered(fblmap, idp_counter, fb, hooked)
      /\ NodesKept(fb, fn, idp_counter) /\ IdpsUpTo(fb, idp_counter)
      /\ NamesKnown(fb, fn, idp_counter) /\ Delivered(fb, fn, fblmap)
  BY BaseFacts, BaseUpTo, KeptNamesKnown DEF NodesInv, DeliveredInv
<1>skip. ASSUME Skipped PROVE Delivered(fb', fn', fblmap')
  BY <1>0, <1>skip DEF Skipped
<1>born. ASSUME NEW o, NEW n, NEW type, Born(o, n, type)
         PROVE  Delivered(fb', fn', fblmap')
  <2>1. /\ o \in Fblock /\ fb[o].state = "free"
        /\ BlockBorn(fb, o, n, type, idp_counter + 1, fb')
        /\ fn' = fn /\ EntrySet(fblmap, idp_counter + 1, o, fblmap')
    BY <1>born DEF Born, EntrySet
  <2>2. Delivered(fb', fn, fblmap')
    BY <1>0, <2>1, BornDelivered
  <2> QED BY <2>1, <2>2
<1>1. ASSUME NEW n \in FbName, NEW type \in Type, Add(n, type)
      PROVE  Delivered(fb', fn', fblmap')
  <2>1. Skipped \/ \E o : Born(o, n, type)
    BY <1>1, AddStep
  <2> QED BY <1>skip, <1>born, <2>1
<1>2. ASSUME NEW n \in Name, Rm(n) PROVE Delivered(fb', fn', fblmap')
  <2>1. PICK o : o = Search(n)
    OBVIOUS
  <2>2. /\ o \in LiveIn(fb) /\ NNaming(fb, fn, fb[o].idp) = 0
        /\ BlockGone(fb, o, fb') /\ fn' = fn
    BY <1>2, <2>1, RmFrees
  <2>3. EntrySet(fblmap, fb[o].idp, NULL, fblmap')
    BY <1>2, <2>1 DEF Rm, EntrySet
  <2>4. Agree(fb', fn, fn')
    BY <2>2 DEF Agree
  <2> QED BY <1>0, <2>2, <2>3, <2>4, GoneDelivered
<1>3. ASSUME NEW n1 \in Name, NEW n2 \in Name, Connecting(n1, n2)
      PROVE  Delivered(fb', fn', fblmap')
  <2>1. PICK o1, o2 : o1 = Search(n1) /\ o2 = Search(n2)
    OBVIOUS
  <2>2. /\ ConnectingShape(o1, o2) /\ o1 \in LiveIn(fb) /\ o2 \in LiveIn(fb)
        /\ fblmap[fb[o1].idp] = o1 /\ fblmap[fb[o2].idp] = o2 /\ fblmap' = fblmap
    BY <1>3, <2>1, ConnectingShapes
  <2>3. Delivered(fb', fn', fblmap)
    BY <1>0, <2>2, ConnectedDelivered DEF ConnectingShape
  <2> QED BY <2>2, <2>3
<1>4. ASSUME NEW n1 \in Name, NEW n2 \in Name, Replace(n1, n2, FALSE)
      PROVE  Delivered(fb', fn', fblmap')
  <2>1. PICK o1, o2 : o1 = Search(n1) /\ o2 = Search(n2)
    OBVIOUS
  <2>2. TablesReplaced(o1, o2)
    BY <1>4, <2>1, ReplaceTables
  <2>3. /\ o1 \in LiveIn(fb) /\ o2 \in LiveIn(fb) /\ Replaced(fb, fn, o1, o2, fb', fn')
        /\ fblmap[fb[o1].idp] = o1
    BY <2>2 DEF TablesReplaced
  <2>4. EntryMoved(fblmap, fb, o1, o2, fblmap')
    BY <2>2 DEF TablesReplaced, EntryMoved, EntryKept
  <2>5. /\ TookOver(fb, o1, o2, fb[o1].factory = fb[o2].factory, fb')
        /\ NodesReplaced(fb, fn, o1, o2, fb', fn') /\ fb[o2].refcnt = 1
    BY <1>0, <2>3 DEF Replaced, NodesKept
  <2>6. NNaming(fb, fn, fb[o2].idp) = 0
    BY <1>0, <2>3, <2>5, UnusedBlock
  <2> QED BY <1>0, <2>3, <2>4, <2>5, <2>6, ReplacedDelivered
<1>5. ASSUME NEW d \in Device, Hook(d) PROVE Delivered(fb', fn', fblmap')
  <2>1. Skipped \/ \E o : Born(o, d, NULL)
    BY <1>5, HookStep
  <2> QED BY <1>skip, <1>born, <2>1
<1>6. ASSUME NEW d \in Device, Unhook(d) PROVE Delivered(fb', fn', fblmap')
  <2>1. PICK o : o = hooked[d]
    OBVIOUS
  <2>2. /\ o \in LiveIn(fb) /\ NNaming(fb, fn, fb[o].idp) = 0
        /\ Collected(fb, fn, o, fb', fn')
    BY <1>6, <2>1, UnhookFrees
  <2>3. BlockGone(fb, o, fb') /\ Agree(fb', fn, fn')
    BY <2>2 DEF Collected
  <2>4. EntrySet(fblmap, fb[o].idp, NULL, fblmap')
    BY <1>6, <2>1 DEF Unhook, EntrySet
  <2> QED BY <1>0, <2>2, <2>3, <2>4, GoneDelivered
<1>7. ASSUME NEW o \in Fblock, RcuFree(o) PROVE Delivered(fb', fn', fblmap')
  <2>1. o \notin LiveIn(fb) /\ Collected(fb, fn, o, fb', fn') /\ fblmap' = fblmap
    BY <1>7, RcuFreeStep
  <2>2. BlockGone(fb, o, fb') /\ Agree(fb', fn, fn')
    BY <2>1 DEF Collected
  <2>3. Delivered(fb', fn', fblmap)
    BY <1>0, <2>1, <2>2, CollectedDelivered
  <2> QED BY <2>1, <2>3
<1>8. CASE UNCHANGED vars
  BY <1>0, <1>8 DEF vars
<1> QED BY <1>1, <1>2, <1>3, <1>4, <1>5, <1>6, <1>7, <1>8 DEF Next, Connecting

(* In the beginning there is nothing to deliver. *)
LEMMA DeliveredInit ==
    ASSUME Init
    PROVE  DeliveredInv
<1>1. \A o \in Fblock : fb[o] = FreeFblock(<<>>)
  BY DEF Init
<1>2. \A o \in Fblock : fb[o].notifiers = <<>>
  BY <1>1 DEF FreeFblock
<1>3. Elems(<<>>) = {}
  <2>1. <<>> \in Seq(Nb)
    OBVIOUS
  <2> QED BY <2>1, ElemsFacts
<1> QED BY <1>2, <1>3 DEF DeliveredInv, Delivered

(* The deliveries give the property. *)
LEMMA DeliveredSubscriptions ==
    ASSUME NodesInv, DeliveredInv
    PROVE  SubscriptionsDelivered
<1> SUFFICES ASSUME NEW o \in Live, NEW n \in Listed(o)
             PROVE  /\ fn[n].self = o
                    /\ fblmap[fn[n].remote] # NULL
                    /\ n \in fb[fblmap[fn[n].remote]].others
  BY DEF SubscriptionsDelivered
<1>1. o \in Fblock /\ n \in Elems(fb[o].notifiers)
  BY ListedSame DEF Live
<1>2. fn[n].self = o
  BY <1>1 DEF NodesInv, NodesKept, Lists
<1>3. fblmap[fn[n].remote] \in Fblock /\ n \in fb[fblmap[fn[n].remote]].others
  BY <1>1 DEF DeliveredInv, Delivered
<1> QED BY <1>2, <1>3, NullAssumption

(* A node in the list of a live block is in the chain of whichever block   *)
(* now has the remote idp, and its self pointer leads to the owner of the  *)
(* list: fblock_migrate_r and fblock_update_selfref move lists, chains and *)
(* pointers together, through any sequence of replacements.                *)
THEOREM SubscriptionsAreDelivered ==
    UnhookUnsubscribed /\ EntryKept /\ Spec => []SubscriptionsDelivered
<1>1. Init => DeliveredInv
  BY DeliveredInit
<1>2. UnhookUnsubscribed /\ EntryKept /\ Base /\ NodesInv /\ DeliveredInv /\ [Next]_vars
        => DeliveredInv'
  BY DeliveredStep
<1>3. NodesInv /\ DeliveredInv => SubscriptionsDelivered
  BY DeliveredSubscriptions
<1>4. UnhookUnsubscribed /\ EntryKept => [](UnhookUnsubscribed /\ EntryKept)
  <2>1. UnhookUnsubscribed /\ EntryKept => (UnhookUnsubscribed /\ EntryKept)'
    BY DEF UnhookUnsubscribed, EntryKept
  <2> QED BY <2>1, PTL
<1> QED BY <1>1, <1>2, <1>3, <1>4, BaseInvariant, NodesInvariant, PTL DEF Spec
=============================================================================
