--------------------------- MODULE LifetimeProofs ---------------------------
(***************************************************************************)
(* Proofs about Lifetime for any number of CPUs, slots, sockets, packets   *)
(* and idps.                                                               *)
(***************************************************************************)
EXTENDS Lifetime, FiniteSetTheorems, TLAPS

(* The types, but for lost \subseteq live. *)
TypeInv ==
    /\ fblmap \in [Idp -> Fblock \cup {NULL}]
    /\ given \subseteq Idp
    /\ idp_counter \in 0 .. MaxIdp
    /\ fb \in [Fblock -> FblockRec]
    /\ sk \in [Sock -> SockRec]
    /\ rx \in [Cpu -> RxRec]
    /\ next \in [Skb -> 0 .. MaxIdp]
    /\ ctl \in CtlRec
    /\ app \in [Sock -> AppRec]

(* Who has a pointer to a block, and which process has a socket. *)
InBlock == {"get", "netrx", "put", "drop", "touch", "halt"}
ArgInv ==
    /\ \A c \in Cpu : /\ rx[c].fb # NULL <=> rx[c].pc \in InBlock
                      /\ rx[c].pc # "idle" => rx[c].skb \in Skb
    /\ ctl.fb # NULL <=> ctl.pc # "idle"
    /\ \A k \in Sock : /\ app[k].fb # NULL <=> app[k].pc \in {"get", "unbind"}
                       /\ sk[k].fb # NULL <=> app[k].pc # "none"

(* The tables: an idp that was given away leads to its block or nowhere,   *)
(* and no other idp is written to a packet, a port or a block.             *)
TableInv ==
    /\ \A i \in given : i <= idp_counter /\ (fblmap[i] # NULL => Leads(i))
    /\ \A s \in Skb : next[s] \in given \cup {IDP_UNKNOWN}
    /\ \A o \in Fblock : /\ \A d \in Path : fb[o].port[d] \in given \cup {IDP_UNKNOWN}
                         /\ Exists(o) => fb[o].idp \in given
                         /\ fb[o].port["egress"] # IDP_UNKNOWN /\ Exists(o)
                                => fb[o].port["egress"] # fb[o].idp

(* A block is found in fblmap. *)
Known(o) == fb[o].mem = "used" /\ fblmap[fb[o].idp] = o

(* A socket has a block of its own, which no factory has built. *)
OwnInv ==
    /\ \A k \in Sock : sk[k].fb # NULL =>
           /\ Known(sk[k].fb)
           /\ fb[sk[k].fb].netfb_rx = "pflana"
    /\ \A k, l \in Sock : sk[k].fb # NULL /\ sk[k].fb = sk[l].fb => k = l
    /\ \A o \in Fblock : fb[o].factory => fb[o].netfb_rx = "dummy"

(* The control process is the only one that takes a block with a factory   *)
(* out of fblmap.                                                          *)
CtlInv ==
    LET o == ctl.fb IN
    /\ ctl.pc = "factory" => Known(o) /\ fb[o].netfb_rx = "dummy"
    /\ ctl.pc \in {"get", "check"} /\ fb[o].factory => Known(o)
    /\ ctl.pc = "delete" => Known(o) /\ fb[o].factory /\ BoundPorts(o) = {}
    /\ ctl.pc = "put" => fb[o].idp \in given /\ fblmap[fb[o].idp] # o

(* The grace period of a block waits for the CPUs that have a pointer to   *)
(* it, and only blocks without a factory are freed without one.            *)
RcuInv ==
    \A c \in Cpu : rx[c].fb # NULL =>
        /\ fb[rx[c].fb].mem = "rcu"  => c \in fb[rx[c].fb].waits
        /\ fb[rx[c].fb].mem = "free" => ~fb[rx[c].fb].factory

Inv == /\ TypeInv /\ ArgInv /\ TableInv /\ OwnInv /\ CtlInv /\ RcuInv
       /\ RefsExact
-----------------------------------------------------------------------------
(* Blocks *)

(* What a block keeps from its registration on. *)
SameId(a, b) == a.idp = b.idp /\ a.netfb_rx = b.netfb_rx /\ a.factory = b.factory
SameMem(a, b) == a.mem = b.mem /\ a.waits = b.waits
Blocks == [Fblock -> FblockRec]

(* The fields of a block. *)
LEMMA FieldTypes ==
    ASSUME NEW f \in Blocks, NEW o \in Fblock
    PROVE  /\ f[o] \in FblockRec
           /\ f[o].mem \in {"free", "used", "rcu"} /\ f[o].refcnt \in Int
           /\ f[o].idp \in 0 .. MaxIdp /\ f[o].netfb_rx \in {"dummy", "pflana"}
           /\ f[o].factory \in BOOLEAN
           /\ f[o].port \in [Path -> 0 .. MaxIdp] /\ f[o].waits \in SUBSET Reader
<1>1. f[o] \in FblockRec
    BY DEF Blocks
<1>2. QED
    BY <1>1 DEF FblockRec

(* get_fblock changes the count only. *)
LEMMA GetFields ==
    ASSUME NEW f \in Blocks, NEW o \in Fblock, NEW n \in Int
    PROVE  /\ Get(f, o, n) \in Blocks
           /\ \A x \in Fblock : x # o => Get(f, o, n)[x] = f[x]
           /\ Get(f, o, n)[o].refcnt = f[o].refcnt + n
           /\ SameId(Get(f, o, n)[o], f[o]) /\ SameMem(Get(f, o, n)[o], f[o])
           /\ Get(f, o, n)[o].port = f[o].port
<1> DEFINE t == [f[o] EXCEPT !.refcnt = f[o].refcnt + n]
<1>1. f[o] \in FblockRec /\ f[o].refcnt + n \in Int
    BY FieldTypes
<1>2. /\ t \in FblockRec /\ t.refcnt = f[o].refcnt + n /\ SameId(t, f[o]) /\ SameMem(t, f[o])
      /\ t.port = f[o].port
    BY <1>1 DEF FblockRec, SameId, SameMem
<1>3. Get(f, o, n) = [f EXCEPT ![o] = t]
    BY DEF Get, Blocks
<1> HIDE DEF t
<1>4. Get(f, o, n) \in Blocks /\ Get(f, o, n)[o] = t
      /\ \A x \in Fblock : x # o => Get(f, o, n)[x] = f[x]
    BY <1>2, <1>3 DEF Blocks
<1>5. QED
    BY <1>2, <1>4

(* The grace period waits for readers only. *)
LEMMA ReadersType == Readers \in SUBSET Reader
BY DEF Readers, Reader

(* put_fblock changes the count, and hands the block to call_rcu when that *)
(* was the last reference.                                                 *)
LEMMA PutFields ==
    ASSUME NEW f \in Blocks, NEW o \in Fblock, NEW n \in Int
    PROVE  /\ Put(f, o, n) \in Blocks
           /\ \A x \in Fblock : x # o => Put(f, o, n)[x] = f[x]
           /\ Put(f, o, n)[o].refcnt = f[o].refcnt - n
           /\ SameId(Put(f, o, n)[o], f[o])
           /\ Put(f, o, n)[o].port = f[o].port
           /\ LastRef(f, o, n) => Put(f, o, n)[o].mem = "rcu" /\ Put(f, o, n)[o].waits = Readers
           /\ ~LastRef(f, o, n) => SameMem(Put(f, o, n)[o], f[o])
<1>1. f[o] \in FblockRec /\ f[o].refcnt - n \in Int
    BY FieldTypes
<1>2. CASE LastRef(f, o, n)
    <2> DEFINE t == [f[o] EXCEPT !.refcnt = f[o].refcnt - n, !.mem = "rcu", !.waits = Readers]
    <2>1. /\ t \in FblockRec /\ t.refcnt = f[o].refcnt - n /\ SameId(t, f[o])
          /\ t.port = f[o].port /\ t.mem = "rcu" /\ t.waits = Readers
        BY <1>1, ReadersType DEF FblockRec, SameId
    <2>2. Put(f, o, n) = [f EXCEPT ![o] = t]
        BY <1>2 DEF Put, Blocks
    <2> HIDE DEF t
    <2>3. Put(f, o, n) \in Blocks /\ Put(f, o, n)[o] = t
          /\ \A x \in Fblock : x # o => Put(f, o, n)[x] = f[x]
        BY <2>1, <2>2 DEF Blocks
    <2>4. QED
        BY <1>2, <2>1, <2>3
<1>3. CASE ~LastRef(f, o, n)
    <2> DEFINE t == [f[o] EXCEPT !.refcnt = f[o].refcnt - n]
    <2>1. /\ t \in FblockRec /\ t.refcnt = f[o].refcnt - n /\ SameId(t, f[o])
          /\ t.port = f[o].port /\ SameMem(t, f[o])
        BY <1>1 DEF FblockRec, SameId, SameMem
    <2>2. Put(f, o, n) = [f EXCEPT ![o] = t]
        BY <1>3 DEF Put, Blocks
    <2> HIDE DEF t
    <2>3. Put(f, o, n) \in Blocks /\ Put(f, o, n)[o] = t
          /\ \A x \in Fblock : x # o => Put(f, o, n)[x] = f[x]
        BY <2>1, <2>2 DEF Blocks
    <2>4. QED
        BY <1>3, <2>1, <2>3
<1>4. QED
    BY <1>2, <1>3

(* Leaving a read-side section ends waiting for the reader. *)
LEMMA UnlockFields ==
    ASSUME NEW f \in Blocks, NEW r
    PROVE  /\ RcuReadUnlock(f, r) \in Blocks
           /\ \A o \in Fblock : /\ RcuReadUnlock(f, r)[o].refcnt = f[o].refcnt
                                /\ RcuReadUnlock(f, r)[o].mem = f[o].mem
                                /\ RcuReadUnlock(f, r)[o].port = f[o].port
                                /\ RcuReadUnlock(f, r)[o].waits = f[o].waits \ {r}
                                /\ SameId(RcuReadUnlock(f, r)[o], f[o])
<1> DEFINE t(o) == [f[o] EXCEPT !.waits = f[o].waits \ {r}]
<1>1. ASSUME NEW o \in Fblock
      PROVE  /\ t(o) \in FblockRec /\ t(o).refcnt = f[o].refcnt /\ t(o).mem = f[o].mem
             /\ t(o).port = f[o].port /\ t(o).waits = f[o].waits \ {r} /\ SameId(t(o), f[o])
    <2>1. f[o] \in FblockRec /\ f[o].waits \ {r} \in SUBSET Reader
        BY FieldTypes
    <2>2. QED
        BY <2>1 DEF FblockRec, SameId
<1>2. RcuReadUnlock(f, r) = [o \in Fblock |-> t(o)]
    BY DEF RcuReadUnlock
<1> HIDE DEF t
<1>3. RcuReadUnlock(f, r) \in Blocks /\ \A o \in Fblock : RcuReadUnlock(f, r)[o] = t(o)
    BY <1>1, <1>2 DEF Blocks
<1>4. QED
    BY <1>1, <1>3
-----------------------------------------------------------------------------
(* References *)

(* The count of the block o is right. *)
Exact(o) ==
    fb[o].refcnt = Registration(o) + Refs * Cardinality(BoundPorts(o)) + Cardinality(Users(o))

(* The three parts of a block's reference count are natural numbers. *)
LEMMA Counts ==
    ASSUME NEW o \in Fblock
    PROVE  /\ IsFiniteSet(Users(o)) /\ Cardinality(Users(o)) \in Nat
           /\ IsFiniteSet(BoundPorts(o)) /\ Cardinality(BoundPorts(o)) \in Nat
           /\ Registration(o) \in {0, 1}
<1>1. /\ IsFiniteSet(Cpu) /\ IsFiniteSet(Sock)
      /\ IsFiniteSet({c \in Cpu : rx[c].fb = o /\ rx[c].pc # "get"})
      /\ IsFiniteSet({k \in Sock : app[k] = Step("unbind", app[k].dir, o)})
    BY FiniteAssumption, FS_Subset
<1>2. IsFiniteSet(IF ctl.fb = o /\ ctl.pc \in {"check", "delete", "put", "end"} THEN {"ctl"} ELSE {})
    BY FS_EmptySet, FS_Singleton
<1>3. IsFiniteSet(Users(o))
    <2>1. IsFiniteSet({c \in Cpu : rx[c].fb = o /\ rx[c].pc # "get"}
                          \cup {k \in Sock : app[k] = Step("unbind", app[k].dir, o)})
        BY <1>1, FS_Union
    <2>2. QED
        BY <1>2, <2>1, FS_Union DEF Users
<1>4. IsFiniteSet(BoundPorts(o))
    <2>1. IsFiniteSet({"ingress"} \cup {"egress"})
        BY FS_Singleton, FS_Union
    <2>2. BoundPorts(o) \subseteq {"ingress"} \cup {"egress"}
        BY DEF BoundPorts, Path
    <2>3. QED
        BY <2>1, <2>2, FS_Subset
<1>5. QED
    BY <1>3, <1>4, FS_CardinalityType DEF Registration

(* Whoever uses a block counts, and so does a bound port. *)
LEMMA AtLeast ==
    ASSUME NEW o \in Fblock, Exact(o)
    PROVE  /\ \A r \in Users(o) : fb[o].refcnt >= Registration(o) + 3 * Cardinality(BoundPorts(o)) + 1
           /\ BoundPorts(o) # {} => Cardinality(BoundPorts(o)) >= 1
           /\ fb[o].refcnt >= Registration(o) + 3 * Cardinality(BoundPorts(o))
           /\ BoundPorts(o) = {} => Cardinality(BoundPorts(o)) = 0
<1>1. /\ Cardinality(Users(o)) \in Nat /\ Cardinality(BoundPorts(o)) \in Nat
      /\ Registration(o) \in {0, 1}
      /\ Users(o) # {} => Cardinality(Users(o)) # 0
      /\ BoundPorts(o) # {} => Cardinality(BoundPorts(o)) # 0
      /\ BoundPorts(o) = {} => Cardinality(BoundPorts(o)) = 0
    BY Counts, FS_EmptySet
<1>2. fb[o].refcnt = Registration(o) + 3 * Cardinality(BoundPorts(o)) + Cardinality(Users(o))
    BY DEF Exact, Refs
<1>3. QED
    BY <1>1, <1>2

(* One reader begins or ceases to use the block, or neither, and the       *)
(* registration and the ports of the block make a difference of d.         *)
OneIf(b) == IF b THEN 1 ELSE 0

(* A count stays exact when it changes by as much as the registration, the *)
(* ports and one user r together do.                                       *)
LEMMA Recount ==
    ASSUME NEW o \in Fblock, Exact(o), NEW r, NEW d \in Int,
           \A q : q # r => (q \in Users(o)' <=> q \in Users(o)),
           Registration(o)' + 3 * Cardinality(BoundPorts(o)')
               = Registration(o) + 3 * Cardinality(BoundPorts(o)) + d,
           fb'[o].refcnt = fb[o].refcnt + OneIf(r \in Users(o)') - OneIf(r \in Users(o)) + d
    PROVE  Exact(o)'
<1> DEFINE U == Users(o)
           V == Users(o)'
           n == OneIf(r \in V) - OneIf(r \in U)
<1>1. IsFiniteSet(U) /\ Cardinality(U) \in Nat
    BY Counts
<1>2. V = IF r \in V THEN U \cup {r} ELSE U \ {r}
    <2> HIDE DEF U, V
    <2>1. \A q : q # r => (q \in V <=> q \in U)
        BY DEF U, V
    <2>2. QED
        BY <2>1
<1>3. Cardinality(V) = Cardinality(U) + n
    <2>1. Cardinality(U \cup {r}) = IF r \in U THEN Cardinality(U) ELSE Cardinality(U) + 1
        BY <1>1, FS_AddElement
    <2>2. Cardinality(U \ {r}) = IF r \in U THEN Cardinality(U) - 1 ELSE Cardinality(U)
        BY <1>1, FS_RemoveElement
    <2> HIDE DEF U, V
    <2>3. CASE r \in V
        <3>1. Cardinality(V) = IF r \in U THEN Cardinality(U) ELSE Cardinality(U) + 1
            BY <1>2, <2>1, <2>3
        <3>2. QED
            BY <1>1, <2>3, <3>1 DEF OneIf
    <2>4. CASE r \notin V
        <3>1. Cardinality(V) = IF r \in U THEN Cardinality(U) - 1 ELSE Cardinality(U)
            BY <1>2, <2>2, <2>4
        <3>2. QED
            BY <1>1, <2>4, <3>1 DEF OneIf
    <2>5. QED
        BY <2>3, <2>4
<1>4. /\ Cardinality(BoundPorts(o)) \in Nat /\ Registration(o) \in {0, 1}
      /\ fb[o].refcnt = Registration(o) + 3 * Cardinality(BoundPorts(o)) + Cardinality(U)
    BY Counts DEF Exact, Refs
<1>5. n \in Int /\ OneIf(r \in V) \in Int /\ OneIf(r \in U) \in Int
    BY DEF OneIf
<1>6. fb'[o].refcnt = fb[o].refcnt + OneIf(r \in V) - OneIf(r \in U) + d
    OBVIOUS
<1> HIDE DEF U, V
<1>7. fb'[o].refcnt = Registration(o)' + 3 * Cardinality(BoundPorts(o)') + Cardinality(V)
    BY <1>1, <1>3, <1>4, <1>5, <1>6
<1>8. QED
    BY <1>7 DEF Exact, Refs, V
-----------------------------------------------------------------------------
(* Who uses a block, when one CPU, one socket or the control process moves. *)
CpuUses(c, o)  == rx[c].fb = o /\ rx[c].pc # "get"
SockUses(k, o) == app[k].fb = o /\ app[k].pc = "unbind"
CtlUses(o)     == ctl.fb = o /\ ctl.pc \in {"check", "delete", "put", "end"}

(* Who uses a block, one kind of user at a time. *)
LEMMA UsersMembers ==
    ASSUME TypeInv, NEW o \in Fblock
    PROVE  /\ \A c \in Cpu : c \in Users(o) <=> CpuUses(c, o)
           /\ \A k \in Sock : k \in Users(o) <=> SockUses(k, o)
           /\ "ctl" \in Users(o) <=> CtlUses(o)
           /\ Users(o) \subseteq Cpu \cup Sock \cup {"ctl"}
<1>1. \A k \in Sock : app[k] = Step("unbind", app[k].dir, o) <=> SockUses(k, o)
    <2> SUFFICES ASSUME NEW k \in Sock
                 PROVE  app[k] = Step("unbind", app[k].dir, o) <=> SockUses(k, o)
        OBVIOUS
    <2>1. app[k] \in AppRec
        BY DEF TypeInv
    <2>2. QED
        BY <2>1 DEF AppRec, Step, SockUses
<1>2. QED
    BY <1>1, ReaderAssumption DEF Users, CpuUses, CtlUses

(* The same of the state after a step. *)
LEMMA UsersPrime ==
    ASSUME TypeInv', NEW o \in Fblock
    PROVE  /\ \A c \in Cpu : c \in Users(o)' <=> CpuUses(c, o)'
           /\ \A k \in Sock : k \in Users(o)' <=> SockUses(k, o)'
           /\ "ctl" \in Users(o)' <=> CtlUses(o)'
           /\ Users(o)' \subseteq Cpu \cup Sock \cup {"ctl"}
<1>1. \A k \in Sock : app'[k] = Step("unbind", app'[k].dir, o) <=> SockUses(k, o)'
    <2> SUFFICES ASSUME NEW k \in Sock
                 PROVE  app'[k] = Step("unbind", app'[k].dir, o) <=> SockUses(k, o)'
        OBVIOUS
    <2>1. app'[k] \in AppRec
        BY DEF TypeInv
    <2>2. QED
        BY <2>1 DEF AppRec, Step, SockUses
<1>2. QED
    BY <1>1, ReaderAssumption DEF Users, CpuUses, CtlUses

(* Nobody else's use changes. *)
LEMMA CpuMoves ==
    ASSUME TypeInv, TypeInv', NEW c \in Cpu, NEW o \in Fblock,
           \A e \in Cpu : e # c => rx'[e] = rx[e], app' = app, ctl' = ctl
    PROVE  \A q : q # c => (q \in Users(o)' <=> q \in Users(o))
<1>1. \A e \in Cpu : e # c => (CpuUses(e, o)' <=> CpuUses(e, o))
    BY DEF CpuUses
<1>2. (\A k \in Sock : SockUses(k, o)' <=> SockUses(k, o)) /\ (CtlUses(o)' <=> CtlUses(o))
    BY DEF SockUses, CtlUses
<1>3. QED
    BY <1>1, <1>2, UsersMembers, UsersPrime

(* The same for the process of a socket. *)
LEMMA SockMoves ==
    ASSUME TypeInv, TypeInv', NEW k \in Sock, NEW o \in Fblock,
           \A l \in Sock : l # k => app'[l] = app[l], rx' = rx, ctl' = ctl
    PROVE  \A q : q # k => (q \in Users(o)' <=> q \in Users(o))
<1>1. \A l \in Sock : l # k => (SockUses(l, o)' <=> SockUses(l, o))
    BY DEF SockUses
<1>2. (\A c \in Cpu : CpuUses(c, o)' <=> CpuUses(c, o)) /\ (CtlUses(o)' <=> CtlUses(o))
    BY DEF CpuUses, CtlUses
<1>3. QED
    BY <1>1, <1>2, UsersMembers, UsersPrime

(* The same for the control process. *)
LEMMA CtlMoves ==
    ASSUME TypeInv, TypeInv', NEW o \in Fblock, rx' = rx, app' = app
    PROVE  \A q : q # "ctl" => (q \in Users(o)' <=> q \in Users(o))
<1>1. /\ \A c \in Cpu : CpuUses(c, o)' <=> CpuUses(c, o)
      /\ \A k \in Sock : SockUses(k, o)' <=> SockUses(k, o)
    BY DEF CpuUses, SockUses
<1>2. QED
    BY <1>1, UsersMembers, UsersPrime

(* Registration and ports of a block make no difference. *)
LEMMA Unmoved ==
    ASSUME NEW o \in Fblock, Registration(o)' = Registration(o), BoundPorts(o)' = BoundPorts(o)
    PROVE  Registration(o)' + 3 * Cardinality(BoundPorts(o)')
               = Registration(o) + 3 * Cardinality(BoundPorts(o)) + 0
<1>1. Registration(o) \in {0, 1} /\ Cardinality(BoundPorts(o)) \in Nat
    BY Counts
<1>2. QED
    BY <1>1

(* Counts stay exact when a reader moves, the tables and the ports stay,   *)
(* and the count follows what the reader does.                             *)
LEMMA ReaderExact ==
    ASSUME TypeInv, NEW o \in Fblock, Exact(o), NEW r,
           \A q : q # r => (q \in Users(o)' <=> q \in Users(o)),
           Registration(o)' = Registration(o), BoundPorts(o)' = BoundPorts(o),
           fb'[o].refcnt = fb[o].refcnt + OneIf(r \in Users(o)') - OneIf(r \in Users(o))
    PROVE  Exact(o)'
<1>1. fb[o].refcnt \in Int /\ OneIf(r \in Users(o)') \in Int /\ OneIf(r \in Users(o)) \in Int
    BY FieldTypes DEF TypeInv, Blocks, OneIf
<1>2. fb'[o].refcnt = fb[o].refcnt + OneIf(r \in Users(o)') - OneIf(r \in Users(o)) + 0
    BY <1>1
<1>3. QED
    BY <1>2, Unmoved, Recount
-----------------------------------------------------------------------------
(* Steps that register, delete and bind nothing *)

(* Every block that is found in fblmap stays, none comes into being, and   *)
(* ports are released at most.                                             *)
Steady ==
    /\ UNCHANGED <<fblmap, given, idp_counter>>
    /\ \A k \in Sock : sk'[k].fb = sk[k].fb
    /\ \A s \in Skb : next'[s] \in given \cup {IDP_UNKNOWN}
    /\ \A o \in Fblock : /\ SameId(fb'[o], fb[o])
                         /\ Known(o) => fb'[o].mem = "used"
                         /\ fb'[o].mem # "free" => Exists(o)
                         /\ \A d \in Path : fb'[o].port[d] \in {fb[o].port[d], IDP_UNKNOWN}

(* An entry of fblmap under an idp that was given away leads to a block    *)
(* that is known under this idp.                                           *)
LEMMA KnownIffLeads ==
    ASSUME TypeInv, TableInv, NEW i \in given, fblmap[i] # NULL
    PROVE  fblmap[i] \in Fblock /\ Known(fblmap[i]) /\ fb[fblmap[i]].idp = i
<1>1. fblmap[i] \in Fblock /\ Leads(i)
    BY DEF TypeInv, TableInv
<1>2. QED
    BY <1>1 DEF Leads, Known

(* A steady step keeps the tables and the sockets' blocks in order. *)
LEMMA SteadyTables ==
    ASSUME TypeInv, TableInv, OwnInv, Steady
    PROVE  TableInv' /\ OwnInv'
<1>1. ASSUME NEW i \in given, fblmap[i] # NULL PROVE Leads(i)'
    <2>1. fblmap[i] \in Fblock /\ Known(fblmap[i]) /\ fb[fblmap[i]].idp = i
        BY <1>1, KnownIffLeads
    <2>2. QED
        BY <2>1 DEF Steady, SameId, Leads
<1>2. ASSUME NEW o \in Fblock
      PROVE  /\ \A d \in Path : fb'[o].port[d] \in given \cup {IDP_UNKNOWN}
             /\ Exists(o)' => fb'[o].idp \in given
             /\ fb'[o].port["egress"] # IDP_UNKNOWN /\ Exists(o)'
                    => fb'[o].port["egress"] # fb'[o].idp
    <2>1. "egress" \in Path
        BY DEF Path
    <2>2. QED
        BY <2>1 DEF TableInv, Steady, SameId, Exists
<1>3. TableInv'
    <2>1. \A i \in given' : i <= idp_counter' /\ (fblmap'[i] # NULL => Leads(i)')
        BY <1>1 DEF TableInv, Steady
    <2>2. \A s \in Skb : next'[s] \in given' \cup {IDP_UNKNOWN}
        BY DEF Steady
    <2>3. QED
        BY <1>2, <2>1, <2>2 DEF TableInv, Steady
<1>4. OwnInv'
    <2>1. ASSUME NEW k \in Sock, sk'[k].fb # NULL
          PROVE  Known(sk[k].fb)' /\ fb'[sk'[k].fb].netfb_rx = "pflana"
        <3>1. sk'[k].fb = sk[k].fb /\ sk[k].fb \in Fblock
            BY <2>1 DEF Steady, TypeInv, SockRec
        <3>2. Known(sk[k].fb) /\ fb[sk[k].fb].netfb_rx = "pflana"
            BY <2>1, <3>1 DEF OwnInv
        <3>3. QED
            BY <3>1, <3>2 DEF Steady, Known, SameId
    <2>2. \A k, l \in Sock : sk'[k].fb # NULL /\ sk'[k].fb = sk'[l].fb => k = l
        BY DEF Steady, OwnInv
    <2>3. \A o \in Fblock : fb'[o].factory => fb'[o].netfb_rx = "dummy"
        BY DEF Steady, OwnInv, SameId
    <2>4. QED
        BY <2>1, <2>2, <2>3 DEF OwnInv
<1>5. QED
    BY <1>3, <1>4

(* A steady step takes no block away from a command under way. *)
LEMMA SteadyCtl ==
    ASSUME TypeInv, ArgInv, CtlInv, Steady, ctl' = ctl
    PROVE  CtlInv'
<1> DEFINE o == ctl.fb
<1>1. ctl.pc # "idle" => o \in Fblock
    BY DEF TypeInv, ArgInv, CtlRec
<1>2. CASE ctl.pc = "idle"
    BY <1>2 DEF CtlInv
<1>3. CASE ctl.pc # "idle"
    <2>1. SameId(fb'[o], fb[o]) /\ (Known(o) => Known(o)')
        BY <1>1, <1>3 DEF Steady, Known, SameId
    <2>2. BoundPorts(o) = {} => BoundPorts(o)' = {}
        BY <1>1, <1>3 DEF Steady, BoundPorts
    <2>3. UNCHANGED <<fblmap, given>>
        BY DEF Steady
    <2>4. QED
        BY <2>1, <2>2, <2>3 DEF CtlInv, Known, SameId
<1>4. QED
    BY <1>2, <1>3

(* What get_fblock, put_fblock and rcu_read_unlock have in common; the     *)
(* readers in L leave their read-side section.                             *)
Touch(L) ==
    /\ fb' \in Blocks
    /\ \A x \in Fblock :
           /\ SameId(fb'[x], fb[x]) /\ fb'[x].port = fb[x].port
           /\ \/ fb'[x].mem = fb[x].mem /\ fb[x].waits \ L \subseteq fb'[x].waits
              \/ fb'[x].mem = "rcu" /\ Readers \ L \subseteq fb'[x].waits /\ ~Known(x) /\ Exists(x)

Counted(o, n) ==
    \A x \in Fblock : fb'[x].refcnt = IF x = o THEN fb[x].refcnt + n ELSE fb[x].refcnt

(* Counting references and leaving read-side sections is steady. *)
LEMMA TouchSteady ==
    ASSUME NEW L, Touch(L), UNCHANGED <<fblmap, given, idp_counter>>,
           \A k \in Sock : sk'[k].fb = sk[k].fb,
           \A s \in Skb : next'[s] \in given \cup {IDP_UNKNOWN}
    PROVE  Steady
<1>1. ASSUME NEW o \in Fblock
      PROVE  /\ SameId(fb'[o], fb[o])
             /\ Known(o) => fb'[o].mem = "used"
             /\ fb'[o].mem # "free" => Exists(o)
             /\ \A d \in Path : fb'[o].port[d] \in {fb[o].port[d], IDP_UNKNOWN}
    BY DEF Touch, Known, Exists
<1>2. QED
    BY <1>1 DEF Steady

(* The same, without the ports. *)
Kept(L) ==
    \A x \in Fblock :
        /\ SameId(fb'[x], fb[x])
        /\ \/ fb'[x].mem = fb[x].mem /\ fb[x].waits \ L \subseteq fb'[x].waits
           \/ fb'[x].mem = "rcu" /\ Readers \ L \subseteq fb'[x].waits /\ ~Known(x) /\ Exists(x)

(* A CPU that has a pointer to a block is a reader. *)
LEMMA KeptRcu ==
    ASSUME ArgInv, TypeInv, RcuInv, NEW L, Kept(L),
           \A c \in Cpu : rx'[c].fb # NULL =>
               \/ rx'[c].fb = rx[c].fb /\ c \notin L
               \/ rx'[c].fb \in Fblock /\ Known(rx'[c].fb)
    PROVE  RcuInv'
<1> SUFFICES ASSUME NEW c \in Cpu, rx'[c].fb # NULL
             PROVE  /\ fb'[rx'[c].fb].mem = "rcu"  => c \in fb'[rx'[c].fb].waits
                    /\ fb'[rx'[c].fb].mem = "free" => ~fb'[rx'[c].fb].factory
    BY DEF RcuInv
<1> DEFINE o == rx'[c].fb
<1>1. CASE o = rx[c].fb /\ c \notin L
    <2>1. o \in Fblock /\ c \in Readers
        BY <1>1 DEF TypeInv, RxRec, ArgInv, InBlock, Readers
    <2>2. (fb[o].mem = "rcu" => c \in fb[o].waits) /\ (fb[o].mem = "free" => ~fb[o].factory)
        BY <1>1 DEF RcuInv
    <2>3. QED
        BY <1>1, <2>1, <2>2 DEF Kept, SameId
<1>2. CASE o \in Fblock /\ Known(o)
    BY <1>2 DEF Kept, Known
<1>3. QED
    BY <1>1, <1>2

(* Counting references keeps every CPU that has a pointer among those the  *)
(* grace period waits for.                                                 *)
LEMMA TouchRcu ==
    ASSUME ArgInv, TypeInv, RcuInv, NEW L, Touch(L),
           \A c \in Cpu : rx'[c].fb # NULL =>
               \/ rx'[c].fb = rx[c].fb /\ c \notin L
               \/ rx'[c].fb \in Fblock /\ Known(rx'[c].fb)
    PROVE  RcuInv'
<1>1. Kept(L)
    BY DEF Touch, Kept
<1>2. QED
    BY <1>1, KeptRcu

(* rcu_read_unlock changes no count. *)
LEMMA UnlockTouch ==
    ASSUME TypeInv, NEW r, fb' = RcuReadUnlock(fb, r)
    PROVE  Touch({r}) /\ \A x \in Fblock : fb'[x].refcnt = fb[x].refcnt
<1>1. fb \in Blocks
    BY DEF TypeInv, Blocks
<1>2. QED
    BY <1>1, UnlockFields DEF Touch

(* get_fblock counts one up. *)
LEMMA GetTouch ==
    ASSUME TypeInv, NEW o \in Fblock, fb' = Get(fb, o, 1)
    PROVE  Touch({}) /\ Counted(o, 1)
<1>1. fb \in Blocks
    BY DEF TypeInv, Blocks
<1>2. QED
    BY <1>1, GetFields DEF Touch, Counted, SameId, SameMem

(* The end of a search: get_fblock and rcu_read_unlock. *)
LEMMA GetUnlockTouch ==
    ASSUME TypeInv, NEW o \in Fblock, NEW r, fb' = RcuReadUnlock(Get(fb, o, 1), r)
    PROVE  Touch({r}) /\ Counted(o, 1)
<1> DEFINE f == Get(fb, o, 1)
<1>1. fb \in Blocks
    BY DEF TypeInv, Blocks
<1>2. /\ f \in Blocks /\ \A x \in Fblock : x # o => f[x] = fb[x]
      /\ f[o].refcnt = fb[o].refcnt + 1
      /\ SameId(f[o], fb[o]) /\ SameMem(f[o], fb[o]) /\ f[o].port = fb[o].port
    BY <1>1, GetFields
<1>3. fb' = RcuReadUnlock(f, r)
    OBVIOUS
<1> HIDE DEF f
<1>4. /\ fb' \in Blocks
      /\ \A x \in Fblock : /\ fb'[x].refcnt = f[x].refcnt /\ fb'[x].mem = f[x].mem
                           /\ fb'[x].port = f[x].port /\ fb'[x].waits = f[x].waits \ {r}
                           /\ SameId(fb'[x], f[x])
    BY <1>2, <1>3, UnlockFields
<1>5. QED
    BY <1>2, <1>4 DEF Touch, Counted, SameId, SameMem

(* The last reference is never put while the block is found in fblmap. *)
LEMMA LastUnknown ==
    ASSUME TypeInv, RefsExact, NEW o \in Fblock, Exists(o), NEW r \in Users(o)
    PROVE  LastRef(fb, o, 1) => ~Known(o)
<1>1. Exact(o)
    BY DEF RefsExact, Exact
<1>2. fb[o].refcnt >= Registration(o) + 3 * Cardinality(BoundPorts(o)) + 1
    BY <1>1, AtLeast
<1>3. Cardinality(BoundPorts(o)) \in Nat /\ fb[o].refcnt \in Int
    BY Counts, FieldTypes DEF TypeInv, Blocks
<1>4. Known(o) => Registration(o) = 1
    BY DEF Known, Registration
<1>5. Known(o) => fb[o].refcnt # 1
    BY <1>2, <1>3, <1>4
<1>6. QED
    BY <1>5 DEF LastRef

(* put_fblock by a user of the block counts one down. *)
LEMMA PutTouch ==
    ASSUME TypeInv, RefsExact, NEW o \in Fblock, Exists(o), NEW r \in Users(o),
           fb' = Put(fb, o, 1)
    PROVE  Touch({}) /\ Counted(o, -1)
<1>1. fb \in Blocks /\ fb[o].refcnt - 1 = fb[o].refcnt + (-1)
    BY FieldTypes DEF TypeInv, Blocks
<1>2. LastRef(fb, o, 1) => ~Known(o)
    BY LastUnknown
<1>3. QED
    BY <1>1, <1>2, PutFields DEF Touch, Counted, SameId, SameMem

(* The end of process_packet: put_fblock and rcu_read_unlock. *)
LEMMA PutUnlockTouch ==
    ASSUME TypeInv, RefsExact, NEW o \in Fblock, Exists(o), NEW q \in Users(o), NEW r,
           fb' = RcuReadUnlock(Put(fb, o, 1), r)
    PROVE  Touch({r}) /\ Counted(o, -1)
<1> DEFINE f == Put(fb, o, 1)
<1>1. fb \in Blocks /\ fb[o].refcnt - 1 = fb[o].refcnt + (-1)
    BY FieldTypes DEF TypeInv, Blocks
<1>2. LastRef(fb, o, 1) => ~Known(o)
    BY LastUnknown
<1>3. /\ f \in Blocks /\ \A x \in Fblock : x # o => f[x] = fb[x]
      /\ f[o].refcnt = fb[o].refcnt + (-1)
      /\ SameId(f[o], fb[o]) /\ f[o].port = fb[o].port
      /\ LastRef(fb, o, 1) => f[o].mem = "rcu" /\ f[o].waits = Readers
      /\ ~LastRef(fb, o, 1) => SameMem(f[o], fb[o])
    BY <1>1, PutFields
<1>4. fb' = RcuReadUnlock(f, r)
    OBVIOUS
<1> HIDE DEF f
<1>5. /\ fb' \in Blocks
      /\ \A x \in Fblock : /\ fb'[x].refcnt = f[x].refcnt /\ fb'[x].mem = f[x].mem
                           /\ fb'[x].port = f[x].port /\ fb'[x].waits = f[x].waits \ {r}
                           /\ SameId(fb'[x], f[x])
    BY <1>3, <1>4, UnlockFields
<1>6. QED
    BY <1>2, <1>3, <1>5 DEF Touch, Counted, SameId, SameMem
-----------------------------------------------------------------------------
(* Steps of a CPU *)
CpuEffect(c) ==
    /\ rx' \in [Cpu -> RxRec]
    /\ \A e \in Cpu : e # c => rx'[e] = rx[e]
    /\ sk' \in [Sock -> SockRec]
    /\ \A k \in Sock : sk'[k].fb = sk[k].fb
    /\ next' \in [Skb -> 0 .. MaxIdp]
    /\ \A s \in Skb : next'[s] \in given \cup {IDP_UNKNOWN}
    /\ UNCHANGED <<fblmap, given, idp_counter, ctl, app>>

(* What holds of the record of a CPU. *)
RxArgs(t) == (t.fb # NULL <=> t.pc \in InBlock) /\ (t.pc # "idle" => t.skb \in Skb)

(* A step of process_packet keeps the invariant if it changes the counts   *)
(* by what the CPU takes and gives back, and gets its pointers from        *)
(* fblmap.                                                                 *)
LEMMA CpuStep ==
    ASSUME Inv, NEW c \in Cpu, NEW L, Touch(L), CpuEffect(c), L \subseteq {c},
           L # {} => rx'[c].fb = NULL,
           rx'[c].fb # NULL => \/ rx'[c].fb = rx[c].fb
                               \/ rx'[c].fb \in Fblock /\ Known(rx'[c].fb),
           RxArgs(rx'[c]),
           \A o \in Fblock :
               fb'[o].refcnt = fb[o].refcnt + OneIf(CpuUses(c, o)') - OneIf(CpuUses(c, o))
    PROVE  Inv'
<1>1. TypeInv'
    BY DEF Inv, TypeInv, Touch, CpuEffect, Blocks
<1>2. ArgInv'
    BY DEF Inv, ArgInv, CpuEffect, RxArgs
<1>3. Steady
    BY TouchSteady DEF CpuEffect
<1>4. TableInv' /\ OwnInv'
    BY <1>3, SteadyTables DEF Inv
<1>5. CtlInv'
    BY <1>3, SteadyCtl DEF Inv, CpuEffect
<1>6. RcuInv'
    <2>1. \A e \in Cpu : rx'[e].fb # NULL =>
              \/ rx'[e].fb = rx[e].fb /\ e \notin L
              \/ rx'[e].fb \in Fblock /\ Known(rx'[e].fb)
        BY DEF CpuEffect
    <2>2. QED
        BY <2>1, TouchRcu DEF Inv
<1>7. RefsExact'
    <2> SUFFICES ASSUME NEW o \in Fblock, Exists(o)' PROVE Exact(o)'
        BY DEF RefsExact, Exact
    <2>1. Exact(o)
        BY <1>3 DEF Steady, Exists, Inv, RefsExact, Exact
    <2>2. \A q : q # c => (q \in Users(o)' <=> q \in Users(o))
        BY <1>1, CpuMoves DEF Inv, CpuEffect
    <2>3. Registration(o)' = Registration(o) /\ BoundPorts(o)' = BoundPorts(o)
        BY <1>3 DEF Registration, BoundPorts, Steady, SameId, Touch, CpuEffect
    <2>4. (c \in Users(o)' <=> CpuUses(c, o)') /\ (c \in Users(o) <=> CpuUses(c, o))
        BY <1>1, UsersMembers, UsersPrime DEF Inv
    <2>5. fb'[o].refcnt = fb[o].refcnt + OneIf(c \in Users(o)') - OneIf(c \in Users(o))
        BY <2>4 DEF OneIf
    <2>6. QED
        BY <2>1, <2>2, <2>3, <2>5, ReaderExact DEF Inv
<1>8. QED
    BY <1>1, <1>2, <1>4, <1>5, <1>6, <1>7 DEF Inv

(* A CPU that does not touch the count of its block. *)
LEMMA CpuWalks ==
    ASSUME Inv, NEW c \in Cpu, NEW L, Touch(L), CpuEffect(c), L \subseteq {c},
           L # {} => rx'[c].fb = NULL,
           RxArgs(rx'[c]),
           \A o \in Fblock : fb'[o].refcnt = fb[o].refcnt,
           \/ rx'[c].fb = rx[c].fb /\ (rx'[c].pc = "get" <=> rx[c].pc = "get")
           \/ /\ rx[c].fb = NULL
              /\ \/ rx'[c].fb = NULL
                 \/ rx'[c].fb \in Fblock /\ Known(rx'[c].fb) /\ rx'[c].pc = "get"
    PROVE  Inv'
<1>1. NULL \notin Fblock
    BY NullAssumption
<1>2. \A o \in Fblock : CpuUses(c, o)' <=> CpuUses(c, o)
    BY <1>1 DEF CpuUses
<1>3. \A o \in Fblock :
          fb'[o].refcnt = fb[o].refcnt + OneIf(CpuUses(c, o)') - OneIf(CpuUses(c, o))
    <2> SUFFICES ASSUME NEW o \in Fblock
                 PROVE  fb'[o].refcnt = fb[o].refcnt + OneIf(CpuUses(c, o)') - OneIf(CpuUses(c, o))
        OBVIOUS
    <2>1. fb[o].refcnt \in Int
        BY FieldTypes DEF Inv, TypeInv, Blocks
    <2>2. QED
        BY <1>2, <2>1 DEF OneIf
<1>4. rx'[c].fb # NULL => \/ rx'[c].fb = rx[c].fb
                          \/ rx'[c].fb \in Fblock /\ Known(rx'[c].fb)
    OBVIOUS
<1>5. QED
    BY <1>3, <1>4, CpuStep

(* The block has not been touched at all. *)
LEMMA NoTouch ==
    ASSUME TypeInv, fb' = fb
    PROVE  Touch({}) /\ \A o \in Fblock : fb'[o].refcnt = fb[o].refcnt
BY DEF TypeInv, Touch, Blocks, SameId

(* A CPU's place is written. *)
LEMMA RxUpdate ==
    ASSUME TypeInv, NEW c \in Cpu, NEW t \in RxRec, rx' = [rx EXCEPT ![c] = t]
    PROVE  /\ rx' \in [Cpu -> RxRec] /\ rx'[c] = t
           /\ \A e \in Cpu : e # c => rx'[e] = rx[e]
BY DEF TypeInv

(* A CPU goes on within process_packet. *)
LEMMA RxPcUpdate ==
    ASSUME TypeInv, NEW c \in Cpu, NEW p \in RxPC, rx' = [rx EXCEPT ![c].pc = p]
    PROVE  /\ rx' \in [Cpu -> RxRec]
           /\ rx'[c].pc = p /\ rx'[c].fb = rx[c].fb /\ rx'[c].skb = rx[c].skb
           /\ rx'[c].dir = rx[c].dir /\ rx'[c].sender = rx[c].sender
           /\ \A e \in Cpu : e # c => rx'[e] = rx[e]
<1> DEFINE t == [rx[c] EXCEPT !.pc = p]
<1>1. rx[c] \in RxRec
    BY DEF TypeInv
<1>2. /\ t \in RxRec /\ t.pc = p /\ t.fb = rx[c].fb /\ t.skb = rx[c].skb
      /\ t.dir = rx[c].dir /\ t.sender = rx[c].sender
    BY <1>1 DEF RxRec
<1>3. rx' = [rx EXCEPT ![c] = t]
    BY DEF TypeInv
<1> HIDE DEF t
<1>4. QED
    BY <1>2, <1>3, RxUpdate

(* A CPU outside process_packet has no pointer. *)
LEMMA IdleFields ==
    /\ Idle \in RxRec /\ Idle.fb = NULL /\ Idle.pc = "idle" /\ RxArgs(Idle)
BY DEF Idle, RxRec, RxPC, Path, RxArgs, InBlock

(* Nothing is written to packets and sockets. *)
LEMMA PlainCpu ==
    ASSUME Inv, NEW c \in Cpu, UNCHANGED <<fblmap, given, idp_counter, sk, next, ctl, app>>,
           rx' \in [Cpu -> RxRec], \A e \in Cpu : e # c => rx'[e] = rx[e]
    PROVE  CpuEffect(c)
BY DEF Inv, TypeInv, TableInv, CpuEffect

(* A packet comes in. *)
LEMMA EnterStep ==
    ASSUME Inv, NEW c \in Cpu, NEW s \in Skb, NEW i \in given \cup {IDP_UNKNOWN},
           NEW dir \in Path, NEW k \in Sock \cup {NULL}, Enter(c, s, i, dir, k)
    PROVE  Inv'
<1> DEFINE t == [pc |-> "loop", skb |-> s, fb |-> NULL, dir |-> dir, sender |-> k]
<1>1. t \in RxRec /\ t.pc = "loop" /\ t.fb = NULL /\ RxArgs(t)
    BY DEF RxRec, RxPC, RxArgs, InBlock
<1>2. /\ rx[c].pc = "idle" /\ rx' = [rx EXCEPT ![c] = t] /\ next' = [next EXCEPT ![s] = i]
      /\ UNCHANGED <<fblmap, given, idp_counter, fb, sk, ctl, app>>
    BY DEF Enter, table
<1> HIDE DEF t
<1>3. rx' \in [Cpu -> RxRec] /\ rx'[c] = t /\ \A e \in Cpu : e # c => rx'[e] = rx[e]
    BY <1>1, <1>2, RxUpdate DEF Inv
<1>4. i \in 0 .. MaxIdp
    BY IdpAssumption DEF Inv, TypeInv, Idp, IDP_UNKNOWN
<1>5. CpuEffect(c)
    BY <1>2, <1>3, <1>4 DEF CpuEffect, Inv, TypeInv, TableInv
<1>6. rx[c].fb = NULL
    BY <1>2 DEF Inv, ArgInv, InBlock
<1>7. QED
    BY <1>1, <1>2, <1>3, <1>5, <1>6, NoTouch, CpuWalks DEF Inv

(* A frame is received. *)
LEMMA HandleFrameStep ==
    ASSUME Inv, NEW c \in Cpu, HandleFrame(c)
    PROVE  Inv'
<1>1. PICK s \in NewPackets, i \in given : Enter(c, s, i, "ingress", NULL)
    BY DEF HandleFrame
<1>2. s \in Skb /\ "ingress" \in Path
    BY DEF NewPackets, Lowest, Path
<1>3. QED
    BY <1>1, <1>2, EnterStep

(* A process sends a packet through its socket. *)
LEMMA SendmsgStep ==
    ASSUME Inv, NEW c \in Cpu, NEW k \in Sock, Sendmsg(c, k)
    PROVE  Inv'
<1>1. PICK s \in NewPackets : Enter(c, s, fb[sk[k].fb].port["egress"], "egress", k)
    BY DEF Sendmsg
<1>2. s \in Skb /\ "egress" \in Path
    BY DEF NewPackets, Lowest, Path
<1>3. sk[k].fb \in Fblock
    BY DEF Sendmsg, Inv, ArgInv, TypeInv, SockRec
<1>4. fb[sk[k].fb].port["egress"] \in given \cup {IDP_UNKNOWN}
    BY <1>2, <1>3 DEF Inv, TableInv
<1>5. QED
    BY <1>1, <1>2, <1>4, EnterStep

(* A CPU leaves process_packet and had no block. *)
LEMMA LeaveStep ==
    ASSUME Inv, NEW c \in Cpu, rx[c].fb = NULL, Leave(c, fb),
           UNCHANGED <<fblmap, given, idp_counter, sk, next, ctl, app>>
    PROVE  Inv'
<1>1. rx' = [rx EXCEPT ![c] = Idle] /\ fb' = RcuReadUnlock(fb, c)
    BY DEF Leave
<1>2. /\ rx' \in [Cpu -> RxRec] /\ \A e \in Cpu : e # c => rx'[e] = rx[e]
      /\ rx'[c].fb = NULL /\ RxArgs(rx'[c])
    BY <1>1, IdleFields, RxUpdate DEF Inv
<1>3. CpuEffect(c)
    BY <1>2, PlainCpu
<1>4. Touch({c}) /\ \A x \in Fblock : fb'[x].refcnt = fb[x].refcnt
    BY <1>1, UnlockTouch DEF Inv
<1>5. QED
    BY <1>2, <1>3, <1>4, CpuWalks

(* The first half of __search_fblock. *)
LEMMA LookupStep ==
    ASSUME Inv, NEW c \in Cpu, Lookup(c)
    PROVE  Inv'
<1> DEFINE i == next[rx[c].skb]
<1>1. /\ rx[c].pc = "loop" /\ UNCHANGED <<fblmap, given, idp_counter, sk, next, ctl, app>>
      /\ \/ Leave(c, fb)
         \/ /\ i # IDP_UNKNOWN /\ fblmap[i] # NULL /\ fb' = fb
            /\ rx' = [rx EXCEPT ![c].pc = "get", ![c].fb = fblmap[i]]
    BY DEF Lookup, table
<1>2. rx[c].fb = NULL /\ rx[c].skb \in Skb
    BY <1>1 DEF Inv, ArgInv, InBlock
<1>3. CASE Leave(c, fb)
    BY <1>1, <1>2, <1>3, LeaveStep
<1>4. CASE /\ i # IDP_UNKNOWN /\ fblmap[i] # NULL /\ fb' = fb
           /\ rx' = [rx EXCEPT ![c].pc = "get", ![c].fb = fblmap[i]]
    <2>1. i \in given
        BY <1>2, <1>4 DEF Inv, TableInv
    <2>2. fblmap[i] \in Fblock /\ Known(fblmap[i])
        BY <1>4, <2>1, KnownIffLeads DEF Inv
    <2>3. "get" \in RxPC
        BY DEF RxPC
    <2>4. /\ rx' \in [Cpu -> RxRec] /\ rx'[c].pc = "get" /\ rx'[c].fb = fblmap[i]
          /\ rx'[c].skb = rx[c].skb /\ \A e \in Cpu : e # c => rx'[e] = rx[e]
        <3> DEFINE t == [rx[c] EXCEPT !.pc = "get", !.fb = fblmap[i]]
        <3>1. rx[c] \in RxRec
            BY DEF Inv, TypeInv
        <3>2. t \in RxRec /\ t.pc = "get" /\ t.fb = fblmap[i] /\ t.skb = rx[c].skb
            BY <2>2, <2>3, <3>1 DEF RxRec
        <3>3. rx' = [rx EXCEPT ![c] = t]
            BY <1>4 DEF Inv, TypeInv
        <3> HIDE DEF t
        <3>4. QED
            BY <3>2, <3>3, RxUpdate DEF Inv
    <2>5. RxArgs(rx'[c])
        BY <1>2, <1>4, <2>4 DEF RxArgs, InBlock
    <2>6. CpuEffect(c)
        BY <1>1, <2>4, PlainCpu
    <2>7. Touch({}) /\ \A o \in Fblock : fb'[o].refcnt = fb[o].refcnt
        BY <1>4, NoTouch DEF Inv
    <2>8. QED
        BY <1>2, <2>2, <2>4, <2>5, <2>6, <2>7, CpuWalks
<1>5. QED
    BY <1>1, <1>3, <1>4

(* A CPU that is in a block goes on there. *)
LEMMA InBlockStep ==
    ASSUME Inv, NEW c \in Cpu, NEW p \in InBlock \ {"get"}, rx[c].pc \in InBlock \ {"get"},
           rx' = [rx EXCEPT ![c].pc = p], fb' = fb,
           sk' \in [Sock -> SockRec], \A k \in Sock : sk'[k].fb = sk[k].fb,
           \/ next' = next
           \/ \E j \in given \cup {IDP_UNKNOWN} : next' = [next EXCEPT ![rx[c].skb] = j],
           UNCHANGED <<fblmap, given, idp_counter, ctl, app>>
    PROVE  Inv'
<1>1. p \in RxPC
    BY DEF InBlock, RxPC
<1>2. /\ rx' \in [Cpu -> RxRec] /\ rx'[c].pc = p /\ rx'[c].fb = rx[c].fb
      /\ rx'[c].skb = rx[c].skb /\ \A e \in Cpu : e # c => rx'[e] = rx[e]
    BY <1>1, RxPcUpdate DEF Inv
<1>3. rx[c].fb # NULL /\ rx[c].skb \in Skb
    BY DEF Inv, ArgInv, InBlock
<1>4. RxArgs(rx'[c])
    BY <1>2, <1>3 DEF RxArgs
<1>5. next' \in [Skb -> 0 .. MaxIdp] /\ \A s \in Skb : next'[s] \in given \cup {IDP_UNKNOWN}
    <2>1. next \in [Skb -> 0 .. MaxIdp] /\ \A s \in Skb : next[s] \in given \cup {IDP_UNKNOWN}
        BY DEF Inv, TypeInv, TableInv
    <2>2. \A j \in given \cup {IDP_UNKNOWN} : j \in 0 .. MaxIdp
        <3>1. given \subseteq 1 .. MaxIdp
            BY DEF Inv, TypeInv, Idp
        <3>2. QED
            BY <3>1, IdpAssumption DEF IDP_UNKNOWN
    <2>3. CASE next' = next
        BY <2>1, <2>3
    <2>4. ASSUME NEW j \in given \cup {IDP_UNKNOWN}, next' = [next EXCEPT ![rx[c].skb] = j]
          PROVE  <1>5!:
        <3>1. j \in 0 .. MaxIdp
            BY <2>2
        <3>2. next' \in [Skb -> 0 .. MaxIdp]
            BY <1>3, <2>1, <2>4, <3>1
        <3>3. \A s \in Skb : next'[s] = IF s = rx[c].skb THEN j ELSE next[s]
            BY <2>1, <2>4
        <3>4. QED
            BY <2>1, <3>2, <3>3
    <2>5. QED
        BY <2>3, <2>4
<1>6. CpuEffect(c)
    BY <1>2, <1>5 DEF CpuEffect
<1>7. Touch({}) /\ \A o \in Fblock : fb'[o].refcnt = fb[o].refcnt
    BY NoTouch DEF Inv
<1>8. QED
    BY <1>2, <1>4, <1>6, <1>7, CpuWalks

(* fb_dummy_netrx. *)
LEMMA DummyNetrxStep ==
    ASSUME Inv, NEW c \in Cpu, DummyNetrx(c)
    PROVE  Inv'
<1> DEFINE i == fb[rx[c].fb].port[rx[c].dir]
<1>1. /\ rx[c].pc = "netrx" /\ next' = [next EXCEPT ![rx[c].skb] = i]
      /\ rx' = [rx EXCEPT ![c].pc = "drop"] \/ rx' = [rx EXCEPT ![c].pc = "put"]
      /\ UNCHANGED <<fblmap, given, idp_counter, fb, sk, ctl, app>>
    BY DEF DummyNetrx, table
<1>2. rx[c].fb \in Fblock /\ rx[c].dir \in Path
    BY <1>1 DEF Inv, ArgInv, TypeInv, RxRec, InBlock
<1>3. i \in given \cup {IDP_UNKNOWN}
    BY <1>2 DEF Inv, TableInv
<1>4. {"drop", "put", "netrx"} \subseteq InBlock \ {"get"}
    BY DEF InBlock
<1>5. sk' \in [Sock -> SockRec] /\ \A k \in Sock : sk'[k].fb = sk[k].fb
    BY <1>1 DEF Inv, TypeInv
<1>6. QED
    BY <1>1, <1>3, <1>4, <1>5, InBlockStep

(* fb_pflana_netrx. *)
LEMMA PflanaNetrxStep ==
    ASSUME Inv, NEW c \in Cpu, PflanaNetrx(c)
    PROVE  Inv'
<1> DEFINE k == fb[rx[c].fb].sock
<1>1. /\ rx[c].pc = "netrx" /\ k # NULL /\ rx' = [rx EXCEPT ![c].pc = "touch"]
      /\ sk' = sk \/ sk' = [sk EXCEPT ![k].queue = Append(@, rx[c].skb)]
      /\ UNCHANGED <<fblmap, given, idp_counter, fb, next, ctl, app>>
    BY DEF PflanaNetrx, table
<1>2. rx[c].fb \in Fblock /\ rx[c].skb \in Skb
    BY <1>1 DEF Inv, ArgInv, TypeInv, RxRec, InBlock
<1>3. k \in Sock
    <2>1. fb[rx[c].fb] \in FblockRec
        BY <1>2 DEF Inv, TypeInv
    <2>2. QED
        BY <1>1, <2>1 DEF FblockRec
<1>4. {"touch", "netrx"} \subseteq InBlock \ {"get"}
    BY DEF InBlock
<1>5. sk' \in [Sock -> SockRec] /\ \A l \in Sock : sk'[l].fb = sk[l].fb
    <2>1. sk \in [Sock -> SockRec]
        BY DEF Inv, TypeInv
    <2>2. CASE sk' = sk
        BY <2>1, <2>2
    <2>3. CASE sk' = [sk EXCEPT ![k].queue = Append(@, rx[c].skb)]
        <3> DEFINE q == Append(sk[k].queue, rx[c].skb)
                   t == [sk[k] EXCEPT !.queue = q]
        <3>1. sk[k] \in SockRec /\ sk[k].queue \in Seq(Skb)
            BY <1>3, <2>1 DEF SockRec
        <3>2. q \in Seq(Skb)
            BY <1>2, <3>1
        <3> HIDE DEF q
        <3>3. t \in SockRec /\ t.fb = sk[k].fb
            BY <3>1, <3>2 DEF SockRec
        <3>4. sk' = [sk EXCEPT ![k] = t]
            BY <2>3 DEF q
        <3> HIDE DEF t
        <3>5. QED
            BY <1>3, <2>1, <3>3, <3>4
    <2>4. QED
        BY <1>1, <2>2, <2>3
<1>6. QED
    BY <1>1, <1>4, <1>5, InBlockStep

(* The packet is marked as last in its chain. *)
LEMMA WriteNextIdpStep ==
    ASSUME Inv, NEW c \in Cpu, WriteNextIdp(c)
    PROVE  Inv'
<1>1. /\ rx[c].pc = "touch" /\ next' = [next EXCEPT ![rx[c].skb] = IDP_UNKNOWN]
      /\ rx' = [rx EXCEPT ![c].pc = "halt"]
      /\ UNCHANGED <<fblmap, given, idp_counter, fb, sk, ctl, app>>
    BY DEF WriteNextIdp, table
<1>2. {"touch", "halt"} \subseteq InBlock \ {"get"}
    BY DEF InBlock
<1>3. sk' \in [Sock -> SockRec] /\ \A k \in Sock : sk'[k].fb = sk[k].fb
    BY <1>1 DEF Inv, TypeInv
<1>4. QED
    BY <1>1, <1>2, <1>3, InBlockStep

(* The condition of the loop is read again. *)
LEMMA ReadNextIdpAgainStep ==
    ASSUME Inv, NEW c \in Cpu, ReadNextIdpAgain(c)
    PROVE  Inv'
<1>1. /\ rx[c].pc = "again" /\ Leave(c, fb)
      /\ UNCHANGED <<fblmap, given, idp_counter, sk, next, ctl, app>>
    BY DEF ReadNextIdpAgain, table, packets
<1>2. rx[c].fb = NULL
    BY <1>1 DEF Inv, ArgInv, InBlock
<1>3. QED
    BY <1>1, <1>2, LeaveStep

(* The second half of __search_fblock. *)
LEMMA GetFblockStep ==
    ASSUME Inv, NEW c \in Cpu, GetFblock(c)
    PROVE  Inv'
<1> DEFINE o == rx[c].fb
<1>1. /\ rx[c].pc = "get" /\ fb' = Get(fb, o, 1) /\ rx' = [rx EXCEPT ![c].pc = "netrx"]
      /\ UNCHANGED <<fblmap, given, idp_counter, sk, next, ctl, app>>
    BY DEF GetFblock, table, packets
<1>2. o \in Fblock /\ rx[c].skb \in Skb /\ "netrx" \in RxPC
    BY <1>1 DEF Inv, ArgInv, TypeInv, RxRec, InBlock, RxPC
<1>3. /\ rx' \in [Cpu -> RxRec] /\ rx'[c].pc = "netrx" /\ rx'[c].fb = o
      /\ rx'[c].skb = rx[c].skb /\ \A e \in Cpu : e # c => rx'[e] = rx[e]
    BY <1>1, <1>2, RxPcUpdate DEF Inv
<1>4. RxArgs(rx'[c])
    BY <1>2, <1>3, NullAssumption DEF RxArgs, InBlock
<1>5. CpuEffect(c)
    BY <1>1, <1>3, PlainCpu
<1>6. Touch({}) /\ Counted(o, 1)
    BY <1>1, <1>2, GetTouch DEF Inv
<1>7. \A x \in Fblock :
          fb'[x].refcnt = fb[x].refcnt + OneIf(CpuUses(c, x)') - OneIf(CpuUses(c, x))
    <2> SUFFICES ASSUME NEW x \in Fblock
                 PROVE  fb'[x].refcnt = fb[x].refcnt + OneIf(CpuUses(c, x)') - OneIf(CpuUses(c, x))
        OBVIOUS
    <2>1. fb[x].refcnt \in Int
        BY FieldTypes DEF Inv, TypeInv, Blocks
    <2>2. (CpuUses(c, x)' <=> x = o) /\ ~CpuUses(c, x)
        BY <1>1, <1>3 DEF CpuUses
    <2>3. QED
        BY <1>6, <2>1, <2>2 DEF OneIf, Counted
<1>8. QED
    BY <1>3, <1>4, <1>5, <1>6, <1>7, CpuStep

(* put_fblock after netfb_rx. *)
LEMMA PutFblockStep ==
    ASSUME Inv, NEW c \in Cpu, PutFblock(c)
    PROVE  Inv'
<1> DEFINE o == rx[c].fb
           f == Put(fb, o, 1)
<1>1. /\ o # NULL /\ Exists(o) /\ rx[c].pc \in {"put", "halt", "drop"}
      /\ \/ rx' = [rx EXCEPT ![c].pc = "loop", ![c].fb = NULL] /\ fb' = f
         \/ rx' = [rx EXCEPT ![c].pc = "again", ![c].fb = NULL] /\ fb' = f
         \/ rx' = [rx EXCEPT ![c] = Idle] /\ fb' = RcuReadUnlock(f, c)
      /\ UNCHANGED <<fblmap, given, idp_counter, sk, next, ctl, app>>
    BY DEF PutFblock, MayPut, Leave, table, packets
<1>2. o \in Fblock /\ rx[c].skb \in Skb /\ {"loop", "again"} \subseteq RxPC
    BY <1>1 DEF Inv, ArgInv, TypeInv, RxRec, InBlock, RxPC
<1>3. /\ rx' \in [Cpu -> RxRec] /\ rx'[c].fb = NULL /\ RxArgs(rx'[c])
      /\ \A e \in Cpu : e # c => rx'[e] = rx[e]
    <2>1. ASSUME NEW p \in {"loop", "again"}, rx' = [rx EXCEPT ![c].pc = p, ![c].fb = NULL]
          PROVE  <1>3!:
        <3>1. /\ rx' \in [Cpu -> RxRec] /\ rx'[c].pc = p /\ rx'[c].fb = NULL
              /\ rx'[c].skb = rx[c].skb /\ \A e \in Cpu : e # c => rx'[e] = rx[e]
            <4>1. p \in RxPC /\ NULL \in Fblock \cup {NULL} /\ TypeInv
                BY <1>2 DEF Inv
            <4> DEFINE t == [rx[c] EXCEPT !.pc = p, !.fb = NULL]
            <4>2. rx[c] \in RxRec
                BY <4>1 DEF TypeInv
            <4>3. t \in RxRec /\ t.pc = p /\ t.fb = NULL /\ t.skb = rx[c].skb
                BY <4>1, <4>2 DEF RxRec
            <4>4. rx' = [rx EXCEPT ![c] = t]
                BY <2>1, <4>1 DEF TypeInv
            <4> HIDE DEF t
            <4>5. QED
                BY <4>1, <4>3, <4>4, RxUpdate
        <3>2. QED
            BY <1>2, <3>1 DEF RxArgs, InBlock
    <2>2. CASE rx' = [rx EXCEPT ![c] = Idle]
        BY <2>2, IdleFields, RxUpdate DEF Inv
    <2>3. QED
        BY <1>1, <2>1, <2>2
<1>4. CpuEffect(c)
    BY <1>1, <1>3, PlainCpu
<1>5. c \in Users(o)
    BY <1>1, <1>2, UsersMembers DEF Inv, CpuUses
<1>6. (Touch({}) \/ Touch({c})) /\ Counted(o, -1)
    BY <1>1, <1>2, <1>5, PutTouch, PutUnlockTouch DEF Inv
<1>7. \A x \in Fblock :
          fb'[x].refcnt = fb[x].refcnt + OneIf(CpuUses(c, x)') - OneIf(CpuUses(c, x))
    <2> SUFFICES ASSUME NEW x \in Fblock
                 PROVE  fb'[x].refcnt = fb[x].refcnt + OneIf(CpuUses(c, x)') - OneIf(CpuUses(c, x))
        OBVIOUS
    <2>1. fb[x].refcnt \in Int
        BY FieldTypes DEF Inv, TypeInv, Blocks
    <2>2. ~CpuUses(c, x)' /\ (CpuUses(c, x) <=> x = o)
        BY <1>1, <1>3, NullAssumption DEF CpuUses
    <2>3. QED
        BY <1>6, <2>1, <2>2 DEF OneIf, Counted
<1>8. CASE Touch({})
    BY <1>3, <1>4, <1>7, <1>8, CpuStep
<1>9. CASE Touch({c})
    BY <1>3, <1>4, <1>7, <1>9, CpuStep
<1>10. QED
    BY <1>6, <1>8, <1>9
-----------------------------------------------------------------------------
(* Steps of the control process *)
LEMMA AtFields ==
    ASSUME NEW pc, NEW o
    PROVE  At(pc, o).pc = pc /\ At(pc, o).fb = o /\ Done.pc = "idle" /\ Done.fb = NULL
BY DEF At, Done

(* The control process is somewhere. *)
LEMMA AtType ==
    ASSUME NEW pc \in CtlPC, NEW o \in Fblock
    PROVE  At(pc, o) \in CtlRec /\ Done \in CtlRec
BY DEF At, Done, CtlRec, CtlPC

(* The registration of a block, field by field. *)
InPut(o) == ctl.pc = "put" /\ ctl.fb = o
(* The registration counts while fblmap leads to the block or RM is about  *)
(* to put it.                                                              *)
LEMMA RegistrationFields ==
    ASSUME NEW o, ctl \in CtlRec
    PROVE  Registration(o) = IF fblmap[fb[o].idp] = o \/ InPut(o) THEN 1 ELSE 0
BY DEF Registration, At, CtlRec, InPut

(* The same of the state after a step. *)
LEMMA RegistrationPrime ==
    ASSUME NEW o, ctl' \in CtlRec
    PROVE  Registration(o)' = IF fblmap'[fb'[o].idp] = o \/ InPut(o)' THEN 1 ELSE 0
BY DEF Registration, At, CtlRec, InPut

(* Counts stay exact when the control process moves, the ports stay, and   *)
(* the counts follow what it uses and what is registered.                  *)
LEMMA CtlExact ==
    ASSUME TypeInv, TypeInv', NEW o \in Fblock, Exact(o), rx' = rx, app' = app,
           fb'[o].port = fb[o].port,
           fb'[o].refcnt = fb[o].refcnt + OneIf(CtlUses(o)') - OneIf(CtlUses(o))
                               + (Registration(o)' - Registration(o))
    PROVE  Exact(o)'
<1> DEFINE d == Registration(o)' - Registration(o)
<1>1. /\ Registration(o) \in {0, 1} /\ Registration(o)' \in {0, 1}
      /\ Cardinality(BoundPorts(o)) \in Nat
    BY Counts DEF Registration
<1>2. BoundPorts(o)' = BoundPorts(o)
    BY DEF BoundPorts
<1>3. d \in Int /\ Registration(o)' + 3 * Cardinality(BoundPorts(o)')
                       = Registration(o) + 3 * Cardinality(BoundPorts(o)) + d
    BY <1>1, <1>2
<1>4. \A q : q # "ctl" => (q \in Users(o)' <=> q \in Users(o))
    BY CtlMoves
<1>5. ("ctl" \in Users(o)' <=> CtlUses(o)') /\ ("ctl" \in Users(o) <=> CtlUses(o))
    BY UsersMembers, UsersPrime
<1>6. fb'[o].refcnt = fb[o].refcnt + OneIf("ctl" \in Users(o)') - OneIf("ctl" \in Users(o)) + d
    BY <1>5 DEF OneIf
<1> HIDE DEF d
<1>7. QED
    BY <1>3, <1>4, <1>6, Recount

(* A step of RM keeps the invariant if it changes the counts by what the   *)
(* command and the registration take and give back.                        *)
LEMMA CtlStep ==
    ASSUME Inv, NEW L, Touch(L), L \subseteq {"ctl"},
           UNCHANGED <<fblmap, given, idp_counter, sk, rx, next, app>>,
           ctl' \in CtlRec, ctl'.fb # NULL <=> ctl'.pc # "idle", CtlInv',
           \A o \in Fblock :
               fb'[o].refcnt = fb[o].refcnt + OneIf(CtlUses(o)') - OneIf(CtlUses(o))
                                   + (OneIf(Known(o) \/ InPut(o)') - OneIf(Known(o) \/ InPut(o)))
    PROVE  Inv'
<1>1. TypeInv'
    BY DEF Inv, TypeInv, Touch, Blocks
<1>2. ArgInv'
    BY DEF Inv, ArgInv
<1>3. Steady
    BY TouchSteady DEF Inv, TableInv
<1>4. TableInv' /\ OwnInv'
    BY <1>3, SteadyTables DEF Inv
<1>5. RcuInv'
    <2>1. \A c \in Cpu : rx'[c].fb = rx[c].fb /\ c \notin L
        BY ReaderAssumption
    <2>2. QED
        BY <2>1, TouchRcu DEF Inv
<1>6. RefsExact'
    <2> SUFFICES ASSUME NEW o \in Fblock, Exists(o)' PROVE Exact(o)'
        BY DEF RefsExact, Exact
    <2>1. Exists(o) /\ Exact(o)
        BY <1>3 DEF Steady, Exists, Inv, RefsExact, Exact
    <2>2. fb[o].idp \in given /\ (fblmap[fb[o].idp] = o <=> Known(o))
        <3>1. fb[o].idp \in given
            BY <2>1 DEF Inv, TableInv
        <3>2. fblmap[fb[o].idp] = o => Known(o)
            BY <3>1, NullAssumption, KnownIffLeads DEF Inv
        <3>3. QED
            BY <3>1, <3>2 DEF Known
    <2>3. Registration(o) = OneIf(Known(o) \/ InPut(o))
        BY <2>2, RegistrationFields DEF Inv, TypeInv, OneIf
    <2>4. Registration(o)' = OneIf(Known(o) \/ InPut(o)')
        BY <2>2, RegistrationPrime DEF Touch, SameId, OneIf
    <2>5. fb'[o].refcnt = fb[o].refcnt + OneIf(CtlUses(o)') - OneIf(CtlUses(o))
                              + (Registration(o)' - Registration(o))
        BY <2>3, <2>4
    <2>6. fb'[o].port = fb[o].port
        BY DEF Touch
    <2>7. QED
        BY <1>1, <2>1, <2>5, <2>6, CtlExact DEF Inv
<1>7. QED
    BY <1>1, <1>2, <1>4, <1>5, <1>6 DEF Inv

(* A command under way has a block. *)
LEMMA CtlPointer ==
    ASSUME Inv, ctl.pc # "idle"
    PROVE  ctl.fb \in Fblock /\ ctl \in CtlRec
BY DEF Inv, ArgInv, TypeInv, CtlRec

(* RM finds its block in fblmap. *)
LEMMA RmLookupStep ==
    ASSUME Inv, RmLookup
    PROVE  Inv'
<1>1. PICK i \in given : fblmap[i] # NULL /\ ctl' = At("get", fblmap[i])
    BY DEF RmLookup
<1>2. /\ ctl.pc = "idle" /\ fb' = fb
      /\ UNCHANGED <<fblmap, given, idp_counter, sk, rx, next, app>>
    BY DEF RmLookup, table, packets
<1>3. fblmap[i] \in Fblock /\ Known(fblmap[i])
    BY <1>1, KnownIffLeads DEF Inv
<1>4. ctl' \in CtlRec /\ ctl'.pc = "get" /\ ctl'.fb = fblmap[i]
    BY <1>1, <1>3, AtType, AtFields DEF CtlPC
<1>5. Known(ctl.fb)'
    BY <1>2, <1>3, <1>4 DEF Known
<1>6. CtlInv'
    BY <1>4, <1>5 DEF CtlInv
<1>7. Touch({}) /\ \A o \in Fblock : fb'[o].refcnt = fb[o].refcnt
    BY <1>2, NoTouch DEF Inv
<1>8. \A o \in Fblock : /\ ~CtlUses(o)' /\ ~CtlUses(o) /\ ~InPut(o) /\ ~InPut(o)'
                        /\ fb[o].refcnt \in Int
    BY <1>2, <1>4, FieldTypes DEF CtlUses, InPut, Inv, TypeInv, Blocks
<1>9. \A o \in Fblock :
          fb'[o].refcnt = fb[o].refcnt + OneIf(CtlUses(o)') - OneIf(CtlUses(o))
                              + (OneIf(Known(o) \/ InPut(o)') - OneIf(Known(o) \/ InPut(o)))
    BY <1>7, <1>8 DEF OneIf
<1>10. QED
    BY <1>1, <1>2, <1>4, <1>6, <1>7, <1>9, CtlStep

(* RM takes its reference. *)
LEMMA RmGetStep ==
    ASSUME Inv, RmGet
    PROVE  Inv'
<1> DEFINE o == ctl.fb
<1>1. /\ ctl.pc = "get" /\ fb' = RcuReadUnlock(Get(fb, o, 1), "ctl") /\ ctl' = At("check", o)
      /\ UNCHANGED <<fblmap, given, idp_counter, sk, rx, next, app>>
    BY DEF RmGet, table, packets
<1>2. o \in Fblock
    BY <1>1, CtlPointer
<1>3. ctl' \in CtlRec /\ ctl'.pc = "check" /\ ctl'.fb = o
    BY <1>1, <1>2, AtType, AtFields DEF CtlPC
<1>4. Touch({"ctl"}) /\ Counted(o, 1)
    BY <1>1, <1>2, GetUnlockTouch DEF Inv
<1>5. CtlInv'
    <2>1. fb'[o].factory => Known(o)
        BY <1>1, <1>2, <1>4 DEF Inv, CtlInv, Touch, SameId
    <2>2. Known(o) => Known(ctl.fb)'
        BY <1>1, <1>2, <1>3, <1>4 DEF Touch, Known, SameId
    <2>3. QED
        BY <1>3, <2>1, <2>2 DEF CtlInv
<1>6. \A x \in Fblock : /\ (CtlUses(x)' <=> x = o) /\ ~CtlUses(x) /\ ~InPut(x) /\ ~InPut(x)'
                        /\ fb[x].refcnt \in Int
    BY <1>1, <1>3, FieldTypes DEF CtlUses, InPut, Inv, TypeInv, Blocks
<1>7. \A x \in Fblock :
          fb'[x].refcnt = fb[x].refcnt + OneIf(CtlUses(x)') - OneIf(CtlUses(x))
                              + (OneIf(Known(x) \/ InPut(x)') - OneIf(Known(x) \/ InPut(x)))
    BY <1>4, <1>6 DEF OneIf, Counted
<1>8. o # NULL
    BY <1>2, NullAssumption
<1>9. QED
    BY <1>1, <1>3, <1>4, <1>5, <1>7, <1>8, CtlStep

(* RM looks at the factory and at the count. *)
LEMMA RmCheckStep ==
    ASSUME Inv, RmCheck
    PROVE  Inv'
<1> DEFINE o == ctl.fb
<1>1. /\ ctl.pc = "check" /\ Exists(o) /\ fb' = fb
      /\ \/ ctl' = At("delete", o) /\ fb[o].factory /\ fb[o].refcnt <= 2
         \/ ctl' = At("end", o)
      /\ UNCHANGED <<fblmap, given, idp_counter, sk, rx, next, app>>
    BY DEF RmCheck, table, packets
<1>2. o \in Fblock
    BY <1>1, CtlPointer
<1>3. /\ ctl' \in CtlRec /\ ctl'.fb = o
      /\ \/ ctl'.pc = "delete" /\ fb[o].factory /\ fb[o].refcnt <= 2
         \/ ctl'.pc = "end"
    BY <1>1, <1>2, AtType, AtFields DEF CtlPC
<1>4. Touch({}) /\ \A x \in Fblock : fb'[x].refcnt = fb[x].refcnt
    BY <1>1, NoTouch DEF Inv
<1>5. ASSUME fb[o].factory, fb[o].refcnt <= 2 PROVE Known(o) /\ BoundPorts(o) = {}
    <2>1. Known(o)
        BY <1>1, <1>5 DEF Inv, CtlInv
    <2>2. "ctl" \in Users(o) /\ Exact(o)
        BY <1>1, <1>2, UsersMembers DEF Inv, CtlUses, RefsExact, Exact
    <2>3. /\ fb[o].refcnt >= Registration(o) + 3 * Cardinality(BoundPorts(o)) + 1
          /\ BoundPorts(o) # {} => Cardinality(BoundPorts(o)) >= 1
        BY <1>2, <2>2, AtLeast
    <2>4. /\ Registration(o) \in {0, 1} /\ Cardinality(BoundPorts(o)) \in Nat
          /\ fb[o].refcnt \in Int
        BY <1>2, Counts, FieldTypes DEF Inv, TypeInv, Blocks
    <2>5. BoundPorts(o) = {}
        BY <1>5, <2>3, <2>4
    <2>6. QED
        BY <2>1, <2>5
<1>6. CtlInv'
    <2>1. ctl'.pc = "delete" => Known(ctl.fb)' /\ BoundPorts(ctl.fb)' = {} /\ fb'[ctl'.fb].factory
        BY <1>1, <1>3, <1>5 DEF Known, BoundPorts
    <2>2. QED
        BY <1>3, <2>1 DEF CtlInv
<1>7. \A x \in Fblock : /\ CtlUses(x)' <=> CtlUses(x)
                        /\ ~InPut(x) /\ ~InPut(x)' /\ fb[x].refcnt \in Int
    BY <1>1, <1>3, FieldTypes DEF CtlUses, InPut, Inv, TypeInv, Blocks
<1>8. \A x \in Fblock :
          fb'[x].refcnt = fb[x].refcnt + OneIf(CtlUses(x)') - OneIf(CtlUses(x))
                              + (OneIf(Known(x) \/ InPut(x)') - OneIf(Known(x) \/ InPut(x)))
    BY <1>4, <1>7 DEF OneIf
<1>9. o # NULL
    BY <1>2, NullAssumption
<1>10. QED
    BY <1>1, <1>3, <1>4, <1>6, <1>8, <1>9, CtlStep

(* The two references that RM puts. *)
LEMMA RmPutStep ==
    ASSUME Inv, RmPut \/ RmEnd
    PROVE  Inv'
<1> DEFINE o == ctl.fb
<1>1. /\ Exists(o) /\ fb' = Put(fb, o, 1)
      /\ UNCHANGED <<fblmap, given, idp_counter, sk, rx, next, app>>
      /\ \/ ctl.pc = "put" /\ ctl' = At("end", o)
         \/ ctl.pc = "end" /\ ctl' = Done
    BY DEF RmPut, RmEnd, MayPut, table, packets
<1>2. o \in Fblock /\ o # NULL
    BY <1>1, CtlPointer, NullAssumption
<1>3. /\ ctl' \in CtlRec
      /\ \/ ctl.pc = "put" /\ ctl'.pc = "end" /\ ctl'.fb = o
         \/ ctl.pc = "end" /\ ctl'.pc = "idle" /\ ctl'.fb = NULL
    BY <1>1, <1>2, AtType, AtFields DEF CtlPC
<1>4. "ctl" \in Users(o)
    BY <1>1, <1>2, UsersMembers DEF Inv, CtlUses
<1>5. Touch({}) /\ Counted(o, -1)
    BY <1>1, <1>2, <1>4, PutTouch DEF Inv
<1>6. CtlInv'
    BY <1>3 DEF CtlInv
<1>7. ASSUME NEW x \in Fblock
      PROVE  fb'[x].refcnt = fb[x].refcnt + OneIf(CtlUses(x)') - OneIf(CtlUses(x))
                              + (OneIf(Known(x) \/ InPut(x)') - OneIf(Known(x) \/ InPut(x)))
    <2>1. fb[x].refcnt \in Int
        BY FieldTypes DEF Inv, TypeInv, Blocks
    <2>2. CASE x # o
        <3>1. ~CtlUses(x)' /\ ~CtlUses(x) /\ ~InPut(x)' /\ ~InPut(x)
            BY <1>3, <2>2 DEF CtlUses, InPut
        <3>2. QED
            BY <1>5, <2>1, <2>2, <3>1 DEF OneIf, Counted
    <2>3. CASE x = o /\ ctl.pc = "put"
        <3>1. CtlUses(x)' /\ CtlUses(x) /\ ~InPut(x)' /\ InPut(x) /\ ~Known(x)
            BY <1>3, <2>3 DEF CtlUses, InPut, Inv, CtlInv, Known
        <3>2. QED
            BY <1>5, <2>1, <2>3, <3>1 DEF OneIf, Counted
    <2>4. CASE x = o /\ ctl.pc = "end"
        <3>1. ~CtlUses(x)' /\ CtlUses(x) /\ ~InPut(x)' /\ ~InPut(x)
            BY <1>2, <1>3, <2>4 DEF CtlUses, InPut
        <3>2. QED
            BY <1>5, <2>1, <2>4, <3>1 DEF OneIf, Counted
    <2>5. QED
        BY <1>1, <2>2, <2>3, <2>4
<1>8. ctl'.fb # NULL <=> ctl'.pc # "idle"
    BY <1>2, <1>3
<1>9. QED
    BY <1>1, <1>3, <1>5, <1>6, <1>7, <1>8, CtlStep

(* What is in fblmap, for a block that exists. *)
LEMMA KnownIffFound ==
    ASSUME Inv, NEW o \in Fblock, Exists(o)
    PROVE  fb[o].idp \in given /\ fb[o].idp \in Idp /\ (fblmap[fb[o].idp] = o <=> Known(o))
<1>1. fb[o].idp \in given /\ given \subseteq Idp
    BY DEF Inv, TableInv, TypeInv
<1>2. fblmap[fb[o].idp] = o => Known(o)
    BY <1>1, NullAssumption, KnownIffLeads DEF Inv
<1>3. QED
    BY <1>1, <1>2 DEF Known

(* __unregister_fblock_namespace takes a block out of fblmap. *)
LEMMA RmDeleteStep ==
    ASSUME Inv, RmDelete
    PROVE  Inv'
<1> DEFINE o == ctl.fb
           i == fb[o].idp
<1>1. /\ ctl.pc = "delete" /\ Exists(o) /\ fblmap' = [fblmap EXCEPT ![i] = NULL]
      /\ ctl' = At("put", o) /\ UNCHANGED <<given, idp_counter, fb, sk, rx, next, app>>
    BY DEF RmDelete, packets
<1>2. o \in Fblock /\ o # NULL
    BY <1>1, CtlPointer, NullAssumption
<1>3. ctl' \in CtlRec /\ ctl'.pc = "put" /\ ctl'.fb = o
    BY <1>1, <1>2, AtType, AtFields DEF CtlPC
<1>4. Known(o) /\ fb[o].factory /\ i \in given /\ i \in Idp
    BY <1>1, <1>2, KnownIffFound DEF Inv, CtlInv
<1>5. /\ fblmap' \in [Idp -> Fblock \cup {NULL}] /\ fblmap'[i] = NULL
      /\ \A j \in Idp : j # i => fblmap'[j] = fblmap[j]
    BY <1>1, <1>4 DEF Inv, TypeInv
<1>6. TypeInv'
    BY <1>1, <1>3, <1>5 DEF Inv, TypeInv
<1>7. ArgInv'
    BY <1>1, <1>2, <1>3 DEF Inv, ArgInv
<1>8. TableInv'
    <2>1. ASSUME NEW j \in given PROVE j <= idp_counter /\ (fblmap'[j] # NULL => Leads(j)')
        <3>1. j \in Idp
            BY DEF Inv, TypeInv
        <3>2. QED
            BY <1>1, <1>5, <3>1 DEF Inv, TableInv, Leads
    <2>2. QED
        BY <1>1, <2>1 DEF Inv, TableInv, Exists
<1>9. \A x \in Fblock : Exists(x) /\ x # o =>
          (fblmap'[fb[x].idp] = x <=> fblmap[fb[x].idp] = x)
    <2> SUFFICES ASSUME NEW x \in Fblock, Exists(x), x # o
                 PROVE  fblmap'[fb[x].idp] = x <=> fblmap[fb[x].idp] = x
        OBVIOUS
    <2>1. fb[x].idp \in Idp /\ x # NULL
        BY KnownIffFound, NullAssumption
    <2>2. CASE fb[x].idp = i
        BY <1>4, <1>5, <2>1, <2>2 DEF Known
    <2>3. CASE fb[x].idp # i
        BY <1>5, <2>1, <2>3
    <2>4. QED
        BY <2>2, <2>3
<1>10. OwnInv'
    <2>1. ASSUME NEW k \in Sock, sk[k].fb # NULL
          PROVE  Known(sk[k].fb)' /\ fb[sk[k].fb].netfb_rx = "pflana"
        <3>1. sk[k].fb \in Fblock /\ Known(sk[k].fb) /\ fb[sk[k].fb].netfb_rx = "pflana"
            BY <2>1 DEF Inv, OwnInv, TypeInv, SockRec
        <3>2. sk[k].fb # o /\ Exists(sk[k].fb)
            BY <1>2, <1>4, <3>1 DEF Inv, OwnInv, Known, Exists
        <3>3. QED
            BY <1>1, <1>9, <3>1, <3>2 DEF Known
    <2>2. QED
        BY <1>1, <2>1 DEF Inv, OwnInv
<1>11. CtlInv'
    BY <1>1, <1>2, <1>3, <1>4, <1>5 DEF CtlInv
<1>12. RcuInv'
    BY <1>1 DEF Inv, RcuInv
<1>13. RefsExact'
    <2> SUFFICES ASSUME NEW x \in Fblock, Exists(x) PROVE Exact(x)'
        BY <1>1 DEF RefsExact, Exact, Exists
    <2>1. Exact(x) /\ fb[x].refcnt \in Int
        BY FieldTypes DEF Inv, RefsExact, Exact, TypeInv, Blocks
    <2>2. Registration(x) = IF fblmap[fb[x].idp] = x \/ InPut(x) THEN 1 ELSE 0
        BY RegistrationFields DEF Inv, TypeInv
    <2>3. Registration(x)' = IF fblmap'[fb[x].idp] = x \/ InPut(x)' THEN 1 ELSE 0
        BY <1>1, <1>3, RegistrationPrime
    <2>4. Registration(x)' = Registration(x)
        <3>1. CASE x = o
            BY <1>3, <1>4, <2>2, <2>3, <3>1 DEF InPut, Known
        <3>2. CASE x # o
            BY <1>1, <1>3, <1>9, <2>2, <2>3, <3>2 DEF InPut
        <3>3. QED
            BY <3>1, <3>2
    <2>5. CtlUses(x)' <=> CtlUses(x)
        BY <1>1, <1>3 DEF CtlUses
    <2>6. Registration(x) \in {0, 1}
        BY Counts
    <2>7. fb'[x].refcnt = fb[x].refcnt + OneIf(CtlUses(x)') - OneIf(CtlUses(x))
                              + (Registration(x)' - Registration(x))
        BY <1>1, <2>1, <2>4, <2>5, <2>6 DEF OneIf
    <2>8. QED
        BY <1>1, <1>6, <2>1, <2>7, CtlExact DEF Inv
<1>14. QED
    BY <1>6, <1>7, <1>8, <1>10, <1>11, <1>12, <1>13 DEF Inv

(* The factory of a new block is set. *)
LEMMA AddFactoryStep ==
    ASSUME Inv, AddFactory
    PROVE  Inv'
<1> DEFINE o == ctl.fb
           t == [fb[o] EXCEPT !.factory = TRUE]
<1>1. /\ ctl.pc = "factory" /\ fb' = [fb EXCEPT ![o].factory = TRUE] /\ ctl' = Done
      /\ UNCHANGED <<fblmap, given, idp_counter, sk, rx, next, app>>
    BY DEF AddFactory, table, packets
<1>2. o \in Fblock /\ fb \in Blocks /\ fb[o] \in FblockRec
    BY <1>1, CtlPointer DEF Inv, TypeInv, Blocks
<1>3. ctl' \in CtlRec /\ ctl'.pc = "idle" /\ ctl'.fb = NULL
    BY <1>1, <1>2, AtType, AtFields DEF CtlPC
<1>4. /\ t \in FblockRec /\ t.factory /\ t.mem = fb[o].mem /\ t.refcnt = fb[o].refcnt
      /\ t.idp = fb[o].idp /\ t.netfb_rx = fb[o].netfb_rx /\ t.port = fb[o].port
      /\ t.waits = fb[o].waits
    BY <1>2 DEF FblockRec
<1>5. fb' = [fb EXCEPT ![o] = t]
    BY <1>1, <1>2 DEF Blocks
<1> HIDE DEF t
<1>6. /\ fb' \in Blocks /\ \A x \in Fblock : x # o => fb'[x].factory = fb[x].factory
      /\ \A x \in Fblock : /\ fb'[x].mem = fb[x].mem /\ fb'[x].refcnt = fb[x].refcnt
                           /\ fb'[x].idp = fb[x].idp /\ fb'[x].netfb_rx = fb[x].netfb_rx
                           /\ fb'[x].port = fb[x].port /\ fb'[x].waits = fb[x].waits
    BY <1>2, <1>4, <1>5 DEF Blocks
<1>7. fb[o].mem = "used" /\ fb[o].netfb_rx = "dummy"
    BY <1>1 DEF Inv, CtlInv, Known
<1>8. TypeInv' /\ ArgInv' /\ CtlInv'
    BY <1>1, <1>3, <1>6 DEF Inv, TypeInv, ArgInv, CtlInv, Blocks
<1>9. TableInv'
    <2>1. \A i \in given : fblmap[i] # NULL => fblmap[i] \in Fblock /\ Leads(i)
        BY KnownIffLeads DEF Inv, TableInv
    <2>2. \A i \in given : fblmap'[i] # NULL => Leads(i)'
        BY <1>1, <1>6, <2>1 DEF Leads
    <2>3. QED
        BY <1>1, <1>6, <2>2 DEF Inv, TableInv, Exists
<1>10. OwnInv'
    <2>1. \A k \in Sock : sk[k].fb # NULL =>
              sk[k].fb \in Fblock /\ Known(sk[k].fb) /\ fb[sk[k].fb].netfb_rx = "pflana"
        BY DEF Inv, OwnInv, TypeInv, SockRec
    <2>2. \A k \in Sock : sk'[k].fb # NULL => Known(sk[k].fb)' /\ fb'[sk'[k].fb].netfb_rx = "pflana"
        BY <1>1, <1>6, <2>1 DEF Known
    <2>3. \A x \in Fblock : fb'[x].factory => fb'[x].netfb_rx = "dummy"
        BY <1>6, <1>7 DEF Inv, OwnInv
    <2>4. QED
        BY <1>1, <2>2, <2>3 DEF Inv, OwnInv
<1>11. RcuInv'
    <2>1. \A c \in Cpu : rx[c].fb # NULL => rx[c].fb \in Fblock
        BY DEF Inv, TypeInv, RxRec
    <2>2. QED
        BY <1>1, <1>6, <1>7, <2>1 DEF Inv, RcuInv
<1>12. RefsExact'
    <2> SUFFICES ASSUME NEW x \in Fblock, Exists(x) PROVE Exact(x)'
        BY <1>6 DEF RefsExact, Exact, Exists
    <2>1. Exact(x) /\ fb[x].refcnt \in Int
        BY FieldTypes DEF Inv, RefsExact, Exact, TypeInv, Blocks
    <2>2. ~CtlUses(x) /\ ~CtlUses(x)' /\ ~InPut(x) /\ ~InPut(x)'
        BY <1>1, <1>3 DEF CtlUses, InPut
    <2>3. Registration(x)' = Registration(x)
        BY <1>1, <1>3, <1>6, <2>2, RegistrationFields, RegistrationPrime DEF Inv, TypeInv
    <2>4. Registration(x) \in {0, 1}
        BY Counts
    <2>5. fb'[x].refcnt = fb[x].refcnt + OneIf(CtlUses(x)') - OneIf(CtlUses(x))
                              + (Registration(x)' - Registration(x))
        BY <1>6, <2>1, <2>2, <2>3, <2>4 DEF OneIf
    <2>6. QED
        BY <1>1, <1>6, <1>8, <2>1, <2>5, CtlExact DEF Inv
<1>13. QED
    BY <1>8, <1>9, <1>10, <1>11, <1>12 DEF Inv
-----------------------------------------------------------------------------
(* Bindings *)

(* g is f, but that the egress port of o1 is v1, the ingress port of o2 is *)
(* v2, and n references to both are added.                                 *)
Ported(g, f, o1, o2, v1, v2, n) ==
    /\ g \in Blocks
    /\ \A x \in Fblock : x # o1 /\ x # o2 => g[x] = f[x]
    /\ \A x \in Fblock : SameId(g[x], f[x]) /\ SameMem(g[x], f[x])
    /\ g[o1].refcnt = f[o1].refcnt + n /\ g[o2].refcnt = f[o2].refcnt + n
    /\ g[o1].port["egress"]  = v1 /\ g[o1].port["ingress"] = f[o1].port["ingress"]
    /\ g[o2].port["ingress"] = v2 /\ g[o2].port["egress"]  = f[o2].port["egress"]

SetPorts(f, o1, o2, v1, v2) ==
    [f EXCEPT ![o1].port["egress"] = v1, ![o2].port["ingress"] = v2]

(* Writing two ports changes nothing else. *)
LEMMA PortsSet ==
    ASSUME NEW f \in Blocks, NEW o1 \in Fblock, NEW o2 \in Fblock, o1 # o2,
           NEW v1 \in 0 .. MaxIdp, NEW v2 \in 0 .. MaxIdp
    PROVE  Ported(SetPorts(f, o1, o2, v1, v2), f, o1, o2, v1, v2, 0)
<1> DEFINE p1 == [f[o1].port EXCEPT !["egress"] = v1]
           p2 == [f[o2].port EXCEPT !["ingress"] = v2]
           t1 == [f[o1] EXCEPT !.port = p1]
           t2 == [f[o2] EXCEPT !.port = p2]
           g  == SetPorts(f, o1, o2, v1, v2)
<1>1. f[o1] \in FblockRec /\ f[o2] \in FblockRec /\ f[o1].refcnt \in Int /\ f[o2].refcnt \in Int
    BY FieldTypes
<1>2. /\ p1 \in [Path -> 0 .. MaxIdp] /\ p2 \in [Path -> 0 .. MaxIdp]
      /\ p1["egress"]  = v1 /\ p1["ingress"] = f[o1].port["ingress"]
      /\ p2["ingress"] = v2 /\ p2["egress"]  = f[o2].port["egress"]
    <2>1. f[o1].port \in [Path -> 0 .. MaxIdp] /\ f[o2].port \in [Path -> 0 .. MaxIdp]
        BY FieldTypes
    <2>2. QED
        BY <2>1 DEF Path
<1>3. f \in [Fblock -> FblockRec]
    BY DEF Blocks
<1>4. g = [[f EXCEPT ![o1] = t1] EXCEPT ![o2] = t2]
    BY <1>3 DEF SetPorts
<1> HIDE DEF p1, p2, g
<1>5. /\ t1 \in FblockRec /\ SameId(t1, f[o1]) /\ SameMem(t1, f[o1])
      /\ t1.refcnt = f[o1].refcnt /\ t1.port = p1
      /\ t2 \in FblockRec /\ SameId(t2, f[o2]) /\ SameMem(t2, f[o2])
      /\ t2.refcnt = f[o2].refcnt /\ t2.port = p2
    BY <1>1, <1>2 DEF FblockRec, SameId, SameMem
<1> HIDE DEF t1, t2
<1>6. g \in Blocks /\ g[o1] = t1 /\ g[o2] = t2
      /\ \A x \in Fblock : x # o1 /\ x # o2 => g[x] = f[x]
    BY <1>3, <1>4, <1>5 DEF Blocks
<1>7. \A x \in Fblock : SameId(f[x], f[x]) /\ SameMem(f[x], f[x])
    BY DEF SameId, SameMem
<1>8. Ported(g, f, o1, o2, v1, v2, 0)
    BY <1>1, <1>2, <1>5, <1>6, <1>7 DEF Ported
<1>9. QED
    BY <1>8 DEF g

(* fblock_bind *)
LEMMA BindFields ==
    ASSUME NEW f \in Blocks, NEW o1 \in Fblock, NEW o2 \in Fblock, o1 # o2,
           NEW v1 \in 0 .. MaxIdp, NEW v2 \in 0 .. MaxIdp
    PROVE  Ported(SetPorts(Get(Get(f, o1, Refs), o2, Refs), o1, o2, v1, v2), f, o1, o2, v1, v2, 3)
<1> DEFINE f1 == Get(f, o1, 3)
           f2 == Get(f1, o2, 3)
           g  == SetPorts(f2, o1, o2, v1, v2)
<1>1. /\ f1 \in Blocks /\ \A x \in Fblock : x # o1 => f1[x] = f[x]
      /\ f1[o1].refcnt = f[o1].refcnt + 3
      /\ SameId(f1[o1], f[o1]) /\ SameMem(f1[o1], f[o1]) /\ f1[o1].port = f[o1].port
    BY GetFields
<1>2. SetPorts(Get(Get(f, o1, Refs), o2, Refs), o1, o2, v1, v2) = g
    BY DEF Refs
<1> HIDE DEF f1
<1>3. /\ f2 \in Blocks /\ \A x \in Fblock : x # o2 => f2[x] = f1[x]
      /\ f2[o2].refcnt = f1[o2].refcnt + 3
      /\ SameId(f2[o2], f1[o2]) /\ SameMem(f2[o2], f1[o2]) /\ f2[o2].port = f1[o2].port
    BY <1>1, GetFields
<1> HIDE DEF f2
<1>4. Ported(g, f2, o1, o2, v1, v2, 0)
    BY <1>3, PortsSet
<1> HIDE DEF g
<1>5. \A x \in Fblock : SameId(f2[x], f[x]) /\ SameMem(f2[x], f[x])
    BY <1>1, <1>3 DEF SameId, SameMem
<1>6. /\ f2[o1].port = f[o1].port /\ f2[o2].port = f[o2].port
      /\ f2[o1].refcnt = f[o1].refcnt + 3 /\ f2[o2].refcnt = f[o2].refcnt + 3
      /\ \A x \in Fblock : x # o1 /\ x # o2 => f2[x] = f[x]
      /\ f[o1].refcnt \in Int /\ f[o2].refcnt \in Int
    BY <1>1, <1>3, FieldTypes
<1>7. Ported(g, f, o1, o2, v1, v2, 3)
    BY <1>4, <1>5, <1>6 DEF Ported, SameId, SameMem
<1>8. QED
    BY <1>2, <1>7

(* put_fblock where others still have references *)
LEMMA PutNotLast ==
    ASSUME NEW f \in Blocks, NEW o \in Fblock, NEW n \in Int, ~LastRef(f, o, n)
    PROVE  /\ Put(f, o, n) \in Blocks
           /\ \A x \in Fblock : x # o => Put(f, o, n)[x] = f[x]
           /\ Put(f, o, n)[o].refcnt = f[o].refcnt - n
           /\ SameId(Put(f, o, n)[o], f[o]) /\ SameMem(Put(f, o, n)[o], f[o])
           /\ Put(f, o, n)[o].port = f[o].port
BY PutFields

(* fblock_unbind, where it does not put the last references. *)
LEMMA UnboundFields ==
    ASSUME NEW f \in Blocks, NEW o1 \in Fblock, NEW o2 \in Fblock, o1 # o2,
           ~LastRef(f, o1, 3), ~LastRef(f, o2, 3)
    PROVE  Ported(Unbound(f, o1, o2), f, o1, o2, IDP_UNKNOWN, IDP_UNKNOWN, -3)
<1> DEFINE g == SetPorts(f, o1, o2, IDP_UNKNOWN, IDP_UNKNOWN)
           h == Put(g, o1, 3)
           u == Put(h, o2, 3)
<1>1. IDP_UNKNOWN \in 0 .. MaxIdp
    BY IdpAssumption DEF IDP_UNKNOWN
<1>2. Ported(g, f, o1, o2, IDP_UNKNOWN, IDP_UNKNOWN, 0)
    BY <1>1, PortsSet
<1>3. Unbound(f, o1, o2) = u
    BY DEF Unbound, Refs, SetPorts
<1> HIDE DEF g
<1>4. /\ ~LastRef(g, o1, 3) /\ ~LastRef(g, o2, 3) /\ g \in Blocks
      /\ f[o1].refcnt \in Int /\ f[o2].refcnt \in Int
      /\ g[o1].refcnt = f[o1].refcnt /\ g[o2].refcnt = f[o2].refcnt
    <2>1. f[o1].refcnt \in Int /\ f[o2].refcnt \in Int
        BY FieldTypes
    <2>2. /\ g[o1].refcnt = f[o1].refcnt /\ g[o2].refcnt = f[o2].refcnt
          /\ g[o1].factory = f[o1].factory /\ g[o2].factory = f[o2].factory /\ g \in Blocks
        BY <1>2, <2>1 DEF Ported, SameId
    <2>3. QED
        BY <2>1, <2>2 DEF LastRef
<1>5. /\ h \in Blocks /\ \A x \in Fblock : x # o1 => h[x] = g[x]
      /\ h[o1].refcnt = g[o1].refcnt - 3 /\ SameId(h[o1], g[o1]) /\ SameMem(h[o1], g[o1])
      /\ h[o1].port = g[o1].port
    BY <1>4, PutNotLast
<1> HIDE DEF h
<1>6. ~LastRef(h, o2, 3)
    BY <1>4, <1>5 DEF LastRef
<1>7. /\ u \in Blocks /\ \A x \in Fblock : x # o2 => u[x] = h[x]
      /\ u[o2].refcnt = h[o2].refcnt - 3 /\ SameId(u[o2], h[o2]) /\ SameMem(u[o2], h[o2])
      /\ u[o2].port = h[o2].port
    BY <1>5, <1>6, PutNotLast
<1> HIDE DEF u
<1>8. /\ u[o1].refcnt = f[o1].refcnt + (-3) /\ u[o2].refcnt = f[o2].refcnt + (-3)
      /\ u[o1].port = g[o1].port /\ u[o2].port = g[o2].port
      /\ \A x \in Fblock : x # o1 /\ x # o2 => u[x] = g[x]
    BY <1>4, <1>5, <1>7
<1>9. \A x \in Fblock : SameId(u[x], f[x]) /\ SameMem(u[x], f[x])
    <2>1. \A x \in Fblock : SameId(u[x], g[x]) /\ SameMem(u[x], g[x])
        BY <1>5, <1>7 DEF SameId, SameMem
    <2>2. QED
        BY <1>2, <2>1 DEF Ported, SameId, SameMem
<1>10. Ported(u, f, o1, o2, IDP_UNKNOWN, IDP_UNKNOWN, -3)
    BY <1>2, <1>7, <1>8, <1>9 DEF Ported
<1>11. QED
    BY <1>3, <1>10

(* One port more, one port less. *)
LEMMA PortAdd ==
    ASSUME NEW o \in Fblock, NEW d \in Path,
           fb'[o].port[d] # IDP_UNKNOWN, fb[o].port[d] = IDP_UNKNOWN,
           \A e \in Path : e # d => fb'[o].port[e] = fb[o].port[e]
    PROVE  Cardinality(BoundPorts(o)') = Cardinality(BoundPorts(o)) + 1
<1> DEFINE B == BoundPorts(o)
           C == BoundPorts(o)'
<1>1. C = B \cup {d} /\ d \notin B
    BY DEF BoundPorts
<1>2. IsFiniteSet(B)
    BY Counts
<1> HIDE DEF B, C
<1>3. Cardinality(B \cup {d}) = IF d \in B THEN Cardinality(B) ELSE Cardinality(B) + 1
    BY <1>2, FS_AddElement
<1>4. Cardinality(C) = Cardinality(B) + 1
    BY <1>1, <1>3
<1>5. QED
    BY <1>4 DEF B, C

(* A port that is released counts one less. *)
LEMMA PortDrop ==
    ASSUME NEW o \in Fblock, NEW d \in Path,
           fb'[o].port[d] = IDP_UNKNOWN, fb[o].port[d] # IDP_UNKNOWN,
           \A e \in Path : e # d => fb'[o].port[e] = fb[o].port[e]
    PROVE  Cardinality(BoundPorts(o)') = Cardinality(BoundPorts(o)) + (-1)
<1> DEFINE B == BoundPorts(o)
           C == BoundPorts(o)'
<1>1. C = B \ {d} /\ d \in B
    BY DEF BoundPorts
<1>2. IsFiniteSet(B) /\ Cardinality(B) \in Nat
    BY Counts
<1> HIDE DEF B, C
<1>3. Cardinality(B \ {d}) = IF d \in B THEN Cardinality(B) - 1 ELSE Cardinality(B)
    BY <1>2, FS_RemoveElement
<1>4. Cardinality(C) = Cardinality(B) + (-1)
    BY <1>1, <1>2, <1>3
<1>5. QED
    BY <1>4 DEF B, C

(* Counts stay exact when a port is bound or released for three references *)
(* and the reader r moves.                                                 *)
LEMMA PortExact ==
    ASSUME NEW o \in Fblock, Exact(o), NEW r, NEW n \in Int, NEW m \in Int,
           \A q : q # r => (q \in Users(o)' <=> q \in Users(o)),
           Registration(o)' = Registration(o),
           Cardinality(BoundPorts(o)') = Cardinality(BoundPorts(o)) + n,
           m = OneIf(r \in Users(o)') - OneIf(r \in Users(o)),
           fb'[o].refcnt = fb[o].refcnt + m + 3 * n, fb[o].refcnt \in Int
    PROVE  Exact(o)'
<1>1. Registration(o) \in {0, 1} /\ Cardinality(BoundPorts(o)) \in Nat
    BY Counts
<1>2. Registration(o)' + 3 * Cardinality(BoundPorts(o)')
          = Registration(o) + 3 * Cardinality(BoundPorts(o)) + 3 * n
    BY <1>1
<1>3. OneIf(r \in Users(o)') \in Int /\ OneIf(r \in Users(o)) \in Int
    BY DEF OneIf
<1>4. fb'[o].refcnt = fb[o].refcnt + OneIf(r \in Users(o)') - OneIf(r \in Users(o)) + 3 * n
    BY <1>3
<1>5. 3 * n \in Int
    OBVIOUS
<1>6. QED
    BY <1>2, <1>4, <1>5, Recount

(* The ports of a block after its end of the binding has changed. *)
LEMMA PortedPorts ==
    ASSUME NEW o1 \in Fblock, NEW o2 \in Fblock, o1 # o2, NEW v1, NEW v2, NEW m, NEW g, NEW f,
           Ported(g, f, o1, o2, v1, v2, m), NEW x \in Fblock, NEW d \in Path
    PROVE  g[x].port[d] = IF x = o1 /\ d = "egress" THEN v1
                          ELSE IF x = o2 /\ d = "ingress" THEN v2 ELSE f[x].port[d]
<1>1. d = "egress" \/ d = "ingress"
    BY DEF Path
<1>2. CASE x = o1
    BY <1>1, <1>2 DEF Ported
<1>3. CASE x = o2
    BY <1>1, <1>3 DEF Ported
<1>4. CASE x # o1 /\ x # o2
    BY <1>4 DEF Ported
<1>5. QED
    BY <1>2, <1>3, <1>4

(* The number of bound ports goes up or down by one at both ends of a      *)
(* binding and nowhere else.                                               *)
LEMMA PortedCounts ==
    ASSUME NEW o1 \in Fblock, NEW o2 \in Fblock, o1 # o2, NEW v1, NEW v2, NEW m, NEW g,
           NEW n \in {1, -1}, Ported(g, fb, o1, o2, v1, v2, m),
           \A x \in Fblock : fb'[x].port = g[x].port,
           n = 1 => /\ fb[o1].port["egress"] = IDP_UNKNOWN /\ fb[o2].port["ingress"] = IDP_UNKNOWN
                    /\ v1 # IDP_UNKNOWN /\ v2 # IDP_UNKNOWN,
           n = -1 => /\ fb[o1].port["egress"] # IDP_UNKNOWN /\ fb[o2].port["ingress"] # IDP_UNKNOWN
                     /\ v1 = IDP_UNKNOWN /\ v2 = IDP_UNKNOWN
    PROVE  /\ Cardinality(BoundPorts(o1)') = Cardinality(BoundPorts(o1)) + n
           /\ Cardinality(BoundPorts(o2)') = Cardinality(BoundPorts(o2)) + n
<1>1. "egress" \in Path /\ "ingress" \in Path /\ \A d \in Path : d = "egress" \/ d = "ingress"
    BY DEF Path
<1>2. /\ \A e \in Path : e # "egress" => fb'[o1].port[e] = fb[o1].port[e]
      /\ \A e \in Path : e # "ingress" => fb'[o2].port[e] = fb[o2].port[e]
      /\ fb'[o1].port["egress"] = v1 /\ fb'[o2].port["ingress"] = v2
    BY <1>1 DEF Ported
<1>3. CASE n = 1
    BY <1>1, <1>2, <1>3, PortAdd
<1>4. CASE n = -1
    BY <1>1, <1>2, <1>4, PortDrop
<1>5. QED
    BY <1>3, <1>4

(* Binding and unbinding keep the counts exact at both ends. *)
LEMMA PortedRefs ==
    ASSUME Inv, TypeInv', NEW o1 \in Fblock, NEW o2 \in Fblock, o1 # o2, NEW v1, NEW v2,
           NEW n \in {1, -1}, Ported(fb', fb, o1, o2, v1, v2, 3 * n),
           n = 1 => /\ fb[o1].port["egress"] = IDP_UNKNOWN /\ fb[o2].port["ingress"] = IDP_UNKNOWN
                    /\ v1 # IDP_UNKNOWN /\ v2 # IDP_UNKNOWN,
           n = -1 => /\ fb[o1].port["egress"] # IDP_UNKNOWN /\ fb[o2].port["ingress"] # IDP_UNKNOWN
                     /\ v1 = IDP_UNKNOWN /\ v2 = IDP_UNKNOWN,
           UNCHANGED <<fblmap, rx, ctl, app>>
    PROVE  RefsExact'
<1>0. \A x \in Fblock : SameId(fb'[x], fb[x]) /\ SameMem(fb'[x], fb[x])
    BY DEF Ported
<1> SUFFICES ASSUME NEW x \in Fblock, Exists(x) PROVE Exact(x)'
    BY <1>0 DEF RefsExact, Exact, Exists, SameMem
<1>1. Exact(x) /\ fb[x].refcnt \in Int
    BY FieldTypes DEF Inv, RefsExact, Exact, TypeInv, Blocks
<1>2. Registration(x)' = Registration(x)
    BY <1>0 DEF Registration, SameId
<1>3. \A q : q # "ctl" => (q \in Users(x)' <=> q \in Users(x))
    BY CtlMoves DEF Inv
<1>4. "ctl" \in Users(x)' <=> "ctl" \in Users(x)
    BY UsersMembers, UsersPrime DEF Inv, CtlUses
<1>5. 0 = OneIf("ctl" \in Users(x)') - OneIf("ctl" \in Users(x))
    BY <1>4 DEF OneIf
<1>6. CASE x = o1 \/ x = o2
    <2>1. Cardinality(BoundPorts(x)') = Cardinality(BoundPorts(x)) + n
        BY <1>6, PortedCounts
    <2>2. fb'[x].refcnt = fb[x].refcnt + 0 + 3 * n
        BY <1>1, <1>6 DEF Ported
    <2>3. QED
        BY <1>1, <1>2, <1>3, <1>5, <2>1, <2>2, PortExact
<1>7. CASE x # o1 /\ x # o2
    <2>1. fb'[x] = fb[x]
        BY <1>7 DEF Ported
    <2>2. BoundPorts(x)' = BoundPorts(x) /\ Cardinality(BoundPorts(x)) \in Nat
        BY <2>1, Counts DEF BoundPorts
    <2>3. /\ Cardinality(BoundPorts(x)') = Cardinality(BoundPorts(x)) + 0
          /\ fb'[x].refcnt = fb[x].refcnt + 0 + 3 * 0
        BY <1>1, <2>1, <2>2
    <2>4. QED
        BY <1>1, <1>2, <1>3, <1>5, <2>3, PortExact
<1>8. QED
    BY <1>6, <1>7

(* Nobody's memory changes. *)
LEMMA PortedRcu ==
    ASSUME Inv, NEW o1, NEW o2, NEW v1, NEW v2, NEW m,
           Ported(fb', fb, o1, o2, v1, v2, m), rx' = rx
    PROVE  RcuInv'
<1>1. \A c \in Cpu : rx[c].fb # NULL => rx[c].fb \in Fblock
    BY DEF Inv, TypeInv, RxRec
<1>2. \A x \in Fblock : /\ fb'[x].mem = fb[x].mem /\ fb'[x].waits = fb[x].waits
                        /\ fb'[x].factory = fb[x].factory
    BY DEF Ported, SameId, SameMem
<1>3. QED
    BY <1>1, <1>2 DEF Inv, RcuInv

(* userctl_bind *)
LEMMA BindStep ==
    ASSUME Inv, NEW i \in given, NEW j \in given, Bind(i, j)
    PROVE  Inv'
<1> DEFINE o1 == fblmap[i]
           o2 == fblmap[j]
<1>1. /\ ctl.pc = "idle" /\ i < j /\ o1 # NULL /\ o2 # NULL
      /\ fb[o1].port["egress"] = IDP_UNKNOWN /\ fb[o2].port["ingress"] = IDP_UNKNOWN
      /\ fb' = SetPorts(Get(Get(fb, o1, Refs), o2, Refs), o1, o2, j, i)
      /\ UNCHANGED <<fblmap, given, idp_counter, sk, rx, next, ctl, app>>
    BY DEF Bind, table, packets, SetPorts
<1>2. /\ o1 \in Fblock /\ Known(o1) /\ fb[o1].idp = i
      /\ o2 \in Fblock /\ Known(o2) /\ fb[o2].idp = j
    BY <1>1, KnownIffLeads DEF Inv
<1>3. /\ i \in 0 .. MaxIdp /\ j \in 0 .. MaxIdp /\ i # j
      /\ i # IDP_UNKNOWN /\ j # IDP_UNKNOWN
    <2>1. i \in 1 .. MaxIdp /\ j \in 1 .. MaxIdp
        BY DEF Inv, TypeInv, Idp
    <2>2. QED
        BY <1>1, <2>1, IdpAssumption DEF IDP_UNKNOWN
<1>4. o1 # o2 /\ fb \in Blocks
    BY <1>2, <1>3 DEF Inv, TypeInv, Blocks
<1> HIDE DEF o1, o2
<1>5. Ported(fb', fb, o1, o2, j, i, 3)
    BY <1>1, <1>2, <1>3, <1>4, BindFields
<1>6. /\ fb' \in Blocks
      /\ \A x \in Fblock : /\ fb'[x].idp = fb[x].idp /\ fb'[x].mem = fb[x].mem
                           /\ fb'[x].netfb_rx = fb[x].netfb_rx /\ fb'[x].factory = fb[x].factory
    BY <1>5 DEF Ported, SameId, SameMem
<1>7. TypeInv' /\ ArgInv' /\ CtlInv'
    BY <1>1, <1>6 DEF Inv, TypeInv, ArgInv, CtlInv, Blocks
<1>8. ASSUME NEW x \in Fblock
      PROVE  /\ \A d \in Path : fb'[x].port[d] \in given \cup {IDP_UNKNOWN}
             /\ Exists(x)' => fb'[x].idp \in given
             /\ fb'[x].port["egress"] # IDP_UNKNOWN /\ Exists(x)'
                    => fb'[x].port["egress"] # fb'[x].idp
    <2>1. /\ \A d \in Path : fb[x].port[d] \in given \cup {IDP_UNKNOWN}
          /\ Exists(x) => fb[x].idp \in given
          /\ fb[x].port["egress"] # IDP_UNKNOWN /\ Exists(x)
                 => fb[x].port["egress"] # fb[x].idp
          /\ "egress" \in Path
        BY DEF Inv, TableInv, Path
    <2>2. \A d \in Path : fb'[x].port[d] = IF x = o1 /\ d = "egress" THEN j
                          ELSE IF x = o2 /\ d = "ingress" THEN i ELSE fb[x].port[d]
        BY <1>2, <1>4, <1>5, PortedPorts
    <2>3. \A d \in Path : fb'[x].port[d] \in given \cup {IDP_UNKNOWN}
        BY <2>1, <2>2
    <2>4. Exists(x)' => fb'[x].idp \in given
        BY <1>6, <2>1 DEF Exists
    <2>5. ASSUME fb'[x].port["egress"] # IDP_UNKNOWN, Exists(x)'
          PROVE  fb'[x].port["egress"] # fb'[x].idp
        <3>1. Exists(x) /\ fb'[x].idp = fb[x].idp
            BY <1>6, <2>5 DEF Exists
        <3>2. CASE x = o1
            BY <1>2, <1>3, <2>1, <2>2, <3>1, <3>2
        <3>3. CASE x # o1
            BY <2>1, <2>2, <2>5, <3>1, <3>3
        <3>4. QED
            BY <3>2, <3>3
    <2>6. QED
        BY <2>3, <2>4, <2>5
<1>9. TableInv'
    <2>1. \A l \in given : fblmap[l] # NULL => fblmap[l] \in Fblock /\ Leads(l)
        BY KnownIffLeads DEF Inv, TableInv
    <2>2. \A l \in given : fblmap'[l] # NULL => Leads(l)'
        BY <1>1, <1>6, <2>1 DEF Leads
    <2>3. QED
        BY <1>1, <1>8, <2>2 DEF Inv, TableInv
<1>10. OwnInv'
    <2>1. \A k \in Sock : sk[k].fb # NULL =>
              sk[k].fb \in Fblock /\ Known(sk[k].fb) /\ fb[sk[k].fb].netfb_rx = "pflana"
        BY DEF Inv, OwnInv, TypeInv, SockRec
    <2>2. \A k \in Sock : sk'[k].fb # NULL => Known(sk[k].fb)' /\ fb'[sk'[k].fb].netfb_rx = "pflana"
        BY <1>1, <1>6, <2>1 DEF Known
    <2>3. \A x \in Fblock : fb'[x].factory => fb'[x].netfb_rx = "dummy"
        BY <1>6 DEF Inv, OwnInv
    <2>4. QED
        BY <1>1, <2>2, <2>3 DEF Inv, OwnInv
<1>11. RcuInv'
    BY <1>1, <1>5, PortedRcu
<1>12. RefsExact'
    <2>1. Ported(fb', fb, o1, o2, j, i, 3 * 1)
        BY <1>5
    <2>2. QED
        BY <1>1, <1>2, <1>3, <1>4, <1>7, <2>1, PortedRefs
<1>13. QED
    BY <1>7, <1>9, <1>10, <1>11, <1>12 DEF Inv

(* A block with a bound port that is found in fblmap, or that somebody     *)
(* uses, has more than the three references of the port.                   *)
LEMMA ThreeNotLast ==
    ASSUME Inv, NEW o \in Fblock, Exists(o), NEW d \in Path, fb[o].port[d] # IDP_UNKNOWN,
           Known(o) \/ Users(o) # {}
    PROVE  fb[o].refcnt >= 4 /\ ~LastRef(fb, o, 3)
<1>1. Exact(o)
    BY DEF Inv, RefsExact, Exact
<1>2. /\ \A r \in Users(o) : fb[o].refcnt >= Registration(o) + 3 * Cardinality(BoundPorts(o)) + 1
      /\ fb[o].refcnt >= Registration(o) + 3 * Cardinality(BoundPorts(o))
      /\ Cardinality(BoundPorts(o)) >= 1
    <2>1. BoundPorts(o) # {}
        BY DEF BoundPorts
    <2>2. QED
        BY <1>1, <2>1, AtLeast
<1>3. /\ Cardinality(BoundPorts(o)) \in Nat /\ fb[o].refcnt \in Int /\ Registration(o) \in {0, 1}
      /\ Known(o) => Registration(o) = 1
    BY Counts, FieldTypes DEF Inv, TypeInv, Blocks, Known, Registration
<1>4. fb[o].refcnt >= 4
    <2>1. CASE Known(o)
        BY <1>2, <1>3, <2>1
    <2>2. CASE Users(o) # {}
        BY <1>2, <1>3, <2>2
    <2>3. QED
        BY <2>1, <2>2
<1>5. QED
    BY <1>3, <1>4 DEF LastRef

(* userctl_unbind *)
LEMMA UnbindStep ==
    ASSUME Inv, NEW i \in given, NEW j \in given, Unbind(i, j)
    PROVE  Inv'
<1> DEFINE o1 == fblmap[i]
           o2 == fblmap[j]
<1>1. /\ ctl.pc = "idle" /\ o1 # NULL /\ o2 # NULL /\ Bound(o1, o2)
      /\ fb' = Unbound(fb, o1, o2)
      /\ UNCHANGED <<fblmap, given, idp_counter, sk, rx, next, ctl, app>>
    BY DEF Unbind, table, packets
<1>2. /\ o1 \in Fblock /\ Known(o1) /\ fb[o1].idp = i
      /\ o2 \in Fblock /\ Known(o2) /\ fb[o2].idp = j
    BY <1>1, KnownIffLeads DEF Inv
<1>3. i # IDP_UNKNOWN /\ j # IDP_UNKNOWN
    <2>1. i \in 1 .. MaxIdp /\ j \in 1 .. MaxIdp
        BY DEF Inv, TypeInv, Idp
    <2>2. QED
        BY <2>1, IdpAssumption DEF IDP_UNKNOWN
<1> HIDE DEF o1, o2
<1>4. /\ fb[o1].port["egress"] = j /\ fb[o2].port["ingress"] = i
      /\ Exists(o1) /\ Exists(o2) /\ "egress" \in Path /\ "ingress" \in Path
    BY <1>1, <1>2 DEF Bound, Known, Exists, Path
<1>5. o1 # o2 /\ fb \in Blocks
    BY <1>2, <1>3, <1>4 DEF Inv, TypeInv, TableInv, Blocks
<1>6. ~LastRef(fb, o1, 3) /\ ~LastRef(fb, o2, 3)
    BY <1>2, <1>3, <1>4, ThreeNotLast
<1>7. Ported(fb', fb, o1, o2, IDP_UNKNOWN, IDP_UNKNOWN, -3)
    BY <1>1, <1>2, <1>5, <1>6, UnboundFields
<1>8. fb' \in Blocks /\ \A x \in Fblock : SameId(fb'[x], fb[x]) /\ SameMem(fb'[x], fb[x])
    BY <1>7 DEF Ported
<1>9. TypeInv' /\ ArgInv' /\ CtlInv'
    BY <1>1, <1>8 DEF Inv, TypeInv, ArgInv, CtlInv, Blocks
<1>10. Steady
    <2>1. \A x \in Fblock, d \in Path : fb'[x].port[d] \in {fb[x].port[d], IDP_UNKNOWN}
        BY <1>2, <1>5, <1>7, PortedPorts
    <2>2. \A x \in Fblock : (Known(x) => fb'[x].mem = "used") /\ (fb'[x].mem # "free" => Exists(x))
        BY <1>8 DEF Known, Exists, SameMem
    <2>3. \A s \in Skb : next'[s] \in given \cup {IDP_UNKNOWN}
        BY <1>1 DEF Inv, TableInv
    <2>4. QED
        BY <1>1, <1>8, <2>1, <2>2, <2>3 DEF Steady
<1>11. TableInv' /\ OwnInv'
    BY <1>10, SteadyTables DEF Inv
<1>12. RcuInv'
    BY <1>1, <1>7, PortedRcu
<1>13. RefsExact'
    <2>1. Ported(fb', fb, o1, o2, IDP_UNKNOWN, IDP_UNKNOWN, 3 * (-1))
        BY <1>7
    <2>2. QED
        BY <1>1, <1>2, <1>3, <1>4, <1>5, <1>9, <2>1, PortedRefs
<1>14. QED
    BY <1>9, <1>11, <1>12, <1>13 DEF Inv
-----------------------------------------------------------------------------
(* Steps of the process of a socket *)
SockEffect(k) ==
    /\ app' \in [Sock -> AppRec]
    /\ sk' \in [Sock -> SockRec]
    /\ \A l \in Sock : l # k => app'[l] = app[l]
    /\ \A l \in Sock : sk'[l].fb = sk[l].fb
    /\ UNCHANGED <<fblmap, given, idp_counter, rx, next, ctl>>

AppArgs(t) == (t.fb # NULL <=> t.pc \in {"get", "unbind"}) /\ t.pc # "none"

(* What such a step leaves alone. *)
LEMMA SockArgs ==
    ASSUME Inv, NEW k \in Sock, SockEffect(k), AppArgs(app'[k]), app[k].pc # "none", fb' \in Blocks
    PROVE  TypeInv' /\ ArgInv'
<1>1. TypeInv'
    BY DEF Inv, TypeInv, SockEffect, Blocks
<1>2. \A l \in Sock : /\ app'[l].fb # NULL <=> app'[l].pc \in {"get", "unbind"}
                      /\ sk'[l].fb # NULL <=> app'[l].pc # "none"
    BY DEF Inv, ArgInv, SockEffect, AppArgs
<1>3. QED
    BY <1>1, <1>2 DEF Inv, ArgInv, SockEffect

(* A step of a release keeps the invariant if it changes the counts by     *)
(* what the process takes and gives back.                                  *)
LEMMA SockStep ==
    ASSUME Inv, NEW k \in Sock, NEW L, Touch(L), SockEffect(k), L \subseteq {k},
           AppArgs(app'[k]), app[k].pc # "none",
           \A o \in Fblock :
               fb'[o].refcnt = fb[o].refcnt + OneIf(SockUses(k, o)') - OneIf(SockUses(k, o))
    PROVE  Inv'
<1>1. TypeInv' /\ ArgInv'
    BY SockArgs DEF Touch
<1>2. Steady
    <2>1. /\ \A s \in Skb : next'[s] \in given \cup {IDP_UNKNOWN}
          /\ UNCHANGED <<fblmap, given, idp_counter>>
          /\ \A l \in Sock : sk'[l].fb = sk[l].fb
        BY DEF Inv, TableInv, SockEffect
    <2>2. QED
        BY <2>1, TouchSteady
<1>3. TableInv' /\ OwnInv'
    BY <1>2, SteadyTables DEF Inv
<1>4. CtlInv'
    BY <1>2, SteadyCtl DEF Inv, SockEffect
<1>5. RcuInv'
    <2>1. \A c \in Cpu : rx'[c].fb = rx[c].fb /\ c \notin L
        BY ReaderAssumption DEF SockEffect
    <2>2. QED
        BY <2>1, TouchRcu DEF Inv
<1>6. RefsExact'
    <2> SUFFICES ASSUME NEW o \in Fblock, Exists(o)' PROVE Exact(o)'
        BY DEF RefsExact, Exact
    <2>1. Exact(o)
        BY <1>2 DEF Steady, Exists, Inv, RefsExact, Exact
    <2>2. \A q : q # k => (q \in Users(o)' <=> q \in Users(o))
        BY <1>1, SockMoves DEF Inv, SockEffect
    <2>3. Registration(o)' = Registration(o) /\ BoundPorts(o)' = BoundPorts(o)
        BY <1>2 DEF Registration, BoundPorts, Steady, SameId, Touch, SockEffect
    <2>4. (k \in Users(o)' <=> SockUses(k, o)') /\ (k \in Users(o) <=> SockUses(k, o))
        BY <1>1, UsersMembers, UsersPrime DEF Inv
    <2>5. fb'[o].refcnt = fb[o].refcnt + OneIf(k \in Users(o)') - OneIf(k \in Users(o))
        BY <2>4 DEF OneIf
    <2>6. QED
        BY <2>1, <2>2, <2>3, <2>5, ReaderExact DEF Inv
<1>7. QED
    BY <1>1, <1>3, <1>4, <1>5, <1>6 DEF Inv

(* The process has no reference before and after the step. *)
LEMMA SockWalks ==
    ASSUME Inv, NEW k \in Sock, Touch({}), SockEffect(k),
           AppArgs(app'[k]), app[k].pc # "none", app[k].pc # "unbind", app'[k].pc # "unbind",
           \A o \in Fblock : fb'[o].refcnt = fb[o].refcnt
    PROVE  Inv'
<1>1. ASSUME NEW o \in Fblock
      PROVE  fb'[o].refcnt = fb[o].refcnt + OneIf(SockUses(k, o)') - OneIf(SockUses(k, o))
    <2>1. fb[o].refcnt \in Int /\ ~SockUses(k, o)' /\ ~SockUses(k, o)
        BY FieldTypes DEF Inv, TypeInv, Blocks, SockUses
    <2>2. QED
        BY <2>1 DEF OneIf
<1>2. QED
    BY <1>1, SockStep

(* The place of a socket's process is written. *)
LEMMA AppUpdate ==
    ASSUME TypeInv, NEW k \in Sock, NEW t \in AppRec, app' = [app EXCEPT ![k] = t]
    PROVE  /\ app' \in [Sock -> AppRec] /\ app'[k] = t
           /\ \A l \in Sock : l # k => app'[l] = app[l]
BY DEF TypeInv

(* A socket's process goes on. *)
LEMMA AppPcUpdate ==
    ASSUME TypeInv, NEW k \in Sock, NEW p \in AppPC, app' = [app EXCEPT ![k].pc = p]
    PROVE  /\ app' \in [Sock -> AppRec]
           /\ app'[k].pc = p /\ app'[k].fb = app[k].fb /\ app'[k].dir = app[k].dir
           /\ \A l \in Sock : l # k => app'[l] = app[l]
<1> DEFINE t == [app[k] EXCEPT !.pc = p]
<1>1. app[k] \in AppRec
    BY DEF TypeInv
<1>2. t \in AppRec /\ t.pc = p /\ t.fb = app[k].fb /\ t.dir = app[k].dir
    BY <1>1 DEF AppRec
<1>3. app' = [app EXCEPT ![k] = t]
    BY DEF TypeInv
<1> HIDE DEF t
<1>4. QED
    BY <1>2, <1>3, AppUpdate

(* The fields of a place. *)
LEMMA StepFields ==
    ASSUME NEW p \in AppPC, NEW d \in Path, NEW o \in Fblock \cup {NULL}
    PROVE  /\ Step(p, d, o) \in AppRec
           /\ Step(p, d, o).pc = p /\ Step(p, d, o).fb = o /\ Step(p, d, o).dir = d
BY DEF Step, AppRec

(* Only the receive queue of the socket changes. *)
LEMMA SkUpdate ==
    ASSUME TypeInv, NEW k \in Sock, NEW t \in SockRec, t.fb = sk[k].fb, sk' = [sk EXCEPT ![k] = t]
    PROVE  sk' \in [Sock -> SockRec] /\ \A l \in Sock : sk'[l].fb = sk[l].fb
BY DEF TypeInv

(* lana_sk_init sets sock_self of the block. *)
LEMMA LanaSkInitStep ==
    ASSUME Inv, NEW k \in Sock, LanaSkInit(k)
    PROVE  Inv'
<1> DEFINE o == sk[k].fb
           t == [fb[o] EXCEPT !.sock = k]
<1>1. /\ app[k].pc = "init" /\ fb' = [fb EXCEPT ![o].sock = k]
      /\ app' = [app EXCEPT ![k].pc = "open"]
      /\ UNCHANGED <<fblmap, given, idp_counter, sk, rx, next, ctl>>
    BY DEF LanaSkInit, table, packets
<1>2. o \in Fblock /\ fb \in [Fblock -> FblockRec] /\ fb[o] \in FblockRec
    BY <1>1 DEF Inv, ArgInv, TypeInv, SockRec
<1>3. /\ t \in FblockRec /\ t.mem = fb[o].mem /\ t.refcnt = fb[o].refcnt
      /\ SameId(t, fb[o]) /\ t.port = fb[o].port /\ t.waits = fb[o].waits
    BY <1>2 DEF FblockRec, SameId
<1>4. fb' = [fb EXCEPT ![o] = t]
    BY <1>1, <1>2
<1> HIDE DEF t
<1>5. fb' \in Blocks /\ fb'[o] = t /\ \A x \in Fblock : x # o => fb'[x] = fb[x]
    BY <1>2, <1>3, <1>4 DEF Blocks
<1>6. Touch({}) /\ \A x \in Fblock : fb'[x].refcnt = fb[x].refcnt
    BY <1>3, <1>5 DEF Touch, SameId
<1>7. /\ app' \in [Sock -> AppRec] /\ app'[k].pc = "open" /\ app'[k].fb = app[k].fb
      /\ \A l \in Sock : l # k => app'[l] = app[l]
    BY <1>1, AppPcUpdate DEF Inv, AppPC
<1>8. AppArgs(app'[k])
    BY <1>1, <1>7 DEF Inv, ArgInv, AppArgs
<1>9. SockEffect(k)
    BY <1>1, <1>7 DEF SockEffect, Inv, TypeInv
<1>10. QED
    BY <1>1, <1>6, <1>7, <1>8, <1>9, SockWalks

(* lana_proto_recvmsg *)
LEMMA RecvmsgStep ==
    ASSUME Inv, NEW k \in Sock, Recvmsg(k)
    PROVE  Inv'
<1> DEFINE t == [sk[k] EXCEPT !.queue = Tail(sk[k].queue)]
<1>1. /\ app[k].pc = "open" /\ sk[k].queue # <<>>
      /\ sk' = [sk EXCEPT ![k].queue = Tail(sk[k].queue)]
      /\ UNCHANGED <<fblmap, given, idp_counter, fb, rx, next, ctl, app>>
    BY DEF Recvmsg, table, packets
<1>2. sk \in [Sock -> SockRec] /\ sk[k] \in SockRec /\ sk[k].queue \in Seq(Skb)
    BY DEF Inv, TypeInv, SockRec
<1>3. Tail(sk[k].queue) \in Seq(Skb)
    BY <1>1, <1>2
<1>4. t \in SockRec /\ t.fb = sk[k].fb
    BY <1>2, <1>3 DEF SockRec
<1>5. sk' = [sk EXCEPT ![k] = t]
    BY <1>1, <1>2
<1> HIDE DEF t
<1>6. sk' \in [Sock -> SockRec] /\ \A l \in Sock : sk'[l].fb = sk[l].fb
    BY <1>4, <1>5, SkUpdate DEF Inv
<1>7. SockEffect(k) /\ AppArgs(app'[k]) /\ app[k].pc # "none"
    BY <1>1, <1>6 DEF SockEffect, Inv, TypeInv, ArgInv, AppArgs
<1>8. QED
    BY <1>1, <1>7, NoTouch, SockWalks DEF Inv

(* lana_proto_close *)
LEMMA CloseStep ==
    ASSUME Inv, NEW k \in Sock, Close(k)
    PROVE  Inv'
<1> DEFINE t == [sk[k] EXCEPT !.mem = "free", !.queue = <<>>]
           a == Step("search", "ingress", NULL)
<1>1. /\ app[k].pc = "open" /\ sk' = [sk EXCEPT ![k].mem = "free", ![k].queue = <<>>]
      /\ app' = [app EXCEPT ![k] = a]
      /\ UNCHANGED <<fblmap, given, idp_counter, fb, rx, next, ctl>>
    BY DEF Close, table, packets
<1>2. sk \in [Sock -> SockRec] /\ sk[k] \in SockRec /\ <<>> \in Seq(Skb)
    BY DEF Inv, TypeInv
<1>3. t \in SockRec /\ t.fb = sk[k].fb
    BY <1>2 DEF SockRec
<1>4. sk' = [sk EXCEPT ![k] = t]
    BY <1>1, <1>2
<1> HIDE DEF t
<1>5. sk' \in [Sock -> SockRec] /\ \A l \in Sock : sk'[l].fb = sk[l].fb
    BY <1>3, <1>4, SkUpdate DEF Inv
<1>6. a \in AppRec /\ a.pc = "search" /\ a.fb = NULL
    BY StepFields DEF AppPC, Path
<1> HIDE DEF a
<1>7. app' \in [Sock -> AppRec] /\ app'[k] = a /\ \A l \in Sock : l # k => app'[l] = app[l]
    BY <1>1, <1>6, AppUpdate DEF Inv
<1>8. SockEffect(k) /\ AppArgs(app'[k])
    BY <1>1, <1>5, <1>6, <1>7 DEF SockEffect, AppArgs
<1>9. QED
    BY <1>1, <1>6, <1>7, <1>8, NoTouch, SockWalks DEF Inv

(* After a port the release has no pointer to the block behind it. *)
LEMMA AfterPortFields ==
    ASSUME NEW k
    PROVE  /\ AfterPort(k) \in AppRec /\ AfterPort(k).fb = NULL
           /\ AfterPort(k).pc \in {"search", "destroy"}
<1>1. /\ Step("search", "egress", NULL) \in AppRec
      /\ Step("search", "egress", NULL).fb = NULL /\ Step("search", "egress", NULL).pc = "search"
      /\ Step("destroy", "ingress", NULL) \in AppRec
      /\ Step("destroy", "ingress", NULL).fb = NULL /\ Step("destroy", "ingress", NULL).pc = "destroy"
    BY StepFields DEF AppPC, Path
<1>2. QED
    BY <1>1 DEF AfterPort

(* lana_sk_free looks up the block behind a port. *)
LEMMA SkFreeSearchStep ==
    ASSUME Inv, NEW k \in Sock, SkFreeSearch(k)
    PROVE  Inv'
<1>1. /\ app[k].pc = "search"
      /\ UNCHANGED <<fblmap, given, idp_counter, fb, sk, rx, next, ctl>>
    BY DEF SkFreeSearch, table, packets
<1>2. PICK i : app' = [app EXCEPT ![k] =
                         IF i # IDP_UNKNOWN /\ fblmap[i] # NULL
                         THEN Step("get", app[k].dir, fblmap[i])
                         ELSE AfterPort(k)]
                 /\ i = fb[sk[k].fb].port[app[k].dir]
    <2>1. app \in [Sock -> AppRec]
        BY DEF Inv, TypeInv
    <2>2. QED
        BY <2>1 DEF SkFreeSearch
<1>3. sk[k].fb \in Fblock /\ app[k].dir \in Path
    BY <1>1 DEF Inv, ArgInv, TypeInv, SockRec, AppRec
<1>4. i \in given \cup {IDP_UNKNOWN}
    BY <1>2, <1>3 DEF Inv, TableInv
<1>5. i # IDP_UNKNOWN => fblmap[i] \in Fblock \cup {NULL}
    BY <1>4 DEF Inv, TypeInv
<1> DEFINE a == IF i # IDP_UNKNOWN /\ fblmap[i] # NULL
                THEN Step("get", app[k].dir, fblmap[i])
                ELSE AfterPort(k)
<1>6. /\ a \in AppRec /\ AppArgs(a) /\ a.pc # "unbind"
    <2>1. CASE i # IDP_UNKNOWN /\ fblmap[i] # NULL
        <3>1. a = Step("get", app[k].dir, fblmap[i])
            BY <2>1
        <3>2. a \in AppRec /\ a.pc = "get" /\ a.fb = fblmap[i]
            BY <1>3, <1>5, <2>1, <3>1, StepFields DEF AppPC
        <3>3. QED
            BY <2>1, <3>2 DEF AppArgs
    <2>2. CASE ~(i # IDP_UNKNOWN /\ fblmap[i] # NULL)
        <3>1. a = AfterPort(k)
            BY <2>2
        <3>2. QED
            BY <3>1, AfterPortFields DEF AppArgs
    <2>3. QED
        BY <2>1, <2>2
<1>7. app' = [app EXCEPT ![k] = a]
    BY <1>2
<1> HIDE DEF a
<1>8. app' \in [Sock -> AppRec] /\ app'[k] = a /\ \A l \in Sock : l # k => app'[l] = app[l]
    BY <1>6, <1>7, AppUpdate DEF Inv
<1>9. SockEffect(k)
    BY <1>1, <1>8 DEF SockEffect, Inv, TypeInv
<1>10. QED
    BY <1>1, <1>6, <1>8, <1>9, NoTouch, SockWalks DEF Inv

(* A process that has a pointer to a block. *)
LEMMA SockPointer ==
    ASSUME Inv, NEW k \in Sock, app[k].pc \in {"get", "unbind"}
    PROVE  app[k].fb \in Fblock /\ app[k].fb # NULL /\ sk[k].fb \in Fblock
BY DEF Inv, ArgInv, TypeInv, AppRec, SockRec

(* get_bound_fblock takes its reference. *)
LEMMA SkFreeGetStep ==
    ASSUME Inv, NEW k \in Sock, SkFreeGet(k)
    PROVE  Inv'
<1> DEFINE o == app[k].fb
<1>1. /\ app[k].pc = "get" /\ fb' = RcuReadUnlock(Get(fb, o, 1), k)
      /\ app' = [app EXCEPT ![k].pc = "unbind"]
      /\ UNCHANGED <<fblmap, given, idp_counter, sk, rx, next, ctl>>
    BY DEF SkFreeGet, table, packets
<1>2. o \in Fblock /\ o # NULL
    BY <1>1, SockPointer
<1>3. Touch({k}) /\ Counted(o, 1)
    BY <1>1, <1>2, GetUnlockTouch DEF Inv
<1>4. /\ app' \in [Sock -> AppRec] /\ app'[k].pc = "unbind" /\ app'[k].fb = o
      /\ \A l \in Sock : l # k => app'[l] = app[l]
    BY <1>1, AppPcUpdate DEF Inv, AppPC
<1>5. SockEffect(k) /\ AppArgs(app'[k])
    BY <1>1, <1>2, <1>4 DEF SockEffect, AppArgs, Inv, TypeInv
<1>6. ASSUME NEW x \in Fblock
      PROVE  fb'[x].refcnt = fb[x].refcnt + OneIf(SockUses(k, x)') - OneIf(SockUses(k, x))
    <2>1. fb[x].refcnt \in Int /\ (SockUses(k, x)' <=> x = o) /\ ~SockUses(k, x)
        BY <1>1, <1>4, FieldTypes DEF Inv, TypeInv, Blocks, SockUses
    <2>2. QED
        BY <1>3, <2>1 DEF OneIf, Counted
<1>7. QED
    BY <1>1, <1>3, <1>5, <1>6, SockStep

(* lana_sk_free unbinds its block from the one it has found, if it is      *)
(* still bound to it, and puts the reference of the search.                *)
LEMMA SkFreeUnbindBound ==
    ASSUME Inv, NEW k \in Sock, NEW w \in Fblock, NEW l \in Fblock, NEW o \in Fblock,
           NEW own \in Fblock, own = sk[k].fb, o = app[k].fb, app[k].pc = "unbind",
           (w = o /\ l = own) \/ (w = own /\ l = o), Bound(w, l), Exists(o),
           fb' = Put(Unbound(fb, w, l), o, 1), app' = [app EXCEPT ![k] = AfterPort(k)],
           UNCHANGED <<fblmap, given, idp_counter, sk, rx, next, ctl>>
    PROVE  Inv'
<1>1. /\ Known(own) /\ Exists(own) /\ ~fb[own].factory /\ k \in Users(o)
    <2>1. sk[k].fb # NULL
        BY NullAssumption
    <2>2. Known(own) /\ fb[own].netfb_rx = "pflana"
        BY <2>1 DEF Inv, OwnInv
    <2>3. k \in Users(o)
        BY UsersMembers DEF Inv, SockUses
    <2>4. ~fb[own].factory
        BY <2>2 DEF Inv, OwnInv
    <2>5. QED
        BY <2>2, <2>3, <2>4 DEF Known, Exists
<1>2. /\ fb[w].port["egress"] = fb[l].idp /\ fb[l].port["ingress"] = fb[w].idp
      /\ fb[w].idp # IDP_UNKNOWN /\ fb[l].idp # IDP_UNKNOWN
      /\ fb[w].port["egress"] # IDP_UNKNOWN /\ fb[l].port["ingress"] # IDP_UNKNOWN
      /\ Exists(w) /\ Exists(l) /\ "egress" \in Path /\ "ingress" \in Path
    <2>1. Exists(w) /\ Exists(l)
        BY <1>1
    <2>2. fb[w].idp \in 1 .. MaxIdp /\ fb[l].idp \in 1 .. MaxIdp
        BY <2>1, KnownIffFound DEF Idp
    <2>3. fb[w].idp # IDP_UNKNOWN /\ fb[l].idp # IDP_UNKNOWN
        BY <2>2, IdpAssumption DEF IDP_UNKNOWN
    <2>4. QED
        BY <2>1, <2>3 DEF Bound, Path
<1>3. w # l /\ o # own /\ fb \in Blocks
    BY <1>2 DEF Inv, TableInv, TypeInv, Blocks
<1>4. ~LastRef(fb, w, 3) /\ ~LastRef(fb, l, 3) /\ fb[o].refcnt >= 4
    <2>1. CASE w = o /\ l = own
        BY <1>1, <1>2, <2>1, ThreeNotLast DEF LastRef
    <2>2. CASE w = own /\ l = o
        BY <1>1, <1>2, <2>2, ThreeNotLast DEF LastRef
    <2>3. QED
        BY <2>1, <2>2
<1> DEFINE f == Unbound(fb, w, l)
<1>5. Ported(f, fb, w, l, IDP_UNKNOWN, IDP_UNKNOWN, -3)
    BY <1>3, <1>4, UnboundFields
<1> HIDE DEF f
<1>6. /\ f \in Blocks
      /\ \A x \in Fblock : SameId(f[x], fb[x]) /\ SameMem(f[x], fb[x])
      /\ \A x \in Fblock : x # w /\ x # l => f[x] = fb[x]
      /\ f[o].refcnt = fb[o].refcnt + (-3) /\ f[own].refcnt = fb[own].refcnt + (-3)
    BY <1>5 DEF Ported
<1>7. fb' = Put(f, o, 1)
    BY DEF f
<1>8. /\ fb' \in Blocks
      /\ \A x \in Fblock : x # o => fb'[x] = f[x]
      /\ fb'[o].refcnt = f[o].refcnt - 1
      /\ SameId(fb'[o], f[o])
      /\ fb'[o].port = f[o].port
      /\ LastRef(f, o, 1) => fb'[o].mem = "rcu" /\ fb'[o].waits = Readers
      /\ ~LastRef(f, o, 1) => SameMem(fb'[o], f[o])
    <2>1. /\ Put(f, o, 1) \in Blocks
          /\ \A x \in Fblock : x # o => Put(f, o, 1)[x] = f[x]
          /\ Put(f, o, 1)[o].refcnt = f[o].refcnt - 1
          /\ SameId(Put(f, o, 1)[o], f[o])
          /\ Put(f, o, 1)[o].port = f[o].port
          /\ LastRef(f, o, 1) => Put(f, o, 1)[o].mem = "rcu" /\ Put(f, o, 1)[o].waits = Readers
          /\ ~LastRef(f, o, 1) => SameMem(Put(f, o, 1)[o], f[o])
        <3>1. f \in Blocks /\ 1 \in Int
            BY <1>6
        <3>2. QED
            BY <3>1, PutFields, Zenon
    <2>2. QED
        BY <1>7, <2>1
<1>9. LastRef(f, o, 1) => ~Known(o)
    <2>1. Exact(o)
        BY DEF Inv, RefsExact, Exact
    <2>2. BoundPorts(o) # {}
        BY <1>2 DEF BoundPorts
    <2>3. /\ fb[o].refcnt >= Registration(o) + 3 * Cardinality(BoundPorts(o)) + 1
          /\ Cardinality(BoundPorts(o)) >= 1
        BY <1>1, <2>1, <2>2, AtLeast
    <2>4. /\ Cardinality(BoundPorts(o)) \in Nat /\ fb[o].refcnt \in Int
          /\ Known(o) => Registration(o) = 1
        BY <1>3, Counts, FieldTypes DEF Known, Registration
    <2>5. Known(o) => fb[o].refcnt >= 5
        BY <2>3, <2>4
    <2>6. QED
        BY <1>6, <2>4, <2>5 DEF LastRef
<1>10. Kept({})
    <2>1. SameId(f[o], fb[o]) /\ SameMem(f[o], fb[o])
        BY <1>6
    <2>2. \A x \in Fblock : x # o =>
              SameId(fb'[x], fb[x]) /\ fb'[x].mem = fb[x].mem /\ fb'[x].waits = fb[x].waits
        BY <1>6, <1>8 DEF SameMem
    <2>3. SameId(fb'[o], fb[o])
        BY <1>8, <2>1 DEF SameId
    <2>4. CASE LastRef(f, o, 1)
        BY <1>8, <1>9, <2>2, <2>3, <2>4 DEF Kept
    <2>5. CASE ~LastRef(f, o, 1)
        <3>1. fb'[o].mem = fb[o].mem /\ fb'[o].waits = fb[o].waits
            BY <1>8, <2>1, <2>5 DEF SameMem
        <3>2. \A x \in Fblock :
                  SameId(fb'[x], fb[x]) /\ fb'[x].mem = fb[x].mem /\ fb'[x].waits = fb[x].waits
            BY <2>2, <2>3, <3>1
        <3>3. QED
            BY <3>2 DEF Kept
    <2>6. QED
        BY <2>4, <2>5
<1>11. /\ app' \in [Sock -> AppRec] /\ app'[k] = AfterPort(k)
       /\ \A i \in Sock : i # k => app'[i] = app[i]
    BY AfterPortFields, AppUpdate DEF Inv
<1>12. SockEffect(k) /\ AppArgs(app'[k]) /\ app'[k].pc # "unbind"
    BY <1>11, AfterPortFields DEF SockEffect, AppArgs, Inv, TypeInv
<1>13. TypeInv' /\ ArgInv'
    BY <1>8, <1>12, SockArgs
<1>14. \A x \in Fblock : fb'[x].port = f[x].port
    BY <1>8
<1>15. Steady
    <2>1. \A x \in Fblock, d \in Path : f[x].port[d] \in {fb[x].port[d], IDP_UNKNOWN}
        BY <1>3, <1>5, PortedPorts
    <2>2. \A x \in Fblock : /\ SameId(fb'[x], fb[x]) /\ (Known(x) => fb'[x].mem = "used")
                            /\ (fb'[x].mem # "free" => Exists(x))
        BY <1>10 DEF Kept, Known, Exists
    <2>3. \A s \in Skb : next'[s] \in given \cup {IDP_UNKNOWN}
        BY DEF Inv, TableInv
    <2>4. QED
        BY <1>14, <2>1, <2>2, <2>3 DEF Steady
<1>16. TableInv' /\ OwnInv' /\ CtlInv'
    BY <1>15, SteadyTables, SteadyCtl DEF Inv
<1>17. RcuInv'
    BY <1>10, KeptRcu DEF Inv
<1>18. RefsExact'
    <2> SUFFICES ASSUME NEW x \in Fblock, Exists(x)' PROVE Exact(x)'
        BY DEF RefsExact, Exact
    <2>1. Exact(x) /\ fb[x].refcnt \in Int
        BY <1>3, <1>15, FieldTypes DEF Steady, Exists, Inv, RefsExact, Exact
    <2>2. \A q : q # k => (q \in Users(x)' <=> q \in Users(x))
        BY <1>12, <1>13, SockMoves DEF Inv, SockEffect
    <2>3. Registration(x)' = Registration(x)
        BY <1>15 DEF Registration, Steady, SameId
    <2>4. (k \in Users(x)' <=> SockUses(k, x)') /\ (k \in Users(x) <=> SockUses(k, x))
        BY <1>13, UsersMembers, UsersPrime DEF Inv
    <2>5. ~SockUses(k, x)' /\ (SockUses(k, x) <=> x = o)
        BY <1>12 DEF SockUses
    <2>6. CASE x = o
        <3>1. -1 = OneIf(k \in Users(x)') - OneIf(k \in Users(x))
            BY <2>4, <2>5, <2>6 DEF OneIf
        <3>2. Cardinality(BoundPorts(x)') = Cardinality(BoundPorts(x)) + (-1)
            BY <1>2, <1>3, <1>5, <1>14, <2>6, PortedCounts
        <3>3. fb'[x].refcnt = fb[x].refcnt + (-1) + 3 * (-1)
            BY <1>6, <1>8, <2>1, <2>6
        <3>4. QED
            BY <2>1, <2>2, <2>3, <3>1, <3>2, <3>3, PortExact
    <2>7. CASE x = own
        <3> DEFINE m == 0
                   n == -1
        <3>1. m = OneIf(k \in Users(x)') - OneIf(k \in Users(x))
            BY <1>3, <2>4, <2>5, <2>7 DEF OneIf
        <3>2. Cardinality(BoundPorts(x)') = Cardinality(BoundPorts(x)) + n
            BY <1>2, <1>3, <1>5, <1>14, <2>7, PortedCounts
        <3>3. m \in Int /\ n \in Int /\ fb'[x].refcnt = fb[x].refcnt + m + 3 * n
            BY <1>3, <1>6, <1>8, <2>1, <2>7
        <3> HIDE DEF m, n
        <3>4. QED
            BY <2>1, <2>2, <2>3, <3>1, <3>2, <3>3, PortExact
    <2>8. CASE x # o /\ x # own
        <3> DEFINE m == 0
        <3>1. m \in Int /\ m = OneIf(k \in Users(x)') - OneIf(k \in Users(x))
            BY <2>4, <2>5, <2>8 DEF OneIf
        <3>2. fb'[x] = fb[x]
            BY <1>6, <1>8, <2>8
        <3>3. BoundPorts(x)' = BoundPorts(x) /\ Cardinality(BoundPorts(x)) \in Nat
            BY <3>2, Counts DEF BoundPorts
        <3>4. Cardinality(BoundPorts(x)') = Cardinality(BoundPorts(x)) + m
            BY <3>3
        <3>5. fb'[x].refcnt = fb[x].refcnt + m + 3 * m
            BY <2>1, <3>2
        <3> HIDE DEF m
        <3>6. QED
            BY <2>1, <2>2, <2>3, <3>1, <3>4, <3>5, PortExact
    <2>9. QED
        BY <2>6, <2>7, <2>8
<1>19. QED
    BY <1>13, <1>16, <1>17, <1>18 DEF Inv

(* A port of the released socket is unbound, if it is still bound. *)
LEMMA SkFreeUnbindStep ==
    ASSUME Inv, NEW k \in Sock, SkFreeUnbind(k)
    PROVE  Inv'
<1> DEFINE own == sk[k].fb
           o == app[k].fb
           w == IF app[k].dir = "ingress" THEN o ELSE own
           l == IF app[k].dir = "ingress" THEN own ELSE o
<1>1. /\ app[k].pc = "unbind" /\ Exists(o) /\ app' = [app EXCEPT ![k] = AfterPort(k)]
      /\ fb' = Put(IF Bound(w, l) THEN Unbound(fb, w, l) ELSE fb, o, 1)
      /\ UNCHANGED <<fblmap, given, idp_counter, sk, rx, next, ctl>>
    BY DEF SkFreeUnbind, MayPut, table, packets
<1>2. o \in Fblock /\ own \in Fblock /\ w \in Fblock /\ l \in Fblock
      /\ ((w = o /\ l = own) \/ (w = own /\ l = o))
    BY <1>1, SockPointer
<1> HIDE DEF w, l
<1>3. CASE Bound(w, l)
    <2>1. fb' = Put(Unbound(fb, w, l), o, 1)
        BY <1>1, <1>3
    <2>2. QED
        BY <1>1, <1>2, <1>3, <2>1, SkFreeUnbindBound
<1>4. CASE ~Bound(w, l)
    <2>1. fb' = Put(fb, o, 1)
        BY <1>1, <1>4
    <2>2. k \in Users(o)
        BY <1>1, <1>2, UsersMembers DEF Inv, SockUses
    <2>3. Touch({}) /\ Counted(o, -1)
        BY <1>1, <1>2, <2>1, <2>2, PutTouch DEF Inv
    <2>4. /\ app' \in [Sock -> AppRec] /\ app'[k] = AfterPort(k)
          /\ \A i \in Sock : i # k => app'[i] = app[i]
        BY <1>1, AfterPortFields, AppUpdate DEF Inv
    <2>5. SockEffect(k) /\ AppArgs(app'[k]) /\ app'[k].pc # "unbind"
        BY <1>1, <2>4, AfterPortFields DEF SockEffect, AppArgs, Inv, TypeInv
    <2>6. ASSUME NEW x \in Fblock
          PROVE  fb'[x].refcnt = fb[x].refcnt + OneIf(SockUses(k, x)') - OneIf(SockUses(k, x))
        <3>1. fb[x].refcnt \in Int /\ ~SockUses(k, x)' /\ (SockUses(k, x) <=> x = o)
            BY <1>1, <2>5, FieldTypes DEF Inv, TypeInv, Blocks, SockUses
        <3>2. QED
            BY <2>3, <3>1 DEF OneIf, Counted
    <2>7. QED
        BY <1>1, <2>3, <2>5, <2>6, SockStep
<1>5. QED
    BY <1>3, <1>4

(* fb_pflana_destroy_fblock takes the block of the socket out of fblmap    *)
(* and frees it at once.                                                   *)
LEMMA DestroyStep ==
    ASSUME Inv, NEW k \in Sock, Destroy(k)
    PROVE  Inv'
<1> DEFINE own == sk[k].fb
           i == fb[own].idp
           t == [fb[own] EXCEPT !.mem = "free"]
           u == [sk[k] EXCEPT !.fb = NULL]
           a == Step("none", "ingress", NULL)
<1>1. /\ app[k].pc = "destroy" /\ fblmap' = [fblmap EXCEPT ![i] = NULL]
      /\ fb' = [fb EXCEPT ![own].mem = "free"] /\ sk' = [sk EXCEPT ![k].fb = NULL]
      /\ app' = [app EXCEPT ![k] = a]
      /\ UNCHANGED <<given, idp_counter, rx, next, ctl>>
    BY DEF Destroy, packets
<1>2. /\ own \in Fblock /\ own # NULL /\ fb \in [Fblock -> FblockRec] /\ fb[own] \in FblockRec
      /\ sk \in [Sock -> SockRec] /\ sk[k] \in SockRec
    BY <1>1 DEF Inv, ArgInv, TypeInv, SockRec
<1>3. Known(own) /\ Exists(own) /\ fb[own].netfb_rx = "pflana" /\ ~fb[own].factory
    <2>1. Known(own) /\ fb[own].netfb_rx = "pflana"
        BY <1>2 DEF Inv, OwnInv
    <2>2. QED
        BY <1>2, <2>1 DEF Inv, OwnInv, Known, Exists
<1>4. i \in given /\ i \in Idp /\ fblmap[i] = own
    BY <1>2, <1>3, KnownIffFound DEF Known
<1>5. /\ t \in FblockRec /\ t.mem = "free" /\ SameId(t, fb[own]) /\ t.port = fb[own].port
    BY <1>2 DEF FblockRec, SameId
<1>6. fb' = [fb EXCEPT ![own] = t]
    BY <1>1, <1>2
<1>7. u \in SockRec /\ u.fb = NULL
    BY <1>2 DEF SockRec
<1>8. sk' = [sk EXCEPT ![k] = u]
    BY <1>1, <1>2
<1>9. a \in AppRec /\ a.pc = "none" /\ a.fb = NULL
    BY StepFields DEF AppPC, Path
<1> HIDE DEF t, u, a
<1>10. fb' \in Blocks /\ fb'[own] = t /\ \A x \in Fblock : x # own => fb'[x] = fb[x]
    BY <1>2, <1>5, <1>6 DEF Blocks
<1>11. /\ sk' \in [Sock -> SockRec] /\ sk'[k].fb = NULL
       /\ \A l \in Sock : l # k => sk'[l] = sk[l]
    BY <1>2, <1>7, <1>8
<1>12. app' \in [Sock -> AppRec] /\ app'[k] = a /\ \A l \in Sock : l # k => app'[l] = app[l]
    BY <1>1, <1>9, AppUpdate DEF Inv
<1>13. /\ fblmap' \in [Idp -> Fblock \cup {NULL}] /\ fblmap'[i] = NULL
       /\ \A j \in Idp : j # i => fblmap'[j] = fblmap[j]
    BY <1>1, <1>4 DEF Inv, TypeInv
<1> HIDE DEF i
<1>14. TypeInv'
    BY <1>1, <1>10, <1>11, <1>12, <1>13 DEF Inv, TypeInv, Blocks
<1>15. ArgInv'
    BY <1>1, <1>9, <1>11, <1>12 DEF Inv, ArgInv
<1>16. \A x \in Fblock : Known(x) /\ x # own => Known(x)'
    <2> SUFFICES ASSUME NEW x \in Fblock, Known(x), x # own PROVE Known(x)'
        OBVIOUS
    <2>1. Exists(x) /\ fblmap[fb[x].idp] = x /\ fb[x].mem = "used"
        BY DEF Known, Exists
    <2>2. fb[x].idp \in Idp /\ fb[x].idp # i
        BY <1>4, <2>1, KnownIffFound
    <2>3. QED
        BY <1>10, <1>13, <2>1, <2>2 DEF Known
<1>17. TableInv'
    <2>1. ASSUME NEW j \in given, fblmap'[j] # NULL PROVE Leads(j)'
        <3>1. j \in Idp /\ j # i /\ fblmap'[j] = fblmap[j]
            BY <1>13, <2>1 DEF Inv, TypeInv
        <3>2. fblmap[j] \in Fblock /\ Known(fblmap[j]) /\ fb[fblmap[j]].idp = j
            BY <2>1, <3>1, KnownIffLeads DEF Inv
        <3>3. fblmap[j] # own
            BY <3>1, <3>2 DEF i
        <3>4. QED
            BY <1>10, <3>1, <3>2, <3>3 DEF Leads, Known
    <2>2. ASSUME NEW x \in Fblock
          PROVE  /\ \A d \in Path : fb'[x].port[d] \in given \cup {IDP_UNKNOWN}
                 /\ Exists(x)' => fb'[x].idp \in given
                 /\ fb'[x].port["egress"] # IDP_UNKNOWN /\ Exists(x)'
                        => fb'[x].port["egress"] # fb'[x].idp
        <3>1. CASE x = own
            BY <1>5, <1>10, <3>1 DEF Inv, TableInv, Exists
        <3>2. CASE x # own
            BY <1>10, <3>2 DEF Inv, TableInv, Exists
        <3>3. QED
            BY <3>1, <3>2
    <2>3. \A j \in given : j <= idp_counter
        BY DEF Inv, TableInv
    <2>4. QED
        BY <1>1, <2>1, <2>2, <2>3 DEF Inv, TableInv
<1>18. OwnInv'
    <2>1. ASSUME NEW l \in Sock, sk'[l].fb # NULL
          PROVE  Known(sk[l].fb)' /\ fb'[sk'[l].fb].netfb_rx = "pflana"
        <3>1. l # k /\ sk'[l] = sk[l]
            BY <1>11, <2>1
        <3>2. sk[l].fb \in Fblock /\ Known(sk[l].fb) /\ fb[sk[l].fb].netfb_rx = "pflana"
            BY <2>1, <3>1 DEF Inv, OwnInv, TypeInv, SockRec
        <3>3. sk[l].fb # own
            BY <1>2, <3>1 DEF Inv, OwnInv
        <3>4. Known(sk[l].fb)'
            <4> DEFINE x == sk[l].fb
            <4>1. x \in Fblock /\ Known(x) /\ x # own
                BY <3>2, <3>3
            <4>2. fb'[sk'[l].fb].mem = "used" /\ fblmap'[fb'[sk'[l].fb].idp] = sk'[l].fb
                BY <1>16, <3>1, <4>1 DEF Known
            <4>3. QED
                BY <4>2 DEF Known
        <3>5. QED
            BY <1>10, <3>1, <3>2, <3>3, <3>4
    <2>2. \A l, m \in Sock : sk'[l].fb # NULL /\ sk'[l].fb = sk'[m].fb => l = m
        BY <1>11 DEF Inv, OwnInv
    <2>3. \A x \in Fblock : fb'[x].factory => fb'[x].netfb_rx = "dummy"
        BY <1>5, <1>10 DEF Inv, OwnInv, SameId
    <2>4. QED
        BY <2>1, <2>2, <2>3 DEF OwnInv
<1>19. CtlInv'
    <2> DEFINE o == ctl.fb
    <2>1. CASE ctl.pc = "idle"
        BY <1>1, <2>1 DEF CtlInv
    <2>2. CASE ctl.pc # "idle"
        <3>1. o \in Fblock /\ o # NULL
            BY <2>2, CtlPointer, NullAssumption
        <3>2. SameId(fb'[o], fb[o]) /\ fb'[o].port = fb[o].port
            BY <1>5, <1>10, <3>1 DEF SameId
        <3>3. (fb[o].factory \/ fb[o].netfb_rx = "dummy") => o # own
            BY <1>3
        <3>4. Known(o) /\ (fb[o].factory \/ fb[o].netfb_rx = "dummy") => Known(ctl.fb)'
            <4>1. Known(o) /\ o # own => fb'[o].mem = "used" /\ fblmap'[fb'[o].idp] = o
                BY <1>16, <3>1 DEF Known
            <4>2. QED
                BY <1>1, <3>3, <4>1 DEF Known
        <3>5. BoundPorts(o) = {} => BoundPorts(ctl.fb)' = {}
            BY <1>1, <3>2 DEF BoundPorts
        <3>6. ctl.pc = "put" => fb'[o].idp \in given /\ fblmap'[fb'[o].idp] # o
            <4>1. ctl.pc = "put" => fb[o].idp \in given /\ fblmap[fb[o].idp] # o
                BY DEF Inv, CtlInv
            <4>2. \A j \in given : j \in Idp
                BY DEF Inv, TypeInv
            <4>3. QED
                BY <1>13, <3>1, <3>2, <4>1, <4>2 DEF SameId
        <3>7. fb'[o].factory = fb[o].factory /\ fb'[o].netfb_rx = fb[o].netfb_rx
            BY <3>2 DEF SameId
        <3>8. CtlInv
            BY DEF Inv
        <3>9. QED
            BY <1>1, <3>4, <3>5, <3>6, <3>7, <3>8 DEF CtlInv
    <2>3. QED
        BY <2>1, <2>2
<1>20. RcuInv'
    <2>1. \A c \in Cpu : rx[c].fb # NULL => rx[c].fb \in Fblock
        BY DEF Inv, TypeInv, RxRec
    <2>2. fb'[own].mem = "free" /\ ~fb'[own].factory
        BY <1>3, <1>5, <1>10 DEF SameId
    <2>3. QED
        BY <1>1, <1>10, <2>1, <2>2 DEF Inv, RcuInv
<1>21. RefsExact'
    <2> SUFFICES ASSUME NEW x \in Fblock, Exists(x)' PROVE Exact(x)'
        BY DEF RefsExact, Exact
    <2>1. x # own /\ fb'[x] = fb[x]
        BY <1>5, <1>10 DEF Exists
    <2>2. Exists(x) /\ Exact(x) /\ fb[x].refcnt \in Int
        BY <2>1, FieldTypes DEF Exists, Inv, RefsExact, Exact, TypeInv, Blocks
    <2>3. \A q : q # k => (q \in Users(x)' <=> q \in Users(x))
        BY <1>1, <1>12, <1>14, SockMoves DEF Inv
    <2>4. ~SockUses(k, x)' /\ ~SockUses(k, x)
        BY <1>1, <1>9, <1>12 DEF SockUses
    <2>5. (k \in Users(x)' <=> SockUses(k, x)') /\ (k \in Users(x) <=> SockUses(k, x))
        BY <1>14, UsersMembers, UsersPrime DEF Inv
    <2>6. fb'[x].refcnt = fb[x].refcnt + OneIf(k \in Users(x)') - OneIf(k \in Users(x))
        BY <2>1, <2>2, <2>4, <2>5 DEF OneIf
    <2>7. BoundPorts(x)' = BoundPorts(x)
        BY <2>1 DEF BoundPorts
    <2>8. fblmap'[fb[x].idp] = x <=> fblmap[fb[x].idp] = x
        <3>1. fb[x].idp \in Idp /\ x # NULL
            BY <2>2, KnownIffFound, NullAssumption
        <3>2. QED
            BY <1>4, <1>13, <2>1, <3>1
    <2>9. Registration(x)' = Registration(x)
        BY <1>1, <2>1, <2>8 DEF Registration
    <2>10. QED
        BY <2>2, <2>3, <2>6, <2>7, <2>9, ReaderExact DEF Inv
<1>22. QED
    BY <1>14, <1>15, <1>17, <1>18, <1>19, <1>20, <1>21 DEF Inv
-----------------------------------------------------------------------------
(* Registration *)

(* idp_counter gives out an idp that nobody has. *)
LEMMA NewIdpFresh ==
    ASSUME Inv, idp_counter < MaxIdp
    PROVE  /\ NewIdp \in Idp /\ NewIdp \notin given /\ NewIdp \in 0 .. MaxIdp
           /\ NewIdp # IDP_UNKNOWN /\ \A j \in given : j <= NewIdp
<1>1. idp_counter \in 0 .. MaxIdp /\ MaxIdp \in Nat
    BY IdpAssumption DEF Inv, TypeInv
<1>2. NewIdp \in Idp /\ NewIdp \in 0 .. MaxIdp /\ NewIdp # IDP_UNKNOWN
    BY <1>1 DEF NewIdp, Idp, IDP_UNKNOWN
<1>3. ASSUME NEW j \in given PROVE j <= NewIdp /\ j # NewIdp
    <2>1. j <= idp_counter /\ j \in 1 .. MaxIdp
        BY DEF Inv, TableInv, TypeInv, Idp
    <2>2. QED
        BY <1>1, <2>1 DEF NewIdp
<1>4. QED
    BY <1>2, <1>3

(* Nobody has a pointer to a slot that is handed out. *)
LEMMA SlotUnused ==
    ASSUME Inv, NEW o \in FreeSlots
    PROVE  /\ o \in Fblock /\ o # NULL /\ fb[o].mem = "free" /\ Users(o) = {}
           /\ \A c \in Cpu : rx[c].fb # o
           /\ ctl.fb # o
           /\ \A x \in Fblock : Known(x) => x # o
<1>1. o \in Fblock /\ fb[o].mem = "free" /\ ~HasPointer(o)
    BY DEF FreeSlots, Lowest
<1>2. (\A c \in Cpu : rx[c].fb # o) /\ (\A k \in Sock : app[k].fb # o) /\ ctl.fb # o
    BY <1>1 DEF HasPointer
<1>3. Users(o) = {}
    BY <1>1, <1>2, UsersMembers DEF Inv, CpuUses, SockUses, CtlUses
<1>4. QED
    BY <1>1, <1>2, <1>3, NullAssumption DEF Known

(* The fields of a new block. *)
LEMMA NewFields ==
    ASSUME NEW i \in 0 .. MaxIdp, NEW r \in {"dummy", "pflana"}
    PROVE  /\ NewFblock(i, r) \in FblockRec
           /\ NewFblock(i, r).mem = "used" /\ NewFblock(i, r).refcnt = 1
           /\ NewFblock(i, r).idp = i /\ NewFblock(i, r).netfb_rx = r
           /\ NewFblock(i, r).factory = FALSE /\ NewFblock(i, r).port = NoPorts
<1>1. NoPorts \in [Path -> 0 .. MaxIdp]
    BY IdpAssumption DEF NoPorts, IDP_UNKNOWN
<1>2. QED
    BY <1>1 DEF NewFblock, FblockRec

(* The new block is entered into fblmap and memory. *)
LEMMA RegisteredFields ==
    ASSUME Inv, NEW o \in FreeSlots, NEW r \in {"dummy", "pflana"}, idp_counter < MaxIdp,
           Registered(o, r)
    PROVE  /\ fblmap' \in [Idp -> Fblock \cup {NULL}] /\ fblmap'[NewIdp] = o
           /\ \A j \in given : fblmap'[j] = fblmap[j]
           /\ given' = given \cup {NewIdp}
           /\ fb' \in Blocks
           /\ \A x \in Fblock : x # o => fb'[x] = fb[x]
           /\ fb'[o].mem = "used" /\ fb'[o].refcnt = 1
           /\ fb'[o].idp = NewIdp /\ fb'[o].netfb_rx = r /\ fb'[o].factory = FALSE
           /\ fb'[o].port = NoPorts
<1> DEFINE t == NewFblock(NewIdp, r)
<1>1. /\ fblmap' = [fblmap EXCEPT ![NewIdp] = o] /\ given' = given \cup {NewIdp}
      /\ fb' = [fb EXCEPT ![o] = t]
    BY DEF Registered
<1>2. /\ t \in FblockRec /\ t.mem = "used" /\ t.refcnt = 1 /\ t.idp = NewIdp
      /\ t.netfb_rx = r /\ t.factory = FALSE /\ t.port = NoPorts
    <2>1. NewIdp \in 0 .. MaxIdp
        BY NewIdpFresh
    <2>2. QED
        BY <2>1, NewFields
<1> HIDE DEF t
<1>3. /\ fb \in [Fblock -> FblockRec] /\ fblmap \in [Idp -> Fblock \cup {NULL}] /\ o \in Fblock
      /\ NewIdp \in Idp /\ NewIdp \notin given /\ given \subseteq Idp
    BY SlotUnused, NewIdpFresh DEF Inv, TypeInv
<1>4. fb' \in Blocks /\ fb'[o] = t /\ \A x \in Fblock : x # o => fb'[x] = fb[x]
    BY <1>1, <1>2, <1>3 DEF Blocks
<1>5. /\ fblmap' \in [Idp -> Fblock \cup {NULL}] /\ fblmap'[NewIdp] = o
      /\ \A j \in given : fblmap'[j] = fblmap[j]
    BY <1>1, <1>3
<1>6. QED
    BY <1>1, <1>2, <1>4, <1>5

(* The readers are where they were as far as references are concerned. *)
SameUses ==
    /\ rx' = rx /\ next' = next
    /\ ctl' \in CtlRec
    /\ app' \in [Sock -> AppRec]
    /\ sk' \in [Sock -> SockRec]
    /\ \A x \in Fblock : /\ \A k \in Sock : SockUses(k, x)' <=> SockUses(k, x)
                         /\ CtlUses(x)' <=> CtlUses(x)
                         /\ InPut(x)' <=> InPut(x)

(* A step that leaves everybody's place alone leaves the users of a block  *)
(* alone.                                                                  *)
LEMMA SameUsers ==
    ASSUME TypeInv, TypeInv', SameUses, NEW x \in Fblock
    PROVE  Users(x)' = Users(x)
<1>1. /\ \A c \in Cpu : CpuUses(c, x)' <=> CpuUses(c, x)
      /\ \A k \in Sock : SockUses(k, x)' <=> SockUses(k, x)
      /\ CtlUses(x)' <=> CtlUses(x)
    BY DEF SameUses, CpuUses
<1>2. QED
    BY <1>1, UsersMembers, UsersPrime

(* register_fblock_namespace succeeds: what is left to show is about the   *)
(* process that has called it.                                             *)
LEMMA RegisteredStep ==
    ASSUME Inv, NEW o \in FreeSlots, NEW r \in {"dummy", "pflana"}, idp_counter < MaxIdp,
           idp_counter' = NewIdp, Registered(o, r), SameUses
    PROVE  /\ TypeInv' /\ TableInv' /\ RcuInv' /\ RefsExact'
           /\ \A x \in Fblock : Known(x) => x # o /\ fb'[x] = fb[x] /\ fblmap'[fb[x].idp] = x
           /\ fb'[o].mem = "used" /\ fblmap'[fb'[o].idp] = o /\ fb'[o].netfb_rx = r
           /\ \A x \in Fblock : fb'[x].factory => fb'[x].netfb_rx = "dummy"
<1> DEFINE i == NewIdp
<1>1. /\ i \in Idp /\ i \notin given /\ i \in 0 .. MaxIdp /\ i # IDP_UNKNOWN
      /\ \A j \in given : j <= i
    BY NewIdpFresh
<1>2. /\ o \in Fblock /\ o # NULL /\ fb[o].mem = "free" /\ Users(o) = {}
      /\ \A c \in Cpu : rx[c].fb # o
      /\ ctl.fb # o
      /\ \A x \in Fblock : Known(x) => x # o
    BY SlotUnused
<1>3. /\ fblmap' \in [Idp -> Fblock \cup {NULL}] /\ fblmap'[i] = o
      /\ \A j \in given : fblmap'[j] = fblmap[j]
      /\ given' = given \cup {i}
      /\ fb' \in Blocks
      /\ \A x \in Fblock : x # o => fb'[x] = fb[x]
      /\ fb'[o].mem = "used" /\ fb'[o].refcnt = 1
      /\ fb'[o].idp = i /\ fb'[o].netfb_rx = r /\ fb'[o].factory = FALSE
      /\ fb'[o].port = NoPorts
    BY RegisteredFields
<1>4. idp_counter' = i /\ i \in Int
    BY <1>1, IdpAssumption
<1> HIDE DEF i
<1>5. TypeInv'
    BY <1>1, <1>3, <1>4 DEF Inv, TypeInv, SameUses, Blocks
<1>6. \A d \in Path : fb'[o].port[d] = IDP_UNKNOWN
    BY <1>3 DEF NoPorts
<1>7. TableInv'
    <2>1. ASSUME NEW j \in given' PROVE j <= idp_counter' /\ (fblmap'[j] # NULL => Leads(j)')
        <3>1. CASE j = i
            BY <1>3, <1>4, <3>1 DEF Leads
        <3>2. CASE j \in given
            <4>1. ASSUME fblmap[j] # NULL PROVE Leads(j)'
                <5>1. fblmap[j] \in Fblock /\ Known(fblmap[j]) /\ fb[fblmap[j]].idp = j
                    BY <3>2, <4>1, KnownIffLeads DEF Inv
                <5>2. fblmap[j] # o /\ fb[fblmap[j]].mem = "used"
                    BY <1>2, <5>1 DEF Known
                <5>3. QED
                    BY <1>3, <3>2, <5>1, <5>2 DEF Leads
            <4>2. QED
                BY <1>1, <1>3, <1>4, <3>2, <4>1
        <3>3. QED
            BY <1>3, <3>1, <3>2
    <2>2. \A s \in Skb : next'[s] \in given' \cup {IDP_UNKNOWN}
        BY <1>3 DEF Inv, TableInv, SameUses
    <2>3. ASSUME NEW x \in Fblock
          PROVE  /\ \A d \in Path : fb'[x].port[d] \in given' \cup {IDP_UNKNOWN}
                 /\ Exists(x)' => fb'[x].idp \in given'
                 /\ fb'[x].port["egress"] # IDP_UNKNOWN /\ Exists(x)'
                        => fb'[x].port["egress"] # fb'[x].idp
        <3>1. CASE x = o
            BY <1>3, <1>6, <3>1 DEF Path
        <3>2. CASE x # o
            BY <1>3, <3>2 DEF Inv, TableInv, Exists
        <3>3. QED
            BY <3>1, <3>2
    <2>4. QED
        BY <2>1, <2>2, <2>3 DEF TableInv
<1>8. \A x \in Fblock : Known(x) => x # o /\ fb'[x] = fb[x] /\ fblmap'[fb[x].idp] = x
    <2> SUFFICES ASSUME NEW x \in Fblock, Known(x)
                 PROVE  x # o /\ fb'[x] = fb[x] /\ fblmap'[fb[x].idp] = x
        OBVIOUS
    <2>1. fb[x].idp \in given /\ fblmap[fb[x].idp] = x
        BY KnownIffFound DEF Known, Exists
    <2>2. QED
        BY <1>2, <1>3, <2>1
<1>9. RcuInv'
    <2>1. \A c \in Cpu : rx[c].fb # NULL => rx[c].fb \in Fblock /\ rx[c].fb # o
        BY <1>2 DEF Inv, TypeInv, RxRec
    <2>2. QED
        BY <1>3, <2>1 DEF Inv, RcuInv, SameUses
<1>10. RefsExact'
    <2> SUFFICES ASSUME NEW x \in Fblock, Exists(x)' PROVE Exact(x)'
        BY DEF RefsExact, Exact
    <2>1. Users(x)' = Users(x)
        BY <1>5, SameUsers DEF Inv
    <2>2. Registration(x)' = IF fblmap'[fb'[x].idp] = x \/ InPut(x) THEN 1 ELSE 0
        BY RegistrationPrime DEF SameUses
    <2>3. CASE x = o
        <3>1. Registration(x)' = 1
            BY <1>3, <2>2, <2>3
        <3>2. BoundPorts(x)' = {}
            BY <1>6, <2>3 DEF BoundPorts
        <3>3. Cardinality({}) = 0
            BY FS_EmptySet
        <3>4. Users(x)' = {}
            BY <1>2, <2>1, <2>3
        <3>5. fb'[x].refcnt = 1
            BY <1>3, <2>3
        <3>6. Cardinality(BoundPorts(x)') = 0 /\ Cardinality(Users(x)') = 0
            BY <3>2, <3>3, <3>4
        <3>7. QED
            BY <3>1, <3>5, <3>6 DEF Exact, Refs
    <2>4. CASE x # o
        <3>1. fb'[x] = fb[x] /\ Exists(x) /\ Exact(x)
            BY <1>3, <2>4 DEF Exists, Inv, RefsExact, Exact
        <3>2. fblmap'[fb'[x].idp] = fblmap[fb[x].idp]
            BY <1>3, <3>1, KnownIffFound
        <3>3. Registration(x)' = Registration(x)
            BY <2>2, <3>2, RegistrationFields DEF Inv, TypeInv
        <3>4. BoundPorts(x)' = BoundPorts(x)
            BY <3>1 DEF BoundPorts
        <3>5. QED
            BY <2>1, <3>1, <3>3, <3>4 DEF Exact
    <2>5. QED
        BY <2>3, <2>4
<1>11. \A x \in Fblock : fb'[x].factory => fb'[x].netfb_rx = "dummy"
    BY <1>3 DEF Inv, OwnInv
<1>12. QED
    BY <1>3, <1>5, <1>7, <1>8, <1>9, <1>10, <1>11

(* When it fails, no idp that was given away is touched. *)
LEMMA NotRegisteredStep ==
    ASSUME Inv, NEW o \in FreeSlots, idp_counter < MaxIdp, idp_counter' = NewIdp,
           NotRegistered(o), SameUses, ctl' = ctl, app' = app,
           \A k \in Sock : sk'[k].fb = sk[k].fb
    PROVE  Inv'
<1>1. /\ UNCHANGED <<given, fb, rx, next, ctl, app>>
      /\ fblmap' = fblmap \/ fblmap' = [fblmap EXCEPT ![NewIdp] = o]
    BY DEF NotRegistered, SameUses
<1>2. NewIdp \in Idp /\ NewIdp \notin given /\ NewIdp \in 0 .. MaxIdp /\ \A j \in given : j <= NewIdp
    BY NewIdpFresh
<1>3. o \in Fblock
    BY SlotUnused
<1>4. fblmap' \in [Idp -> Fblock \cup {NULL}] /\ \A j \in given : fblmap'[j] = fblmap[j]
    BY <1>1, <1>2, <1>3 DEF Inv, TypeInv
<1>5. TypeInv'
    BY <1>1, <1>2, <1>4 DEF Inv, TypeInv, SameUses
<1>6. ArgInv'
    BY <1>1 DEF Inv, ArgInv
<1>7. TableInv'
    <2>1. \A j \in given : j <= idp_counter' /\ (fblmap'[j] # NULL => Leads(j)')
        BY <1>1, <1>2, <1>4 DEF Inv, TableInv, Leads
    <2>2. QED
        BY <1>1, <2>1 DEF Inv, TableInv, Exists
<1>8. \A x \in Fblock : Exists(x) => fblmap'[fb[x].idp] = fblmap[fb[x].idp]
    BY <1>4, KnownIffFound
<1>9. \A x \in Fblock : Known(x) => fb'[x].mem = "used" /\ fblmap'[fb'[x].idp] = x
    BY <1>1, <1>8 DEF Known, Exists
<1>10. OwnInv'
    <2>1. ASSUME NEW k \in Sock, sk'[k].fb # NULL
          PROVE  Known(sk[k].fb)' /\ fb'[sk'[k].fb].netfb_rx = "pflana"
        <3>1. sk'[k].fb = sk[k].fb /\ sk[k].fb \in Fblock /\ Known(sk[k].fb)
              /\ fb[sk[k].fb].netfb_rx = "pflana"
            BY <2>1 DEF Inv, OwnInv, TypeInv, SockRec
        <3>2. QED
            BY <1>1, <1>9, <3>1 DEF Known
    <2>2. \A k, l \in Sock : sk'[k].fb # NULL /\ sk'[k].fb = sk'[l].fb => k = l
        BY DEF Inv, OwnInv
    <2>3. \A x \in Fblock : fb'[x].factory => fb'[x].netfb_rx = "dummy"
        BY <1>1 DEF Inv, OwnInv
    <2>4. QED
        BY <2>1, <2>2, <2>3 DEF OwnInv
<1>11. CtlInv'
    <2> DEFINE x == ctl.fb
    <2>1. CASE ctl.pc = "idle"
        BY <1>1, <2>1 DEF CtlInv
    <2>2. CASE ctl.pc # "idle"
        <3>1. x \in Fblock
            BY <2>2, CtlPointer
        <3>2. Known(x) => Known(ctl.fb)'
            BY <1>1, <1>9, <3>1 DEF Known
        <3>3. BoundPorts(x) = {} => BoundPorts(ctl.fb)' = {}
            BY <1>1 DEF BoundPorts
        <3>4. ctl.pc = "put" => fb'[x].idp \in given /\ fblmap'[fb'[x].idp] # x
            BY <1>1, <1>4 DEF Inv, CtlInv
        <3>5. QED
            BY <1>1, <3>2, <3>3, <3>4 DEF Inv, CtlInv
    <2>3. QED
        BY <2>1, <2>2
<1>12. RcuInv'
    BY <1>1 DEF Inv, RcuInv
<1>13. RefsExact'
    <2> SUFFICES ASSUME NEW x \in Fblock, Exists(x) PROVE Exact(x)'
        BY <1>1 DEF RefsExact, Exact, Exists
    <2>1. Exact(x)
        BY DEF Inv, RefsExact, Exact
    <2>2. Users(x)' = Users(x)
        BY <1>5, SameUsers DEF Inv
    <2>3. Registration(x)' = Registration(x) /\ BoundPorts(x)' = BoundPorts(x)
        BY <1>1, <1>8 DEF Registration, BoundPorts
    <2>4. QED
        BY <1>1, <2>1, <2>2, <2>3 DEF Exact
<1>14. QED
    BY <1>5, <1>6, <1>7, <1>10, <1>11, <1>12, <1>13 DEF Inv

(* userctl_add *)
LEMMA AddStep ==
    ASSUME Inv, Add
    PROVE  Inv'
<1>1. /\ ctl.pc = "idle" /\ idp_counter < MaxIdp /\ idp_counter' = NewIdp
      /\ UNCHANGED <<sk, rx, next, app>>
    BY DEF Add, packets
<1>2. PICK o \in FreeSlots : \/ Registered(o, "dummy") /\ ctl' = At("factory", o)
                             \/ NotRegistered(o) /\ UNCHANGED ctl
    BY DEF Add
<1>3. CASE Registered(o, "dummy") /\ ctl' = At("factory", o)
    <2>1. o \in Fblock /\ o # NULL
        BY SlotUnused
    <2>2. ctl' \in CtlRec /\ ctl'.pc = "factory" /\ ctl'.fb = o
        BY <1>3, <2>1, AtType, AtFields DEF CtlPC
    <2>3. SameUses
        BY <1>1, <2>2 DEF SameUses, SockUses, CtlUses, InPut, Inv, TypeInv
    <2>4. /\ TypeInv' /\ TableInv' /\ RcuInv' /\ RefsExact'
          /\ \A x \in Fblock : Known(x) => x # o /\ fb'[x] = fb[x] /\ fblmap'[fb[x].idp] = x
          /\ fb'[o].mem = "used" /\ fblmap'[fb'[o].idp] = o /\ fb'[o].netfb_rx = "dummy"
          /\ \A x \in Fblock : fb'[x].factory => fb'[x].netfb_rx = "dummy"
        BY <1>1, <1>3, <2>3, RegisteredStep
    <2>5. ArgInv'
        BY <1>1, <2>1, <2>2 DEF Inv, ArgInv
    <2>6. CtlInv'
        BY <2>2, <2>4 DEF CtlInv, Known
    <2>7. OwnInv'
        <3>1. ASSUME NEW k \in Sock, sk[k].fb # NULL
              PROVE  Known(sk[k].fb)' /\ fb'[sk[k].fb].netfb_rx = "pflana"
            <4>1. sk[k].fb \in Fblock /\ Known(sk[k].fb) /\ fb[sk[k].fb].netfb_rx = "pflana"
                BY <3>1 DEF Inv, OwnInv, TypeInv, SockRec
            <4>2. QED
                BY <1>1, <2>4, <4>1 DEF Known
        <3>2. QED
            BY <1>1, <2>4, <3>1 DEF Inv, OwnInv
    <2>8. QED
        BY <2>4, <2>5, <2>6, <2>7 DEF Inv
<1>4. CASE NotRegistered(o) /\ UNCHANGED ctl
    <2>1. SameUses
        BY <1>1, <1>4 DEF SameUses, SockUses, CtlUses, InPut, Inv, TypeInv
    <2>2. QED
        BY <1>1, <1>4, <2>1, NotRegisteredStep
<1>5. QED
    BY <1>2, <1>3, <1>4

(* lana_family_create *)
LEMMA CreateStep ==
    ASSUME Inv, NEW k \in Sock, Create(k)
    PROVE  Inv'
<1>1. /\ app[k].pc = "none" /\ idp_counter < MaxIdp /\ idp_counter' = NewIdp
      /\ UNCHANGED <<rx, next, ctl>>
    BY DEF Create, packets
<1>2. PICK o \in FreeSlots :
          \/ /\ Registered(o, "pflana")
             /\ sk' = [sk EXCEPT ![k] = [NoSock EXCEPT !.mem = "used", !.fb = o]]
             /\ app' = [app EXCEPT ![k].pc = "init"]
          \/ /\ NotRegistered(o)
             /\ sk' = [sk EXCEPT ![k].mem = "lost"]
             /\ UNCHANGED app
    BY Zenon DEF Create
<1>3. /\ sk \in [Sock -> SockRec] /\ sk[k] \in SockRec /\ o \in Fblock /\ o # NULL
      /\ ctl.fb # o
    BY SlotUnused DEF Inv, TypeInv
<1>4. CASE /\ Registered(o, "pflana")
           /\ sk' = [sk EXCEPT ![k] = [NoSock EXCEPT !.mem = "used", !.fb = o]]
           /\ app' = [app EXCEPT ![k].pc = "init"]
    <2> DEFINE t == [NoSock EXCEPT !.mem = "used", !.fb = o]
    <2>1. t \in SockRec /\ t.fb = o
        <3>1. NoSock \in [mem : {"free"}, fb : {NULL}, queue : Seq(Skb)]
            BY DEF NoSock
        <3>2. QED
            BY <1>3, <3>1 DEF SockRec
    <2> HIDE DEF t
    <2>2. /\ sk' \in [Sock -> SockRec] /\ sk'[k].fb = o
          /\ \A l \in Sock : l # k => sk'[l] = sk[l]
        BY <1>3, <1>4, <2>1 DEF t
    <2>3. /\ app' \in [Sock -> AppRec] /\ app'[k].pc = "init" /\ app'[k].fb = app[k].fb
          /\ \A l \in Sock : l # k => app'[l] = app[l]
        BY <1>4, AppPcUpdate DEF Inv, AppPC
    <2>4. SameUses
        <3>1. \A x \in Fblock, l \in Sock : SockUses(l, x)' <=> SockUses(l, x)
            BY <1>1, <2>3 DEF SockUses
        <3>2. QED
            BY <1>1, <2>2, <2>3, <3>1 DEF SameUses, CtlUses, InPut, Inv, TypeInv
    <2>5. /\ TypeInv' /\ TableInv' /\ RcuInv' /\ RefsExact'
          /\ \A x \in Fblock : Known(x) => x # o /\ fb'[x] = fb[x] /\ fblmap'[fb[x].idp] = x
          /\ fb'[o].mem = "used" /\ fblmap'[fb'[o].idp] = o /\ fb'[o].netfb_rx = "pflana"
          /\ \A x \in Fblock : fb'[x].factory => fb'[x].netfb_rx = "dummy"
        BY <1>1, <1>4, <2>4, RegisteredStep
    <2>6. ArgInv'
        <3>1. \A l \in Sock : /\ app'[l].fb # NULL <=> app'[l].pc \in {"get", "unbind"}
                              /\ sk'[l].fb # NULL <=> app'[l].pc # "none"
            BY <1>1, <1>3, <2>2, <2>3 DEF Inv, ArgInv
        <3>2. QED
            BY <1>1, <3>1 DEF Inv, ArgInv
    <2>7. \A l \in Sock : sk[l].fb # NULL =>
              sk[l].fb \in Fblock /\ Known(sk[l].fb) /\ fb[sk[l].fb].netfb_rx = "pflana" /\ sk[l].fb # o
        <3>1. \A l \in Sock : sk[l].fb # NULL =>
                  sk[l].fb \in Fblock /\ Known(sk[l].fb) /\ fb[sk[l].fb].netfb_rx = "pflana"
            BY DEF Inv, OwnInv, TypeInv, SockRec
        <3>2. QED
            BY <2>5, <3>1
    <2>8. OwnInv'
        <3>1. ASSUME NEW l \in Sock, sk'[l].fb # NULL
              PROVE  Known(sk[l].fb)' /\ fb'[sk'[l].fb].netfb_rx = "pflana"
            <4>1. CASE l = k
                BY <2>2, <2>5, <4>1 DEF Known
            <4>2. CASE l # k
                BY <2>2, <2>5, <2>7, <3>1, <4>2 DEF Known
            <4>3. QED
                BY <4>1, <4>2
        <3>2. ASSUME NEW l \in Sock, NEW m \in Sock, sk'[l].fb # NULL, sk'[l].fb = sk'[m].fb
              PROVE  l = m
            BY <2>2, <2>7, <3>2 DEF Inv, OwnInv
        <3>3. QED
            BY <2>5, <3>1, <3>2 DEF OwnInv
    <2>9. CtlInv'
        <3> DEFINE x == ctl.fb
        <3>1. CASE ctl.pc = "idle"
            BY <1>1, <3>1 DEF CtlInv
        <3>2. CASE ctl.pc # "idle"
            <4>1. x \in Fblock /\ x # o
                BY <1>3, <3>2, CtlPointer
            <4>2. fb'[x] = fb[x]
                BY <1>1, <1>4, <4>1, RegisteredFields
            <4>3. Known(x) => Known(ctl.fb)'
                BY <1>1, <2>5, <4>1, <4>2 DEF Known
            <4>4. BoundPorts(x) = {} => BoundPorts(ctl.fb)' = {}
                BY <1>1, <4>2 DEF BoundPorts
            <4>5. ctl.pc = "put" => fb'[x].idp \in given' /\ fblmap'[fb'[x].idp] # x
                <5>1. ctl.pc = "put" => fb[x].idp \in given /\ fblmap[fb[x].idp] # x
                    BY DEF Inv, CtlInv
                <5>2. given' = given \cup {NewIdp} /\ \A j \in given : fblmap'[j] = fblmap[j]
                    BY <1>1, <1>4, RegisteredFields
                <5>3. QED
                    BY <4>2, <5>1, <5>2
            <4>6. CtlInv
                BY DEF Inv
            <4>7. QED
                BY <1>1, <4>2, <4>3, <4>4, <4>5, <4>6 DEF CtlInv
        <3>3. QED
            BY <3>1, <3>2
    <2>10. QED
        BY <2>5, <2>6, <2>8, <2>9 DEF Inv
<1>5. CASE NotRegistered(o) /\ sk' = [sk EXCEPT ![k].mem = "lost"] /\ UNCHANGED app
    <2> DEFINE t == [sk[k] EXCEPT !.mem = "lost"]
    <2>1. t \in SockRec /\ t.fb = sk[k].fb
        BY <1>3 DEF SockRec
    <2>2. sk' = [sk EXCEPT ![k] = t]
        BY <1>3, <1>5
    <2> HIDE DEF t
    <2>3. sk' \in [Sock -> SockRec] /\ \A l \in Sock : sk'[l].fb = sk[l].fb
        BY <2>1, <2>2, SkUpdate DEF Inv
    <2>4. SameUses
        BY <1>1, <1>5, <2>3 DEF SameUses, SockUses, CtlUses, InPut, Inv, TypeInv
    <2>5. QED
        BY <1>1, <1>5, <2>3, <2>4, NotRegisteredStep
<1>6. QED
    BY <1>2, <1>4, <1>5

(* free_fblock_rcu, when the grace period is over. *)
LEMMA FreeFblockRcuStep ==
    ASSUME Inv, NEW o \in Fblock, FreeFblockRcu(o)
    PROVE  Inv'
<1> DEFINE t == [fb[o] EXCEPT !.mem = "free"]
<1>1. /\ fb[o].mem = "rcu" /\ fb[o].waits = {} /\ fb' = [fb EXCEPT ![o].mem = "free"]
      /\ UNCHANGED <<fblmap, given, idp_counter, sk, rx, next, ctl, app>>
    BY DEF FreeFblockRcu, table, packets
<1>2. fb \in [Fblock -> FblockRec] /\ fb[o] \in FblockRec
    BY DEF Inv, TypeInv
<1>3. t \in FblockRec /\ t.mem = "free" /\ SameId(t, fb[o]) /\ t.port = fb[o].port
    BY <1>2 DEF FblockRec, SameId
<1>4. fb' = [fb EXCEPT ![o] = t]
    BY <1>1, <1>2
<1> HIDE DEF t
<1>5. fb' \in Blocks /\ fb'[o] = t /\ \A x \in Fblock : x # o => fb'[x] = fb[x]
    BY <1>2, <1>3, <1>4 DEF Blocks
<1>6. TypeInv' /\ ArgInv'
    BY <1>1, <1>5 DEF Inv, TypeInv, ArgInv, Blocks
<1>7. Steady
    <2>1. ASSUME NEW x \in Fblock
          PROVE  /\ SameId(fb'[x], fb[x])
                 /\ Known(x) => fb'[x].mem = "used"
                 /\ fb'[x].mem # "free" => Exists(x)
                 /\ \A d \in Path : fb'[x].port[d] \in {fb[x].port[d], IDP_UNKNOWN}
        BY <1>1, <1>3, <1>5 DEF SameId, Known, Exists
    <2>2. QED
        BY <1>1, <2>1 DEF Steady, Inv, TableInv
<1>8. TableInv' /\ OwnInv' /\ CtlInv'
    BY <1>1, <1>7, SteadyTables, SteadyCtl DEF Inv
<1>9. RcuInv'
    <2>1. \A c \in Cpu : rx[c].fb # NULL => rx[c].fb \in Fblock /\ rx[c].fb # o
        BY <1>1 DEF Inv, RcuInv, TypeInv, RxRec
    <2>2. QED
        BY <1>1, <1>5, <2>1 DEF Inv, RcuInv
<1>10. RefsExact'
    <2> SUFFICES ASSUME NEW x \in Fblock, Exists(x)' PROVE Exact(x)'
        BY DEF RefsExact, Exact
    <2>1. fb'[x] = fb[x]
        BY <1>3, <1>5 DEF Exists
    <2>2. Exact(x)
        BY <2>1 DEF Exists, Inv, RefsExact, Exact
    <2>3. Users(x)' = Users(x) /\ BoundPorts(x)' = BoundPorts(x) /\ Registration(x)' = Registration(x)
        BY <1>1, <2>1 DEF Users, BoundPorts, Registration
    <2>4. QED
        BY <2>1, <2>2, <2>3 DEF Exact
<1>11. QED
    BY <1>6, <1>8, <1>9, <1>10 DEF Inv
-----------------------------------------------------------------------------
(* Theorems *)
(* A slot that is not in use *)
Cleared(n, z) == [n EXCEPT !.mem = "free", !.refcnt = z]

(* The slots of fblock_cache at first. *)
LEMMA ClearedFields ==
    ASSUME NEW n \in FblockRec, NEW z \in Int
    PROVE  /\ Cleared(n, z) \in FblockRec /\ Cleared(n, z).mem = "free"
           /\ Cleared(n, z).factory = n.factory /\ Cleared(n, z).port = n.port
BY DEF Cleared, FblockRec

(* Inv holds when the module is loaded. *)
LEMMA InvInit == Init => Inv
<1> SUFFICES ASSUME Init PROVE Inv
    OBVIOUS
<1> DEFINE n == NewFblock(IDP_UNKNOWN, "dummy")
           t == Cleared(n, 0)
           a == Step("none", "ingress", NULL)
<1>1. /\ n \in FblockRec /\ n.factory = FALSE /\ n.port = NoPorts
    <2>1. IDP_UNKNOWN \in 0 .. MaxIdp
        BY IdpAssumption DEF IDP_UNKNOWN
    <2>2. QED
        BY <2>1, NewFields
<1> HIDE DEF n
<1>2. t \in FblockRec /\ t.mem = "free" /\ t.factory = FALSE /\ t.port = NoPorts
    BY <1>1, ClearedFields
<1>3. a \in AppRec /\ a.pc = "none" /\ a.fb = NULL
    BY StepFields DEF AppPC, Path
<1>4. /\ fb = [o \in Fblock |-> t] /\ app = [k \in Sock |-> a] /\ fblmap = [i \in Idp |-> NULL]
      /\ given = {} /\ idp_counter = 0 /\ sk = [k \in Sock |-> NoSock]
      /\ rx = [c \in Cpu |-> Idle] /\ next = [s \in Skb |-> IDP_UNKNOWN] /\ ctl = Done
    BY DEF Init, n, Cleared
<1> HIDE DEF t, a
<1>5. NoSock \in SockRec /\ NoSock.fb = NULL
    BY DEF NoSock, SockRec
<1>6. ctl \in CtlRec /\ ctl.pc = "idle" /\ ctl.fb = NULL
    BY <1>4 DEF Done, At, CtlRec, CtlPC
<1>7. \A o \in Fblock : fb[o] = t
    BY <1>4
<1>8. TypeInv
    BY <1>2, <1>3, <1>4, <1>5, <1>6, IdleFields, IdpAssumption DEF TypeInv, IDP_UNKNOWN
<1>9. ArgInv
    BY <1>3, <1>4, <1>5, <1>6, IdleFields DEF ArgInv, InBlock
<1>10. TableInv
    BY <1>2, <1>4, <1>7 DEF TableInv, Exists, NoPorts, Path
<1>11. OwnInv /\ CtlInv /\ RcuInv
    BY <1>2, <1>4, <1>5, <1>6, <1>7, IdleFields DEF OwnInv, CtlInv, RcuInv
<1>12. RefsExact
    BY <1>2, <1>7 DEF RefsExact, Exists
<1>13. QED
    BY <1>8, <1>9, <1>10, <1>11, <1>12 DEF Inv

(* Every step keeps the invariant. *)
LEMMA InvStep == Inv /\ [Next]_vars => Inv'
<1> SUFFICES ASSUME Inv, [Next]_vars PROVE Inv'
    OBVIOUS
<1>1. ASSUME NEW c \in Cpu, HandleFrame(c) \/ ProcessPacket(c) PROVE Inv'
    BY <1>1, HandleFrameStep, LookupStep, GetFblockStep, DummyNetrxStep, PflanaNetrxStep,
       WriteNextIdpStep, PutFblockStep, ReadNextIdpAgainStep DEF ProcessPacket
<1>2. ASSUME NEW c \in Cpu, NEW k \in Sock, Sendmsg(c, k) PROVE Inv'
    BY <1>2, SendmsgStep
<1>3. ASSUME Add \/ AddFactory \/ RmLookup PROVE Inv'
    BY <1>3, AddStep, AddFactoryStep, RmLookupStep
<1>4. ASSUME UserctlRemove PROVE Inv'
    BY <1>4, RmGetStep, RmCheckStep, RmDeleteStep, RmPutStep DEF UserctlRemove
<1>5. ASSUME NEW i \in given, NEW j \in given, Bind(i, j) \/ Unbind(i, j) PROVE Inv'
    BY <1>5, BindStep, UnbindStep
<1>6. ASSUME NEW k \in Sock,
             Create(k) \/ LanaSkInit(k) \/ Recvmsg(k) \/ Close(k) \/ LanaSkFree(k)
      PROVE  Inv'
    BY <1>6, CreateStep, LanaSkInitStep, RecvmsgStep, CloseStep, SkFreeSearchStep,
       SkFreeGetStep, SkFreeUnbindStep, DestroyStep DEF LanaSkFree
<1>7. ASSUME NEW o \in Fblock, FreeFblockRcu(o) PROVE Inv'
    BY <1>7, FreeFblockRcuStep
<1>8. CASE UNCHANGED vars
    <2>1. Inv' <=> Inv
        BY <1>8 DEF vars, Inv, TypeInv, ArgInv, TableInv, OwnInv, CtlInv, RcuInv, RefsExact,
            Exists, Leads, Known, BoundPorts, Registration, Users
    <2>2. QED
        BY <2>1
<1>9. QED
    BY <1>1, <1>2, <1>3, <1>4, <1>5, <1>6, <1>7, <1>8 DEF Next

(* Tables, memory, CPUs, sockets and the control process keep their types, *)
(* and everything else that Inv says holds.                                *)
THEOREM InvHolds == Spec => []Inv
<1>1. QED
    BY InvInit, InvStep, PTL DEF Spec

(* A packet in a block that a factory has built never finds the block      *)
(* freed, for any number of CPUs and whatever RM and the RCU callback do.  *)
THEOREM BlockOutlivesPackets == Spec => []NoFreedBlock
<1>1. Inv => NoFreedBlock
    BY DEF Inv, RcuInv, NoFreedBlock, Exists
<1>2. QED
    BY <1>1, InvHolds, PTL

(* The reference count of every block is its registration, three for each  *)
(* bound port and one for each CPU and process that has found the block    *)
(* and not put it yet, at every moment.                                    *)
THEOREM CountsExact == Spec => []RefsExact
<1>1. Inv => RefsExact
    BY DEF Inv
<1>2. QED
    BY <1>1, InvHolds, PTL

(* What RM deletes from fblmap is not bound to anything, although the      *)
(* count was read some steps before.                                       *)
THEOREM RemovesUnbound == Spec => RemovedUnbound
<1> DEFINE A == \A i \in Idp :
                    (fblmap[i] # NULL /\ fblmap'[i] = NULL /\ fb[fblmap[i]].factory)
                        => BoundPorts(fblmap[i]) = {}
<1>1. ASSUME Inv, [Next]_vars PROVE A \/ UNCHANGED vars
    <2>1. CASE fblmap' = fblmap
        BY <2>1
    <2>2. ASSUME NEW o, fblmap' = [fblmap EXCEPT ![NewIdp] = o], o \in FreeSlots PROVE A
        <3>1. o # NULL /\ fblmap \in [Idp -> Fblock \cup {NULL}]
            BY <1>1, <2>2, SlotUnused DEF Inv, TypeInv
        <3>2. QED
            BY <2>2, <3>1
    <2>3. ASSUME RmDelete PROVE A
        <3> DEFINE o == ctl.fb
        <3>1. ctl.pc = "delete" /\ fblmap' = [fblmap EXCEPT ![fb[o].idp] = NULL]
            BY <2>3 DEF RmDelete
        <3>2. Known(o) /\ BoundPorts(o) = {}
            BY <1>1, <3>1 DEF Inv, CtlInv
        <3>3. fblmap \in [Idp -> Fblock \cup {NULL}]
            BY <1>1 DEF Inv, TypeInv
        <3>4. QED
            BY <3>1, <3>2, <3>3 DEF Known
    <2>4. ASSUME NEW k \in Sock, Destroy(k) PROVE A
        <3> DEFINE o == sk[k].fb
        <3>1. app[k].pc = "destroy" /\ fblmap' = [fblmap EXCEPT ![fb[o].idp] = NULL]
            BY <2>4 DEF Destroy
        <3>2. o # NULL /\ o \in Fblock
            BY <1>1, <3>1 DEF Inv, ArgInv, TypeInv, SockRec
        <3>3. Known(o) /\ ~fb[o].factory
            BY <1>1, <3>2 DEF Inv, OwnInv
        <3>4. fblmap \in [Idp -> Fblock \cup {NULL}]
            BY <1>1 DEF Inv, TypeInv
        <3>5. QED
            BY <3>1, <3>3, <3>4 DEF Known
    <2>5. ASSUME Add \/ \E k \in Sock : Create(k) PROVE A
        <3>1. PICK o \in FreeSlots : fblmap' = fblmap \/ fblmap' = [fblmap EXCEPT ![NewIdp] = o]
            <4>1. PICK o \in FreeSlots, r \in {"dummy", "pflana"} : Registered(o, r) \/ NotRegistered(o)
                BY <2>5, Zenon DEF Add, Create
            <4>2. QED
                BY <4>1 DEF Registered, NotRegistered
        <3>2. QED
            BY <2>1, <2>2, <3>1
    <2>6. ASSUME NEW c \in Cpu, HandleFrame(c) \/ ProcessPacket(c) \/ \E k \in Sock : Sendmsg(c, k)
          PROVE  fblmap' = fblmap
        <3>1. HandleFrame(c) \/ (\E k \in Sock : Sendmsg(c, k)) => fblmap' = fblmap
            BY DEF HandleFrame, Sendmsg, Enter, table
        <3>2. Lookup(c) \/ GetFblock(c) \/ DummyNetrx(c) => fblmap' = fblmap
            BY Zenon DEF Lookup, GetFblock, DummyNetrx, table
        <3>3. PflanaNetrx(c) \/ WriteNextIdp(c) \/ PutFblock(c) \/ ReadNextIdpAgain(c)
                  => fblmap' = fblmap
            BY Zenon DEF PflanaNetrx, WriteNextIdp, PutFblock, ReadNextIdpAgain, table
        <3>4. QED
            BY <2>6, <3>1, <3>2, <3>3 DEF ProcessPacket
    <2>7. ASSUME AddFactory \/ RmLookup \/ RmGet \/ RmCheck \/ RmPut \/ RmEnd PROVE fblmap' = fblmap
        BY <2>7 DEF AddFactory, RmLookup, RmGet, RmCheck, RmPut, RmEnd, table
    <2>8. ASSUME NEW i, NEW j, Bind(i, j) \/ Unbind(i, j) PROVE fblmap' = fblmap
        BY <2>8 DEF Bind, Unbind, table
    <2>9. ASSUME NEW k \in Sock, LanaSkInit(k) \/ Recvmsg(k) \/ Close(k) \/ SkFreeSearch(k)
                                     \/ SkFreeGet(k) \/ SkFreeUnbind(k)
          PROVE  fblmap' = fblmap
        BY <2>9 DEF LanaSkInit, Recvmsg, Close, SkFreeSearch, SkFreeGet, SkFreeUnbind, table
    <2>10. ASSUME NEW o, FreeFblockRcu(o) PROVE fblmap' = fblmap
        BY <2>10 DEF FreeFblockRcu, table
    <2> HIDE DEF A
    <2>11. QED
        BY <1>1, <2>1, <2>3, <2>4, <2>5, <2>6, <2>7, <2>8, <2>9, <2>10
           DEF Next, UserctlRemove, LanaSkFree
<1>2. Spec => [][A]_vars
    BY <1>1, InvHolds, PTL DEF Spec
<1>3. QED
    BY <1>2 DEF RemovedUnbound
=============================================================================
