------------------------------ MODULE Lifetime ------------------------------
(***************************************************************************)
(* The life of blocks and sockets while packets flow: the search by idp of *)
(* the engine's loop (xt_engine.c, xt_fblock.h) on every CPU, ADD and RM   *)
(* of user control step by step, BIND and UNBIND, the RCU callback that    *)
(* frees a block, and the BSD sockets of fb_pflana.c, which have a block   *)
(* without a factory: socket(), sendmsg, recvmsg and release.              *)
(*                                                                         *)
(* Fblock has the commands in full and Engine the queues of the engine;    *)
(* here a binding is a pair of ports worth three references at both ends,  *)
(* and a CPU has one packet at a time.                                     *)
(*                                                                         *)
(* Memory that is freed is handed out again only when nobody holds a       *)
(* pointer to it any more, so that a pointer to freed memory is seen as    *)
(* such.  Whoever is about to go through such a pointer, to put a block on *)
(* the RCU list a second time, or to deliver to a socket that is not there *)
(* has no further step: what the machine does then is undefined, and       *)
(* Undefined names these states.  The release of a socket reads lana->fb   *)
(* from a sock it has freed; it reads what was there, as nobody else has   *)
(* the memory yet.                                                         *)
(***************************************************************************)
EXTENDS Integers, Sequences, FiniteSets, SequencesExt

CONSTANTS
    Cpu,
    Fblock,     \* slots of the slab cache fblock_cache: a bound, integers
    Sock,       \* struct lana_sock objects, each used by one process: a bound
    Skb,        \* packets: a bound, integers
    MaxIdp,     \* bound: idp_counter stops here
    RcvBuf,     \* packets that fit into the receive buffer of a socket
    Failures,   \* how a registration may fail: "radix", "name"
    NULL

ASSUME IdpAssumption      == MaxIdp \in Nat
ASSUME RcvBufAssumption   == RcvBuf \in Nat
ASSUME SlotAssumption     == Fblock \subseteq Nat /\ Skb \subseteq Nat
ASSUME FailuresAssumption == Failures \subseteq {"radix", "name"}
ASSUME NullAssumption     == NULL \notin Fblock \cup Sock \cup Skb
ASSUME ReaderAssumption   == Cpu \cap Sock = {} /\ "ctl" \notin Cpu \cup Sock
ASSUME FiniteAssumption   == IsFiniteSet(Cpu) /\ IsFiniteSet(Sock)

IDP_UNKNOWN == 0
Idp  == 1 .. MaxIdp
Path == {"ingress", "egress"}
NoPorts == [d \in Path |-> IDP_UNKNOWN]

VARIABLES
    fblmap,       \* radix tree: idp -> block or NULL
    given,        \* the idps that were ever registered with a name
    idp_counter,
    fb,           \* the memory of the slots: struct fblock
    sk,           \* the memory of the sockets: struct lana_sock
    rx,           \* what each CPU does in process_packet
    next,         \* the next idp written to each packet
    live,         \* the packets that are allocated
    lost,         \* those of them that nobody will ever free
    ctl,          \* the control process: a command of userctl_rcv
    app           \* the process of each socket

vars == <<fblmap, given, idp_counter, fb, sk, rx, next, live, lost, ctl, app>>
table   == <<fblmap, given, idp_counter>>
packets == <<next, live, lost>>

(* The readers of RCU: CPUs in process_packet, processes in a search. *)
Reader == Cpu \cup Sock \cup {"ctl"}

(* mem is "rcu" between call_rcu and free_fblock_rcu, waits the readers    *)
(* that the grace period waits for; sock is sock_self of a socket's block. *)
FblockRec ==
    [mem : {"free", "used", "rcu"}, refcnt : Int, idp : 0 .. MaxIdp,
     netfb_rx : {"dummy", "pflana"}, factory : BOOLEAN, port : [Path -> 0 .. MaxIdp],
     sock : Sock \cup {NULL}, waits : SUBSET Reader]

NewFblock(idp, netrx) ==
    [mem |-> "used", refcnt |-> 1, idp |-> idp, netfb_rx |-> netrx, factory |-> FALSE,
     port |-> NoPorts, sock |-> NULL, waits |-> {}]

(* "lost": a sock whose creation failed, which nobody frees. *)
SockRec == [mem : {"free", "used", "lost"}, fb : Fblock \cup {NULL}, queue : Seq(Skb)]
NoSock  == [mem |-> "free", fb |-> NULL, queue |-> <<>>]

RxPC == {"idle", "loop", "get", "netrx", "put", "drop", "touch", "halt", "again"}
RxRec == [pc : RxPC, skb : Skb \cup {NULL}, fb : Fblock \cup {NULL}, dir : Path,
          sender : Sock \cup {NULL}]
Idle  == [pc |-> "idle", skb |-> NULL, fb |-> NULL, dir |-> "ingress", sender |-> NULL]

CtlPC == {"idle", "factory", "get", "check", "delete", "put", "end"}
CtlRec == [pc : CtlPC, fb : Fblock \cup {NULL}]

AppPC == {"none", "init", "open", "search", "get", "unbind", "destroy"}
AppRec == [pc : AppPC, dir : Path, fb : Fblock \cup {NULL}]

At(pc, o) == [pc |-> pc, fb |-> o]
Done == At("idle", NULL)
Step(pc, d, o) == [pc |-> pc, dir |-> d, fb |-> o]

Init ==
    /\ fblmap = [i \in Idp |-> NULL]
    /\ given = {}
    /\ idp_counter = 0
    /\ fb = [o \in Fblock |-> [NewFblock(IDP_UNKNOWN, "dummy") EXCEPT
                               !.mem = "free", !.refcnt = 0]]
    /\ sk = [k \in Sock |-> NoSock]
    /\ rx = [c \in Cpu |-> Idle]
    /\ next = [s \in Skb |-> IDP_UNKNOWN]
    /\ live = {}
    /\ lost = {}
    /\ ctl = Done
    /\ app = [k \in Sock |-> Step("none", "ingress", NULL)]

-----------------------------------------------------------------------------
(* Memory.  Which free slot is handed out makes no difference: the lowest. *)
HasPointer(o) ==
    \/ \E c \in Cpu : rx[c].fb = o
    \/ \E k \in Sock : app[k].fb = o
    \/ ctl.fb = o
Lowest(S) == {n \in S : \A m \in S : n <= m}
FreeSlots == Lowest({o \in Fblock : fb[o].mem = "free" /\ ~HasPointer(o)})
Exists(o) == fb[o].mem # "free"

NewPackets == Lowest({s \in Skb \ live : \A c \in Cpu : rx[c].skb # s})

-----------------------------------------------------------------------------
(* RCU: who is in a read-side section, and what leaving one does to the    *)
(* grace periods under way.                                                *)
Readers ==
    {c \in Cpu : rx[c].pc # "idle"} \cup {k \in Sock : app[k].pc = "get"}
        \cup (IF ctl.pc = "get" THEN {"ctl"} ELSE {})

RcuReadUnlock(f, r) == [o \in Fblock |-> [f[o] EXCEPT !.waits = @ \ {r}]]

(* get_fblock and put_fblock, n times: the last reference to a block with  *)
(* a factory hands it to call_rcu.                                         *)
Get(f, o, n) == [f EXCEPT ![o].refcnt = @ + n]
LastRef(f, o, n) == f[o].refcnt = n /\ f[o].factory
Put(f, o, n) ==
    IF LastRef(f, o, n)
    THEN [f EXCEPT ![o].refcnt = @ - n, ![o].mem = "rcu", ![o].waits = Readers]
    ELSE [f EXCEPT ![o].refcnt = @ - n]
MayPut(o, n) == Exists(o) /\ ~(LastRef(fb, o, n) /\ fb[o].mem = "rcu")

(* Wrong variant: the grace period is not waited for. *)
FreeFblockRcuAtOnce(o) ==
    /\ fb[o].mem = "rcu"
    /\ fb' = [fb EXCEPT ![o].mem = "free", ![o].waits = {}]
    /\ UNCHANGED <<table, sk, rx, packets, ctl, app>>

(* free_fblock_rcu *)
FreeFblockRcu(o) ==
    /\ fb[o].mem = "rcu"
    /\ fb[o].waits = {}
    /\ fb' = [fb EXCEPT ![o].mem = "free"]
    /\ UNCHANGED <<table, sk, rx, packets, ctl, app>>

-----------------------------------------------------------------------------
(* process_packet on CPU c, from rcu_read_lock to rcu_read_unlock. *)

(* Wrong variant: rcu_read_unlock is forgotten. *)
LeaveLocked(c, f) ==
    /\ rx' = [rx EXCEPT ![c] = Idle]
    /\ fb' = f

Leave(c, f) ==
    /\ rx' = [rx EXCEPT ![c] = Idle]
    /\ fb' = RcuReadUnlock(f, c)

Enter(c, s, i, dir, sender) ==
    /\ rx[c].pc = "idle"
    /\ live' = live \cup {s}
    /\ next' = [next EXCEPT ![s] = i]
    /\ rx' = [rx EXCEPT ![c] = [pc |-> "loop", skb |-> s, fb |-> NULL,
                                dir |-> dir, sender |-> sender]]
    /\ UNCHANGED <<table, fb, sk, lost, ctl, app>>

(* fb_eth_handle_frame: the port of a device's block leads to a block that *)
(* exists or that is gone by now.                                          *)
HandleFrame(c) ==
    \E s \in NewPackets, i \in given : Enter(c, s, i, "ingress", NULL)

(* lana_proto_sendmsg with a device that is up.  An error before the       *)
(* packet is handed over leaves everything as it was; without a device the *)
(* error path puts a reference to NULL, and what follows is undefined.     *)
Sendmsg(c, k) ==
    /\ app[k].pc = "open"
    /\ \E s \in NewPackets : Enter(c, s, fb[sk[k].fb].port["egress"], "egress", k)

(* The condition of the loop and the first half of __search_fblock.  A     *)
(* packet without a next block is left behind.                             *)
Lookup(c) ==
    LET s == rx[c].skb
        i == next[s]
    IN  /\ rx[c].pc = "loop"
        /\ \/ /\ i = IDP_UNKNOWN
              /\ lost' = lost \cup {s}
              /\ Leave(c, fb)
              /\ UNCHANGED live
           \/ /\ i # IDP_UNKNOWN
              /\ fblmap[i] = NULL
              /\ live' = live \ {s}
              /\ Leave(c, fb)
              /\ UNCHANGED lost
           \/ /\ i # IDP_UNKNOWN
              /\ fblmap[i] # NULL
              /\ rx' = [rx EXCEPT ![c].pc = "get", ![c].fb = fblmap[i]]
              /\ UNCHANGED <<fb, live, lost>>
        /\ UNCHANGED <<table, sk, next, ctl, app>>

(* The second half of __search_fblock *)
GetFblock(c) ==
    /\ rx[c].pc = "get"
    /\ Exists(rx[c].fb)
    /\ fb' = Get(fb, rx[c].fb, 1)
    /\ rx' = [rx EXCEPT ![c].pc = "netrx"]
    /\ UNCHANGED <<table, sk, packets, ctl, app>>

(* fb_dummy_netrx: on to the block behind the port, or drop the packet. *)
DummyNetrx(c) ==
    LET r == rx[c]
        i == fb[r.fb].port[r.dir]
    IN  /\ r.pc = "netrx"
        /\ Exists(r.fb)
        /\ fb[r.fb].netfb_rx = "dummy"
        /\ next' = [next EXCEPT ![r.skb] = i]
        /\ \/ /\ i = IDP_UNKNOWN
              /\ live' = live \ {r.skb}
              /\ rx' = [rx EXCEPT ![c].pc = "drop"]
           \/ /\ i # IDP_UNKNOWN
              /\ rx' = [rx EXCEPT ![c].pc = "put"]
              /\ UNCHANGED live
        /\ UNCHANGED <<table, fb, sk, lost, ctl, app>>

(* fb_pflana_netrx: sock_queue_rcv_skb, whose result is not looked at.  A  *)
(* packet is never shared here: both entries see to that.                  *)
PflanaNetrx(c) ==
    LET r == rx[c]
        k == fb[r.fb].sock
    IN  /\ r.pc = "netrx"
        /\ Exists(r.fb)
        /\ fb[r.fb].netfb_rx = "pflana"
        /\ k # NULL
        /\ sk[k].mem = "used"
        /\ \/ /\ Len(sk[k].queue) < RcvBuf
              /\ sk' = [sk EXCEPT ![k].queue = Append(@, r.skb)]
              /\ UNCHANGED lost
           \/ /\ Len(sk[k].queue) >= RcvBuf
              /\ lost' = lost \cup {r.skb}
              /\ UNCHANGED sk
        /\ rx' = [rx EXCEPT ![c].pc = "touch"]
        /\ UNCHANGED <<table, fb, next, live, ctl, app>>

(* "We are last in chain": the packet, queued by now, is written to. *)
WriteNextIdp(c) ==
    /\ rx[c].pc = "touch"
    /\ Exists(rx[c].fb)
    /\ rx[c].skb \in live
    /\ next' = [next EXCEPT ![rx[c].skb] = IDP_UNKNOWN]
    /\ rx' = [rx EXCEPT ![c].pc = "halt"]
    /\ UNCHANGED <<table, fb, sk, live, lost, ctl, app>>

(* Wrong variant: the reference of the search is kept for dropped packets. *)
PutFblockKeeps(c) ==
    LET f == Put(fb, rx[c].fb, 1) IN
    /\ rx[c].fb # NULL
    /\ MayPut(rx[c].fb, 1)
    /\ \/ rx[c].pc = "put"  /\ rx' = [rx EXCEPT ![c].pc = "loop", ![c].fb = NULL] /\ fb' = f
       \/ rx[c].pc = "halt" /\ rx' = [rx EXCEPT ![c].pc = "again", ![c].fb = NULL] /\ fb' = f
       \/ rx[c].pc = "drop" /\ Leave(c, fb)
    /\ UNCHANGED <<table, sk, packets, ctl, app>>

(* put_fblock after netfb_rx: PPE_SUCCESS, PPE_HALT or PPE_DROPPED.  Only  *)
(* PPE_DROPPED leaves the loop.                                            *)
PutFblock(c) ==
    LET f == Put(fb, rx[c].fb, 1) IN
    /\ rx[c].fb # NULL
    /\ MayPut(rx[c].fb, 1)
    /\ \/ rx[c].pc = "put"  /\ rx' = [rx EXCEPT ![c].pc = "loop", ![c].fb = NULL] /\ fb' = f
       \/ rx[c].pc = "halt" /\ rx' = [rx EXCEPT ![c].pc = "again", ![c].fb = NULL] /\ fb' = f
       \/ rx[c].pc = "drop" /\ Leave(c, f)
    /\ UNCHANGED <<table, sk, packets, ctl, app>>

(* The condition of the loop is evaluated on the packet of the socket. *)
ReadNextIdpAgain(c) ==
    /\ rx[c].pc = "again"
    /\ rx[c].skb \in live
    /\ Leave(c, fb)
    /\ UNCHANGED <<table, sk, packets, ctl, app>>

ProcessPacket(c) ==
    \/ Lookup(c)
    \/ GetFblock(c)
    \/ DummyNetrx(c)
    \/ PflanaNetrx(c)
    \/ WriteNextIdp(c)
    \/ PutFblock(c)
    \/ ReadNextIdpAgain(c)

-----------------------------------------------------------------------------
(* register_fblock_namespace for the slot o: the block is entered into     *)
(* fblmap before its name is; when the name cannot be entered, the caller  *)
(* frees the block and the entry of fblmap stays.                          *)
NewIdp == idp_counter + 1

Registered(o, netrx) ==
    /\ fblmap' = [fblmap EXCEPT ![NewIdp] = o]
    /\ given' = given \cup {NewIdp}
    /\ fb' = [fb EXCEPT ![o] = NewFblock(NewIdp, netrx)]

(* Wrong variant: the name of the block that is freed stays. *)
NotRegisteredNamed(o) ==
    /\ "name" \in Failures
    /\ fblmap' = [fblmap EXCEPT ![NewIdp] = o]
    /\ given' = given \cup {NewIdp}
    /\ UNCHANGED fb

NotRegistered(o) ==
    /\ \/ "radix" \in Failures /\ UNCHANGED fblmap
       \/ "name" \in Failures /\ fblmap' = [fblmap EXCEPT ![NewIdp] = o]
    /\ UNCHANGED <<given, fb>>

(* userctl_add and build_fblock_object: the constructor publishes the      *)
(* block, then its factory is set.                                         *)
Add ==
    /\ ctl.pc = "idle"
    /\ idp_counter < MaxIdp
    /\ idp_counter' = NewIdp
    /\ \E o \in FreeSlots :
          \/ Registered(o, "dummy") /\ ctl' = At("factory", o)
          \/ NotRegistered(o) /\ UNCHANGED ctl
    /\ UNCHANGED <<sk, rx, packets, app>>

AddFactory ==
    /\ ctl.pc = "factory"
    /\ fb' = [fb EXCEPT ![ctl.fb].factory = TRUE]
    /\ ctl' = Done
    /\ UNCHANGED <<table, sk, rx, packets, app>>

(* userctl_remove: the search, ... *)
RmLookup ==
    /\ ctl.pc = "idle"
    /\ \E i \in given : fblmap[i] # NULL /\ ctl' = At("get", fblmap[i])
    /\ UNCHANGED <<table, fb, sk, rx, packets, app>>

RmGet ==
    /\ ctl.pc = "get"
    /\ Exists(ctl.fb)
    /\ fb' = RcuReadUnlock(Get(fb, ctl.fb, 1), "ctl")
    /\ ctl' = At("check", ctl.fb)
    /\ UNCHANGED <<table, sk, rx, packets, app>>

(* Wrong variant: the count is not looked at. *)
RmCheckAlways ==
    /\ ctl.pc = "check"
    /\ Exists(ctl.fb)
    /\ fb[ctl.fb].factory
    /\ ctl' = At("delete", ctl.fb)
    /\ UNCHANGED <<table, fb, sk, rx, packets, app>>

(* ... the test of the factory and of the count, ... *)
RmCheck ==
    LET o == ctl.fb IN
    /\ ctl.pc = "check"
    /\ Exists(o)
    /\ ctl' = IF fb[o].factory /\ fb[o].refcnt <= 2 THEN At("delete", o) ELSE At("end", o)
    /\ UNCHANGED <<table, fb, sk, rx, packets, app>>

(* ... __unregister_fblock_namespace, first the tables, ... *)
RmDelete ==
    /\ ctl.pc = "delete"
    /\ Exists(ctl.fb)
    /\ fblmap' = [fblmap EXCEPT ![fb[ctl.fb].idp] = NULL]
    /\ ctl' = At("put", ctl.fb)
    /\ UNCHANGED <<given, idp_counter, fb, sk, rx, packets, app>>

(* ... then the reference of the registration, and at last its own. *)
RmPut ==
    /\ ctl.pc = "put"
    /\ MayPut(ctl.fb, 1)
    /\ fb' = Put(fb, ctl.fb, 1)
    /\ ctl' = At("end", ctl.fb)
    /\ UNCHANGED <<table, sk, rx, packets, app>>

RmEnd ==
    /\ ctl.pc = "end"
    /\ MayPut(ctl.fb, 1)
    /\ fb' = Put(fb, ctl.fb, 1)
    /\ ctl' = Done
    /\ UNCHANGED <<table, sk, rx, packets, app>>

(* userctl_bind and userctl_unbind, in one step each.  Users stack blocks  *)
(* in the order of their idps, so that packets do not go round in circles. *)
(* A command that is refused has no effect.                                *)
Refs == 3

Bound(o1, o2) == fb[o1].port["egress"] = fb[o2].idp /\ fb[o2].port["ingress"] = fb[o1].idp

Bind(i, j) ==
    LET o1 == fblmap[i]
        o2 == fblmap[j]
    IN  /\ ctl.pc = "idle"
        /\ i < j
        /\ o1 # NULL /\ o2 # NULL
        /\ fb[o1].port["egress"] = IDP_UNKNOWN
        /\ fb[o2].port["ingress"] = IDP_UNKNOWN
        /\ fb' = [Get(Get(fb, o1, Refs), o2, Refs) EXCEPT
                     ![o1].port["egress"] = j, ![o2].port["ingress"] = i]
        /\ UNCHANGED <<table, sk, rx, packets, ctl, app>>

(* fblock_unbind: o1 on top of o2 *)
Unbound(f, o1, o2) ==
    Put(Put([f EXCEPT ![o1].port["egress"] = IDP_UNKNOWN,
                      ![o2].port["ingress"] = IDP_UNKNOWN], o1, Refs), o2, Refs)

Unbind(i, j) ==
    LET o1 == fblmap[i]
        o2 == fblmap[j]
    IN  /\ ctl.pc = "idle"
        /\ o1 # NULL /\ o2 # NULL
        /\ Bound(o1, o2)
        /\ fb' = Unbound(fb, o1, o2)
        /\ UNCHANGED <<table, sk, rx, packets, ctl, app>>

UserctlRemove == RmGet \/ RmCheck \/ RmDelete \/ RmPut \/ RmEnd

-----------------------------------------------------------------------------
(* lana_family_create: fb_pflana_build_fblock publishes the block before   *)
(* lana_sk_init ties it to the sock, whose queue sock_init_data sets up.   *)
(* When the block cannot be built, sock_put finds a count of 0 and leaves  *)
(* the sock allocated.                                                     *)
Create(k) ==
    /\ app[k].pc = "none"
    /\ sk[k].mem = "free"
    /\ idp_counter < MaxIdp
    /\ idp_counter' = NewIdp
    /\ \E o \in FreeSlots :
          \/ /\ Registered(o, "pflana")
             /\ sk' = [sk EXCEPT ![k] = [NoSock EXCEPT !.mem = "used", !.fb = o]]
             /\ app' = [app EXCEPT ![k].pc = "init"]
          \/ /\ NotRegistered(o)
             /\ sk' = [sk EXCEPT ![k].mem = "lost"]
             /\ UNCHANGED app
    /\ UNCHANGED <<rx, packets, ctl>>

LanaSkInit(k) ==
    /\ app[k].pc = "init"
    /\ fb' = [fb EXCEPT ![sk[k].fb].sock = k]
    /\ app' = [app EXCEPT ![k].pc = "open"]
    /\ UNCHANGED <<table, sk, rx, packets, ctl>>

(* lana_proto_recvmsg: take the first packet and free it. *)
Recvmsg(k) ==
    /\ app[k].pc = "open"
    /\ sk[k].queue # <<>>
    /\ live' = live \ {Head(sk[k].queue)}
    /\ sk' = [sk EXCEPT ![k].queue = Tail(@)]
    /\ UNCHANGED <<table, fb, rx, next, lost, ctl, app>>

(* Wrong variant: the queue of the sock is not purged. *)
CloseKeepsQueue(k) ==
    /\ app[k].pc = "open"
    /\ \A c \in Cpu : rx[c].sender # k
    /\ sk' = [sk EXCEPT ![k].mem = "free", ![k].queue = <<>>]
    /\ app' = [app EXCEPT ![k] = Step("search", "ingress", NULL)]
    /\ UNCHANGED <<table, fb, rx, packets, ctl>>

(* lana_raw_release, when no system call uses the socket any more:         *)
(* lana_proto_close frees the sock, and lana_proto_destruct its queue, ... *)
Close(k) ==
    /\ app[k].pc = "open"
    /\ \A c \in Cpu : rx[c].sender # k
    /\ live' = live \ ToSet(sk[k].queue)
    /\ sk' = [sk EXCEPT ![k].mem = "free", ![k].queue = <<>>]
    /\ app' = [app EXCEPT ![k] = Step("search", "ingress", NULL)]
    /\ UNCHANGED <<table, fb, rx, next, lost, ctl>>

(* ... then lana_sk_free: for each port, get_bound_fblock, ... *)
AfterPort(k) ==
    IF app[k].dir = "ingress" THEN Step("search", "egress", NULL)
                              ELSE Step("destroy", "ingress", NULL)

SkFreeSearch(k) ==
    LET i == fb[sk[k].fb].port[app[k].dir] IN
    /\ app[k].pc = "search"
    /\ app' = [app EXCEPT ![k] =
                 IF i # IDP_UNKNOWN /\ fblmap[i] # NULL
                 THEN Step("get", @.dir, fblmap[i])
                 ELSE AfterPort(k)]
    /\ UNCHANGED <<table, fb, sk, rx, packets, ctl>>

SkFreeGet(k) ==
    /\ app[k].pc = "get"
    /\ Exists(app[k].fb)
    /\ fb' = RcuReadUnlock(Get(fb, app[k].fb, 1), k)
    /\ app' = [app EXCEPT ![k].pc = "unbind"]
    /\ UNCHANGED <<table, sk, rx, packets, ctl>>

(* ... fblock_unbind and put_fblock, ... *)
SkFreeUnbind(k) ==
    LET own   == sk[k].fb
        o     == app[k].fb
        upper == IF app[k].dir = "ingress" THEN o ELSE own
        lower == IF app[k].dir = "ingress" THEN own ELSE o
        f     == IF Bound(upper, lower) THEN Unbound(fb, upper, lower) ELSE fb
    IN  /\ app[k].pc = "unbind"
        /\ MayPut(o, 1)
        /\ fb' = Put(f, o, 1)
        /\ app' = [app EXCEPT ![k] = AfterPort(k)]
        /\ UNCHANGED <<table, sk, rx, packets, ctl>>

(* ... and fb_pflana_destroy_fblock, which waits for nobody. *)
Destroy(k) ==
    LET own == sk[k].fb IN
    /\ app[k].pc = "destroy"
    /\ fblmap' = [fblmap EXCEPT ![fb[own].idp] = NULL]
    /\ fb' = [fb EXCEPT ![own].mem = "free"]
    /\ sk' = [sk EXCEPT ![k].fb = NULL]
    /\ app' = [app EXCEPT ![k] = Step("none", "ingress", NULL)]
    /\ UNCHANGED <<given, idp_counter, rx, packets, ctl>>

LanaSkFree(k) == SkFreeSearch(k) \/ SkFreeGet(k) \/ SkFreeUnbind(k) \/ Destroy(k)

-----------------------------------------------------------------------------
Next ==
    \/ \E c \in Cpu : HandleFrame(c) \/ ProcessPacket(c)
    \/ \E c \in Cpu, k \in Sock : Sendmsg(c, k)
    \/ Add
    \/ AddFactory
    \/ RmLookup
    \/ UserctlRemove
    \/ \E i, j \in given : Bind(i, j) \/ Unbind(i, j)
    \/ \E k \in Sock : Create(k) \/ LanaSkInit(k) \/ Recvmsg(k) \/ Close(k) \/ LanaSkFree(k)
    \/ \E o \in Fblock : FreeFblockRcu(o)

(* A packet in the engine, a command under way and a release go on, and a  *)
(* grace period that nobody holds up ends.  Nobody has to send a packet,   *)
(* to read from a socket or to give a command.                             *)
Fairness ==
    /\ \A c \in Cpu : WF_vars(ProcessPacket(c))
    /\ WF_vars(UserctlRemove)
    /\ \A k \in Sock : WF_vars(LanaSkFree(k))
    /\ \A o \in Fblock : WF_vars(FreeFblockRcu(o))

Spec == Init /\ [][Next]_vars /\ Fairness

-----------------------------------------------------------------------------
(* Somebody's next step is undefined. *)
RxUndefined(c) ==
    LET r == rx[c] IN
    \/ r.fb # NULL /\ ~Exists(r.fb)
    \/ r.pc \in {"put", "drop", "halt"} /\ ~MayPut(r.fb, 1)
    \/ /\ r.pc = "netrx"
       /\ fb[r.fb].netfb_rx = "pflana"
       /\ fb[r.fb].sock = NULL \/ sk[fb[r.fb].sock].mem # "used"
    \/ r.pc \in {"touch", "again"} /\ r.skb \notin live

CtlUndefined ==
    \/ ctl.fb # NULL /\ ~Exists(ctl.fb)
    \/ ctl.pc \in {"put", "end"} /\ ~MayPut(ctl.fb, 1)

AppUndefined(k) ==
    \/ app[k].fb # NULL /\ ~Exists(app[k].fb)
    \/ app[k].pc = "unbind" /\ ~MayPut(app[k].fb, 1)

Undefined ==
    (\E c \in Cpu : RxUndefined(c)) \/ CtlUndefined \/ (\E k \in Sock : AppUndefined(k))

-----------------------------------------------------------------------------
(* Type correctness of the tables, of the three kinds of memory and of     *)
(* what CPUs and processes hold.                                           *)
TypeOK ==
    /\ fblmap \in [Idp -> Fblock \cup {NULL}]
    /\ given \subseteq Idp
    /\ idp_counter \in 0 .. MaxIdp
    /\ fb \in [Fblock -> FblockRec]
    /\ sk \in [Sock -> SockRec]
    /\ rx \in [Cpu -> RxRec]
    /\ next \in [Skb -> 0 .. MaxIdp]
    /\ live \subseteq Skb
    /\ lost \subseteq live
    /\ ctl \in CtlRec
    /\ app \in [Sock -> AppRec]

(* A packet in a block that was built by a factory never finds the block   *)
(* freed, whenever RM and the RCU callback run: the read-side section of   *)
(* process_packet outlasts every pointer it has got from fblmap.           *)
NoFreedBlock ==
    \A c \in Cpu : rx[c].fb # NULL => Exists(rx[c].fb) \/ ~fb[rx[c].fb].factory

(* The references to the block o: its registration, which RM gives up only *)
(* after the block is out of fblmap, three for each bound port, and one    *)
(* for everybody who found the block and has not put it yet.               *)
Registration(o) == IF fblmap[fb[o].idp] = o \/ ctl = At("put", o) THEN 1 ELSE 0
BoundPorts(o) == {d \in Path : fb[o].port[d] # IDP_UNKNOWN}
Users(o) ==
    {c \in Cpu : rx[c].fb = o /\ rx[c].pc # "get"}
        \cup {k \in Sock : app[k] = Step("unbind", app[k].dir, o)}
        \cup (IF ctl.fb = o /\ ctl.pc \in {"check", "delete", "put", "end"} THEN {"ctl"} ELSE {})

(* The reference count of every block is exact at every moment, with       *)
(* packets inside, half-done commands and sockets on their way out.        *)
RefsExact ==
    \A o \in Fblock : Exists(o) =>
        fb[o].refcnt = Registration(o) + Refs * Cardinality(BoundPorts(o)) + Cardinality(Users(o))

(* An entry of fblmap leads to the block that was registered under its     *)
(* idp; the entry that a failed registration leaves behind is out of       *)
(* reach, as neither a packet nor a port has its idp.                      *)
Leads(i) == fb[fblmap[i]].mem = "used" /\ fb[fblmap[i]].idp = i
StaleOutOfReach ==
    \A i \in Idp : fblmap[i] # NULL /\ ~Leads(i) =>
        /\ \A s \in live : next[s] # i
        /\ \A o \in Fblock, d \in Path : Exists(o) => fb[o].port[d] # i

(* Every packet is with one CPU, or in one receive queue, or lost for good *)
(* (it had no next block, or the receive buffer was full): a socket that   *)
(* is released takes its packets along, and no packet is read twice.       *)
Holding == {c \in Cpu : rx[c].pc \in {"loop", "get", "netrx", "put"}}
Queued(k) == ToSet(sk[k].queue)
PacketsOwned ==
    /\ live = lost \cup {rx[c].skb : c \in Holding} \cup UNION {Queued(k) : k \in Sock}
    /\ \A c \in Holding : rx[c].skb \notin lost \cup UNION {Queued(k) : k \in Sock}
    /\ \A c, d \in Holding : rx[c].skb = rx[d].skb => c = d
    /\ \A k \in Sock : lost \cap Queued(k) = {} /\ IsInjective(sk[k].queue)

(* RM takes away only blocks that nobody is bound to, although it looks at *)
(* the count some steps before.                                            *)
RemovedUnbound ==
    [][\A i \in Idp :
          (fblmap[i] # NULL /\ fblmap'[i] = NULL /\ fb[fblmap[i]].factory)
             => BoundPorts(fblmap[i]) = {}]_vars

(* A block that was taken out of fblmap by RM is freed at last, by whoever *)
(* drops the last reference.                                               *)
TakenOut(o) == Exists(o) /\ fb[o].factory /\ fblmap[fb[o].idp] # o
RemovedFreed == \A o \in Fblock : TakenOut(o) ~> (~Exists(o) \/ Undefined)
=============================================================================
