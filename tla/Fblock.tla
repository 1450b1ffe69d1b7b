------------------------------- MODULE Fblock -------------------------------
(***************************************************************************)
(* The functional block registry of LANA and the commands that change it:  *)
(* xt_fblock.c/.h, xt_user.c, xt_builder.c, the BIND/UNBIND events of the  *)
(* blocks with two ports (fb_dummy, fb_counter, fb_bpf, fb_eth) and of     *)
(* fb_tee, and the hooking of a device by fb_eth.                          *)
(*                                                                         *)
(* A block is known under an idp (fblmap) and its idp under a name         *)
(* (idpmap).  Bound blocks hold each other's idp in a port and subscribe   *)
(* to each other.  A block that may be referenced is kept alive by its     *)
(* reference count; when the count drops to 0 the block is freed after an  *)
(* RCU grace period.  The slab cache hands freed memory out again without  *)
(* running its constructor.                                                *)
(*                                                                         *)
(* A command is one step: two commands never overlap here.  A command that *)
(* would follow a pointer to freed memory is not modelled further: the     *)
(* properties say that no such pointer exists.                             *)
(***************************************************************************)
EXTENDS Integers, Sequences, FiniteSets, SequencesExt

CONSTANTS
    Fblock,     \* slots of the slab cache fblock_cache: a bound
    FbName,     \* names that users give to blocks
    Device,     \* names of network devices
    Type,       \* block types with a factory; "tee" has a third port
    MaxIdp,     \* bound: idp_counter stops here
    Nb,         \* struct fblock_notifier objects: a bound, a set of integers
    Commands,   \* the commands that are issued
    MaxRef,     \* bound: a command that takes a count above it is not issued
    Failures,   \* the allocations that may fail: "radix", "elem", "node"
    NULL

Command == {"ADD", "RM", "BIND", "UNBIND", "SUBSCRIBE", "UNSUBSCRIBE",
            "REPLACE", "REPLACE_DROP", "HOOK", "UNHOOK"}

ASSUME CommandsAssumption == Commands \subseteq Command
ASSUME FailuresAssumption == Failures \subseteq {"radix", "elem", "node"}
ASSUME IdpAssumption      == MaxIdp \in Nat
ASSUME RefAssumption      == MaxRef \in Nat
ASSUME NbAssumption       == Nb \subseteq Nat /\ IsFiniteSet(Nb)
ASSUME NullAssumption     == /\ NULL \notin Fblock
                             /\ NULL \notin FbName \cup Device
                             /\ NULL \notin Type
                             /\ NULL \notin {"ingress", "egress", "clone"}

IDP_UNKNOWN == 0
Idp  == 1 .. MaxIdp
Name == FbName \cup Device

(* The ports of a block: port[TYPE_INGRESS], port[TYPE_EGRESS] and, in a   *)
(* tee, port_clone.                                                        *)
Port == {"ingress", "egress", "clone"}
NoPorts == [p \in Port |-> IDP_UNKNOWN]

VARIABLES
    fblmap,       \* radix tree: idp -> block or NULL
    idpmap,       \* critbit tree: name -> idp, IDP_UNKNOWN when absent
    idp_counter,
    fb,           \* the memory of the slots: struct fblock
    fn,           \* the memory of the notifier nodes: struct fblock_notifier
    hooked        \* fb_eth_devs: device -> its block, NULL when not hooked

vars == <<fblmap, idpmap, idp_counter, fb, fn, hooked>>

(* struct fblock.  others is the chain of the nodes to call when something *)
(* happens to this block; notifiers lists the nodes this block has put     *)
(* into the chains of others.                                              *)
FblockRec ==
    [state     : {"free", "live", "rcu"},
     refcnt    : Int,
     idp       : 0 .. MaxIdp,
     name      : Name \cup {NULL},
     factory   : Type \cup {NULL},
     port      : [Port -> 0 .. MaxIdp],
     notifiers : Seq(Nb),
     others    : SUBSET Nb]

FreeFblock(notifiers) ==
    [state |-> "free", refcnt |-> 0, idp |-> IDP_UNKNOWN, name |-> NULL,
     factory |-> NULL, port |-> NoPorts, notifiers |-> notifiers, others |-> {}]

(* struct fblock_notifier *)
NodeRec == [self : Fblock \cup {NULL}, remote : 0 .. MaxIdp]
NoNode  == [self |-> NULL, remote |-> IDP_UNKNOWN]

(* init_fblock_tables *)
Init ==
    /\ fblmap = [i \in Idp |-> NULL]
    /\ idpmap = [n \in Name |-> IDP_UNKNOWN]
    /\ idp_counter = 0
    /\ fb = [o \in Fblock |-> FreeFblock(<<>>)]
    /\ fn = [n \in Nb |-> NoNode]
    /\ hooked = [d \in Device |-> NULL]

-----------------------------------------------------------------------------
(* References.  A block without a factory (a vlink block) is not freed.    *)
Get(f, o) == [f EXCEPT ![o].refcnt = @ + 1]
Put(f, o) ==
    [f EXCEPT ![o].refcnt = @ - 1,
              ![o].state  = IF f[o].refcnt = 1 /\ f[o].factory # NULL THEN "rcu" ELSE @]
Get2(f, o, p) == Get(Get(f, o), p)
Put2(f, o, p) == Put(Put(f, o), p)

(* search_fblock_n, without the reference it takes *)
Search(n) == IF idpmap[n] = IDP_UNKNOWN THEN NULL ELSE fblmap[idpmap[n]]

(* The name leads to memory that is in use. *)
Found(n) == Search(n) # NULL /\ fb[Search(n)].state = "live"

-----------------------------------------------------------------------------
(* The FBLOCK_BIND_IDP and FBLOCK_UNBIND_IDP events of a block: the port   *)
(* they set or clear, NULL for NOTIFY_BAD.  All CPUs have the same ports   *)
(* as long as commands do not overlap.                                     *)
IsTee(f, o) == f[o].factory = "tee"

PortToBind(f, o, dir) ==
    CASE f[o].port[dir] = IDP_UNKNOWN                     -> dir
      [] f[o].port[dir] # IDP_UNKNOWN /\ IsTee(f, o)
            /\ f[o].port["clone"] = IDP_UNKNOWN           -> "clone"
      [] OTHER                                            -> NULL

PortToUnbind(f, o, dir, idp) ==
    CASE f[o].port[dir] = idp                             -> dir
      [] f[o].port[dir] # idp /\ IsTee(f, o)
            /\ f[o].port["clone"] = idp                   -> "clone"
      [] OTHER                                            -> NULL

(* Wrong variant: the block instead of its idp is put into the port. *)
SetPortPointer(f, o, p, idp) == [f EXCEPT ![o].port[p] = o]

SetPort(f, o, p, idp) == [f EXCEPT ![o].port[p] = idp]

-----------------------------------------------------------------------------
(* Subscriptions act on the blocks and the nodes together: a memory m has  *)
(* the fields fb and fn.                                                   *)
Memory == [fb |-> fb, fn |-> fn]

UnusedNodes(m) == {n \in Nb : m.fn[n] = NoNode}
NewNode(m) == CHOOSE n \in UnusedNodes(m) : \A k \in UnusedNodes(m) : n <= k

(* Wrong variant: no reference to the remote block is taken. *)
SubscribeNoRemoteRef(m, us, remote) ==
    LET n == NewNode(m)
    IN  [fb |-> [Get(m.fb, us) EXCEPT ![us].notifiers  = <<n>> \o @,
                                      ![remote].others = @ \cup {n}],
         fn |-> [m.fn EXCEPT ![n] = [self |-> us, remote |-> m.fb[remote].idp]]]

(* subscribe_to_remote_fblock *)
Subscribe(m, us, remote) ==
    LET n == NewNode(m)
        f == Get2(m.fb, us, remote)
    IN  [fb |-> [f EXCEPT ![us].notifiers  = <<n>> \o @,
                          ![remote].others = @ \cup {n}],
         fn |-> [m.fn EXCEPT ![n] = [self |-> us, remote |-> f[remote].idp]]]

(* The positions of a block's list of notifiers that stand for remote. *)
NodesFor(m, us, remote) ==
    {i \in DOMAIN m.fb[us].notifiers :
        m.fn[m.fb[us].notifiers[i]].remote = m.fb[remote].idp}

(* unsubscribe_from_remote_fblock.  A match at the head of the list is     *)
(* taken off the list but stays in the remote block's chain; a match later *)
(* in the list is taken off both and freed; without a match the references *)
(* are dropped all the same; an empty list returns at once.                *)
Unsubscribe(m, us, remote) ==
    LET list  == m.fb[us].notifiers
        found == NodesFor(m, us, remote)
        i     == CHOOSE k \in found : \A j \in found : k <= j
        cut   == [m.fb EXCEPT ![us].notifiers = RemoveAt(list, i)]
    IN  CASE list = <<>> -> m
          [] list # <<>> /\ found = {} ->
                [m EXCEPT !.fb = Put2(m.fb, us, remote)]
          [] list # <<>> /\ found # {} /\ i = 1 ->
                [m EXCEPT !.fb = Put2(cut, us, remote)]
          [] list # <<>> /\ found # {} /\ i # 1 ->
                [fb |-> Put2([cut EXCEPT ![remote].others = @ \ {list[i]}], us, remote),
                 fn |-> [m.fn EXCEPT ![list[i]] = NoNode]]

(* A node that is in no list and in no chain is lost: the model may use    *)
(* its number again.                                                       *)
Reachable(f, n) == \E o \in Fblock : n \in f[o].others \/ Contains(f[o].notifiers, n)
Bounded(f) == \A o \in Fblock : f[o].refcnt \in -MaxRef .. MaxRef
Commit(m) ==
    /\ Bounded(m.fb)
    /\ fb' = m.fb
    /\ fn' = [n \in Nb |-> IF Reachable(m.fb, n) THEN m.fn[n] ELSE NoNode]

-----------------------------------------------------------------------------
(* Registering a new block o: build_fblock_object and the constructors,    *)
(* with init_fblock and register_fblock_namespace.  The memory keeps the   *)
(* list of notifiers it had.  When the name cannot be registered           *)
(* (RegisterNoName), the block is freed but its idp stays in fblmap.       *)
NewFblock(o, n, type, idp) ==
    [FreeFblock(fb[o].notifiers) EXCEPT
        !.state = "live", !.refcnt = 1, !.idp = idp, !.name = n, !.factory = type]

(* Wrong variant: the idp of a block that is gone is handed out again. *)
RegisterFreeIdp(o, n, type) ==
    \E i \in Idp :
        /\ fblmap[i] = NULL
        /\ i <= idp_counter + 1
        /\ idpmap[n] = IDP_UNKNOWN
        /\ fblmap' = [fblmap EXCEPT ![i] = o]
        /\ idpmap' = [idpmap EXCEPT ![n] = i]
        /\ fb' = [fb EXCEPT ![o] = NewFblock(o, n, type, i)]
        /\ idp_counter' = IF i > idp_counter THEN i ELSE idp_counter

Register(o, n, type) ==
    LET idp == idp_counter + 1 IN
    /\ idp_counter < MaxIdp
    /\ idp_counter' = idp
    /\ \/ /\ "radix" \in Failures
          /\ UNCHANGED <<fblmap, idpmap, fb>>
       \/ /\ idpmap[n] = IDP_UNKNOWN
          /\ fblmap' = [fblmap EXCEPT ![idp] = o]
          /\ idpmap' = [idpmap EXCEPT ![n] = idp]
          /\ fb' = [fb EXCEPT ![o] = NewFblock(o, n, type, idp)]

RegisterNoName(o, n) ==
    /\ idpmap[n] # IDP_UNKNOWN \/ "elem" \in Failures
    /\ idp_counter < MaxIdp
    /\ idp_counter' = idp_counter + 1
    /\ fblmap' = [fblmap EXCEPT ![idp_counter'] = o]
    /\ UNCHANGED <<idpmap, fb>>

(* userctl_add *)
Add(n, type) ==
    /\ "ADD" \in Commands
    /\ Search(n) = NULL
    /\ \E o \in Fblock : fb[o].state = "free" /\ Register(o, n, type)
    /\ UNCHANGED <<fn, hooked>>

AddNoName(n) ==
    /\ "ADD" \in Commands
    /\ Search(n) = NULL
    /\ \E o \in Fblock : fb[o].state = "free" /\ RegisterNoName(o, n)
    /\ UNCHANGED <<fn, hooked>>

(* Wrong variant: unregister_fblock, which keeps the name, is called. *)
RmKeepsName(n) ==
    LET o == Search(n) IN
    /\ "RM" \in Commands
    /\ Found(n)
    /\ fb[o].factory # NULL
    /\ fb[o].refcnt + 1 <= 2
    /\ fblmap' = [fblmap EXCEPT ![fb[o].idp] = NULL]
    /\ fb' = Put(fb, o)
    /\ UNCHANGED <<idpmap, idp_counter, fn, hooked>>

(* userctl_remove: with the reference of the search, a count above 2 says  *)
(* that somebody else uses the block.                                      *)
Rm(n) ==
    LET o == Search(n) IN
    /\ "RM" \in Commands
    /\ Found(n)
    /\ fb[o].factory # NULL
    /\ fb[o].refcnt + 1 <= 2
    /\ fblmap' = [fblmap EXCEPT ![fb[o].idp] = NULL]
    /\ idpmap' = [idpmap EXCEPT ![fb[o].name] = IDP_UNKNOWN]
    /\ fb' = Put(fb, o)
    /\ UNCHANGED <<idp_counter, fn, hooked>>

(* The end of the RCU grace period: free_fblock_rcu.  cleanup_fblock calls *)
(* the nodes of the block's chain and frees the chain.                     *)
RcuFree(o) ==
    /\ fb[o].state = "rcu"
    /\ Commit([fb |-> [fb EXCEPT ![o] = FreeFblock(@.notifiers)], fn |-> fn])
    /\ UNCHANGED <<fblmap, idpmap, idp_counter, hooked>>

-----------------------------------------------------------------------------
(* Wrong variant: both blocks are released although only one was bound. *)
UnboundReleasesBoth(m, o1, o2) ==
    LET p1 == PortToUnbind(m.fb, o1, "egress", m.fb[o2].idp)
        f1 == SetPort(m.fb, o1, p1, IDP_UNKNOWN)
        p2 == PortToUnbind(f1, o2, "ingress", m.fb[o1].idp)
        m2 == [m EXCEPT !.fb = SetPort(f1, o2, p2, IDP_UNKNOWN)]
        m3 == Unsubscribe(Unsubscribe(m2, o1, o2), o2, o1)
    IN  CASE p1 = NULL              -> m
          [] p1 # NULL /\ p2 = NULL -> [m EXCEPT !.fb = Put2(f1, o1, o2)]
          [] OTHER                  -> [m3 EXCEPT !.fb = Put2(@, o2, o1)]

(* __fblock_unbind: o1 on top of o2 *)
Unbound(m, o1, o2) ==
    LET p1 == PortToUnbind(m.fb, o1, "egress", m.fb[o2].idp)
        f1 == SetPort(m.fb, o1, p1, IDP_UNKNOWN)
        p2 == PortToUnbind(f1, o2, "ingress", m.fb[o1].idp)
        m2 == [m EXCEPT !.fb = SetPort(f1, o2, p2, IDP_UNKNOWN)]
        m3 == Unsubscribe(Unsubscribe(m2, o1, o2), o2, o1)
    IN  CASE p1 = NULL              -> m
          [] p1 # NULL /\ p2 = NULL -> [m EXCEPT !.fb = Put(f1, o1)]
          [] OTHER                  -> [m3 EXCEPT !.fb = Put2(@, o2, o1)]

(* userctl_unbind *)
Unbind(n1, n2) ==
    LET o1 == Search(n1)
        o2 == Search(n2)
        m  == Unbound([Memory EXCEPT !.fb = Get2(@, o1, o2)], o1, o2)
    IN  /\ "UNBIND" \in Commands
        /\ Found(n1) /\ Found(n2)
        /\ Commit([m EXCEPT !.fb = Put2(@, o1, o2)])
        /\ UNCHANGED <<fblmap, idpmap, idp_counter, hooked>>

(* Wrong variant: the port of o1 is not given up again. *)
PortsSetNoUndo(f, o1, o2) ==
    LET p1   == PortToBind(f, o1, "egress")
        f1   == SetPort(f, o1, p1, f[o2].idp)
        p2   == PortToBind(f1, o2, "ingress")
    IN  CASE p1 = NULL              -> [ok |-> FALSE, fb |-> f]
          [] p1 # NULL /\ p2 = NULL -> [ok |-> FALSE, fb |-> f1]
          [] OTHER                  -> [ok |-> TRUE,  fb |-> SetPort(f1, o2, p2, f[o1].idp)]

(* __fblock_bind up to the subscriptions: the ports of o1 and o2 are set,  *)
(* or the port of o1 is given up again because o2 has none.                *)
PortsSet(f, o1, o2) ==
    LET p1   == PortToBind(f, o1, "egress")
        f1   == SetPort(f, o1, p1, f[o2].idp)
        p2   == PortToBind(f1, o2, "ingress")
        undo == PortToUnbind(f1, o1, "egress", f[o2].idp)
    IN  CASE p1 = NULL              -> [ok |-> FALSE, fb |-> f]
          [] p1 # NULL /\ p2 = NULL -> [ok |-> FALSE, fb |-> SetPort(f1, o1, undo, IDP_UNKNOWN)]
          [] OTHER                  -> [ok |-> TRUE,  fb |-> SetPort(f1, o2, p2, f[o1].idp)]

(* userctl_bind *)
Bind(n1, n2) ==
    LET o1   == Search(n1)
        o2   == Search(n2)
        set  == PortsSet(Get2(Get2(fb, o1, o2), o1, o2), o1, o2)
        m0   == [fb |-> set.fb, fn |-> fn]
        Done(m) == Commit([m EXCEPT !.fb = Put2(@, o1, o2)])
    IN  /\ "BIND" \in Commands
        /\ Found(n1) /\ Found(n2)
        /\ \/ /\ ~set.ok
              /\ Done([m0 EXCEPT !.fb = Put2(@, o1, o2)])
           \/ /\ set.ok
              /\ Cardinality(UnusedNodes(m0)) >= 2
              /\ Done(Subscribe(Subscribe(m0, o1, o2), o2, o1))
        /\ UNCHANGED <<fblmap, idpmap, idp_counter, hooked>>

(* The same, when the memory for the first or the second of the two        *)
(* subscriptions is wanting.                                               *)
BindNoNode(n1, n2) ==
    LET o1   == Search(n1)
        o2   == Search(n2)
        set  == PortsSet(Get2(Get2(fb, o1, o2), o1, o2), o1, o2)
        m0   == [fb |-> set.fb, fn |-> fn]
        Done(m) == Commit([m EXCEPT !.fb = Put2(@, o1, o2)])
    IN  /\ "BIND" \in Commands
        /\ "node" \in Failures
        /\ Found(n1) /\ Found(n2)
        /\ set.ok
        /\ \/ Done(Unbound(m0, o1, o2))
           \/ /\ UnusedNodes(m0) # {}
              /\ Done(Unbound(Subscribe(m0, o1, o2), o1, o2))
        /\ UNCHANGED <<fblmap, idpmap, idp_counter, hooked>>

(* userctl_subscribe: n2 wishes to be notified of n1 *)
SubscribeCmd(n1, n2) ==
    /\ "SUBSCRIBE" \in Commands
    /\ Found(n1) /\ Found(n2)
    /\ UnusedNodes(Memory) # {}
    /\ Commit(Subscribe(Memory, Search(n2), Search(n1)))
    /\ UNCHANGED <<fblmap, idpmap, idp_counter, hooked>>

(* userctl_unsubscribe *)
UnsubscribeCmd(n1, n2) ==
    LET o1 == Search(n1)
        o2 == Search(n2)
        m  == Unsubscribe([Memory EXCEPT !.fb = Get2(@, o1, o2)], o2, o1)
    IN  /\ "UNSUBSCRIBE" \in Commands
        /\ Found(n1) /\ Found(n2)
        /\ Commit([m EXCEPT !.fb = Put2(@, o1, o2)])
        /\ UNCHANGED <<fblmap, idpmap, idp_counter, hooked>>

-----------------------------------------------------------------------------
(* Wrong variant: the private data stays where it is. *)
MigratePNothing(f, dst, src) == f

(* fblock_migrate_p: dst and src exchange their private data *)
MigrateP(f, dst, src) ==
    [f EXCEPT ![dst].port = f[src].port, ![src].port = f[dst].port]

(* Wrong variant: the lists are copied, not exchanged. *)
MigrateRCopies(f, dst, src) ==
    LET s == f[src] IN
    [f EXCEPT ![dst] = [@ EXCEPT !.idp = s.idp, !.name = s.name, !.refcnt = s.refcnt,
                                 !.notifiers = s.notifiers, !.others = s.others],
              ![src].refcnt = f[dst].refcnt]

(* fblock_migrate_r: dst takes the identity of src, and the two exchange   *)
(* their lists, chains and counts.                                         *)
MigrateR(f, dst, src) ==
    LET d == f[dst]
        s == f[src]
    IN  [f EXCEPT
           ![dst] = [d EXCEPT !.idp = s.idp, !.name = s.name, !.refcnt = s.refcnt,
                              !.notifiers = s.notifiers, !.others = s.others],
           ![src] = [s EXCEPT !.refcnt = d.refcnt,
                              !.notifiers = d.notifiers, !.others = d.others]]

(* Wrong variant: the nodes keep pointing to the block they came from. *)
UpdateSelfrefNothing(nodes, list, o) == nodes

(* fblock_update_selfref *)
UpdateSelfref(nodes, list, o) ==
    [n \in Nb |-> IF Contains(list, n) THEN [nodes[n] EXCEPT !.self = o] ELSE nodes[n]]

Migrate(m, dst, src, keep) ==
    LET f == MigrateR(IF keep THEN MigrateP(m.fb, dst, src) ELSE m.fb, dst, src)
    IN  [fb |-> f,
         fn |-> UpdateSelfref(UpdateSelfref(m.fn, f[dst].notifiers, dst),
                              f[src].notifiers, src)]

(* userctl_replace: the block of n2 takes the place of the block of n1.    *)
Replace(n1, n2, drop) ==
    LET o1   == Search(n1)
        o2   == Search(n2)
        keep == fb[o1].factory = fb[o2].factory /\ ~drop
        m    == Migrate([Memory EXCEPT !.fb = Get2(@, o1, o2)], o2, o1, keep)
        gone == [fblmap EXCEPT ![fb[o2].idp] = NULL, ![fb[o1].idp] = NULL]
    IN  /\ (IF drop THEN "REPLACE_DROP" ELSE "REPLACE") \in Commands
        /\ Found(n1) /\ Found(n2)
        /\ fb[o1].factory # NULL /\ fb[o2].factory # NULL
        /\ Get2(fb, o1, o2)[o2].refcnt <= 2
        /\ idpmap' = [idpmap EXCEPT ![fb[o2].name] = IDP_UNKNOWN]
        /\ fblmap' \in {[gone EXCEPT ![fb[o1].idp] = o2]}
                         \cup (IF "radix" \in Failures THEN {gone} ELSE {})
        /\ Commit([m EXCEPT !.fb = Put2(Put(@, o1), o1, o2)])
        /\ UNCHANGED <<idp_counter, hooked>>

(* The same for a block without a factory: the command is refused, and the *)
(* reference of the search for that block is kept.                         *)
ReplaceVlink(n1, n2) ==
    LET o1 == Search(n1)
        o2 == Search(n2)
    IN  /\ "REPLACE" \in Commands
        /\ \/ /\ Found(n1)
              /\ fb[o1].factory = NULL
              /\ Bounded(Get(fb, o1))
              /\ fb' = Get(fb, o1)
           \/ /\ Found(n1) /\ Found(n2)
              /\ fb[o1].factory # NULL /\ fb[o2].factory = NULL
              /\ Bounded(Get(fb, o2))
              /\ fb' = Get(fb, o2)
        /\ UNCHANGED <<fblmap, idpmap, idp_counter, fn, hooked>>

-----------------------------------------------------------------------------
(* fb_eth_start_hook_dev: a vlink block for the device.  The device may    *)
(* have another receive handler, and then the block is unregistered again. *)
Hook(d) ==
    /\ "HOOK" \in Commands
    /\ hooked[d] = NULL
    /\ \E o \in Fblock :
          /\ fb[o].state = "free"
          /\ \/ /\ Register(o, d, NULL)
                /\ hooked' = IF fb'[o].state = "live" THEN [hooked EXCEPT ![d] = o] ELSE hooked
             \/ /\ idpmap[d] = IDP_UNKNOWN
                /\ idp_counter < MaxIdp
                /\ idp_counter' = idp_counter + 1
                /\ UNCHANGED <<fblmap, idpmap, fb, hooked>>
    /\ UNCHANGED fn

HookNoName(d) ==
    /\ "HOOK" \in Commands
    /\ hooked[d] = NULL
    /\ \E o \in Fblock : fb[o].state = "free" /\ RegisterNoName(o, d)
    /\ UNCHANGED <<fn, hooked>>

(* Wrong variant: the count is not looked at. *)
UnhookAlways(d) ==
    LET o == hooked[d] IN
    /\ "UNHOOK" \in Commands
    /\ o # NULL
    /\ fblmap' = [fblmap EXCEPT ![fb[o].idp] = NULL]
    /\ idpmap' = [idpmap EXCEPT ![fb[o].name] = IDP_UNKNOWN]
    /\ hooked' = [hooked EXCEPT ![d] = NULL]
    /\ Commit([fb |-> [fb EXCEPT ![o] = FreeFblock(@.notifiers)], fn |-> fn])
    /\ UNCHANGED idp_counter

(* Wrong variant: the block stays in the tables. *)
UnhookStaysRegistered(d) ==
    LET o == hooked[d] IN
    /\ "UNHOOK" \in Commands
    /\ o # NULL
    /\ fb[o].refcnt <= 2
    /\ hooked' = [hooked EXCEPT ![d] = NULL]
    /\ Commit([fb |-> [fb EXCEPT ![o] = FreeFblock(@.notifiers)], fn |-> fn])
    /\ UNCHANGED <<fblmap, idpmap, idp_counter>>

(* fb_eth_stop_hook_dev on a device that is down: unless the block's count *)
(* is above 2 it is destroyed at once, its chain called and freed.         *)
Unhook(d) ==
    LET o == hooked[d] IN
    /\ "UNHOOK" \in Commands
    /\ o # NULL
    /\ fb[o].refcnt <= 2
    /\ fblmap' = [fblmap EXCEPT ![fb[o].idp] = NULL]
    /\ idpmap' = [idpmap EXCEPT ![fb[o].name] = IDP_UNKNOWN]
    /\ hooked' = [hooked EXCEPT ![d] = NULL]
    /\ Commit([fb |-> [fb EXCEPT ![o] = FreeFblock(@.notifiers)], fn |-> fn])
    /\ UNCHANGED idp_counter

-----------------------------------------------------------------------------
Next ==
    \/ \E n \in FbName, type \in Type : Add(n, type)
    \/ \E n \in Name : Rm(n)
    \/ \E n1, n2 \in Name : Bind(n1, n2)
    \/ \E n1, n2 \in Name : Unbind(n1, n2)
    \/ \E n1, n2 \in Name : SubscribeCmd(n1, n2)
    \/ \E n1, n2 \in Name : Replace(n1, n2, FALSE)
    \/ \E d \in Device : Hook(d)
    \/ \E d \in Device : Unhook(d)
    \/ \E o \in Fblock : RcuFree(o)

Spec == Init /\ [][Next]_vars

(* What the code does besides: the commands and the failures after which   *)
(* the tables, the counts or the connections are not as they should be.    *)
NextAny ==
    \/ Next
    \/ \E n1, n2 \in Name : UnsubscribeCmd(n1, n2)
    \/ \E n1, n2 \in Name : Replace(n1, n2, TRUE)
    \/ \E n1, n2 \in Name : ReplaceVlink(n1, n2)
    \/ \E n1, n2 \in Name : BindNoNode(n1, n2)
    \/ \E n \in FbName : AddNoName(n)
    \/ \E d \in Device : HookNoName(d)

SpecAny == Init /\ [][NextAny]_vars

-----------------------------------------------------------------------------
(* Type correctness of the tables and of the two kinds of memory. *)
TypeOK ==
    /\ fblmap \in [Idp -> Fblock \cup {NULL}]
    /\ idpmap \in [Name -> 0 .. MaxIdp]
    /\ idp_counter \in 0 .. MaxIdp
    /\ fb \in [Fblock -> FblockRec]
    /\ fn \in [Nb -> NodeRec]
    /\ hooked \in [Device -> Fblock \cup {NULL}]

Live == {o \in Fblock : fb[o].state = "live"}

(* The two tables and the blocks agree: fblmap leads only to live blocks,  *)
(* to each of them under its own idp, and a block's name leads to its idp. *)
(* No command that fails half way and no replacement leaves an entry that  *)
(* points to freed memory, or a block that cannot be found.                *)
TablesConsistent ==
    /\ \A i \in Idp : fblmap[i] # NULL =>
          /\ fblmap[i] \in Live
          /\ fb[fblmap[i]].idp = i
    /\ \A n \in Name : idpmap[n] # IDP_UNKNOWN =>
          /\ fblmap[idpmap[n]] # NULL
          /\ fb[fblmap[idpmap[n]]].name = n
    /\ \A o \in Live :
          /\ fblmap[fb[o].idp] = o
          /\ idpmap[fb[o].name] = fb[o].idp

(* The references to the block o: the one of its registration, one for     *)
(* each of its bound ports, one for each node in its own list, and one for *)
(* each node of any list that names its idp.                               *)
BoundPorts(o) == {p \in Port : fb[o].port[p] # IDP_UNKNOWN}
Listed(o) == {n \in Nb : Contains(fb[o].notifiers, n)}
NodesNaming(i) == {n \in Nb : fn[n].remote = i /\ \E o \in Live : n \in Listed(o)}
References(o) ==
    1 + Cardinality(BoundPorts(o)) + Cardinality(Listed(o))
      + Cardinality(NodesNaming(fb[o].idp))

(* The reference count of a live block between two commands is exactly the *)
(* number of references: a count that is too low frees a block in use, one *)
(* that is too high makes `rm' refuse a block that nobody uses.            *)
RefcountExact == \A o \in Live : fb[o].refcnt = References(o)

(* A bound port names a block that exists and that names this block in one *)
(* of its ports: no port outlives the block behind it, and no block is     *)
(* bound to one that does not know of it.                                  *)
Answers(o, p, idp) == fb[o].port[p] = idp \/ fb[o].port["clone"] = idp
PortsPaired ==
    \A o \in Live :
        /\ fb[o].port["egress"] # IDP_UNKNOWN =>
              LET q == fblmap[fb[o].port["egress"]] IN
              q # NULL /\ Answers(q, "ingress", fb[o].idp)
        /\ fb[o].port["ingress"] # IDP_UNKNOWN =>
              LET q == fblmap[fb[o].port["ingress"]] IN
              q # NULL /\ Answers(q, "egress", fb[o].idp)
        /\ fb[o].port["clone"] # IDP_UNKNOWN =>
              LET q == fblmap[fb[o].port["clone"]] IN
              q # NULL /\ \E p \in Port : fb[q].port[p] = fb[o].idp

(* Every subscription is delivered to the right block: a node in the list  *)
(* of a live block is in the chain of the block that now has the node's    *)
(* remote idp, whichever blocks have been replaced since, and its self     *)
(* pointer leads back to the owner of the list.                            *)
SubscriptionsDelivered ==
    \A o \in Live : \A n \in Listed(o) :
        /\ fn[n].self = o
        /\ fblmap[fn[n].remote] # NULL
        /\ n \in fb[fblmap[fn[n].remote]].others

(* Memory that is handed out again carries no subscription of its previous *)
(* owner (the slab constructor that clears the list runs only once).       *)
FreedWithoutNotifiers == \A o \in Fblock \ Live : fb[o].notifiers = <<>>

(* When a block goes down, the chain it calls contains only nodes whose    *)
(* owner has subscribed and not unsubscribed: each node is in its owner's  *)
(* list, and the owner is alive.                                           *)
ChainsSubscribed ==
    \A o \in Fblock : \A n \in fb[o].others :
        fn[n].self \in Live /\ n \in Listed(fn[n].self)

-----------------------------------------------------------------------------
(* What the block known under idp i holds in port p. *)
PortOf(i, p) == IF fblmap[i] = NULL THEN IDP_UNKNOWN ELSE fb[fblmap[i]].port[p]

(* Replacing a block keeps its connections: when another block takes over  *)
(* an idp, its ports are those of the block it replaces.                   *)
ReplaceKeepsConnections ==
    [][\A i \in Idp :
          (fblmap[i] # NULL /\ fblmap'[i] # NULL /\ fblmap'[i] # fblmap[i])
             => \A p \in Port : PortOf(i, p)' = PortOf(i, p)]_vars

(* An idp that has been given up never leads to a block again: the stale   *)
(* idp in a port or in a packet cannot reach a stranger.                   *)
IdpNeverReused ==
    [][\A i \in 1 .. idp_counter : fblmap[i] = NULL => fblmap'[i] = NULL]_vars

(* A device's block is destroyed only when nobody else has a reference. *)
UnhookUnused ==
    [][\A d \in Device :
          (hooked[d] # NULL /\ hooked'[d] = NULL) => fb[hooked[d]].refcnt = 1]_vars
=============================================================================
