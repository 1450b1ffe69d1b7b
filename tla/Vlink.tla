-------------------------------- MODULE Vlink --------------------------------
(***************************************************************************)
(* The virtual link layer: the subsystem table and the callback chains of  *)
(* xt_vlink.c, and the tagged Ethernet devices of fb_ethvlink.c.           *)
(*                                                                         *)
(* A netlink command is handled under vlink_mutex from its dispatch to its *)
(* return, one command at a time; `cmd' is the command that holds the      *)
(* mutex.  Modules are loaded and unloaded, carriers vanish and frames are *)
(* received without it.  A frame is handled in an RCU read-side section    *)
(* which, of all the steps here, only unregister_netdevice() waits for.    *)
(***************************************************************************)
EXTENDS Integers, Sequences, FiniteSets, SequencesExt

CONSTANTS
    Subsys,     \* vlink modules: fb_ethvlink and its competitors for its type
    EthVlink,   \* the module fb_ethvlink
    Type,       \* Type[s]: the netlink type of s
    MaxSubsys,  \* MAX_VLINK_SUBSYSTEMS
    Vname,      \* names of virtual devices
    Carrier,    \* real devices
    Tag,        \* tags
    StrayStop,  \* whether devices that are not hooked are told to stop hooking
    MaxRefs,    \* bound: references to the module fb_ethvlink
    NULL

ASSUME SubsysAssumption == EthVlink \in Subsys /\ {NULL, "other"} \cap Subsys = {}
ASSUME SlotAssumption == MaxSubsys \in Nat \ {0}
ASSUME StopAssumption == StrayStop \in BOOLEAN
ASSUME RefsAssumption == MaxRefs \in Nat

Slot == 1 .. MaxSubsys
Op   == {"start", "stop", "add", "rm"}
Step == {"build", "publish", "unhook", "unlist", "destroy", "unregister"}

ASSUME NullAssumption == NULL \notin Vname \cup Carrier \cup Tag \cup Step \cup {"other"}
ASSUME FiniteAssumption == IsFiniteSet(Vname) /\ IsFiniteSet(Carrier)

(* The callbacks in the order in which a module adds them. *)
Callbacks(s) == IF s = EthVlink THEN <<"add", "rm", "start", "stop">>
                                ELSE <<"start", "stop">>
Priority(op) == IF op \in {"start", "stop"} THEN 2 ELSE 1

VARIABLES
    table,      \* table[i]: vlink_subsystem_table
    mod,        \* mod[s]: the life of the module s
    chain,      \* chain[s]: the callbacks of s
    refs,       \* references to the module fb_ethvlink
    vdev,       \* vdev[v]: the virtual device of that name
    alive,      \* carriers that exist
    hooked,     \* carriers with IFF_VLINK_MAS
    handler,    \* handler[c]: whose receive handler the carrier c has
    cmd,        \* the command under way, NoCmd when the mutex is free
    frame       \* the virtual device a frame was found to be for, or NULL

vars == <<table, mod, chain, refs, vdev, alive, hooked, handler, cmd, frame>>
devs == <<vdev, alive, hooked, handler>>

(* "reg": registered, "listed": in fb_ethvlink_vdevs, "unlisted": taken    *)
(* off it again.                                                           *)
VdevRec == [state : {"free", "reg", "listed", "unlisted"}, tag : Tag \cup {NULL},
            real : Carrier \cup {NULL}, fb : {"none", "live", "freed"}]
NoVdev  == [state |-> "free", tag |-> NULL, real |-> NULL, fb |-> "none"]

CmdRec == [op : Op \cup {NULL}, v : Vname \cup {NULL}, real : Carrier \cup {NULL},
           tag : Tag \cup {NULL}, step : Step \cup {NULL}]
NoCmd  == [op |-> NULL, v |-> NULL, real |-> NULL, tag |-> NULL, step |-> NULL]

(* init_vlink_system; no module is loaded. *)
Init ==
    /\ table = [i \in Slot |-> NULL]
    /\ mod = [s \in Subsys |-> "out"]
    /\ chain = [s \in Subsys |-> <<>>]
    /\ refs = 0
    /\ vdev = [v \in Vname |-> NoVdev]
    /\ alive = Carrier
    /\ hooked = {}
    /\ handler = [c \in Carrier |-> NULL]
    /\ cmd = NoCmd
    /\ frame = NULL

-----------------------------------------------------------------------------
(* vlink_subsys_register, the first step of loading a module: a free slot, *)
(* and no other subsystem of the same type.                                *)
SubsysRegister(s) ==
    LET free == {i \in Slot : table[i] = NULL} IN
    /\ mod[s] = "out"
    /\ cmd = NoCmd
    /\ free # {}
    /\ \A i \in Slot \ free : Type[table[i]] # Type[s]
    /\ table' = [table EXCEPT ![CHOOSE i \in free : \A j \in free : i <= j] = s]
    /\ mod' = [mod EXCEPT ![s] = "loading"]
    /\ UNCHANGED <<chain, refs, devs, cmd, frame>>

(* __vlink_add_callback: behind all callbacks of at least its priority. *)
Inserted(ch, op) ==
    LET before == {i \in DOMAIN ch : Priority(op) <= Priority(ch[i])}
    IN  InsertAt(ch, Cardinality(before) + 1, op)

(* vlink_add_callback, until all callbacks are in the chain.  At the end   *)
(* rtnl_link_register() may fail, and the subsystem is unregistered again. *)
AddCallback(s) ==
    /\ mod[s] = "loading"
    /\ \/ /\ Len(chain[s]) < Len(Callbacks(s))
          /\ chain' = [chain EXCEPT ![s] = Inserted(@, Callbacks(s)[Len(@) + 1])]
          /\ UNCHANGED mod
       \/ /\ Len(chain[s]) = Len(Callbacks(s))
          /\ \/ mod' = [mod EXCEPT ![s] = "in"]
             \/ s = EthVlink /\ mod' = [mod EXCEPT ![s] = "going"]
          /\ UNCHANGED chain
    /\ UNCHANGED <<table, refs, devs, cmd, frame>>

(* rmmod, and the loop of cleanup_fb_ethvlink_module over the devices that *)
(* are still listed: their hooks and their net devices go.                 *)
Exit(s) ==
    LET left == {v \in Vname : vdev[v].state = "listed"}
        real == {vdev[v].real : v \in left} \cap hooked
    IN  /\ mod[s] = "in"
        /\ s = EthVlink => refs = 0
        /\ mod' = [mod EXCEPT ![s] = "going"]
        /\ IF s = EthVlink
           THEN /\ vdev' = [v \in Vname |-> IF v \in left THEN NoVdev ELSE vdev[v]]
                /\ hooked' = hooked \ real
                /\ handler' = [c \in Carrier |-> IF c \in real THEN NULL ELSE handler[c]]
           ELSE UNCHANGED <<vdev, hooked, handler>>
        /\ UNCHANGED <<table, chain, refs, alive, cmd, frame>>

(* vlink_subsys_unregister_batch *)
SubsysUnregisterBatch(s) ==
    /\ mod[s] = "going"
    /\ cmd = NoCmd
    /\ table' = [i \in Slot |-> IF table[i] = s THEN NULL ELSE table[i]]
    /\ chain' = [chain EXCEPT ![s] = <<>>]
    /\ mod' = [mod EXCEPT ![s] = "out"]
    /\ UNCHANGED <<refs, devs, cmd, frame>>

-----------------------------------------------------------------------------
(* vlink_rcv: the mutex is free, the subsystem is registered, and the      *)
(* callback for the command is in its chain (the others return RX_NXT).    *)
Dispatched(op) ==
    /\ cmd = NoCmd
    /\ \E i \in Slot : table[i] = EthVlink
    /\ Contains(chain[EthVlink], op)

Listed == {v \in Vname : vdev[v].state = "listed"}

(* Wrong variant: the devices are not searched for the tag. *)
AddDevAnyTag(v, c, t) ==
    /\ Dispatched("add")
    /\ vdev[v].state = "free"
    /\ c \in alive
    /\ vdev' = [vdev EXCEPT ![v].state = "reg"]
    /\ cmd' = [op |-> "add", v |-> v, real |-> c, tag |-> t, step |-> "build"]
    /\ UNCHANGED <<table, mod, chain, refs, alive, hooked, handler, frame>>

(* fb_ethvlink_add_dev up to register_netdev() *)
AddDev(v, c, t) ==
    /\ Dispatched("add")
    /\ vdev[v].state = "free"
    /\ c \in alive
    /\ \A w \in Listed : vdev[w].tag # t
    /\ vdev' = [vdev EXCEPT ![v].state = "reg"]
    /\ cmd' = [op |-> "add", v |-> v, real |-> c, tag |-> t, step |-> "build"]
    /\ UNCHANGED <<table, mod, chain, refs, alive, hooked, handler, frame>>

(* Wrong variant: the device is listed before it has a block. *)
AddDevBuildListed ==
    /\ cmd.step = "build"
    /\ refs < MaxRefs
    /\ refs' = refs + 1
    /\ vdev' = [vdev EXCEPT ![cmd.v] = [state |-> "listed", tag |-> cmd.tag, real |-> cmd.real,
                                        fb |-> "none"]]
    /\ cmd' = [cmd EXCEPT !.step = "publish"]
    /\ UNCHANGED <<table, mod, chain, alive, hooked, handler, frame>>

(* fb_ethvlink_build_fblock, which takes a reference to the module; on     *)
(* failure the net device is unregistered again.                           *)
AddDevBuild ==
    /\ cmd.step = "build"
    /\ \/ /\ refs < MaxRefs
          /\ refs' = refs + 1
          /\ vdev' = [vdev EXCEPT ![cmd.v] = [@ EXCEPT !.tag = cmd.tag, !.real = cmd.real,
                                                       !.fb = "live"]]
          /\ cmd' = [cmd EXCEPT !.step = "publish"]
       \/ /\ vdev' = [vdev EXCEPT ![cmd.v] = NoVdev]
          /\ cmd' = NoCmd
          /\ UNCHANGED refs
    /\ UNCHANGED <<table, mod, chain, alive, hooked, handler, frame>>

(* list_add_rcu *)
AddDevPublish ==
    /\ cmd.step = "publish"
    /\ vdev' = [vdev EXCEPT ![cmd.v].state = "listed"]
    /\ cmd' = NoCmd
    /\ UNCHANGED <<table, mod, chain, refs, alive, hooked, handler, frame>>

(* Wrong variant: __vlink_invoke takes no reference for a hook. *)
StartHookDevNoGet(c) ==
    /\ Dispatched("start")
    /\ c \in alive \ hooked
    /\ handler[c] = NULL
    /\ handler' = [handler EXCEPT ![c] = EthVlink]
    /\ hooked' = hooked \cup {c}
    /\ UNCHANGED <<table, mod, chain, refs, vdev, alive, cmd, frame>>

(* fb_ethvlink_start_hook_dev: RX_STOP, with a reference to the module     *)
(* taken by __vlink_invoke, for a new hook and for an old one as well;     *)
(* RX_EMERG when the carrier has somebody else's handler.                  *)
StartHookDev(c) ==
    /\ Dispatched("start")
    /\ c \in alive
    /\ c \in hooked \/ handler[c] = NULL
    /\ refs < MaxRefs
    /\ refs' = refs + 1
    /\ handler' = IF c \in hooked THEN handler ELSE [handler EXCEPT ![c] = EthVlink]
    /\ hooked' = hooked \cup {c}
    /\ UNCHANGED <<table, mod, chain, vdev, alive, cmd, frame>>

(* Wrong variant: the flag of the carrier is not cleared. *)
StopHookDevKeepsFlag(c) ==
    /\ Dispatched("stop")
    /\ c \in alive \cap hooked
    /\ refs' = refs - 1
    /\ handler' = [handler EXCEPT ![c] = NULL]
    /\ UNCHANGED <<table, mod, chain, vdev, alive, hooked, cmd, frame>>

(* fb_ethvlink_stop_hook_dev: RX_STOP, with a reference to the module      *)
(* dropped, whether the carrier was hooked or not.                         *)
StopHookDev(c) ==
    /\ Dispatched("stop")
    /\ c \in alive
    /\ c \in hooked \/ StrayStop
    /\ refs > -MaxRefs
    /\ refs' = refs - 1
    /\ handler' = IF c \in hooked THEN [handler EXCEPT ![c] = NULL] ELSE handler
    /\ hooked' = hooked \ {c}
    /\ UNCHANGED <<table, mod, chain, vdev, alive, cmd, frame>>

(* fb_ethvlink_rm_dev, of a device that is not running and whose block has *)
(* no other users.                                                         *)
RmDev(v) ==
    /\ Dispatched("rm")
    /\ vdev[v].state = "listed"
    /\ cmd' = [NoCmd EXCEPT !.op = "rm", !.v = v, !.real = vdev[v].real, !.step = "unhook"]
    /\ UNCHANGED <<table, mod, chain, refs, devs, frame>>

(* Wrong variant: the device itself is not counted. *)
RmDevUnhookCountsOthers ==
    LET clients == {v \in Listed \ {cmd.v} : vdev[v].real = cmd.real}
        last    == Cardinality(clients) = 1 /\ cmd.real \in hooked
    IN  /\ cmd.step = "unhook"
        /\ hooked' = IF last THEN hooked \ {cmd.real} ELSE hooked
        /\ handler' = IF last THEN [handler EXCEPT ![cmd.real] = NULL] ELSE handler
        /\ cmd' = [cmd EXCEPT !.step = "unlist"]
        /\ UNCHANGED <<table, mod, chain, refs, vdev, alive, frame>>

(* The last client of a carrier takes its hook down.  (What a carrier that *)
(* is gone shows of its flags has no effect.)                              *)
RmDevUnhook ==
    LET clients == {v \in Listed : vdev[v].real = cmd.real}
        last    == Cardinality(clients) = 1 /\ cmd.real \in hooked
    IN  /\ cmd.step = "unhook"
        /\ hooked' = IF last THEN hooked \ {cmd.real} ELSE hooked
        /\ handler' = IF last THEN [handler EXCEPT ![cmd.real] = NULL] ELSE handler
        /\ cmd' = [cmd EXCEPT !.step = "unlist"]
        /\ UNCHANGED <<table, mod, chain, refs, vdev, alive, frame>>

(* list_del_rcu *)
RmDevUnlist ==
    /\ cmd.step = "unlist"
    /\ vdev' = [vdev EXCEPT ![cmd.v].state = "unlisted"]
    /\ cmd' = [cmd EXCEPT !.step = "destroy"]
    /\ UNCHANGED <<table, mod, chain, refs, alive, hooked, handler, frame>>

(* fb_ethvlink_destroy_fblock, without a grace period *)
RmDevDestroy ==
    /\ cmd.step = "destroy"
    /\ vdev' = [vdev EXCEPT ![cmd.v].fb = "freed"]
    /\ refs' = refs - 1
    /\ cmd' = [cmd EXCEPT !.step = "unregister"]
    /\ UNCHANGED <<table, mod, chain, alive, hooked, handler, frame>>

(* fb_ethvlink_rm_dev_common: unregister_netdevice() waits for the frames  *)
(* that are being handled.                                                 *)
RmDevUnregister ==
    /\ cmd.step = "unregister"
    /\ frame = NULL
    /\ vdev' = [vdev EXCEPT ![cmd.v] = NoVdev]
    /\ cmd' = NoCmd
    /\ UNCHANGED <<table, mod, chain, refs, alive, hooked, handler, frame>>

-----------------------------------------------------------------------------
(* A carrier is unregistered.  fb_ethvlink_dev_event looks for its virtual *)
(* devices under names without their last character, and finds none (as    *)
(* long as nobody has such a name): they stay, with a dangling pointer.    *)
CarrierGone(c) ==
    /\ c \in alive
    /\ frame = NULL
    /\ alive' = alive \ {c}
    /\ hooked' = hooked \ {c}
    /\ handler' = [handler EXCEPT ![c] = NULL]
    /\ UNCHANGED <<table, mod, chain, refs, vdev, cmd, frame>>

(* Somebody else (a macvlan) takes or releases the carrier's handler. *)
OtherHandler(c) ==
    /\ c \in alive
    /\ handler[c] \in {NULL, "other"}
    /\ handler' = [handler EXCEPT ![c] = IF @ = NULL THEN "other" ELSE NULL]
    /\ UNCHANGED <<table, mod, chain, refs, vdev, alive, hooked, cmd, frame>>

(* fb_ethvlink_handle_frame finds the device for a frame's tag and carrier *)
(* (a frame without one is dropped or passed on) ...                       *)
HandleFrame(c, t) ==
    /\ frame = NULL
    /\ handler[c] = EthVlink
    /\ \E v \in Listed : vdev[v].tag = t /\ vdev[v].real = c /\ frame' = v
    /\ UNCHANGED <<table, mod, chain, refs, devs, cmd>>

(* ... and gives it to the block of that device. *)
HandleFrameVirt ==
    /\ frame # NULL
    /\ frame' = NULL
    /\ UNCHANGED <<table, mod, chain, refs, devs, cmd>>

-----------------------------------------------------------------------------
Next ==
    \/ \E s \in Subsys : SubsysRegister(s)
    \/ \E s \in Subsys : AddCallback(s)
    \/ \E s \in Subsys : Exit(s)
    \/ \E s \in Subsys : SubsysUnregisterBatch(s)
    \/ \E v \in Vname, c \in Carrier, t \in Tag : AddDev(v, c, t)
    \/ AddDevBuild
    \/ AddDevPublish
    \/ \E c \in Carrier : StartHookDev(c)
    \/ \E c \in Carrier : StopHookDev(c)
    \/ \E v \in Vname : RmDev(v)
    \/ RmDevUnhook
    \/ RmDevUnlist
    \/ RmDevDestroy
    \/ RmDevUnregister
    \/ \E c \in Carrier : CarrierGone(c)
    \/ \E c \in Carrier : OtherHandler(c)
    \/ \E c \in Carrier, t \in Tag : HandleFrame(c, t)
    \/ HandleFrameVirt

Spec == Init /\ [][Next]_vars

-----------------------------------------------------------------------------
(* Type correctness of the tables and devices. *)
TypeOK ==
    /\ table \in [Slot -> Subsys \cup {NULL}]
    /\ mod \in [Subsys -> {"out", "loading", "in", "going"}]
    /\ chain \in [Subsys -> Seq(Op)]
    /\ refs \in Int
    /\ vdev \in [Vname -> VdevRec]
    /\ alive \subseteq Carrier
    /\ hooked \subseteq Carrier
    /\ handler \in [Carrier -> {NULL, EthVlink, "other"}]
    /\ cmd \in CmdRec
    /\ frame \in Vname \cup {NULL}

(* A frame's tag leads to one device: the check of the tag in add_dev and  *)
(* the publication of the device are far apart, but no second device gets  *)
(* the tag in between.                                                     *)
TagsUnique == \A v, w \in Listed : vdev[v].tag = vdev[w].tag => v = w

(* The flag of a carrier, which three functions test before they touch the *)
(* handler, says exactly whether the handler is there.                     *)
HookExact == \A c \in Carrier : c \in hooked <=> handler[c] = EthVlink

(* While a device is listed or a carrier is hooked, the module's count     *)
(* keeps it from being unloaded, provided that nobody stops hooks that are *)
(* not there: a reference for every listed device and every hook.          *)
RefsCover == refs >= Cardinality(Listed) + Cardinality(hooked)

(* The device that a frame is for has (or has had) its block: add_dev      *)
(* publishes a device only after it is complete.                           *)
FrameMeetsBlock == frame # NULL => vdev[frame].fb # "none"

(* When the last device of a carrier is taken off the list, the carrier    *)
(* has no hook of ours any more.                                           *)
LastClientUnhooks ==
    [][\A v \in Vname :
          (vdev[v].state = "listed" /\ vdev'[v].state = "unlisted")
             => \/ vdev[v].real \notin hooked'
                \/ \E w \in Listed : w # v /\ vdev[w].real = vdev[v].real]_vars
=============================================================================
