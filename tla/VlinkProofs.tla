----------------------------- MODULE VlinkProofs -----------------------------
(***************************************************************************)
(* Proofs about Vlink for any subsystems, device names, carriers and tags. *)
(***************************************************************************)
EXTENDS Vlink, FiniteSetTheorems, TLAPS

(* A command under way has its device; one that adds has its arguments.    *)
CmdArgs ==
    /\ cmd.step # NULL => cmd.v \in Vname
    /\ cmd.step \in {"build", "publish"} => cmd.real \in Carrier /\ cmd.tag \in Tag

TypeInv == TypeOK /\ CmdArgs

(* From the search for the tag to the publication the new device is out of *)
(* the list and no listed device has its tag: the mutex is held.           *)
Adding ==
    cmd.step \in {"build", "publish"} =>
        /\ vdev[cmd.v].state = "reg"
        /\ \A w \in Listed : vdev[w].tag # cmd.tag
Built == cmd.step = "publish" => vdev[cmd.v].tag = cmd.tag

TagInv == Adding /\ Built /\ TagsUnique

(* A device that is still listed when it is removed is a client of the     *)
(* carrier whose clients are counted; once they have been counted, it has  *)
(* a companion or the hook is down.                                        *)
Removing ==
    cmd.step \in {"unhook", "unlist"} /\ vdev[cmd.v].state = "listed"
        => vdev[cmd.v].real = cmd.real
Unhooked ==
    cmd.step = "unlist" /\ vdev[cmd.v].state = "listed"
        => \/ cmd.real \notin hooked
           \/ \E w \in Listed : w # cmd.v /\ vdev[w].real = cmd.real

ClientInv == Removing /\ Unhooked

-----------------------------------------------------------------------------
(* Which devices have a block, as long as nobody unloads the module under  *)
(* them; every block and every hook has its reference.                     *)
HasBlock == {v \in Vname : vdev[v].fb = "live"}

FreeBare == \A v \in Vname : vdev[v].state = "free" => vdev[v].fb = "none"
ListedLive == \A v \in Listed : vdev[v].fb = "live"
CmdBlock ==
    /\ cmd.step = "build" => vdev[cmd.v].state = "reg" /\ vdev[cmd.v].fb = "none"
    /\ cmd.step = "publish" => vdev[cmd.v].fb = "live"
    /\ cmd.step \in {"unhook", "unlist"} => vdev[cmd.v].state = "listed"
    /\ cmd.step = "destroy" => vdev[cmd.v].state = "unlisted" /\ vdev[cmd.v].fb = "live"
RefsHeld == refs >= Cardinality(HasBlock) + Cardinality(hooked)

BlockInv == FreeBare /\ ListedLive /\ CmdBlock /\ RefsHeld /\ FrameMeetsBlock

-----------------------------------------------------------------------------
(* Type correctness, and what each step does to the devices and to the     *)
(* command.                                                                *)
OthersKept(v) == \A w \in Vname : w # v => vdev'[w] = vdev[w]

(* Setting the state of one device. *)
LEMMA StateSet ==
    ASSUME vdev \in [Vname -> VdevRec], NEW v \in Vname,
           NEW x \in {"free", "reg", "listed", "unlisted"},
           vdev' = [vdev EXCEPT ![v].state = x]
    PROVE  /\ vdev' \in [Vname -> VdevRec]
           /\ OthersKept(v)
           /\ vdev'[v].state = x /\ vdev'[v].tag = vdev[v].tag
           /\ vdev'[v].real = vdev[v].real /\ vdev'[v].fb = vdev[v].fb
<1>1. vdev[v] \in VdevRec
    OBVIOUS
<1>2. /\ [vdev[v] EXCEPT !.state = x] \in VdevRec
      /\ [vdev[v] EXCEPT !.state = x].state = x
      /\ [vdev[v] EXCEPT !.state = x].tag = vdev[v].tag
      /\ [vdev[v] EXCEPT !.state = x].real = vdev[v].real
      /\ [vdev[v] EXCEPT !.state = x].fb = vdev[v].fb
    BY <1>1 DEF VdevRec
<1>3. vdev' = [vdev EXCEPT ![v] = [vdev[v] EXCEPT !.state = x]]
    OBVIOUS
<1>4. QED
    BY <1>2, <1>3 DEF OthersKept

(* Setting the block of one device. *)
LEMMA BlockSet ==
    ASSUME vdev \in [Vname -> VdevRec], NEW v \in Vname, NEW x \in {"none", "live", "freed"},
           vdev' = [vdev EXCEPT ![v].fb = x]
    PROVE  /\ vdev' \in [Vname -> VdevRec]
           /\ OthersKept(v)
           /\ vdev'[v].state = vdev[v].state /\ vdev'[v].tag = vdev[v].tag
           /\ vdev'[v].real = vdev[v].real /\ vdev'[v].fb = x
<1>1. vdev[v] \in VdevRec
    OBVIOUS
<1>2. /\ [vdev[v] EXCEPT !.fb = x] \in VdevRec
      /\ [vdev[v] EXCEPT !.fb = x].fb = x
      /\ [vdev[v] EXCEPT !.fb = x].tag = vdev[v].tag
      /\ [vdev[v] EXCEPT !.fb = x].real = vdev[v].real
      /\ [vdev[v] EXCEPT !.fb = x].state = vdev[v].state
    BY <1>1 DEF VdevRec
<1>3. vdev' = [vdev EXCEPT ![v] = [vdev[v] EXCEPT !.fb = x]]
    OBVIOUS
<1>4. QED
    BY <1>2, <1>3 DEF OthersKept

(* Clearing one device. *)
LEMMA VdevCleared ==
    ASSUME vdev \in [Vname -> VdevRec], NEW v \in Vname, vdev' = [vdev EXCEPT ![v] = NoVdev]
    PROVE  /\ vdev' \in [Vname -> VdevRec]
           /\ OthersKept(v)
           /\ vdev'[v].state = "free" /\ vdev'[v].fb = "none"
<1>1. NoVdev \in VdevRec /\ NoVdev.state = "free" /\ NoVdev.fb = "none"
    BY DEF NoVdev, VdevRec
<1>2. QED
    BY <1>1 DEF OthersKept

(* The command goes on to its next step. *)
LEMMA CmdStepSet ==
    ASSUME cmd \in CmdRec, NEW x \in Step, cmd' = [cmd EXCEPT !.step = x]
    PROVE  /\ cmd' \in CmdRec
           /\ cmd'.step = x /\ cmd'.v = cmd.v /\ cmd'.real = cmd.real /\ cmd'.tag = cmd.tag
BY DEF CmdRec

(* No command. *)
LEMMA NoCmdType ==
    /\ NoCmd \in CmdRec /\ NoCmd.step = NULL
    /\ NULL \notin Step
BY NullAssumption DEF NoCmd, CmdRec

(* fb_ethvlink_add_dev starts. *)
LEMMA AddDevEffect ==
    ASSUME TypeInv, NEW v \in Vname, NEW c \in Carrier, NEW t \in Tag, AddDev(v, c, t)
    PROVE  /\ cmd.step = NULL /\ vdev[v].state = "free" /\ \A w \in Listed : vdev[w].tag # t
           /\ vdev' \in [Vname -> VdevRec] /\ OthersKept(v)
           /\ vdev'[v].state = "reg" /\ vdev'[v].fb = vdev[v].fb
           /\ cmd' \in CmdRec /\ cmd'.step = "build" /\ cmd'.v = v
           /\ cmd'.real = c /\ cmd'.tag = t
           /\ UNCHANGED <<table, mod, chain, refs, alive, hooked, handler, frame>>
<1>1. vdev \in [Vname -> VdevRec]
    BY DEF TypeInv, TypeOK
<1>2. vdev' = [vdev EXCEPT ![v].state = "reg"]
    BY DEF AddDev
<1>3. /\ vdev' \in [Vname -> VdevRec] /\ OthersKept(v)
      /\ vdev'[v].state = "reg" /\ vdev'[v].fb = vdev[v].fb
    BY <1>1, <1>2, StateSet
<1>4. cmd.step = NULL
    BY NoCmdType DEF AddDev, Dispatched
<1>5. cmd' \in CmdRec /\ cmd'.step = "build" /\ cmd'.v = v /\ cmd'.real = c /\ cmd'.tag = t
    BY DEF AddDev, CmdRec, Step, Op
<1>6. QED
    BY <1>3, <1>4, <1>5 DEF AddDev

(* The block is built, or the device goes again. *)
BuildDone ==
    /\ refs' = refs + 1
    /\ vdev'[cmd.v].state = vdev[cmd.v].state /\ vdev'[cmd.v].tag = cmd.tag
    /\ vdev'[cmd.v].real = cmd.real /\ vdev'[cmd.v].fb = "live"
    /\ cmd'.step = "publish" /\ cmd'.v = cmd.v /\ cmd'.real = cmd.real /\ cmd'.tag = cmd.tag
BuildFailed ==
    /\ refs' = refs
    /\ vdev'[cmd.v].state = "free" /\ vdev'[cmd.v].fb = "none"
    /\ cmd'.step = NULL

(* The block of the new device is built. *)
LEMMA AddDevBuildEffect ==
    ASSUME TypeInv, AddDevBuild
    PROVE  /\ cmd.step = "build" /\ cmd.v \in Vname
           /\ vdev' \in [Vname -> VdevRec] /\ OthersKept(cmd.v)
           /\ cmd' \in CmdRec
           /\ BuildDone \/ BuildFailed
           /\ UNCHANGED <<table, mod, chain, alive, hooked, handler, frame>>
<1>1. vdev \in [Vname -> VdevRec] /\ cmd \in CmdRec
    BY DEF TypeInv, TypeOK
<1>2. cmd.step = "build" /\ cmd.v \in Vname /\ cmd.real \in Carrier /\ cmd.tag \in Tag
    BY NoCmdType DEF AddDevBuild, TypeInv, CmdArgs, Step
<1>3. CASE /\ refs' = refs + 1
           /\ vdev' = [vdev EXCEPT ![cmd.v] = [@ EXCEPT !.tag = cmd.tag, !.real = cmd.real,
                                                        !.fb = "live"]]
           /\ cmd' = [cmd EXCEPT !.step = "publish"]
    <2> DEFINE new == [vdev[cmd.v] EXCEPT !.tag = cmd.tag, !.real = cmd.real, !.fb = "live"]
    <2>1. vdev[cmd.v] \in VdevRec
        BY <1>1, <1>2
    <2>2. /\ new \in VdevRec /\ new.state = vdev[cmd.v].state
          /\ new.tag = cmd.tag /\ new.real = cmd.real /\ new.fb = "live"
        BY <2>1, <1>2 DEF VdevRec
    <2>3. vdev' = [vdev EXCEPT ![cmd.v] = new]
        BY <1>3
    <2> HIDE DEF new
    <2>4. /\ vdev' \in [Vname -> VdevRec] /\ OthersKept(cmd.v) /\ vdev'[cmd.v] = new
        BY <1>1, <1>2, <2>2, <2>3 DEF OthersKept
    <2>5. /\ cmd' \in CmdRec /\ cmd'.step = "publish" /\ cmd'.v = cmd.v
          /\ cmd'.real = cmd.real /\ cmd'.tag = cmd.tag
        BY <1>1, <1>3, CmdStepSet DEF Step
    <2>6. BuildDone
        BY <1>3, <2>2, <2>4, <2>5 DEF BuildDone
    <2>7. QED
        BY <1>2, <2>4, <2>5, <2>6 DEF AddDevBuild
<1>4. CASE vdev' = [vdev EXCEPT ![cmd.v] = NoVdev] /\ cmd' = NoCmd /\ refs' = refs
    <2>1. /\ vdev' \in [Vname -> VdevRec] /\ OthersKept(cmd.v)
          /\ vdev'[cmd.v].state = "free" /\ vdev'[cmd.v].fb = "none"
        BY <1>1, <1>2, <1>4, VdevCleared
    <2>2. cmd' \in CmdRec /\ cmd'.step = NULL
        BY <1>4, NoCmdType
    <2>3. QED
        BY <1>2, <1>4, <2>1, <2>2 DEF AddDevBuild, BuildFailed
<1>5. QED
    BY <1>3, <1>4 DEF AddDevBuild

(* The new device is listed. *)
LEMMA AddDevPublishEffect ==
    ASSUME TypeInv, AddDevPublish
    PROVE  /\ cmd.step = "publish" /\ cmd.v \in Vname
           /\ vdev' \in [Vname -> VdevRec] /\ OthersKept(cmd.v)
           /\ vdev'[cmd.v].state = "listed" /\ vdev'[cmd.v].tag = vdev[cmd.v].tag
           /\ vdev'[cmd.v].fb = vdev[cmd.v].fb
           /\ cmd' \in CmdRec /\ cmd'.step = NULL
           /\ UNCHANGED <<table, mod, chain, refs, alive, hooked, handler, frame>>
<1>1. vdev \in [Vname -> VdevRec] /\ cmd.step = "publish" /\ cmd.v \in Vname
    BY NoCmdType DEF TypeInv, TypeOK, AddDevPublish, CmdArgs, Step
<1>2. vdev' = [vdev EXCEPT ![cmd.v].state = "listed"]
    BY DEF AddDevPublish
<1>3. QED
    BY <1>1, <1>2, StateSet, NoCmdType DEF AddDevPublish

(* The device is taken off the list. *)
LEMMA RmDevUnlistEffect ==
    ASSUME TypeInv, RmDevUnlist
    PROVE  /\ cmd.step = "unlist" /\ cmd.v \in Vname
           /\ vdev' \in [Vname -> VdevRec] /\ OthersKept(cmd.v)
           /\ vdev'[cmd.v].state = "unlisted" /\ vdev'[cmd.v].fb = vdev[cmd.v].fb
           /\ cmd' \in CmdRec /\ cmd'.step = "destroy" /\ cmd'.v = cmd.v
           /\ UNCHANGED <<table, mod, chain, refs, alive, hooked, handler, frame>>
<1>1. /\ vdev \in [Vname -> VdevRec] /\ cmd \in CmdRec
      /\ cmd.step = "unlist" /\ cmd.v \in Vname
    BY NoCmdType DEF TypeInv, TypeOK, RmDevUnlist, CmdArgs, Step
<1>2. vdev' = [vdev EXCEPT ![cmd.v].state = "unlisted"]
    BY DEF RmDevUnlist
<1>3. cmd' \in CmdRec /\ cmd'.step = "destroy" /\ cmd'.v = cmd.v
    BY <1>1, CmdStepSet DEF RmDevUnlist, Step
<1>4. QED
    BY <1>1, <1>2, <1>3, StateSet DEF RmDevUnlist

(* The block of the device is destroyed. *)
LEMMA RmDevDestroyEffect ==
    ASSUME TypeInv, RmDevDestroy
    PROVE  /\ cmd.step = "destroy" /\ cmd.v \in Vname
           /\ vdev' \in [Vname -> VdevRec] /\ OthersKept(cmd.v)
           /\ vdev'[cmd.v].state = vdev[cmd.v].state /\ vdev'[cmd.v].fb = "freed"
           /\ vdev'[cmd.v].tag = vdev[cmd.v].tag
           /\ cmd' \in CmdRec /\ cmd'.step = "unregister" /\ cmd'.v = cmd.v
           /\ refs' = refs - 1
           /\ UNCHANGED <<table, mod, chain, alive, hooked, handler, frame>>
<1>1. /\ vdev \in [Vname -> VdevRec] /\ cmd \in CmdRec
      /\ cmd.step = "destroy" /\ cmd.v \in Vname
    BY NoCmdType DEF TypeInv, TypeOK, RmDevDestroy, CmdArgs, Step
<1>2. vdev' = [vdev EXCEPT ![cmd.v].fb = "freed"]
    BY DEF RmDevDestroy
<1>3. cmd' \in CmdRec /\ cmd'.step = "unregister" /\ cmd'.v = cmd.v
    BY <1>1, CmdStepSet DEF RmDevDestroy, Step
<1>4. QED
    BY <1>1, <1>2, <1>3, BlockSet DEF RmDevDestroy

(* unregister_netdevice. *)
LEMMA RmDevUnregisterEffect ==
    ASSUME TypeInv, RmDevUnregister
    PROVE  /\ cmd.step = "unregister" /\ cmd.v \in Vname /\ frame = NULL
           /\ vdev' \in [Vname -> VdevRec] /\ OthersKept(cmd.v)
           /\ vdev'[cmd.v].state = "free" /\ vdev'[cmd.v].fb = "none"
           /\ cmd' \in CmdRec /\ cmd'.step = NULL
           /\ UNCHANGED <<table, mod, chain, refs, alive, hooked, handler, frame>>
<1>1. vdev \in [Vname -> VdevRec] /\ cmd.step = "unregister" /\ cmd.v \in Vname
    BY NoCmdType DEF TypeInv, TypeOK, RmDevUnregister, CmdArgs, Step
<1>2. QED
    BY <1>1, VdevCleared, NoCmdType DEF RmDevUnregister

(* fb_ethvlink_rm_dev starts. *)
LEMMA RmDevEffect ==
    ASSUME TypeInv, NEW v \in Vname, RmDev(v)
    PROVE  /\ cmd.step = NULL /\ vdev[v].state = "listed"
           /\ cmd' \in CmdRec /\ cmd'.step = "unhook" /\ cmd'.v = v
           /\ cmd'.real = vdev[v].real
           /\ UNCHANGED <<table, mod, chain, refs, vdev, alive, hooked, handler, frame>>
<1>1. vdev[v] \in VdevRec
    BY DEF TypeInv, TypeOK
<1>2. vdev[v].real \in Carrier \cup {NULL}
    BY <1>1 DEF VdevRec
<1>3. cmd' \in CmdRec /\ cmd'.step = "unhook" /\ cmd'.v = v /\ cmd'.real = vdev[v].real
    BY <1>2 DEF RmDev, NoCmd, CmdRec, Step, Op
<1>4. QED
    BY <1>3, NoCmdType DEF RmDev, Dispatched, devs

(* The carrier is unhooked with its last device. *)
LEMMA RmDevUnhookEffect ==
    ASSUME TypeInv, RmDevUnhook
    PROVE  /\ cmd.step = "unhook" /\ cmd.v \in Vname
           /\ cmd' \in CmdRec /\ cmd'.step = "unlist" /\ cmd'.v = cmd.v
           /\ cmd'.real = cmd.real
           /\ \/ /\ cmd.real \in hooked
                 /\ hooked' = hooked \ {cmd.real}
                 /\ handler' = [handler EXCEPT ![cmd.real] = NULL]
              \/ /\ UNCHANGED <<hooked, handler>>
                 /\ \/ cmd.real \notin hooked
                    \/ Cardinality({v \in Listed : vdev[v].real = cmd.real}) # 1
           /\ UNCHANGED <<table, mod, chain, refs, vdev, alive, frame>>
<1>1. cmd \in CmdRec /\ cmd.step = "unhook" /\ cmd.v \in Vname
    BY NoCmdType DEF TypeInv, TypeOK, RmDevUnhook, CmdArgs, Step
<1>2. cmd' \in CmdRec /\ cmd'.step = "unlist" /\ cmd'.v = cmd.v /\ cmd'.real = cmd.real
    BY <1>1, CmdStepSet DEF RmDevUnhook, Step
<1>3. QED
    BY <1>1, <1>2 DEF RmDevUnhook

(* Unloading takes away exactly the devices that are listed. *)
LEMMA ExitEffect ==
    ASSUME TypeInv, NEW s \in Subsys, Exit(s)
    PROVE  /\ vdev' \in [Vname -> VdevRec]
           /\ \A v \in Vname :
                  \/ vdev'[v] = vdev[v]
                  \/ v \in Listed /\ vdev'[v].state = "free" /\ vdev'[v].fb = "none"
           /\ \A v \in Vname : vdev'[v].state = "listed" => vdev' = vdev /\ hooked' = hooked
           /\ hooked' \subseteq hooked
           /\ handler' \in [Carrier -> {NULL, EthVlink, "other"}]
           /\ UNCHANGED <<table, chain, refs, alive, cmd, frame>>
<1>1. vdev \in [Vname -> VdevRec] /\ handler \in [Carrier -> {NULL, EthVlink, "other"}]
    BY DEF TypeInv, TypeOK
<1>2. NoVdev \in VdevRec /\ NoVdev.state = "free" /\ NoVdev.fb = "none"
    BY DEF NoVdev, VdevRec
<1>3. CASE s = EthVlink
    <2>1. vdev' = [v \in Vname |-> IF v \in Listed THEN NoVdev ELSE vdev[v]]
        BY <1>3 DEF Exit, Listed
    <2>2. hooked' \subseteq hooked /\ handler' \in [Carrier -> {NULL, EthVlink, "other"}]
        BY <1>1, <1>3 DEF Exit
    <2>3. \A v \in Vname : vdev'[v].state # "listed"
        BY <1>2, <2>1 DEF Listed
    <2>4. QED
        BY <1>1, <1>2, <2>1, <2>2, <2>3 DEF Exit
<1>4. CASE s # EthVlink
    BY <1>1, <1>4 DEF Exit
<1>5. QED
    BY <1>3, <1>4

-----------------------------------------------------------------------------
(* __vlink_add_callback finds its place by counting the callbacks of at    *)
(* least its priority.                                                     *)
Before(ch, op) == {i \in DOMAIN ch : Priority(op) <= Priority(ch[i])}

(* The numbers up to n are n. *)
LEMMA IntervalCount ==
    ASSUME NEW n \in Nat
    PROVE  IsFiniteSet(1 .. n) /\ Cardinality(1 .. n) = n
BY FS_Interval

(* A callback has at most the whole chain before it. *)
LEMMA BeforeCount ==
    ASSUME NEW ch \in Seq(Op), NEW op \in Op
    PROVE  /\ IsFiniteSet(Before(ch, op))
           /\ Cardinality(Before(ch, op)) \in 0 .. Len(ch)
<1>1. Before(ch, op) \in SUBSET (1 .. Len(ch))
    BY DEF Before
<1>2. IsFiniteSet(1 .. Len(ch)) /\ Cardinality(1 .. Len(ch)) = Len(ch)
    <2>1. Len(ch) \in Nat
        OBVIOUS
    <2>2. QED
        BY <2>1, IntervalCount
<1>3. IsFiniteSet(Before(ch, op)) /\ Cardinality(Before(ch, op)) <= Len(ch)
    BY <1>1, <1>2, FS_Subset
<1>4. Cardinality(Before(ch, op)) \in Nat
    BY <1>3, FS_CardinalityType
<1>5. QED
    BY <1>3, <1>4

(* Chains are put together. *)
LEMMA ConcatType ==
    ASSUME NEW a \in Seq(Op), NEW b \in Seq(Op)
    PROVE  a \o b \in Seq(Op) /\ Len(a \o b) = Len(a) + Len(b)
OBVIOUS

(* A callback is inserted at its place, and the rest of the chain stays as *)
(* it is.                                                                  *)
LEMMA InsertedShape ==
    ASSUME NEW ch \in Seq(Op), NEW op \in Op
    PROVE  LET k == Cardinality(Before(ch, op))
               new == Inserted(ch, op)
           IN  /\ k \in 0 .. Len(ch)
               /\ new \in Seq(Op) /\ Len(new) = Len(ch) + 1
               /\ \A i \in 1 .. k : new[i] = ch[i]
               /\ new[k + 1] = op
               /\ \A i \in (k + 2) .. Len(new) : new[i] = ch[i - 1]
<1> DEFINE k == Cardinality(Before(ch, op))
           new == Inserted(ch, op)
<1>1. k \in 0 .. Len(ch)
    BY BeforeCount
<1>2. new = SubSeq(ch, 1, k) \o <<op>> \o SubSeq(ch, k + 1, Len(ch))
    <2>1. new = InsertAt(ch, k + 1, op)
        BY DEF Inserted, Before
    <2>2. InsertAt(ch, k + 1, op) = SubSeq(ch, 1, (k + 1) - 1) \o <<op>> \o SubSeq(ch, k + 1, Len(ch))
        BY DEF InsertAt
    <2>3. (k + 1) - 1 = k
        BY <1>1
    <2>4. QED
        BY <2>1, <2>2, <2>3
<1> HIDE DEF k, new
<1> DEFINE l == SubSeq(ch, 1, k)
           r == SubSeq(ch, k + 1, Len(ch))
<1>3. /\ l \in Seq(Op) /\ Len(l) = k /\ \A i \in 1 .. k : l[i] = ch[i]
    BY <1>1
<1>4. /\ r \in Seq(Op) /\ Len(r) = Len(ch) - k
      /\ \A i \in 1 .. (Len(ch) - k) : r[i] = ch[k + i]
    BY <1>1
<1>5. new = l \o <<op>> \o r
    BY <1>2
<1> HIDE DEF l, r
<1> DEFINE lo == l \o <<op>>
<1>6. /\ lo \in Seq(Op) /\ Len(lo) = k + 1 /\ lo[k + 1] = op
      /\ \A i \in 1 .. k : lo[i] = ch[i]
    BY <1>1, <1>3
<1>7. new = lo \o r
    BY <1>5
<1> HIDE DEF lo
<1>8. new \in Seq(Op) /\ Len(new) = Len(ch) + 1
    <2>1. new \in Seq(Op) /\ Len(new) = Len(lo) + Len(r)
        BY <1>4, <1>6, <1>7, ConcatType
    <2>2. QED
        BY <1>1, <1>4, <1>6, <2>1
<1>9. \A i \in 1 .. (k + 1) : new[i] = lo[i]
    BY <1>1, <1>4, <1>6, <1>7
<1>10. \A i \in (k + 2) .. Len(new) : new[i] = r[i - (k + 1)]
    BY <1>1, <1>4, <1>6, <1>7, <1>8
<1>11. \A i \in (k + 2) .. Len(new) : new[i] = ch[i - 1]
    <2> SUFFICES ASSUME NEW i \in (k + 2) .. Len(new) PROVE new[i] = ch[i - 1]
        OBVIOUS
    <2>1. i - (k + 1) \in 1 .. (Len(ch) - k)
        BY <1>1, <1>8
    <2>2. r[i - (k + 1)] = ch[k + (i - (k + 1))]
        BY <1>4, <2>1
    <2>3. k + (i - (k + 1)) = i - 1
        BY <1>1, <1>8
    <2>4. QED
        BY <1>10, <2>2, <2>3
<1>12. QED
    BY <1>1, <1>6, <1>8, <1>9, <1>11 DEF k, new

(* The chain in the order in which vlink_rcv calls it. *)
Sorted(ch) == \A i, j \in DOMAIN ch : i <= j => Priority(ch[j]) <= Priority(ch[i])

(* A chain that is sorted stays sorted: those of at least the priority are *)
(* its first ones.                                                         *)
LEMMA InsertedSorted ==
    ASSUME NEW ch \in Seq(Op), NEW op \in Op, Sorted(ch)
    PROVE  Sorted(Inserted(ch, op))
<1> DEFINE k == Cardinality(Before(ch, op))
           new == Inserted(ch, op)
<1>1. /\ k \in 0 .. Len(ch)
      /\ new \in Seq(Op) /\ Len(new) = Len(ch) + 1
      /\ \A i \in 1 .. k : new[i] = ch[i]
      /\ new[k + 1] = op
      /\ \A i \in (k + 2) .. Len(new) : new[i] = ch[i - 1]
    BY InsertedShape
<1>2. \A x \in Op : Priority(x) \in Int
    BY DEF Priority
<1>3. Before(ch, op) = 1 .. k
    <2>1. ASSUME NEW i \in Before(ch, op) PROVE i \in 1 .. k
        <3>1. i \in 1 .. Len(ch) /\ Priority(op) <= Priority(ch[i])
            BY DEF Before
        <3>2. ASSUME NEW j \in 1 .. i PROVE j \in Before(ch, op)
            <4>1. j \in DOMAIN ch /\ j <= i /\ ch[i] \in Op /\ ch[j] \in Op
                BY <3>1
            <4>2. Priority(ch[i]) <= Priority(ch[j])
                BY <3>1, <4>1 DEF Sorted
            <4>3. QED
                BY <1>2, <3>1, <4>1, <4>2 DEF Before
        <3>3. 1 .. i \in SUBSET Before(ch, op) /\ IsFiniteSet(Before(ch, op))
            BY <3>2, BeforeCount
        <3>4. Cardinality(1 .. i) <= k
            BY <3>3, FS_Subset
        <3>5. Cardinality(1 .. i) = i
            BY <3>1, IntervalCount
        <3>6. QED
            BY <3>1, <3>4, <3>5
    <2>2. Before(ch, op) \in SUBSET (1 .. k)
        BY <2>1
    <2>3. IsFiniteSet(1 .. k) /\ Cardinality(1 .. k) = k
        <3>1. k \in Nat
            BY <1>1
        <3>2. QED
            BY <3>1, IntervalCount
    <2>4. QED
        BY <2>2, <2>3, FS_Subset
<1> HIDE DEF k, new
<1>4. \A i \in 1 .. k : Priority(op) <= Priority(ch[i])
    BY <1>3 DEF Before
<1>5. \A i \in (k + 1) .. Len(ch) : Priority(ch[i]) <= Priority(op)
    <2> SUFFICES ASSUME NEW i \in (k + 1) .. Len(ch) PROVE Priority(ch[i]) <= Priority(op)
        OBVIOUS
    <2>1. i \in DOMAIN ch /\ i \notin 1 .. k /\ ch[i] \in Op
        BY <1>1
    <2>2. QED
        BY <1>2, <1>3, <2>1 DEF Before
<1>6. \A i, j \in 1 .. Len(ch) : i <= j => Priority(ch[j]) <= Priority(ch[i])
    BY DEF Sorted
<1>7. SUFFICES ASSUME NEW i \in 1 .. Len(new), NEW j \in 1 .. Len(new), i <= j
               PROVE  Priority(new[j]) <= Priority(new[i])
    BY <1>1 DEF Sorted, new
<1>8. CASE j <= k
    BY <1>1, <1>6, <1>7, <1>8
<1>9. CASE j = k + 1
    <2>1. CASE i <= k
        BY <1>1, <1>4, <1>9, <2>1
    <2>2. CASE i = k + 1
        BY <1>1, <1>2, <1>9, <2>2
    <2>3. QED
        BY <1>1, <1>7, <1>9, <2>1, <2>2
<1>10. CASE j >= k + 2
    <2>0. new[j] = ch[j - 1] /\ j - 1 \in (k + 1) .. Len(ch) /\ j - 1 \in 1 .. Len(ch)
        BY <1>1, <1>10
    <2>1. CASE i <= k
        <3>1. new[i] = ch[i] /\ i \in 1 .. Len(ch) /\ i <= j - 1
            BY <1>1, <1>10, <2>1
        <3>2. QED
            BY <1>6, <2>0, <3>1
    <2>2. CASE i = k + 1
        BY <1>1, <1>5, <2>0, <2>2
    <2>3. CASE i >= k + 2
        BY <1>1, <1>6, <1>7, <2>0, <2>3
    <2>4. QED
        BY <1>1, <2>1, <2>2, <2>3
<1>11. QED
    BY <1>1, <1>8, <1>9, <1>10
-----------------------------------------------------------------------------
(* No module is loaded at first. *)
LEMMA TypeInvInit == Init => TypeInv
<1> SUFFICES ASSUME Init PROVE TypeInv
    OBVIOUS
<1>1. NoVdev \in VdevRec
    BY DEF NoVdev, VdevRec
<1>2. cmd \in CmdRec /\ cmd.step = NULL
    BY NoCmdType DEF Init
<1>3. CmdArgs
    BY <1>2, NoCmdType DEF CmdArgs, Step
<1>4. chain \in [Subsys -> Seq(Op)]
    BY DEF Init
<1>5. QED
    BY <1>1, <1>2, <1>3, <1>4 DEF Init, TypeInv, TypeOK

(* The callbacks of a module, one after the other. *)
LEMMA ChainGrows ==
    ASSUME chain \in [Subsys -> Seq(Op)], NEW s \in Subsys,
           Len(chain[s]) < Len(Callbacks(s))
    PROVE  Callbacks(s)[Len(chain[s]) + 1] \in Op
<1>1. Len(chain[s]) \in Nat
    OBVIOUS
<1>2. \A i \in 1 .. Len(Callbacks(s)) : Callbacks(s)[i] \in Op
    BY DEF Callbacks, Op
<1>3. Len(Callbacks(s)) \in Nat
    BY DEF Callbacks
<1>4. QED
    BY <1>1, <1>2, <1>3

(* Every step keeps the types. *)
LEMMA TypeInvStep ==
    ASSUME TypeInv, [Next]_vars
    PROVE  TypeInv'
<1>t. /\ table \in [Slot -> Subsys \cup {NULL}]
      /\ mod \in [Subsys -> {"out", "loading", "in", "going"}]
      /\ chain \in [Subsys -> Seq(Op)]
      /\ refs \in Int
      /\ vdev \in [Vname -> VdevRec]
      /\ alive \subseteq Carrier /\ hooked \subseteq Carrier
      /\ handler \in [Carrier -> {NULL, EthVlink, "other"}]
      /\ cmd \in CmdRec /\ frame \in Vname \cup {NULL}
      /\ CmdArgs
    BY DEF TypeInv, TypeOK
<1>n. NULL \notin Step
    BY NoCmdType
<1>1. ASSUME NEW s \in Subsys, SubsysRegister(s) PROVE TypeInv'
    BY <1>1, <1>t DEF SubsysRegister, devs, TypeInv, TypeOK, CmdArgs
<1>2. ASSUME NEW s \in Subsys, AddCallback(s) PROVE TypeInv'
    <2>1. chain' \in [Subsys -> Seq(Op)]
        <3>1. CASE chain' = chain
            BY <1>t, <3>1
        <3>2. CASE /\ Len(chain[s]) < Len(Callbacks(s))
                   /\ chain' = [chain EXCEPT ![s] = Inserted(@, Callbacks(s)[Len(@) + 1])]
            <4>1. Callbacks(s)[Len(chain[s]) + 1] \in Op
                BY <1>t, <3>2, ChainGrows
            <4>2. Inserted(chain[s], Callbacks(s)[Len(chain[s]) + 1]) \in Seq(Op)
                BY <1>t, <4>1, InsertedShape
            <4>3. QED
                BY <1>t, <3>2, <4>2
        <3>3. QED
            BY <1>2, <3>1, <3>2 DEF AddCallback
    <2>2. mod' \in [Subsys -> {"out", "loading", "in", "going"}]
        BY <1>2, <1>t DEF AddCallback
    <2>3. QED
        BY <1>2, <1>t, <2>1, <2>2 DEF AddCallback, devs, TypeInv, TypeOK, CmdArgs
<1>3. ASSUME NEW s \in Subsys, Exit(s) PROVE TypeInv'
    <2>1. mod' \in [Subsys -> {"out", "loading", "in", "going"}]
        BY <1>3, <1>t DEF Exit
    <2>2. QED
        BY <1>3, <1>t, <2>1, ExitEffect DEF TypeInv, TypeOK, CmdArgs
<1>4. ASSUME NEW s \in Subsys, SubsysUnregisterBatch(s) PROVE TypeInv'
    BY <1>4, <1>t DEF SubsysUnregisterBatch, devs, TypeInv, TypeOK, CmdArgs
<1>5. ASSUME NEW v \in Vname, NEW c \in Carrier, NEW t \in Tag, AddDev(v, c, t) PROVE TypeInv'
    BY <1>5, <1>t, AddDevEffect DEF TypeInv, TypeOK, CmdArgs
<1>6. CASE AddDevBuild
    BY <1>6, <1>t, <1>n, AddDevBuildEffect
       DEF BuildDone, BuildFailed, TypeInv, TypeOK, CmdArgs, Step
<1>7. CASE AddDevPublish
    BY <1>7, <1>t, <1>n, AddDevPublishEffect DEF TypeInv, TypeOK, CmdArgs, Step
<1>8. ASSUME NEW c \in Carrier, StartHookDev(c) PROVE TypeInv'
    BY <1>8, <1>t DEF StartHookDev, TypeInv, TypeOK, CmdArgs
<1>9. ASSUME NEW c \in Carrier, StopHookDev(c) PROVE TypeInv'
    BY <1>9, <1>t DEF StopHookDev, TypeInv, TypeOK, CmdArgs
<1>10. ASSUME NEW v \in Vname, RmDev(v) PROVE TypeInv'
    BY <1>10, <1>t, RmDevEffect DEF TypeInv, TypeOK, CmdArgs
<1>11. CASE RmDevUnhook
    <2>1. handler' \in [Carrier -> {NULL, EthVlink, "other"}] /\ hooked' \subseteq Carrier
        BY <1>11, <1>t, RmDevUnhookEffect
    <2>2. QED
        BY <1>11, <1>t, <2>1, RmDevUnhookEffect DEF TypeInv, TypeOK, CmdArgs
<1>12. CASE RmDevUnlist
    BY <1>12, <1>t, RmDevUnlistEffect DEF TypeInv, TypeOK, CmdArgs
<1>13. CASE RmDevDestroy
    BY <1>13, <1>t, RmDevDestroyEffect DEF TypeInv, TypeOK, CmdArgs
<1>14. CASE RmDevUnregister
    BY <1>14, <1>t, <1>n, RmDevUnregisterEffect DEF TypeInv, TypeOK, CmdArgs, Step
<1>15. ASSUME NEW c \in Carrier, CarrierGone(c) PROVE TypeInv'
    BY <1>15, <1>t DEF CarrierGone, TypeInv, TypeOK, CmdArgs
<1>16. ASSUME NEW c \in Carrier, OtherHandler(c) PROVE TypeInv'
    BY <1>16, <1>t DEF OtherHandler, TypeInv, TypeOK, CmdArgs
<1>17. ASSUME NEW c \in Carrier, NEW t \in Tag, HandleFrame(c, t) PROVE TypeInv'
    BY <1>17, <1>t DEF HandleFrame, Listed, devs, TypeInv, TypeOK, CmdArgs
<1>18. CASE HandleFrameVirt
    BY <1>18, <1>t DEF HandleFrameVirt, devs, TypeInv, TypeOK, CmdArgs
<1>19. CASE UNCHANGED vars
    BY <1>19, <1>t DEF vars, TypeInv, TypeOK, CmdArgs
<1>20. QED
    BY <1>1, <1>2, <1>3, <1>4, <1>5, <1>6, <1>7, <1>8, <1>9, <1>10, <1>11, <1>12, <1>13,
       <1>14, <1>15, <1>16, <1>17, <1>18, <1>19 DEF Next

(* The tables of xt_vlink.c and fb_ethvlink.c are well-typed in every      *)
(* state, whatever modules, devices and commands there are.                *)
THEOREM TypeCorrect == Spec => []TypeOK
<1>1. TypeInv => TypeOK
    BY DEF TypeInv
<1>2. QED
    BY <1>1, TypeInvInit, TypeInvStep, PTL DEF Spec

-----------------------------------------------------------------------------
(* Steps that leave the devices and the command alone. *)
LEMMA QuietStep ==
    ASSUME TypeInv,
           \/ \E s \in Subsys : SubsysRegister(s) \/ AddCallback(s) \/ SubsysUnregisterBatch(s)
           \/ \E c \in Carrier : StartHookDev(c) \/ StopHookDev(c) \/ CarrierGone(c) \/ OtherHandler(c)
           \/ \E c \in Carrier, t \in Tag : HandleFrame(c, t)
           \/ HandleFrameVirt
           \/ UNCHANGED vars
    PROVE  vdev' = vdev /\ cmd' = cmd
BY DEF SubsysRegister, AddCallback, SubsysUnregisterBatch, StartHookDev, StopHookDev,
       CarrierGone, OtherHandler, HandleFrame, HandleFrameVirt, devs, vars

(* There are no devices at first. *)
LEMMA TagInit == Init => TagInv
<1> SUFFICES ASSUME Init PROVE TagInv
    OBVIOUS
<1>1. cmd.step = NULL /\ NULL \notin Step
    BY NoCmdType DEF Init
<1>2. Listed = {}
    BY DEF Init, NoVdev, Listed
<1>3. QED
    BY <1>1, <1>2 DEF TagInv, Adding, Built, TagsUnique, Step

(* Every step keeps the tags apart. *)
LEMMA TagStep ==
    ASSUME TypeInv, TagInv, [Next]_vars
    PROVE  TagInv'
<1>i. Adding /\ Built /\ TagsUnique
    BY DEF TagInv
<1>n. NULL \notin Step
    BY NoCmdType
<1> USE DEF Adding, Built, TagsUnique, Listed, Step, OthersKept
<1>1. ASSUME vdev' = vdev, cmd' = cmd PROVE TagInv'
    BY <1>1, <1>i DEF TagInv
<1>3. ASSUME NEW s \in Subsys, Exit(s) PROVE TagInv'
    <2>1. /\ cmd' = cmd
          /\ \A v \in Vname : \/ vdev'[v] = vdev[v]
                              \/ vdev[v].state = "listed" /\ vdev'[v].state = "free"
        BY <1>3, ExitEffect
    <2>2. cmd.step \in {"build", "publish"} => cmd.v \in Vname
        BY <1>n DEF TypeInv, CmdArgs
    <2>3. Adding' /\ Built'
        BY <1>i, <2>1, <2>2
    <2>4. TagsUnique'
        BY <1>i, <2>1
    <2>5. QED
        BY <2>3, <2>4 DEF TagInv
<1>5. ASSUME NEW v \in Vname, NEW c \in Carrier, NEW t \in Tag, AddDev(v, c, t) PROVE TagInv'
    <2>1. /\ \A w \in Listed : vdev[w].tag # t
          /\ \A w \in Vname : w # v => vdev'[w] = vdev[w]
          /\ vdev'[v].state = "reg"
          /\ cmd'.step = "build" /\ cmd'.v = v /\ cmd'.tag = t
        BY <1>5, AddDevEffect
    <2>2. QED
        BY <1>i, <2>1 DEF TagInv
<1>6. CASE AddDevBuild
    <2>1. /\ cmd.step = "build" /\ cmd.v \in Vname
          /\ \A w \in Vname : w # cmd.v => vdev'[w] = vdev[w]
          /\ BuildDone \/ BuildFailed
        BY <1>6, AddDevBuildEffect
    <2>2. vdev[cmd.v].state = "reg"
        BY <1>i, <2>1
    <2>3. CASE BuildDone
        BY <1>i, <2>1, <2>2, <2>3 DEF BuildDone, TagInv
    <2>4. CASE BuildFailed
        BY <1>i, <1>n, <2>1, <2>4 DEF BuildFailed, TagInv
    <2>5. QED
        BY <2>1, <2>3, <2>4
<1>7. CASE AddDevPublish
    <2>1. /\ cmd.step = "publish" /\ cmd.v \in Vname
          /\ \A w \in Vname : w # cmd.v => vdev'[w] = vdev[w]
          /\ vdev'[cmd.v].tag = vdev[cmd.v].tag /\ cmd'.step = NULL
        BY <1>7, AddDevPublishEffect
    <2>2. vdev'[cmd.v].tag = cmd.tag /\ \A w \in Listed : vdev[w].tag # cmd.tag
        BY <1>i, <2>1
    <2>3. TagsUnique'
        BY <1>i, <2>1, <2>2
    <2>4. QED
        BY <1>n, <2>1, <2>3 DEF TagInv
<1>10. ASSUME NEW v \in Vname, RmDev(v) PROVE TagInv'
    <2>1. vdev' = vdev /\ cmd'.step = "unhook"
        BY <1>10, RmDevEffect
    <2>2. QED
        BY <1>i, <2>1 DEF TagInv
<1>11. CASE RmDevUnhook
    <2>1. vdev' = vdev /\ cmd'.step = "unlist"
        BY <1>11, RmDevUnhookEffect
    <2>2. QED
        BY <1>i, <2>1 DEF TagInv
<1>12. CASE RmDevUnlist
    <2>1. /\ \A w \in Vname : w # cmd.v => vdev'[w] = vdev[w]
          /\ vdev'[cmd.v].state = "unlisted" /\ cmd'.step = "destroy"
        BY <1>12, RmDevUnlistEffect
    <2>2. QED
        BY <1>i, <2>1 DEF TagInv
<1>13. CASE RmDevDestroy
    <2>1. /\ \A w \in Vname : w # cmd.v => vdev'[w] = vdev[w]
          /\ vdev'[cmd.v].state = vdev[cmd.v].state /\ vdev'[cmd.v].tag = vdev[cmd.v].tag
          /\ cmd'.step = "unregister"
        BY <1>13, RmDevDestroyEffect
    <2>2. QED
        BY <1>i, <2>1 DEF TagInv
<1>14. CASE RmDevUnregister
    <2>1. /\ \A w \in Vname : w # cmd.v => vdev'[w] = vdev[w]
          /\ vdev'[cmd.v].state = "free" /\ cmd'.step = NULL
        BY <1>14, RmDevUnregisterEffect
    <2>2. QED
        BY <1>i, <1>n, <2>1 DEF TagInv
<1>20. QED
    BY <1>1, <1>3, <1>5, <1>6, <1>7, <1>10, <1>11, <1>12, <1>13, <1>14, QuietStep DEF Next

(* A frame's tag leads to at most one listed device: fb_ethvlink_add_dev   *)
(* searches the list for the tag and publishes the device much later, but  *)
(* what it has found stays true in between.                                *)
THEOREM TagLeadsToOneDevice == Spec => []TagsUnique
<1>1. TypeInv /\ TagInv /\ [Next]_vars => TagInv'
    BY TagStep
<1>2. TagInv => TagsUnique
    BY DEF TagInv
<1>3. QED
    BY TypeInvInit, TypeInvStep, TagInit, <1>1, <1>2, PTL DEF Spec
-----------------------------------------------------------------------------
(* The hooks. *)
LEMMA HookStep ==
    ASSUME TypeInv, HookExact, [Next]_vars
    PROVE  HookExact'
<1>t. /\ handler \in [Carrier -> {NULL, EthVlink, "other"}] /\ hooked \subseteq Carrier
      /\ EthVlink # NULL /\ EthVlink # "other" /\ NULL # "other"
    BY SubsysAssumption, NullAssumption DEF TypeInv, TypeOK
<1>i. \A c \in Carrier : c \in hooked <=> handler[c] = EthVlink
    BY DEF HookExact
<1>1. ASSUME hooked' = hooked, handler' = handler PROVE HookExact'
    BY <1>1, <1>i DEF HookExact
<1>2. ASSUME NEW s \in Subsys, SubsysRegister(s) \/ AddCallback(s) \/ SubsysUnregisterBatch(s)
      PROVE  HookExact'
    BY <1>1, <1>2 DEF SubsysRegister, AddCallback, SubsysUnregisterBatch, devs
<1>3. ASSUME NEW s \in Subsys, Exit(s) PROVE HookExact'
    <2> DEFINE real == {vdev[v].real : v \in {v \in Vname : vdev[v].state = "listed"}} \cap hooked
    <2>1. CASE s = EthVlink
        <3>1. /\ hooked' = hooked \ real
              /\ handler' = [c \in Carrier |-> IF c \in real THEN NULL ELSE handler[c]]
            BY <1>3, <2>1 DEF Exit
        <3> HIDE DEF real
        <3>2. QED
            BY <1>t, <1>i, <3>1 DEF HookExact
    <2>2. CASE s # EthVlink
        BY <1>1, <1>3, <2>2 DEF Exit
    <2>3. QED
        BY <2>1, <2>2
<1>4. ASSUME NEW v \in Vname, NEW c \in Carrier, NEW t \in Tag, AddDev(v, c, t) PROVE HookExact'
    BY <1>1, <1>4 DEF AddDev
<1>5. CASE AddDevBuild \/ AddDevPublish \/ RmDevUnlist \/ RmDevDestroy \/ RmDevUnregister
    BY <1>1, <1>5 DEF AddDevBuild, AddDevPublish, RmDevUnlist, RmDevDestroy, RmDevUnregister
<1>6. ASSUME NEW c \in Carrier, StartHookDev(c) PROVE HookExact'
    BY <1>6, <1>t, <1>i DEF StartHookDev, HookExact
<1>7. ASSUME NEW c \in Carrier, StopHookDev(c) PROVE HookExact'
    BY <1>7, <1>t, <1>i DEF StopHookDev, HookExact
<1>8. ASSUME NEW v \in Vname, RmDev(v) PROVE HookExact'
    BY <1>1, <1>8 DEF RmDev, devs
<1>9. CASE RmDevUnhook
    BY <1>9, <1>t, <1>i, RmDevUnhookEffect DEF HookExact
<1>10. ASSUME NEW c \in Carrier, CarrierGone(c) PROVE HookExact'
    BY <1>10, <1>t, <1>i DEF CarrierGone, HookExact
<1>11. ASSUME NEW c \in Carrier, OtherHandler(c) PROVE HookExact'
    BY <1>11, <1>t, <1>i DEF OtherHandler, HookExact
<1>12. ASSUME NEW c \in Carrier, NEW t \in Tag, HandleFrame(c, t) PROVE HookExact'
    BY <1>1, <1>12 DEF HandleFrame, devs
<1>13. CASE HandleFrameVirt
    BY <1>1, <1>13 DEF HandleFrameVirt, devs
<1>14. CASE UNCHANGED vars
    BY <1>1, <1>14 DEF vars
<1>15. QED
    BY <1>2, <1>3, <1>4, <1>5, <1>6, <1>7, <1>8, <1>9, <1>10, <1>11, <1>12, <1>13, <1>14
       DEF Next

(* The flag IFF_VLINK_MAS of a carrier, which fb_ethvlink_start_hook_dev,  *)
(* fb_ethvlink_stop_hook_dev and fb_ethvlink_rm_dev test, is set exactly   *)
(* when the carrier has our receive handler, whoever else takes handlers,  *)
(* whatever carriers vanish and even if hooks are stopped that are not     *)
(* there.                                                                  *)
THEOREM FlagTellsHandler == Spec => []HookExact
<1>1. Init => HookExact
    BY SubsysAssumption DEF Init, HookExact
<1>2. TypeInv /\ HookExact /\ [Next]_vars => HookExact'
    BY HookStep
<1>3. QED
    BY TypeInvInit, TypeInvStep, <1>1, <1>2, PTL DEF Spec

-----------------------------------------------------------------------------
(* The clients of a carrier. *)
LEMMA ClientInit == Init => ClientInv
BY NoCmdType DEF Init, ClientInv, Removing, Unhooked, Step

(* Every step keeps the devices of a carrier in order. *)
LEMMA ClientStep ==
    ASSUME TypeInv, ClientInv, [Next]_vars
    PROVE  ClientInv'
<1>i. Removing /\ Unhooked
    BY DEF ClientInv
<1>n. NULL \notin Step
    BY NoCmdType
<1>v. cmd.step \in {"unhook", "unlist"} => cmd.v \in Vname
    BY <1>n DEF TypeInv, CmdArgs, Step
<1> USE DEF Removing, Unhooked, Listed, Step, OthersKept
<1>1. ASSUME vdev' = vdev, cmd' = cmd, hooked' \subseteq hooked PROVE ClientInv'
    BY <1>1, <1>i DEF ClientInv
<1>2. ASSUME NEW s \in Subsys, SubsysRegister(s) \/ AddCallback(s) \/ SubsysUnregisterBatch(s)
      PROVE  ClientInv'
    BY <1>1, <1>2 DEF SubsysRegister, AddCallback, SubsysUnregisterBatch, devs
<1>3. ASSUME NEW s \in Subsys, Exit(s) PROVE ClientInv'
    <2>1. cmd' = cmd
        BY <1>3, ExitEffect
    <2>2. CASE cmd.step \in {"unhook", "unlist"} /\ vdev'[cmd.v].state = "listed"
        <3>1. vdev' = vdev /\ hooked' = hooked
            BY <1>3, <1>v, <2>2, ExitEffect
        <3>2. QED
            BY <1>1, <2>1, <3>1
    <2>3. CASE ~(cmd.step \in {"unhook", "unlist"} /\ vdev'[cmd.v].state = "listed")
        BY <2>1, <2>3 DEF ClientInv
    <2>4. QED
        BY <2>2, <2>3
<1>4. ASSUME NEW v \in Vname, NEW c \in Carrier, NEW t \in Tag, AddDev(v, c, t) PROVE ClientInv'
    <2>1. cmd'.step = "build"
        BY <1>4, AddDevEffect
    <2>2. QED
        BY <2>1 DEF ClientInv
<1>5. CASE AddDevBuild
    <2>1. cmd'.step \in {NULL, "publish"}
        BY <1>5, AddDevBuildEffect DEF BuildDone, BuildFailed
    <2>2. QED
        BY <1>n, <2>1 DEF ClientInv
<1>6. CASE AddDevPublish
    <2>1. cmd'.step = NULL
        BY <1>6, AddDevPublishEffect
    <2>2. QED
        BY <1>n, <2>1 DEF ClientInv
<1>7. ASSUME NEW c \in Carrier, StartHookDev(c) PROVE ClientInv'
    <2>1. cmd' = cmd /\ cmd.step = NULL
        BY <1>7, NoCmdType DEF StartHookDev, Dispatched
    <2>2. QED
        BY <1>n, <2>1 DEF ClientInv
<1>8. ASSUME NEW c \in Carrier, StopHookDev(c) \/ CarrierGone(c) \/ OtherHandler(c)
      PROVE  ClientInv'
    BY <1>1, <1>8 DEF StopHookDev, CarrierGone, OtherHandler
<1>9. ASSUME NEW v \in Vname, RmDev(v) PROVE ClientInv'
    <2>1. vdev' = vdev /\ cmd'.step = "unhook" /\ cmd'.v = v /\ cmd'.real = vdev[v].real
        BY <1>9, RmDevEffect
    <2>2. QED
        BY <2>1 DEF ClientInv
<1>10. CASE RmDevUnhook
    <2> DEFINE clients == {v \in Listed : vdev[v].real = cmd.real}
    <2>1. /\ cmd.step = "unhook" /\ cmd.v \in Vname /\ vdev' = vdev
          /\ cmd'.step = "unlist" /\ cmd'.v = cmd.v /\ cmd'.real = cmd.real
        BY <1>10, RmDevUnhookEffect
    <2>2. \/ hooked' = hooked \ {cmd.real}
          \/ hooked' = hooked /\ (cmd.real \notin hooked \/ Cardinality(clients) # 1)
        BY <1>10, RmDevUnhookEffect
    <2>3. Removing'
        BY <1>i, <2>1
    <2>4. ASSUME vdev[cmd.v].state = "listed", cmd.real \in hooked'
          PROVE  \E w \in Listed : w # cmd.v /\ vdev[w].real = cmd.real
        <3>1. Cardinality(clients) # 1
            BY <2>2, <2>4
        <3>2. clients # {cmd.v}
            BY <3>1, FS_Singleton
        <3>3. cmd.v \in clients
            BY <1>i, <2>1, <2>4
        <3>4. QED
            BY <3>2, <3>3
    <2>5. Unhooked'
        BY <2>1, <2>4
    <2>6. QED
        BY <2>3, <2>5 DEF ClientInv
<1>11. CASE RmDevUnlist
    <2>1. cmd'.step = "destroy"
        BY <1>11, RmDevUnlistEffect
    <2>2. QED
        BY <2>1 DEF ClientInv
<1>12. CASE RmDevDestroy
    <2>1. cmd'.step = "unregister"
        BY <1>12, RmDevDestroyEffect
    <2>2. QED
        BY <2>1 DEF ClientInv
<1>13. CASE RmDevUnregister
    <2>1. cmd'.step = NULL
        BY <1>13, RmDevUnregisterEffect
    <2>2. QED
        BY <1>n, <2>1 DEF ClientInv
<1>14. ASSUME NEW c \in Carrier, NEW t \in Tag, HandleFrame(c, t) PROVE ClientInv'
    BY <1>1, <1>14 DEF HandleFrame, devs
<1>15. CASE HandleFrameVirt
    BY <1>1, <1>15 DEF HandleFrameVirt, devs
<1>16. CASE UNCHANGED vars
    BY <1>1, <1>16 DEF vars
<1>17. QED
    BY <1>2, <1>3, <1>4, <1>5, <1>6, <1>7, <1>8, <1>9, <1>10, <1>11, <1>12, <1>13, <1>14,
       <1>15, <1>16 DEF Next

(* Who is taken off the list leaves a companion or no hook. *)
UnlistUnhooks ==
    \A v \in Vname :
        (vdev[v].state = "listed" /\ vdev'[v].state = "unlisted")
            => \/ vdev[v].real \notin hooked'
               \/ \E w \in Listed : w # v /\ vdev[w].real = vdev[v].real

(* A device that is the last of its carrier takes the hook along. *)
LEMMA UnlistStep ==
    ASSUME TypeInv, ClientInv, [Next]_vars
    PROVE  UnlistUnhooks
<1> USE DEF UnlistUnhooks, OthersKept
<1>1. ASSUME vdev' = vdev PROVE UnlistUnhooks
    BY <1>1
<1>2. ASSUME NEW s \in Subsys, Exit(s) PROVE UnlistUnhooks
    <2>1. \A v \in Vname : vdev'[v] = vdev[v] \/ vdev'[v].state = "free"
        BY <1>2, ExitEffect
    <2>2. QED
        BY <2>1
<1>3. ASSUME NEW v \in Vname, NEW c \in Carrier, NEW t \in Tag, AddDev(v, c, t)
      PROVE  UnlistUnhooks
    BY <1>3, AddDevEffect
<1>4. CASE AddDevBuild
    <2>1. /\ \A w \in Vname : w # cmd.v => vdev'[w] = vdev[w]
          /\ vdev'[cmd.v].state = vdev[cmd.v].state \/ vdev'[cmd.v].state = "free"
        BY <1>4, AddDevBuildEffect DEF BuildDone, BuildFailed
    <2>2. QED
        BY <2>1
<1>5. CASE AddDevPublish
    BY <1>5, AddDevPublishEffect
<1>6. ASSUME NEW v \in Vname, RmDev(v) PROVE UnlistUnhooks
    BY <1>1, <1>6, RmDevEffect
<1>7. CASE RmDevUnhook
    BY <1>1, <1>7, RmDevUnhookEffect
<1>8. CASE RmDevUnlist
    <2>1. /\ cmd.step = "unlist" /\ hooked' = hooked
          /\ \A w \in Vname : w # cmd.v => vdev'[w] = vdev[w]
        BY <1>8, RmDevUnlistEffect
    <2>2. QED
        BY <2>1 DEF ClientInv, Removing, Unhooked
<1>9. CASE RmDevDestroy
    BY <1>9, RmDevDestroyEffect
<1>10. CASE RmDevUnregister
    BY <1>10, RmDevUnregisterEffect
<1>11. QED
    BY <1>1, <1>2, <1>3, <1>4, <1>5, <1>6, <1>7, <1>8, <1>9, <1>10, QuietStep DEF Next

(* When fb_ethvlink_rm_dev takes the last device of a carrier off the      *)
(* list, the carrier has no hook of ours any more: the count of clients is *)
(* made one step earlier, and the mutex keeps it true.                     *)
THEOREM LastClientTakesHookDown == Spec => LastClientUnhooks
<1>1. TypeInv /\ ClientInv /\ [Next]_vars => [UnlistUnhooks]_vars
    BY UnlistStep
<1>2. TypeInv /\ ClientInv /\ [Next]_vars => ClientInv'
    BY ClientStep
<1>3. [][UnlistUnhooks]_vars => LastClientUnhooks
    BY PTL DEF LastClientUnhooks, UnlistUnhooks
<1>4. QED
    BY TypeInvInit, TypeInvStep, ClientInit, <1>1, <1>2, <1>3, PTL DEF Spec
-----------------------------------------------------------------------------
(* The blocks and the references, when nobody stops hooks that are not     *)
(* there.                                                                  *)
LEMMA CountTypes ==
    ASSUME TypeInv
    PROVE  /\ IsFiniteSet(HasBlock) /\ Cardinality(HasBlock) \in Nat
           /\ IsFiniteSet(hooked) /\ Cardinality(hooked) \in Nat
           /\ refs \in Int
<1>1. HasBlock \in SUBSET Vname /\ hooked \in SUBSET Carrier /\ refs \in Int
    BY DEF HasBlock, TypeInv, TypeOK
<1>2. IsFiniteSet(HasBlock) /\ IsFiniteSet(hooked)
    BY <1>1, FiniteAssumption, FS_Subset
<1>3. QED
    BY <1>1, <1>2, FS_CardinalityType

(* Fewer blocks and hooks need no more references. *)
LEMMA RefsKept ==
    ASSUME TypeInv, RefsHeld, HasBlock' \subseteq HasBlock, hooked' \subseteq hooked, refs' = refs
    PROVE  RefsHeld'
<1>1. /\ IsFiniteSet(HasBlock) /\ Cardinality(HasBlock) \in Nat
      /\ IsFiniteSet(hooked) /\ Cardinality(hooked) \in Nat
      /\ refs \in Int
    BY CountTypes
<1>2. /\ IsFiniteSet(HasBlock') /\ Cardinality(HasBlock') <= Cardinality(HasBlock)
      /\ IsFiniteSet(hooked') /\ Cardinality(hooked') <= Cardinality(hooked)
    BY <1>1, FS_Subset
<1>3. Cardinality(HasBlock') \in Nat /\ Cardinality(hooked') \in Nat
    BY <1>2, FS_CardinalityType
<1>4. QED
    BY <1>1, <1>2, <1>3 DEF RefsHeld

(* Without references there is nothing to take away when the module is     *)
(* unloaded.                                                               *)
LEMMA ExitIdle ==
    ASSUME TypeInv, BlockInv, NEW s \in Subsys, Exit(s)
    PROVE  UNCHANGED <<vdev, hooked, refs, cmd, frame>>
<1>1. UNCHANGED <<refs, cmd, frame>>
    BY DEF Exit
<1>2. CASE s = EthVlink
    <2>1. refs = 0
        BY <1>2 DEF Exit
    <2>2. Cardinality(HasBlock) = 0 /\ Cardinality(hooked) = 0
        BY <2>1, CountTypes DEF BlockInv, RefsHeld
    <2>3. HasBlock = {} /\ hooked = {}
        BY <2>2, CountTypes, FS_EmptySet
    <2>4. Listed = {}
        BY <2>3 DEF BlockInv, ListedLive, HasBlock, Listed
    <2>5. hooked' = hooked
        BY <2>3, ExitEffect
    <2>6. \A v \in Vname : vdev'[v] = vdev[v]
        BY <2>4, ExitEffect
    <2>7. vdev' = vdev
        <3>1. vdev \in [Vname -> VdevRec] /\ vdev' \in [Vname -> VdevRec]
            BY ExitEffect DEF TypeInv, TypeOK
        <3>2. QED
            BY <2>6, <3>1
    <2>8. QED
        BY <1>1, <2>5, <2>7
<1>3. CASE s # EthVlink
    BY <1>1, <1>3 DEF Exit
<1>4. QED
    BY <1>2, <1>3

(* There are no blocks at first. *)
LEMMA BlockInit == Init => BlockInv
<1> SUFFICES ASSUME Init PROVE BlockInv
    OBVIOUS
<1>1. cmd.step = NULL /\ NULL \notin Step
    BY NoCmdType DEF Init
<1>2. \A v \in Vname : vdev[v].state = "free" /\ vdev[v].fb = "none"
    BY DEF Init, NoVdev
<1>3. HasBlock = {} /\ hooked = {} /\ refs = 0 /\ frame = NULL
    BY <1>2 DEF Init, HasBlock
<1>4. RefsHeld
    BY <1>3, FS_EmptySet DEF RefsHeld
<1>5. QED
    BY <1>1, <1>2, <1>3, <1>4
       DEF BlockInv, FreeBare, ListedLive, CmdBlock, FrameMeetsBlock, Listed, Step

(* Every step keeps blocks and references together. *)
LEMMA BlockStep ==
    ASSUME StrayStop = FALSE, TypeInv, BlockInv, [Next]_vars
    PROVE  BlockInv'
<1>i. FreeBare /\ ListedLive /\ CmdBlock /\ RefsHeld /\ FrameMeetsBlock
    BY DEF BlockInv
<1>n. NULL \notin Step /\ NULL \notin Vname /\ frame \in Vname \cup {NULL}
    BY NoCmdType, NullAssumption DEF TypeInv, TypeOK
<1>c. /\ IsFiniteSet(HasBlock) /\ Cardinality(HasBlock) \in Nat
      /\ IsFiniteSet(hooked) /\ Cardinality(hooked) \in Nat
      /\ refs \in Int
    BY CountTypes
<1> USE DEF FreeBare, ListedLive, CmdBlock, FrameMeetsBlock, Listed, OthersKept
<1>1. ASSUME UNCHANGED <<vdev, cmd, frame, refs>>, hooked' \subseteq hooked PROVE BlockInv'
    <2>1. RefsHeld'
        BY <1>1, <1>i, RefsKept DEF HasBlock
    <2>2. QED
        BY <1>1, <1>i, <2>1 DEF BlockInv
<1>2. ASSUME NEW s \in Subsys, SubsysRegister(s) \/ AddCallback(s) \/ SubsysUnregisterBatch(s)
      PROVE  BlockInv'
    BY <1>1, <1>2 DEF SubsysRegister, AddCallback, SubsysUnregisterBatch, devs
<1>3. ASSUME NEW s \in Subsys, Exit(s) PROVE BlockInv'
    BY <1>1, <1>3, ExitIdle
<1>4. ASSUME NEW v \in Vname, NEW c \in Carrier, NEW t \in Tag, AddDev(v, c, t) PROVE BlockInv'
    <2>1. /\ vdev[v].state = "free"
          /\ \A w \in Vname : w # v => vdev'[w] = vdev[w]
          /\ vdev'[v].state = "reg" /\ vdev'[v].fb = vdev[v].fb
          /\ cmd'.step = "build" /\ cmd'.v = v
          /\ UNCHANGED <<refs, hooked, frame>>
        BY <1>4, AddDevEffect
    <2>2. RefsHeld'
        BY <1>i, <2>1, RefsKept DEF HasBlock
    <2>3. QED
        BY <1>i, <1>n, <2>1, <2>2 DEF BlockInv
<1>5. CASE AddDevBuild
    <2>1. /\ cmd.step = "build" /\ cmd.v \in Vname
          /\ \A w \in Vname : w # cmd.v => vdev'[w] = vdev[w]
          /\ BuildDone \/ BuildFailed
          /\ UNCHANGED <<hooked, frame>>
        BY <1>5, AddDevBuildEffect
    <2>2. vdev[cmd.v].state = "reg" /\ vdev[cmd.v].fb = "none"
        BY <1>i, <2>1
    <2>3. CASE BuildDone
        <3>1. /\ vdev'[cmd.v].state = "reg" /\ vdev'[cmd.v].fb = "live" /\ refs' = refs + 1
              /\ cmd'.step = "publish" /\ cmd'.v = cmd.v
            BY <2>2, <2>3 DEF BuildDone
        <3>2. HasBlock' = HasBlock \cup {cmd.v}
            BY <2>1, <3>1 DEF HasBlock
        <3>3. cmd.v \notin HasBlock
            BY <2>2 DEF HasBlock
        <3>4. Cardinality(HasBlock') = Cardinality(HasBlock) + 1
            BY <1>c, <3>2, <3>3, FS_AddElement
        <3>5. RefsHeld'
            BY <1>c, <1>i, <2>1, <3>1, <3>4 DEF RefsHeld
        <3>6. QED
            BY <1>i, <1>n, <2>1, <3>1, <3>5 DEF BlockInv
    <2>4. CASE BuildFailed
        <3>1. /\ vdev'[cmd.v].state = "free" /\ vdev'[cmd.v].fb = "none" /\ refs' = refs
              /\ cmd'.step = NULL
            BY <2>4 DEF BuildFailed
        <3>2. RefsHeld'
            BY <1>i, <2>1, <3>1, RefsKept DEF HasBlock
        <3>3. FrameMeetsBlock'
            BY <1>i, <1>n, <2>1, <2>2
        <3>4. QED
            BY <1>i, <1>n, <2>1, <3>1, <3>2, <3>3 DEF BlockInv, Step
    <2>5. QED
        BY <2>1, <2>3, <2>4
<1>6. CASE AddDevPublish
    <2>1. /\ cmd.step = "publish" /\ cmd.v \in Vname
          /\ \A w \in Vname : w # cmd.v => vdev'[w] = vdev[w]
          /\ vdev'[cmd.v].state = "listed" /\ vdev'[cmd.v].fb = vdev[cmd.v].fb
          /\ cmd'.step = NULL /\ UNCHANGED <<refs, hooked, frame>>
        BY <1>6, AddDevPublishEffect
    <2>2. RefsHeld'
        BY <1>i, <2>1, RefsKept DEF HasBlock
    <2>3. QED
        BY <1>i, <1>n, <2>1, <2>2 DEF BlockInv, Step
<1>7. ASSUME NEW c \in Carrier, StartHookDev(c) PROVE BlockInv'
    <2>1. UNCHANGED <<vdev, cmd, frame>> /\ refs' = refs + 1 /\ hooked' = hooked \cup {c}
        BY <1>7 DEF StartHookDev
    <2>2. /\ Cardinality(hooked') \in {Cardinality(hooked), Cardinality(hooked) + 1}
          /\ HasBlock' = HasBlock
        BY <1>c, <2>1, FS_AddElement DEF HasBlock
    <2>3. RefsHeld'
        BY <1>c, <1>i, <2>1, <2>2 DEF RefsHeld
    <2>4. QED
        BY <1>i, <2>1, <2>3 DEF BlockInv
<1>8. ASSUME NEW c \in Carrier, StopHookDev(c) PROVE BlockInv'
    <2>1. /\ UNCHANGED <<vdev, cmd, frame>> /\ refs' = refs - 1
          /\ hooked' = hooked \ {c} /\ c \in hooked
        BY <1>8 DEF StopHookDev
    <2>2. Cardinality(hooked') = Cardinality(hooked) - 1 /\ HasBlock' = HasBlock
        BY <1>c, <2>1, FS_RemoveElement DEF HasBlock
    <2>3. RefsHeld'
        BY <1>c, <1>i, <2>1, <2>2 DEF RefsHeld
    <2>4. QED
        BY <1>i, <2>1, <2>3 DEF BlockInv
<1>9. ASSUME NEW v \in Vname, RmDev(v) PROVE BlockInv'
    <2>1. /\ vdev[v].state = "listed" /\ cmd'.step = "unhook" /\ cmd'.v = v
          /\ UNCHANGED <<refs, vdev, hooked, frame>>
        BY <1>9, RmDevEffect
    <2>2. RefsHeld'
        BY <1>i, <2>1, RefsKept DEF HasBlock
    <2>3. QED
        BY <1>i, <2>1, <2>2 DEF BlockInv
<1>10. CASE RmDevUnhook
    <2>1. /\ cmd.step = "unhook" /\ cmd'.step = "unlist" /\ cmd'.v = cmd.v
          /\ hooked' \subseteq hooked /\ UNCHANGED <<refs, vdev, frame>>
        BY <1>10, RmDevUnhookEffect
    <2>2. RefsHeld'
        BY <1>i, <2>1, RefsKept DEF HasBlock
    <2>3. QED
        BY <1>i, <2>1, <2>2 DEF BlockInv
<1>11. CASE RmDevUnlist
    <2>1. /\ cmd.step = "unlist" /\ cmd.v \in Vname
          /\ \A w \in Vname : w # cmd.v => vdev'[w] = vdev[w]
          /\ vdev'[cmd.v].state = "unlisted" /\ vdev'[cmd.v].fb = vdev[cmd.v].fb
          /\ cmd'.step = "destroy" /\ cmd'.v = cmd.v /\ UNCHANGED <<refs, hooked, frame>>
        BY <1>11, RmDevUnlistEffect
    <2>2. RefsHeld'
        BY <1>i, <2>1, RefsKept DEF HasBlock
    <2>3. vdev[cmd.v].fb = "live"
        BY <1>i, <2>1
    <2>4. QED
        BY <1>i, <1>n, <2>1, <2>2, <2>3 DEF BlockInv
<1>12. CASE RmDevDestroy
    <2>1. /\ cmd.step = "destroy" /\ cmd.v \in Vname
          /\ \A w \in Vname : w # cmd.v => vdev'[w] = vdev[w]
          /\ vdev'[cmd.v].state = vdev[cmd.v].state /\ vdev'[cmd.v].fb = "freed"
          /\ cmd'.step = "unregister" /\ refs' = refs - 1 /\ UNCHANGED <<hooked, frame>>
        BY <1>12, RmDevDestroyEffect
    <2>2. HasBlock' = HasBlock \ {cmd.v} /\ cmd.v \in HasBlock
        BY <1>i, <2>1 DEF HasBlock
    <2>3. Cardinality(HasBlock') = Cardinality(HasBlock) - 1
        BY <1>c, <2>2, FS_RemoveElement
    <2>4. RefsHeld'
        BY <1>c, <1>i, <2>1, <2>3 DEF RefsHeld
    <2>5. vdev[cmd.v].state = "unlisted"
        BY <1>i, <2>1
    <2>6. QED
        BY <1>i, <1>n, <2>1, <2>4, <2>5 DEF BlockInv
<1>13. CASE RmDevUnregister
    <2>1. /\ cmd.v \in Vname /\ frame = NULL
          /\ \A w \in Vname : w # cmd.v => vdev'[w] = vdev[w]
          /\ vdev'[cmd.v].state = "free" /\ vdev'[cmd.v].fb = "none"
          /\ cmd'.step = NULL /\ UNCHANGED <<refs, hooked, frame>>
        BY <1>13, RmDevUnregisterEffect
    <2>2. RefsHeld'
        BY <1>i, <2>1, RefsKept DEF HasBlock
    <2>3. QED
        BY <1>i, <1>n, <2>1, <2>2 DEF BlockInv, Step
<1>14. ASSUME NEW c \in Carrier, CarrierGone(c) \/ OtherHandler(c) PROVE BlockInv'
    BY <1>1, <1>14 DEF CarrierGone, OtherHandler
<1>15. ASSUME NEW c \in Carrier, NEW t \in Tag, HandleFrame(c, t) PROVE BlockInv'
    <2>1. UNCHANGED <<vdev, cmd, refs, hooked>> /\ frame' \in Listed
        BY <1>15 DEF HandleFrame, devs
    <2>2. RefsHeld'
        BY <1>i, <2>1, RefsKept DEF HasBlock
    <2>3. QED
        BY <1>i, <2>1, <2>2 DEF BlockInv
<1>16. CASE HandleFrameVirt
    <2>1. UNCHANGED <<vdev, cmd, refs, hooked>> /\ frame' = NULL
        BY <1>16 DEF HandleFrameVirt, devs
    <2>2. RefsHeld'
        BY <1>i, <2>1, RefsKept DEF HasBlock
    <2>3. QED
        BY <1>i, <2>1, <2>2 DEF BlockInv
<1>17. CASE UNCHANGED vars
    BY <1>1, <1>17 DEF vars
<1>18. QED
    BY <1>2, <1>3, <1>4, <1>5, <1>6, <1>7, <1>8, <1>9, <1>10, <1>11, <1>12, <1>13, <1>14,
       <1>15, <1>16, <1>17 DEF Next

(* The references of the module fb_ethvlink cover its listed devices and   *)
(* its hooks as long as nobody stops a hook that is not there              *)
(* (fb_ethvlink_stop_hook_dev answers RX_STOP for that as well, and        *)
(* __vlink_invoke drops a reference).                                      *)
THEOREM ReferencesCover ==
    ASSUME StrayStop = FALSE
    PROVE  Spec => []RefsCover
<1>1. TypeInv /\ BlockInv /\ [Next]_vars => BlockInv'
    BY BlockStep
<1>2. ASSUME TypeInv, BlockInv PROVE RefsCover
    <2>1. Listed \in SUBSET HasBlock
        BY <1>2 DEF BlockInv, ListedLive, HasBlock, Listed
    <2>2. /\ IsFiniteSet(HasBlock) /\ Cardinality(HasBlock) \in Nat
          /\ Cardinality(hooked) \in Nat /\ refs \in Int
        BY <1>2, CountTypes
    <2>3. IsFiniteSet(Listed) /\ Cardinality(Listed) <= Cardinality(HasBlock)
        BY <2>1, <2>2, FS_Subset
    <2>4. Cardinality(Listed) \in Nat
        BY <2>3, FS_CardinalityType
    <2>5. QED
        BY <1>2, <2>2, <2>3, <2>4 DEF BlockInv, RefsHeld, RefsCover
<1>3. QED
    BY TypeInvInit, TypeInvStep, BlockInit, <1>1, <1>2, PTL DEF Spec

(* A frame is only given to a device that has, or has had, its block:      *)
(* fb_ethvlink_add_dev publishes complete devices, unregister_netdevice()  *)
(* waits for frames, and the count keeps the module from being unloaded    *)
(* under them.                                                             *)
THEOREM FrameFindsBlock ==
    ASSUME StrayStop = FALSE
    PROVE  Spec => []FrameMeetsBlock
<1>1. TypeInv /\ BlockInv /\ [Next]_vars => BlockInv'
    BY BlockStep
<1>2. BlockInv => FrameMeetsBlock
    BY DEF BlockInv
<1>3. QED
    BY TypeInvInit, TypeInvStep, BlockInit, <1>1, <1>2, PTL DEF Spec

-----------------------------------------------------------------------------
(* vlink_rcv goes through callbacks of falling priority, whatever the      *)
(* order in which modules add them.                                        *)
THEOREM CallbacksByPriority == Spec => [](\A s \in Subsys : Sorted(chain[s]))
<1> DEFINE AllSorted == \A s \in Subsys : Sorted(chain[s])
<1>1. Init => AllSorted
    BY DEF Init, Sorted
<1>2. TypeInv /\ AllSorted /\ [Next]_vars => AllSorted'
    <2> SUFFICES ASSUME TypeInv, AllSorted, [Next]_vars PROVE AllSorted'
        OBVIOUS
    <2>0. chain \in [Subsys -> Seq(Op)]
        BY DEF TypeInv, TypeOK
    <2>1. ASSUME NEW s \in Subsys, AddCallback(s) PROVE AllSorted'
        <3>1. CASE chain' = chain
            BY <3>1
        <3>2. CASE /\ Len(chain[s]) < Len(Callbacks(s))
                   /\ chain' = [chain EXCEPT ![s] = Inserted(@, Callbacks(s)[Len(@) + 1])]
            <4>1. Callbacks(s)[Len(chain[s]) + 1] \in Op
                BY <2>0, <3>2, ChainGrows
            <4>2. Sorted(Inserted(chain[s], Callbacks(s)[Len(chain[s]) + 1]))
                BY <2>0, <4>1, InsertedSorted
            <4>3. \A r \in Subsys :
                      chain'[r] = IF r = s THEN Inserted(chain[s], Callbacks(s)[Len(chain[s]) + 1])
                                           ELSE chain[r]
                BY <2>0, <3>2
            <4>4. QED
                BY <4>2, <4>3
        <3>3. QED
            BY <2>1, <3>1, <3>2 DEF AddCallback
    <2>2. ASSUME NEW s \in Subsys, SubsysUnregisterBatch(s) PROVE AllSorted'
        BY <2>2, <2>0 DEF SubsysUnregisterBatch, Sorted
    <2>3. ASSUME chain' = chain PROVE AllSorted'
        BY <2>3
    <2>4. \/ chain' = chain
          \/ \E s \in Subsys : AddCallback(s) \/ SubsysUnregisterBatch(s)
        BY DEF Next, SubsysRegister, Exit, AddDev, AddDevBuild, AddDevPublish, StartHookDev,
               StopHookDev, RmDev, RmDevUnhook, RmDevUnlist, RmDevDestroy, RmDevUnregister,
               CarrierGone, OtherHandler, HandleFrame, HandleFrameVirt, vars
    <2>5. QED
        BY <2>1, <2>2, <2>3, <2>4
<1>3. QED
    BY TypeInvInit, TypeInvStep, <1>1, <1>2, PTL DEF Spec
=============================================================================
