# LANA: specifications, model checking and proofs

LANA (Lightweight Autonomic Network Architecture) is a set of Linux kernel
modules in which packets are processed by *functional blocks* that are bound to
each other at run time. This directory holds TLA+ specifications of its core,
TLC configurations that check them on small instances, and TLAPS proofs of the
properties that matter most in the packet processing engine.

## 1. The system

Paths are relative to the repository (`src/` holds the kernel modules, `usr/`
the tools).

| Part | State | Operations | Talks to |
|---|---|---|---|
| Engine `xt_engine.c` | per CPU: `active`, backlog queue, 100 ms timer | `process_packet`, timer handler | calls `netfb_rx` of blocks found by idp |
| Registry `xt_fblock.c` | `fblmap` (idp to block), `idpmap` (name to idp), reference counts, notifier lists and chains | register, search, bind, unbind, subscribe, migrate | called by user control, blocks and the engine |
| User control `xt_user.c` | none; takes no lock | ADD, RM, BIND, UNBIND, SUBSCRIBE, UNSUBSCRIBE, REPLACE, SET (netlink) | registry, builder |
| Builder `xt_builder.c` | table of factories | build an object of a type | constructors of blocks |
| Crit-bit tree `xt_critbit.c` | tree of names | insert, delete under a spinlock; get, contains under RCU | holds `idpmap` and the factories |
| Virtual links `xt_vlink.c` | subsystem table, callback chains | register, add callback, dispatch under `vlink_mutex` | fb_eth, fb_ethvlink |
| `fb_dummy`, `fb_counter`, `fb_tee` | per CPU: ports under a seqlock | netrx, BIND/UNBIND events | engine, registry |
| `fb_bpf` | per CPU: ports and a filter under a spinlock | netrx, events, a procfs file to inject filters | engine, registry |
| `fb_eth` | list of hooked devices, a block for each | hook, unhook, receive handler | virtual links, engine |
| `fb_ethvlink` | list of virtual devices (tag, carrier, block) | add, remove, hook, unhook, receive handler, device events | virtual links, engine |
| `fb_pflana` | for each socket a block and a receive queue | socket, bind, sendmsg, recvmsg, release | engine, registry |
| `usr/fbctl.c`, `usr/vlink.c` | none | one netlink message | user control, virtual links |
| `core.c` | none | starts and stops the parts in order | all |

What makes it hard: the engine runs in process context, in softirqs and in
timers, on every CPU, with an unlocked flag between them; commands are executed
while packets flow, CPU by CPU and with no lock around a command; blocks, names,
filters and devices are freed while packets may still look at them; a command
of several steps may fail at any of them and has to undo what it did.

For each part, what makes it correct:

- *Engine*: one context at a time runs blocks on a CPU; packets are neither lost
  nor owned twice; a queued packet is processed at last.
- *Registry*: the tables lead to live blocks only; counts equal references;
  connections are known at both ends; events reach the right blocks; idps are not
  used again.
- *Ports*: all CPUs agree on the ports between commands; a packet that goes on has
  a next block; binding never hangs or panics.
- *Virtual links*: a type leads to one subsystem and a tag to one device; the flag
  of a carrier tells the truth; the module is not unloaded under its devices.
- *Crit-bit tree*: it is a set of names; lookups are linearizable and touch no
  freed memory.
- *Blocks and sockets under traffic*: no packet works in freed memory; every reference
  is given back; what is removed is freed at last; a packet has one owner.
- *Filters*: none is leaked, freed twice or run after it is freed; an injection is
  all or nothing.

## 2. Modules

| Module | Models | Actions |
|---|---|---|
| `Engine` | `xt_engine.c`, entries from devices and sockets, netrx of blocks as a choice | `Enter`, `CheckActive` ... `SetInactive`, `TimerExpires` ... `TimerReduce` |
| `PacketFlow` | what the engine promises, without contexts, flags and timers | `Arrive`, `Wait`, `Begin`, `Take`, `Rearrive`, `Finish`, `Lose`, `Copy` |
| `Fblock` | `xt_fblock.c`, `xt_user.c`, `xt_builder.c`, the events of the blocks, the hooks of `fb_eth` | one per command; `RcuFree` |
| `Lifetime` | blocks and sockets while packets flow: the loop of `xt_engine.c` with its search by idp, ADD and RM of `xt_user.c` and `xt_fblock.c` step by step, the RCU callback, `fb_pflana.c` | `Lookup` ... `ReadNextIdpAgain`, `Add`, `AddFactory`, `RmLookup` ... `RmEnd`, `Bind`, `Unbind`, `FreeFblockRcu`, `Create` ... `Destroy` |
| `Ports` | events and netrx of all blocks, CPU by CPU | `Start`, `Check`, `Lock`, `Write`; `Receive` ... `Return` |
| `Vlink` | `xt_vlink.c` and `fb_ethvlink.c` | loading and unloading, one per command or step of a command, `CarrierGone`, `HandleFrame` |
| `Critbit` | `xt_critbit.c` and its use for names | `Insert`, `Delete`, `FreeNode`, `FreeElem`, `LookupBegin`, `LookupStep`, `LookupEnd` |
| `Bpf` | the filters of `fb_bpf.c` | `Ctor`, `Write`, `Remove`, the steps of both loops over the CPUs, `RunFilter` |
| `EngineProofs`, `EngineFlowProofs` | theorems about `Engine`: exclusion and timers; ownership and the refinement of `PacketFlow` | |
| `FblockProofs` | theorems about `Fblock`: tables, idps, ports, counts and subscriptions | |
| `LifetimeProofs`, `LifetimePacketProofs` | theorems about `Lifetime`: blocks, counts and RM; packets and stale entries | |
| `PortsProofs`, `VlinkProofs`, `BpfProofs` | theorems about `Ports`, `Vlink` and `Bpf` | |

The `MC*` modules give the small instances. Definitions whose comment says
*Wrong variant* are deliberately broken versions of the definition below them;
nothing refers to them. Put in the place of that definition, each makes one
property fail, which shows that the property is sensitive to the code.

**Engine.** Every CPU has two contexts, `proc` and `soft`. The kernels LANA is
configured for are not preemptible (`CONFIG_PREEMPT_NONE` in
`microblaze/*/misc/kernel.config`) and softirqs do not nest, so a softirq
may start between any two steps of a process and then runs to completion; CPUs
interleave freely. What a block does with a packet is a choice: drop it, pass it
on, pass it on and queue a clone (`fb_tee`), or be gone. `next[s]` is the number of blocks a
packet may still pass, 0 being `IDP_UNKNOWN`. `TimerCpus` says where the timer
of a CPU may expire: the code starts all of them on the CPU that loads the module.

**PacketFlow** is the abstract specification of the engine. `Engine` implements it under the
mapping `Flow`: a packet is *arriving* while a context holds it outside the engine,
*queued* in the backlog of a CPU, *busy* on a CPU whose flag is set for it, and *lost* when
nobody holds it although it is not freed. Exclusion, order, ownership and loss
are one property this way, `ImplementsFlow`.

**Fblock.** `fb` is the memory of the slab cache, reused without its
constructor, as in the code. A command is one atomic step, as commands from one
`fbctl` after the other are. A port here stands for the port on all CPUs; `Ports`
justifies this. `Next` has the commands under which the invariants hold. `NextAny` adds what the
code does besides: UNSUBSCRIBE, a replacement that drops the private data or that names a vlink block,
a name that cannot be entered, a subscription without memory. After each of these some invariant
fails, as section 5 says.

**Lifetime** composes what `Engine`, `Fblock` and `Ports` look at one by one. A CPU handles one packet
at a time, in an RCU read-side section, and every step that reads a table, a count or a
port is a step of its own. RM is five steps, ADD two, the release of a socket
four kinds; BIND and UNBIND are one step (`Ports` has their steps) and worth three references at each end.
There is one control process. Memory
that is freed is handed out again only when nobody has a pointer to it, so that going through such
a pointer is visible. Whoever is about to do so, to call `call_rcu` twice for a block, or to
deliver to a sock that is not there has no further step: the state is in `Undefined`, and
what the machine does from there is not described. The invariants hold in all states, up to and including
those; the liveness property allows for them. `Undefined` is reachable, as section 5 says.

**Ports.** A control process visits the CPUs in order; on each it tests the
port, takes the lock and writes (fb_bpf tests under its lock). A packet reads
the port under the seqlock and starts again when a writer was there. Kinds of
blocks differ in the lock, in a third port, and in how packets meet the ports.

**Vlink.** `cmd` is the command that holds `vlink_mutex`. Its steps are separate
where frames or other modules can tell the difference. `refs` counts the
references to the module fb_ethvlink. A frame is handled in two steps in an RCU
read-side section.

**Critbit.** The tree is modelled bit by bit, including the arithmetic of
`otherbits` and the direction; a byte has `Width` bits (8 in the code). A writer
publishes or withdraws one pointer, which is one step; a reader makes one step
per pointer. Memory that is withdrawn waits for the readers of that moment and is
then used again.

**Bpf.** Every writer takes the filters of all CPUs away, and then injects its own,
one CPU at a time; allocation may fail on every CPU.

## 3. Runs

| Run | Instance | Shows |
|---|---|---|
| `engine_safety` | 2 CPUs, 3 packets, timers that expire anywhere, entries with and without a next block | exclusion, exact flag, single ownership, no `BUG_ON` on a CPU's own timer; the engine implements `PacketFlow` |
| `engine_served` | 2 CPUs, 3 packets, all timers on one CPU, threshold 1, fairness | a backlog is served where the timer is on its own CPU or the backlog is long |
| `engine_stranded` (violation) | the same with 2 packets | a short backlog of another CPU may wait for ever |
| `fblock_stack` | 3 two-port blocks, 3 names, 3 idps, 4 notifiers | tables, counts, ports, subscriptions; connections survive a replacement |
| `fblock_devices` | a block or tee and two devices, failing insertions | the same tables and counts; no bound device block is destroyed; idps are never reused |
| `fblock_unsubscribe_head` (violation) | 3 blocks | a node stays in the chain after unsubscribing |
| `lifetime` | 2 CPUs, 2 slots for blocks, 2 idps, 1 socket, 2 packets, a receive buffer of 1, registrations that fail, fairness | no freed block of a factory, exact counts, stale entries out of reach, owned packets, RM takes unbound blocks and they are freed at last |
| `ports` | 2 blocks of any kinds, 2 CPUs, one command at a time, packets | CPUs agree, ends agree, rollback works, packets that go on have a next block |
| `ports_spin` (violation) | 1 block, packets on the CPU of the command, fairness | a softirq waits for ever for the writer it interrupted |
| `vlink` | 2 modules, 2 names, 2 carriers, 2 tags, 5 references | unique tags, exact hooks, covered references, complete devices |
| `critbit` | 4 names (one a prefix of another), 3 nodes, 1 reader, 2-bit bytes | the tree is a set; lookups are linearizable and safe |
| `bpf` | 2 CPUs, 2 processes, 3 programs (1 refused), 4 filters | no leak, no double free, no freed filter run, all or nothing |

*Bounds.* Two CPUs are enough for every pairwise race of the engine and for a
loop over the CPUs to stop halfway; the proofs cover any number. Three packets
let one be processed, one wait and one arrive. `MaxHops`, `MaxIdp`, `MaxRef`, `MaxRefs`,
the notifiers `Nb`, the nodes and the filters bound counters and memory; an action that would
exceed a bound is not enabled, which is the code's behaviour when memory runs
out, or simply ends the exploration. `Bpf`'s four filters are as many as two CPUs and two
processes can hold, so that memory is never short by the bound alone. In
`critbit`, 3 nodes are what 4 names need, so that a fourth name waits for the
grace period of a node withdrawn before. In `lifetime` two idps are enough for a block and the
socket's block to be bound to each other, or for a block to take the slot of one that is gone; two packets let one wait in
a receive queue of length 1 while the next is lost, and two CPUs drop references to one block at the same time. Deadlock checking is off where
processes may all be idle for good at a bound (counters that never come back,
carriers that never return), and in the engine, where nobody has to send packets.

*Symmetry* is used in safety runs only, over sets whose members the module
never distinguishes.

*Fairness.* Softirqs run to completion (weak fairness). A process that is
interrupted again and again goes on at last, since a storm of softirqs is handed
to ksoftirqd (strong fairness). An armed timer is served at last on one of its
CPUs (strong fairness). Nobody has to send a packet or give a command. In
`ports_spin` the same assumptions hold for packets and for the control process. In `lifetime` a packet in
the engine, a command under way and a release go on, and a grace period that no reader holds up ends (weak
fairness: each is the next step of a running context, or of RCU); a packet may never be sent or read.

## 4. Proofs

Every theorem below is checked by TLAPS and holds for every value of the constants that the named
assumptions of its module allow: any number of CPUs, packets, blocks, sockets, devices, filters and
so on, any capacity and any bound. A hypothesis beyond that is part of the theorem's statement and is named
here. Each invariant was checked by TLC on the instance of the run before it was proved;
each is inductive relative to the ones before it, and each step lemma has one step per action.

**Engine** (`EngineProofs`, `EngineFlowProofs`)

- `TypeCorrect`: `TypeOK`, strengthened to `TypeInv` by `HasPacket` (a context
  that is about to process a packet has one) and `HasDisc` (a timer handler knows its CPU):
  without them a dequeue or a queueing would not preserve the types.
- `MutualExclusion` and `ActiveFlagExact`: both rest on `ExclusionInv`, which adds
  `SoftMayEnter`. The flag is tested and set in two steps; the argument is
  that a softirq between the two on its CPU cannot be overtaken by the process of
  that CPU, and that a softirq that starts between the process's two steps ends, with
  the flag clear again, before the second.
- `OwnTimerNeverBug`: `NoBug`, from `BugInv`: a handler on its own CPU that has
  seen a backlog that is not empty still sees one at the dequeue, because the others who
  take from this backlog are the process of this CPU, which cannot run, and handlers of the
  same timer on other CPUs, of which there is none (`OneHandler`).
- `PacketHasOneOwner`: `SingleOwner`, from `OwnerInv`, which adds `HandsEmpty`: a context that is not about to
  process a packet holds none. Without it a context could take a packet while it still holds another.
- `EngineImplementsFlow`: `ImplementsFlow`. `FlowInit` maps initial states, and one lemma per
  action maps its step to a step of `PacketFlow` or a stutter. The mapping needs exclusion (a CPU is busy with
  one packet) and ownership (a packet is in one place), hence the order of the theorems.

**Fblock** (`FblockProofs`). Any number of slots, names, devices, types, idps and notifier nodes (the nodes being a
finite set, as they are counted), any set of commands and any history of the commands of `Next`. A command takes, moves and drops references
in up to ten places, so the proof first says what each operator and each command does to the memory as a whole (one lemma per operator:
`Put2Facts`, `PortsSetFacts`, `SubscribeFacts`, `UnsubscribeFacts`, `MigrateRFacts` ...; one per command: `BindStep`, `UnbindStep`,
`ReplaceStep` ...). A bind is refused or done, an unbind is refused, stops half way or is done, a block is born, gone or replaced; each invariant
needs one lemma per outcome.

- `TypeCorrect`, `BaseInvariant`, `IdpsNeverReused`: no hypothesis. They rest on `RegistryInv`: `fblmap` leads to live blocks under their own
  idps, these were given away and differ, a device's block is alive and nobody else's, and the count of a live block is at least
  1 + 3 per bound port. The last part, weaker than exactness, is what makes the rest inductive: an unbind drops up to four references at
  each end one by one, and none of these drops may be the last one.
- `TablesAgree`: `TablesConsistent`, from `TablesInv`, under `EntryKept`. `ReplacementKeepsConnections` under `OneType`.
- `PortsArePaired`: `PortsPaired`, from `PairedInv`, under `NoTee`, `OneType` and `EntryKept`. `PairedInv` is stated over the idps of live blocks
  instead of `fblmap`. A block goes only with a count of at most 2, which by the bound above means that no port of it is bound, and then, by the
  pairs, no port leads to it.
- `RefcountsExact`, `RefcountsCover`, `FreedMemoryUnsubscribed`, `UnhookedUnused`: from `NodesInv`, under `UnhookUnsubscribed` (the first also under
  `OneType`). No node is twice in a list or in two lists, each points to the owner of its list, no idp that is still to be given away is
  named, and every port is covered by a node for the same idp in the block's list (`Covered`): an unbind finds the nodes it takes off
  although the two ends may also have subscribed by command. `Counted` has the exact count where it holds and the lower bound where
  ports are left behind, because `UnhookedUnused` needs exactness for device blocks and `RefcountsCover` holds without `OneType`.
- `SubscriptionsAreDelivered`: from `DeliveredInv`, under `UnhookUnsubscribed` and `EntryKept`: a step may move a chain to another block only if
  the idp moves with it, and may free a chain only if no node names the idp.

The four hypotheses are on the constants, and the runs `fblock_stack` and `fblock_devices` satisfy those that their properties need. None can be dropped: TLC refutes
the property on an instance of a few hundred to a few thousand states when SUBSCRIBE and UNHOOK are both issued (a device's block with one subscription has
a count of 2 and is destroyed, `fb_eth.c:362`), when blocks of two types replace each other (the ports stay behind, `xt_user.c:94`), when the
insertion into `fblmap` fails in a replacement (`xt_user.c:101`), and when there is a tee (its third port is given up in either direction,
`fb_tee.c:122`). The theorems are about `Spec`; what `NextAny` adds breaks the invariants, as section 5 says.

**Lifetime** (`LifetimeProofs`, `LifetimePacketProofs`). CPUs and sockets are finite sets, as the counts
of their members are spoken of, and no CPU is a socket.

- `CountsExact`, `BlockOutlivesPackets` and `RemovesUnbound` rest on one invariant, `Inv`, because none of
  them is inductive alone. `RefsExact` is needed to know that a put by a user of a block
  that is still in `fblmap` is not the last one: its registration is counted, too (`LastUnknown`). That
  keeps a known block from `call_rcu`, so that a pointer read from `fblmap` is always to a block in use
  (`TableInv`: an idp that was given away leads to its block or nowhere). A
  block that does go to `call_rcu` waits for all readers of that moment, and a CPU with a pointer is a
  reader until it drops it (`RcuInv`); so no grace period ends under a packet, which is `NoFreedBlock`. `CtlInv` carries
  what RM has seen from the test of the count to the deletion: a count of at most 2, of which
  RM's own and the registration's are 2, leaves no room for a bound port, and no other step binds
  one in between, since there is one control process.
- The count itself is handled by `Recount`: a count stays exact when it changes by as much as the registration, the ports and one
  user together do. Every action moves one user, so that one lemma for each kind of user
  (`CpuStep`, `CtlStep`, `SockStep`) covers most actions; binding and release (`PortExact`) change ports at two blocks.
- `PacketOwnership` and `TypeCorrect` rest on `PktInv` (for every packet: allocated exactly if a CPU, a queue or
  nobody for good has it, and only one of them; no packet twice in a queue; a free sock has an empty queue).
- `StaleNeverReached`: `TableInv` says that packets and ports only have idps that were given away with a name.

**Ports** (`PortsProofs`)

- `SuccessNamesNext`: `SuccessHasNext` for any number of control processes. A reader that has not been
  made stale has read what the port holds (`ReadValid`).
- `AllCpusAgree`, `BindNeverPanics` and `BothEndsKnow` assume `OneWriter`, one control process: the code takes no lock
  around a command, and with two processes the properties do not hold (section 5). `EventInv` splits the CPUs at the
  one an event has reached: those before it agree, those from it on agree, and the two
  parts differ by what the event writes (`Visited`); what was tested outside the lock still
  holds under it (`ChoiceHolds`); what may have to be released is still found (`Releasable`). `SymInv` adds
  what both ends of the connection under way look like at each stage (`EndsAt`).

**Vlink** (`VlinkProofs`)

- `TagLeadsToOneDevice`, `FlagTellsHandler` and `LastClientTakesHookDown` hold whatever users do. `TagInv` keeps the result of the search for
  a tag true until the device is published, `ClientInv` that of the count of clients until the device is unlisted.
- `ReferencesCover` and `FrameFindsBlock` assume `StrayStop = FALSE`: a STOP_HOOK without a hook drops a
  reference that belongs to others, and then neither holds (section 5). `BlockInv` counts one reference for every device
  with a block and for every hook.
- `CallbacksByPriority`: chains are sorted however callbacks are added and removed; no run lists it, as it is about the
  sequence operators of the model.

**Bpf** (`BpfProofs`)

- `FilterNotFreed`: `NoFreedFilter` for any number of writers, a racing removal included. No filter is in two
  places (`Sole`), and a packet that holds `flock` runs the filter of its CPU (`RunsOwn`).
- `FilterHasOneOwner` and `LoneWriteAllOrNothing` assume `RacingRemoval = FALSE`; a writer that is overtaken by the
  removal of the block leaks its filter (section 5). They need to know who takes the block down
  (`DownAlone`) and, for the second, what a lone writer has emptied and filled so far (`Emptied`, `Filled`).

Only model-checked: everything about `Critbit`; all liveness (`BacklogServed`, `RemovedFreed`, and the
properties of `engine_stranded` and `ports_spin`), as the prover has no rules for fairness. What the recursive operators of `Critbit`
compute for every tree cannot be proved here, as that needs induction over data. `TypeOK` of
`Ports`, `Vlink`, `Bpf` and `Lifetime` is proved and is part of no run's list; that of `Critbit` is neither.

## 5. What the checks found

Three runs end with a counterexample to something the repository says; the
findings in `PROJECT.json` quote it.

1. `engine_stranded`. All timers run on the CPU that loaded the module, and a handler on a
   foreign CPU leaves a backlog of up to 150 packets alone (`xt_engine.c:165-169`, 241). Packets
   queued on another CPU just after its engine found the backlog empty stay until
   another packet arrives there.
2. `fblock_unsubscribe_head`. Unsubscribing from the latest subscription takes the
   node off the list but not out of the chain (`xt_fblock.c:505`).
3. `ports_spin`. Events take the write side of a seqlock with softirqs enabled
   (`fb_dummy.c:84`); a packet on the same CPU spins for ever.

Other disagreements that the models show and that bound what the passing runs state:

- A timer handler on a foreign CPU may find the backlog empty at its dequeue and
  hit `BUG_ON` (`xt_engine.c:174`); `NoBug` is about a CPU's own timer.
- A packet that enters with `IDP_UNKNOWN`, as from an unbound socket
  (`fb_pflana.c:341`), is never freed; `PacketFlow` has `Lose` for it.
- Unsubscribing from a block without a subscription to it drops two references
  (`xt_fblock.c:525`): `RefcountExact` is checked without UNSUBSCRIBE.
- A taken name is discovered when the new block is in `fblmap` already, and its
  idp keeps leading to freed memory (`xt_fblock.c:424`). `RegisterNoName` models it in `Fblock` and
  `NotRegistered` in `Lifetime`, where `StaleOutOfReach` says that no packet or port has that idp;
  `procfs_fblocks`, which walks over all idps, reads the freed block.
- A subscription without memory undoes more than was done (`xt_fblock.c:316`, `BindNoNode`).
- The rollback of a refused binding of a tee may take down another binding
  (`xt_fblock.c:308`), and unbinding a tee ignores the direction for the third
  port (`fb_tee.c:122`): `PortsPaired` is checked for two-port blocks.
- A replacement that finds no memory for the new entry of `fblmap` has given up both old entries already (`xt_user.c:101`): the block is alive
  and bound and cannot be found any more (`EntryKept` in section 4).
- A replacement that drops the private data loses the connections with it
  (`xt_user.c:94`), while `epics.tex:316-317` says that they are maintained.
- `fb_eth_stop_hook_dev` destroys a block that one other holds a reference to
  (`fb_eth.c:362`), and a refused replacement of a vlink block keeps a reference (`xt_user.c:74`).
- `fbctl` compares "replace" before "replace-drop" and a prefix matches
  (`usr/fbctl.c:414-417`), so that it never asks for a dropping replacement.
- *Sockets* (`Undefined` in `Lifetime`). The release of a socket frees the sock
  before the block that leads to it (`fb_pflana.c:233-234`), and destroys the block without a
  grace period (`fb_pflana.c:730`): a packet that is in the block, or that has found it, delivers to a freed sock
  or works in a freed block; so does an RM command between search and `get_fblock`. The block of a new socket is published before
  `sock_self` is set (`fb_pflana.c:192-199`). The engine reads the next idp of a packet that is in
  a receive queue already, and may be freed (`fb_pflana.c:92`, `xt_engine.c:125`), although the comment at
  `xt_engine.c:136` says "we must not touch it!". A packet that does not fit into the receive buffer is never freed
  (`fb_pflana.c:89`). A sock whose block cannot be built is never freed, as `sock_put` finds a count of 0
  (`fb_pflana.c:540`). A message for a device that does not exist ends in `dev_put(NULL)` (`fb_pflana.c:352`).
- *Reference counts* (`Undefined` in `Lifetime`). A packet that finds a block just before RM
  takes it out may raise its count from 0 and drop it again, which calls `call_rcu` for the block a second time (`xt_fblock.h:163`,
  124). The release of a socket can do the same to the block it is bound to, when UNBIND and RM come
  between its search and its put, and, as it is not in a read-side section any more, to a block that is freed.
  A BIND that comes between the release's look at a port and its end leaves the other block bound to
  nothing, with references that are never given back.
- Blocks bound in a circle keep a packet in the engine's loop for ever (`xt_engine.c:125`); the
  models bound the hops or the order of bindings.
- REPLACE exchanges two counts without regard to the packets in the two blocks (`xt_fblock.c:261`): two packets
  in the old block give their references back to the count that the old block got in exchange, and
  their references to the new one stay. This follows from reading the code; it is not modelled.
- `init_fblock` returns with the lock of the block held when memory is short (`xt_fblock.c:562`), and
  the next user of the slot waits for ever.
- When a new virtual device's block cannot be built, the device is unregistered without
  `rtnl_lock` and freed twice (`fb_ethvlink.c:545`). `cleanup_engine` frees the statistics
  before it cancels the timers that use them (`xt_engine.c:264`). A filter's or counter's procfs file keeps a pointer to a
  block that was replaced (`fb_bpf.c:500`). A command may reach `fb_ethvlink` between the loop of its exit
  and the end of its subsystem (`fb_ethvlink.c:853`). None of these is a property of a run.
- Two control processes at once may both find a port free: then `CpusAgree`
  and `NoPanic` do not hold (`fb_dummy.c:83`).
- A frame may meet a block of a virtual device that is freed already
  (`fb_ethvlink.c:689`), and a STOP_HOOK without a hook drops a reference to the
  module (`xt_vlink.c:250`; `StrayStop`).
- A filter that is written while the block is removed is leaked (`fb_bpf.c:506`; `RacingRemoval`).

## 6. Not modelled

- Statistics, procfs output, logging, header formats, ethtool, and memory of the kernel's own objects:
  no property here depends on them.
- `core.c`, which starts and stops the parts once, in order, and the loading and unloading of modules other
  than `fb_ethvlink`.
- SET, which no block reacts to, and the parser of filter programs (a program is a value that is
  accepted or refused).
- REPLACE step by step against packets, after which the counts are not exact, as section 5 says, and a
  second control process in `Lifetime`, which would multiply its states.
- The device list of `fb_eth` under RCU: hooking and unhooking are one step in `Fblock`.
- The device a socket is bound to, `poll`, and the table of protocols of `fb_pflana.c`.
- A virtual device of a vanished carrier keeps a dangling pointer to it; what reads through it
  return is not modelled, as nothing in the model depends on it.
- The command line tools (one message each, which is an input of an action), the demonstration program
  in `app/`, the Coccinelle scripts and the MicroBlaze port. `PROJECT.json` lists every part with the reason.

## 7. Plan

Done: the engine with its abstract specification, the registry, ports,
virtual links, the crit-bit tree, filters, and the life of blocks and sockets under traffic; the safety properties of
all of them but the tree are theorems.

Theorems left: `Critbit`, once its recursive operators are written as functions over a bounded depth, starting with the memory of the nodes
(`NodesExact`, `NoFreedMemory`).

Models left to write: the device list of `fb_eth` under RCU; an abstract specification of a connection
that `Ports` implements for one control process; an abstract set of names that `Critbit` implements.
