------------------------------- MODULE Engine -------------------------------
(***************************************************************************)
(* The packet processing engine (PPE) of LANA: xt_engine.c.                *)
(*                                                                         *)
(* Every CPU has an engine_disc: an `active' flag, a backlog queue and a   *)
(* 100 ms tasklet_hrtimer.  process_packet() is entered on a CPU by two    *)
(* kinds of context: process context ("proc", a socket's sendmsg) and      *)
(* softirq context ("soft", a device's receive handler, or the timer       *)
(* handler).  The kernel is not preemptible and softirqs do not nest: a    *)
(* softirq may interrupt a process between any two of its steps and runs   *)
(* to completion before the process continues; two CPUs interleave freely. *)
(*                                                                         *)
(* The functional blocks are abstract here: what a block may do to a       *)
(* packet (drop or consume it, pass it on, pass it on and queue a copy,    *)
(* not be there any more) is a nondeterministic choice.                    *)
(***************************************************************************)
EXTENDS Naturals, Sequences

CONSTANTS
    Cpu,        \* online CPUs
    Skb,        \* packet buffers: how many exist at a time bounds the model
    MaxHops,    \* bound: no packet passes through more functional blocks
    EntryIdp,   \* next-idp values a packet may carry when it enters the engine
    TimerCpus,  \* TimerCpus[c]: the CPUs on which the timer of c may expire
    Threshold,  \* the backlog length a timer on a foreign CPU acts on: 150
    NULL

ASSUME CpuAssumption   == NULL \notin Cpu
ASSUME SkbAssumption   == NULL \notin Skb
ASSUME HopsAssumption  == MaxHops \in Nat
ASSUME EntryAssumption == EntryIdp \subseteq 0 .. MaxHops
ASSUME TimerAssumption == TimerCpus \in [Cpu -> SUBSET Cpu]
ASSUME ThresholdAssumption == Threshold \in Nat

IDP_UNKNOWN == 0

Level == {"proc", "soft"}

(* Where a context stands.  "check" to "inactive" are process_packet(),    *)
(* "t_active" to "t_reduce" the timer handler.                             *)
PC == {"idle", "check", "start", "loop", "reduce", "inactive",
       "t_active", "t_empty", "t_cpu", "t_reduce", "t_bug"}

VARIABLES
    active,     \* active[c]: emdiscs->active of CPU c
    backlog,    \* backlog[c]: ppe_backlog_queue of CPU c
    pc,         \* pc[c][l]: the step of the context l of CPU c
    skb,        \* skb[c][l]: the packet that context has in its hands
    disc,       \* disc[c]: the CPU whose timer the softirq of c is handling
    next,       \* next[s]: the packet's next idp; k > 0 stands for the idp of
                \* a block after which at most k - 1 further blocks follow
    live        \* packets that are allocated

vars == <<active, backlog, pc, skb, disc, next, live>>

(* init_engine *)
Init ==
    /\ active = [c \in Cpu |-> FALSE]
    /\ backlog = [c \in Cpu |-> <<>>]
    /\ pc = [c \in Cpu |-> [l \in Level |-> "idle"]]
    /\ skb = [c \in Cpu |-> [l \in Level |-> NULL]]
    /\ disc = [c \in Cpu |-> NULL]
    /\ next = [s \in Skb |-> IDP_UNKNOWN]
    /\ live = {}

(* A process only runs while no softirq runs on its CPU. *)
Runs(c, l) == l = "proc" => pc[c]["soft"] = "idle"

Goto(c, l, step) == pc' = [pc EXCEPT ![c][l] = step]

(* The end of the outermost function: a timer handler re-arms its timer. *)
Return(c, l) ==
    /\ Goto(c, l, "idle")
    /\ disc' = IF l = "soft" THEN [disc EXCEPT ![c] = NULL] ELSE disc

-----------------------------------------------------------------------------
(* A device or a socket hands a new packet to the engine. *)
Enter(c, l) ==
    /\ Runs(c, l)
    /\ pc[c][l] = "idle"
    /\ \E s \in Skb \ live, k \in EntryIdp :
          /\ live' = live \cup {s}
          /\ next' = [next EXCEPT ![s] = k]
          /\ skb' = [skb EXCEPT ![c][l] = s]
    /\ Goto(c, l, "check")
    /\ UNCHANGED <<active, backlog, disc>>

(* Wrong variant: the flag is not tested. *)
CheckActiveNever(c, l) ==
    /\ Runs(c, l)
    /\ pc[c][l] = "check"
    /\ Goto(c, l, "start")
    /\ UNCHANGED <<active, backlog, skb, disc, next, live>>

(* Wrong variant: a packet for a CPU in the engine is forgotten. *)
CheckActiveForgets(c, l) ==
    /\ Runs(c, l)
    /\ pc[c][l] = "check"
    /\ \/ /\ active[c]
          /\ skb' = [skb EXCEPT ![c][l] = NULL]
          /\ Return(c, l)
       \/ /\ ~active[c]
          /\ Goto(c, l, "start")
          /\ UNCHANGED <<skb, disc>>
    /\ UNCHANGED <<active, backlog, next, live>>

(* process_packet: a CPU that is already in the engine queues the packet. *)
CheckActive(c, l) ==
    /\ Runs(c, l)
    /\ pc[c][l] = "check"
    /\ \/ /\ active[c]
          /\ backlog' = [backlog EXCEPT ![c] = Append(@, skb[c][l])]
          /\ skb' = [skb EXCEPT ![c][l] = NULL]
          /\ Return(c, l)
       \/ /\ ~active[c]
          /\ Goto(c, l, "start")
          /\ UNCHANGED <<backlog, skb, disc>>
    /\ UNCHANGED <<active, next, live>>

SetActive(c, l) ==
    /\ Runs(c, l)
    /\ pc[c][l] = "start"
    /\ active' = [active EXCEPT ![c] = TRUE]
    /\ Goto(c, l, "loop")
    /\ UNCHANGED <<backlog, skb, disc, next, live>>

(* The next idp is IDP_UNKNOWN: the loop ends, the packet is not touched.  *)
NoNext(c, l) ==
    /\ Runs(c, l)
    /\ pc[c][l] = "loop"
    /\ next[skb[c][l]] = IDP_UNKNOWN
    /\ skb' = [skb EXCEPT ![c][l] = NULL]
    /\ Goto(c, l, "reduce")
    /\ UNCHANGED <<active, backlog, disc, next, live>>

(* The fblock does not exist and the engine frees the packet, or           *)
(* netfb_rx() returns PPE_DROPPED: the block has freed or transmitted it.  *)
(* The netrx of a socket queues it and returns PPE_HALT with IDP_UNKNOWN   *)
(* as its next idp, which ends the loop as well: see Lifetime.             *)
Drop(c, l) ==
    /\ Runs(c, l)
    /\ pc[c][l] = "loop"
    /\ next[skb[c][l]] # IDP_UNKNOWN
    /\ live' = live \ {skb[c][l]}
    /\ next' = [next EXCEPT ![skb[c][l]] = IDP_UNKNOWN]
    /\ skb' = [skb EXCEPT ![c][l] = NULL]
    /\ Goto(c, l, "reduce")
    /\ UNCHANGED <<active, backlog, disc>>

(* netfb_rx() returns PPE_SUCCESS, with the next idp written to the packet. *)
Forward(c, l) ==
    /\ Runs(c, l)
    /\ pc[c][l] = "loop"
    /\ next[skb[c][l]] > 1
    /\ next' = [next EXCEPT ![skb[c][l]] = @ - 1]
    /\ UNCHANGED <<active, backlog, pc, skb, disc, live>>

(* Wrong variant: the result of the copy is queued unchecked. *)
TeeUnchecked(c, l) ==
    /\ Runs(c, l)
    /\ pc[c][l] = "loop"
    /\ next[skb[c][l]] > 1
    /\ backlog' = [backlog EXCEPT ![c] = Append(@, NULL)]
    /\ next' = [next EXCEPT ![skb[c][l]] = @ - 1]
    /\ UNCHANGED <<active, pc, skb, disc, live>>

(* netfb_rx() of a tee block: a copy for the block behind port_clone goes  *)
(* to the tail of this CPU's backlog; the packet itself is passed on, or   *)
(* freed when the tee's own port is unbound.                               *)
Tee(c, l) ==
    /\ Runs(c, l)
    /\ pc[c][l] = "loop"
    /\ next[skb[c][l]] > 1
    /\ \E s \in Skb \ live, drop \in BOOLEAN :
          LET p == skb[c][l] IN
          /\ backlog' = [backlog EXCEPT ![c] = Append(@, s)]
          /\ IF drop
             THEN /\ live' = (live \ {p}) \cup {s}
                  /\ next' = [next EXCEPT ![p] = IDP_UNKNOWN, ![s] = next[p] - 1]
                  /\ skb' = [skb EXCEPT ![c][l] = NULL]
                  /\ Goto(c, l, "reduce")
             ELSE /\ live' = live \cup {s}
                  /\ next' = [next EXCEPT ![p] = @ - 1, ![s] = next[p] - 1]
                  /\ UNCHANGED <<skb, pc>>
    /\ UNCHANGED <<active, disc>>

(* engine_backlog_test_reduce: take the next packet, or leave the loop.    *)
(* `goto pkt' sets the active flag again, which is set already.            *)
Reduce(c, l) ==
    /\ Runs(c, l)
    /\ pc[c][l] = "reduce"
    /\ \/ /\ backlog[c] # <<>>
          /\ skb' = [skb EXCEPT ![c][l] = Head(backlog[c])]
          /\ backlog' = [backlog EXCEPT ![c] = Tail(@)]
          /\ active' = [active EXCEPT ![c] = TRUE]
          /\ Goto(c, l, "loop")
       \/ /\ backlog[c] = <<>>
          /\ Goto(c, l, "inactive")
          /\ UNCHANGED <<active, skb, backlog>>
    /\ UNCHANGED <<disc, next, live>>

(* Wrong variant: the engine is left with the flag set. *)
SetInactiveNot(c, l) ==
    /\ Runs(c, l)
    /\ pc[c][l] = "inactive"
    /\ Return(c, l)
    /\ UNCHANGED <<active, backlog, skb, next, live>>

SetInactive(c, l) ==
    /\ Runs(c, l)
    /\ pc[c][l] = "inactive"
    /\ active' = [active EXCEPT ![c] = FALSE]
    /\ Return(c, l)
    /\ UNCHANGED <<backlog, skb, next, live>>

-----------------------------------------------------------------------------
(* engine_timer_handler, run in the softirq of CPU c for the engine_disc   *)
(* of CPU d.  It reads the state of d without a lock.                      *)
TimerExpires(c, d) ==
    /\ c \in TimerCpus[d]
    /\ pc[c]["soft"] = "idle"
    /\ \A b \in Cpu : disc[b] # d
    /\ disc' = [disc EXCEPT ![c] = d]
    /\ Goto(c, "soft", "t_active")
    /\ UNCHANGED <<active, backlog, skb, next, live>>

TimerActive(c) ==
    /\ pc[c]["soft"] = "t_active"
    /\ \/ /\ active[disc[c]]
          /\ Return(c, "soft")
       \/ /\ ~active[disc[c]]
          /\ Goto(c, "soft", "t_empty")
          /\ UNCHANGED disc
    /\ UNCHANGED <<active, backlog, skb, next, live>>

(* Wrong variant: the backlog is not looked at. *)
TimerEmptyNot(c) ==
    /\ pc[c]["soft"] = "t_empty"
    /\ Goto(c, "soft", "t_cpu")
    /\ UNCHANGED <<active, backlog, skb, disc, next, live>>

TimerEmpty(c) ==
    /\ pc[c]["soft"] = "t_empty"
    /\ \/ /\ backlog[disc[c]] = <<>>
          /\ Return(c, "soft")
       \/ /\ backlog[disc[c]] # <<>>
          /\ Goto(c, "soft", "t_cpu")
          /\ UNCHANGED disc
    /\ UNCHANGED <<active, backlog, skb, next, live>>

(* Wrong variant: a foreign CPU's backlog is always left alone. *)
TimerCpuOwnOnly(c) ==
    /\ pc[c]["soft"] = "t_cpu"
    /\ \/ disc[c] # c /\ Return(c, "soft")
       \/ disc[c] = c /\ Goto(c, "soft", "t_reduce") /\ UNCHANGED disc
    /\ UNCHANGED <<active, backlog, skb, next, live>>

TimerCpu(c) ==
    /\ pc[c]["soft"] = "t_cpu"
    /\ \/ /\ disc[c] # c
          /\ Len(backlog[disc[c]]) <= Threshold
          /\ Return(c, "soft")
       \/ /\ disc[c] = c \/ Len(backlog[disc[c]]) > Threshold
          /\ Goto(c, "soft", "t_reduce")
          /\ UNCHANGED disc
    /\ UNCHANGED <<active, backlog, skb, next, live>>

(* Wrong variant: the packet is not taken off the backlog. *)
TimerReducePeeks(c) ==
    /\ pc[c]["soft"] = "t_reduce"
    /\ backlog[disc[c]] # <<>>
    /\ skb' = [skb EXCEPT ![c]["soft"] = Head(backlog[disc[c]])]
    /\ Goto(c, "soft", "check")
    /\ UNCHANGED <<active, backlog, disc, next, live>>

(* engine_backlog_queue_test_reduce and BUG_ON(!skb) *)
TimerReduce(c) ==
    /\ pc[c]["soft"] = "t_reduce"
    /\ \/ /\ backlog[disc[c]] # <<>>
          /\ skb' = [skb EXCEPT ![c]["soft"] = Head(backlog[disc[c]])]
          /\ backlog' = [backlog EXCEPT ![disc[c]] = Tail(@)]
          /\ Goto(c, "soft", "check")
       \/ /\ backlog[disc[c]] = <<>>
          /\ Goto(c, "soft", "t_bug")
          /\ UNCHANGED <<skb, backlog>>
    /\ UNCHANGED <<active, disc, next, live>>

-----------------------------------------------------------------------------
ProcessPacket(c, l) ==
    \/ CheckActive(c, l)
    \/ SetActive(c, l)
    \/ NoNext(c, l)
    \/ Drop(c, l)
    \/ Forward(c, l)
    \/ Tee(c, l)
    \/ Reduce(c, l)
    \/ SetInactive(c, l)

TimerHandler(c) ==
    \/ TimerActive(c)
    \/ TimerEmpty(c)
    \/ TimerCpu(c)
    \/ TimerReduce(c)

Next ==
    \/ \E c \in Cpu, l \in Level : Enter(c, l) \/ ProcessPacket(c, l)
    \/ \E c, d \in Cpu : TimerExpires(c, d)
    \/ \E c \in Cpu : TimerHandler(c)

Spec == Init /\ [][Next]_vars

(* A softirq runs to completion.  A process interrupted by softirqs again  *)
(* and again continues at last (ksoftirqd takes over a storm of softirqs), *)
(* and a timer that stays armed is served at last on one of its CPUs (its  *)
(* tasklet runs in the next pass over the pending softirqs).  Packets need *)
(* not arrive.                                                             *)
Fairness ==
    /\ \A c \in Cpu : /\ WF_vars(ProcessPacket(c, "soft"))
                      /\ SF_vars(ProcessPacket(c, "proc"))
                      /\ WF_vars(TimerHandler(c))
    /\ \A d \in Cpu : SF_vars(\E c \in Cpu : TimerExpires(c, d))

FairSpec == Spec /\ Fairness

-----------------------------------------------------------------------------
(* Type correctness of the engine's per-CPU state. *)
TypeOK ==
    /\ active \in [Cpu -> BOOLEAN]
    /\ backlog \in [Cpu -> Seq(Skb)]
    /\ pc \in [Cpu -> [Level -> PC]]
    /\ skb \in [Cpu -> [Level -> Skb \cup {NULL}]]
    /\ disc \in [Cpu -> Cpu \cup {NULL}]
    /\ next \in [Skb -> 0 .. MaxHops]
    /\ live \subseteq Skb

(* The context l of CPU c is between set_active and set_inactive: it may   *)
(* be running functional blocks.                                           *)
InEngine(c, l) == pc[c][l] \in {"loop", "reduce", "inactive"}

(* The active flag is all that keeps a softirq out of the functional       *)
(* blocks while a process of the same CPU is interrupted inside them:      *)
(* never are both contexts of a CPU between set_active and set_inactive,   *)
(* whatever interleaving of the unlocked test and set of the flag.         *)
OneContextInEngine == \A c \in Cpu : ~(InEngine(c, "proc") /\ InEngine(c, "soft"))

(* The flag is never left behind and never lost: it is set exactly while   *)
(* some context of the CPU is in the engine, so no early return makes the  *)
(* CPU queue packets forever.                                              *)
ActiveExact == \A c \in Cpu : active[c] <=> \E l \in Level : InEngine(c, l)

(* No packet is owned twice (held by two contexts, queued twice, or queued *)
(* and processed at once), and a packet that somebody owns is not freed.   *)
SingleOwner ==
    /\ \A c, d \in Cpu, l, m \in Level :
          skb[c][l] = skb[d][m] /\ skb[c][l] # NULL => c = d /\ l = m
    /\ \A c, d \in Cpu : \A i \in DOMAIN backlog[c], j \in DOMAIN backlog[d] :
          backlog[c][i] = backlog[d][j] => c = d /\ i = j
    /\ \A c, d \in Cpu, l \in Level : \A i \in DOMAIN backlog[d] :
          skb[c][l] # backlog[d][i]
    /\ \A c \in Cpu, l \in Level : skb[c][l] # NULL => skb[c][l] \in live
    /\ \A c \in Cpu : \A i \in DOMAIN backlog[c] : backlog[c][i] \in live

(* The engine as its users see it. *)
Owned(s) == \/ \E c \in Cpu, l \in Level : skb[c][l] = s
            \/ \E c \in Cpu : \E i \in DOMAIN backlog[c] : backlog[c][i] = s

Arriving == {s \in Skb : \E c \in Cpu, l \in Level :
                             skb[c][l] = s /\ pc[c][l] \in {"check", "start"}}

Busy == [c \in Cpu |-> IF pc[c]["soft"] = "loop" THEN skb[c]["soft"]
                       ELSE IF pc[c]["proc"] = "loop" THEN skb[c]["proc"]
                       ELSE NULL]

Nowhere == {s \in live : next[s] = IDP_UNKNOWN}

Lost == {s \in live : ~Owned(s)}

Flow == INSTANCE PacketFlow WITH
    arriving <- Arriving,
    queue    <- backlog,
    busy     <- Busy,
    nowhere  <- Nowhere,
    lost     <- Lost

(* The engine implements PacketFlow: whatever the contexts, the flag and   *)
(* the timers do, packets move as that specification allows.  None is lost *)
(* except those that enter without a next idp, for which the loop of       *)
(* process_packet() does not even start, none is run twice or on two CPUs, *)
(* and none overtakes another in a backlog.                                *)
ImplementsFlow == Flow!Spec

(* BUG_ON(!skb) of the timer handler is not reached by a handler that runs *)
(* on the CPU of its engine_disc: nobody else empties that backlog between *)
(* the unlocked test and the dequeue.                                      *)
NoBug == \A c \in Cpu : pc[c]["soft"] = "t_bug" => disc[c] # c

Queued(s, c) == \E i \in DOMAIN backlog[c] : backlog[c][i] = s

(* The timer of c expires on c, or its backlog is long enough for a timer  *)
(* on another CPU to care.                                                 *)
Served(c) == TimerCpus[c] = {c} \/ Len(backlog[c]) > Threshold

(* A packet that waits in a backlog is taken off it at last, although the  *)
(* context that found the backlog empty may have left just before the      *)
(* packet was queued: always where the timer expires on its own CPU, and   *)
(* while the backlog stays above the threshold where it does not (unless a *)
(* handler hits its BUG_ON).                                               *)
BacklogServed ==
    \A c \in Cpu, s \in Skb :
        (Queued(s, c) /\ Served(c))
            ~> (~Queued(s, c) \/ ~Served(c) \/ \E b \in Cpu : pc[b]["soft"] = "t_bug")

(* A packet that waits in a backlog is taken off it at last, wherever the  *)
(* timers expire.                                                          *)
NeverStranded == \A c \in Cpu, s \in Skb : Queued(s, c) ~> ~Queued(s, c)
=============================================================================
