----------------------------- MODULE PacketFlow -----------------------------
(***************************************************************************)
(* What the packet processing engine promises to the devices, sockets and  *)
(* functional blocks that use it, without contexts, flags and timers: a    *)
(* packet that is handed over is in one place at a time; each CPU runs one *)
(* packet at a time through functional blocks; packets that have to wait   *)
(* wait in one queue per CPU and leave it in the order they came; and a    *)
(* packet disappears only when a block is done with it, or when it came    *)
(* without a next block.                                                   *)
(***************************************************************************)
EXTENDS Sequences

CONSTANTS
    Cpu,        \* online CPUs
    Skb,        \* packet buffers
    NULL

VARIABLES
    arriving,   \* packets handed over, not yet queued or started
    queue,      \* queue[c]: packets that wait for CPU c
    busy,       \* busy[c]: the packet that CPU c is running through blocks
    nowhere,    \* packets in the engine that came without a next block
    lost        \* packets nobody will ever free

flow == <<arriving, queue, busy, nowhere, lost>>

InQueue(s) == \E c \in Cpu : \E i \in DOMAIN queue[c] : queue[c][i] = s

(* The engine knows nothing of the packet: its buffer may be used. *)
Unknown(s) ==
    /\ s \notin arriving
    /\ s \notin lost
    /\ ~InQueue(s)
    /\ \A c \in Cpu : busy[c] # s

Init ==
    /\ arriving = {}
    /\ queue = [c \in Cpu |-> <<>>]
    /\ busy = [c \in Cpu |-> NULL]
    /\ nowhere = {}
    /\ lost = {}

Arrive(s) ==
    /\ Unknown(s)
    /\ arriving' = arriving \cup {s}
    /\ nowhere' \in {nowhere, nowhere \cup {s}}
    /\ UNCHANGED <<queue, busy, lost>>

Wait(c, s) ==
    /\ s \in arriving
    /\ arriving' = arriving \ {s}
    /\ queue' = [queue EXCEPT ![c] = Append(@, s)]
    /\ UNCHANGED <<busy, nowhere, lost>>

Begin(c, s) ==
    /\ s \in arriving
    /\ busy[c] = NULL
    /\ arriving' = arriving \ {s}
    /\ busy' = [busy EXCEPT ![c] = s]
    /\ UNCHANGED <<queue, nowhere, lost>>

Take(c) ==
    /\ queue[c] # <<>>
    /\ busy[c] = NULL
    /\ busy' = [busy EXCEPT ![c] = Head(queue[c])]
    /\ queue' = [queue EXCEPT ![c] = Tail(@)]
    /\ UNCHANGED <<arriving, nowhere, lost>>

(* A timer hands the first packet of a queue over again. *)
Rearrive(c) ==
    /\ queue[c] # <<>>
    /\ arriving' = arriving \cup {Head(queue[c])}
    /\ queue' = [queue EXCEPT ![c] = Tail(@)]
    /\ UNCHANGED <<busy, nowhere, lost>>

(* A block, or the engine for a block that is gone, disposes of the packet. *)
Finish(c) ==
    /\ busy[c] # NULL
    /\ busy[c] \notin nowhere
    /\ busy' = [busy EXCEPT ![c] = NULL]
    /\ UNCHANGED <<arriving, queue, nowhere, lost>>

(* A packet without a next block is let go, but not freed. *)
Lose(c) ==
    /\ busy[c] # NULL
    /\ busy[c] \in nowhere
    /\ lost' = lost \cup {busy[c]}
    /\ busy' = [busy EXCEPT ![c] = NULL]
    /\ UNCHANGED <<arriving, queue, nowhere>>

(* A block queues a copy of its packet and keeps or frees the packet. *)
Copy(c, s) ==
    /\ busy[c] # NULL
    /\ busy[c] \notin nowhere
    /\ Unknown(s)
    /\ queue' = [queue EXCEPT ![c] = Append(@, s)]
    /\ busy' \in {busy, [busy EXCEPT ![c] = NULL]}
    /\ UNCHANGED <<arriving, nowhere, lost>>

Next ==
    \/ \E s \in Skb : Arrive(s)
    \/ \E c \in Cpu, s \in Skb : Wait(c, s) \/ Begin(c, s) \/ Copy(c, s)
    \/ \E c \in Cpu : Take(c) \/ Rearrive(c) \/ Finish(c) \/ Lose(c)

Spec == Init /\ [][Next]_flow
=============================================================================
