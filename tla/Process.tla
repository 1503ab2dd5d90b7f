------------------------------- MODULE Process -------------------------------
(***************************************************************************)
(* The process table and the cooperative scheduler of kernel/process.c.    *)
(*                                                                         *)
(* There is one CPU, no preemption (the PIT handler never calls            *)
(* process_schedule) and the processor changes hands only inside           *)
(* process_yield, so one call of the API, up to the context switch it may  *)
(* make, is one step.  A process resumed in the middle of process_wait     *)
(* goes on from there: "frame" is what its kernel stack remembers.         *)
(*                                                                         *)
(* Names, stack addresses, exit codes and saved registers are abstracted:  *)
(* a context is identified with the slot whose stack holds it.             *)
(***************************************************************************)
EXTENDS Naturals

CONSTANTS
  MaxProcs,      \* MAX_PROCESSES, the slots of process_table
  MaxPid,        \* bound: pids handed out; stands far below the 2^32 wrap
  KmallocFails,  \* whether kmalloc may refuse a kernel stack
  BlockStates    \* contract of process_block, which has no caller in the tree:
                 \* the states its callers may find the process in

ASSUME MaxProcsAssumption == MaxProcs \in Nat \ {0}
ASSUME MaxPidAssumption == MaxPid \in Nat
ASSUME KmallocAssumption == KmallocFails \in BOOLEAN
ASSUME BlockAssumption == BlockStates \subseteq {"READY", "RUNNING", "BLOCKED"}

VARIABLES
  table,              \* process_table
  current_pid,
  next_pid,
  scheduler_enabled,
  cpu,                \* the slot whose context the processor executes
  frame               \* per slot, where its suspended C code stands

vars == <<table, current_pid, next_pid, scheduler_enabled, cpu, frame>>

Slots == 0 .. MaxProcs - 1
NoSlot == MaxProcs              \* the NULL of process_t*
Pids == 0 .. MaxPid

States == {"FREE", "READY", "RUNNING", "BLOCKED", "ZOMBIE"}

\* kernel_stack: whether the memory of its stack is allocated
PCB == [pid : Pids, state : States, parent_pid : Pids, kernel_stack : BOOLEAN]

\* at: in its own code, inside process_wait, or in the hlt loop of libc's
\* _exit after process_exit came back; child, pid: process_wait's pointer and
\* argument.
Frame == [at : {"run", "wait", "halt"}, child : Slots, pid : Pids]
FreshFrame == [at |-> "run", child |-> 0, pid |-> 0]

TypeOK ==
  /\ table \in [Slots -> PCB]
  /\ current_pid \in Pids
  /\ next_pid \in 1 .. MaxPid + 1
  /\ scheduler_enabled \in BOOLEAN
  /\ cpu \in Slots
  /\ frame \in [Slots -> Frame]

-----------------------------------------------------------------------------
(* Helpers of process.c, on a table that the caller may already have changed *)

WithState(tbl, s, st) == [tbl EXCEPT ![s].state = st]

Live(tbl, s) == tbl[s].state # "FREE"

Matches(tbl, s, pid) == Live(tbl, s) /\ tbl[s].pid = pid

FirstMatch(tbl, s, pid) ==
  Matches(tbl, s, pid) /\ \A t \in Slots : t < s => ~Matches(tbl, t, pid)

FindProcess(tbl, pid) ==
  IF \E s \in Slots : Matches(tbl, s, pid)
  THEN CHOOSE s \in Slots : FirstMatch(tbl, s, pid)
  ELSE NoSlot

\* Mutant: a zombie's slot taken for a free one.
FirstDead(tbl, s) ==
  /\ tbl[s].state \in {"FREE", "ZOMBIE"}
  /\ \A t \in Slots : t < s => tbl[t].state \notin {"FREE", "ZOMBIE"}

FirstFree(tbl, s) == ~Live(tbl, s) /\ \A t \in Slots : t < s => Live(tbl, t)

\* Mutant: a scan that always starts after slot 0.
ScanSlotFromZero(i) == (1 + i) % MaxProcs

\* The scan uses the current PID as an index into the table.
ScanSlot(i) == (current_pid + 1 + i) % MaxProcs

IsNextReady(tbl, n) ==
  /\ tbl[n].state = "READY"
  /\ \E i \in Slots :
       /\ ScanSlot(i) = n
       /\ \A j \in Slots : j < i => tbl[ScanSlot(j)].state # "READY"

\* What find_next_ready returns besides "no process" and the current one.
SwitchTarget(tbl, n) ==
  /\ scheduler_enabled
  /\ IsNextReady(tbl, n)
  /\ n # FindProcess(tbl, current_pid)

\* Mutant: the process that yields is left RUNNING.
DemoteNothing(tbl) == tbl

Demote(tbl) ==
  LET c == FindProcess(tbl, current_pid)
  IN  IF c # NoSlot /\ tbl[c].state = "RUNNING"
      THEN WithState(tbl, c, "READY")
      ELSE tbl

\* process_yield, called with the table at tbl, switches to slot n ...
YieldTo(tbl, n) ==
  /\ SwitchTarget(tbl, n)
  /\ table' = WithState(Demote(tbl), n, "RUNNING")
  /\ current_pid' = tbl[n].pid
  /\ cpu' = IF FindProcess(tbl, current_pid) = NoSlot THEN cpu ELSE n

\* ... or returns to its caller at once.
YieldReturns(tbl) ==
  /\ \A n \in Slots : ~SwitchTarget(tbl, n)
  /\ table' = tbl
  /\ UNCHANGED <<current_pid, cpu>>

-----------------------------------------------------------------------------
(* The API, called by the process that has the CPU *)

\* The context that booted; its stack is not from the heap but is there.
KernelPCB ==
  [pid |-> 0, state |-> "RUNNING", parent_pid |-> 0, kernel_stack |-> TRUE]

FreePCB ==
  [pid |-> 0, state |-> "FREE", parent_pid |-> 0, kernel_stack |-> FALSE]

\* Mutant: the first pid handed out is the kernel's own.
FirstPidZero == 0

FirstPid == 1

Init ==
  /\ table = [s \in Slots |-> IF s = 0 THEN KernelPCB ELSE FreePCB]
  /\ current_pid = 0
  /\ next_pid = FirstPid
  /\ scheduler_enabled = FALSE
  /\ cpu = 0
  /\ frame = [s \in Slots |-> FreshFrame]

Executing == frame[cpu].at = "run"

NewPCB(state, stack) ==
  [pid |-> next_pid, state |-> state, parent_pid |-> current_pid,
   kernel_stack |-> stack]

Create(s) ==
  /\ Executing
  /\ next_pid <= MaxPid
  /\ FirstFree(table, s)
  /\ table' = [table EXCEPT ![s] = NewPCB("READY", TRUE)]
  /\ frame' = [frame EXCEPT ![s] = FreshFrame]
  /\ next_pid' = next_pid + 1
  /\ scheduler_enabled' = TRUE
  /\ UNCHANGED <<current_pid, cpu>>

\* No stack: the slot is given back, the pid is spent.
CreateNoMemory(s) ==
  /\ KmallocFails
  /\ Executing
  /\ next_pid <= MaxPid
  /\ FirstFree(table, s)
  /\ table' = [table EXCEPT ![s] = NewPCB("FREE", FALSE)]
  /\ next_pid' = next_pid + 1
  /\ UNCHANGED <<current_pid, scheduler_enabled, cpu, frame>>

Yield ==
  /\ Executing
  /\ \E n \in Slots : YieldTo(table, n)
  /\ UNCHANGED <<next_pid, scheduler_enabled, frame>>

\* Mutant: whatever state it is in.
WakeAlways(tbl, p) ==
  IF p # NoSlot THEN WithState(tbl, p, "READY") ELSE tbl

\* process_unblock, and what process_exit does to the parent it found.
Wake(tbl, p) ==
  IF p # NoSlot /\ tbl[p].state = "BLOCKED"
  THEN WithState(tbl, p, "READY")
  ELSE tbl

\* Mutant: the slot is given back at once instead of left for process_wait.
ExitedFree(c) ==
  LET dead == [WithState(table, c, "FREE") EXCEPT ![c].kernel_stack = FALSE]
  IN  Wake(dead, FindProcess(dead, table[c].parent_pid))

\* Mutant: the parent is not woken.
ExitedSilently(c) ==
  [table EXCEPT ![c].state = "ZOMBIE", ![c].kernel_stack = FALSE]

\* The table process_exit leaves to process_yield, for the process in slot c.
Exited(c) ==
  LET dead == [WithState(table, c, "ZOMBIE") EXCEPT ![c].kernel_stack = FALSE]
  IN  Wake(dead, FindProcess(dead, table[c].parent_pid))

\* process_exit; pid 0 is refused, which changes nothing.
Exit ==
  LET c == FindProcess(table, current_pid) IN
  /\ Executing
  /\ c # NoSlot /\ table[c].pid # 0
  /\ \/ /\ \E n \in Slots : YieldTo(Exited(c), n)
        /\ UNCHANGED frame
     \/ /\ YieldReturns(Exited(c))
        /\ frame' = [frame EXCEPT ![cpu].at = "halt"]
  /\ UNCHANGED <<next_pid, scheduler_enabled>>

Block(pid) ==
  LET p == FindProcess(table, pid) IN
  /\ Executing
  /\ p # NoSlot /\ table[p].state \in BlockStates
  /\ table' = WithState(table, p, "BLOCKED")
  /\ UNCHANGED <<current_pid, next_pid, scheduler_enabled, cpu, frame>>

\* May also be called from an interrupt handler, whoever has the CPU.
Unblock(pid) ==
  /\ table' = Wake(table, FindProcess(table, pid))
  /\ UNCHANGED <<current_pid, next_pid, scheduler_enabled, cpu, frame>>

Reap(child) == table' = WithState(table, child, "FREE")

\* process_wait's loop, entered or resumed, for the process in slot child.
WaitLoop(child, pid) ==
  LET c == FindProcess(table, current_pid)
      blocked == IF c = NoSlot THEN table
                 ELSE WithState(table, c, "BLOCKED")
  IN
  /\ \/ /\ table[child].state = "ZOMBIE"
        /\ Reap(child)
        /\ frame' = [frame EXCEPT ![cpu] = FreshFrame]
        /\ UNCHANGED <<current_pid, cpu>>
     \/ /\ table[child].state # "ZOMBIE"
        /\ (\E n \in Slots : YieldTo(blocked, n)) \/ YieldReturns(blocked)
        /\ frame' = [frame EXCEPT
                       ![cpu] = [at |-> "wait", child |-> child, pid |-> pid]]
  /\ UNCHANGED <<next_pid, scheduler_enabled>>

\* process_wait(pid); an unknown pid is refused, which changes nothing.  The
\* contract is the comment's: one waits for a child of one's own.
Wait(pid) ==
  LET child == FindProcess(table, pid) IN
  /\ Executing
  /\ child # NoSlot
  /\ pid # 0 /\ table[child].parent_pid = current_pid
  /\ WaitLoop(child, pid)

WaitAgain ==
  /\ frame[cpu].at = "wait"
  /\ WaitLoop(frame[cpu].child, frame[cpu].pid)

Next ==
  \/ \E s \in Slots : Create(s)
  \/ \E s \in Slots : CreateNoMemory(s)
  \/ Yield
  \/ Exit
  \/ \E pid \in Pids : Block(pid)
  \/ \E pid \in Pids : Unblock(pid)
  \/ \E pid \in Pids : Wait(pid)
  \/ WaitAgain

\* The cooperative contract: whoever gets the CPU eventually yields it (or
\* exits), and a resumed process_wait goes on.  Nobody is obliged to create,
\* exit, block or unblock anything.
Fairness ==
  \A s \in Slots : WF_vars(cpu = s /\ Yield) /\ WF_vars(cpu = s /\ WaitAgain)

Spec == Init /\ [][Next]_vars
FairSpec == Spec /\ Fairness

-----------------------------------------------------------------------------
(* Properties *)

UniquePids(tbl) ==
  \A s, t \in Slots :
    Live(tbl, s) /\ Live(tbl, t) /\ tbl[s].pid = tbl[t].pid => s = t

\* current_pid, the RUNNING state and the stack the processor is on never
\* disagree: process_yield saves the outgoing context in the slot it came
\* from, and no second process believes it has the CPU.
OneRunner ==
  /\ FindProcess(table, current_pid) = cpu
  /\ \A s \in Slots : table[s].state = "RUNNING" => s = cpu
  /\ UniquePids(table)

\* process_exit frees the kernel stack and only process_create allocates one:
\* no process that may ever be switched to is without its stack.
StackLive ==
  \A s \in Slots :
    table[s].state \in {"READY", "RUNNING", "BLOCKED"} => table[s].kernel_stack

\* process_wait keeps a pointer to the child's slot across context switches:
\* when it is resumed the slot still holds the process it was asked about,
\* neither reaped nor reused.
ChildPointerFresh ==
  \A s \in Slots :
    /\ Live(table, s)
    /\ frame[s].at = "wait"
    => /\ Matches(table, frame[s].child, frame[s].pid)
       /\ table[frame[s].child].parent_pid = table[s].pid

\* A parent inside process_wait is not left BLOCKED once its child is a zombie
\* (it may be BLOCKED in name while it spins on the CPU).
NoLostWakeup ==
  \A s \in Slots :
    /\ Live(table, s)
    /\ frame[s].at = "wait"
    /\ table[frame[s].child].state = "ZOMBIE"
    => table[s].state # "BLOCKED" \/ s = cpu

\* An exited process never runs again: its slot leaves ZOMBIE only to be FREE,
\* by the hand of its parent, and a slot leaves FREE only for a new pid.
LifeCycle ==
  [][\A s \in Slots :
       /\ table[s].state = "ZOMBIE" /\ table'[s].state # "ZOMBIE"
          => /\ table'[s].state = "FREE"
             /\ table[s].parent_pid = current_pid
       /\ table[s].state = "FREE" /\ table'[s].state # "FREE"
          => /\ table'[s].state = "READY"
             /\ \A t \in Slots : table[t].pid # table'[s].pid]_vars

PidsMatchSlots ==
  \A s \in Slots : Live(table, s) => table[s].pid % MaxProcs = s

Halted == \E s \in Slots : frame[s].at = "halt"

GetsCPU(s) == table[s].state = "READY" ~> cpu = s

\* A ready process gets the CPU, provided that no slot holds a foreign pid (the
\* scan starts at the pid, not at the slot) and nobody sits in _exit's hlt loop.
ReadyRunsIfAligned ==
  [](PidsMatchSlots /\ ~Halted) => \A s \in Slots : GetsCPU(s)

\* process.c:1 and :39 call the scheduler "round-robin": once all anybody does is
\* yield, nobody who is ready is passed over for ever.
RoundRobin ==
  []~Halted /\ <>[][Yield]_vars => \A s \in Slots : GetsCPU(s)

\* syscall.c:100, after sys_exit's call of process_exit: "Never reached".
ExitNeverReturns == ~Halted

=============================================================================
