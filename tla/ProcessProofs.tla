---------------------------- MODULE ProcessProofs ----------------------------
(***************************************************************************)
(* What Process promises for every size of the table and every number of   *)
(* pids.  IInv is the inductive invariant: pids are unique because every   *)
(* pid in the table is below next_pid; then find_process is a function,    *)
(* hence current_pid names the slot whose stack the processor is on; then  *)
(* no two processes can wait for one child, hence no pointer goes stale.   *)
(***************************************************************************)
EXTENDS Process, TLAPS

USE MaxProcsAssumption, MaxPidAssumption, KmallocAssumption, BlockAssumption

PidsBelowNext == \A s \in Slots : table[s].pid < next_pid

\* Nobody executes its own code after exiting.
CpuNotDead == table[cpu].state = "ZOMBIE" => frame[cpu].at = "halt"

IInv ==
  /\ TypeOK
  /\ OneRunner
  /\ PidsBelowNext
  /\ StackLive
  /\ ChildPointerFresh
  /\ CpuNotDead

\* While pids are unique, find_process returns the live slot with that pid ...
LEMMA FindFound ==
  ASSUME NEW tbl, NEW pid, NEW s \in Slots, UniquePids(tbl),
         Matches(tbl, s, pid)
  PROVE  FindProcess(tbl, pid) = s
<1>1. \A t \in Slots : Matches(tbl, t, pid) => t = s
  BY DEF UniquePids, Matches
<1>2. FirstMatch(tbl, s, pid)
  <2>1. \A t \in Slots : t < s => t # s
    BY DEF Slots
  <2> QED BY <1>1, <2>1 DEF FirstMatch
<1>3. \A t \in Slots : FirstMatch(tbl, t, pid) => t = s
  BY <1>1 DEF FirstMatch
<1> QED BY <1>2, <1>3 DEF FindProcess

\* ... or NULL, and nothing else.
LEMMA FindResult ==
  ASSUME NEW tbl, NEW pid, UniquePids(tbl), FindProcess(tbl, pid) # NoSlot
  PROVE  /\ FindProcess(tbl, pid) \in Slots
         /\ Matches(tbl, FindProcess(tbl, pid), pid)
<1>1. PICK s \in Slots : Matches(tbl, s, pid)
  BY DEF FindProcess
<1> QED BY <1>1, FindFound

\* The NULL pointer is not a slot.
LEMMA NoSlotIsNoSlot == NoSlot \notin Slots
  BY DEF NoSlot, Slots

\* SameBut(u, tbl, n): u differs from tbl in the state of slot n only.
SameBut(u, tbl, n) ==
  /\ \A s \in Slots : s # n => u[s] = tbl[s]
  /\ u[n].pid = tbl[n].pid
  /\ u[n].parent_pid = tbl[n].parent_pid
  /\ u[n].kernel_stack = tbl[n].kernel_stack

\* The five values of process_state_t.
LEMMA StatesAre ==
  /\ "FREE" \in States /\ "READY" \in States /\ "RUNNING" \in States
  /\ "BLOCKED" \in States /\ "ZOMBIE" \in States
  BY DEF States

\* An assignment to p->state changes one state and nothing else.
LEMMA SetState ==
  ASSUME NEW tbl \in [Slots -> PCB], NEW n \in Slots, NEW st \in States
  PROVE  /\ WithState(tbl, n, st) \in [Slots -> PCB]
         /\ WithState(tbl, n, st)[n].state = st
         /\ SameBut(WithState(tbl, n, st), tbl, n)
<1> DEFINE q == [tbl[n] EXCEPT !.state = st]
<1>1. tbl[n] \in PCB
  OBVIOUS
<1>2. /\ q \in PCB /\ q.state = st /\ q.pid = tbl[n].pid
      /\ q.parent_pid = tbl[n].parent_pid
      /\ q.kernel_stack = tbl[n].kernel_stack
  BY <1>1 DEF PCB
<1>3. WithState(tbl, n, st) = [tbl EXCEPT ![n] = q]
  BY DEF WithState
<1> HIDE DEF q
<1> QED BY <1>2, <1>3 DEF SameBut

\* What process_yield may do to a table in which only the caller runs.
LEMMA YieldStep ==
  ASSUME NEW tbl \in [Slots -> PCB], cpu \in Slots,
         UniquePids(tbl), Matches(tbl, cpu, current_pid), current_pid \in Pids,
         \A s \in Slots : tbl[s].state = "RUNNING" => s = cpu,
         (\E n \in Slots : YieldTo(tbl, n)) \/ YieldReturns(tbl)
  PROVE  /\ table' \in [Slots -> PCB]
         /\ cpu' \in Slots /\ current_pid' \in Pids
         /\ Matches(table', cpu', current_pid')
         /\ \A s \in Slots : table'[s].state = "RUNNING" => s = cpu'
         /\ \A s \in Slots :
              /\ table'[s].pid = tbl[s].pid
              /\ table'[s].parent_pid = tbl[s].parent_pid
              /\ table'[s].kernel_stack = tbl[s].kernel_stack
         /\ \A s \in Slots :
              \/ table'[s].state = tbl[s].state
              \/ tbl[s].state = "RUNNING" /\ table'[s].state = "READY"
              \/ tbl[s].state = "READY" /\ table'[s].state = "RUNNING"
         /\ (\E n \in Slots : YieldTo(tbl, n))
              => cpu' # cpu /\ table'[cpu'].state = "RUNNING"
         /\ YieldReturns(tbl) => cpu' = cpu /\ table' = tbl
<1>1. FindProcess(tbl, current_pid) = cpu
  BY FindFound
<1>2. CASE YieldReturns(tbl)
  BY <1>2 DEF YieldReturns, YieldTo
<1>3. ASSUME NEW n \in Slots, YieldTo(tbl, n)
      PROVE  /\ cpu' = n /\ n # cpu /\ tbl[n].state = "READY"
             /\ current_pid' = tbl[n].pid
             /\ table' = WithState(Demote(tbl), n, "RUNNING")
  BY <1>1, <1>3, NoSlotIsNoSlot DEF YieldTo, SwitchTarget, IsNextReady
<1>4. /\ Demote(tbl) \in [Slots -> PCB]
      /\ SameBut(Demote(tbl), tbl, cpu)
      /\ Demote(tbl)[cpu].state = IF tbl[cpu].state = "RUNNING" THEN "READY"
                                  ELSE tbl[cpu].state
  <2>1. CASE tbl[cpu].state = "RUNNING"
    <3>1. Demote(tbl) = WithState(tbl, cpu, "READY")
      BY <1>1, <2>1, NoSlotIsNoSlot DEF Demote
    <3>2. /\ Demote(tbl) \in [Slots -> PCB]
          /\ SameBut(Demote(tbl), tbl, cpu)
          /\ Demote(tbl)[cpu].state = "READY"
      BY <3>1, SetState, StatesAre
    <3> QED BY <2>1, <3>2
  <2>2. CASE tbl[cpu].state # "RUNNING"
    BY <1>1, <2>2 DEF Demote, SameBut
  <2> QED BY <2>1, <2>2
<1>5. ASSUME NEW n \in Slots, YieldTo(tbl, n)
      PROVE  /\ table' \in [Slots -> PCB]
             /\ table'[n].state = "RUNNING"
             /\ SameBut(table', Demote(tbl), n)
  BY <1>3, <1>4, <1>5, SetState, StatesAre
<1>6. CASE \E n \in Slots : YieldTo(tbl, n)
  <2> PICK n \in Slots : YieldTo(tbl, n)
    BY <1>6
  <2>1. tbl[n].pid \in Pids
    BY DEF PCB
  <2>2. ~YieldReturns(tbl)
    BY DEF YieldReturns, YieldTo
  <2> QED BY <1>3, <1>4, <1>5, <2>1, <2>2 DEF Matches, Live, SameBut
<1> QED BY <1>2, <1>6

\* process_unblock, and process_exit for the parent: one process goes from BLOCKED
\* to READY, or nothing happens.
LEMMA WakeStep ==
  ASSUME NEW tbl \in [Slots -> PCB], UniquePids(tbl), NEW pid,
         NEW u, u = Wake(tbl, FindProcess(tbl, pid))
  PROVE  /\ u \in [Slots -> PCB]
         /\ \A s \in Slots :
              /\ u[s].pid = tbl[s].pid
              /\ u[s].parent_pid = tbl[s].parent_pid
              /\ u[s].kernel_stack = tbl[s].kernel_stack
              /\ \/ u[s].state = tbl[s].state
                 \/ tbl[s].state = "BLOCKED" /\ u[s].state = "READY"
         /\ \A s \in Slots : Matches(tbl, s, pid) => u[s].state # "BLOCKED"
<1> DEFINE p == FindProcess(tbl, pid)
<1>1. \A s \in Slots : Matches(tbl, s, pid) => p = s
  BY FindFound
<1>2. CASE p # NoSlot /\ tbl[p].state = "BLOCKED"
  <2>1. p \in Slots
    BY <1>2, FindResult
  <2>2. u = WithState(tbl, p, "READY")
    BY <1>2 DEF Wake
  <2>3. /\ u \in [Slots -> PCB]
        /\ u[p].state = "READY"
        /\ SameBut(u, tbl, p)
    BY <2>1, <2>2, SetState, StatesAre
  <2> QED BY <1>1, <1>2, <2>3 DEF SameBut
<1>3. CASE ~(p # NoSlot /\ tbl[p].state = "BLOCKED")
  BY <1>1, <1>3, NoSlotIsNoSlot DEF Wake
<1> QED BY <1>2, <1>3

\* Pids stay unique when no pid changes and no slot becomes live.
LEMMA UniqueKept ==
  ASSUME NEW t, NEW u, UniquePids(t),
         \A s \in Slots : u[s].pid = t[s].pid /\ (Live(u, s) => Live(t, s))
  PROVE  UniquePids(u)
  BY DEF UniquePids

\* What OneRunner says of the running slot, in the form the steps use.
LEMMA Runner ==
  ASSUME TypeOK, OneRunner
  PROVE  /\ Matches(table, cpu, current_pid)
         /\ FindProcess(table, current_pid) = cpu
  BY FindResult, NoSlotIsNoSlot DEF OneRunner, TypeOK

\* A step that only changes states, and frees slots, preserves IInv if the
\* pids stay and who runs stays clear.
LEMMA StateChange ==
  ASSUME IInv,
         table' \in [Slots -> PCB], cpu' \in Slots, current_pid' \in Pids,
         frame' \in [Slots -> Frame],
         UNCHANGED <<next_pid, scheduler_enabled>>,
         Matches(table', cpu', current_pid'),
         \A s \in Slots : table'[s].state = "RUNNING" => s = cpu',
         \A s \in Slots :
           table'[s].pid = table[s].pid /\ (Live(table', s) => Live(table, s)),
         StackLive', ChildPointerFresh', CpuNotDead'
  PROVE  IInv'
<1>1. TypeOK'
  BY DEF IInv, TypeOK
<1>2. UniquePids(table')
  BY UniqueKept DEF IInv, OneRunner
<1>3. FindProcess(table', current_pid') = cpu'
  BY <1>2, FindFound
<1>4. OneRunner'
  BY <1>2, <1>3 DEF OneRunner, UniquePids, Live, FindProcess, FirstMatch,
     Matches, Slots, NoSlot
<1>5. PidsBelowNext'
  BY DEF IInv, PidsBelowNext
<1> QED BY <1>1, <1>4, <1>5 DEF IInv

-----------------------------------------------------------------------------
(* The steps *)

\* process_init.
LEMMA InitInv == Init => IInv
<1> SUFFICES ASSUME Init PROVE IInv
  OBVIOUS
<1>1. 0 \in Slots /\ 0 \in Pids
  BY DEF Slots, Pids
<1>2. /\ KernelPCB \in PCB /\ KernelPCB.state = "RUNNING"
      /\ KernelPCB.pid = 0 /\ KernelPCB.kernel_stack = TRUE
      /\ FreePCB \in PCB /\ FreePCB.state = "FREE" /\ FreePCB.pid = 0
  BY <1>1 DEF KernelPCB, FreePCB, PCB, States
<1>3. FreshFrame \in Frame /\ FreshFrame.at = "run"
  BY <1>1 DEF FreshFrame, Frame
<1>4. TypeOK
  <2>1. table \in [Slots -> PCB]
    BY <1>2 DEF Init
  <2>2. frame \in [Slots -> Frame]
    BY <1>3 DEF Init
  <2>3. next_pid \in 1 .. MaxPid + 1
    BY DEF Init, FirstPid
  <2> QED BY <1>1, <2>1, <2>2, <2>3 DEF Init, TypeOK
<1>5. /\ table[0] = KernelPCB
      /\ \A s \in Slots : s # 0 => table[s] = FreePCB
  BY <1>1 DEF Init
<1>6. \A s \in Slots : Live(table, s) <=> s = 0
  BY <1>1, <1>2, <1>5 DEF Live
<1>7. UniquePids(table)
  BY <1>6 DEF UniquePids
<1>8. FindProcess(table, current_pid) = cpu
  <2>1. Matches(table, 0, 0)
    BY <1>1, <1>2, <1>5, <1>6 DEF Matches
  <2> QED BY <1>1, <1>7, <2>1, FindFound DEF Init
<1>9. OneRunner
  <2>1. \A s \in Slots : table[s].state = "RUNNING" => s = cpu
    BY <1>2, <1>5 DEF Init
  <2> QED BY <1>7, <1>8, <2>1 DEF OneRunner
<1>10. PidsBelowNext /\ StackLive
  BY <1>1, <1>2, <1>5 DEF Init, PidsBelowNext, StackLive, FirstPid
<1>11. ChildPointerFresh /\ CpuNotDead
  BY <1>1, <1>2, <1>3, <1>5 DEF Init, ChildPointerFresh, CpuNotDead
<1> QED BY <1>4, <1>9, <1>10, <1>11 DEF IInv

\* A slot that was not live is given a new pid: the other slots keep theirs.
LEMMA CreateSlot ==
  ASSUME IInv, next_pid <= MaxPid, NEW s \in Slots, FirstFree(table, s),
         NEW state \in {"READY", "FREE"}, NEW stack \in BOOLEAN,
         state = "READY" => stack,
         table' = [table EXCEPT ![s] = NewPCB(state, stack)],
         frame' \in [Slots -> Frame],
         \A t \in Slots : Live(table', t) /\ frame'[t].at = "wait"
                            => t # s /\ frame'[t] = frame[t],
         frame'[cpu] = frame[cpu],
         next_pid' = next_pid + 1, scheduler_enabled' \in BOOLEAN,
         UNCHANGED <<current_pid, cpu>>
  PROVE  IInv'
<1> DEFINE new == NewPCB(state, stack)
<1>1. /\ new \in [pid : 0 .. MaxPid, state : States, parent_pid : Pids,
                  kernel_stack : BOOLEAN]
      /\ new.pid = next_pid /\ new.state = state /\ new.kernel_stack = stack
  BY DEF NewPCB, IInv, TypeOK, States, Pids
<1>2. new \in PCB
  BY <1>1 DEF PCB, Pids
<1> HIDE DEF new
<1>3. /\ table' \in [Slots -> PCB]
      /\ table'[s] = new
      /\ \A t \in Slots : t # s => table'[t] = table[t]
  BY <1>2 DEF IInv, TypeOK, new
<1>4. TypeOK'
  BY <1>3 DEF IInv, TypeOK
<1>5. ~Live(table, s)
  BY DEF FirstFree
<1>6. PidsBelowNext'
  BY <1>1, <1>3 DEF IInv, PidsBelowNext, TypeOK, PCB, Pids
<1>7. UniquePids(table')
  BY <1>1, <1>3 DEF IInv, OneRunner, UniquePids, PidsBelowNext, Live, TypeOK
<1>8. s # cpu /\ Matches(table', cpu, current_pid)
  BY <1>3, <1>5, Runner DEF IInv, Matches, Live
<1>9. OneRunner'
  <2>1. FindProcess(table', current_pid') = cpu'
    BY <1>7, <1>8, FindFound DEF IInv, TypeOK
  <2>2. \A t \in Slots : table'[t].state = "RUNNING" => t = cpu'
    BY <1>1, <1>3 DEF IInv, OneRunner
  <2> QED BY <1>7, <2>1, <2>2 DEF OneRunner, UniquePids, Live, FindProcess,
     FirstMatch, Matches, Slots, NoSlot
<1>10. StackLive'
  BY <1>1, <1>3 DEF IInv, StackLive
<1>11. ChildPointerFresh'
  <2> SUFFICES ASSUME NEW t \in Slots, Live(table', t), frame'[t].at = "wait"
               PROVE  /\ Matches(table', frame'[t].child, frame'[t].pid)
                      /\ table'[frame'[t].child].parent_pid = table'[t].pid
    BY DEF ChildPointerFresh, Matches, Live
  <2>1. t # s /\ frame'[t] = frame[t] /\ Live(table, t) /\ table'[t] = table[t]
    BY <1>3 DEF Live
  <2>2. /\ Matches(table, frame[t].child, frame[t].pid)
        /\ table[frame[t].child].parent_pid = table[t].pid
    BY <2>1 DEF IInv, ChildPointerFresh
  <2>3. frame[t].child \in Slots /\ frame[t].child # s
    BY <1>5, <2>2 DEF IInv, TypeOK, Frame, Matches
  <2> QED BY <1>3, <2>1, <2>2, <2>3 DEF Matches, Live
<1>12. CpuNotDead'
  BY <1>3, <1>8 DEF IInv, CpuNotDead
<1> QED BY <1>4, <1>6, <1>9, <1>10, <1>11, <1>12 DEF IInv

\* A new process stands at its entry point.
LEMMA FreshFrameIsFrame == FreshFrame \in Frame /\ FreshFrame.at = "run"
  BY DEF FreshFrame, Frame, Slots, Pids

\* process_create.
LEMMA CreateInv ==
  ASSUME IInv, NEW s \in Slots, Create(s) PROVE IInv'
<1>1. frame' \in [Slots -> Frame]
  BY FreshFrameIsFrame DEF Create, IInv, TypeOK
<1>2. s # cpu
  BY Runner DEF Create, FirstFree, IInv, Matches
<1>3. frame'[cpu] = frame[cpu]
  BY <1>2 DEF Create, IInv, TypeOK
<1>4. \A t \in Slots : Live(table', t) /\ frame'[t].at = "wait"
                         => t # s /\ frame'[t] = frame[t]
  BY FreshFrameIsFrame DEF Create, IInv, TypeOK
<1> QED BY <1>1, <1>3, <1>4, CreateSlot DEF Create

\* process_create, when kmalloc refuses the stack.
LEMMA CreateNoMemoryInv ==
  ASSUME IInv, NEW s \in Slots, CreateNoMemory(s) PROVE IInv'
<1>1. frame' \in [Slots -> Frame] /\ frame'[cpu] = frame[cpu]
  BY DEF CreateNoMemory, IInv, TypeOK
<1>2. ~Live(table', s)
  BY DEF CreateNoMemory, IInv, TypeOK, NewPCB, Live
<1>3. \A t \in Slots : Live(table', t) /\ frame'[t].at = "wait"
                         => t # s /\ frame'[t] = frame[t]
  BY <1>2 DEF CreateNoMemory
<1>4. scheduler_enabled' \in BOOLEAN
  BY DEF CreateNoMemory, IInv, TypeOK
<1> QED BY <1>1, <1>3, <1>4, CreateSlot DEF CreateNoMemory

\* process_yield.
LEMMA YieldInv ==
  ASSUME IInv, Yield PROVE IInv'
<1>1. /\ table \in [Slots -> PCB] /\ cpu \in Slots /\ UniquePids(table)
      /\ Matches(table, cpu, current_pid) /\ current_pid \in Pids
      /\ \A s \in Slots : table[s].state = "RUNNING" => s = cpu
  BY Runner DEF IInv, TypeOK, OneRunner
<1>2. \E n \in Slots : YieldTo(table, n)
  BY DEF Yield
<1>3. UNCHANGED <<next_pid, scheduler_enabled, frame>>
  BY DEF Yield
<1>4. /\ table' \in [Slots -> PCB]
      /\ cpu' \in Slots /\ current_pid' \in Pids
      /\ Matches(table', cpu', current_pid')
      /\ \A s \in Slots : table'[s].state = "RUNNING" => s = cpu'
      /\ \A s \in Slots :
           /\ table'[s].pid = table[s].pid
           /\ table'[s].parent_pid = table[s].parent_pid
           /\ table'[s].kernel_stack = table[s].kernel_stack
      /\ \A s \in Slots :
           \/ table'[s].state = table[s].state
           \/ table[s].state = "RUNNING" /\ table'[s].state = "READY"
           \/ table[s].state = "READY" /\ table'[s].state = "RUNNING"
      /\ table'[cpu'].state = "RUNNING"
  BY <1>1, <1>2, YieldStep
<1>5. \A s \in Slots : Live(table', s) <=> Live(table, s)
  BY <1>4 DEF Live
<1>6. StackLive'
  BY <1>4 DEF StackLive, IInv
<1>7. ChildPointerFresh'
  BY <1>3, <1>4, <1>5
     DEF ChildPointerFresh, IInv, Matches, Live, TypeOK, Frame
<1>8. CpuNotDead'
  BY <1>3, <1>4 DEF CpuNotDead, IInv
<1> QED BY <1>3, <1>4, <1>5, <1>6, <1>7, <1>8, StateChange DEF IInv, TypeOK

\* The table process_exit hands to process_yield.
LEMMA ExitedStep ==
  ASSUME IInv, NEW e, e = Exited(cpu)
  PROVE  /\ e \in [Slots -> PCB] /\ UniquePids(e)
         /\ Matches(e, cpu, current_pid) /\ e[cpu].state = "ZOMBIE"
         /\ \A s \in Slots :
              /\ e[s].pid = table[s].pid
              /\ e[s].parent_pid = table[s].parent_pid
              /\ Live(e, s) <=> Live(table, s)
              /\ s # cpu => e[s].kernel_stack = table[s].kernel_stack
              /\ s # cpu => \/ e[s].state = table[s].state
                            \/ table[s].state = "BLOCKED" /\ e[s].state = "READY"
         /\ \A s \in Slots : Matches(table, s, table[cpu].parent_pid)
                               => e[s].state # "BLOCKED"
<1> DEFINE z == WithState(table, cpu, "ZOMBIE")
           q == [z[cpu] EXCEPT !.kernel_stack = FALSE]
           dead == [z EXCEPT ![cpu].kernel_stack = FALSE]
<1>1. /\ cpu \in Slots /\ table \in [Slots -> PCB] /\ UniquePids(table)
      /\ Matches(table, cpu, current_pid)
  BY Runner DEF IInv, TypeOK, OneRunner
<1>2. /\ z \in [Slots -> PCB]
      /\ z[cpu].state = "ZOMBIE"
      /\ SameBut(z, table, cpu)
  BY <1>1, SetState, StatesAre
<1> HIDE DEF z
<1>3. z[cpu] \in PCB
  BY <1>1, <1>2
<1>4. /\ q \in PCB /\ q.state = "ZOMBIE" /\ q.pid = z[cpu].pid
      /\ q.parent_pid = z[cpu].parent_pid
  BY <1>2, <1>3 DEF PCB
<1>5. dead = [z EXCEPT ![cpu] = q]
  OBVIOUS
<1>6. e = Wake(dead, FindProcess(dead, table[cpu].parent_pid))
  BY DEF Exited, z
<1> HIDE DEF q, dead
<1>7. /\ dead \in [Slots -> PCB] /\ dead[cpu].state = "ZOMBIE"
      /\ \A s \in Slots :
           /\ dead[s].pid = table[s].pid
           /\ dead[s].parent_pid = table[s].parent_pid
           /\ s # cpu => dead[s] = table[s]
  BY <1>1, <1>2, <1>4, <1>5 DEF SameBut
<1>8. \A s \in Slots : Live(dead, s) <=> Live(table, s)
  BY <1>1, <1>7 DEF Live, Matches
<1>9. UniquePids(dead)
  BY <1>1, <1>7, <1>8, UniqueKept
<1>10. /\ e \in [Slots -> PCB]
       /\ \A s \in Slots :
            /\ e[s].pid = dead[s].pid
            /\ e[s].parent_pid = dead[s].parent_pid
            /\ e[s].kernel_stack = dead[s].kernel_stack
            /\ \/ e[s].state = dead[s].state
               \/ dead[s].state = "BLOCKED" /\ e[s].state = "READY"
       /\ \A s \in Slots : Matches(dead, s, table[cpu].parent_pid)
                             => e[s].state # "BLOCKED"
  BY <1>6, <1>7, <1>9, WakeStep
<1>11. \A s \in Slots : Live(e, s) <=> Live(table, s)
  BY <1>8, <1>10 DEF Live
<1>12. UniquePids(e)
  BY <1>1, <1>7, <1>10, <1>11, UniqueKept
<1>13. \A s \in Slots : Matches(table, s, table[cpu].parent_pid)
                          => Matches(dead, s, table[cpu].parent_pid)
  BY <1>7, <1>8 DEF Matches
<1> QED BY <1>1, <1>7, <1>10, <1>11, <1>12, <1>13 DEF Matches

\* process_exit, with the yield it ends in.
LEMMA ExitInv ==
  ASSUME IInv, Exit PROVE IInv'
<1> DEFINE e == Exited(cpu)
<1>1. /\ cpu \in Slots /\ current_pid \in Pids
      /\ FindProcess(table, current_pid) = cpu
      /\ Matches(table, cpu, current_pid)
  BY Runner DEF IInv, TypeOK
<1>2. /\ UNCHANGED <<next_pid, scheduler_enabled>>
      /\ \/ (\E n \in Slots : YieldTo(e, n)) /\ frame' = frame
         \/ YieldReturns(e) /\ frame' = [frame EXCEPT ![cpu].at = "halt"]
      /\ frame[cpu].at = "run"
  BY <1>1 DEF Exit, Executing
<1>3. /\ e \in [Slots -> PCB] /\ UniquePids(e)
      /\ Matches(e, cpu, current_pid) /\ e[cpu].state = "ZOMBIE"
      /\ \A s \in Slots :
           /\ e[s].pid = table[s].pid
           /\ e[s].parent_pid = table[s].parent_pid
           /\ Live(e, s) <=> Live(table, s)
           /\ s # cpu => e[s].kernel_stack = table[s].kernel_stack
           /\ s # cpu => \/ e[s].state = table[s].state
                         \/ table[s].state = "BLOCKED" /\ e[s].state = "READY"
  BY ExitedStep
<1> HIDE DEF e
<1>4. \A s \in Slots : e[s].state = "RUNNING" => s = cpu
  BY <1>3 DEF IInv, OneRunner
<1>5. /\ table' \in [Slots -> PCB]
      /\ cpu' \in Slots /\ current_pid' \in Pids
      /\ Matches(table', cpu', current_pid')
      /\ \A s \in Slots : table'[s].state = "RUNNING" => s = cpu'
      /\ \A s \in Slots :
           /\ table'[s].pid = e[s].pid
           /\ table'[s].parent_pid = e[s].parent_pid
           /\ table'[s].kernel_stack = e[s].kernel_stack
      /\ \A s \in Slots :
           \/ table'[s].state = e[s].state
           \/ e[s].state = "RUNNING" /\ table'[s].state = "READY"
           \/ e[s].state = "READY" /\ table'[s].state = "RUNNING"
      /\ (\E n \in Slots : YieldTo(e, n)) => table'[cpu'].state = "RUNNING"
      /\ YieldReturns(e) => cpu' = cpu
  BY <1>1, <1>2, <1>3, <1>4, YieldStep
<1>6. \A s \in Slots : Live(table', s) <=> Live(table, s)
  BY <1>3, <1>5 DEF Live
<1>7. StackLive'
  BY <1>3, <1>5 DEF StackLive, IInv
<1>8. /\ frame' \in [Slots -> Frame]
      /\ \A s \in Slots : frame'[s].at = "wait" => frame'[s] = frame[s]
      /\ YieldReturns(e) => frame'[cpu].at = "halt"
  <2>1. CASE frame' = frame /\ ~YieldReturns(e)
    BY <2>1 DEF IInv, TypeOK
  <2>2. CASE frame' = [frame EXCEPT ![cpu].at = "halt"]
    <3> DEFINE f == [frame[cpu] EXCEPT !.at = "halt"]
    <3>1. frame[cpu] \in Frame
      BY <1>1 DEF IInv, TypeOK
    <3>2. f \in Frame /\ f.at = "halt"
      BY <3>1 DEF Frame
    <3>3. frame' = [frame EXCEPT ![cpu] = f]
      BY <2>2
    <3> HIDE DEF f
    <3> QED BY <1>1, <3>2, <3>3 DEF IInv, TypeOK
  <2>3. (\E n \in Slots : YieldTo(e, n)) => ~YieldReturns(e)
    BY DEF YieldReturns, YieldTo
  <2> QED BY <1>2, <2>1, <2>2, <2>3
<1>9. ChildPointerFresh'
  BY <1>3, <1>5, <1>6, <1>8
     DEF ChildPointerFresh, IInv, Matches, Live, TypeOK, Frame
<1>10. CpuNotDead'
  BY <1>2, <1>5, <1>8 DEF CpuNotDead
<1> QED BY <1>2, <1>3, <1>5, <1>6, <1>7, <1>8, <1>9, <1>10, StateChange
        DEF IInv, TypeOK

\* Steps that change states of live processes but not who runs.
LEMMA SameRunner ==
  ASSUME IInv, table' \in [Slots -> PCB],
         UNCHANGED <<current_pid, next_pid, scheduler_enabled, cpu, frame>>,
         \A s \in Slots :
           /\ table'[s].pid = table[s].pid
           /\ table'[s].parent_pid = table[s].parent_pid
           /\ table'[s].kernel_stack = table[s].kernel_stack
           /\ \/ table'[s].state = table[s].state
              \/ /\ table[s].state \in {"READY", "RUNNING", "BLOCKED"}
                 /\ table'[s].state \in {"READY", "BLOCKED"}
  PROVE  IInv'
<1>1. \A s \in Slots : Live(table', s) <=> Live(table, s)
  BY DEF Live
<1>2. Matches(table', cpu', current_pid')
  BY <1>1, Runner DEF Matches, IInv, TypeOK
<1>3. StackLive'
  BY DEF StackLive, IInv
<1>4. ChildPointerFresh'
  BY <1>1 DEF ChildPointerFresh, IInv, Matches, Live, TypeOK, Frame
<1>5. CpuNotDead'
  BY DEF CpuNotDead, IInv, TypeOK
<1>6. \A s \in Slots : table'[s].state = "RUNNING" => s = cpu'
  BY DEF IInv, OneRunner
<1> QED BY <1>1, <1>2, <1>3, <1>4, <1>5, <1>6, StateChange DEF IInv, TypeOK

\* process_block, on whatever process its callers may give it.
LEMMA BlockInv ==
  ASSUME IInv, NEW pid \in Pids, Block(pid) PROVE IInv'
<1> DEFINE p == FindProcess(table, pid)
<1>1. /\ p \in Slots /\ p # NoSlot /\ table[p].state \in BlockStates
      /\ table' = WithState(table, p, "BLOCKED")
      /\ UNCHANGED <<current_pid, next_pid, scheduler_enabled, cpu, frame>>
  BY FindResult DEF Block, IInv, OneRunner
<1> HIDE DEF p
<1>2. /\ table' \in [Slots -> PCB]
      /\ table'[p].state = "BLOCKED"
      /\ SameBut(table', table, p)
  BY <1>1, SetState, StatesAre DEF IInv, TypeOK
<1> QED BY <1>1, <1>2, SameRunner DEF SameBut

\* process_unblock.
LEMMA UnblockInv ==
  ASSUME IInv, NEW pid \in Pids, Unblock(pid) PROVE IInv'
<1>1. /\ table' = Wake(table, FindProcess(table, pid))
      /\ table \in [Slots -> PCB] /\ UniquePids(table)
      /\ UNCHANGED <<current_pid, next_pid, scheduler_enabled, cpu, frame>>
  BY DEF Unblock, IInv, TypeOK, OneRunner
<1>2. /\ table' \in [Slots -> PCB]
      /\ \A s \in Slots :
           /\ table'[s].pid = table[s].pid
           /\ table'[s].parent_pid = table[s].parent_pid
           /\ table'[s].kernel_stack = table[s].kernel_stack
           /\ \/ table'[s].state = table[s].state
              \/ table[s].state = "BLOCKED" /\ table'[s].state = "READY"
  BY <1>1, WakeStep
<1> QED BY <1>1, <1>2, SameRunner

\* process_wait, entered or resumed, collects only the caller's own child.
LEMMA WaitLoopInv ==
  ASSUME IInv, NEW child \in Slots, NEW pid \in Pids, WaitLoop(child, pid),
         Matches(table, child, pid),
         table[child].parent_pid = table[cpu].pid,
         frame[cpu].at # "halt"
  PROVE  IInv'
<1>1. /\ cpu \in Slots /\ current_pid \in Pids /\ UniquePids(table)
      /\ table \in [Slots -> PCB] /\ frame \in [Slots -> Frame]
      /\ FindProcess(table, current_pid) = cpu /\ cpu # NoSlot
      /\ Matches(table, cpu, current_pid)
      /\ table[cpu].state # "ZOMBIE"
  BY Runner, NoSlotIsNoSlot DEF IInv, TypeOK, OneRunner, CpuNotDead
<1>2. UNCHANGED <<next_pid, scheduler_enabled>>
  BY DEF WaitLoop
<1>3. CASE table[child].state = "ZOMBIE"
  <2>1. /\ table' = WithState(table, child, "FREE")
        /\ frame' = [frame EXCEPT ![cpu] = FreshFrame]
        /\ UNCHANGED <<current_pid, cpu>>
    BY <1>3 DEF WaitLoop, Reap
  <2>2. /\ table' \in [Slots -> PCB]
        /\ table'[child].state = "FREE"
        /\ SameBut(table', table, child)
    BY <1>1, <2>1, SetState, StatesAre
  <2>3. child # cpu
    BY <1>1, <1>3
  <2>4. /\ \A s \in Slots : s # child => table'[s] = table[s]
        /\ \A s \in Slots : table'[s].pid = table[s].pid
        /\ \A s \in Slots : Live(table', s) => Live(table, s)
        /\ ~Live(table', child)
    BY <1>3, <2>2 DEF SameBut, Live
  <2>5. Matches(table', cpu', current_pid')
    BY <1>1, <2>1, <2>3, <2>4 DEF Matches, Live
  <2>6. \A s \in Slots : table'[s].state = "RUNNING" => s = cpu'
    BY <2>1, <2>2, <2>4 DEF IInv, OneRunner
  <2>7. StackLive'
    BY <2>2, <2>4 DEF IInv, StackLive
  <2>8. /\ frame' \in [Slots -> Frame]
        /\ frame'[cpu].at = "run"
        /\ \A s \in Slots : s # cpu => frame'[s] = frame[s]
    BY <1>1, <2>1, FreshFrameIsFrame
  <2>9. ChildPointerFresh'
    <3> SUFFICES ASSUME NEW s \in Slots, Live(table', s), frame'[s].at = "wait"
                 PROVE  /\ Matches(table', frame'[s].child, frame'[s].pid)
                        /\ table'[frame'[s].child].parent_pid = table'[s].pid
      BY DEF ChildPointerFresh, Matches, Live
    <3>1. s # cpu /\ s # child /\ frame'[s] = frame[s] /\ Live(table, s)
      BY <2>4, <2>8
    <3>2. /\ Matches(table, frame[s].child, frame[s].pid)
          /\ table[frame[s].child].parent_pid = table[s].pid
      BY <3>1 DEF IInv, ChildPointerFresh
    <3>3. frame[s].child # child
      BY <1>1, <3>1, <3>2 DEF UniquePids, Matches
    <3>4. frame[s].child \in Slots
      BY <1>1 DEF Frame
    <3> QED BY <2>4, <3>1, <3>2, <3>3, <3>4 DEF Matches, Live
  <2>10. CpuNotDead'
    BY <1>1, <2>1, <2>3, <2>4 DEF CpuNotDead
  <2> QED BY <1>1, <1>2, <2>1, <2>2, <2>4, <2>5, <2>6, <2>7, <2>8, <2>9, <2>10,
             StateChange
<1>4. CASE table[child].state # "ZOMBIE"
  <2> DEFINE b == WithState(table, cpu, "BLOCKED")
             f == [at |-> "wait", child |-> child, pid |-> pid]
  <2>1. /\ (\E n \in Slots : YieldTo(b, n)) \/ YieldReturns(b)
        /\ frame' = [frame EXCEPT ![cpu] = f]
    BY <1>1, <1>4 DEF WaitLoop
  <2>2. /\ b \in [Slots -> PCB]
        /\ b[cpu].state = "BLOCKED"
        /\ SameBut(b, table, cpu)
    BY <1>1, SetState, StatesAre
  <2>3. f \in Frame /\ f.at = "wait" /\ f.child = child /\ f.pid = pid
    BY DEF Frame
  <2> HIDE DEF b, f
  <2>4. /\ \A s \in Slots : s # cpu => b[s] = table[s]
        /\ \A s \in Slots : b[s].pid = table[s].pid
        /\ \A s \in Slots : b[s].parent_pid = table[s].parent_pid
        /\ \A s \in Slots : b[s].kernel_stack = table[s].kernel_stack
        /\ \A s \in Slots : Live(b, s) <=> Live(table, s)
    BY <1>1, <2>2 DEF SameBut, Live, Matches
  <2>5. /\ UniquePids(b) /\ Matches(b, cpu, current_pid)
        /\ \A s \in Slots : b[s].state = "RUNNING" => s = cpu
    BY <1>1, <2>2, <2>4, UniqueKept DEF Matches, IInv, OneRunner
  <2>6. /\ table' \in [Slots -> PCB]
        /\ cpu' \in Slots /\ current_pid' \in Pids
        /\ Matches(table', cpu', current_pid')
        /\ \A s \in Slots : table'[s].state = "RUNNING" => s = cpu'
        /\ \A s \in Slots :
             /\ table'[s].pid = b[s].pid
             /\ table'[s].parent_pid = b[s].parent_pid
             /\ table'[s].kernel_stack = b[s].kernel_stack
        /\ \A s \in Slots :
             \/ table'[s].state = b[s].state
             \/ b[s].state = "RUNNING" /\ table'[s].state = "READY"
             \/ b[s].state = "READY" /\ table'[s].state = "RUNNING"
        /\ (\E n \in Slots : YieldTo(b, n)) => table'[cpu'].state = "RUNNING"
        /\ YieldReturns(b) => cpu' = cpu /\ table' = b
    BY <1>1, <2>1, <2>2, <2>5, YieldStep
  <2>7. \A s \in Slots : Live(table', s) <=> Live(table, s)
    BY <2>4, <2>6 DEF Live
  <2>8. StackLive'
    <3>1. table[cpu].kernel_stack
      BY <1>1 DEF IInv, StackLive, TypeOK, PCB, States, Matches, Live
    <3> QED BY <2>2, <2>4, <2>6, <3>1 DEF IInv, StackLive
  <2>9. /\ frame' \in [Slots -> Frame] /\ frame'[cpu] = f
        /\ \A s \in Slots : s # cpu => frame'[s] = frame[s]
    BY <1>1, <2>1, <2>3
  <2>10. ChildPointerFresh'
    <3> SUFFICES ASSUME NEW s \in Slots, Live(table', s), frame'[s].at = "wait"
                 PROVE  /\ Matches(table', frame'[s].child, frame'[s].pid)
                        /\ table'[frame'[s].child].parent_pid = table'[s].pid
      BY DEF ChildPointerFresh, Matches, Live
    <3>1. /\ frame'[s].child \in Slots
          /\ Matches(table, frame'[s].child, frame'[s].pid)
          /\ table[frame'[s].child].parent_pid = table[s].pid
      <4>1. CASE s = cpu
        BY <2>3, <2>9, <4>1
      <4>2. CASE s # cpu
        BY <1>1, <2>7, <2>9, <4>2 DEF IInv, ChildPointerFresh, Frame
      <4> QED BY <4>1, <4>2
    <3> QED BY <2>4, <2>6, <2>7, <3>1 DEF Matches
  <2>11. CpuNotDead'
    BY <2>1, <2>2, <2>6 DEF CpuNotDead
  <2> QED BY <1>2, <2>4, <2>6, <2>7, <2>8, <2>9, <2>10, <2>11, StateChange
<1> QED BY <1>3, <1>4

\* process_wait, called.
LEMMA WaitInv ==
  ASSUME IInv, NEW pid \in Pids, Wait(pid) PROVE IInv'
<1> DEFINE child == FindProcess(table, pid)
<1>1. child \in Slots /\ Matches(table, child, pid)
  BY FindResult DEF Wait, IInv, OneRunner
<1>2. /\ table[child].parent_pid = table[cpu].pid /\ WaitLoop(child, pid)
      /\ frame[cpu].at # "halt"
  BY Runner DEF Wait, Executing, IInv, Matches
<1> QED BY <1>1, <1>2, WaitLoopInv

\* process_wait, resumed by process_yield.
LEMMA WaitAgainInv ==
  ASSUME IInv, WaitAgain PROVE IInv'
<1> DEFINE f == frame[cpu]
<1>1. cpu \in Slots /\ f \in Frame /\ f.child \in Slots /\ f.pid \in Pids
  BY DEF IInv, TypeOK, Frame
<1>2. /\ Matches(table, f.child, f.pid)
      /\ table[f.child].parent_pid = table[cpu].pid
  BY <1>1, Runner DEF WaitAgain, IInv, ChildPointerFresh, Matches
<1>3. WaitLoop(f.child, f.pid) /\ f.at # "halt"
  BY DEF WaitAgain
<1> QED BY <1>1, <1>2, <1>3, WaitLoopInv

\* Every step keeps the inductive invariant.
LEMMA NextInv == IInv /\ [Next]_vars => IInv'
<1> SUFFICES ASSUME IInv, [Next]_vars PROVE IInv'
  OBVIOUS
<1>1. CASE Next
  BY <1>1, CreateInv, CreateNoMemoryInv, YieldInv, ExitInv, BlockInv,
     UnblockInv, WaitInv, WaitAgainInv DEF Next
<1>2. CASE UNCHANGED vars
  BY <1>2 DEF vars, IInv, TypeOK, OneRunner, UniquePids, PidsBelowNext,
     StackLive, ChildPointerFresh, CpuNotDead, Live, Matches, FindProcess,
     FirstMatch
<1> QED BY <1>1, <1>2

-----------------------------------------------------------------------------
(* The theorems *)

\* IInv is an invariant of the process table and the scheduler (process.c), for
\* any number of slots, any number of pids and any caller of process_block.
THEOREM Invariance == Spec => []IInv
  BY InitInv, NextInv, PTL DEF Spec

\* Every reachable process table is well formed (process.c:14-17).
THEOREM TypeCorrect == Spec => []TypeOK
<1>1. IInv => TypeOK
  BY DEF IInv
<1> QED BY <1>1, Invariance, PTL

\* current_pid, RUNNING and the processor's stack always agree
\* (process_yield, process.c:174-197).
THEOREM OneRunnerHolds == Spec => []OneRunner
<1>1. IInv => OneRunner
  BY DEF IInv
<1> QED BY <1>1, Invariance, PTL

\* No process that may be switched to has lost its kernel stack
\* (process_create and process_exit, process.c:92-97, 158-162).
THEOREM StackLiveHolds == Spec => []StackLive
<1>1. IInv => StackLive
  BY DEF IInv
<1> QED BY <1>1, Invariance, PTL

\* The pointer process_wait keeps across its yields never goes stale
\* (process.c:229-248).
THEOREM ChildPointerFreshHolds == Spec => []ChildPointerFresh
<1>1. IInv => ChildPointerFresh
  BY DEF IInv
<1> QED BY <1>1, Invariance, PTL

-----------------------------------------------------------------------------
(* The life of a slot *)

\* What one step may do to the state of a slot.
LifeStep ==
  \A s \in Slots :
    /\ table[s].state = "ZOMBIE" /\ table'[s].state # "ZOMBIE"
       => /\ table'[s].state = "FREE"
          /\ table[s].parent_pid = current_pid
    /\ table[s].state = "FREE" /\ table'[s].state # "FREE"
       => /\ table'[s].state = "READY"
          /\ \A t \in Slots : table[t].pid # table'[s].pid

\* A step that neither buries nor creates.
LEMMA NoBirthNoBurial ==
  ASSUME \A s \in Slots :
           \/ table'[s].state = table[s].state
           \/ table[s].state \notin {"ZOMBIE", "FREE"}
  PROVE  LifeStep
  BY DEF LifeStep

\* process_create takes a FREE slot, and a pid that nobody has had.
LEMMA CreateLife ==
  ASSUME IInv, NEW s \in Slots, NEW state \in {"READY", "FREE"}, NEW stack,
         FirstFree(table, s), table' = [table EXCEPT ![s] = NewPCB(state, stack)]
  PROVE  LifeStep
<1>1. /\ table'[s].state = state /\ table'[s].pid = next_pid
      /\ \A t \in Slots : t # s => table'[t] = table[t]
  BY DEF NewPCB, IInv, TypeOK
<1>2. table[s].state = "FREE"
  BY DEF FirstFree, Live
<1>3. \A t \in Slots : table[t].pid # next_pid
  BY DEF IInv, TypeOK, PidsBelowNext, Pids, PCB
<1> QED BY <1>1, <1>2, <1>3 DEF LifeStep

\* process_yield touches READY and RUNNING processes only.
LEMMA YieldLife ==
  ASSUME IInv, Yield PROVE LifeStep
<1>1. /\ table \in [Slots -> PCB] /\ cpu \in Slots /\ UniquePids(table)
      /\ Matches(table, cpu, current_pid) /\ current_pid \in Pids
      /\ \A s \in Slots : table[s].state = "RUNNING" => s = cpu
      /\ \E n \in Slots : YieldTo(table, n)
  BY Runner DEF IInv, TypeOK, OneRunner, Yield
<1>2. \A s \in Slots :
        \/ table'[s].state = table[s].state
        \/ table[s].state = "RUNNING" /\ table'[s].state = "READY"
        \/ table[s].state = "READY" /\ table'[s].state = "RUNNING"
  BY <1>1, YieldStep
<1> QED BY <1>2, NoBirthNoBurial

\* The one who exits was alive, as it was executing.
LEMMA ExitStates ==
  ASSUME IInv, Exit
  PROVE  /\ table[cpu].state \notin {"ZOMBIE", "FREE"}
         /\ \A s \in Slots : s # cpu =>
              \/ table'[s].state = table[s].state
              \/ /\ table[s].state \in {"READY", "RUNNING", "BLOCKED"}
                 /\ table'[s].state \in {"READY", "RUNNING"}
         /\ \A s \in Slots : Matches(table, s, table[cpu].parent_pid)
                               => table'[s].state # "BLOCKED"
<1> DEFINE e == Exited(cpu)
<1>1. /\ cpu \in Slots /\ current_pid \in Pids
      /\ FindProcess(table, current_pid) = cpu
      /\ Matches(table, cpu, current_pid)
  BY Runner DEF IInv, TypeOK
<1>2. /\ (\E n \in Slots : YieldTo(e, n)) \/ YieldReturns(e)
      /\ frame[cpu].at = "run"
  BY <1>1 DEF Exit, Executing
<1>3. /\ e \in [Slots -> PCB] /\ UniquePids(e)
      /\ Matches(e, cpu, current_pid) /\ e[cpu].state = "ZOMBIE"
      /\ \A s \in Slots :
           /\ s # cpu => \/ e[s].state = table[s].state
                         \/ table[s].state = "BLOCKED" /\ e[s].state = "READY"
      /\ \A s \in Slots : Matches(table, s, table[cpu].parent_pid)
                            => e[s].state # "BLOCKED"
  BY ExitedStep
<1> HIDE DEF e
<1>4. \A s \in Slots : e[s].state = "RUNNING" => s = cpu
  BY <1>3 DEF IInv, OneRunner
<1>5. \A s \in Slots :
        \/ table'[s].state = e[s].state
        \/ e[s].state = "RUNNING" /\ table'[s].state = "READY"
        \/ e[s].state = "READY" /\ table'[s].state = "RUNNING"
  BY <1>1, <1>2, <1>3, <1>4, YieldStep
<1>6. table[cpu].state \notin {"ZOMBIE", "FREE"}
  BY <1>1, <1>2 DEF IInv, CpuNotDead, Matches, Live
<1> QED BY <1>3, <1>5, <1>6

\* process_exit makes a zombie of a process that was alive.
LEMMA ExitLife ==
  ASSUME IInv, Exit PROVE LifeStep
  BY ExitStates, NoBirthNoBurial

\* process_block parks one process.
LEMMA BlockStep ==
  ASSUME IInv, NEW pid \in Pids, Block(pid)
  PROVE  \E p \in Slots :
           /\ table[p].state \in BlockStates
           /\ table'[p].state = "BLOCKED"
           /\ \A s \in Slots : s # p => table'[s] = table[s]
<1> DEFINE p == FindProcess(table, pid)
<1>1. /\ p \in Slots /\ p # NoSlot /\ table[p].state \in BlockStates
      /\ table' = WithState(table, p, "BLOCKED")
  BY FindResult DEF Block, IInv, OneRunner
<1> HIDE DEF p
<1>2. table'[p].state = "BLOCKED" /\ SameBut(table', table, p)
  BY <1>1, SetState, StatesAre DEF IInv, TypeOK
<1> QED BY <1>1, <1>2 DEF SameBut

\* process_unblock makes at most one BLOCKED process READY.
LEMMA UnblockStep ==
  ASSUME IInv, NEW pid \in Pids, Unblock(pid)
  PROVE  \A s \in Slots :
           \/ table'[s].state = table[s].state
           \/ table[s].state = "BLOCKED" /\ table'[s].state = "READY"
<1>1. /\ table' = Wake(table, FindProcess(table, pid))
      /\ table \in [Slots -> PCB] /\ UniquePids(table)
  BY DEF Unblock, IInv, TypeOK, OneRunner
<1> QED BY <1>1, WakeStep

\* process_wait reaps the caller's child, or parks the caller.
LEMMA WaitLoopStep ==
  ASSUME IInv, NEW child \in Slots, NEW pid \in Pids, WaitLoop(child, pid),
         Matches(table, child, pid), frame[cpu].at # "halt"
  PROVE  /\ table[cpu].state \notin {"ZOMBIE", "FREE"}
         /\ \/ /\ table[child].state = "ZOMBIE"
               /\ table'[child].state = "FREE"
               /\ \A s \in Slots : s # child => table'[s] = table[s]
               /\ frame' = [frame EXCEPT ![cpu] = FreshFrame] /\ cpu' = cpu
            \/ /\ table[child].state # "ZOMBIE"
               /\ frame' = [frame EXCEPT ![cpu] =
                              [at |-> "wait", child |-> child, pid |-> pid]]
               /\ \A s \in Slots : s # cpu =>
                    \/ table'[s].state = table[s].state
                    \/ table[s].state = "RUNNING" /\ table'[s].state = "READY"
                    \/ table[s].state = "READY" /\ table'[s].state = "RUNNING"
               /\ table'[cpu].state = "BLOCKED"
<1>1. /\ cpu \in Slots /\ current_pid \in Pids /\ UniquePids(table)
      /\ table \in [Slots -> PCB]
      /\ FindProcess(table, current_pid) = cpu /\ cpu # NoSlot
      /\ Matches(table, cpu, current_pid)
      /\ table[cpu].state \notin {"ZOMBIE", "FREE"}
  BY Runner, NoSlotIsNoSlot DEF IInv, TypeOK, OneRunner, CpuNotDead, Matches, Live
<1>2. CASE table[child].state = "ZOMBIE"
  <2>1. /\ table' = WithState(table, child, "FREE")
        /\ frame' = [frame EXCEPT ![cpu] = FreshFrame] /\ cpu' = cpu
    BY <1>2 DEF WaitLoop, Reap
  <2>2. table'[child].state = "FREE" /\ SameBut(table', table, child)
    BY <1>1, <2>1, SetState, StatesAre
  <2> QED BY <1>1, <1>2, <2>1, <2>2 DEF SameBut
<1>3. CASE table[child].state # "ZOMBIE"
  <2> DEFINE b == WithState(table, cpu, "BLOCKED")
  <2>1. /\ (\E n \in Slots : YieldTo(b, n)) \/ YieldReturns(b)
        /\ frame' = [frame EXCEPT ![cpu] =
                       [at |-> "wait", child |-> child, pid |-> pid]]
    BY <1>1, <1>3 DEF WaitLoop
  <2>2. /\ b \in [Slots -> PCB]
        /\ b[cpu].state = "BLOCKED"
        /\ SameBut(b, table, cpu)
    BY <1>1, SetState, StatesAre
  <2> HIDE DEF b
  <2>3. /\ \A s \in Slots : s # cpu => b[s] = table[s]
        /\ \A s \in Slots : b[s].pid = table[s].pid
        /\ \A s \in Slots : Live(b, s) <=> Live(table, s)
    BY <1>1, <2>2 DEF SameBut, Live, Matches
  <2>4. /\ UniquePids(b) /\ Matches(b, cpu, current_pid)
        /\ \A s \in Slots : b[s].state = "RUNNING" => s = cpu
    BY <1>1, <2>2, <2>3, UniqueKept DEF Matches, IInv, OneRunner
  <2>5. \A s \in Slots :
          \/ table'[s].state = b[s].state
          \/ b[s].state = "RUNNING" /\ table'[s].state = "READY"
          \/ b[s].state = "READY" /\ table'[s].state = "RUNNING"
    BY <1>1, <2>1, <2>2, <2>4, YieldStep
  <2> QED BY <1>1, <1>3, <2>1, <2>2, <2>3, <2>5
<1> QED BY <1>2, <1>3

\* The child process_wait looks at, and where the caller stands.
LEMMA WaitTarget ==
  ASSUME IInv, (\E pid \in Pids : Wait(pid)) \/ WaitAgain
  PROVE  \E child \in Slots, pid \in Pids :
           /\ WaitLoop(child, pid)
           /\ Matches(table, child, pid)
           /\ table[child].parent_pid = current_pid
           /\ frame[cpu].at # "halt"
<1>1. ASSUME NEW pid \in Pids, Wait(pid)
      PROVE  /\ FindProcess(table, pid) \in Slots
             /\ Matches(table, FindProcess(table, pid), pid)
             /\ table[FindProcess(table, pid)].parent_pid = current_pid
             /\ WaitLoop(FindProcess(table, pid), pid)
             /\ frame[cpu].at # "halt"
  BY <1>1, FindResult DEF Wait, Executing, IInv, OneRunner
<1>2. CASE WaitAgain
  <2>1. /\ cpu \in Slots /\ frame[cpu] \in Frame
        /\ frame[cpu].child \in Slots /\ frame[cpu].pid \in Pids
    BY DEF IInv, TypeOK, Frame
  <2>2. Live(table, cpu) /\ table[cpu].pid = current_pid
    BY Runner DEF IInv, Matches
  <2> QED BY <1>2, <2>1, <2>2 DEF WaitAgain, IInv, ChildPointerFresh
<1> QED BY <1>1, <1>2

\* process_wait gives back the slot of the caller's own zombie, or none.
LEMMA WaitLife ==
  ASSUME IInv, (\E pid \in Pids : Wait(pid)) \/ WaitAgain PROVE LifeStep
<1>1. PICK child \in Slots, pid \in Pids :
        /\ WaitLoop(child, pid)
        /\ Matches(table, child, pid)
        /\ table[child].parent_pid = current_pid
        /\ frame[cpu].at # "halt"
  BY WaitTarget
<1> QED BY <1>1, WaitLoopStep DEF LifeStep

\* Zombies are buried by their parent and slots are born fresh: in process.c a
\* slot leaves ZOMBIE only at line 245 and FREE only at line 88.
THEOREM LifeCycleHolds == Spec => LifeCycle
<1>1. IInv /\ [Next]_vars => (LifeStep \/ UNCHANGED vars)
  <2> SUFFICES ASSUME IInv, Next PROVE LifeStep
    OBVIOUS
  <2>1. ASSUME NEW s \in Slots, Create(s) \/ CreateNoMemory(s) PROVE LifeStep
    BY <2>1, CreateLife DEF Create, CreateNoMemory
  <2>2. ASSUME NEW pid \in Pids, Block(pid) PROVE LifeStep
    BY <2>2, BlockStep, NoBirthNoBurial
  <2>3. ASSUME NEW pid \in Pids, Unblock(pid) PROVE LifeStep
    BY <2>3, UnblockStep, NoBirthNoBurial
  <2> QED BY <2>1, <2>2, <2>3, YieldLife, ExitLife, WaitLife DEF Next
<1> QED BY <1>1, Invariance, PTL DEF Spec, LifeCycle, LifeStep

-----------------------------------------------------------------------------
(* No lost wakeup *)

\* What makes a wakeup lost: a parent parked in process_wait for a zombie.
Overslept(s) ==
  /\ Live(table, s)
  /\ frame[s].at = "wait"
  /\ table[frame[s].child].state = "ZOMBIE"
  /\ table[s].state = "BLOCKED"
  /\ s # cpu

\* Unless its child exits, it or its pointer changes, or it gives up the CPU, a
\* parent does not oversleep.
LEMMA StaysAwake ==
  ASSUME IInv, NoLostWakeup, NEW s \in Slots, s # cpu, Live(table, s),
         frame'[s] = frame[s],
         table'[frame[s].child].state = "ZOMBIE"
           => table[frame[s].child].state = "ZOMBIE",
         table'[s].state = "BLOCKED" => table[s].state = "BLOCKED"
  PROVE  ~Overslept(s)'
  BY DEF NoLostWakeup, Overslept

\* process_create: nobody waits for the new slot, nor does the new process wait.
LEMMA CreateWakes ==
  ASSUME IInv, NoLostWakeup, NEW c \in Slots, NEW t \in Slots,
         Create(c) \/ CreateNoMemory(c)
  PROVE  ~Overslept(t)'
<1>1. /\ \A s \in Slots : s # c => table'[s] = table[s] /\ frame'[s] = frame[s]
      /\ table'[c].state \in {"READY", "FREE"}
      /\ ~Live(table, c) /\ cpu' = cpu
  BY DEF Create, CreateNoMemory, FirstFree, NewPCB, IInv, TypeOK
<1>2. CASE t = c
  BY <1>1, <1>2 DEF Overslept
<1>3. CASE t # c /\ Live(table, t) /\ frame[t].at = "wait"
  <2>1. frame[t].child \in Slots /\ frame[t].child # c
    BY <1>1, <1>3 DEF IInv, ChildPointerFresh, Matches, TypeOK, Frame
  <2> QED BY <1>1, <1>3, <2>1 DEF NoLostWakeup, Overslept
<1>4. CASE t # c /\ ~(Live(table, t) /\ frame[t].at = "wait")
  BY <1>1, <1>4 DEF Overslept, Live
<1> QED BY <1>2, <1>3, <1>4

\* process_yield: the caller is not inside process_wait.
LEMMA YieldWakes ==
  ASSUME IInv, NoLostWakeup, NEW t \in Slots, Yield PROVE ~Overslept(t)'
<1>1. /\ table \in [Slots -> PCB] /\ cpu \in Slots /\ UniquePids(table)
      /\ Matches(table, cpu, current_pid) /\ current_pid \in Pids
      /\ \A s \in Slots : table[s].state = "RUNNING" => s = cpu
      /\ \E n \in Slots : YieldTo(table, n)
      /\ frame' = frame /\ frame[cpu].at = "run"
  BY Runner DEF IInv, TypeOK, OneRunner, Yield, Executing
<1>2. \A s \in Slots :
        \/ table'[s].state = table[s].state
        \/ table[s].state = "RUNNING" /\ table'[s].state = "READY"
        \/ table[s].state = "READY" /\ table'[s].state = "RUNNING"
  BY <1>1, YieldStep
<1>3. frame[t].child \in Slots
  BY DEF IInv, TypeOK, Frame
<1>4. CASE t = cpu \/ ~Live(table, t)
  BY <1>1, <1>2, <1>4 DEF Overslept, Live
<1>5. CASE t # cpu /\ Live(table, t)
  BY <1>1, <1>2, <1>3, <1>5, StaysAwake
<1> QED BY <1>4, <1>5

\* process_exit: the one parent that may wait for the caller is woken.
LEMMA ExitWakes ==
  ASSUME IInv, NoLostWakeup, NEW t \in Slots, Exit PROVE ~Overslept(t)'
<1>1. /\ cpu \in Slots /\ frame[cpu].at = "run"
      /\ frame' = frame \/ frame' = [frame EXCEPT ![cpu].at = "halt"]
  BY DEF Exit, Executing, IInv, TypeOK
<1>2. /\ frame'[cpu].at # "wait"
      /\ \A s \in Slots : s # cpu => frame'[s] = frame[s]
  BY <1>1 DEF IInv, TypeOK, Frame
<1>3. /\ \A s \in Slots : s # cpu =>
           \/ table'[s].state = table[s].state
           \/ /\ table[s].state \in {"READY", "RUNNING", "BLOCKED"}
              /\ table'[s].state \in {"READY", "RUNNING"}
      /\ \A s \in Slots : Matches(table, s, table[cpu].parent_pid)
                            => table'[s].state # "BLOCKED"
  BY ExitStates
<1>4. CASE t = cpu
  BY <1>2, <1>4 DEF Overslept
<1>5. CASE t # cpu /\ ~Live(table, t)
  BY <1>3, <1>5 DEF Overslept, Live
<1>6. CASE t # cpu /\ Live(table, t) /\ frame[t].at # "wait"
  BY <1>2, <1>6 DEF Overslept
<1>7. CASE t # cpu /\ Live(table, t) /\ frame[t].at = "wait"
  <2>1. /\ frame[t].child \in Slots
        /\ table[frame[t].child].parent_pid = table[t].pid
    BY <1>7 DEF IInv, ChildPointerFresh, TypeOK, Frame
  <2>2. CASE frame[t].child = cpu
    BY <1>3, <1>7, <2>1, <2>2 DEF Overslept, Matches
  <2>3. CASE frame[t].child # cpu
    BY <1>2, <1>3, <1>7, <2>1, <2>3, StaysAwake
  <2> QED BY <2>2, <2>3
<1> QED BY <1>4, <1>5, <1>6, <1>7

\* process_wait: the caller parks only when its child has not exited.
LEMMA WaitWakes ==
  ASSUME IInv, NoLostWakeup, NEW t \in Slots,
         (\E pid \in Pids : Wait(pid)) \/ WaitAgain
  PROVE  ~Overslept(t)'
<1>1. PICK child \in Slots, pid \in Pids :
        /\ WaitLoop(child, pid)
        /\ Matches(table, child, pid)
        /\ table[child].parent_pid = current_pid
        /\ frame[cpu].at # "halt"
  BY WaitTarget
<1>2. /\ cpu \in Slots /\ frame \in [Slots -> Frame]
      /\ frame[t].child \in Slots
  BY DEF IInv, TypeOK, Frame
<1>3. CASE table[child].state = "ZOMBIE"
  <2>1. /\ table'[child].state = "FREE"
        /\ \A s \in Slots : s # child => table'[s] = table[s]
        /\ frame' = [frame EXCEPT ![cpu] = FreshFrame] /\ cpu' = cpu
    BY <1>1, <1>3, WaitLoopStep
  <2>2. CASE t = cpu \/ ~Live(table, t)
    BY <2>1, <2>2 DEF Overslept, Live
  <2>3. CASE t # cpu /\ Live(table, t)
    <3>1. frame'[t] = frame[t]
      BY <1>2, <2>1, <2>3
    <3> QED BY <1>2, <1>3, <2>1, <2>3, <3>1, StaysAwake
  <2> QED BY <2>2, <2>3
<1>4. CASE table[child].state # "ZOMBIE"
  <2>1. /\ frame' = [frame EXCEPT ![cpu] =
                       [at |-> "wait", child |-> child, pid |-> pid]]
        /\ \A s \in Slots : s # cpu =>
             \/ table'[s].state = table[s].state
             \/ table[s].state = "RUNNING" /\ table'[s].state = "READY"
             \/ table[s].state = "READY" /\ table'[s].state = "RUNNING"
        /\ table'[cpu].state = "BLOCKED"
    BY <1>1, <1>4, WaitLoopStep
  <2>2. CASE t = cpu
    <3>1. frame'[t].child = child
      BY <1>2, <2>1, <2>2
    <3>2. table'[child].state # "ZOMBIE"
      BY <1>4, <2>1
    <3> QED BY <3>1, <3>2 DEF Overslept
  <2>3. CASE t # cpu /\ ~Live(table, t)
    BY <2>1, <2>3 DEF Overslept, Live
  <2>4. CASE t # cpu /\ Live(table, t)
    <3>1. frame'[t] = frame[t]
      BY <1>2, <2>1, <2>4
    <3> QED BY <1>2, <2>1, <2>4, <3>1, StaysAwake
  <2> QED BY <2>2, <2>3, <2>4
<1> QED BY <1>3, <1>4

\* process_block, which its callers do not apply to a READY process, and
\* process_unblock.
LEMMA BlockWakes ==
  ASSUME "READY" \notin BlockStates, IInv, NoLostWakeup, NEW t \in Slots,
         NEW pid \in Pids, Block(pid) \/ Unblock(pid)
  PROVE  ~Overslept(t)'
<1>1. frame[t].child \in Slots /\ frame' = frame /\ cpu' = cpu
  BY DEF Block, Unblock, IInv, TypeOK, Frame
<1>2. CASE Unblock(pid)
  BY <1>1, <1>2, UnblockStep DEF Overslept, NoLostWakeup, Live
<1>3. CASE Block(pid)
  <2>1. PICK p \in Slots :
          /\ table[p].state \in BlockStates
          /\ table'[p].state = "BLOCKED"
          /\ \A s \in Slots : s # p => table'[s] = table[s]
    BY <1>3, BlockStep
  <2>2. table[p].state = "BLOCKED" \/ p = cpu
    BY <2>1 DEF IInv, OneRunner
  <2> QED BY <1>1, <2>1, <2>2 DEF Overslept, NoLostWakeup, Live
<1> QED BY <1>2, <1>3

\* No parent sleeps in process_wait beyond its child's exit (process.c:164-168,
\* 236-248), provided that process_block is not applied to a READY process: a
\* parent that has been woken could otherwise be put back to sleep.
THEOREM NoLostWakeupHolds ==
  ASSUME "READY" \notin BlockStates
  PROVE  Spec => []NoLostWakeup
<1>1. Init => NoLostWakeup
  BY DEF Init, NoLostWakeup, FreshFrame
<1>2. IInv /\ NoLostWakeup /\ [Next]_vars => NoLostWakeup'
  <2> SUFFICES ASSUME IInv, NoLostWakeup, [Next]_vars PROVE NoLostWakeup'
    OBVIOUS
  <2>1. CASE Next
    <3>1. \A t \in Slots : ~Overslept(t)'
      BY <2>1, CreateWakes, YieldWakes, ExitWakes, WaitWakes, BlockWakes DEF Next
    <3> QED BY <3>1 DEF Overslept, NoLostWakeup, Live
  <2>2. CASE UNCHANGED vars
    BY <2>2 DEF vars, NoLostWakeup, Live
  <2> QED BY <2>1, <2>2
<1> QED BY <1>1, <1>2, Invariance, PTL DEF Spec
=============================================================================
