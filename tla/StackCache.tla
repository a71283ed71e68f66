----------------------------- MODULE StackCache -----------------------------
(***************************************************************************)
(* Kernel stacks (kernel/fork.c, CONFIG_VMAP_STACK and                     *)
(* CONFIG_THREAD_INFO_IN_TASK): their allocation in dup_task_struct, the   *)
(* two stacks each CPU keeps, the charging of their pages to a memory      *)
(* cgroup, the count of those who use a task's stack, and its release by   *)
(* the last of them, beside readers of /proc/<pid>/stack and wchan         *)
(* (fs/proc/base.c) and CPUs that go offline.                              *)
(*                                                                         *)
(* A task that is being made is an actor: its steps are those its parent   *)
(* makes in dup_task_struct and copy_process.  An actor may be moved to    *)
(* another CPU between any two steps.                                      *)
(***************************************************************************)
EXTENDS Integers, FiniteSets

CONSTANTS
    Task, Reader, Cpu, Area,
    Boot,         \* the task that runs throughout and makes the others
    None, Blank,
    Pages,        \* THREAD_SIZE / PAGE_SIZE
    NrCached      \* NR_CACHED_STACKS

ASSUME StackAssumption ==
    /\ Boot \in Task
    /\ None \notin Task \cup Area /\ Blank \notin Task
    /\ Task \cap Reader = {}
    /\ IsFiniteSet(Reader)
    /\ Pages \in Nat \ {0} /\ NrCached \in Nat \ {0}

VARIABLES
    cached,       \* cached_stacks of each CPU
    cpu,          \* up; down: dead, its teardown to come; off
    mapped,       \* areas that __vmalloc_node_range has given out
    charged,      \* pages of an area that are charged to a memory cgroup
    data,         \* whose data an area holds
    pc, i,        \* where an actor is, and the index of its loop
    stack,        \* task_struct.stack and stack_vm_area
    refs,         \* task_struct.stack_refcount
    usage,        \* task_struct.usage
    dead,         \* task_struct.state = TASK_DEAD
    secret,       \* its credentials forbid readers to trace it
    nr_stack,     \* NR_KERNEL_STACK_KB, in pages
    look,         \* what a reader reads: the task, and by which file
    warned        \* a WARN_ON has fired
areas == <<cached, cpu, mapped, charged, data>>
tasks == <<stack, refs, usage, dead, secret>>
vars == <<areas, tasks, pc, i, nr_stack, look, warned>>

Slot == 1..NrCached
NotLooking == [task |-> None, file |-> "none"]

\* The task whose stack an actor deals with.
Obj(x) == IF x \in Task THEN x ELSE look[x].task

Goto(x, l) == pc' = [pc EXCEPT ![x] = l]
Enter(x, l) == Goto(x, l) /\ i' = [i EXCEPT ![x] = 1]
Up == {c \in Cpu : cpu[c] = "up"}

(***************************************************************************)
(* dup_task_struct.                                                        *)
(***************************************************************************)
alloc_task_struct_node(t) ==
    /\ pc[t] = "none"
    /\ Enter(t, "take")
    /\ UNCHANGED <<areas, tasks, nr_stack, look, warned>>

EmptySlot(c, n) == [cached EXCEPT ![c][n] = None]

\* this_cpu_xchg(cached_stacks[i], NULL): a cached stack, or the next slot.
TakeCached(t, c) ==
    LET s == cached[c][i[t]] IN
    /\ pc[t] = "take" /\ c \in Up
    /\ cached' = EmptySlot(c, i[t])
    /\ IF s # None
       THEN stack' = [stack EXCEPT ![t] = s] /\ Enter(t, "clear")
       ELSE IF i[t] < NrCached
       THEN i' = [i EXCEPT ![t] = @ + 1] /\ UNCHANGED <<pc, stack>>
       ELSE Enter(t, "vmalloc") /\ UNCHANGED stack
    /\ UNCHANGED <<cpu, mapped, charged, data, refs, usage, dead, secret,
                   nr_stack, look, warned>>

Stale(s) == data
Zeroed(s) == [data EXCEPT ![s] = Blank]

\* memset of a reused stack.
ClearStack(t) ==
    /\ pc[t] = "clear"
    /\ data' = Zeroed(stack[t])
    /\ Enter(t, "charge")
    /\ UNCHANGED <<cached, cpu, mapped, charged, tasks, nr_stack, look, warned>>

\* __vmalloc_node_range, with __GFP_ZERO among THREADINFO_GFP; without memory
\* the task_struct is freed again.
Vmalloc(t) ==
    /\ pc[t] = "vmalloc"
    /\ \/ \E s \in Area \ mapped :
            /\ mapped' = mapped \cup {s}
            /\ data' = [data EXCEPT ![s] = Blank]
            /\ stack' = [stack EXCEPT ![t] = s]
            /\ Enter(t, "charge")
       \/ Goto(t, "none") /\ UNCHANGED <<mapped, data, stack, i>>
    /\ UNCHANGED <<cached, cpu, charged, refs, usage, dead, secret,
                   nr_stack, look, warned>>

\* memcg_charge_kernel_stack, page by page; a failure leaves the rest uncharged.
ChargePage(t) ==
    /\ pc[t] = "charge"
    /\ \/ /\ charged' = [charged EXCEPT ![stack[t]] = @ + 1]
          /\ IF i[t] < Pages THEN i' = [i EXCEPT ![t] = @ + 1] /\ UNCHANGED pc
             ELSE Enter(t, "dup")
       \/ Enter(t, "free") /\ UNCHANGED charged
    /\ UNCHANGED <<cached, cpu, mapped, data, tasks, nr_stack, look, warned>>

\* arch_dup_task_struct overwrites stack, stack_vm_area and stack_refcount with
\* the parent's; they are put right before err is looked at.  Then scs_prepare,
\* which may fail too, and the rest of dup_task_struct.
DupStruct(t, err) ==
    /\ pc[t] = "dup"
    /\ refs' = [refs EXCEPT ![t] = 1]
    /\ IF err
       THEN Enter(t, "free") /\ UNCHANGED <<usage, nr_stack>>
       ELSE /\ usage' = [usage EXCEPT ![t] = 1]
            /\ nr_stack' = nr_stack + Pages
            /\ Goto(t, "made") /\ UNCHANGED i
    /\ UNCHANGED <<areas, stack, dead, secret, look, warned>>

(***************************************************************************)
(* The count of users and the release of a stack.                          *)
(***************************************************************************)
\* put_task_stack by x: the last one goes on to release_task_stack.
put_task_stack(x, l) ==
    /\ refs' = [refs EXCEPT ![Obj(x)] = @ - 1]
    /\ IF refs[Obj(x)] = 1 THEN Enter(x, "release") ELSE Goto(x, l) /\ UNCHANGED i

MarkDead(t) == [dead EXCEPT ![t] = TRUE]

\* copy_process fails later on: bad_fork_free.
ForkFails(t) ==
    /\ pc[t] = "made"
    /\ dead' = MarkDead(t)
    /\ put_task_stack(t, "gone")
    /\ UNCHANGED <<areas, stack, usage, secret, nr_stack, look, warned>>

\* copy_process ends, and the task runs on its stack.
Start(t) ==
    /\ pc[t] = "made"
    /\ data' = [data EXCEPT ![stack[t]] = t]
    /\ Goto(t, "live")
    /\ UNCHANGED <<cached, cpu, mapped, charged, tasks, i, nr_stack, look, warned>>

\* Off its last CPU: finish_task_switch puts the stack.
Exit(t) ==
    /\ pc[t] = "live" /\ t # Boot
    /\ dead' = [dead EXCEPT ![t] = TRUE]
    /\ put_task_stack(t, "gone")
    /\ UNCHANGED <<areas, stack, usage, secret, nr_stack, look, warned>>

\* release_task_stack up to free_thread_stack.  "Better to leak the stack than
\* to free prematurely."
release_task_stack(x) ==
    /\ pc[x] = "release"
    /\ IF dead[Obj(x)]
       THEN /\ nr_stack' = nr_stack - Pages
            /\ Enter(x, "free") /\ UNCHANGED warned
       ELSE /\ warned' = TRUE
            /\ Goto(x, IF x \in Task THEN "gone" ELSE "unlock") /\ UNCHANGED <<i, nr_stack>>
    /\ UNCHANGED <<areas, tasks, look>>

StaysCharged(s) == charged
Uncharge(s) == [charged EXCEPT ![s] = 0]

\* free_thread_stack: pages that are not charged are passed over.
UnchargeStack(x) ==
    /\ pc[x] = "free"
    /\ charged' = Uncharge(stack[Obj(x)])
    /\ Enter(x, "put")
    /\ UNCHANGED <<cached, cpu, mapped, data, tasks, nr_stack, look, warned>>

\* The stack is out of the task's hands.  Where dup_task_struct failed the
\* task_struct goes as well.
StackGone(x) ==
    LET t == Obj(x) IN
    /\ stack' = [stack EXCEPT ![t] = None]
    /\ Enter(x, IF x \in Reader THEN "unlock" ELSE IF usage[t] = 0 THEN "none" ELSE "gone")

SlotFree(c, n) == cached[c][n] = None

\* this_cpu_cmpxchg(cached_stacks[i], NULL, vm): the slot, or the next one, or
\* vfree_atomic.
PutCached(x, c) ==
    LET s == stack[Obj(x)] IN
    /\ pc[x] = "put" /\ c \in Up
    /\ IF SlotFree(c, i[x])
       THEN /\ cached' = [cached EXCEPT ![c][i[x]] = s]
            /\ StackGone(x) /\ UNCHANGED mapped
       ELSE IF i[x] < NrCached
       THEN i' = [i EXCEPT ![x] = @ + 1] /\ UNCHANGED <<cached, mapped, stack, pc>>
       ELSE /\ mapped' = mapped \ {s}
            /\ StackGone(x) /\ UNCHANGED cached
    /\ UNCHANGED <<cpu, charged, data, refs, usage, dead, secret,
                   nr_stack, look, warned>>

\* put_task_struct by x; the last one frees the task_struct (free_task).
put_task_struct(x, l) ==
    LET t == Obj(x) IN
    /\ usage' = [usage EXCEPT ![t] = @ - 1]
    /\ pc' = [y \in DOMAIN pc |-> IF y = t /\ usage[t] = 1 THEN "none"
                                  ELSE IF y = x THEN l ELSE pc[y]]
    /\ dead' = [dead EXCEPT ![t] = usage[t] # 1 /\ @]
    /\ secret' = [secret EXCEPT ![t] = usage[t] # 1 /\ @]
    /\ warned' = (warned \/ (usage[t] = 1 /\ refs[t] # 0))

\* delayed_put_task_struct or delayed_free_task, after the release of the task.
DropTask(t) ==
    /\ pc[t] = "gone"
    /\ put_task_struct(t, "zombie")
    /\ UNCHANGED <<areas, stack, refs, i, nr_stack, look>>

(***************************************************************************)
(* Readers of a task's stack.                                              *)
(***************************************************************************)
\* proc_single_show: a task can be found from its start to its release.
Open(r, t, f) ==
    /\ pc[r] = "idle" /\ (pc[t] = "live" \/ (pc[t] = "gone" /\ usage[t] > 0))
    /\ look' = [look EXCEPT ![r] = [task |-> t, file |-> f]]
    /\ usage' = [usage EXCEPT ![t] = @ + 1]
    /\ Goto(r, "check")
    /\ UNCHANGED <<areas, stack, refs, dead, secret, i, nr_stack, warned>>

\* lock_trace for stack; for wchan ptrace_may_access alone.
Check(r) ==
    /\ pc[r] = "check"
    /\ Goto(r, IF secret[look[r].task] THEN "unlock" ELSE "get")
    /\ UNCHANGED <<areas, tasks, i, nr_stack, look, warned>>

TryGet(t) == refs[t] > 0

\* try_get_task_stack, inside stack_trace_save_tsk and get_wchan.
GetStack(r) ==
    LET t == look[r].task IN
    /\ pc[r] = "get"
    /\ IF TryGet(t)
       THEN refs' = [refs EXCEPT ![t] = @ + 1] /\ Goto(r, "walk")
       ELSE UNCHANGED refs /\ Goto(r, "unlock")
    /\ UNCHANGED <<areas, stack, usage, dead, secret, i, nr_stack, look, warned>>

\* The stack has been walked.
PutStack(r) ==
    /\ pc[r] = "walk"
    /\ put_task_stack(r, "unlock")
    /\ UNCHANGED <<areas, stack, usage, dead, secret, nr_stack, look, warned>>

\* unlock_trace, and put_task_struct.
Close(r) ==
    /\ pc[r] = "unlock"
    /\ put_task_struct(r, "idle")
    /\ look' = [look EXCEPT ![r] = NotLooking]
    /\ UNCHANGED <<areas, stack, refs, i, nr_stack>>

NobodyWaitsFor(t) == TRUE
\* Readers that hold exec_update_lock of t.
ExecLockFree(t) ==
    \A r \in Reader : look[r] = [task |-> t, file |-> "stack"] => pc[r] = "check"

\* execve of a program with other credentials, under exec_update_lock.
Exec(t) ==
    /\ pc[t] = "live" /\ t # Boot /\ ~secret[t] /\ ExecLockFree(t)
    /\ secret' = [secret EXCEPT ![t] = TRUE]
    /\ UNCHANGED <<areas, stack, refs, usage, dead, pc, i, nr_stack, look, warned>>

(***************************************************************************)
(* CPUs that go offline and come back.                                     *)
(***************************************************************************)
CpuDown(c) ==
    /\ cpu[c] = "up" /\ Up # {c}
    /\ cpu' = [cpu EXCEPT ![c] = "down"]
    /\ UNCHANGED <<cached, mapped, charged, data, tasks, pc, i, nr_stack, look, warned>>

SlotsCleared(c) == [cached EXCEPT ![c] = [n \in Slot |-> None]]

\* The hotplug callback, on another CPU, when c is dead.
free_vm_stack_cache(c) ==
    /\ cpu[c] = "down"
    /\ cpu' = [cpu EXCEPT ![c] = "off"]
    /\ mapped' = mapped \ {cached[c][n] : n \in Slot}
    /\ cached' = SlotsCleared(c)
    /\ UNCHANGED <<charged, data, tasks, pc, i, nr_stack, look, warned>>

CpuUp(c) ==
    /\ cpu[c] = "off"
    /\ cpu' = [cpu EXCEPT ![c] = "up"]
    /\ UNCHANGED <<cached, mapped, charged, data, tasks, pc, i, nr_stack, look, warned>>

(***************************************************************************)
(* The specification.                                                      *)
(***************************************************************************)
Init ==
    \E s \in Area :
    /\ cached = [c \in Cpu |-> [n \in Slot |-> None]]
    /\ cpu = [c \in Cpu |-> "up"]
    /\ mapped = {s}
    /\ charged = [a \in Area |-> IF a = s THEN Pages ELSE 0]
    /\ data = [a \in Area |-> IF a = s THEN Boot ELSE Blank]
    /\ pc = [x \in Task \cup Reader |-> IF x = Boot THEN "live"
                                        ELSE IF x \in Task THEN "none" ELSE "idle"]
    /\ i = [x \in Task \cup Reader |-> 1]
    /\ stack = [t \in Task |-> IF t = Boot THEN s ELSE None]
    /\ refs = [t \in Task |-> IF t = Boot THEN 1 ELSE 0]
    /\ usage = [t \in Task |-> IF t = Boot THEN 1 ELSE 0]
    /\ dead = [t \in Task |-> FALSE] /\ secret = [t \in Task |-> FALSE]
    /\ nr_stack = Pages
    /\ look = [r \in Reader |-> NotLooking]
    /\ warned = FALSE

Making(t) == \/ \E c \in Cpu : TakeCached(t, c)
             \/ ClearStack(t) \/ Vmalloc(t) \/ ChargePage(t)
             \/ \E err \in BOOLEAN : DupStruct(t, err)
Releasing(x) == \/ release_task_stack(x) \/ UnchargeStack(x)
                \/ \E c \in Cpu : PutCached(x, c)
Reading(r) == Check(r) \/ GetStack(r) \/ PutStack(r) \/ Close(r)

Next ==
    \/ \E t \in Task : \/ alloc_task_struct_node(t) \/ Making(t) \/ ForkFails(t) \/ Start(t)
                       \/ Exit(t) \/ DropTask(t) \/ Exec(t)
    \/ \E x \in Task \cup Reader : Releasing(x)
    \/ \E r \in Reader, t \in Task, f \in {"stack", "wchan"} : Open(r, t, f)
    \/ \E r \in Reader : Reading(r)
    \/ \E c \in Cpu : CpuDown(c) \/ free_vm_stack_cache(c) \/ CpuUp(c)

Spec == Init /\ [][Next]_vars

(***************************************************************************)
(* Properties.                                                             *)
(***************************************************************************)
\* Who uses the stack a: its task until it puts it, readers that walk it, and
\* whoever releases it, as long as it is not back in a cache or unmapped.
OnStack == {"charge", "dup", "free", "put", "made", "live", "release", "walk"}
Users(a) == {x \in Task \cup Reader :
                pc[x] \in OnStack /\ Obj(x) # None /\ stack[Obj(x)] = a}

\* The task it is given to.
Owner(a) == IF Users(a) = {} THEN None ELSE CHOOSE t \in Task : stack[t] = a

Pool == INSTANCE StackPool WITH
    User <- Task \cup Reader,
    given <- [a \in Area |-> Owner(a)],
    users <- [a \in Area |-> Users(a)]

\* Caching, charging, failing forks, late readers and CPUs going away included,
\* stacks are given out as the users of a stack rely on: to one task at a time,
\* blank, and not before the last reader of the former task has left
\* (alloc_thread_stack_node, put_task_stack, free_thread_stack).
StacksAreExclusive == Pool!Spec

\* Every variable has its type.
TypeOK ==
    /\ cached \in [Cpu -> [Slot -> Area \cup {None}]]
    /\ cpu \in [Cpu -> {"up", "down", "off"}] /\ mapped \subseteq Area
    /\ charged \in [Area -> 0 .. Pages] /\ data \in [Area -> Task \cup {Blank}]
    /\ stack \in [Task -> Area \cup {None}] /\ dead \in [Task -> BOOLEAN]
    /\ refs \in [Task -> 0 .. Cardinality(Reader) + 1]
    /\ nr_stack \in Nat /\ warned \in BOOLEAN

\* Where an area is: in slots of CPUs, and at tasks.
Places(a) == Cardinality({k \in Cpu \X Slot : cached[k[1]][k[2]] = a})
             + Cardinality({t \in Task : stack[t] = a})

\* Every mapped area is in exactly one place, a slot or a task, and no other
\* area is anywhere: none is lost when a fork fails, a slot is taken or a CPU
\* goes away, and no dead CPU keeps one after its teardown.
AreasKept ==
    /\ TypeOK
    /\ \A a \in Area : Places(a) = IF a \in mapped THEN 1 ELSE 0
    /\ \A c \in Cpu, n \in Slot : cpu[c] = "off" => cached[c][n] = None

\* Tasks that dup_task_struct has made and whose stack has not been released.
Accounted == {t \in Task : \/ pc[t] \in {"made", "live", "release"}
                           \/ refs[t] > 0 /\ pc[t] # "free" /\ usage[t] > 0
                           \/ \E r \in Reader : look[r].task = t /\ pc[r] = "release"}

\* The memory cgroup is charged for whole stacks of tasks and for nothing that
\* is cached or freed, also where charging failed half-way, and
\* NR_KERNEL_STACK_KB counts the stacks of complete tasks.  Neither WARN_ON
\* fires: a stack is released with its task in TASK_DEAD, and a task_struct is
\* freed when nobody counts on its stack.
ChargesExact ==
    /\ AreasKept
    /\ ~warned
    /\ nr_stack = Pages * Cardinality(Accounted)
    /\ \A a \in Area : (\A t \in Task : stack[t] # a) => charged[a] = 0
    /\ \A t \in Accounted : charged[stack[t]] = Pages

\* A trace of a stack is taken only of a task the reader may trace, whatever
\* execve does after lock_trace (proc_pid_stack).
TraceHonoured ==
    \A r \in Reader : look[r].file = "stack" /\ pc[r] = "walk" => ~secret[look[r].task]
=============================================================================
