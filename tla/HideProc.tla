------------------------------ MODULE HideProc ------------------------------
(***************************************************************************)
(* The process-hiding patch of Linux 5.13.10: the system calls hide and    *)
(* hide_user_processes, the flag behind /proc/hide, the listing behind     *)
(* /proc/hidden_process, and the two paths of procfs that honour the flag  *)
(* and a task's cloak: proc_pid_lookup and proc_pid_readdir, with the      *)
(* dentry cache between a lookup and its answer.                           *)
(*                                                                         *)
(* A task is named by its pid.  Pids are handed out cyclically, so within  *)
(* a model's horizon none is used twice.  A caller is a kernel thread of   *)
(* control executing one system call at a time.  The kernel is built       *)
(* without preemption: an RCU grace period does not end inside a stretch   *)
(* of kernel code that cannot sleep.                                       *)
(***************************************************************************)
EXTENDS Integers, FiniteSets

CONSTANTS
    Pid,          \* pids a task can get
    Caller,       \* threads of control inside the kernel
    Workloads,    \* what may go on in a behaviour, see Workload
    Uid,          \* uids a process can have
    BinName,      \* records [head, long]: first 15 characters, more than 15?
    OnValue,      \* values of hide's argument on
    FlagValue,    \* values written to /proc/hide
    HidePid,      \* the hidepid= mount option of /proc
    Ptrace,       \* [Caller -> SUBSET Pid], tasks each may ptrace
    MaxUsage      \* bound on a task's reference count
OpName == {"lookup", "readdir", "hide", "hup", "recover", "list", "flag"}
SysName == {"fork", "thread", "exec", "reap", "shrink"}

\* The processes that run at first and the programs they run, the pids new
\* ones get, each caller's uid and the calls it makes, and what else goes on.
Workload == [boot : SUBSET Pid, names : SUBSET BinName, forked : SUBSET Pid,
             callers : [Caller -> Nat], ops : [Caller -> SUBSET OpName],
             sys : SUBSET SysName]

HIDEPID_NO_ACCESS == 1
HIDEPID_INVISIBLE == 2
HIDEPID_NOT_PTRACEABLE == 4

ASSUME PidAssumption == /\ Pid \subseteq Nat \ {0} /\ IsFiniteSet(Pid)
ASSUME CallerAssumption ==
    /\ IsFiniteSet(Caller)
    /\ Ptrace \in [Caller -> SUBSET Pid]
ASSUME ValueAssumption ==
    /\ Uid \subseteq Nat
    /\ BinName \subseteq [head : Nat, long : BOOLEAN]
    /\ OnValue \subseteq Int /\ FlagValue \subseteq Int
    /\ HidePid \in {0, 1, 2, 4}
    /\ MaxUsage \in Nat
ASSUME WorkloadAssumption == Workloads \subseteq Workload

VARIABLES
    load,         \* the workload of the behaviour
    life,         \* free, new (copied), live (attached), dead (released), unref
    tgid,         \* the leader of a task's thread group
    uid,          \* task_struct.cred->uid
    image,        \* the name of the program a task runs
    nxt,          \* task_struct.tasks.next of leaders; 0 is the list head
    cloak,        \* task_struct.cloak
    usage,        \* task_struct.usage
    hidden_flag,  \* the flag behind /proc/hide
    dentry,       \* pids with a dentry in the dcache of /proc
    sib,          \* pids whose proc inode is on pid->inodes
    pc, op,       \* where a caller is, and in which call
    task,         \* the task a caller points to, 0 for none
    pos,          \* the next pid a readdir asks for
    arg,          \* arguments of hide and hide_user_processes
    seen,         \* the pids the call has shown to its user so far
    base, also,   \* history: what has held since the call began (see Observe)
    lapsed        \* history: pids hidden behind the back of the cache
procs == <<life, tgid, uid, image, nxt>>
cache == <<dentry, sib>>
ctl == <<pc, op, task, pos, arg, seen>>
hist == <<base, also, lapsed>>
vars == <<load, procs, cloak, usage, hidden_flag, cache, ctl, hist>>

Boot == load.boot
Ops == load.ops
SysOps == load.sys

PC == {"idle", "lk_flag", "lk_cloak", "lk_make", "splice", "rd_next",
       "rd_flag", "rd_cloak", "rd_fill", "rd_emit", "rd_full", "hide_set",
       "hide_flush", "walk", "walk_flush", "walk_adv", "ret", "oops"}

NoBin == [head |-> 0, long |-> FALSE]
NoArg == [on |-> 0, uid |-> 0, bin |-> NoBin, all |-> TRUE]
Arg == [on : OnValue \cup {0}, uid : Uid \cup {0},
        bin : BinName \cup {NoBin}, all : BOOLEAN]

(***************************************************************************)
(* Tasks and the lists they are on.                                        *)
(***************************************************************************)
Live(p) == life[p] = "live"
Leader(p) == tgid[p] = p
Leaders == {p \in Pid : Live(p) /\ Leader(p)}
Freed(p) == life[p] = "unref" /\ usage[p] = 0

\* The first leader on the task list, 0 if there is none.
First == LET heads == {q \in Leaders : \A r \in Leaders : nxt[r] # q}
         IN  IF heads = {} THEN 0 ELSE CHOOSE q \in heads : TRUE

\* comm holds at most 15 characters; a binname of 16 or more fills kbinname
\* without a terminator, and strncmp over 16 bytes then differs at byte 15.
CommMatches(p, bin) == ~bin.long /\ image[p].head = bin.head

\* What hide_user_processes promises to match: the program's name.
Selected(p, a) == uid[p] = a.uid /\ (a.all \/ image[p] = a.bin)

\* The patch's test of task->cloak.
CloakHides(p) == cloak[p] = 1

HiddenNow == {p \in Pid : hidden_flag = 1 /\ Live(p) /\ cloak[p] = 1}

(***************************************************************************)
(* May caller c see task p under the hidepid= option?                      *)
(***************************************************************************)
has_pid_permissions(c, p, min) ==
    \/ HidePid # HIDEPID_NOT_PTRACEABLE /\ HidePid < min
    \/ p \in Ptrace[c]

Uncloaked(c) == {p \in Leaders : /\ cloak[p] # 1
                                 /\ has_pid_permissions(c, p, HIDEPID_INVISIBLE)}

(***************************************************************************)
(* History.  While a call runs, base and also keep the pids for which the  *)
(* call's promise applies: the ones whose state has not changed since the  *)
(* call began.  They are read by the properties only.                      *)
(***************************************************************************)
\* Tasks a lookup or a readdir has found visible and not yet cached.
PastCheck == {p \in Pid : \E c \in Caller :
                task[c] = p /\ pc[c] \in {"lk_make", "splice", "rd_fill"}}

\* Tasks whose cloak a call has set and whose dentries it has yet to flush.
FlushPending == {p \in Pid : \E c \in Caller :
                task[c] = p /\ pc[c] \in {"hide_flush", "walk_flush"}}

\* The state the promise of c's call is about.
Subject(c) ==
    CASE op[c] = "lookup"  -> HiddenNow \ FlushPending
      [] op[c] = "readdir" -> HiddenNow
      [] op[c] = "list"    -> {p \in Leaders : cloak[p] = 1}
      [] op[c] = "recover" -> Leaders
      [] op[c] = "hup"     -> {p \in Leaders : Selected(p, arg[c])}
      [] OTHER             -> {}

\* The value a walk is to leave in cloak.
Goal(c) == IF op[c] = "hup" THEN 1 ELSE 0

Undisturbed(c) == {p \in base[c] : /\ Live(p)'
                                   /\ image'[p] = image[p]
                                   /\ cloak'[p] \in {cloak[p], Goal(c)}}

\* A walk that stands on freed memory has no promise left to keep.
CursorFreed(c) == pc[c] \in {"walk", "walk_adv"} /\ task[c] # 0 /\ Freed(task[c])

StillBase(c) == IF CursorFreed(c) THEN {}
                ELSE IF op[c] \in {"hup", "recover"} THEN Undisturbed(c)
                ELSE base[c] \cap Subject(c)'

\* The opposite claim: who is not cloaked.  (hidden_flag is loaded before
\* cloak: with a flag and a cloak changing in between, a readdir can skip a
\* process that was not hidden at any one moment.)
Opposite(c) ==
    CASE op[c] = "readdir" -> Uncloaked(c)
      [] op[c] = "list"    -> {p \in Leaders : cloak[p] # 1}
      [] OTHER             -> {}

Observe ==
    /\ base' = [c \in Caller |->
                  IF pc'[c] = "idle" THEN {}
                  ELSE IF pc[c] \in {"idle", "rd_full"} THEN Subject(c)' \ seen[c]
                  ELSE StillBase(c)]
    /\ also' = [c \in Caller |->
                  IF pc'[c] = "idle" THEN {}
                  ELSE IF pc[c] = "idle" THEN Opposite(c)'
                  ELSE also[c] \cap Opposite(c)']
    /\ lapsed' = {p \in dentry' \cup PastCheck' :
                    \/ p \in lapsed
                    \/ p \in PastCheck /\ p \in sib \ sib'
                    \/ /\ p \in HiddenNow' \ HiddenNow
                       /\ hidden_flag' # hidden_flag \/ p \in PastCheck}

(***************************************************************************)
(* The rest of the system.                                                 *)
(***************************************************************************)
CopiedCloak(parent) == cloak[parent]
ChildCloak(parent) == 0

\* copy_process up to the point where the child can be seen: the copy of the
\* parent's task_struct, its two references, and a cloak that is not copied.
DupTask(parent, p, leader) ==
    /\ (IF leader THEN "fork" ELSE "thread") \in SysOps
    /\ Live(parent) /\ p \in load.forked /\ life[p] = "free"
    /\ life' = [life EXCEPT ![p] = "new"]
    /\ tgid' = [tgid EXCEPT ![p] = IF leader THEN p ELSE tgid[parent]]
    /\ uid' = [uid EXCEPT ![p] = uid[parent]]
    /\ image' = [image EXCEPT ![p] = image[parent]]
    /\ cloak' = [cloak EXCEPT ![p] = ChildCloak(parent)]
    /\ usage' = [usage EXCEPT ![p] = 1]
    /\ UNCHANGED <<nxt, hidden_flag, cache, ctl>>

\* The tail of copy_process under tasklist_lock: a leader goes to the end of
\* the task list, and the pid can be found from now on.
Attach(p) ==
    /\ life[p] = "new"
    /\ Leader(p) \/ Live(tgid[p])
    /\ life' = [life EXCEPT ![p] = "live"]
    /\ nxt' = IF ~Leader(p) THEN nxt
              ELSE [q \in Pid |-> IF q = p THEN 0
                                  ELSE IF q \in Leaders /\ nxt[q] = 0 THEN p
                                  ELSE nxt[q]]
    /\ UNCHANGED <<tgid, uid, image, cloak, usage, hidden_flag, cache, ctl>>

\* bad_fork_free: the copy is dropped before anyone could see it.
ForkFail(p) ==
    /\ life[p] = "new"
    /\ life' = [life EXCEPT ![p] = "free"]
    /\ usage' = [usage EXCEPT ![p] = 0]
    /\ tgid' = [tgid EXCEPT ![p] = p]
    /\ uid' = [uid EXCEPT ![p] = 0]
    /\ image' = [image EXCEPT ![p] = NoBin]
    /\ UNCHANGED <<nxt, cloak, hidden_flag, cache, ctl>>

\* execve, or a write to /proc/pid/comm: a task gets another name.
Exec(p, b) ==
    /\ "exec" \in SysOps
    /\ Live(p) /\ Leader(p) /\ image[p] # b
    /\ image' = [image EXCEPT ![p] = b]
    /\ UNCHANGED <<life, tgid, uid, nxt, cloak, usage, hidden_flag, cache, ctl>>

\* release_task: the task leaves the pid hash and the task list (its own list
\* pointer stays) and the dentries of its pid are flushed.  A leader goes last.
Reap(p) ==
    /\ "reap" \in SysOps
    /\ Live(p)
    /\ Leader(p) => \A q \in Pid \ {p} : tgid[q] = p => life[q] \notin {"new", "live"}
    /\ life' = [life EXCEPT ![p] = "dead"]
    /\ nxt' = IF ~Leader(p) THEN nxt
              ELSE [q \in Pid |-> IF q \in Leaders \ {p} /\ nxt[q] = p
                                  THEN nxt[p] ELSE nxt[q]]
    /\ dentry' = dentry \ (sib \cap {p})
    /\ sib' = sib \ {p}
    /\ UNCHANGED <<tgid, uid, image, cloak, usage, hidden_flag, ctl>>

\* Callers inside code that neither sleeps nor leaves an RCU reader's section.
NoSleep == {"hide_set", "hide_flush", "walk", "walk_flush"}

\* delayed_put_task_struct: a grace period after the release, the reference
\* of the user-visible state and the scheduler goes.  With the last one goes
\* what the memory says of the task, but for the pointer a walk may still follow.
RcuPut(p) ==
    /\ life[p] = "dead"
    /\ \A c \in Caller : pc[c] \notin NoSleep
    /\ life' = [life EXCEPT ![p] = "unref"]
    /\ usage' = [usage EXCEPT ![p] = @ - 1]
    /\ image' = [image EXCEPT ![p] = IF usage[p] = 1 THEN NoBin ELSE @]
    /\ cloak' = [cloak EXCEPT ![p] = IF usage[p] = 1 THEN 0 ELSE @]
    /\ UNCHANGED <<tgid, uid, nxt, hidden_flag, cache, ctl>>

\* Memory pressure drops a dentry and its inode (proc_pid_evict_inode).
Shrink(p) ==
    /\ "shrink" \in SysOps
    /\ p \in dentry
    /\ dentry' = dentry \ {p}
    /\ sib' = sib \ {p}
    /\ UNCHANGED <<procs, cloak, usage, hidden_flag, ctl>>

(***************************************************************************)
(* Looking up /proc/<pid>.                                                 *)
(***************************************************************************)
Begin(c, name) == pc[c] = "idle" /\ name \in Ops[c]

\* A caller inside d_alloc_parallel .. d_lookup_done for the name p.
InLookup(p) == \E c \in Caller :
    task[c] = p /\ pc[c] \in {"lk_flag", "lk_cloak", "lk_make", "splice"}

NoGet(p) == usage
Get(p) == [usage EXCEPT ![p] = @ + 1]
Put(p) == [usage EXCEPT ![p] = @ - 1]

\* The call ends for c, having shown its user the pids in S.
Return(c, S) ==
    /\ pc' = [pc EXCEPT ![c] = "ret"]
    /\ task' = [task EXCEPT ![c] = 0]
    /\ seen' = [seen EXCEPT ![c] = S]

Goto(c, l) == pc' = [pc EXCEPT ![c] = l]

\* A cached dentry answers: pid_revalidate asks only whether the task exists,
\* and drops the dentry of a task that does not.
LookupCached(c, p) ==
    /\ Begin(c, "lookup") /\ p \in dentry
    /\ op' = [op EXCEPT ![c] = "lookup"]
    /\ Return(c, IF Live(p) THEN {p} ELSE {})
    /\ dentry' = IF Live(p) THEN dentry ELSE dentry \ {p}
    /\ sib' = IF Live(p) THEN sib ELSE sib \ {p}
    /\ UNCHANGED <<procs, cloak, usage, hidden_flag, pos, arg>>

\* proc_pid_lookup finds the task of the pid, a thread's too, and pins it.
LookupFind(c, p) ==
    /\ Begin(c, "lookup") /\ p \notin dentry /\ ~InLookup(p)
    /\ op' = [op EXCEPT ![c] = "lookup"]
    /\ IF Live(p)
       THEN /\ usage[p] < MaxUsage
            /\ usage' = Get(p)
            /\ task' = [task EXCEPT ![c] = p]
            /\ Goto(c, "lk_flag")
            /\ UNCHANGED seen
       ELSE Return(c, {}) /\ UNCHANGED usage
    /\ UNCHANGED <<procs, cloak, hidden_flag, cache, pos, arg>>

\* The first load of hidden_flag==1 && task->cloak==1.
LookupFlag(c) ==
    /\ pc[c] = "lk_flag"
    /\ Goto(c, IF hidden_flag = 1 THEN "lk_cloak" ELSE "lk_make")
    /\ UNCHANGED <<procs, cloak, usage, hidden_flag, cache, op, task, pos, arg, seen>>

\* The second load.  A hidden task is reported as absent by "goto out", which
\* passes over put_task_struct.
LookupCloak(c) ==
    /\ pc[c] = "lk_cloak"
    /\ IF CloakHides(task[c]) THEN Return(c, {})
       ELSE Goto(c, "lk_make") /\ UNCHANGED <<task, seen>>
    /\ UNCHANGED <<procs, cloak, usage, hidden_flag, cache, op, pos, arg>>

\* The hidepid check, then proc_pid_make_inode: an inode on pid->inodes, or
\* none if the task has lost its pid.
LookupMake(c) ==
    LET p == task[c] IN
    /\ pc[c] = "lk_make"
    /\ IF /\ Live(p)
          /\ HidePid = HIDEPID_NOT_PTRACEABLE => has_pid_permissions(c, p, HIDEPID_NO_ACCESS)
       THEN /\ sib' = sib \cup {p}
            /\ Goto(c, "splice")
            /\ UNCHANGED <<usage, task, seen>>
       ELSE /\ usage' = Put(p)
            /\ Return(c, {})
            /\ UNCHANGED sib
    /\ UNCHANGED <<procs, cloak, hidden_flag, dentry, op, pos, arg>>

\* d_splice_alias, and the end of proc_pid_lookup or of the in-lookup section
\* of proc_fill_cache.
Splice(c) ==
    LET p == task[c] IN
    /\ pc[c] = "splice"
    /\ dentry' = dentry \cup {p}
    /\ IF op[c] = "lookup"
       THEN usage' = Put(p) /\ Return(c, {p})
       ELSE Goto(c, "rd_emit") /\ UNCHANGED <<usage, task, seen>>
    /\ UNCHANGED <<procs, cloak, hidden_flag, sib, op, pos, arg>>

(***************************************************************************)
(* Listing /proc.                                                          *)
(***************************************************************************)
ReaddirStart(c) ==
    /\ Begin(c, "readdir")
    /\ op' = [op EXCEPT ![c] = "readdir"]
    /\ pos' = [pos EXCEPT ![c] = 0]
    /\ Goto(c, "rd_next")
    /\ UNCHANGED <<procs, cloak, usage, hidden_flag, cache, task, arg, seen>>

AfterTwo(n) == n + 2
AfterTgid(n) == n + 1

\* next_tgid: drop the previous task, pin the first leader from pos on; then
\* the hidepid check, which passes over a task the caller may not see.
NextTgid(c) ==
    LET prev == task[c]
        from == {p \in Leaders : p >= pos[c]}
    IN
    /\ pc[c] = "rd_next"
    /\ \/ /\ from = {}
          /\ usage' = IF prev = 0 THEN usage ELSE Put(prev)
          /\ Return(c, seen[c])
          /\ UNCHANGED pos
       \/ \E p \in from :
          /\ \A q \in from : p <= q
          /\ usage' = [q \in Pid |-> usage[q] - (IF q = prev THEN 1 ELSE 0)
                                            + (IF q = p THEN 1 ELSE 0)]
          /\ task' = [task EXCEPT ![c] = p]
          /\ IF has_pid_permissions(c, p, HIDEPID_INVISIBLE)
             THEN Goto(c, "rd_flag") /\ pos' = [pos EXCEPT ![c] = p]
             ELSE UNCHANGED pc /\ pos' = [pos EXCEPT ![c] = AfterTgid(p)]
          /\ UNCHANGED seen
    /\ UNCHANGED <<procs, cloak, hidden_flag, cache, op, arg>>

TrustsCache(c) ==
    /\ pc[c] = "rd_flag"
    /\ Goto(c, IF hidden_flag = 1 /\ task[c] \notin dentry THEN "rd_cloak" ELSE "rd_fill")
    /\ UNCHANGED <<procs, cloak, usage, hidden_flag, cache, op, task, pos, arg, seen>>
ReaddirFlag(c) ==
    /\ pc[c] = "rd_flag"
    /\ Goto(c, IF hidden_flag = 1 THEN "rd_cloak" ELSE "rd_fill")
    /\ UNCHANGED <<procs, cloak, usage, hidden_flag, cache, op, task, pos, arg, seen>>

\* "if hidden, skip": continue with the next tgid.
ReaddirCloak(c) ==
    /\ pc[c] = "rd_cloak"
    /\ IF CloakHides(task[c])
       THEN Goto(c, "rd_next") /\ pos' = [pos EXCEPT ![c] = AfterTgid(@)]
       ELSE Goto(c, "rd_fill") /\ UNCHANGED pos
    /\ UNCHANGED <<procs, cloak, usage, hidden_flag, cache, op, task, arg, seen>>

\* proc_fill_cache: use the cached dentry, or make an inode for a new one; a
\* task that lost its pid gets no dentry and is emitted all the same.
FillCache(c) ==
    LET p == task[c] IN
    /\ pc[c] = "rd_fill"
    /\ IF p \in dentry \/ ~Live(p)
       THEN Goto(c, "rd_emit") /\ UNCHANGED sib
       ELSE ~InLookup(p) /\ Goto(c, "splice") /\ sib' = sib \cup {p}
    /\ UNCHANGED <<procs, cloak, usage, hidden_flag, dentry, op, task, pos, arg, seen>>

\* dir_emit, and the loop's step to the next tgid.
Emit(c) ==
    /\ pc[c] = "rd_emit"
    /\ seen' = [seen EXCEPT ![c] = @ \cup {task[c]}]
    /\ pos' = [pos EXCEPT ![c] = AfterTgid(@)]
    /\ Goto(c, "rd_next")
    /\ UNCHANGED <<procs, cloak, usage, hidden_flag, cache, op, task, arg>>

\* dir_emit finds the user's buffer full: the position stays at this pid.
EmitFull(c) ==
    /\ pc[c] = "rd_emit" /\ seen[c] # {}
    /\ usage' = Put(task[c])
    /\ task' = [task EXCEPT ![c] = 0]
    /\ Goto(c, "rd_full")
    /\ UNCHANGED <<procs, cloak, hidden_flag, cache, op, pos, arg, seen>>

\* The user's next getdents on the same directory.
ReaddirResume(c) ==
    /\ pc[c] = "rd_full"
    /\ Goto(c, "rd_next")
    /\ UNCHANGED <<procs, cloak, usage, hidden_flag, cache, op, task, pos, arg, seen>>

(***************************************************************************)
(* The system calls.                                                       *)
(***************************************************************************)
\* proc_flush_pid of a task that still has its pid: the dentries of the
\* inodes on pid->inodes go.
NoFlush(p) == UNCHANGED cache
Flush(p) == dentry' = dentry \ (sib \cap {p}) /\ sib' = sib \ {p}

\* get_pid(p->thread_pid) of a released task is NULL, and proc_flush_pid
\* reads through it.
Oops(c) == Goto(c, "oops") /\ UNCHANGED <<task, seen>>

IsRoot(c) == load.callers[c] = 0

\* hide(pid, on): anyone but root is told off in the log and gets 0, as root
\* does for an existing task; a pid without a task gives 1.
HideFind(c, p, on) ==
    /\ Begin(c, "hide")
    /\ op' = [op EXCEPT ![c] = "hide"]
    /\ arg' = [arg EXCEPT ![c] = [NoArg EXCEPT !.on = on]]
    /\ IF IsRoot(c) /\ Live(p)
       THEN /\ task' = [task EXCEPT ![c] = p]
            /\ Goto(c, "hide_set")
            /\ UNCHANGED seen
       ELSE Return(c, {})
    /\ UNCHANGED <<procs, cloak, usage, hidden_flag, cache, pos>>

HideSet(c) ==
    /\ pc[c] = "hide_set"
    /\ cloak' = [cloak EXCEPT ![task[c]] = arg[c].on]
    /\ Goto(c, "hide_flush")
    /\ UNCHANGED <<procs, usage, hidden_flag, cache, op, task, pos, arg, seen>>

HideFlush(c) ==
    /\ pc[c] = "hide_flush"
    /\ IF Live(task[c])
       THEN Flush(task[c]) /\ Return(c, {})
       ELSE Oops(c) /\ UNCHANGED cache
    /\ UNCHANGED <<procs, cloak, usage, hidden_flag, op, pos, arg>>

\* A walk over the task list begins at the first leader.
StartWalk(c, name, a) ==
    /\ op' = [op EXCEPT ![c] = name]
    /\ arg' = [arg EXCEPT ![c] = a]
    /\ task' = [task EXCEPT ![c] = First]
    /\ Goto(c, "walk")
    /\ UNCHANGED <<procs, cloak, usage, hidden_flag, cache, pos, seen>>

\* hide_user_processes(uid, binname, 0); binname NULL asks for all.
HupStart(c, u, b, all) ==
    /\ Begin(c, "hup") /\ IsRoot(c)
    /\ StartWalk(c, "hup", [NoArg EXCEPT !.uid = u, !.bin = b, !.all = all])

\* hide_user_processes(_, _, recover) with recover # 0.
RecoverStart(c) ==
    /\ Begin(c, "recover") /\ IsRoot(c)
    /\ StartWalk(c, "recover", NoArg)

\* A caller that is not root, or whose binname cannot be read, gets an error.
HupRefused(c) ==
    /\ Begin(c, "hup") \/ (Begin(c, "recover") /\ ~IsRoot(c))
    /\ op' = [op EXCEPT ![c] = "refused"]
    /\ Return(c, {})
    /\ UNCHANGED <<procs, cloak, usage, hidden_flag, cache, pos, arg>>

\* A read of /proc/hidden_process.
ListStart(c) == Begin(c, "list") /\ StartWalk(c, "list", NoArg)

\* for_each_process comes back to the head of the list.
WalkEnd(c) ==
    /\ pc[c] = "walk" /\ task[c] = 0
    /\ Return(c, seen[c])
    /\ UNCHANGED <<procs, cloak, usage, hidden_flag, cache, op, pos, arg>>

AdvanceTwice(c) ==
    task' = [task EXCEPT ![c] = IF nxt[@] = 0 THEN 0 ELSE nxt[nxt[@]]]
Advance(c) == task' = [task EXCEPT ![c] = nxt[task[c]]]

Matches(p, a) == uid[p] = a.uid /\ (a.all \/ CommMatches(p, a.bin))

\* The walk is at a task whose memory is allocated.
At(c, name) == pc[c] = "walk" /\ op[c] = name /\ task[c] # 0 /\ ~Freed(task[c])

HupVisit(c) ==
    /\ At(c, "hup")
    /\ IF Matches(task[c], arg[c])
       THEN /\ cloak' = [cloak EXCEPT ![task[c]] = 1]
            /\ Goto(c, "walk_flush")
            /\ UNCHANGED task
       ELSE Advance(c) /\ UNCHANGED <<cloak, pc>>
    /\ UNCHANGED <<procs, usage, hidden_flag, cache, op, pos, arg, seen>>

HupFlush(c) ==
    /\ pc[c] = "walk_flush"
    /\ IF Live(task[c])
       THEN Flush(task[c]) /\ Goto(c, "walk_adv") /\ UNCHANGED <<task, seen>>
       ELSE Oops(c) /\ UNCHANGED cache
    /\ UNCHANGED <<procs, cloak, usage, hidden_flag, op, pos, arg>>

\* The flush may have slept: the walk goes on from p->tasks.next.
HupAdvance(c) ==
    /\ pc[c] = "walk_adv" /\ ~Freed(task[c])
    /\ Advance(c) /\ Goto(c, "walk")
    /\ UNCHANGED <<procs, cloak, usage, hidden_flag, cache, op, pos, arg, seen>>

\* No reference pins the task the walk stands on.  Freed meanwhile, its
\* memory is intact, belongs to the newest task, or is garbage.
UseAfterFree(c) ==
    /\ CursorFreed(c)
    /\ \/ Advance(c) /\ Goto(c, "walk") /\ UNCHANGED seen
       \/ task' = [task EXCEPT ![c] = 0] /\ Goto(c, "walk") /\ UNCHANGED seen
       \/ Oops(c)
    /\ UNCHANGED <<procs, cloak, usage, hidden_flag, cache, op, pos, arg>>

RestoredCloak(p) == 0

RecoverVisit(c) ==
    /\ At(c, "recover")
    /\ cloak' = [cloak EXCEPT ![task[c]] = RestoredCloak(task[c])]
    /\ Advance(c)
    /\ UNCHANGED <<procs, usage, hidden_flag, cache, pc, op, pos, arg, seen>>

ListVisit(c) ==
    /\ At(c, "list")
    /\ seen' = [seen EXCEPT ![c] = IF CloakHides(task[c]) THEN @ \cup {task[c]} ELSE @]
    /\ Advance(c)
    /\ UNCHANGED <<procs, cloak, usage, hidden_flag, cache, pc, op, pos, arg>>

StoreFlag(v) == v

\* A write to /proc/hide that parses.  The file is root's (mode 0644).
proc_write_hidden(c, v) ==
    /\ Begin(c, "flag") /\ IsRoot(c)
    /\ hidden_flag' = StoreFlag(v)
    /\ op' = [op EXCEPT ![c] = "flag"]
    /\ Return(c, {})
    /\ UNCHANGED <<procs, cloak, usage, cache, pos, arg>>

\* Back in user space.
Leave(c) ==
    /\ pc[c] = "ret"
    /\ Goto(c, "idle")
    /\ seen' = [seen EXCEPT ![c] = {}]
    /\ arg' = [arg EXCEPT ![c] = NoArg]
    /\ pos' = [pos EXCEPT ![c] = 0]
    /\ op' = [op EXCEPT ![c] = "none"]
    /\ UNCHANGED <<procs, cloak, usage, hidden_flag, cache, task>>

(***************************************************************************)
(* The specification.  Initially the leaders are linked in pid order.      *)
(***************************************************************************)
Init ==
    /\ load \in Workloads
    /\ life = [p \in Pid |-> IF p \in Boot THEN "live" ELSE "free"]
    /\ usage = [p \in Pid |-> IF p \in Boot THEN 1 ELSE 0]
    /\ tgid = [p \in Pid |-> p]
    /\ uid \in {[p \in Pid |-> IF p \in Boot THEN f[p] ELSE 0] : f \in [Boot -> Uid]}
    /\ image \in {[p \in Pid |-> IF p \in Boot THEN f[p] ELSE NoBin] : f \in [Boot -> load.names]}
    /\ nxt \in [Pid -> Boot \cup {0}]
    /\ \A p \in Pid :
         LET after == IF p \in Boot THEN {q \in Boot : q > p} ELSE {}
         IN  IF after = {} THEN nxt[p] = 0
             ELSE nxt[p] \in after /\ \A q \in after : nxt[p] <= q
    /\ cloak = [p \in Pid |-> 0]
    /\ hidden_flag = 1
    /\ dentry = {} /\ sib = {}
    /\ pc = [c \in Caller |-> "idle"] /\ op = [c \in Caller |-> "none"]
    /\ task = [c \in Caller |-> 0] /\ pos = [c \in Caller |-> 0]
    /\ arg = [c \in Caller |-> NoArg] /\ seen = [c \in Caller |-> {}]
    /\ base = [c \in Caller |-> {}] /\ also = [c \in Caller |-> {}]
    /\ lapsed = {}

System ==
    \/ \E parent, p \in Pid, leader \in BOOLEAN : DupTask(parent, p, leader)
    \/ \E p \in Pid : Attach(p) \/ ForkFail(p) \/ Reap(p) \/ RcuPut(p) \/ Shrink(p)
    \/ \E p \in Pid, b \in BinName : Exec(p, b)

Step(c) ==
    \/ \E p \in Pid : LookupCached(c, p) \/ LookupFind(c, p)
    \/ LookupFlag(c) \/ LookupCloak(c) \/ LookupMake(c) \/ Splice(c)
    \/ ReaddirStart(c) \/ NextTgid(c) \/ ReaddirFlag(c) \/ ReaddirCloak(c)
    \/ FillCache(c) \/ Emit(c) \/ EmitFull(c) \/ ReaddirResume(c)
    \/ \E p \in Pid, on \in OnValue : HideFind(c, p, on)
    \/ HideSet(c) \/ HideFlush(c)
    \/ \E u \in Uid, b \in BinName : HupStart(c, u, b, FALSE)
    \/ \E u \in Uid : HupStart(c, u, NoBin, TRUE)
    \/ RecoverStart(c) \/ HupRefused(c) \/ ListStart(c) \/ WalkEnd(c)
    \/ HupVisit(c) \/ HupFlush(c) \/ HupAdvance(c) \/ UseAfterFree(c)
    \/ RecoverVisit(c) \/ ListVisit(c)
    \/ \E v \in FlagValue : proc_write_hidden(c, v)
    \/ Leave(c)

Next == (System \/ \E c \in Caller : Step(c)) /\ Observe /\ UNCHANGED load

Spec == Init /\ [][Next]_vars

(***************************************************************************)
(* Properties.                                                             *)
(***************************************************************************)
StateOK ==
    /\ life \in [Pid -> {"free", "new", "live", "dead", "unref"}]
    /\ tgid \in [Pid -> Pid]
    /\ uid \in [Pid -> Uid \cup {0}]
    /\ image \in [Pid -> BinName \cup {NoBin}]
    /\ nxt \in [Pid -> Pid \cup {0}]
    /\ cloak \in [Pid -> OnValue \cup {0, 1}]
    /\ usage \in [Pid -> Int]
    /\ hidden_flag \in FlagValue \cup {1}
    /\ dentry \subseteq Pid /\ sib \subseteq Pid
    /\ pc \in [Caller -> PC]
    /\ op \in [Caller -> OpName \cup {"none", "refused"}]
    /\ task \in [Caller -> Pid \cup {0}]
    /\ pos \in [Caller -> Nat]
    /\ arg \in [Caller -> Arg]
    /\ seen \in [Caller -> SUBSET Pid]

HistOK ==
    /\ base \in [Caller -> SUBSET Pid]
    /\ also \in [Caller -> SUBSET Pid]
    /\ lapsed \subseteq Pid

\* Every variable has its type.
TypeOK == StateOK /\ HistOK /\ load \in Workloads

\* A listing of /proc never shows a process that has been hidden since the
\* getdents call began, whatever forks, exits, hides and flag writes go on
\* beside it (the patched proc_pid_readdir).
ReaddirHonoursHide ==
    \A c \in Caller : op[c] = "readdir" => base[c] \cap seen[c] = {}

\* A complete listing shows every process that was alive, permitted and not
\* cloaked throughout: skipping a hidden process, losing one to an exit and
\* resuming with a new buffer never skip another one (next_tgid and pos).
ReaddirComplete ==
    \A c \in Caller : op[c] = "readdir" /\ pc[c] = "ret" => also[c] \subseteq seen[c]

\* Looking up /proc/<pid> never finds a process that has been hidden since the
\* lookup began, the call that hid it being over (the patched proc_pid_lookup
\* behind the dentry cache).
LookupHonoursHide ==
    \A c \in Caller : op[c] = "lookup" => base[c] \cap seen[c] = {}

\* A hidden process has a dentry in the cache only while the call that hid it
\* has its proc_flush_pid still to do, or if it became hidden when a lookup or
\* readdir had already found it visible, or by a write to /proc/hide, which
\* flushes nothing, or if an earlier flush came between the making of its inode
\* and of its dentry, and took the inode off the list that flushes walk.
CacheClosed == dentry \cap HiddenNow \subseteq lapsed \cup FlushPending

\* The unlocked walks miss nobody, whatever forks, exits and changes its name
\* beside them: when hide_user_processes(uid, binname, 0) returns, every
\* process that ran that program for that uid all along is cloaked, and when
\* a recover call returns every process is visible, unless another call undid
\* it or the task the walk stood on was freed under it; a read of
\* /proc/hidden_process has every process that was cloaked all along and none
\* that was not.
WalksExact ==
    \A c \in Caller : pc[c] = "ret" =>
        /\ op[c] = "hup" => \A p \in base[c] : cloak[p] = 1
        /\ op[c] = "recover" => \A p \in base[c] : cloak[p] = 0
        /\ op[c] = "list" => base[c] \subseteq seen[c] /\ also[c] \cap seen[c] = {}

\* Callers that hold a counted reference to p.
Holders(p) == {c \in Caller : task[c] = p /\ op[c] \in {"lookup", "readdir"}}

\* The reference of the user-visible state and the scheduler.
RcuRef(p) == IF life[p] \in {"new", "live", "dead"} THEN 1 ELSE 0

\* A task_struct is never freed under a lookup or a readdir that looks at it:
\* its usage count covers every reference in use.
NoPrematureFree ==
    \A p \in Pid : usage[p] >= RcuRef(p) + Cardinality(Holders(p))

\* The references counted are the ones in use: one until the task is reaped
\* and its grace period over, and one per lookup or readdir that has it.
RefsBalanced ==
    \A p \in Pid : usage[p] = RcuRef(p) + Cardinality(Holders(p))

\* A process appears with cloak 0 although the one it was copied from is, or
\* is being, hidden (copy_process).
ForkVisible ==
    [][\A p \in Pid : life[p] = "new" /\ life'[p] = "live" => cloak'[p] = 0]_vars

=============================================================================
