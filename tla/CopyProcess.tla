---------------------------- MODULE CopyProcess ----------------------------
(***************************************************************************)
(* fork, vfork and clone in kernel/fork.c: kernel_clone and copy_process.  *)
(* The callers are threads of one process; their children run, exec, exit  *)
(* and are reaped.  A child that shares nothing any more may be left to    *)
(* itself, and its caller goes on to the next one.                         *)
(*                                                                         *)
(* copy_process climbs a ladder of resources; when a rung fails it goes    *)
(* down again through the bad_fork_* labels.  A resource is either shared  *)
(* with the caller, which only counts, or the child's own.                 *)
(***************************************************************************)
EXTENDS Integers, FiniteSets, Sequences

CONSTANTS
    Caller,         \* threads that may call clone
    Calls,          \* the ways they may call it
    MaxThreads,     \* max_threads
    Nproc,          \* RLIMIT_NPROC of the user
    Privileged      \* the user may exceed it
Flag == {"VM", "FS", "FILES", "SIGHAND", "THREAD", "PIDFD", "DETACHED", "VFORK",
         "PARENT", "NEWNS", "NEWUSER", "NEWPID", "UNTRACED", "PARENT_SETTID",
         "CLEAR_SIGHAND", "INTO_CGROUP"}

\* A system call: which one, the flags, whether there is an exit signal, a stack
\* and a stack size, whether pidfd and parent_tid are the same address, and
\* whether clone3's structure can be read and is consistent.
Call == [by : {"fork", "vfork", "clone", "clone3"}, flags : SUBSET Flag, sig : BOOLEAN,
         stack : BOOLEAN, size : BOOLEAN, alias : BOOLEAN, wellformed : BOOLEAN]

ASSUME CloneAssumption ==
    /\ IsFiniteSet(Caller) /\ Caller # {}
    /\ Calls \subseteq Call
    /\ MaxThreads \in Nat /\ Nproc \in Nat
    /\ MaxThreads >= Cardinality(Caller) /\ Nproc >= Cardinality(Caller)
    /\ Privileged \in BOOLEAN

\* What copy_process acquires for the child, in this order.
Ladder == <<"creds", "policy", "perf", "audit", "security", "semundo", "files", "fs",
            "sighand", "signal", "mm", "namespaces", "io", "thread", "pid", "pidfd",
            "cgroup">>
Top == 17
Res == {"creds", "policy", "perf", "audit", "security", "semundo", "files", "fs",
        "sighand", "signal", "mm", "namespaces", "io", "thread", "pid", "pidfd",
        "cgroup"}
\* Those that can be shared.
Counted == {"mm", "files", "fs", "sighand", "signal"}

VARIABLES
    pc,         \* where a caller is in kernel_clone
    flags,      \* its clone_flags, which are its child's as well
    rung,       \* rungs of the ladder it has climbed
    cnt,        \* references to what the callers share
    own,        \* what belongs to one child alone: <<caller, resource>>
    processes,  \* user->processes
    nr_threads, \* nr_threads
    multiprocess, \* callers with a node on signal->multiprocess
    kid,        \* state of the caller's child
    crowd,      \* children left to themselves
    usage,      \* references to its task_struct
    vfork_done, \* its vfork_done points into the caller's frame
    completed   \* the completion in that frame
vars == <<pc, flags, rung, cnt, own, processes, nr_threads, multiprocess, kid, crowd,
          usage, vfork_done, completed>>

N == Cardinality(Caller)

(***************************************************************************)
(* The system calls.                                                       *)
(***************************************************************************)
\* The flags kernel_clone gets; clone has room for the lower 32 bits only.
KernelFlags(a) ==
    CASE a.by = "fork"   -> {}
      [] a.by = "vfork"  -> {"VFORK", "VM"}
      [] a.by = "clone"  -> a.flags \ {"CLEAR_SIGHAND", "INTO_CGROUP"}
      [] a.by = "clone3" -> a.flags

copy_clone_args_from_user(a) == a.wellformed
clone3_stack_valid(a) == a.stack <=> a.size

HandlersUnchecked(a) ==
    /\ "DETACHED" \notin a.flags
    /\ a.flags \cap {"THREAD", "PARENT"} # {} => ~a.sig
    /\ clone3_stack_valid(a)
clone3_args_valid(a) ==
    /\ "DETACHED" \notin a.flags
    /\ ~({"SIGHAND", "CLEAR_SIGHAND"} \subseteq a.flags)
    /\ a.flags \cap {"THREAD", "PARENT"} # {} => ~a.sig
    /\ clone3_stack_valid(a)

\* clone has one address for both results.
kernel_clone_valid(a) ==
    ~({"PIDFD", "PARENT_SETTID"} \subseteq KernelFlags(a) /\ (a.by = "clone" \/ a.alias))

CallOK(a) ==
    /\ a.by = "clone3" => copy_clone_args_from_user(a) /\ clone3_args_valid(a)
    /\ kernel_clone_valid(a)

(***************************************************************************)
(* The flags copy_process refuses; of the conditions on the caller only    *)
(* those on flags are modelled.                                            *)
(***************************************************************************)
FlagsOK(f) ==
    /\ ~({"NEWNS", "FS"} \subseteq f)
    /\ ~({"NEWUSER", "FS"} \subseteq f)
    /\ "THREAD" \in f => "SIGHAND" \in f
    /\ "SIGHAND" \in f => "VM" \in f
    /\ "THREAD" \in f => f \cap {"NEWUSER", "NEWPID"} = {}
    /\ "PIDFD" \in f => f \cap {"DETACHED", "THREAD"} = {}

(***************************************************************************)
(* Taking and giving back one resource of c's child.                       *)
(***************************************************************************)
FlagOf(r) == CASE r = "mm" -> "VM" [] r = "files" -> "FILES" [] r = "fs" -> "FS"
               [] r = "sighand" -> "SIGHAND" [] r = "signal" -> "THREAD" [] OTHER -> "none"
Shared(c, r) == r \in Counted /\ FlagOf(r) \in flags[c]

\* The copy_* functions count what is shared, all but a thread's signal_struct,
\* which is counted when the thread is attached.  There is a pidfd only if asked
\* for.
Take(c, r) ==
    /\ cnt' = IF Shared(c, r) /\ r # "signal" THEN [cnt EXCEPT ![r] = @ + 1] ELSE cnt
    /\ own' = IF Shared(c, r) \/ (r = "pidfd" /\ "PIDFD" \notin flags[c])
              THEN own ELSE own \cup {<<c, r>>}

\* bad_fork_cleanup_signal leaves a thread's signal_struct alone.
Cleaned(c, r) == ~(r = "signal" /\ "THREAD" \in flags[c])

Give(c, r) ==
    /\ cnt' = IF Shared(c, r) /\ Cleaned(c, r) THEN [cnt EXCEPT ![r] = @ - 1] ELSE cnt
    /\ own' = own \ {<<c, r>>}

(***************************************************************************)
(* copy_process.                                                           *)
(***************************************************************************)
keepKids == <<kid, crowd, usage, vfork_done, completed>>
keepCounts == <<cnt, own, processes, nr_threads>>

\* The node for delayed signals, on the caller's stack, is put on the list of
\* the process, unless the child is to be a thread of it.
Clone(c, a) ==
    /\ pc[c] = "idle" /\ kid[c] = "none"
    /\ CallOK(a) /\ FlagsOK(KernelFlags(a))
    /\ flags' = [flags EXCEPT ![c] = KernelFlags(a)]
    /\ multiprocess' = IF "THREAD" \in KernelFlags(a) THEN multiprocess ELSE multiprocess \cup {c}
    /\ pc' = [pc EXCEPT ![c] = "dup"]
    /\ UNCHANGED <<rung, keepCounts, keepKids>>

\* dup_task_struct.
DupTask(c) ==
    /\ pc[c] = "dup"
    /\ kid' = [kid EXCEPT ![c] = "new"]
    /\ usage' = [usage EXCEPT ![c] = 1]
    /\ pc' = [pc EXCEPT ![c] = "nproc"]
    /\ UNCHANGED <<flags, rung, keepCounts, multiprocess, crowd, vfork_done, completed>>

\* A signal is pending, or there is no memory: fork_out.
DupFails(c) ==
    /\ pc[c] = "dup"
    /\ pc' = [pc EXCEPT ![c] = "out"]
    /\ UNCHANGED <<flags, rung, keepCounts, multiprocess, keepKids>>

\* The check of RLIMIT_NPROC, before copy_creds counts the child.
CheckNproc(c) ==
    /\ pc[c] = "nproc"
    /\ pc' = [pc EXCEPT ![c] =
                IF processes >= Nproc /\ ~Privileged THEN "free" ELSE "climb"]
    /\ UNCHANGED <<flags, rung, keepCounts, multiprocess, keepKids>>

\* One rung up.  Between copy_creds and the next rung comes the check of
\* max_threads.
Climb(c) ==
    /\ pc[c] = "climb" /\ rung[c] < Top
    /\ LET r == Ladder[rung[c] + 1] IN
       /\ Take(c, r)
       /\ processes' = IF r = "creds" THEN processes + 1 ELSE processes
       /\ pc' = [pc EXCEPT ![c] = IF r = "creds" THEN "limit"
                                  ELSE IF r = "cgroup" THEN "attach" ELSE "climb"]
    /\ rung' = [rung EXCEPT ![c] = @ + 1]
    /\ UNCHANGED <<flags, nr_threads, multiprocess, keepKids>>

\* A rung may fail: no memory, a table is full, a policy says no, a fault in
\* put_user.  Of what is shared only fs can fail (fs->in_exec), and there is no
\* pidfd without CLONE_PIDFD.  Where copy_creds fails there is nothing to unwind.
ClimbFails(c) ==
    /\ pc[c] = "climb" /\ rung[c] < Top
    /\ LET r == Ladder[rung[c] + 1] IN
       /\ Shared(c, r) => r = "fs"
       /\ r = "pidfd" => "PIDFD" \in flags[c]
    /\ pc' = [pc EXCEPT ![c] = IF rung[c] = 0 THEN "free" ELSE "unwind"]
    /\ UNCHANGED <<flags, rung, keepCounts, multiprocess, keepKids>>

\* "If multiple threads are within copy_process(), then this check triggers too
\* late."
ThreadsIgnored(c) ==
    /\ pc[c] = "limit"
    /\ pc' = [pc EXCEPT ![c] = "climb"]
    /\ UNCHANGED <<flags, rung, keepCounts, multiprocess, keepKids>>
CheckThreads(c) ==
    /\ pc[c] = "limit"
    /\ pc' = [pc EXCEPT ![c] = IF nr_threads >= MaxThreads THEN "unwind" ELSE "climb"]
    /\ UNCHANGED <<flags, rung, keepCounts, multiprocess, keepKids>>

\* Under tasklist_lock and siglock: the child becomes visible.
Attach(c) ==
    /\ pc[c] = "attach"
    /\ kid' = [kid EXCEPT ![c] = "live"]
    /\ cnt' = IF "THREAD" \in flags[c] THEN [cnt EXCEPT !["signal"] = @ + 1] ELSE cnt
    /\ nr_threads' = nr_threads + 1
    /\ multiprocess' = multiprocess \ {c}
    /\ pc' = [pc EXCEPT ![c] = "wake"]
    /\ UNCHANGED <<flags, rung, own, processes, crowd, usage, vfork_done, completed>>

\* The namespace is dying or a fatal signal is pending: bad_fork_cancel_cgroup.
AttachFails(c) ==
    /\ pc[c] = "attach"
    /\ pc' = [pc EXCEPT ![c] = "unwind"]
    /\ UNCHANGED <<flags, rung, keepCounts, multiprocess, keepKids>>

\* One label of bad_fork_*.
Uncounted(r) == processes
Discounted(r) == IF r = "creds" THEN processes - 1 ELSE processes
Unwind(c) ==
    /\ pc[c] = "unwind" /\ rung[c] > 0
    /\ Give(c, Ladder[rung[c]])
    /\ processes' = Discounted(Ladder[rung[c]])
    /\ rung' = [rung EXCEPT ![c] = @ - 1]
    /\ pc' = [pc EXCEPT ![c] = IF rung[c] = 1 THEN "free" ELSE "unwind"]
    /\ UNCHANGED <<flags, nr_threads, multiprocess, keepKids>>

\* bad_fork_free.
FreeTask(c) ==
    /\ pc[c] = "free"
    /\ kid' = [kid EXCEPT ![c] = "none"]
    /\ usage' = [usage EXCEPT ![c] = 0]
    /\ pc' = [pc EXCEPT ![c] = "out"]
    /\ UNCHANGED <<flags, rung, keepCounts, multiprocess, crowd, vfork_done, completed>>

\* fork_out: the node leaves the list before the frame is gone.
ForkOut(c) ==
    /\ pc[c] = "out"
    /\ multiprocess' = multiprocess \ {c}
    /\ pc' = [pc EXCEPT ![c] = "idle"]
    /\ flags' = [flags EXCEPT ![c] = {}]
    /\ UNCHANGED <<rung, keepCounts, keepKids>>

(***************************************************************************)
(* kernel_clone after copy_process; wait_for_vfork_done.                   *)
(***************************************************************************)
\* get_task_struct for a vfork.
GetTask(c) == [usage EXCEPT ![c] = @ + 1]

\* The completion is in place before the child runs.
WakeUp(c) ==
    /\ pc[c] = "wake"
    /\ kid' = [kid EXCEPT ![c] = "run"]
    /\ rung' = [rung EXCEPT ![c] = 0]
    /\ IF "VFORK" \in flags[c]
       THEN /\ vfork_done' = [vfork_done EXCEPT ![c] = TRUE]
            /\ completed' = [completed EXCEPT ![c] = FALSE]
            /\ usage' = GetTask(c)
            /\ pc' = [pc EXCEPT ![c] = "vwait"]
       ELSE /\ pc' = [pc EXCEPT ![c] = "idle"]
            /\ UNCHANGED <<vfork_done, completed, usage>>
    /\ UNCHANGED <<flags, keepCounts, multiprocess, crowd>>

\* put_task_struct; the last reference frees a task that has been reaped.
Put(c) ==
    /\ usage' = [usage EXCEPT ![c] = @ - 1]
    /\ kid' = [kid EXCEPT ![c] = IF usage[c] = 1 THEN "none" ELSE @]

VforkDone(c) ==
    /\ pc[c] = "vwait" /\ completed[c]
    /\ Put(c)
    /\ pc' = [pc EXCEPT ![c] = "idle"]
    /\ UNCHANGED <<flags, rung, keepCounts, multiprocess, crowd, vfork_done, completed>>

\* The caller is killed while it waits, and then takes the child's task_lock.
VforkKilled(c) ==
    /\ pc[c] = "vwait" /\ ~completed[c]
    /\ pc' = [pc EXCEPT ![c] = "vkill"]
    /\ UNCHANGED <<flags, rung, keepCounts, multiprocess, keepKids>>

KeepsPointer(c) == vfork_done
ForgetFrame(c) == [vfork_done EXCEPT ![c] = FALSE]

VforkAbandon(c) ==
    /\ pc[c] = "vkill"
    /\ vfork_done' = ForgetFrame(c)
    /\ Put(c)
    /\ pc' = [pc EXCEPT ![c] = "idle"]
    /\ UNCHANGED <<flags, rung, keepCounts, multiprocess, crowd, completed>>

(***************************************************************************)
(* The child.  Both exec and exit call mm_release, which tells a waiting   *)
(* parent under task_lock (complete_vfork_done).                           *)
(***************************************************************************)
CompleteVfork(c) ==
    /\ completed' = [completed EXCEPT ![c] = @ \/ vfork_done[c]]
    /\ vfork_done' = [vfork_done EXCEPT ![c] = FALSE]

NoRelease(c) == UNCHANGED <<completed, vfork_done>>
exec_mm_release(c) == CompleteVfork(c)
exit_mm_release(c) == CompleteVfork(c)

\* exec gives a child that is not a thread its own memory, files and handlers,
\* and ends a vfork.
Exec(c) ==
    /\ kid[c] = "run" /\ "THREAD" \notin flags[c]
    /\ exec_mm_release(c)
    /\ LET gone == {r \in {"mm", "files", "sighand"} : Shared(c, r)} IN
       /\ cnt' = [r \in Counted |-> IF r \in gone THEN cnt[r] - 1 ELSE cnt[r]]
       /\ own' = own \cup ({c} \X gone)
    /\ flags' = [flags EXCEPT ![c] = @ \ {"VM", "FILES", "SIGHAND", "VFORK"}]
    /\ UNCHANGED <<pc, rung, processes, nr_threads, multiprocess, kid, crowd, usage>>

\* exit gives back all but what a zombie needs, release_task the rest.
Kept == {"creds", "signal", "sighand", "pid", "pidfd"}
DropAll(c, R) ==
    /\ cnt' = [r \in Counted |-> IF r \in R /\ Shared(c, r) THEN cnt[r] - 1 ELSE cnt[r]]
    /\ own' = own \ ({c} \X R)

Exit(c) ==
    /\ kid[c] = "run"
    /\ exit_mm_release(c)
    /\ DropAll(c, Res \ Kept)
    /\ kid' = [kid EXCEPT ![c] = "dead"]
    /\ UNCHANGED <<pc, flags, rung, processes, nr_threads, multiprocess, crowd, usage>>

Reap(c) ==
    /\ kid[c] = "dead"
    /\ DropAll(c, Kept)
    /\ processes' = processes - 1 /\ nr_threads' = nr_threads - 1
    /\ usage' = [usage EXCEPT ![c] = @ - 1]
    /\ kid' = [kid EXCEPT ![c] = IF usage[c] = 1 THEN "none" ELSE "reaped"]
    /\ UNCHANGED <<pc, flags, rung, multiprocess, crowd, vfork_done, completed>>

\* A child that shares nothing and nobody waits for lives on by itself, and ends
\* some day.
Leave(c) ==
    /\ kid[c] = "run" /\ pc[c] = "idle" /\ usage[c] = 1
    /\ \A r \in Counted : ~Shared(c, r)
    /\ kid' = [kid EXCEPT ![c] = "none"] /\ usage' = [usage EXCEPT ![c] = 0]
    /\ own' = own \ ({c} \X Res)
    /\ crowd' = crowd + 1
    /\ UNCHANGED <<pc, flags, rung, cnt, processes, nr_threads, multiprocess,
                   vfork_done, completed>>

CrowdExit ==
    /\ crowd > 0
    /\ crowd' = crowd - 1
    /\ processes' = processes - 1 /\ nr_threads' = nr_threads - 1
    /\ UNCHANGED <<pc, flags, rung, cnt, own, multiprocess, kid, usage, vfork_done,
                   completed>>

(***************************************************************************)
(* The specification.                                                      *)
(***************************************************************************)
Init ==
    /\ pc = [c \in Caller |-> "idle"] /\ flags = [c \in Caller |-> {}]
    /\ rung = [c \in Caller |-> 0]
    /\ cnt = [r \in Counted |-> N] /\ own = {}
    /\ processes = N /\ nr_threads = N
    /\ multiprocess = {}
    /\ crowd = 0
    /\ kid = [c \in Caller |-> "none"] /\ usage = [c \in Caller |-> 0]
    /\ vfork_done = [c \in Caller |-> FALSE] /\ completed = [c \in Caller |-> FALSE]

Step(c) ==
    \/ DupTask(c) \/ DupFails(c) \/ CheckNproc(c) \/ Climb(c) \/ ClimbFails(c)
    \/ CheckThreads(c) \/ Attach(c) \/ AttachFails(c) \/ Unwind(c) \/ FreeTask(c)
    \/ ForkOut(c) \/ WakeUp(c) \/ VforkDone(c) \/ VforkAbandon(c)

Next ==
    \/ \E c \in Caller :
        \/ \E a \in Calls : Clone(c, a)
        \/ Step(c) \/ VforkKilled(c)
        \/ Exec(c) \/ Exit(c) \/ Reap(c) \/ Leave(c)
    \/ CrowdExit

Spec == Init /\ [][Next]_vars

\* A caller that can go on does; nobody has to call clone, die or be killed.
FairSpec == Spec /\ \A c \in Caller : WF_vars(Step(c))

(***************************************************************************)
(* Properties.                                                             *)
(***************************************************************************)
PCs == {"idle", "dup", "nproc", "climb", "limit", "attach", "wake", "unwind", "free",
        "out", "vwait", "vkill"}

\* Every variable has its type.
TypeOK ==
    /\ pc \in [Caller -> PCs]
    /\ flags \in [Caller -> SUBSET Flag]
    /\ rung \in [Caller -> 0 .. Top]
    /\ cnt \in [Counted -> Int] /\ own \subseteq Caller \X Res
    /\ processes \in Int /\ nr_threads \in Int /\ crowd \in Nat
    /\ multiprocess \subseteq Caller
    /\ kid \in [Caller -> {"none", "new", "live", "run", "dead", "reaped"}]
    /\ usage \in [Caller -> 0 .. 2]
    /\ vfork_done \in [Caller -> BOOLEAN] /\ completed \in [Caller -> BOOLEAN]

\* What the callers share is never given up under their feet: every decrement
\* on the way down, at exec or at exit answers an increment of the same child.
SharedKept == \A r \in Counted : cnt[r] >= N

\* A fork that fails leaves no trace, and neither does a child that is gone:
\* every count keeps its type, what the callers share is kept,
\* a caller outside copy_process has no node of its stack on
\* signal->multiprocess, and with no fork under way and no child of a caller
\* left, nothing is allocated and every count is what it was at first, but for
\* the children left to themselves.
Outside == {"idle", "wake", "vwait", "vkill"}
Quiet == \A c \in Caller : pc[c] = "idle" /\ kid[c] = "none"
NoTrace ==
    /\ TypeOK /\ SharedKept
    /\ \A c \in multiprocess : pc[c] \notin Outside
    /\ Quiet => /\ \A r \in Counted : cnt[r] = N
                /\ own = {} /\ processes = N + crowd /\ nr_threads = N + crowd

\* The late checks of max_threads and, unless privileged, RLIMIT_NPROC: all
\* callers together exceed a limit by less than their number.
LimitsBounded ==
    /\ nr_threads < MaxThreads + N
    /\ Privileged \/ processes < Nproc + N

\* For as long as it runs, a thread of the process shares its memory, handlers
\* and signals, with a reference of its own to each, and a child that was to
\* start with the default handlers has handlers of its own, whichever system
\* call asked for it (clone3_args_valid, copy_process, copy_sighand).
FlagsHonoured ==
    \A c \in Caller : kid[c] \in {"live", "run"} =>
        /\ "THREAD" \in flags[c] =>
             \A r \in {"mm", "sighand", "signal"} : <<c, r>> \notin own /\ cnt[r] > N
        /\ "CLEAR_SIGHAND" \in flags[c] => <<c, "sighand">> \in own

\* A child's vfork_done points into the frame of a caller that still waits, and
\* the task_struct of a child that is waited for is still there to look at.
VforkFrameAlive ==
    \A c \in Caller : /\ vfork_done[c] => pc[c] \in {"vwait", "vkill"}
                      /\ pc[c] \in {"vwait", "vkill"} => kid[c] # "none"

\* A caller of vfork is not left waiting for a child that has let go of the
\* memory, be it by exec, while it lives on, or by exit (mm_release).
LetGo(c) == \/ kid[c] \in {"dead", "reaped"}
            \/ kid[c] = "run" /\ "VFORK" \notin flags[c]
VforkReturns ==
    \A c \in Caller : pc[c] = "vwait" /\ LetGo(c) ~> pc[c] # "vwait"

=============================================================================
