------------------------------- MODULE MmLife -------------------------------
(***************************************************************************)
(* The life of an mm_struct: dup_mm and dup_mmap with their failures,      *)
(* clones that share an mm, exec, exit, the two counts mm_users and        *)
(* mm_count with mmput and mmdrop, and the readers of another process's    *)
(* memory in /proc/<pid>: mem, environ and auxv, which keep an mm_struct   *)
(* without its memory between calls, cmdline, exe and map_files.           *)
(*                                                                         *)
(* A task stands for a process; threads of it add nothing to the counts.   *)
(* Every mapping of an mm maps its program's file.  An allocation that     *)
(* fails before anything is taken leaves no trace and is not a step.       *)
(***************************************************************************)
EXTENDS Integers, FiniteSets

CONSTANTS
    Task,        \* slots for task_structs
    Mm,          \* slots for mm_structs
    File,        \* slots for the open files of programs
    Reader,      \* processes that look into others through /proc
    Vma,         \* places where an mm may have a mapping, in address order
    DontCopy,    \* those mapped with VM_DONTCOPY
    Boot,        \* the task that runs at the beginning
    Mixes,       \* what may go on in a behaviour, and for how many mms there is room
    None         \* the NULL pointer
Activity == {"share", "dup", "exec", "unmap", "oom", "exit", "reap",
             "mem", "cmdline", "link", "maps"}

ASSUME MmAssumption ==
    /\ IsFiniteSet(Task) /\ IsFiniteSet(Mm) /\ IsFiniteSet(File) /\ IsFiniteSet(Reader)
    /\ Vma \subseteq Nat /\ IsFiniteSet(Vma) /\ DontCopy \subseteq Vma
    /\ Mixes \subseteq [does : SUBSET Activity, room : Nat]
    /\ Boot \in Task /\ Mm # {} /\ File # {}
    /\ None \notin Task \cup Mm \cup File

VARIABLES
    stage,       \* free; live; unmap, exe, drop: in __mmput; gone: __mmput done
    users,       \* mm_users
    count,       \* mm_count
    vmas,        \* the mappings of an mm
    exe,         \* mm->exe_file
    binfmt,      \* mm->binfmt is set
    secret,      \* the mm is that of a privileged program
    fref,        \* references to an open file
    modref,      \* references to the module of the binary format
    nsref,       \* references to the user namespace by mm_structs
    pc,          \* where a task is
    mm,          \* task->mm
    active,      \* task->active_mm of an exiting task
    new,         \* the mm a task is making
    kid,         \* the child a task is making
    cur,         \* dup_mmap: mappings below are copied
    priv,        \* the task's credentials keep readers out
    oom,         \* signal->oom_mm
    rpc,         \* where a reader is
    target,      \* the task it looks at
    held,        \* an mm it has in mm_users
    fd,          \* private_data of its open file: an mm it has in mm_count
    link,        \* a program's file it has a reference to
    mix          \* what goes on
mms == <<stage, users, count, vmas, exe, binfmt, secret>>
refs == <<fref, modref, nsref>>
tasks == <<pc, mm, active, new, kid, cur, priv, oom>>
readers == <<rpc, target, held, fd, link>>
vars == <<mms, refs, tasks, readers, mix>>

Stage == {"free", "live", "unmap", "exe", "drop", "gone"}
PC == {"none", "new", "run", "lock", "copy", "module", "free_pt", "kid",
       "exec", "swapped", "exiting", "dead"}
RPC == {"idle", "check", "grab", "put", "open", "reading", "cmdline", "link",
        "may", "lock", "maps"}

Alloc == {m \in Mm : stage[m] # "free"}
HasRoom == Alloc # Mm /\ Cardinality(Alloc) < mix.room
NewMm == CHOOSE m \in Mm : stage[m] = "free"
NewTask == CHOOSE c \in Task : pc[c] = "none"
NewFile == CHOOSE f \in File : fref[f] = 0

\* The task that copies an mm holds its mmap_lock for writing.
NeverLocked(m) == FALSE
MmapLocked(m) == \E t \in Task : pc[t] = "copy" /\ mm[t] = m

\* A reader of map_files has it for reading.
MmapRead(m) == \E r \in Reader : rpc[r] = "maps" /\ held[r] = m
CanWriteLock(m) == ~MmapLocked(m) /\ ~MmapRead(m)

\* signal->exec_update_lock: exec has it for writing from the change of the
\* mm to the change of the credentials, mm_access for reading.
ExecUpdating(t) == pc[t] = "swapped"
BeingChecked(t) == \E r \in Reader : rpc[r] = "check" /\ target[r] = t
Referenced(t) == \E r \in Reader : target[r] = t

AddRef(f, n) == IF f = None THEN fref ELSE [fref EXCEPT ![f] = @ + n]

(***************************************************************************)
(* Counting.                                                               *)
(***************************************************************************)
mmget(m) == users' = [users EXCEPT ![m] = @ + 1] /\ UNCHANGED stage
mmgrab(m) == count' = [count EXCEPT ![m] = @ + 1]
mmdrop(m) == count' = [count EXCEPT ![m] = @ - 1]

\* mmput and mmput_async: the last one runs __mmput or has a worker run it.
mmput(m) ==
    /\ users' = [users EXCEPT ![m] = @ - 1]
    /\ stage' = [stage EXCEPT ![m] = IF users[m] = 1 THEN "unmap" ELSE @]

\* A new mm_struct, with the fields of an old one where they are kept.
mm_init(m, secrecy, file, fmt) ==
    /\ stage' = [stage EXCEPT ![m] = "live"]
    /\ users' = [users EXCEPT ![m] = 1]
    /\ count' = [count EXCEPT ![m] = 1]
    /\ secret' = [secret EXCEPT ![m] = secrecy]
    /\ exe' = [exe EXCEPT ![m] = file]
    /\ binfmt' = [binfmt EXCEPT ![m] = fmt]
    /\ nsref' = nsref + 1

(***************************************************************************)
(* __mmput, a step for each thing it gives back, and __mmdrop.             *)
(***************************************************************************)
exit_mmap(m) ==
    /\ stage[m] = "unmap"
    /\ fref' = AddRef(exe[m], -Cardinality(vmas[m]))
    /\ vmas' = [vmas EXCEPT ![m] = {}]
    /\ stage' = [stage EXCEPT ![m] = "exe"]
    /\ UNCHANGED <<users, count, exe, binfmt, secret, modref, nsref, tasks, readers>>

drop_exe(m) ==
    /\ stage[m] = "exe"
    /\ fref' = AddRef(exe[m], -1)
    /\ exe' = [exe EXCEPT ![m] = None]
    /\ modref' = IF binfmt[m] THEN modref - 1 ELSE modref
    /\ stage' = [stage EXCEPT ![m] = "drop"]
    /\ UNCHANGED <<users, count, vmas, binfmt, secret, nsref, tasks, readers>>

mmput_drop(m) ==
    /\ stage[m] = "drop"
    /\ mmdrop(m)
    /\ stage' = [stage EXCEPT ![m] = "gone"]
    /\ UNCHANGED <<users, vmas, exe, binfmt, secret, refs, tasks, readers>>

\* __mmdrop, called by whoever drops the last mm_count, or by a worker.
free_mm(m) ==
    /\ stage[m] # "free" /\ count[m] = 0
    /\ stage' = [stage EXCEPT ![m] = "free"]
    /\ binfmt' = [binfmt EXCEPT ![m] = FALSE]
    /\ secret' = [secret EXCEPT ![m] = FALSE]
    /\ nsref' = nsref - 1
    /\ UNCHANGED <<users, count, vmas, exe, fref, modref, tasks, readers>>

(***************************************************************************)
(* copy_mm.                                                                *)
(***************************************************************************)
StartChild(t, c, l) ==
    /\ pc' = [pc EXCEPT ![t] = l, ![c] = "new"]
    /\ kid' = [kid EXCEPT ![t] = c]
    /\ priv' = [priv EXCEPT ![c] = priv[t]]

\* With CLONE_VM.
share_mm(t) ==
    /\ "share" \in mix.does /\ pc[t] = "run" /\ \E c \in Task : pc[c] = "none"
    /\ StartChild(t, NewTask, "kid")
    /\ mmget(mm[t])
    /\ mm' = [mm EXCEPT ![NewTask] = mm[t]]
    /\ UNCHANGED <<count, vmas, exe, binfmt, secret, refs, active, new, cur, oom, readers>>

\* Without: dup_mm makes an mm; memcpy has it point to the old one's format.
dup_mm(t) ==
    /\ "dup" \in mix.does /\ pc[t] = "run" /\ \E c \in Task : pc[c] = "none"
    /\ HasRoom
    /\ StartChild(t, NewTask, "lock")
    /\ mm_init(NewMm, secret[mm[t]], None, binfmt[mm[t]])
    /\ new' = [new EXCEPT ![t] = NewMm]
    /\ UNCHANGED <<vmas, fref, modref, mm, active, cur, oom, readers>>

\* dup_mmap: the old mm is locked, its program's file is shared.
dup_lock(t) ==
    /\ pc[t] = "lock" /\ CanWriteLock(mm[t])
    /\ exe' = [exe EXCEPT ![new[t]] = exe[mm[t]]]
    /\ fref' = AddRef(exe[mm[t]], 1)
    /\ cur' = [cur EXCEPT ![t] = 0]
    /\ pc' = [pc EXCEPT ![t] = "copy"]
    /\ UNCHANGED <<stage, users, count, vmas, binfmt, secret, modref, nsref,
                   mm, active, new, kid, priv, oom, readers>>

\* A fatal signal while it waits for the lock.
dup_killed(t) ==
    /\ pc[t] = "lock"
    /\ pc' = [pc EXCEPT ![t] = "free_pt"]
    /\ UNCHANGED <<mms, refs, mm, active, new, kid, cur, priv, oom, readers>>

ToCopy(t) == {v \in vmas[mm[t]] : v >= cur[t]}
NextVma(t) == CHOOSE v \in ToCopy(t) : \A w \in ToCopy(t) : v <= w

\* Where the copying goes on after v.
After(v) == v + 1

\* The new mapping is on the list before its pages are copied, so that a
\* failure from there on leaves it to exit_mmap.
dup_vma(t, l) ==
    /\ pc[t] = "copy" /\ ToCopy(t) # {} /\ NextVma(t) \notin DontCopy
    /\ l \in {"copy", "free_pt"}
    /\ vmas' = [vmas EXCEPT ![new[t]] = @ \cup {NextVma(t)}]
    /\ fref' = AddRef(exe[mm[t]], 1)
    /\ cur' = [cur EXCEPT ![t] = IF l = "copy" THEN After(NextVma(t)) ELSE 0]
    /\ pc' = [pc EXCEPT ![t] = l]
    /\ UNCHANGED <<stage, users, count, exe, binfmt, secret, modref, nsref,
                   mm, active, new, kid, priv, oom, readers>>

dup_skip(t) ==
    /\ pc[t] = "copy" /\ ToCopy(t) # {} /\ NextVma(t) \in DontCopy
    /\ cur' = [cur EXCEPT ![t] = After(NextVma(t))]
    /\ UNCHANGED <<mms, refs, pc, mm, active, new, kid, priv, oom, readers>>

\* ksm_fork, khugepaged_fork, a signal, vm_area_dup, the policy or the
\* anon_vma: the mapping is not linked and its memory given back.
dup_fails(t) ==
    /\ pc[t] = "copy"
    /\ pc' = [pc EXCEPT ![t] = "free_pt"]
    /\ cur' = [cur EXCEPT ![t] = 0]
    /\ UNCHANGED <<mms, refs, mm, active, new, kid, priv, oom, readers>>

dup_end(t) ==
    /\ pc[t] = "copy" /\ ToCopy(t) = {}
    /\ pc' = [pc EXCEPT ![t] = "module"]
    /\ cur' = [cur EXCEPT ![t] = 0]
    /\ UNCHANGED <<mms, refs, mm, active, new, kid, priv, oom, readers>>

dup_module(t) ==
    /\ pc[t] = "module"
    /\ modref' = IF binfmt[new[t]] THEN modref + 1 ELSE modref
    /\ mm' = [mm EXCEPT ![kid[t]] = new[t]]
    /\ new' = [new EXCEPT ![t] = None]
    /\ pc' = [pc EXCEPT ![t] = "kid"]
    /\ UNCHANGED <<mms, fref, nsref, active, kid, cur, priv, oom, readers>>

\* try_module_get finds the module on its way out.
dup_no_module(t) ==
    /\ pc[t] = "module" /\ binfmt[new[t]]
    /\ pc' = [pc EXCEPT ![t] = "free_pt"]
    /\ UNCHANGED <<mms, refs, mm, active, new, kid, cur, priv, oom, readers>>

\* free_pt: no module was taken, so none may be put.
KeepBinfmt(m) == binfmt
ClearBinfmt(m) == [binfmt EXCEPT ![m] = FALSE]

free_pt(t) ==
    /\ pc[t] = "free_pt"
    /\ binfmt' = ClearBinfmt(new[t])
    /\ mmput(new[t])
    /\ pc' = [pc EXCEPT ![t] = "run", ![kid[t]] = "none"]
    /\ new' = [new EXCEPT ![t] = None]
    /\ kid' = [kid EXCEPT ![t] = None]
    /\ UNCHANGED <<count, vmas, exe, secret, refs, mm, active, cur, priv, oom, readers>>

\* The rest of copy_process succeeds,
fork_done(t) ==
    /\ pc[t] = "kid"
    /\ pc' = [pc EXCEPT ![t] = "run", ![kid[t]] = "run"]
    /\ kid' = [kid EXCEPT ![t] = None]
    /\ UNCHANGED <<mms, refs, mm, active, new, cur, priv, oom, readers>>

\* or fails and comes to bad_fork_cleanup_mm.
fork_fails(t) ==
    /\ pc[t] = "kid"
    /\ mmput(mm[kid[t]])
    /\ mm' = [mm EXCEPT ![kid[t]] = None]
    /\ pc' = [pc EXCEPT ![t] = "run", ![kid[t]] = "none"]
    /\ kid' = [kid EXCEPT ![t] = None]
    /\ UNCHANGED <<count, vmas, exe, binfmt, secret, refs, active, new, cur, priv, oom, readers>>

(***************************************************************************)
(* What else happens to an mm, outside this repository: exec, mmap and     *)
(* munmap, the out-of-memory killer, exit.                                 *)
(***************************************************************************)
exec_alloc(t, suid) ==
    /\ "exec" \in mix.does /\ pc[t] = "run"
    /\ HasRoom
    /\ \E f \in File : fref[f] = 0
    /\ mm_init(NewMm, suid, NewFile, FALSE)
    /\ fref' = AddRef(NewFile, 1)
    /\ new' = [new EXCEPT ![t] = NewMm]
    /\ pc' = [pc EXCEPT ![t] = "exec"]
    /\ UNCHANGED <<vmas, modref, mm, active, kid, cur, priv, oom, readers>>

exec_fails(t) ==
    /\ pc[t] = "exec"
    /\ mmput(new[t])
    /\ new' = [new EXCEPT ![t] = None]
    /\ pc' = [pc EXCEPT ![t] = "run"]
    /\ UNCHANGED <<count, vmas, exe, binfmt, secret, refs, mm, active, kid, cur, priv, oom, readers>>

exec_mmap(t) ==
    /\ pc[t] = "exec" /\ ~BeingChecked(t)
    /\ mmput(mm[t])
    /\ mm' = [mm EXCEPT ![t] = new[t]]
    /\ new' = [new EXCEPT ![t] = None]
    /\ pc' = [pc EXCEPT ![t] = "swapped"]
    /\ UNCHANGED <<count, vmas, exe, binfmt, secret, refs, active, kid, cur, priv, oom, readers>>

exec_creds(t) ==
    /\ pc[t] = "swapped" /\ CanWriteLock(mm[t])
    /\ priv' = [priv EXCEPT ![t] = secret[mm[t]]]
    /\ binfmt' = [binfmt EXCEPT ![mm[t]] = TRUE]
    /\ modref' = modref + 1
    /\ vmas' = [vmas EXCEPT ![mm[t]] = Vma]
    /\ fref' = AddRef(exe[mm[t]], Cardinality(Vma))
    /\ pc' = [pc EXCEPT ![t] = "run"]
    /\ UNCHANGED <<stage, users, count, exe, secret, nsref, mm, active, new, kid, cur, oom, readers>>

munmap(t, v) ==
    /\ "unmap" \in mix.does /\ pc[t] = "run" /\ CanWriteLock(mm[t]) /\ v \in vmas[mm[t]]
    /\ vmas' = [vmas EXCEPT ![mm[t]] = @ \ {v}]
    /\ fref' = AddRef(exe[mm[t]], -1)
    /\ UNCHANGED <<stage, users, count, exe, binfmt, secret, modref, nsref, tasks, readers>>

mark_oom_victim(t) ==
    /\ "oom" \in mix.does /\ pc[t] \notin {"none", "new"} /\ mm[t] # None /\ oom[t] = None
    /\ oom' = [oom EXCEPT ![t] = mm[t]]
    /\ mmgrab(mm[t])
    /\ UNCHANGED <<stage, users, vmas, exe, binfmt, secret, refs,
                   pc, mm, active, new, kid, cur, priv, readers>>

\* The exiting task goes on with a borrowed active_mm.
exit_mm(t) ==
    /\ "exit" \in mix.does /\ pc[t] = "run"
    /\ mmgrab(mm[t]) /\ mmput(mm[t])
    /\ active' = [active EXCEPT ![t] = mm[t]]
    /\ mm' = [mm EXCEPT ![t] = None]
    /\ pc' = [pc EXCEPT ![t] = "exiting"]
    /\ UNCHANGED <<vmas, exe, binfmt, secret, refs, new, kid, cur, priv, oom, readers>>

switch_away(t) ==
    /\ pc[t] = "exiting"
    /\ mmdrop(active[t])
    /\ active' = [active EXCEPT ![t] = None]
    /\ pc' = [pc EXCEPT ![t] = "dead"]
    /\ UNCHANGED <<stage, users, vmas, exe, binfmt, secret, refs, mm, new, kid, cur, priv, oom, readers>>

\* __put_task_struct and free_signal_struct; a reader may have the task.
free_signal_struct(t) ==
    /\ "reap" \in mix.does /\ pc[t] = "dead" /\ ~Referenced(t)
    /\ IF oom[t] = None THEN UNCHANGED count ELSE mmdrop(oom[t])
    /\ oom' = [oom EXCEPT ![t] = None]
    /\ priv' = [priv EXCEPT ![t] = FALSE]
    /\ pc' = [pc EXCEPT ![t] = "none"]
    /\ UNCHANGED <<stage, users, vmas, exe, binfmt, secret, refs, mm, active, new, kid, cur, readers>>

(***************************************************************************)
(* /proc/<pid>/mem, environ, auxv: mm_access, then proc_mem_open.          *)
(***************************************************************************)
Visible(t) == pc[t] \notin {"none", "new"}

NoExecLock(t) == TRUE
ExecReadLock(t) == ~ExecUpdating(t)

\* The task's mm is taken under the lock; without one the file has no mm.
access_get(r, t) ==
    /\ mix.does \cap {"mem", "maps"} # {}
    /\ rpc[r] = "idle" /\ Visible(t) /\ ExecReadLock(t) /\ mm[t] # None
    /\ mmget(mm[t])
    /\ rpc' = [rpc EXCEPT ![r] = "check"]
    /\ target' = [target EXCEPT ![r] = t]
    /\ held' = [held EXCEPT ![r] = mm[t]]
    /\ UNCHANGED <<count, vmas, exe, binfmt, secret, refs, tasks, fd, link>>

\* ptrace_may_access, for an open or for map_files_d_revalidate.
access_check(r, l) ==
    /\ rpc[r] = "check" /\ (IF l = "lock" THEN "maps" ELSE "mem") \in mix.does
    /\ target' = [target EXCEPT ![r] = None]
    /\ IF priv[target[r]]
       THEN /\ mmput(held[r])
            /\ held' = [held EXCEPT ![r] = None]
            /\ rpc' = [rpc EXCEPT ![r] = "idle"]
       ELSE /\ rpc' = [rpc EXCEPT ![r] = l]
            /\ UNCHANGED <<users, stage, held>>
    /\ UNCHANGED <<count, vmas, exe, binfmt, secret, refs, tasks, fd, link>>

\* The mm_struct must not be freed,
open_grab(r) ==
    /\ rpc[r] = "grab"
    /\ mmgrab(held[r])
    /\ fd' = [fd EXCEPT ![r] = held[r]]
    /\ rpc' = [rpc EXCEPT ![r] = "put"]
    /\ UNCHANGED <<stage, users, vmas, exe, binfmt, secret, refs, tasks, target, held, link>>

\* but its memory is not pinned.
open_put(r) ==
    /\ rpc[r] = "put"
    /\ mmput(held[r])
    /\ held' = [held EXCEPT ![r] = None]
    /\ rpc' = [rpc EXCEPT ![r] = "open"]
    /\ UNCHANGED <<count, vmas, exe, binfmt, secret, refs, tasks, target, fd, link>>

\* mem_rw, environ_read: mmget_not_zero, else nothing is read.
Unasked(m) == TRUE
Reachable(m) == users[m] > 0

mem_rw(r) ==
    /\ rpc[r] = "open" /\ Reachable(fd[r])
    /\ mmget(fd[r])
    /\ held' = [held EXCEPT ![r] = fd[r]]
    /\ rpc' = [rpc EXCEPT ![r] = "reading"]
    /\ UNCHANGED <<count, vmas, exe, binfmt, secret, refs, tasks, target, fd, link>>

mem_rw_end(r) ==
    /\ rpc[r] = "reading"
    /\ mmput(held[r])
    /\ held' = [held EXCEPT ![r] = None]
    /\ rpc' = [rpc EXCEPT ![r] = "open"]
    /\ UNCHANGED <<count, vmas, exe, binfmt, secret, refs, tasks, target, fd, link>>

mem_release(r) ==
    /\ rpc[r] = "open"
    /\ mmdrop(fd[r])
    /\ fd' = [fd EXCEPT ![r] = None]
    /\ rpc' = [rpc EXCEPT ![r] = "idle"]
    /\ UNCHANGED <<stage, users, vmas, exe, binfmt, secret, refs, tasks, target, held, link>>

\* /proc/<pid>/cmdline needs no permission.
cmdline_read(r, t) ==
    /\ "cmdline" \in mix.does /\ rpc[r] = "idle" /\ Visible(t) /\ mm[t] # None
    /\ mmget(mm[t])
    /\ held' = [held EXCEPT ![r] = mm[t]]
    /\ rpc' = [rpc EXCEPT ![r] = "cmdline"]
    /\ UNCHANGED <<count, vmas, exe, binfmt, secret, refs, tasks, target, fd, link>>

\* get_mm_cmdline copies until nothing more can be read.
cmdline_spins(r) == rpc[r] = "cmdline" /\ UNCHANGED vars

cmdline_end(r) ==
    /\ rpc[r] = "cmdline"
    /\ mmput(held[r])
    /\ held' = [held EXCEPT ![r] = None]
    /\ rpc' = [rpc EXCEPT ![r] = "idle"]
    /\ UNCHANGED <<count, vmas, exe, binfmt, secret, refs, tasks, target, fd, link>>

\* /proc/<pid>/exe: get_task_exe_file
exe_link(r, t) ==
    /\ "link" \in mix.does /\ rpc[r] = "idle" /\ Visible(t) /\ mm[t] # None /\ exe[mm[t]] # None
    /\ fref' = AddRef(exe[mm[t]], 1)
    /\ link' = [link EXCEPT ![r] = exe[mm[t]]]
    /\ rpc' = [rpc EXCEPT ![r] = "link"]
    /\ UNCHANGED <<mms, modref, nsref, tasks, target, held, fd>>

exe_link_end(r) ==
    /\ rpc[r] = "link"
    /\ fref' = AddRef(link[r], -1)
    /\ link' = [link EXCEPT ![r] = None]
    /\ rpc' = [rpc EXCEPT ![r] = "idle"]
    /\ UNCHANGED <<mms, modref, nsref, tasks, target, held, fd>>

(***************************************************************************)
(* /proc/<pid>/map_files.                                                  *)
(***************************************************************************)
\* proc_map_files_lookup and _readdir ask for permission first,
maps_may(r, t) ==
    /\ "maps" \in mix.does /\ rpc[r] = "idle" /\ Visible(t) /\ ~priv[t]
    /\ rpc' = [rpc EXCEPT ![r] = "may"]
    /\ target' = [target EXCEPT ![r] = t]
    /\ UNCHANGED <<mms, refs, tasks, held, fd, link>>

\* then for the mm, which need not be the one there was.
maps_get(r) ==
    /\ rpc[r] = "may"
    /\ target' = [target EXCEPT ![r] = None]
    /\ LET m == mm[target[r]]
       IN  IF m = None
           THEN rpc' = [rpc EXCEPT ![r] = "idle"] /\ UNCHANGED <<users, stage, held>>
           ELSE /\ mmget(m)
                /\ held' = [held EXCEPT ![r] = m]
                /\ rpc' = [rpc EXCEPT ![r] = "lock"]
    /\ UNCHANGED <<count, vmas, exe, binfmt, secret, refs, tasks, fd, link>>

\* map_files_get_link, of a reader that may follow the links of any process.
maps_link(r, t) ==
    /\ "maps" \in mix.does /\ rpc[r] = "idle" /\ Visible(t) /\ mm[t] # None
    /\ mmget(mm[t])
    /\ held' = [held EXCEPT ![r] = mm[t]]
    /\ rpc' = [rpc EXCEPT ![r] = "lock"]
    /\ UNCHANGED <<count, vmas, exe, binfmt, secret, refs, tasks, target, fd, link>>

maps_lock(r) ==
    /\ rpc[r] = "lock" /\ ~MmapLocked(held[r])
    /\ rpc' = [rpc EXCEPT ![r] = "maps"]
    /\ UNCHANGED <<mms, refs, tasks, target, held, fd, link>>

\* The mappings are looked at and the lock released, or a fatal signal comes
\* while the reader waits for it.
maps_end(r) ==
    /\ rpc[r] \in {"lock", "maps"}
    /\ mmput(held[r])
    /\ held' = [held EXCEPT ![r] = None]
    /\ rpc' = [rpc EXCEPT ![r] = "idle"]
    /\ UNCHANGED <<count, vmas, exe, binfmt, secret, refs, tasks, target, fd, link>>

(***************************************************************************)
(* The specification.                                                      *)
(***************************************************************************)
FirstMm == CHOOSE m \in Mm : TRUE
FirstFile == CHOOSE f \in File : TRUE
OnlyBoot(x, y) == [t \in Task |-> IF t = Boot THEN x ELSE y]
OnlyFirst(x, y) == [m \in Mm |-> IF m = FirstMm THEN x ELSE y]

Init ==
    /\ stage = OnlyFirst("live", "free")
    /\ users = OnlyFirst(1, 0) /\ count = OnlyFirst(1, 0)
    /\ vmas = OnlyFirst(Vma, {})
    /\ exe = OnlyFirst(FirstFile, None)
    /\ binfmt = OnlyFirst(TRUE, FALSE)
    /\ secret = [m \in Mm |-> FALSE]
    /\ fref = [f \in File |-> IF f = FirstFile THEN 1 + Cardinality(Vma) ELSE 0]
    /\ modref = 1 /\ nsref = 1
    /\ pc = OnlyBoot("run", "none")
    /\ mm = OnlyBoot(FirstMm, None)
    /\ active = [t \in Task |-> None] /\ new = [t \in Task |-> None]
    /\ kid = [t \in Task |-> None] /\ cur = [t \in Task |-> 0]
    /\ priv = [t \in Task |-> FALSE] /\ oom = [t \in Task |-> None]
    /\ rpc = [r \in Reader |-> "idle"]
    /\ target = [r \in Reader |-> None] /\ held = [r \in Reader |-> None]
    /\ fd = [r \in Reader |-> None] /\ link = [r \in Reader |-> None]
    /\ mix \in Mixes

Teardown(m) == exit_mmap(m) \/ drop_exe(m) \/ mmput_drop(m) \/ free_mm(m)

\* Steps of a fork or an exec that is under way, and of an exit.
Proceed(t) ==
    \/ dup_lock(t) \/ dup_killed(t) \/ (\E l \in PC : dup_vma(t, l)) \/ dup_skip(t)
    \/ dup_fails(t) \/ dup_end(t) \/ dup_module(t) \/ dup_no_module(t)
    \/ free_pt(t) \/ fork_done(t) \/ fork_fails(t)
    \/ exec_fails(t) \/ exec_mmap(t) \/ exec_creds(t)
    \/ switch_away(t) \/ free_signal_struct(t)

Begin(t) ==
    \/ share_mm(t) \/ dup_mm(t) \/ \E suid \in BOOLEAN : exec_alloc(t, suid)
    \/ (\E v \in Vma : munmap(t, v)) \/ mark_oom_victim(t) \/ exit_mm(t)

\* Steps of a reader's system call, and the start of one.
Finish(r) ==
    \/ (\E l \in {"grab", "lock"} : access_check(r, l)) \/ open_grab(r) \/ open_put(r)
    \/ mem_rw_end(r) \/ cmdline_end(r) \/ exe_link_end(r)
    \/ maps_get(r) \/ maps_lock(r) \/ maps_end(r)

Look(r) ==
    \/ \E t \in Task : \/ access_get(r, t) \/ cmdline_read(r, t) \/ exe_link(r, t)
                       \/ maps_may(r, t) \/ maps_link(r, t)
    \/ mem_rw(r) \/ mem_release(r)

Next ==
    /\ \/ \E m \in Mm : Teardown(m)
       \/ \E t \in Task : Proceed(t) \/ Begin(t)
       \/ \E r \in Reader : Finish(r) \/ Look(r)
    /\ UNCHANGED mix

Spec == Init /\ [][Next]_vars

\* What tears an mm down, and a reader's system call, go on once begun; nobody
\* need begin anything, and a fork or an exec may take for ever.
Fairness ==
    /\ \A m \in Mm : WF_vars(Teardown(m) /\ UNCHANGED mix)
    /\ \A r \in Reader : WF_vars(Finish(r) /\ UNCHANGED mix)

FairSpec == Spec /\ Fairness

(***************************************************************************)
(* Properties.                                                             *)
(***************************************************************************)
\* Every variable has its type.
TypeOK ==
    /\ stage \in [Mm -> Stage]
    /\ users \in [Mm -> Nat] /\ count \in [Mm -> Nat]
    /\ vmas \in [Mm -> SUBSET Vma]
    /\ exe \in [Mm -> File \cup {None}]
    /\ binfmt \in [Mm -> BOOLEAN] /\ secret \in [Mm -> BOOLEAN]
    /\ fref \in [File -> Nat] /\ modref \in Nat /\ nsref \in Nat
    /\ pc \in [Task -> PC]
    /\ mm \in [Task -> Mm \cup {None}] /\ active \in [Task -> Mm \cup {None}]
    /\ new \in [Task -> Mm \cup {None}] /\ oom \in [Task -> Mm \cup {None}]
    /\ kid \in [Task -> Task \cup {None}] /\ cur \in [Task -> Nat]
    /\ priv \in [Task -> BOOLEAN]
    /\ rpc \in [Reader -> RPC]
    /\ target \in [Reader -> Task \cup {None}]
    /\ held \in [Reader -> Mm \cup {None}] /\ fd \in [Reader -> Mm \cup {None}]
    /\ link \in [Reader -> File \cup {None}]
    /\ mix \in Mixes

Num(S) == Cardinality(S)

\* Those who use the memory of m, and those who keep its mm_struct only.
UsersOf(m) ==
    Num({t \in Task : mm[t] = m}) + Num({t \in Task : new[t] = m})
        + Num({r \in Reader : held[r] = m})
KeepersOf(m) ==
    Num({t \in Task : active[t] = m}) + Num({t \in Task : oom[t] = m})
        + Num({r \in Reader : fd[r] = m})

\* An mm that points to its format's module, and has taken it.
HasModule(m) == /\ binfmt[m] /\ stage[m] \in {"live", "unmap", "exe"}
                /\ \A t \in Task : new[t] # m

Mapping(f) == {k \in Mm \X Vma : exe[k[1]] = f /\ k[2] \in vmas[k[1]]}

\* Every reference count is exact in every state, also when dup_mm stops in the
\* middle.  mm_users counts the tasks and readers that use an mm, mm_count those
\* that keep its mm_struct, with one for all users together; a program's file is
\* referred to by the mm_structs that run it, by their mappings and by readers
\* of the link exe, the format's module by the mms that took it, and the
\* namespace by every mm_struct.
MmCounted ==
    /\ TypeOK
    /\ \A m \in Mm :
         /\ users[m] = UsersOf(m)
         /\ count[m] = KeepersOf(m) + (IF stage[m] \in {"free", "gone"} THEN 0 ELSE 1)
    /\ \A f \in File :
         fref[f] = Num({m \in Mm : exe[m] = f}) + Num(Mapping(f))
                   + Num({r \in Reader : link[r] = f})
    /\ modref = Num({m \in Mm : HasModule(m)})
    /\ nsref = Num(Alloc)

\* Nobody who has an mm in mm_users ever sees it being torn down, and nobody
\* who has it in mm_count, or whose memory is being torn down, sees it freed.
MmSafe ==
    \A m \in Mm : /\ UsersOf(m) > 0 => stage[m] = "live"
                  /\ KeepersOf(m) > 0 => stage[m] # "free"

\* A fork copies the mappings the parent has while it holds the lock, except
\* those marked VM_DONTCOPY, although other tasks share and change its mm.
CopyIsSnapshot ==
    \A t \in Task : pc[t] = "copy" =>
        vmas[new[t]] = {v \in vmas[mm[t]] : v < cur[t]} \ DontCopy

\* A reader without privileges never gets the memory of a privileged program
\* as mem, environ or auxv, also if it opens them while the program is starting.
AccessHonoured == \A r \in Reader : fd[r] # None => ~secret[fd[r]]

\* The mappings stay what they are while somebody goes through them under the
\* lock, whatever the tasks that share the mm, and their exec and exit, do: a
\* fork copies them as they are (dup_mmap), and a reader of map_files lists them
\* as they are (proc_map_files_readdir).
MappingsStable ==
    [][/\ CopyIsSnapshot'
       /\ \A r \in Reader : rpc[r] = "maps" => vmas'[held[r]] = vmas[held[r]]]_vars

\* No task has m.
Abandoned(m) == \A t \in Task : mm[t] # m /\ new[t] # m

\* The memory of processes that are gone is given back although a file mem or
\* environ of theirs stays open, unless somebody is reading from it.
MemoryReturned ==
    \A m \in Mm :
        Abandoned(m) ~> vmas[m] = {} \/ \E r \in Reader : rpc[r] = "reading" /\ held[r] = m

=============================================================================
