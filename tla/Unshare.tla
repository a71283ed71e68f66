------------------------------ MODULE Unshare -------------------------------
(***************************************************************************)
(* unshare(2), and the unsharing of descriptors by execve (kernel/fork.c:  *)
(* ksys_unshare, unshare_fs, unshare_fd, check_unshare_flags,              *)
(* unshare_files), by tasks that share fs_structs and files_structs, while *)
(* others are cloned and exit, and while                                   *)
(* /proc/<pid>/cwd and root are read (fs/proc/base.c).                     *)
(***************************************************************************)
EXTENDS Integers, FiniteSets

CONSTANTS
    Task, Reader,
    Fs, Files,    \* fs_structs and files_structs, by address
    Boot,         \* the task that runs at first
    None,
    Workloads     \* what may go on in a behaviour, see Workload
Known == {"THREAD", "FS", "NEWNS", "SIGHAND", "VM", "FILES", "SYSVSEM",
          "NEWIPC", "NEWUSER", "NEWPID"}

\* The tasks there can be, the flags unshare is called with, the flags tasks
\* are cloned with, and who reads, if anybody.
Workload == [tasks : SUBSET Task, requests : SUBSET SUBSET (Known \cup {"UNKNOWN"}),
             clones : SUBSET SUBSET {"THREAD", "SIGHAND", "VM", "FS", "FILES"},
             exec : BOOLEAN, readers : SUBSET Reader]

ASSUME UnshareAssumption ==
    /\ Boot \in Task /\ Task \cap Reader = {}
    /\ None \notin Task \cup Fs \cup Files \cup Reader
    /\ IsFiniteSet(Task) /\ Fs # {} /\ Files # {}
    /\ Fs \subseteq Nat /\ Files \subseteq Nat
    /\ Workloads \subseteq Workload

VARIABLES
    load,         \* the workload
    alive,        \* tasks that run
    group,        \* task_struct.group_leader
    sighand, mm,  \* whose sighand_struct and mm_struct a task uses
    fs, files,    \* task_struct.fs and files
    users,        \* fs_struct.users (0: free)
    count,        \* files_struct.count (0: free)
    changed,      \* what else the call has replaced: cred, nsproxy, undo list
    tlock,        \* who holds task_lock
    pc,           \* where a task or a reader is
    req,          \* the flags of an unshare
    new,          \* its locals new_fs, new_fd, new_cred, new_nsproxy
    err,          \* it has failed
    was,          \* history: the task's fs and files when it began
    link          \* a reader's task and the fs_struct it has found there
ids == <<alive, group, sighand, mm>>
objs == <<users, count>>
own == <<fs, files, changed>>
call == <<req, new, err, was>>
vars == <<load, ids, objs, own, call, link, tlock, pc>>

NoNew == [fs |-> None, fd |-> None, cred |-> FALSE, ns |-> FALSE]
Context(t) == <<fs[t], files[t]>>

Goto(x, l) == pc' = [pc EXCEPT ![x] = l]
Fail(t, l) == Goto(t, l) /\ err' = [err EXCEPT ![t] = TRUE]

\* Allocation takes the lowest address.  An fs_struct without users may still
\* wait to be freed.
Lowest(S) == {f \in S : \A g \in S : f <= g}
FreeFs == Lowest({f \in Fs : users[f] = 0 /\ \A t \in Task : new[t].fs # f})
FreeFiles == Lowest({f \in Files : count[f] = 0})

(***************************************************************************)
(* What is asked for, and what that implies.                               *)
(***************************************************************************)
OnlyAsked(f) == f
Implied(f) ==
    LET u == f \cup (IF "NEWUSER" \in f THEN {"THREAD", "FS"} ELSE {})
        v == u \cup (IF "VM" \in u THEN {"SIGHAND"} ELSE {})
        s == v \cup (IF "SIGHAND" \in v THEN {"THREAD"} ELSE {})
    IN  s \cup (IF "NEWNS" \in s THEN {"FS"} ELSE {})

thread_group_empty(t) == \A u \in alive \ {t} : group[u] # group[t]
SighandAlone(t) == \A u \in alive \ {t} : sighand[u] # sighand[t]
current_is_single_threaded(t) == thread_group_empty(t) /\ \A u \in alive \ {t} : mm[u] # mm[t]

check_unshare_flags(t, f) ==
    /\ f \subseteq Known
    /\ f \cap {"THREAD", "SIGHAND", "VM"} # {} => thread_group_empty(t)
    /\ f \cap {"SIGHAND", "VM"} # {} => SighandAlone(t)
    /\ "VM" \in f => current_is_single_threaded(t)

Begin(t, f) ==
    /\ t \in alive /\ pc[t] = "user"
    /\ req' = [req EXCEPT ![t] = Implied(f)]
    /\ was' = [was EXCEPT ![t] = Context(t)]
    /\ IF check_unshare_flags(t, Implied(f))
       THEN Goto(t, "fs") /\ UNCHANGED err
       ELSE Fail(t, "ret")
    /\ UNCHANGED <<ids, objs, own, new, link, tlock>>

(***************************************************************************)
(* The copies, made one after the other before anything is changed.        *)
(***************************************************************************)
FsShared(f) == users[f] > 1

\* unshare_fs: users is read without a lock.
unshare_fs(t) ==
    /\ pc[t] = "fs"
    /\ \/ /\ ~("FS" \in req[t] /\ FsShared(fs[t]))
          /\ Goto(t, "fd") /\ UNCHANGED <<users, new, err>>
       \/ /\ "FS" \in req[t] /\ FsShared(fs[t])
          /\ \/ \E f \in FreeFs :
                  /\ users' = [users EXCEPT ![f] = 1]
                  /\ new' = [new EXCEPT ![t].fs = f]
                  /\ Goto(t, "fd") /\ UNCHANGED err
             \/ Fail(t, "ret") /\ UNCHANGED <<users, new>>
    /\ UNCHANGED <<ids, count, own, req, was, link, tlock>>

\* unshare_fd
unshare_fd(t) ==
    /\ pc[t] \in {"fd", "exec_fd"}
    /\ \/ /\ ~("FILES" \in req[t] /\ count[files[t]] > 1)
          /\ Goto(t, IF pc[t] = "fd" THEN "ns" ELSE "ret")
          /\ UNCHANGED <<count, new, err>>
       \/ /\ "FILES" \in req[t] /\ count[files[t]] > 1
          /\ \/ \E f \in FreeFiles :
                  /\ count' = [count EXCEPT ![f] = 1]
                  /\ new' = [new EXCEPT ![t].fd = f]
                  /\ Goto(t, IF pc[t] = "fd" THEN "ns" ELSE "exec_swap")
                  /\ UNCHANGED err
             \/ Fail(t, IF pc[t] = "fd" THEN "put_fs" ELSE "ret") /\ UNCHANGED <<count, new>>
    /\ UNCHANGED <<ids, users, own, req, was, link, tlock>>

WantsNs(t) == req[t] \cap {"NEWNS", "NEWIPC", "NEWPID"} # {}
DropsSem(t) == req[t] \cap {"NEWIPC", "SYSVSEM"} # {}

\* unshare_userns, unshare_nsproxy_namespaces and set_cred_ucounts, each of
\* which may fail; new_cred goes again if one of the later ones does.
Namespaces(t) ==
    LET n == [new[t] EXCEPT !.cred = "NEWUSER" \in req[t], !.ns = WantsNs(t)] IN
    /\ pc[t] = "ns"
    /\ \/ /\ new' = [new EXCEPT ![t] = n]
          /\ Goto(t, IF n # NoNew \/ DropsSem(t) THEN "switch" ELSE "put_fd")
          /\ UNCHANGED err
       \/ (n.cred \/ n.ns) /\ Fail(t, "put_fd") /\ UNCHANGED new
    /\ UNCHANGED <<ids, objs, own, req, was, link, tlock>>

(***************************************************************************)
(* The switch.                                                             *)
(***************************************************************************)
AlwaysOld(f) == f
OldIfLast(f) == IF users[f] = 1 THEN f ELSE None

\* exit_sem and switch_task_namespaces; under task_lock current->fs and
\* current->files, where there are new ones; then commit_creds.  The old
\* fs_struct is left to who brings its users to 0.
Switch(t) ==
    LET n == new[t] IN
    /\ pc[t] = "switch" /\ tlock[t] = None
    /\ IF n.fs = None THEN UNCHANGED <<fs, users>>
       ELSE /\ fs' = [fs EXCEPT ![t] = n.fs]
            /\ users' = [users EXCEPT ![fs[t]] = @ - 1]
    /\ files' = [files EXCEPT ![t] = IF n.fd = None THEN @ ELSE n.fd]
    /\ new' = [new EXCEPT ![t] = [NoNew EXCEPT
                  !.fs = IF n.fs = None THEN None ELSE OldIfLast(fs[t]),
                  !.fd = IF n.fd = None THEN None ELSE files[t]]]
    /\ changed' = [changed EXCEPT ![t] = (IF DropsSem(t) THEN {"undo"} ELSE {})
                                        \cup (IF n.ns THEN {"nsproxy"} ELSE {})
                                        \cup (IF n.cred THEN {"cred"} ELSE {})]
    /\ Goto(t, "put_fd")
    /\ UNCHANGED <<ids, count, req, err, was, link, tlock>>

(***************************************************************************)
(* The labels at the end, which a success runs through as well.            *)
(***************************************************************************)
put_files_struct(f) == IF f = None THEN count ELSE [count EXCEPT ![f] = @ - 1]

PutFd(t) ==
    /\ pc[t] = "put_fd"
    /\ count' = put_files_struct(new[t].fd)
    /\ new' = [new EXCEPT ![t].fd = None]
    /\ Goto(t, "put_fs")
    /\ UNCHANGED <<ids, users, own, req, err, was, link, tlock>>

\* free_fs_struct frees whatever the count says.
FreeNewFs(t) ==
    /\ pc[t] = "put_fs"
    /\ users' = IF new[t].fs = None THEN users ELSE [users EXCEPT ![new[t].fs] = 0]
    /\ new' = [new EXCEPT ![t].fs = None]
    /\ Goto(t, "ret")
    /\ UNCHANGED <<ids, count, own, req, err, was, link, tlock>>

Return(t) ==
    /\ pc[t] = "ret"
    /\ Goto(t, "user")
    /\ req' = [req EXCEPT ![t] = {}]
    /\ err' = [err EXCEPT ![t] = FALSE]
    /\ was' = [was EXCEPT ![t] = <<>>]
    /\ changed' = [changed EXCEPT ![t] = {}]
    /\ UNCHANGED <<ids, objs, fs, files, new, link, tlock>>

\* unshare_files, from execve.
unshare_files(t) ==
    /\ t \in alive /\ load.exec /\ pc[t] = "user"
    /\ req' = [req EXCEPT ![t] = {"FILES"}]
    /\ was' = [was EXCEPT ![t] = Context(t)]
    /\ Goto(t, "exec_fd")
    /\ UNCHANGED <<ids, objs, own, new, err, link, tlock>>

\* task->files = copy under task_lock, then put_files_struct(old).
ExecSwap(t) ==
    /\ pc[t] = "exec_swap" /\ tlock[t] = None
    /\ files' = [files EXCEPT ![t] = new[t].fd]
    /\ count' = put_files_struct(files[t])
    /\ new' = [new EXCEPT ![t].fd = None]
    /\ Goto(t, "ret")
    /\ UNCHANGED <<ids, users, fs, changed, req, err, was, link, tlock>>

(***************************************************************************)
(* What the tasks do besides.                                              *)
(***************************************************************************)
\* clone: copy_fs, copy_files, copy_sighand and copy_mm share or copy.
Clone(p, t, f) ==
    /\ p \in alive /\ pc[p] = "user" /\ t \in load.tasks \ alive
    /\ alive' = alive \cup {t}
    /\ group' = [group EXCEPT ![t] = IF "THREAD" \in f THEN group[p] ELSE t]
    /\ sighand' = [sighand EXCEPT ![t] = IF "SIGHAND" \in f THEN sighand[p] ELSE t]
    /\ mm' = [mm EXCEPT ![t] = IF "VM" \in f THEN mm[p] ELSE t]
    /\ \A u \in alive : {group[u], sighand[u], mm[u]} \cap {t} = {}
    /\ IF "FS" \in f
       THEN /\ fs' = [fs EXCEPT ![t] = fs[p]]
            /\ users' = [users EXCEPT ![fs[p]] = @ + 1]
       ELSE \E g \in FreeFs : /\ fs' = [fs EXCEPT ![t] = g]
                              /\ users' = [users EXCEPT ![g] = 1]
    /\ IF "FILES" \in f
       THEN /\ files' = [files EXCEPT ![t] = files[p]]
            /\ count' = [count EXCEPT ![files[p]] = @ + 1]
       ELSE \E g \in FreeFiles : /\ files' = [files EXCEPT ![t] = g]
                                 /\ count' = [count EXCEPT ![g] = 1]
    /\ UNCHANGED <<changed, call, link, tlock, pc>>

\* exit_files and exit_fs, which take task_lock.
Exit(t) ==
    /\ t \in alive \ {Boot} /\ pc[t] = "user" /\ tlock[t] = None
    /\ alive' = alive \ {t}
    /\ fs' = [fs EXCEPT ![t] = None] /\ files' = [files EXCEPT ![t] = None]
    /\ users' = [users EXCEPT ![fs[t]] = @ - 1]
    /\ count' = [count EXCEPT ![files[t]] = @ - 1]
    /\ group' = [group EXCEPT ![t] = t]
    /\ sighand' = [sighand EXCEPT ![t] = t] /\ mm' = [mm EXCEPT ![t] = t]
    /\ UNCHANGED <<changed, call, link, tlock, pc>>

(***************************************************************************)
(* Readers of /proc/<pid>/cwd; root is read the same way.  One that finds  *)
(* a zombie, which has no fs_struct, changes nothing and is no step.       *)
(***************************************************************************)
LooksUnlocked(r, t) == tlock
LockTask(r, t) == [tlock EXCEPT ![t] = r]

LinkFind(r, t) ==
    /\ pc[r] = "idle" /\ r \in load.readers /\ t \in alive /\ tlock[t] = None
    /\ tlock' = LockTask(r, t)
    /\ link' = [link EXCEPT ![r] = [task |-> t, fs |-> fs[t]]]
    /\ Goto(r, "get")
    /\ UNCHANGED <<ids, objs, own, call>>

\* get_fs_pwd, then task_unlock.
proc_cwd_link(r) ==
    /\ pc[r] = "get"
    /\ tlock' = [tlock EXCEPT ![link[r].task] = IF @ = r THEN None ELSE @]
    /\ Goto(r, "idle")
    /\ link' = [link EXCEPT ![r] = [task |-> None, fs |-> None]]
    /\ UNCHANGED <<ids, objs, own, call>>

(***************************************************************************)
(* The specification.                                                      *)
(***************************************************************************)
Init ==
    /\ load \in Workloads
    /\ alive = {Boot}
    /\ group = [t \in Task |-> t] /\ sighand = [t \in Task |-> t] /\ mm = [t \in Task |-> t]
    /\ \E f \in Lowest(Fs), g \in Lowest(Files) :
         /\ fs = [t \in Task |-> IF t = Boot THEN f ELSE None]
         /\ files = [t \in Task |-> IF t = Boot THEN g ELSE None]
         /\ users = [h \in Fs |-> IF h = f THEN 1 ELSE 0]
         /\ count = [h \in Files |-> IF h = g THEN 1 ELSE 0]
    /\ changed = [t \in Task |-> {}]
    /\ tlock = [t \in Task |-> None]
    /\ pc = [x \in Task \cup Reader |-> IF x \in Task THEN "user" ELSE "idle"]
    /\ req = [t \in Task |-> {}] /\ new = [t \in Task |-> NoNew]
    /\ err = [t \in Task |-> FALSE] /\ was = [t \in Task |-> <<>>]
    /\ link = [r \in Reader |-> [task |-> None, fs |-> None]]

Step(t) ==
    \/ \E f \in load.requests : Begin(t, f)
    \/ unshare_fs(t) \/ unshare_fd(t) \/ Namespaces(t) \/ Switch(t)
    \/ PutFd(t) \/ FreeNewFs(t) \/ Return(t)
    \/ unshare_files(t) \/ ExecSwap(t)
    \/ Exit(t)

Next ==
    /\ \/ \E t \in Task : Step(t)
       \/ \E p, t \in Task, f \in load.clones : Clone(p, t, f)
       \/ \E r \in Reader : proc_cwd_link(r) \/ \E t \in Task : LinkFind(r, t)
    /\ UNCHANGED load

Spec == Init /\ [][Next]_vars

(***************************************************************************)
(* Properties.                                                             *)
(***************************************************************************)
\* Every variable has its type.
TypeOK ==
    /\ load \in Workloads /\ alive \subseteq Task
    /\ group \in [Task -> Task] /\ sighand \in [Task -> Task] /\ mm \in [Task -> Task]
    /\ fs \in [Task -> Fs \cup {None}] /\ files \in [Task -> Files \cup {None}]
    /\ users \in [Fs -> 0 .. Cardinality(Task) + 1]
    /\ count \in [Files -> 0 .. Cardinality(Task) + 1]
    /\ tlock \in [Task -> Task \cup Reader \cup {None}]

\* The users of an fs_struct and the count of a files_struct are the tasks
\* that have it, plus the unshare that has just copied it, or has brought it
\* to 0 users and is to free it: nothing leaks and nothing in use is freed,
\* whatever order sharers unshare, clone and exit in and whichever copy fails.
CountsExact ==
    /\ TypeOK
    /\ \A f \in Fs :
         users[f] = Cardinality({t \in alive : fs[t] = f})
                    + Cardinality({t \in alive : new[t].fs = f
                                     /\ (pc[t] \in {"fd", "ns", "switch"} \/ err[t])})
    /\ \A f \in Files :
         count[f] = Cardinality({t \in alive : files[t] = f})
                    + Cardinality({t \in alive : new[t].fd = f})

\* A reader of /proc/<pid>/cwd reads an fs_struct that is allocated: task_lock
\* covers the time from finding it to using it.
LinkReadsLive ==
    \A r \in Reader : pc[r] = "get" /\ link[r].fs # None =>
        \E t \in alive : fs[t] = link[r].fs

\* An unshare that fails leaves the caller with everything it had, directory,
\* descriptors, credentials, namespaces and semaphore undos, and one that
\* succeeds leaves it alone with what it asked to unshare, and with a memory,
\* signal handlers and a thread group of its own where it asked for these.
UnshareKeepsPromise ==
    \A t \in Task : pc[t] = "ret" =>
        IF err[t] THEN Context(t) = was[t] /\ changed[t] = {}
        ELSE /\ "FS" \in req[t] => users[fs[t]] = 1
             /\ "FILES" \in req[t] => count[files[t]] = 1
             /\ "NEWUSER" \in req[t] => "cred" \in changed[t]
             /\ WantsNs(t) => "nsproxy" \in changed[t]
             /\ DropsSem(t) => "undo" \in changed[t]
             /\ req[t] \cap {"NEWUSER", "THREAD"} # {} => thread_group_empty(t)
             /\ "SIGHAND" \in req[t] => SighandAlone(t)
             /\ "VM" \in req[t] => \A u \in alive \ {t} : mm[u] # mm[t]
=============================================================================
