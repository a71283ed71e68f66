---------------------------- MODULE UnshareProofs ---------------------------
(***************************************************************************)
(* Theorems about Unshare, for any number of tasks, readers, fs_structs    *)
(* and files_structs and any workload.                                     *)
(***************************************************************************)
EXTENDS Unshare, FiniteSetTheorems, TLAPS

TaskPc == {"user", "fs", "fd", "exec_fd", "exec_swap", "ns", "switch", "put_fd", "put_fs", "ret"}
ReaderPc == {"idle", "get"}
NewRec == [fs : Fs \cup {None}, fd : Files \cup {None}, cred : BOOLEAN, ns : BOOLEAN]
LinkRec == [task : Task \cup {None}, fs : Fs \cup {None}]

\* Every variable has its type.
Shapes ==
    /\ load \in Workloads /\ alive \subseteq Task
    /\ group \in [Task -> Task] /\ sighand \in [Task -> Task] /\ mm \in [Task -> Task]
    /\ fs \in [Task -> Fs \cup {None}] /\ files \in [Task -> Files \cup {None}]
    /\ users \in [Fs -> Nat] /\ count \in [Files -> Nat]
    /\ changed \in [Task -> SUBSET {"cred", "nsproxy", "undo"}]
    /\ tlock \in [Task -> Task \cup Reader \cup {None}]
    /\ pc \in [Task \cup Reader -> TaskPc \cup ReaderPc]
    /\ \A t \in Task : pc[t] \in TaskPc
    /\ req \in [Task -> SUBSET (Known \cup {"UNKNOWN"})] /\ new \in [Task -> NewRec]
    /\ err \in [Task -> BOOLEAN] /\ DOMAIN was = Task
    /\ link \in [Reader -> LinkRec]

\* The unshare of t has a copy of an fs_struct; otherwise, at the end of the
\* call, what it has is an old one that nobody uses.
Copying(t) == pc[t] \in {"fd", "ns", "switch"} \/ err[t]

HoldFs(f) == {t \in alive : fs[t] = f}
CopyFs(f) == {t \in alive : new[t].fs = f /\ (pc[t] \in {"fd", "ns", "switch"} \/ err[t])}
HoldFd(f) == {t \in alive : files[t] = f}
CopyFd(f) == {t \in alive : new[t].fd = f}

Counts ==
    /\ \A f \in Fs : users[f] = Cardinality(HoldFs(f)) + Cardinality(CopyFs(f))
    /\ \A f \in Files : count[f] = Cardinality(HoldFd(f)) + Cardinality(CopyFd(f))

\* What an unshare has copied is its own, and what it is to free nobody has; it
\* is alone with what it found unshared or has put in place.
FsOk(t) ==
    /\ new[t].fs # None => users[new[t].fs] = IF Copying(t) THEN 1 ELSE 0
    /\ "FS" \in req[t] /\ ~err[t] =>
         /\ pc[t] \in {"fd", "ns", "switch"} /\ new[t].fs = None => users[fs[t]] = 1
         /\ pc[t] \in {"put_fd", "put_fs", "ret"} => users[fs[t]] = 1
FdOk(t) ==
    /\ new[t].fd # None /\ pc[t] \in {"ns", "switch", "exec_swap"} => count[new[t].fd] = 1
    /\ "FILES" \in req[t] /\ ~err[t] =>
         /\ pc[t] \in {"ns", "switch"} /\ new[t].fd = None => count[files[t]] = 1
         /\ pc[t] \in {"put_fd", "put_fs", "ret"} => count[files[t]] = 1

\* Where a task is in its call tells what it has copied and what it has changed.
CallOk(t) ==
    /\ t \notin alive => pc[t] = "user"
    /\ t \in alive <=> fs[t] # None
    /\ t \in alive <=> files[t] # None
    /\ pc[t] = "user" => new[t] = NoNew /\ ~err[t] /\ changed[t] = {}
    /\ err[t] => pc[t] \in {"put_fd", "put_fs", "ret"}
    /\ (pc[t] \in {"fs", "fd", "ns", "switch", "exec_fd", "exec_swap"} \/ err[t]) =>
         Context(t) = was[t] /\ changed[t] = {}
    /\ new[t].fs # None => pc[t] \in {"fd", "ns", "switch", "put_fd", "put_fs"}
    /\ new[t].fd # None => pc[t] \in {"ns", "switch", "put_fd", "exec_swap"}
    /\ new[t].fd # None => new[t].fd # files[t]
    /\ pc[t] = "exec_swap" => new[t].fd # None
    /\ pc[t] \in {"exec_fd", "exec_swap"} => req[t] = {"FILES"}
    /\ pc[t] = "switch" => /\ new[t].cred = ("NEWUSER" \in req[t])
                           /\ new[t].ns = WantsNs(t)
    /\ pc[t] # "switch" => new[t].cred = FALSE /\ new[t].ns = FALSE
    /\ pc[t] \in {"put_fd", "put_fs", "ret"} /\ ~err[t] =>
         /\ "NEWUSER" \in req[t] => "cred" \in changed[t]
         /\ WantsNs(t) => "nsproxy" \in changed[t]
         /\ DropsSem(t) => "undo" \in changed[t]

\* What check_unshare_flags has found stays true: nobody joins the caller.
AloneOk(t) ==
    pc[t] # "user" /\ ~err[t] => /\ check_unshare_flags(t, req[t])
                                 /\ "NEWUSER" \in req[t] => "THREAD" \in req[t]

\* A reader that has found an fs_struct has locked its task.
LinkOk(r) ==
    pc[r] = "get" => /\ link[r].task \in alive /\ tlock[link[r].task] = r
                     /\ link[r].fs = fs[link[r].task]

UnshareInv ==
    /\ Shapes /\ Counts
    /\ \A t \in Task : FsOk(t)
    /\ \A t \in Task : FdOk(t)
    /\ \A t \in Task : CallOk(t)
    /\ \A t \in Task : AloneOk(t)
    /\ \A r \in Reader : LinkOk(r)

(***************************************************************************)
(* Counting.                                                               *)
(***************************************************************************)
\* Two sets that differ in t at most.
LEMMA Toggle ==
    ASSUME NEW S, NEW R, NEW t, IsFiniteSet(S), \A u : u # t => (u \in R <=> u \in S)
    PROVE  /\ IsFiniteSet(R) /\ Cardinality(R) \in Nat /\ Cardinality(S) \in Nat
           /\ Cardinality(R) = Cardinality(S) + (IF t \in R THEN 1 ELSE 0)
                                              - (IF t \in S THEN 1 ELSE 0)
<1>0. Cardinality(S) \in Nat
  BY FS_CardinalityType
<1>1. CASE t \in R <=> t \in S
  <2>1. R = S
    BY <1>1
  <2>2. QED
    BY <1>0, <2>1
<1>2. CASE t \in R /\ t \notin S
  <2>1. R = S \cup {t}
    BY <1>2
  <2>2. QED
    BY <1>0, <1>2, <2>1, FS_AddElement
<1>3. CASE t \notin R /\ t \in S
  <2>1. R = S \ {t}
    BY <1>3
  <2>2. IsFiniteSet(R) /\ Cardinality(R) = Cardinality(S) - 1
    BY <1>3, <2>1, FS_RemoveElement
  <2>3. Cardinality(R) \in Nat
    BY <2>2, FS_CardinalityType
  <2>4. QED
    BY <1>0, <1>3, <2>2, <2>3
<1>4. QED
  BY <1>1, <1>2, <1>3

\* A step of t leaves the other tasks as they are.
Same(t) ==
    /\ alive' \subseteq Task
    /\ \A u \in Task \ {t} :
         /\ u \in alive' <=> u \in alive
         /\ fs'[u] = fs[u] /\ files'[u] = files[u] /\ new'[u] = new[u]
         /\ pc'[u] = pc[u] /\ err'[u] = err[u]

\* All who have something are tasks, of which there are finitely many.
LEMMA SetsFinite ==
    ASSUME UnshareInv, NEW f
    PROVE  /\ IsFiniteSet(HoldFs(f)) /\ IsFiniteSet(CopyFs(f))
           /\ IsFiniteSet(HoldFd(f)) /\ IsFiniteSet(CopyFd(f))
           /\ HoldFs(f) \subseteq Task /\ CopyFs(f) \subseteq Task
           /\ HoldFd(f) \subseteq Task /\ CopyFd(f) \subseteq Task
<1>1. /\ HoldFs(f) \subseteq Task /\ CopyFs(f) \subseteq Task
      /\ HoldFd(f) \subseteq Task /\ CopyFd(f) \subseteq Task
  BY DEF UnshareInv, Shapes, HoldFs, CopyFs, HoldFd, CopyFd
<1>2. QED
  BY <1>1, UnshareAssumption, FS_Subset DEF UnshareAssumption

\* The counts stay exact if a step of t changes them by what t has and had.
LEMMA RecountFs ==
    ASSUME UnshareInv, NEW t \in Task, Same(t), NEW f \in Fs,
           users'[f] = users[f] + (IF t \in HoldFs(f)' THEN 1 ELSE 0)
                                - (IF t \in HoldFs(f) THEN 1 ELSE 0)
                                + (IF t \in CopyFs(f)' THEN 1 ELSE 0)
                                - (IF t \in CopyFs(f) THEN 1 ELSE 0)
    PROVE  users'[f] = Cardinality(HoldFs(f)') + Cardinality(CopyFs(f)')
<1>1. \A u : u # t => (u \in HoldFs(f)' <=> u \in HoldFs(f))
  BY DEF Same, HoldFs, UnshareInv, Shapes
<1>2. \A u : u # t => (u \in CopyFs(f)' <=> u \in CopyFs(f))
  BY DEF Same, CopyFs, UnshareInv, Shapes
<1> DEFINE H == HoldFs(f)
           C == CopyFs(f)
           H2 == HoldFs(f)'
           C2 == CopyFs(f)'
<1>3. IsFiniteSet(H) /\ IsFiniteSet(C)
  BY SetsFinite
<1>4. users[f] = Cardinality(H) + Cardinality(C)
  BY DEF UnshareInv, Counts
<1>5. \A u : u # t => (u \in H2 <=> u \in H)
  BY <1>1
<1>6. \A u : u # t => (u \in C2 <=> u \in C)
  BY <1>2
<1>7. users'[f] = users[f] + (IF t \in H2 THEN 1 ELSE 0) - (IF t \in H THEN 1 ELSE 0)
                           + (IF t \in C2 THEN 1 ELSE 0) - (IF t \in C THEN 1 ELSE 0)
  OBVIOUS
<1> HIDE DEF H, C, H2, C2
<1>8. /\ Cardinality(H2) = Cardinality(H) + (IF t \in H2 THEN 1 ELSE 0)
                                          - (IF t \in H THEN 1 ELSE 0)
      /\ Cardinality(H2) \in Nat /\ Cardinality(H) \in Nat
  BY <1>3, <1>5, Toggle
<1>9. /\ Cardinality(C2) = Cardinality(C) + (IF t \in C2 THEN 1 ELSE 0)
                                          - (IF t \in C THEN 1 ELSE 0)
      /\ Cardinality(C2) \in Nat /\ Cardinality(C) \in Nat
  BY <1>3, <1>6, Toggle
<1>10. users'[f] = Cardinality(H2) + Cardinality(C2)
  BY <1>4, <1>7, <1>8, <1>9
<1>11. QED
  BY <1>10 DEF H2, C2

\* The same for the files_struct f.
LEMMA RecountFd ==
    ASSUME UnshareInv, NEW t \in Task, Same(t), NEW f \in Files,
           count'[f] = count[f] + (IF t \in HoldFd(f)' THEN 1 ELSE 0)
                                - (IF t \in HoldFd(f) THEN 1 ELSE 0)
                                + (IF t \in CopyFd(f)' THEN 1 ELSE 0)
                                - (IF t \in CopyFd(f) THEN 1 ELSE 0)
    PROVE  count'[f] = Cardinality(HoldFd(f)') + Cardinality(CopyFd(f)')
<1>1. \A u : u # t => (u \in HoldFd(f)' <=> u \in HoldFd(f))
  BY DEF Same, HoldFd, UnshareInv, Shapes
<1>2. \A u : u # t => (u \in CopyFd(f)' <=> u \in CopyFd(f))
  BY DEF Same, CopyFd, UnshareInv, Shapes
<1> DEFINE H == HoldFd(f)
           C == CopyFd(f)
           H2 == HoldFd(f)'
           C2 == CopyFd(f)'
<1>3. IsFiniteSet(H) /\ IsFiniteSet(C)
  BY SetsFinite
<1>4. count[f] = Cardinality(H) + Cardinality(C)
  BY DEF UnshareInv, Counts
<1>5. \A u : u # t => (u \in H2 <=> u \in H)
  BY <1>1
<1>6. \A u : u # t => (u \in C2 <=> u \in C)
  BY <1>2
<1>7. count'[f] = count[f] + (IF t \in H2 THEN 1 ELSE 0) - (IF t \in H THEN 1 ELSE 0)
                           + (IF t \in C2 THEN 1 ELSE 0) - (IF t \in C THEN 1 ELSE 0)
  OBVIOUS
<1> HIDE DEF H, C, H2, C2
<1>8. /\ Cardinality(H2) = Cardinality(H) + (IF t \in H2 THEN 1 ELSE 0)
                                          - (IF t \in H THEN 1 ELSE 0)
      /\ Cardinality(H2) \in Nat /\ Cardinality(H) \in Nat
  BY <1>3, <1>5, Toggle
<1>9. /\ Cardinality(C2) = Cardinality(C) + (IF t \in C2 THEN 1 ELSE 0)
                                          - (IF t \in C THEN 1 ELSE 0)
      /\ Cardinality(C2) \in Nat /\ Cardinality(C) \in Nat
  BY <1>3, <1>6, Toggle
<1>10. count'[f] = Cardinality(H2) + Cardinality(C2)
  BY <1>4, <1>7, <1>8, <1>9
<1>11. QED
  BY <1>10 DEF H2, C2

\* What an exact count says of those it counts.
LEMMA CountSays ==
    ASSUME NEW H, NEW C, NEW n, IsFiniteSet(H), IsFiniteSet(C),
           n = Cardinality(H) + Cardinality(C)
    PROVE  /\ n \in Nat
           /\ n = 0 => H = {} /\ C = {}
           /\ \A t \in H : n > 0 /\ (n = 1 => H = {t} /\ C = {})
           /\ \A t \in C : n > 0 /\ (n = 1 => C = {t} /\ H = {})
<1>1. Cardinality(H) \in Nat /\ Cardinality(C) \in Nat
  BY FS_CardinalityType
<1>2. (Cardinality(H) = 0 <=> H = {}) /\ (Cardinality(C) = 0 <=> C = {})
  BY FS_EmptySet
<1>3. ASSUME NEW t \in H, Cardinality(H) = 1 PROVE H = {t}
  BY <1>3, FS_Singleton
<1>4. ASSUME NEW t \in C, Cardinality(C) = 1 PROVE C = {t}
  BY <1>4, FS_Singleton
<1>5. QED
  BY <1>1, <1>2, <1>3, <1>4

\* What users tells: 0 that nobody has f, 1 that whoever has it is alone.
LEMMA FsSays ==
    ASSUME UnshareInv, NEW f \in Fs
    PROVE  /\ users[f] \in Nat
           /\ users[f] = 0 => HoldFs(f) = {} /\ CopyFs(f) = {}
           /\ \A t \in HoldFs(f) : users[f] > 0 /\ (users[f] = 1 => HoldFs(f) = {t} /\ CopyFs(f) = {})
           /\ \A t \in CopyFs(f) : users[f] > 0 /\ (users[f] = 1 => CopyFs(f) = {t} /\ HoldFs(f) = {})
<1>1. users[f] = Cardinality(HoldFs(f)) + Cardinality(CopyFs(f))
  BY DEF UnshareInv, Counts
<1>2. QED
  BY <1>1, SetsFinite, CountSays

\* The same for count.
LEMMA FdSays ==
    ASSUME UnshareInv, NEW f \in Files
    PROVE  /\ count[f] \in Nat
           /\ count[f] = 0 => HoldFd(f) = {} /\ CopyFd(f) = {}
           /\ \A t \in HoldFd(f) : count[f] > 0 /\ (count[f] = 1 => HoldFd(f) = {t} /\ CopyFd(f) = {})
           /\ \A t \in CopyFd(f) : count[f] > 0 /\ (count[f] = 1 => CopyFd(f) = {t} /\ HoldFd(f) = {})
<1>1. count[f] = Cardinality(HoldFd(f)) + Cardinality(CopyFd(f))
  BY DEF UnshareInv, Counts
<1>2. QED
  BY <1>1, SetsFinite, CountSays

(***************************************************************************)
(* What a step of one task does to the others.                             *)
(***************************************************************************)
\* The counts a task may change: of what it has, of what it has copied, of what
\* is free.
FsTouch(t, f) ==
    \/ t \in alive /\ f = fs[t]
    \/ t \in alive /\ f = new[t].fs /\ Copying(t)
    \/ users[f] = 0 /\ \A v \in Task : new[v].fs # f
FdTouch(t, f) ==
    \/ t \in alive /\ (f = files[t] \/ f = new[t].fd)
    \/ count[f] = 0

\* They are not of what another task is alone with.
LEMMA FsUntouched ==
    ASSUME UnshareInv, NEW t \in Task, NEW u \in alive, t # u, NEW f \in Fs, FsTouch(t, f)
    PROVE  (fs[u] = f => users[f] # 1) /\ new[u].fs # f
<1>1. /\ t \in alive /\ f = fs[t] => t \in HoldFs(f)
      /\ t \in alive /\ f = new[t].fs /\ Copying(t) => t \in CopyFs(f) /\ users[f] = 1
      /\ u \in Task /\ fs[u] = f => u \in HoldFs(f)
      /\ u \in Task /\ new[u].fs = f /\ Copying(u) => u \in CopyFs(f) /\ users[f] = 1
      /\ u \in Task /\ new[u].fs = f /\ ~Copying(u) => users[f] = 0
  BY UnshareAssumption DEF HoldFs, CopyFs, Copying, UnshareInv, FsOk
<1>2. u \in Task
  BY DEF UnshareInv, Shapes
<1>3. CASE t \in alive /\ f = fs[t]
  BY <1>1, <1>2, <1>3, FsSays
<1>4. CASE t \in alive /\ f = new[t].fs /\ Copying(t)
  BY <1>1, <1>2, <1>4, FsSays
<1>5. CASE users[f] = 0 /\ \A v \in Task : new[v].fs # f
  BY <1>2, <1>5
<1>6. QED
  BY <1>3, <1>4, <1>5 DEF FsTouch

\* A files_struct that t touches and another task has, was not that task's alone.
LEMMA FdUntouched ==
    ASSUME UnshareInv, NEW t \in Task, NEW u \in alive, t # u, NEW f \in Files, FdTouch(t, f)
    PROVE  (files[u] = f \/ new[u].fd = f) => count[f] # 1
<1>1. /\ t \in alive /\ f = files[t] => t \in HoldFd(f)
      /\ t \in alive /\ f = new[t].fd => t \in CopyFd(f)
      /\ files[u] = f => u \in HoldFd(f)
      /\ new[u].fd = f => u \in CopyFd(f)
  BY DEF HoldFd, CopyFd
<1>2. QED
  BY <1>1, FdSays DEF FdTouch

\* A step that touches what t may touch leaves another task what it relies on.
LEMMA OthersOwn ==
    ASSUME UnshareInv, NEW t \in Task, NEW u \in Task \ {t},
           \A f \in Fs : users'[f] = users[f] \/ FsTouch(t, f),
           \A f \in Files : count'[f] = count[f] \/ FdTouch(t, f),
           pc'[u] = pc[u], req'[u] = req[u], new'[u] = new[u], err'[u] = err[u],
           fs'[u] = fs[u], files'[u] = files[u], u \in alive
    PROVE  FsOk(u)' /\ FdOk(u)'
<1>1. /\ fs[u] \in Fs /\ files[u] \in Files
      /\ new[u].fs # None => new[u].fs \in Fs
      /\ new[u].fd # None => new[u].fd \in Files
  BY DEF UnshareInv, Shapes, CallOk, NewRec
<1>2. new[u].fs # None => users'[new[u].fs] = users[new[u].fs]
  BY <1>1, FsUntouched
<1>3. users[fs[u]] = 1 => users'[fs[u]] = 1
  BY <1>1, FsUntouched
<1>4. FsOk(u)'
  <2>1. FsOk(u) /\ (Copying(u)' <=> Copying(u))
    BY DEF UnshareInv, Copying
  <2>2. QED
    BY <1>2, <1>3, <2>1 DEF FsOk
<1>5. new[u].fd # None /\ count[new[u].fd] = 1 => count'[new[u].fd] = 1
  BY <1>1, FdUntouched
<1>6. count[files[u]] = 1 => count'[files[u]] = 1
  BY <1>1, FdUntouched
<1>7. FdOk(u)'
  <2>1. FdOk(u)
    BY DEF UnshareInv
  <2>2. QED
    BY <1>5, <1>6, <2>1 DEF FdOk
<1>8. QED
  BY <1>4, <1>7

\* A step of the call of t.
Mine(t) ==
    /\ load' = load /\ alive' = alive /\ group' = group /\ sighand' = sighand /\ mm' = mm
    /\ link' = link /\ tlock' = tlock
    /\ \A u \in Task \ {t} :
         /\ fs'[u] = fs[u] /\ files'[u] = files[u] /\ new'[u] = new[u]
         /\ pc'[u] = pc[u] /\ err'[u] = err[u] /\ req'[u] = req[u] /\ was'[u] = was[u]
         /\ changed'[u] = changed[u]
    /\ \A r \in Reader : pc'[r] = pc[r]
    /\ fs'[t] = fs[t] \/ tlock[t] = None
    /\ \A f \in Fs : users'[f] = users[f] \/ FsTouch(t, f)
    /\ \A f \in Files : count'[f] = count[f] \/ FdTouch(t, f)

\* The counts after a step of t.
Recounted(t) ==
    /\ \A f \in Fs :
         users'[f] = users[f] + (IF t \in HoldFs(f)' THEN 1 ELSE 0)
                              - (IF t \in HoldFs(f) THEN 1 ELSE 0)
                              + (IF t \in CopyFs(f)' THEN 1 ELSE 0)
                              - (IF t \in CopyFs(f) THEN 1 ELSE 0)
    /\ \A f \in Files :
         count'[f] = count[f] + (IF t \in HoldFd(f)' THEN 1 ELSE 0)
                              - (IF t \in HoldFd(f) THEN 1 ELSE 0)
                              + (IF t \in CopyFd(f)' THEN 1 ELSE 0)
                              - (IF t \in CopyFd(f) THEN 1 ELSE 0)

\* It leaves to show what concerns t itself.
LEMMA CallStep ==
    ASSUME UnshareInv, NEW t \in Task, Mine(t), Recounted(t), Shapes',
           FsOk(t)', FdOk(t)', CallOk(t)', AloneOk(t)'
    PROVE  UnshareInv'
<1>1. Same(t)
  BY DEF Mine, Same, UnshareInv, Shapes
<1>2. Counts'
  BY <1>1, RecountFs, RecountFd DEF Counts, Recounted
<1>3. ASSUME NEW u \in Task \ {t}
      PROVE  FsOk(u)' /\ FdOk(u)' /\ CallOk(u)' /\ AloneOk(u)'
  <2>1. FsOk(u)' /\ FdOk(u)'
    <3>1. CASE u \in alive
      BY <3>1, OthersOwn DEF Mine
    <3>2. CASE u \notin alive
      BY <3>2 DEF UnshareInv, CallOk, FsOk, FdOk, Mine, NoNew
    <3>3. QED
      BY <3>1, <3>2
  <2>2. CallOk(u)'
    <3>1. CallOk(u) /\ (WantsNs(u)' <=> WantsNs(u)) /\ (DropsSem(u)' <=> DropsSem(u))
          /\ Context(u)' = Context(u)
      BY DEF UnshareInv, WantsNs, DropsSem, Context, Mine
    <3>2. WantsNs(u)' = WantsNs(u)
      BY DEF WantsNs, Mine
    <3>3. QED
      BY <3>1, <3>2 DEF CallOk, Mine
  <2>3. AloneOk(u)'
    <3>1. AloneOk(u) /\ (check_unshare_flags(u, req[u])' <=> check_unshare_flags(u, req[u]))
      BY DEF UnshareInv, check_unshare_flags, thread_group_empty, SighandAlone,
             current_is_single_threaded, Mine
    <3>2. QED
      BY <3>1 DEF AloneOk, Mine
  <2>4. QED
    BY <2>1, <2>2, <2>3
<1>4. ASSUME NEW r \in Reader PROVE LinkOk(r)'
  <2>1. LinkOk(r) /\ r # None
    BY UnshareAssumption DEF UnshareInv
  <2>2. CASE pc[r] # "get"
    BY <2>2 DEF LinkOk, Mine
  <2>3. CASE pc[r] = "get"
    <3>1. link[r].task \in Task
      BY <2>1, <2>3 DEF LinkOk, UnshareInv, Shapes
    <3>2. fs'[link[r].task] = fs[link[r].task]
      BY <2>1, <2>3, <3>1 DEF LinkOk, Mine
    <3>3. QED
      BY <2>1, <2>3, <3>2 DEF LinkOk, Mine
  <2>4. QED
    BY <2>2, <2>3
<1>5. QED
  BY <1>2, <1>3, <1>4 DEF UnshareInv

(***************************************************************************)
(* The steps of unshare.                                                   *)
(***************************************************************************)
LEMMA Constants ==
    /\ None \notin Fs /\ None \notin Files /\ None \notin Task /\ None \notin Reader
    /\ \A r \in Reader : r \notin Task
    /\ NoNew \in NewRec /\ NoNew.fs = None /\ NoNew.fd = None
    /\ NoNew.cred = FALSE /\ NoNew.ns = FALSE
BY UnshareAssumption DEF NoNew, NewRec

\* A task in a call runs, with an fs_struct and a files_struct.
LEMMA Caller ==
    ASSUME UnshareInv, NEW t \in Task, pc[t] # "user" \/ t \in alive
    PROVE  /\ t \in alive /\ fs[t] \in Fs /\ files[t] \in Files
           /\ users[fs[t]] \in Nat /\ users[fs[t]] > 0
           /\ count[files[t]] \in Nat /\ count[files[t]] > 0
           /\ new[t] \in NewRec /\ t \in Task \cup Reader /\ t \notin Reader
           /\ DOMAIN pc = Task \cup Reader /\ DOMAIN err = Task /\ DOMAIN req = Task
           /\ DOMAIN new = Task /\ DOMAIN fs = Task /\ DOMAIN files = Task
           /\ DOMAIN users = Fs /\ DOMAIN count = Files /\ DOMAIN changed = Task
           /\ FsOk(t) /\ FdOk(t) /\ CallOk(t) /\ AloneOk(t)
<1>1. t \in alive /\ fs[t] \in Fs /\ files[t] \in Files
  BY DEF UnshareInv, Shapes, CallOk
<1>2. t \in HoldFs(fs[t]) /\ t \in HoldFd(files[t])
  BY <1>1 DEF HoldFs, HoldFd
<1>3. QED
  BY <1>1, <1>2, FsSays, FdSays, Constants DEF UnshareInv, Shapes

\* Nothing is taken or given back.
LEMMA NoRecount ==
    ASSUME UnshareInv, NEW t \in Task, UNCHANGED <<alive, fs, files, users, count>>,
           \A f \in Fs : t \in CopyFs(f)' <=> t \in CopyFs(f),
           \A f \in Files : t \in CopyFd(f)' <=> t \in CopyFd(f)
    PROVE  Recounted(t)
<1>1. \A f \in Fs : t \in HoldFs(f)' <=> t \in HoldFs(f)
  BY DEF HoldFs
<1>2. \A f \in Files : t \in HoldFd(f)' <=> t \in HoldFd(f)
  BY DEF HoldFd
<1>3. (\A f \in Fs : users[f] \in Nat) /\ (\A f \in Files : count[f] \in Nat)
  BY DEF UnshareInv, Shapes
<1>4. QED
  BY <1>1, <1>2, <1>3 DEF Recounted

\* The flags that unshare is called with are flags, and so is what they imply.
LEMMA ImpliedFlags ==
    ASSUME NEW f \in SUBSET (Known \cup {"UNKNOWN"})
    PROVE  /\ Implied(f) \in SUBSET (Known \cup {"UNKNOWN"})
           /\ "NEWUSER" \in Implied(f) => "THREAD" \in Implied(f)
BY DEF Implied, Known

\* ksys_unshare checks the flags and remembers nothing else.
LEMMA BeginStep ==
    ASSUME UnshareInv, NEW t \in Task, NEW f \in load.requests, Begin(t, f), load' = load
    PROVE  UnshareInv'
<1>1. f \in SUBSET (Known \cup {"UNKNOWN"})
  BY UnshareAssumption DEF UnshareInv, Shapes, Workload
<1>2. t \in alive /\ pc[t] = "user"
  BY DEF Begin
<1>3. /\ fs[t] \in Fs /\ files[t] \in Files /\ new[t] = NoNew /\ ~err[t] /\ changed[t] = {}
  BY <1>2, Caller DEF CallOk
<1>4. PICK F : F = Implied(f)
  OBVIOUS
<1>5. /\ F \in SUBSET (Known \cup {"UNKNOWN"})
      /\ "NEWUSER" \in F => "THREAD" \in F
  BY <1>1, <1>4, ImpliedFlags
<1>6. /\ req' = [req EXCEPT ![t] = F] /\ was' = [was EXCEPT ![t] = Context(t)]
      /\ UNCHANGED <<alive, group, sighand, mm, users, count, fs, files, changed, new, link, tlock>>
  BY <1>4 DEF Begin, ids, objs, own
<1>7. \/ pc' = [pc EXCEPT ![t] = "fs"] /\ err' = err /\ check_unshare_flags(t, F)
      \/ pc' = [pc EXCEPT ![t] = "ret"] /\ err' = [err EXCEPT ![t] = TRUE]
  BY <1>4 DEF Begin, Goto, Fail
<1>8. /\ \A u \in Task \ {t} : pc'[u] = pc[u] /\ err'[u] = err[u] /\ req'[u] = req[u] /\ was'[u] = was[u]
      /\ \A r \in Reader : pc'[r] = pc[r]
      /\ \/ pc'[t] = "fs" /\ ~err'[t] /\ check_unshare_flags(t, F)
         \/ pc'[t] = "ret" /\ err'[t]
      /\ req'[t] = F /\ was'[t] = Context(t)
  BY <1>2, <1>3, <1>6, <1>7, Caller DEF UnshareInv, Shapes
<1>9. Shapes'
  <2>1. req' \in [Task -> SUBSET (Known \cup {"UNKNOWN"})]
    BY <1>5, <1>6 DEF UnshareInv, Shapes
  <2>2. pc' \in [Task \cup Reader -> TaskPc \cup ReaderPc] /\ err' \in [Task -> BOOLEAN]
        /\ DOMAIN was' = Task
    BY <1>6, <1>7 DEF UnshareInv, Shapes, TaskPc
  <2>3. \A u \in Task : pc'[u] \in TaskPc
    BY <1>8 DEF UnshareInv, Shapes, TaskPc
  <2>4. QED
    BY <1>6, <2>1, <2>2, <2>3 DEF UnshareInv, Shapes
<1>10. Mine(t)
  BY <1>6, <1>8 DEF Mine
<1>11. Recounted(t)
  <2>1. /\ \A g \in Fs : t \notin CopyFs(g) /\ t \notin CopyFs(g)'
        /\ \A g \in Files : t \in CopyFd(g)' <=> t \in CopyFd(g)
    BY <1>3, <1>6, Constants DEF CopyFs, CopyFd
  <2>2. QED
    BY <1>6, <2>1, NoRecount
<1>12. FsOk(t)' /\ FdOk(t)'
  BY <1>3, <1>6, <1>8, Constants DEF FsOk, FdOk
<1>13. CallOk(t)'
  <2>1. Context(t)' = Context(t)
    BY <1>6 DEF Context
  <2>2. QED
    BY <1>2, <1>3, <1>6, <1>8, <2>1, Constants DEF CallOk
<1>14. AloneOk(t)'
  <2>1. check_unshare_flags(t, F) => check_unshare_flags(t, F)'
    BY <1>6 DEF check_unshare_flags, thread_group_empty, SighandAlone, current_is_single_threaded
  <2>2. QED
    BY <1>5, <1>8, <2>1 DEF AloneOk
<1>15. QED
  BY <1>9, <1>10, <1>11, <1>12, <1>13, <1>14, CallStep

\* unshare_files begins an unshare of the descriptors alone.
LEMMA UnshareFilesStep ==
    ASSUME UnshareInv, NEW t \in Task, unshare_files(t), load' = load
    PROVE  UnshareInv'
<1>2. t \in alive /\ pc[t] = "user"
  BY DEF unshare_files
<1>3. /\ fs[t] \in Fs /\ files[t] \in Files /\ new[t] = NoNew /\ ~err[t] /\ changed[t] = {}
  BY <1>2, Caller DEF CallOk
<1>6. /\ req' = [req EXCEPT ![t] = {"FILES"}] /\ was' = [was EXCEPT ![t] = Context(t)]
      /\ pc' = [pc EXCEPT ![t] = "exec_fd"]
      /\ UNCHANGED <<alive, group, sighand, mm, users, count, fs, files, changed, new, err, link, tlock>>
  BY DEF unshare_files, ids, objs, own, Goto
<1>8. /\ \A u \in Task \ {t} : pc'[u] = pc[u] /\ req'[u] = req[u] /\ was'[u] = was[u]
      /\ \A r \in Reader : pc'[r] = pc[r]
      /\ pc'[t] = "exec_fd"
      /\ req'[t] = {"FILES"} /\ was'[t] = Context(t)
  BY <1>2, <1>3, <1>6, Caller DEF UnshareInv, Shapes
<1>9. Shapes'
  <2>1. req' \in [Task -> SUBSET (Known \cup {"UNKNOWN"})]
    BY <1>6 DEF UnshareInv, Shapes, Known
  <2>2. pc' \in [Task \cup Reader -> TaskPc \cup ReaderPc] /\ DOMAIN was' = Task
    BY <1>6 DEF UnshareInv, Shapes, TaskPc
  <2>3. \A u \in Task : pc'[u] \in TaskPc
    BY <1>8 DEF UnshareInv, Shapes, TaskPc
  <2>4. QED
    BY <1>6, <2>1, <2>2, <2>3 DEF UnshareInv, Shapes
<1>10. Mine(t)
  BY <1>6, <1>8 DEF Mine
<1>11. Recounted(t)
  <2>1. /\ \A g \in Fs : t \notin CopyFs(g) /\ t \notin CopyFs(g)'
        /\ \A g \in Files : t \in CopyFd(g)' <=> t \in CopyFd(g)
    BY <1>3, <1>6, Constants DEF CopyFs, CopyFd
  <2>2. QED
    BY <1>6, <2>1, NoRecount
<1>12. FsOk(t)' /\ FdOk(t)'
  BY <1>3, <1>6, <1>8, Constants DEF FsOk, FdOk
<1>13. CallOk(t)'
  <2>1. Context(t)' = Context(t)
    BY <1>6 DEF Context
  <2>2. QED
    BY <1>2, <1>3, <1>6, <1>8, <2>1, Constants DEF CallOk
<1>14. AloneOk(t)'
  <2>1. check_unshare_flags(t, {"FILES"})'
    BY DEF check_unshare_flags, Known
  <2>2. QED
    BY <1>8, <2>1 DEF AloneOk
<1>15. QED
  BY <1>9, <1>10, <1>11, <1>12, <1>13, <1>14, CallStep

\* A call that goes on stays alone where it was.
LEMMA AloneStays ==
    ASSUME UnshareInv, NEW t \in Task, pc[t] # "user", req'[t] = req[t],
           UNCHANGED <<alive, group, sighand, mm>>, err[t] => err'[t]
    PROVE  AloneOk(t)'
<1>1. check_unshare_flags(t, req[t])' <=> check_unshare_flags(t, req[t])
  BY DEF check_unshare_flags, thread_group_empty, SighandAlone, current_is_single_threaded
<1>2. AloneOk(t)
  BY DEF UnshareInv
<1>3. QED
  BY <1>1, <1>2 DEF AloneOk

\* The call of t goes on to l.
LEMMA Goes ==
    ASSUME UnshareInv, NEW t \in Task, NEW l \in TaskPc, pc' = [pc EXCEPT ![t] = l]
    PROVE  /\ pc'[t] = l /\ \A x \in Task \cup Reader : x # t => pc'[x] = pc[x]
           /\ \A u \in Task \ {t} : pc'[u] = pc[u]
           /\ \A r \in Reader : pc'[r] = pc[r]
           /\ pc' \in [Task \cup Reader -> TaskPc \cup ReaderPc]
           /\ \A u \in Task : pc'[u] \in TaskPc
<1>1. pc \in [Task \cup Reader -> TaskPc \cup ReaderPc] /\ \A u \in Task : pc[u] \in TaskPc
  BY DEF UnshareInv, Shapes
<1>2. pc'[t] = l /\ \A x \in Task \cup Reader : x # t => pc'[x] = pc[x]
  BY <1>1
<1>3. QED
  BY <1>1, <1>2, Constants

\* unshare_fs copies a shared fs_struct into a free one, or fails before anything changed.
LEMMA UnshareFsStep ==
    ASSUME UnshareInv, NEW t \in Task, unshare_fs(t), load' = load
    PROVE  UnshareInv'
<1>0. pc[t] = "fs" /\ UNCHANGED <<alive, group, sighand, mm, count, fs, files, changed, req, was, link, tlock>>
  BY DEF unshare_fs, ids, own
<1>1. /\ t \in alive /\ fs[t] \in Fs /\ files[t] \in Files
      /\ users[fs[t]] \in Nat /\ users[fs[t]] > 0
      /\ DOMAIN err = Task /\ DOMAIN new = Task /\ DOMAIN users = Fs
      /\ CallOk(t)
  BY <1>0, Caller
<1>2. new[t].fs = None /\ new[t].fd = None /\ ~err[t] /\ new[t].cred = FALSE /\ new[t].ns = FALSE
      /\ new[t] \in NewRec
  BY <1>0, <1>1, Caller DEF CallOk
<1>3. CASE ("FS" \in req[t] => users[fs[t]] = 1) /\ pc' = [pc EXCEPT ![t] = "fd"] /\ UNCHANGED <<users, new, err>>
  <2>1. pc'[t] = "fd" /\ (\A u \in Task \ {t} : pc'[u] = pc[u]) /\ (\A r \in Reader : pc'[r] = pc[r])
        /\ pc' \in [Task \cup Reader -> TaskPc \cup ReaderPc] /\ \A u \in Task : pc'[u] \in TaskPc
    BY <1>3, Goes DEF TaskPc
  <2>2. Shapes'
    BY <1>0, <1>3, <2>1 DEF UnshareInv, Shapes
  <2>3. Mine(t)
    BY <1>0, <1>3, <2>1 DEF Mine
  <2>4. Recounted(t)
    <3>1. /\ \A g \in Fs : t \notin CopyFs(g) /\ t \notin CopyFs(g)'
          /\ \A g \in Files : t \in CopyFd(g)' <=> t \in CopyFd(g)
      BY <1>0, <1>2, <1>3, Constants DEF CopyFs, CopyFd
    <3>2. QED
      BY <1>0, <1>3, <3>1, NoRecount
  <2>5. FsOk(t)' /\ FdOk(t)'
    BY <1>0, <1>2, <1>3, <2>1 DEF FsOk, FdOk
  <2>6. CallOk(t)'
    <3>1. Context(t)' = Context(t)
      BY <1>0 DEF Context
    <3>2. QED
      BY <1>0, <1>1, <1>2, <1>3, <2>1, <3>1 DEF CallOk
  <2>7. AloneOk(t)'
    BY <1>0, <1>3, AloneStays
  <2>8. QED
    BY <2>2, <2>3, <2>4, <2>5, <2>6, <2>7, CallStep
<1>4. ASSUME NEW f \in FreeFs, users' = [users EXCEPT ![f] = 1],
             new' = [new EXCEPT ![t].fs = f], pc' = [pc EXCEPT ![t] = "fd"], err' = err
      PROVE  UnshareInv'
  <2>0. f \in Fs /\ users[f] = 0 /\ \A u \in Task : new[u].fs # f
    BY DEF FreeFs, Lowest
  <2>1. pc'[t] = "fd" /\ (\A u \in Task \ {t} : pc'[u] = pc[u]) /\ (\A r \in Reader : pc'[r] = pc[r])
        /\ pc' \in [Task \cup Reader -> TaskPc \cup ReaderPc] /\ \A u \in Task : pc'[u] \in TaskPc
    BY <1>4, Goes DEF TaskPc
  <2>2. /\ \A u \in Task \ {t} : new'[u] = new[u]
        /\ new'[t].fs = f /\ new'[t].fd = None /\ new'[t].cred = FALSE /\ new'[t].ns = FALSE
        /\ new'[t] \in NewRec /\ new' \in [Task -> NewRec]
    BY <1>1, <1>2, <1>4, <2>0 DEF NewRec, UnshareInv, Shapes
  <2>3. Shapes'
    <3>1. users' \in [Fs -> Nat]
      BY <1>4 DEF UnshareInv, Shapes
    <3>2. QED
      BY <1>0, <1>4, <2>1, <2>2, <3>1 DEF UnshareInv, Shapes
  <2>4. \A g \in Fs : users'[g] = IF g = f THEN 1 ELSE users[g]
    BY <1>1, <1>4
  <2>5. Mine(t)
    BY <1>0, <1>4, <2>0, <2>1, <2>2, <2>4 DEF Mine, FsTouch
  <2>6. Recounted(t)
    <3>1. \A g \in Fs : /\ t \in HoldFs(g)' <=> t \in HoldFs(g)
                        /\ t \notin CopyFs(g)
                        /\ t \in CopyFs(g)' <=> g = f
      BY <1>0, <1>1, <1>2, <2>1, <2>2, Constants DEF HoldFs, CopyFs
    <3>2. \A g \in Files : /\ t \in HoldFd(g)' <=> t \in HoldFd(g)
                           /\ t \in CopyFd(g)' <=> t \in CopyFd(g)
      BY <1>0, <1>2, <2>2 DEF HoldFd, CopyFd
    <3>3. (\A g \in Fs : users[g] \in Nat) /\ (\A g \in Files : count[g] \in Nat)
      BY DEF UnshareInv, Shapes
    <3>4. QED
      BY <1>0, <2>0, <2>4, <3>1, <3>2, <3>3 DEF Recounted
  <2>7. FsOk(t)' /\ FdOk(t)'
    BY <1>2, <1>4, <2>0, <2>1, <2>2, <2>4, Constants DEF FsOk, FdOk, Copying
  <2>8. CallOk(t)'
    <3>1. Context(t)' = Context(t)
      BY <1>0 DEF Context
    <3>2. QED
      BY <1>0, <1>1, <1>2, <1>4, <2>1, <2>2, <3>1 DEF CallOk
  <2>9. AloneOk(t)'
    BY <1>0, <1>4, AloneStays
  <2>10. QED
    BY <2>3, <2>5, <2>6, <2>7, <2>8, <2>9, CallStep
<1>5. CASE pc' = [pc EXCEPT ![t] = "ret"] /\ err' = [err EXCEPT ![t] = TRUE] /\ UNCHANGED <<users, new>>
  <2>1. pc'[t] = "ret" /\ (\A u \in Task \ {t} : pc'[u] = pc[u]) /\ (\A r \in Reader : pc'[r] = pc[r])
        /\ pc' \in [Task \cup Reader -> TaskPc \cup ReaderPc] /\ \A u \in Task : pc'[u] \in TaskPc
    BY <1>5, Goes DEF TaskPc
  <2>2. Shapes' /\ err'[t] /\ \A u \in Task \ {t} : err'[u] = err[u]
    BY <1>0, <1>5, <2>1 DEF UnshareInv, Shapes
  <2>3. Mine(t)
    BY <1>0, <1>5, <2>1, <2>2 DEF Mine
  <2>4. Recounted(t)
    <3>1. /\ \A g \in Fs : t \notin CopyFs(g) /\ t \notin CopyFs(g)'
          /\ \A g \in Files : t \in CopyFd(g)' <=> t \in CopyFd(g)
      BY <1>0, <1>2, <1>5, Constants DEF CopyFs, CopyFd
    <3>2. QED
      BY <1>0, <1>5, <3>1, NoRecount
  <2>5. FsOk(t)' /\ FdOk(t)'
    BY <1>0, <1>2, <1>5, <2>1, <2>2 DEF FsOk, FdOk
  <2>6. CallOk(t)'
    <3>1. Context(t)' = Context(t)
      BY <1>0 DEF Context
    <3>2. QED
      BY <1>0, <1>1, <1>2, <1>5, <2>1, <2>2, <3>1 DEF CallOk
  <2>7. AloneOk(t)'
    BY <1>0, <2>2, AloneStays
  <2>8. QED
    BY <2>2, <2>3, <2>4, <2>5, <2>6, <2>7, CallStep
<1>6. QED
  BY <1>1, <1>3, <1>4, <1>5 DEF unshare_fs, FsShared, Goto, Fail

\* unshare_fd does the same with the files_struct, for unshare and for execve.
LEMMA UnshareFdStep ==
    ASSUME UnshareInv, NEW t \in Task, unshare_fd(t), load' = load
    PROVE  UnshareInv'
<1>0. pc[t] \in {"fd", "exec_fd"}
      /\ UNCHANGED <<alive, group, sighand, mm, users, fs, files, changed, req, was, link, tlock>>
  BY DEF unshare_fd, ids, own
<1>1. /\ t \in alive /\ fs[t] \in Fs /\ files[t] \in Files
      /\ count[files[t]] \in Nat /\ count[files[t]] > 0
      /\ DOMAIN err = Task /\ DOMAIN new = Task /\ DOMAIN count = Files
      /\ CallOk(t) /\ FsOk(t)
  BY <1>0, Caller
<1>2. new[t].fd = None /\ ~err[t] /\ new[t].cred = FALSE /\ new[t].ns = FALSE /\ new[t] \in NewRec
      /\ (pc[t] = "exec_fd" => new[t].fs = None /\ req[t] = {"FILES"})
  BY <1>0, <1>1, Caller DEF CallOk
<1>3. ASSUME NEW l \in {"ns", "ret"}, pc[t] = "fd" <=> l = "ns",
             "FILES" \in req[t] => count[files[t]] = 1, pc' = [pc EXCEPT ![t] = l],
             UNCHANGED <<count, new, err>>
      PROVE  UnshareInv'
  <2>1. pc'[t] = l /\ (\A u \in Task \ {t} : pc'[u] = pc[u]) /\ (\A r \in Reader : pc'[r] = pc[r])
        /\ pc' \in [Task \cup Reader -> TaskPc \cup ReaderPc] /\ \A u \in Task : pc'[u] \in TaskPc
    BY <1>3, Goes DEF TaskPc
  <2>2. Shapes'
    BY <1>0, <1>3, <2>1 DEF UnshareInv, Shapes
  <2>3. Mine(t)
    BY <1>0, <1>3, <2>1 DEF Mine
  <2>4. Recounted(t)
    <3>1. /\ \A g \in Fs : t \in CopyFs(g)' <=> t \in CopyFs(g)
          /\ \A g \in Files : t \in CopyFd(g)' <=> t \in CopyFd(g)
      BY <1>0, <1>2, <1>3, <2>1, Constants DEF CopyFs, CopyFd
    <3>2. QED
      BY <1>0, <1>3, <3>1, NoRecount
  <2>5. FsOk(t)' /\ FdOk(t)'
    BY <1>0, <1>1, <1>2, <1>3, <2>1 DEF FsOk, FdOk, Copying
  <2>6. CallOk(t)'
    <3>1. Context(t)' = Context(t) /\ (WantsNs(t)' <=> WantsNs(t)) /\ (DropsSem(t)' <=> DropsSem(t))
          /\ (pc[t] = "exec_fd" => ~WantsNs(t) /\ ~DropsSem(t))
      BY <1>0, <1>2 DEF Context, WantsNs, DropsSem
    <3>2. QED
      BY <1>0, <1>1, <1>2, <1>3, <2>1, <3>1 DEF CallOk
  <2>7. AloneOk(t)'
    BY <1>0, <1>3, AloneStays
  <2>8. QED
    BY <2>2, <2>3, <2>4, <2>5, <2>6, <2>7, CallStep
<1>4. ASSUME NEW f \in FreeFiles, NEW l \in {"ns", "exec_swap"}, pc[t] = "fd" <=> l = "ns",
             count' = [count EXCEPT ![f] = 1], new' = [new EXCEPT ![t].fd = f],
             pc' = [pc EXCEPT ![t] = l], err' = err
      PROVE  UnshareInv'
  <2>0. f \in Files /\ count[f] = 0
    BY DEF FreeFiles, Lowest
  <2>1. pc'[t] = l /\ (\A u \in Task \ {t} : pc'[u] = pc[u]) /\ (\A r \in Reader : pc'[r] = pc[r])
        /\ pc' \in [Task \cup Reader -> TaskPc \cup ReaderPc] /\ \A u \in Task : pc'[u] \in TaskPc
    BY <1>4, Goes DEF TaskPc
  <2>2. /\ \A u \in Task \ {t} : new'[u] = new[u]
        /\ new'[t].fs = new[t].fs /\ new'[t].fd = f /\ new'[t].cred = FALSE /\ new'[t].ns = FALSE
        /\ new'[t] \in NewRec /\ new' \in [Task -> NewRec]
    BY <1>1, <1>2, <1>4, <2>0 DEF NewRec, UnshareInv, Shapes
  <2>3. Shapes'
    <3>1. count' \in [Files -> Nat]
      BY <1>4 DEF UnshareInv, Shapes
    <3>2. QED
      BY <1>0, <1>4, <2>1, <2>2, <3>1 DEF UnshareInv, Shapes
  <2>4. \A g \in Files : count'[g] = IF g = f THEN 1 ELSE count[g]
    BY <1>1, <1>4
  <2>5. Mine(t)
    BY <1>0, <1>4, <2>0, <2>1, <2>2, <2>4 DEF Mine, FdTouch
  <2>6. Recounted(t)
    <3>1. \A g \in Fs : /\ t \in HoldFs(g)' <=> t \in HoldFs(g)
                        /\ t \in CopyFs(g)' <=> t \in CopyFs(g)
      BY <1>0, <1>1, <1>2, <1>4, <2>1, <2>2, Constants DEF HoldFs, CopyFs
    <3>2. \A g \in Files : /\ t \in HoldFd(g)' <=> t \in HoldFd(g)
                           /\ t \notin CopyFd(g)
                           /\ t \in CopyFd(g)' <=> g = f
      BY <1>0, <1>1, <1>2, <2>2, Constants DEF HoldFd, CopyFd
    <3>3. (\A g \in Fs : users[g] \in Nat) /\ (\A g \in Files : count[g] \in Nat)
      BY DEF UnshareInv, Shapes
    <3>4. QED
      BY <1>0, <2>0, <2>4, <3>1, <3>2, <3>3 DEF Recounted
  <2>7. FsOk(t)' /\ FdOk(t)'
    BY <1>0, <1>1, <1>2, <1>4, <2>0, <2>1, <2>2, <2>4, Constants DEF FsOk, FdOk, Copying
  <2>8. CallOk(t)'
    <3>1. Context(t)' = Context(t)
      BY <1>0 DEF Context
    <3>2. f # None /\ f # files[t] /\ files'[t] = files[t]
      BY <1>0, <1>1, <2>0, Constants
    <3>3. QED
      BY <1>0, <1>1, <1>2, <1>4, <2>1, <2>2, <3>1, <3>2 DEF CallOk
  <2>9. AloneOk(t)'
    BY <1>0, <1>4, AloneStays
  <2>10. QED
    BY <2>3, <2>5, <2>6, <2>7, <2>8, <2>9, CallStep
<1>5. ASSUME NEW l \in {"put_fs", "ret"}, pc[t] = "fd" <=> l = "put_fs",
             pc' = [pc EXCEPT ![t] = l], err' = [err EXCEPT ![t] = TRUE], UNCHANGED <<count, new>>
      PROVE  UnshareInv'
  <2>1. pc'[t] = l /\ (\A u \in Task \ {t} : pc'[u] = pc[u]) /\ (\A r \in Reader : pc'[r] = pc[r])
        /\ pc' \in [Task \cup Reader -> TaskPc \cup ReaderPc] /\ \A u \in Task : pc'[u] \in TaskPc
    BY <1>5, Goes DEF TaskPc
  <2>2. Shapes' /\ err'[t] /\ \A u \in Task \ {t} : err'[u] = err[u]
    BY <1>0, <1>5, <2>1 DEF UnshareInv, Shapes
  <2>3. Mine(t)
    BY <1>0, <1>5, <2>1, <2>2 DEF Mine
  <2>4. Recounted(t)
    <3>1. /\ \A g \in Fs : t \in CopyFs(g)' <=> t \in CopyFs(g)
          /\ \A g \in Files : t \in CopyFd(g)' <=> t \in CopyFd(g)
      BY <1>0, <1>2, <1>5, <2>2, Constants DEF CopyFs, CopyFd
    <3>2. QED
      BY <1>0, <1>5, <3>1, NoRecount
  <2>5. FsOk(t)' /\ FdOk(t)'
    BY <1>0, <1>1, <1>2, <1>5, <2>1, <2>2 DEF FsOk, FdOk, Copying
  <2>6. CallOk(t)'
    <3>1. Context(t)' = Context(t)
      BY <1>0 DEF Context
    <3>2. QED
      BY <1>0, <1>1, <1>2, <1>5, <2>1, <2>2, <3>1 DEF CallOk
  <2>7. AloneOk(t)'
    BY <1>0, <2>2, AloneStays
  <2>8. QED
    BY <2>2, <2>3, <2>4, <2>5, <2>6, <2>7, CallStep
<1>6. CASE ~("FILES" \in req[t] /\ count[files[t]] > 1) /\ UNCHANGED <<count, new, err>>
           /\ pc' = [pc EXCEPT ![t] = IF pc[t] = "fd" THEN "ns" ELSE "ret"]
  <2>1. PICK l \in {"ns", "ret"} : l = IF pc[t] = "fd" THEN "ns" ELSE "ret"
    OBVIOUS
  <2>2. ("FILES" \in req[t] => count[files[t]] = 1) /\ (pc[t] = "fd" <=> l = "ns")
    BY <1>0, <1>1, <1>6, <2>1
  <2>3. pc' = [pc EXCEPT ![t] = l] /\ UNCHANGED <<count, new, err>>
    BY <1>6, <2>1
  <2>4. QED
    BY <1>3, <2>2, <2>3
<1>7. ASSUME NEW f \in FreeFiles, count' = [count EXCEPT ![f] = 1], new' = [new EXCEPT ![t].fd = f],
             pc' = [pc EXCEPT ![t] = IF pc[t] = "fd" THEN "ns" ELSE "exec_swap"], err' = err
      PROVE  UnshareInv'
  <2>1. PICK l \in {"ns", "exec_swap"} : l = IF pc[t] = "fd" THEN "ns" ELSE "exec_swap"
    OBVIOUS
  <2>2. QED
    BY <1>0, <1>4, <1>7, <2>1
<1>8. CASE /\ pc' = [pc EXCEPT ![t] = IF pc[t] = "fd" THEN "put_fs" ELSE "ret"]
           /\ err' = [err EXCEPT ![t] = TRUE] /\ UNCHANGED <<count, new>>
  <2>1. PICK l \in {"put_fs", "ret"} : l = IF pc[t] = "fd" THEN "put_fs" ELSE "ret"
    OBVIOUS
  <2>2. QED
    BY <1>0, <1>5, <1>8, <2>1
<1>9. QED
  BY <1>6, <1>7, <1>8 DEF unshare_fd, Goto, Fail

\* The credentials and namespaces are made, or the call goes to its clean-up.
LEMMA NamespacesStep ==
    ASSUME UnshareInv, NEW t \in Task, Namespaces(t), load' = load
    PROVE  UnshareInv'
<1>0. pc[t] = "ns"
      /\ UNCHANGED <<alive, group, sighand, mm, users, count, fs, files, changed, req, was, link, tlock>>
  BY DEF Namespaces, ids, own, objs
<1>1. /\ t \in alive /\ fs[t] \in Fs /\ files[t] \in Files
      /\ DOMAIN err = Task /\ DOMAIN new = Task
      /\ CallOk(t) /\ FsOk(t) /\ FdOk(t)
  BY <1>0, Caller
<1>2. ~err[t] /\ new[t].cred = FALSE /\ new[t].ns = FALSE /\ new[t] \in NewRec
  BY <1>0, <1>1, Caller DEF CallOk
<1>a. Context(t)' = Context(t) /\ (WantsNs(t)' <=> WantsNs(t)) /\ (DropsSem(t)' <=> DropsSem(t))
      /\ WantsNs(t)' = WantsNs(t)
  BY <1>0 DEF Context, WantsNs, DropsSem
<1>b. PICK n \in NewRec : /\ n = [new[t] EXCEPT !.cred = "NEWUSER" \in req[t], !.ns = WantsNs(t)]
                          /\ n.fs = new[t].fs /\ n.fd = new[t].fd
                          /\ n.cred = ("NEWUSER" \in req[t]) /\ n.ns = WantsNs(t)
  <2>a. PICK a \in BOOLEAN : a = ("NEWUSER" \in req[t])
    <3>1. ("NEWUSER" \in req[t]) \in BOOLEAN
      OBVIOUS
    <3>2. QED
      BY <3>1, Zenon
  <2>b. PICK b \in BOOLEAN : b = WantsNs(t)
    BY Zenon DEF WantsNs
  <2>2. PICK n : n = [new[t] EXCEPT !.cred = a, !.ns = b]
    OBVIOUS
  <2>3. n \in NewRec /\ n.fs = new[t].fs /\ n.fd = new[t].fd /\ n.cred = a /\ n.ns = b
    BY <1>2, <2>2 DEF NewRec
  <2>4. n = [new[t] EXCEPT !.cred = "NEWUSER" \in req[t], !.ns = WantsNs(t)]
    BY <2>a, <2>b, <2>2, Zenon
  <2>5. QED
    BY <2>a, <2>b, <2>3, <2>4, Zenon
<1>3. ASSUME NEW l \in {"switch", "put_fd"}, l = IF n # NoNew \/ DropsSem(t) THEN "switch" ELSE "put_fd",
             new' = [new EXCEPT ![t] = n], pc' = [pc EXCEPT ![t] = l], err' = err
      PROVE  UnshareInv'
  <2>1. pc'[t] = l /\ (\A u \in Task \ {t} : pc'[u] = pc[u]) /\ (\A r \in Reader : pc'[r] = pc[r])
        /\ pc' \in [Task \cup Reader -> TaskPc \cup ReaderPc] /\ \A u \in Task : pc'[u] \in TaskPc
    BY <1>3, Goes DEF TaskPc
  <2>2. new'[t] = n /\ (\A u \in Task \ {t} : new'[u] = new[u]) /\ new' \in [Task -> NewRec]
    BY <1>1, <1>3 DEF UnshareInv, Shapes
  <2>3. Shapes'
    BY <1>0, <1>3, <2>1, <2>2 DEF UnshareInv, Shapes
  <2>4. l = "put_fd" => /\ n.fs = None /\ n.fd = None /\ n.cred = FALSE /\ n.ns = FALSE
                        /\ ~DropsSem(t)
    BY <1>3, Constants
  <2>5. Mine(t)
    BY <1>0, <1>3, <2>1, <2>2 DEF Mine
  <2>6. Recounted(t)
    <3>1. /\ \A g \in Fs : t \in CopyFs(g)' <=> t \in CopyFs(g)
          /\ \A g \in Files : t \in CopyFd(g)' <=> t \in CopyFd(g)
      BY <1>0, <1>b, <1>3, <2>1, <2>2, <2>4, Constants DEF CopyFs, CopyFd
    <3>2. QED
      BY <1>0, <1>3, <3>1, NoRecount
  <2>7. FsOk(t)' /\ FdOk(t)'
    BY <1>0, <1>1, <1>2, <1>b, <1>3, <2>1, <2>2, <2>4 DEF FsOk, FdOk, Copying
  <2>8. CallOk(t)'
    <3>1. CASE l = "switch"
      BY <1>0, <1>1, <1>2, <1>a, <1>b, <1>3, <2>1, <2>2, <3>1 DEF CallOk
    <3>2. CASE l = "put_fd"
      BY <1>0, <1>1, <1>2, <1>a, <1>b, <1>3, <2>1, <2>2, <2>4, <3>2 DEF CallOk
    <3>3. QED
      BY <3>1, <3>2
  <2>9. AloneOk(t)'
    BY <1>0, <1>3, AloneStays
  <2>10. QED
    BY <2>3, <2>5, <2>6, <2>7, <2>8, <2>9, CallStep
<1>5. CASE pc' = [pc EXCEPT ![t] = "put_fd"] /\ err' = [err EXCEPT ![t] = TRUE] /\ new' = new
  <2>1. pc'[t] = "put_fd" /\ (\A u \in Task \ {t} : pc'[u] = pc[u]) /\ (\A r \in Reader : pc'[r] = pc[r])
        /\ pc' \in [Task \cup Reader -> TaskPc \cup ReaderPc] /\ \A u \in Task : pc'[u] \in TaskPc
    BY <1>5, Goes DEF TaskPc
  <2>2. Shapes' /\ err'[t] /\ \A u \in Task \ {t} : err'[u] = err[u]
    BY <1>0, <1>5, <2>1 DEF UnshareInv, Shapes
  <2>3. Mine(t)
    BY <1>0, <1>5, <2>1, <2>2 DEF Mine
  <2>4. Recounted(t)
    <3>1. /\ \A g \in Fs : t \in CopyFs(g)' <=> t \in CopyFs(g)
          /\ \A g \in Files : t \in CopyFd(g)' <=> t \in CopyFd(g)
      BY <1>0, <1>2, <1>5, <2>2, Constants DEF CopyFs, CopyFd
    <3>2. QED
      BY <1>0, <1>5, <3>1, NoRecount
  <2>5. FsOk(t)' /\ FdOk(t)'
    BY <1>0, <1>1, <1>2, <1>5, <2>1, <2>2 DEF FsOk, FdOk, Copying
  <2>6. CallOk(t)'
    BY <1>0, <1>1, <1>2, <1>a, <1>5, <2>1, <2>2 DEF CallOk
  <2>7. AloneOk(t)'
    BY <1>0, <2>2, AloneStays
  <2>8. QED
    BY <2>2, <2>3, <2>4, <2>5, <2>6, <2>7, CallStep
<1>6. CASE /\ new' = [new EXCEPT ![t] = n] /\ err' = err
           /\ pc' = [pc EXCEPT ![t] = IF n # NoNew \/ DropsSem(t) THEN "switch" ELSE "put_fd"]
  <2>1. PICK l \in {"switch", "put_fd"} : l = IF n # NoNew \/ DropsSem(t) THEN "switch" ELSE "put_fd"
    OBVIOUS
  <2>2. QED
    BY <1>3, <1>6, <2>1
<1>7. QED
  BY <1>b, <1>5, <1>6 DEF Namespaces, Goto, Fail

\* The copies take the place of the originals, whose reference the call now has.
LEMMA SwitchStep ==
    ASSUME UnshareInv, NEW t \in Task, Switch(t), load' = load
    PROVE  UnshareInv'
<1>0. pc[t] = "switch" /\ tlock[t] = None /\ pc' = [pc EXCEPT ![t] = "put_fd"]
      /\ UNCHANGED <<alive, group, sighand, mm, count, req, err, was, link, tlock>>
  BY DEF Switch, ids, Goto
<1>1. /\ t \in alive /\ fs[t] \in Fs /\ files[t] \in Files
      /\ users[fs[t]] \in Nat /\ users[fs[t]] > 0
      /\ DOMAIN new = Task /\ DOMAIN fs = Task /\ DOMAIN files = Task /\ DOMAIN users = Fs
      /\ DOMAIN changed = Task
      /\ CallOk(t) /\ FsOk(t) /\ FdOk(t) /\ new[t] \in NewRec
  BY <1>0, Caller
<1>2. PICK n \in NewRec : n = new[t]
  BY <1>1
<1>3. /\ ~err[t] /\ n.cred = ("NEWUSER" \in req[t]) /\ n.ns = WantsNs(t)
      /\ n.fs \in Fs \cup {None} /\ n.fd \in Files \cup {None}
  BY <1>0, <1>1, <1>2 DEF CallOk, NewRec
<1>4. n.fs # None => users[n.fs] = 1 /\ n.fs # fs[t] /\ n.fs \in Fs
  <2>1. ASSUME n.fs # None PROVE t \in CopyFs(n.fs) /\ t \in HoldFs(fs[t]) /\ users[n.fs] = 1
    BY <1>0, <1>1, <1>2, <2>1 DEF CopyFs, HoldFs, FsOk, Copying
  <2>2. QED
    BY <1>3, <2>1, FsSays
<1>5. n.fd # None => count[n.fd] = 1 /\ n.fd # files[t] /\ n.fd \in Files
  <2>1. ASSUME n.fd # None PROVE t \in CopyFd(n.fd) /\ t \in HoldFd(files[t]) /\ count[n.fd] = 1
    BY <1>0, <1>1, <1>2, <2>1 DEF CopyFd, HoldFd, FdOk
  <2>2. QED
    BY <1>3, <2>1, FdSays
<1>6. PICK o \in Fs \cup {None} : o = IF n.fs = None THEN None ELSE OldIfLast(fs[t])
  BY <1>1 DEF OldIfLast
<1>7. PICK d \in Files \cup {None} : d = IF n.fd = None THEN None ELSE files[t]
  BY <1>1
<1>8. PICK m \in NewRec : /\ m = [NoNew EXCEPT !.fs = o, !.fd = d]
                          /\ m.fs = o /\ m.fd = d /\ m.cred = FALSE /\ m.ns = FALSE
  <2>1. PICK m : m = [NoNew EXCEPT !.fs = o, !.fd = d]
    OBVIOUS
  <2>2. m \in NewRec /\ m.fs = o /\ m.fd = d /\ m.cred = FALSE /\ m.ns = FALSE
    BY <2>1 DEF NoNew, NewRec
  <2>3. QED
    BY <2>1, <2>2
<1>9. /\ new' = [new EXCEPT ![t] = m]
      /\ files' = [files EXCEPT ![t] = IF n.fd = None THEN @ ELSE n.fd]
      /\ n.fs = None => fs' = fs /\ users' = users
      /\ n.fs # None => /\ fs' = [fs EXCEPT ![t] = n.fs]
                        /\ users' = [users EXCEPT ![fs[t]] = @ - 1]
  BY <1>2, <1>6, <1>7, <1>8 DEF Switch
<1>10. PICK c \in SUBSET {"cred", "nsproxy", "undo"} :
          /\ changed' = [changed EXCEPT ![t] = c]
          /\ DropsSem(t) => "undo" \in c
          /\ n.ns => "nsproxy" \in c
          /\ n.cred => "cred" \in c
  <2>1. PICK c : c = (IF DropsSem(t) THEN {"undo"} ELSE {})
                      \cup (IF n.ns THEN {"nsproxy"} ELSE {})
                      \cup (IF n.cred THEN {"cred"} ELSE {})
    OBVIOUS
  <2>2. changed' = [changed EXCEPT ![t] = c]
    BY <1>2, <2>1 DEF Switch
  <2>3. c \in SUBSET {"cred", "nsproxy", "undo"}
    BY <2>1
  <2>4. (DropsSem(t) => "undo" \in c) /\ (n.ns => "nsproxy" \in c) /\ (n.cred => "cred" \in c)
    BY <2>1
  <2>5. QED
    BY <2>2, <2>3, <2>4
<1>11. /\ pc'[t] = "put_fd" /\ (\A u \in Task \ {t} : pc'[u] = pc[u]) /\ (\A r \in Reader : pc'[r] = pc[r])
       /\ pc' \in [Task \cup Reader -> TaskPc \cup ReaderPc] /\ \A u \in Task : pc'[u] \in TaskPc
  BY <1>0, Goes DEF TaskPc
<1>12. /\ new'[t] = m /\ fs'[t] = (IF n.fs = None THEN fs[t] ELSE n.fs)
       /\ files'[t] = (IF n.fd = None THEN files[t] ELSE n.fd) /\ changed'[t] = c
       /\ \A u \in Task \ {t} : /\ new'[u] = new[u] /\ fs'[u] = fs[u] /\ files'[u] = files[u]
                               /\ changed'[u] = changed[u]
       /\ \A f \in Fs : users'[f] = IF n.fs # None /\ f = fs[t] THEN users[f] - 1 ELSE users[f]
  BY <1>1, <1>9, <1>10
<1>13. Shapes'
  <2>1. new' \in [Task -> NewRec] /\ changed' \in [Task -> SUBSET {"cred", "nsproxy", "undo"}]
    BY <1>9, <1>10 DEF UnshareInv, Shapes
  <2>2. fs' \in [Task -> Fs \cup {None}]
    BY <1>3, <1>9 DEF UnshareInv, Shapes
  <2>3. files' \in [Task -> Files \cup {None}]
    BY <1>3, <1>9 DEF UnshareInv, Shapes
  <2>4. users' \in [Fs -> Nat]
    BY <1>1, <1>9 DEF UnshareInv, Shapes
  <2>5. QED
    BY <1>0, <1>11, <2>1, <2>2, <2>3, <2>4 DEF UnshareInv, Shapes
<1>14. Mine(t)
  BY <1>0, <1>1, <1>11, <1>12 DEF Mine, FsTouch
<1>15. Recounted(t)
  <2>1. \A f \in Fs : /\ t \in HoldFs(f)' <=> f = (IF n.fs = None THEN fs[t] ELSE n.fs)
                      /\ t \in HoldFs(f) <=> f = fs[t]
                      /\ t \notin CopyFs(f)'
                      /\ t \in CopyFs(f) <=> f = n.fs
    BY <1>0, <1>1, <1>2, <1>3, <1>11, <1>12 DEF HoldFs, CopyFs
  <2>2. \A f \in Files : /\ t \in HoldFd(f)' <=> f = (IF n.fd = None THEN files[t] ELSE n.fd)
                         /\ t \in HoldFd(f) <=> f = files[t]
                         /\ t \in CopyFd(f)' <=> f = d
                         /\ t \in CopyFd(f) <=> f = n.fd
    BY <1>0, <1>1, <1>2, <1>8, <1>12 DEF HoldFd, CopyFd
  <2>3. (\A f \in Fs : users[f] \in Nat) /\ (\A f \in Files : count[f] \in Nat)
    BY DEF UnshareInv, Shapes
  <2>4. ASSUME NEW f \in Fs
        PROVE  users'[f] = users[f] + (IF t \in HoldFs(f)' THEN 1 ELSE 0)
                              - (IF t \in HoldFs(f) THEN 1 ELSE 0)
                              + (IF t \in CopyFs(f)' THEN 1 ELSE 0)
                              - (IF t \in CopyFs(f) THEN 1 ELSE 0)
    BY <1>4, <1>12, <2>1, <2>3, Constants
  <2>5. ASSUME NEW f \in Files
        PROVE  count'[f] = count[f] + (IF t \in HoldFd(f)' THEN 1 ELSE 0)
                              - (IF t \in HoldFd(f) THEN 1 ELSE 0)
                              + (IF t \in CopyFd(f)' THEN 1 ELSE 0)
                              - (IF t \in CopyFd(f) THEN 1 ELSE 0)
    BY <1>0, <1>5, <1>7, <2>2, <2>3, Constants
  <2>6. QED
    BY <2>4, <2>5 DEF Recounted
<1>16. FsOk(t)'
  <2>1. ~Copying(t)' /\ new'[t].fs = o
    BY <1>0, <1>3, <1>8, <1>11, <1>12 DEF Copying
  <2>2. o # None => users'[o] = 0
    BY <1>1, <1>6, <1>12 DEF OldIfLast
  <2>3. "FS" \in req[t] => users'[fs'[t]] = 1
    BY <1>0, <1>1, <1>2, <1>3, <1>4, <1>12 DEF FsOk
  <2>4. QED
    BY <1>0, <1>11, <2>1, <2>2, <2>3 DEF FsOk
<1>17. FdOk(t)'
  <2>1. "FILES" \in req[t] => count'[files'[t]] = 1
    BY <1>0, <1>1, <1>2, <1>3, <1>5, <1>12 DEF FdOk
  <2>2. QED
    BY <1>0, <1>11, <2>1 DEF FdOk
<1>18. CallOk(t)'
  <2>1. (WantsNs(t)' <=> WantsNs(t)) /\ (DropsSem(t)' <=> DropsSem(t))
    BY <1>0 DEF WantsNs, DropsSem
  <2>2. fs'[t] # None /\ files'[t] # None
    BY <1>1, <1>12, Constants
  <2>3. new'[t].fd # None => new'[t].fd # files'[t]
    BY <1>5, <1>7, <1>8, <1>12
  <2>4. QED
    BY <1>0, <1>1, <1>3, <1>8, <1>10, <1>11, <1>12, <2>1, <2>2, <2>3 DEF CallOk
<1>19. AloneOk(t)'
  BY <1>0, AloneStays
<1>20. QED
  BY <1>13, <1>14, <1>15, <1>16, <1>17, <1>18, <1>19, CallStep

\* put_files_struct gives up the copy after a failure, the original after a success.
LEMMA PutFdStep ==
    ASSUME UnshareInv, NEW t \in Task, PutFd(t), load' = load
    PROVE  UnshareInv'
<1>0. pc[t] = "put_fd" /\ pc' = [pc EXCEPT ![t] = "put_fs"] /\ new' = [new EXCEPT ![t].fd = None]
      /\ UNCHANGED <<alive, group, sighand, mm, users, fs, files, changed, req, err, was, link, tlock>>
  BY DEF PutFd, ids, own, Goto
<1>1. /\ t \in alive /\ fs[t] \in Fs /\ files[t] \in Files
      /\ DOMAIN new = Task /\ DOMAIN count = Files
      /\ CallOk(t) /\ FsOk(t) /\ FdOk(t) /\ new[t] \in NewRec
  BY <1>0, Caller
<1>2. PICK d \in Files \cup {None} : d = new[t].fd
  BY <1>1 DEF NewRec
<1>3. d # None => count[d] > 0 /\ count[d] \in Nat
  <2>1. ASSUME d # None PROVE t \in CopyFd(d)
    BY <1>1, <1>2, <2>1 DEF CopyFd
  <2>2. QED
    BY <2>1, FdSays
<1>4. count' = IF d = None THEN count ELSE [count EXCEPT ![d] = @ - 1]
  BY <1>2 DEF PutFd, put_files_struct
<1>5. \A f \in Files : count'[f] = IF f = d THEN count[f] - 1 ELSE count[f]
  BY <1>1, <1>4, Constants
<1>6. /\ pc'[t] = "put_fs" /\ (\A u \in Task \ {t} : pc'[u] = pc[u]) /\ (\A r \in Reader : pc'[r] = pc[r])
      /\ pc' \in [Task \cup Reader -> TaskPc \cup ReaderPc] /\ \A u \in Task : pc'[u] \in TaskPc
  BY <1>0, Goes DEF TaskPc
<1>7. /\ \A u \in Task \ {t} : new'[u] = new[u]
      /\ new'[t].fs = new[t].fs /\ new'[t].fd = None /\ new'[t].cred = new[t].cred
      /\ new'[t].ns = new[t].ns
      /\ new' \in [Task -> NewRec]
  BY <1>0, <1>1 DEF UnshareInv, Shapes, NewRec
<1>8. Shapes'
  <2>1. count' \in [Files -> Nat]
    BY <1>3, <1>4 DEF UnshareInv, Shapes
  <2>2. QED
    BY <1>0, <1>6, <1>7, <2>1 DEF UnshareInv, Shapes
<1>9. Mine(t)
  BY <1>0, <1>1, <1>2, <1>5, <1>6, <1>7 DEF Mine, FdTouch
<1>10. Recounted(t)
  <2>1. \A f \in Fs : /\ t \in HoldFs(f)' <=> t \in HoldFs(f)
                      /\ t \in CopyFs(f)' <=> t \in CopyFs(f)
    BY <1>0, <1>6, <1>7 DEF HoldFs, CopyFs
  <2>2. \A f \in Files : /\ t \in HoldFd(f)' <=> t \in HoldFd(f)
                         /\ t \notin CopyFd(f)'
                         /\ t \in CopyFd(f) <=> f = d
    BY <1>0, <1>1, <1>2, <1>7, Constants DEF HoldFd, CopyFd
  <2>3. (\A f \in Fs : users[f] \in Nat) /\ (\A f \in Files : count[f] \in Nat)
    BY DEF UnshareInv, Shapes
  <2>4. QED
    BY <1>0, <1>5, <2>1, <2>2, <2>3 DEF Recounted
<1>11. FsOk(t)'
  BY <1>0, <1>1, <1>6, <1>7 DEF FsOk, Copying
<1>12. FdOk(t)'
  <2>1. count[files[t]] = 1 => files[t] # d
    <3>1. t \in HoldFd(files[t]) /\ (d = files[t] => t \in CopyFd(files[t]))
      BY <1>1, <1>2 DEF HoldFd, CopyFd
    <3>2. QED
      BY <1>1, <3>1, FdSays
  <2>2. QED
    BY <1>0, <1>1, <1>5, <1>6, <1>7, <2>1 DEF FdOk
<1>13. CallOk(t)'
  <2>1. (WantsNs(t)' <=> WantsNs(t)) /\ (DropsSem(t)' <=> DropsSem(t)) /\ Context(t)' = Context(t)
    BY <1>0 DEF WantsNs, DropsSem, Context
  <2>2. QED
    BY <1>0, <1>1, <1>6, <1>7, <2>1 DEF CallOk
<1>14. AloneOk(t)'
  BY <1>0, AloneStays
<1>15. QED
  BY <1>8, <1>9, <1>10, <1>11, <1>12, <1>13, <1>14, CallStep

\* free_fs_struct frees a copy that only this call has, or what nobody has.
LEMMA FreeNewFsStep ==
    ASSUME UnshareInv, NEW t \in Task, FreeNewFs(t), load' = load
    PROVE  UnshareInv'
<1>0. pc[t] = "put_fs" /\ pc' = [pc EXCEPT ![t] = "ret"] /\ new' = [new EXCEPT ![t].fs = None]
      /\ UNCHANGED <<alive, group, sighand, mm, count, fs, files, changed, req, err, was, link, tlock>>
  BY DEF FreeNewFs, ids, own, Goto
<1>1. /\ t \in alive /\ fs[t] \in Fs /\ files[t] \in Files
      /\ DOMAIN new = Task /\ DOMAIN users = Fs
      /\ CallOk(t) /\ FsOk(t) /\ FdOk(t) /\ new[t] \in NewRec
  BY <1>0, Caller
<1>2. PICK d \in Fs \cup {None} : d = new[t].fs
  BY <1>1 DEF NewRec
<1>3. d # None => users[d] = IF err[t] THEN 1 ELSE 0
  BY <1>0, <1>1, <1>2 DEF FsOk, Copying
<1>4. users' = IF d = None THEN users ELSE [users EXCEPT ![d] = 0]
  BY <1>2 DEF FreeNewFs
<1>5. \A f \in Fs : users'[f] = IF f = d THEN 0 ELSE users[f]
  BY <1>1, <1>4, Constants
<1>6. /\ pc'[t] = "ret" /\ (\A u \in Task \ {t} : pc'[u] = pc[u]) /\ (\A r \in Reader : pc'[r] = pc[r])
      /\ pc' \in [Task \cup Reader -> TaskPc \cup ReaderPc] /\ \A u \in Task : pc'[u] \in TaskPc
  BY <1>0, Goes DEF TaskPc
<1>7. /\ \A u \in Task \ {t} : new'[u] = new[u]
      /\ new'[t].fs = None /\ new'[t].fd = new[t].fd /\ new'[t].cred = new[t].cred
      /\ new'[t].ns = new[t].ns
      /\ new' \in [Task -> NewRec]
  BY <1>0, <1>1 DEF UnshareInv, Shapes, NewRec
<1>8. Shapes'
  <2>1. users' \in [Fs -> Nat]
    BY <1>4 DEF UnshareInv, Shapes
  <2>2. QED
    BY <1>0, <1>6, <1>7, <2>1 DEF UnshareInv, Shapes
<1>9. Mine(t)
  <2>1. \A f \in Fs : users'[f] = users[f] \/ FsTouch(t, f)
    BY <1>1, <1>2, <1>3, <1>5, Constants DEF FsTouch, Copying
  <2>2. QED
    BY <1>0, <1>6, <1>7, <2>1 DEF Mine
<1>10. Recounted(t)
  <2>1. \A f \in Fs : /\ t \in HoldFs(f)' <=> t \in HoldFs(f)
                      /\ t \notin CopyFs(f)'
                      /\ t \in CopyFs(f) <=> f = d /\ err[t]
    BY <1>0, <1>1, <1>2, <1>6, <1>7, Constants DEF HoldFs, CopyFs
  <2>2. \A f \in Files : /\ t \in HoldFd(f)' <=> t \in HoldFd(f)
                         /\ t \in CopyFd(f)' <=> t \in CopyFd(f)
    BY <1>0, <1>7 DEF HoldFd, CopyFd
  <2>3. (\A f \in Fs : users[f] \in Nat) /\ (\A f \in Files : count[f] \in Nat)
    BY DEF UnshareInv, Shapes
  <2>4. ASSUME NEW f \in Fs
        PROVE  users'[f] = users[f] + (IF t \in HoldFs(f)' THEN 1 ELSE 0)
                              - (IF t \in HoldFs(f) THEN 1 ELSE 0)
                              + (IF t \in CopyFs(f)' THEN 1 ELSE 0)
                              - (IF t \in CopyFs(f) THEN 1 ELSE 0)
    BY <1>3, <1>5, <2>1, <2>3, Constants
  <2>5. QED
    BY <1>0, <2>2, <2>3, <2>4 DEF Recounted
<1>11. FsOk(t)'
  <2>1. users[fs[t]] = 1 /\ ~err[t] => fs[t] # d
    BY <1>1, <1>3, Constants
  <2>2. QED
    BY <1>0, <1>1, <1>5, <1>6, <1>7, <2>1 DEF FsOk
<1>12. FdOk(t)'
  BY <1>0, <1>1, <1>6, <1>7 DEF FdOk
<1>13. CallOk(t)'
  <2>1. (WantsNs(t)' <=> WantsNs(t)) /\ (DropsSem(t)' <=> DropsSem(t)) /\ Context(t)' = Context(t)
    BY <1>0 DEF WantsNs, DropsSem, Context
  <2>2. QED
    BY <1>0, <1>1, <1>6, <1>7, <2>1 DEF CallOk
<1>14. AloneOk(t)'
  BY <1>0, AloneStays
<1>15. QED
  BY <1>8, <1>9, <1>10, <1>11, <1>12, <1>13, <1>14, CallStep

\* The call is over.
LEMMA ReturnStep ==
    ASSUME UnshareInv, NEW t \in Task, Return(t), load' = load
    PROVE  UnshareInv'
<1>0. /\ pc[t] = "ret" /\ pc' = [pc EXCEPT ![t] = "user"] /\ req' = [req EXCEPT ![t] = {}]
      /\ err' = [err EXCEPT ![t] = FALSE] /\ was' = [was EXCEPT ![t] = <<>>]
      /\ changed' = [changed EXCEPT ![t] = {}]
      /\ UNCHANGED <<alive, group, sighand, mm, users, count, fs, files, new, link, tlock>>
  BY DEF Return, ids, objs, Goto
<1>1. /\ t \in alive /\ fs[t] \in Fs /\ files[t] \in Files
      /\ CallOk(t) /\ new[t] \in NewRec
  BY <1>0, Caller
<1>2. /\ new[t].fs = None /\ new[t].fd = None /\ new[t].cred = FALSE /\ new[t].ns = FALSE
      /\ new[t] = NoNew
  BY <1>0, <1>1 DEF CallOk, NewRec, NoNew
<1>3. /\ pc'[t] = "user" /\ (\A u \in Task \ {t} : pc'[u] = pc[u]) /\ (\A r \in Reader : pc'[r] = pc[r])
      /\ pc' \in [Task \cup Reader -> TaskPc \cup ReaderPc] /\ \A u \in Task : pc'[u] \in TaskPc
  BY <1>0, Goes DEF TaskPc
<1>4. /\ \A u \in Task \ {t} : /\ req'[u] = req[u] /\ err'[u] = err[u] /\ was'[u] = was[u]
                              /\ changed'[u] = changed[u]
      /\ ~err'[t] /\ changed'[t] = {}
  BY <1>0 DEF UnshareInv, Shapes
<1>5. Shapes'
  BY <1>0, <1>3 DEF UnshareInv, Shapes
<1>6. Mine(t)
  BY <1>0, <1>3, <1>4 DEF Mine
<1>7. Recounted(t)
  <2>1. /\ \A g \in Fs : t \notin CopyFs(g) /\ t \notin CopyFs(g)'
        /\ \A g \in Files : t \in CopyFd(g)' <=> t \in CopyFd(g)
    BY <1>0, <1>2, Constants DEF CopyFs, CopyFd
  <2>2. QED
    BY <1>0, <2>1, NoRecount
<1>8. FsOk(t)' /\ FdOk(t)' /\ AloneOk(t)'
  BY <1>0, <1>2, <1>3 DEF FsOk, FdOk, AloneOk
<1>9. CallOk(t)'
  BY <1>0, <1>1, <1>2, <1>3, <1>4, Constants DEF CallOk
<1>10. QED
  BY <1>5, <1>6, <1>7, <1>8, <1>9, CallStep

\* execve puts the copy in place and gives up the original.
LEMMA ExecSwapStep ==
    ASSUME UnshareInv, NEW t \in Task, ExecSwap(t), load' = load
    PROVE  UnshareInv'
<1>0. /\ pc[t] = "exec_swap" /\ pc' = [pc EXCEPT ![t] = "ret"]
      /\ files' = [files EXCEPT ![t] = new[t].fd] /\ new' = [new EXCEPT ![t].fd = None]
      /\ UNCHANGED <<alive, group, sighand, mm, users, fs, changed, req, err, was, link, tlock>>
  BY DEF ExecSwap, ids, Goto
<1>1. /\ t \in alive /\ fs[t] \in Fs /\ files[t] \in Files
      /\ count[files[t]] \in Nat /\ count[files[t]] > 0
      /\ DOMAIN new = Task /\ DOMAIN count = Files /\ DOMAIN files = Task
      /\ CallOk(t) /\ FsOk(t) /\ FdOk(t) /\ new[t] \in NewRec
  BY <1>0, Caller
<1>2. PICK d \in Files : d = new[t].fd
  BY <1>0, <1>1 DEF NewRec, CallOk
<1>3. count[d] = 1 /\ d # files[t]
  <2>1. t \in CopyFd(d) /\ t \in HoldFd(files[t]) /\ count[d] = 1
    BY <1>0, <1>1, <1>2, Constants DEF CopyFd, HoldFd, FdOk
  <2>2. QED
    BY <2>1, FdSays
<1>4. count' = [count EXCEPT ![files[t]] = @ - 1]
  BY <1>1, Constants DEF ExecSwap, put_files_struct
<1>5. \A f \in Files : count'[f] = IF f = files[t] THEN count[f] - 1 ELSE count[f]
  BY <1>1, <1>4
<1>6. /\ pc'[t] = "ret" /\ (\A u \in Task \ {t} : pc'[u] = pc[u]) /\ (\A r \in Reader : pc'[r] = pc[r])
      /\ pc' \in [Task \cup Reader -> TaskPc \cup ReaderPc] /\ \A u \in Task : pc'[u] \in TaskPc
  BY <1>0, Goes DEF TaskPc
<1>7. /\ \A u \in Task \ {t} : new'[u] = new[u] /\ files'[u] = files[u]
      /\ new'[t].fs = new[t].fs /\ new'[t].fd = None /\ new'[t].cred = new[t].cred
      /\ new'[t].ns = new[t].ns /\ files'[t] = d
      /\ new' \in [Task -> NewRec] /\ files' \in [Task -> Files \cup {None}]
  BY <1>0, <1>1, <1>2 DEF UnshareInv, Shapes, NewRec
<1>8. Shapes'
  <2>1. count' \in [Files -> Nat]
    BY <1>1, <1>4 DEF UnshareInv, Shapes
  <2>2. QED
    BY <1>0, <1>6, <1>7, <2>1 DEF UnshareInv, Shapes
<1>9. Mine(t)
  BY <1>0, <1>1, <1>5, <1>6, <1>7 DEF Mine, FdTouch
<1>10. Recounted(t)
  <2>1. \A f \in Fs : /\ t \in HoldFs(f)' <=> t \in HoldFs(f)
                      /\ t \notin CopyFs(f) /\ t \notin CopyFs(f)'
    BY <1>0, <1>1, <1>6, <1>7, Constants DEF HoldFs, CopyFs, CallOk
  <2>2. \A f \in Files : /\ t \in HoldFd(f)' <=> f = d
                         /\ t \in HoldFd(f) <=> f = files[t]
                         /\ t \notin CopyFd(f)'
                         /\ t \in CopyFd(f) <=> f = d
    BY <1>0, <1>1, <1>2, <1>7, Constants DEF HoldFd, CopyFd
  <2>3. (\A f \in Fs : users[f] \in Nat) /\ (\A f \in Files : count[f] \in Nat)
    BY DEF UnshareInv, Shapes
  <2>4. QED
    BY <1>0, <1>3, <1>5, <2>1, <2>2, <2>3 DEF Recounted
<1>a. ~err[t] /\ req[t] = {"FILES"} /\ new[t].fs = None
  BY <1>0, <1>1 DEF CallOk
<1>11. FsOk(t)' /\ FdOk(t)'
  BY <1>0, <1>3, <1>5, <1>6, <1>7, <1>a DEF FsOk, FdOk
<1>13. CallOk(t)'
  <2>1. ~WantsNs(t)' /\ ~DropsSem(t)'
    BY <1>0, <1>a DEF WantsNs, DropsSem
  <2>2. QED
    BY <1>0, <1>1, <1>6, <1>7, <1>a, <2>1, Constants DEF CallOk
<1>14. AloneOk(t)'
  BY <1>0, AloneStays
<1>15. QED
  BY <1>8, <1>9, <1>10, <1>11, <1>13, <1>14, CallStep

(***************************************************************************)
(* Clones, exits and readers.                                              *)
(***************************************************************************)
\* A task that is not in a call has nothing to rely on.
LEMMA UserOk ==
    ASSUME NEW u, pc'[u] = "user", new'[u] = NoNew, ~err'[u], None \notin Fs
    PROVE  FsOk(u)' /\ FdOk(u)' /\ AloneOk(u)'
BY DEF FsOk, FdOk, AloneOk, NoNew

\* The calls of others go on as they were.
LEMMA CallKept ==
    ASSUME NEW u \in Task, CallOk(u), u \in alive' <=> u \in alive,
           fs'[u] = fs[u], files'[u] = files[u], new'[u] = new[u], pc'[u] = pc[u],
           err'[u] = err[u], req'[u] = req[u], was'[u] = was[u], changed'[u] = changed[u]
    PROVE  CallOk(u)'
<1>1. /\ (DropsSem(u)' <=> DropsSem(u)) /\ (WantsNs(u)' <=> WantsNs(u))
      /\ WantsNs(u)' = WantsNs(u) /\ Context(u)' = Context(u)
  BY DEF DropsSem, WantsNs, Context
<1>2. QED
  BY <1>1 DEF CallOk

\* What clone gives the child: the parent's, counted, or a free one.
LEMMA CloneGives ==
    ASSUME UnshareInv, NEW p \in Task, NEW t \in Task, NEW F, Clone(p, t, F)
    PROVE  /\ \E g \in Fs : /\ fs' = [fs EXCEPT ![t] = g] /\ FsTouch(p, g)
                            /\ users' = [users EXCEPT ![g] = @ + 1]
           /\ \E g \in Files : /\ files' = [files EXCEPT ![t] = g] /\ FdTouch(p, g)
                               /\ count' = [count EXCEPT ![g] = @ + 1]
<1>0. p \in alive
  BY DEF Clone
<1>1. /\ fs[p] \in Fs /\ files[p] \in Files /\ DOMAIN users = Fs /\ DOMAIN count = Files
  BY <1>0, Caller
<1>2. CASE "FS" \in F
  <2>1. fs' = [fs EXCEPT ![t] = fs[p]] /\ users' = [users EXCEPT ![fs[p]] = @ + 1]
    BY <1>2 DEF Clone
  <2>2. FsTouch(p, fs[p])
    BY <1>0 DEF FsTouch
  <2>3. QED
    <3>1. CASE "FILES" \in F
      BY <1>0, <1>1, <2>1, <2>2, <3>1 DEF Clone, FdTouch
    <3>2. CASE "FILES" \notin F
      <4>1. PICK g \in FreeFiles : files' = [files EXCEPT ![t] = g] /\ count' = [count EXCEPT ![g] = 1]
        BY <3>2 DEF Clone
      <4>2. g \in Files /\ count[g] = 0
        BY DEF FreeFiles, Lowest
      <4>3. count' = [count EXCEPT ![g] = @ + 1] /\ FdTouch(p, g)
        BY <4>1, <4>2 DEF FdTouch
      <4>4. QED
        BY <1>1, <2>1, <2>2, <4>1, <4>2, <4>3
    <3>3. QED
      BY <3>1, <3>2
<1>3. CASE "FS" \notin F
  <2>1. PICK g \in FreeFs : fs' = [fs EXCEPT ![t] = g] /\ users' = [users EXCEPT ![g] = 1]
    BY <1>3 DEF Clone
  <2>2. g \in Fs /\ users[g] = 0 /\ \A v \in Task : new[v].fs # g
    BY DEF FreeFs, Lowest
  <2>3. users' = [users EXCEPT ![g] = @ + 1] /\ FsTouch(p, g)
    BY <2>1, <2>2 DEF FsTouch
  <2>4. QED
    <3>1. CASE "FILES" \in F
      BY <1>0, <1>1, <2>1, <2>2, <2>3, <3>1 DEF Clone, FdTouch
    <3>2. CASE "FILES" \notin F
      <4>1. PICK h \in FreeFiles : files' = [files EXCEPT ![t] = h] /\ count' = [count EXCEPT ![h] = 1]
        BY <3>2 DEF Clone
      <4>2. h \in Files /\ count[h] = 0
        BY DEF FreeFiles, Lowest
      <4>3. count' = [count EXCEPT ![h] = @ + 1] /\ FdTouch(p, h)
        BY <4>1, <4>2 DEF FdTouch
      <4>4. QED
        BY <2>1, <2>2, <2>3, <4>1, <4>2, <4>3
    <3>3. QED
      BY <3>1, <3>2
<1>4. QED
  BY <1>2, <1>3

\* A new task shares what its parent has, or gets a free structure.
LEMMA CloneStep ==
    ASSUME UnshareInv, NEW p \in Task, NEW t \in Task, NEW F \in load.clones, Clone(p, t, F),
           load' = load
    PROVE  UnshareInv'
<1>0. /\ p \in alive /\ pc[p] = "user" /\ t \notin alive /\ p # t
      /\ alive' = alive \cup {t}
      /\ \A u \in alive : {group[u], sighand[u], mm[u]} \cap {t} = {}
      /\ UNCHANGED <<changed, req, new, err, was, link, tlock, pc>>
  BY DEF Clone, call
<1>1. PICK g \in Fs : /\ fs' = [fs EXCEPT ![t] = g] /\ FsTouch(p, g)
                      /\ users' = [users EXCEPT ![g] = @ + 1]
  BY CloneGives
<1>2. PICK h \in Files : /\ files' = [files EXCEPT ![t] = h] /\ FdTouch(p, h)
                         /\ count' = [count EXCEPT ![h] = @ + 1]
  BY CloneGives
<1>3. /\ \A u \in Task : fs'[u] = IF u = t THEN g ELSE fs[u]
      /\ \A u \in Task : files'[u] = IF u = t THEN h ELSE files[u]
      /\ \A f \in Fs : users'[f] = IF f = g THEN users[f] + 1 ELSE users[f]
      /\ \A f \in Files : count'[f] = IF f = h THEN count[f] + 1 ELSE count[f]
      /\ \A f \in Fs : users[f] \in Nat
      /\ \A f \in Files : count[f] \in Nat
  BY <1>1, <1>2 DEF UnshareInv, Shapes
<1>4. /\ \E v \in Task : group' = [group EXCEPT ![t] = v] /\ v \in {group[p], t}
      /\ \E v \in Task : sighand' = [sighand EXCEPT ![t] = v] /\ v \in {sighand[p], t}
      /\ \E v \in Task : mm' = [mm EXCEPT ![t] = v] /\ v \in {mm[p], t}
  BY DEF Clone, UnshareInv, Shapes
<1>5. Shapes'
  <2>1. group' \in [Task -> Task] /\ sighand' \in [Task -> Task] /\ mm' \in [Task -> Task]
    BY <1>4 DEF UnshareInv, Shapes
  <2>2. fs' \in [Task -> Fs \cup {None}] /\ users' \in [Fs -> Nat]
    BY <1>1, <1>3 DEF UnshareInv, Shapes
  <2>3. files' \in [Task -> Files \cup {None}] /\ count' \in [Files -> Nat]
    BY <1>2, <1>3 DEF UnshareInv, Shapes
  <2>4. QED
    BY <1>0, <2>1, <2>2, <2>3 DEF UnshareInv, Shapes
<1>6. CallOk(t) /\ pc[t] = "user" /\ new[t] = NoNew /\ ~err[t] /\ changed[t] = {}
  BY <1>0 DEF UnshareInv, CallOk
<1>7. Counts'
  <2>1. Same(t)
    BY <1>0, <1>3 DEF Same, UnshareInv, Shapes
  <2>2. \A f \in Fs : /\ t \in HoldFs(f)' <=> f = g
                      /\ t \notin HoldFs(f) /\ t \notin CopyFs(f) /\ t \notin CopyFs(f)'
    BY <1>0, <1>3, <1>6, Constants DEF HoldFs, CopyFs
  <2>3. \A f \in Files : /\ t \in HoldFd(f)' <=> f = h
                         /\ t \notin HoldFd(f) /\ t \notin CopyFd(f) /\ t \notin CopyFd(f)'
    BY <1>0, <1>3, <1>6, Constants DEF HoldFd, CopyFd
  <2>4. ASSUME NEW f \in Fs PROVE users'[f] = Cardinality(HoldFs(f)') + Cardinality(CopyFs(f)')
    BY <1>3, <2>1, <2>2, RecountFs
  <2>5. ASSUME NEW f \in Files PROVE count'[f] = Cardinality(HoldFd(f)') + Cardinality(CopyFd(f)')
    BY <1>3, <2>1, <2>3, RecountFd
  <2>6. QED
    BY <2>4, <2>5 DEF Counts
<1>8. ASSUME NEW u \in Task PROVE FsOk(u)' /\ FdOk(u)' /\ AloneOk(u)'
  <2>1. CASE pc[u] = "user"
    BY <1>0, <2>1, UserOk, Constants DEF UnshareInv, CallOk
  <2>2. CASE pc[u] # "user"
    <3>1. u \in alive /\ u # p /\ u # t
      BY <1>0, <1>6, <2>2, Caller
    <3>2. FsOk(u)' /\ FdOk(u)'
      BY <1>0, <1>1, <1>2, <1>3, <3>1, OthersOwn
    <3>3. AloneOk(u)'
      <4>1. \A v \in alive' \ {u} : v = t \/ v \in alive \ {u}
        BY <1>0
      <4>2. \A v \in alive : /\ group'[v] = group[v] /\ sighand'[v] = sighand[v] /\ mm'[v] = mm[v]
                             /\ group[v] # t /\ sighand[v] # t /\ mm[v] # t
        BY <1>0, <1>4 DEF UnshareInv, Shapes
      <4>3. group'[t] \in {group[p], t} /\ sighand'[t] \in {sighand[p], t} /\ mm'[t] \in {mm[p], t}
        BY <1>4 DEF UnshareInv, Shapes
      <4>4. thread_group_empty(u) => thread_group_empty(u)'
        BY <1>0, <3>1, <4>1, <4>2, <4>3 DEF thread_group_empty
      <4>5. SighandAlone(u) => SighandAlone(u)'
        BY <1>0, <3>1, <4>1, <4>2, <4>3 DEF SighandAlone
      <4>6. current_is_single_threaded(u) => current_is_single_threaded(u)'
        BY <1>0, <3>1, <4>1, <4>2, <4>3, <4>4 DEF current_is_single_threaded
      <4>7. AloneOk(u)
        BY DEF UnshareInv
      <4>8. QED
        BY <1>0, <4>4, <4>5, <4>6, <4>7 DEF AloneOk, check_unshare_flags
    <3>4. QED
      BY <3>2, <3>3
  <2>3. QED
    BY <2>1, <2>2
<1>9. ASSUME NEW u \in Task PROVE CallOk(u)'
  <2>1. CASE u = t
    <3>1. t \in alive' /\ fs'[t] # None /\ files'[t] # None
      BY <1>0, <1>3, Constants
    <3>2. QED
      BY <1>0, <1>6, <2>1, <3>1, Constants DEF CallOk
  <2>2. CASE u # t
    <3>1. CallOk(u)
      BY DEF UnshareInv
    <3>2. QED
      BY <1>0, <1>3, <2>2, <3>1, CallKept
  <2>3. QED
    BY <2>1, <2>2
<1>10. ASSUME NEW r \in Reader PROVE LinkOk(r)'
  <2>1. LinkOk(r) /\ (pc[r] = "get" => link[r].task \in Task)
    BY DEF UnshareInv, LinkOk, Shapes
  <2>2. QED
    BY <1>0, <1>3, <2>1 DEF LinkOk
<1>11. QED
  BY <1>5, <1>7, <1>8, <1>9, <1>10 DEF UnshareInv

\* A task that exits gives up its references; no reader has it locked.
LEMMA ExitStep ==
    ASSUME UnshareInv, NEW t \in Task, Exit(t), load' = load
    PROVE  UnshareInv'
<1>0. /\ t \in alive /\ pc[t] = "user" /\ tlock[t] = None
      /\ alive' = alive \ {t}
      /\ fs' = [fs EXCEPT ![t] = None] /\ files' = [files EXCEPT ![t] = None]
      /\ users' = [users EXCEPT ![fs[t]] = @ - 1] /\ count' = [count EXCEPT ![files[t]] = @ - 1]
      /\ group' = [group EXCEPT ![t] = t]
      /\ sighand' = [sighand EXCEPT ![t] = t] /\ mm' = [mm EXCEPT ![t] = t]
      /\ UNCHANGED <<changed, req, new, err, was, link, tlock, pc>>
  BY DEF Exit, call
<1>1. /\ fs[t] \in Fs /\ files[t] \in Files
      /\ users[fs[t]] \in Nat /\ users[fs[t]] > 0
      /\ count[files[t]] \in Nat /\ count[files[t]] > 0
      /\ CallOk(t) /\ new[t] = NoNew /\ ~err[t] /\ changed[t] = {}
  BY <1>0, Caller DEF CallOk
<1>2. /\ \A u \in Task : fs'[u] = IF u = t THEN None ELSE fs[u]
      /\ \A u \in Task : files'[u] = IF u = t THEN None ELSE files[u]
      /\ \A f \in Fs : users'[f] = IF f = fs[t] THEN users[f] - 1 ELSE users[f]
      /\ \A f \in Files : count'[f] = IF f = files[t] THEN count[f] - 1 ELSE count[f]
      /\ \A f \in Fs : users[f] \in Nat
      /\ \A f \in Files : count[f] \in Nat
  BY <1>0 DEF UnshareInv, Shapes
<1>3. Shapes'
  <2>1. users' \in [Fs -> Nat] /\ count' \in [Files -> Nat]
    BY <1>0, <1>1 DEF UnshareInv, Shapes
  <2>2. QED
    BY <1>0, <2>1 DEF UnshareInv, Shapes
<1>4. Counts'
  <2>1. Same(t)
    BY <1>0, <1>2 DEF Same, UnshareInv, Shapes
  <2>2. \A f \in Fs : /\ t \notin HoldFs(f)' /\ (t \in HoldFs(f) <=> f = fs[t])
                      /\ t \notin CopyFs(f) /\ t \notin CopyFs(f)'
    BY <1>0, <1>1, Constants DEF HoldFs, CopyFs
  <2>3. \A f \in Files : /\ t \notin HoldFd(f)' /\ (t \in HoldFd(f) <=> f = files[t])
                         /\ t \notin CopyFd(f) /\ t \notin CopyFd(f)'
    BY <1>0, <1>1, Constants DEF HoldFd, CopyFd
  <2>4. ASSUME NEW f \in Fs PROVE users'[f] = Cardinality(HoldFs(f)') + Cardinality(CopyFs(f)')
    BY <1>2, <2>1, <2>2, RecountFs
  <2>5. ASSUME NEW f \in Files PROVE count'[f] = Cardinality(HoldFd(f)') + Cardinality(CopyFd(f)')
    BY <1>2, <2>1, <2>3, RecountFd
  <2>6. QED
    BY <2>4, <2>5 DEF Counts
<1>5. ASSUME NEW u \in Task PROVE FsOk(u)' /\ FdOk(u)' /\ AloneOk(u)'
  <2>1. CASE pc[u] = "user"
    BY <1>0, <2>1, UserOk, Constants DEF UnshareInv, CallOk
  <2>2. CASE pc[u] # "user"
    <3>1. u \in alive /\ u # t
      BY <1>0, <2>2, Caller
    <3>2. FsOk(u)' /\ FdOk(u)'
      <4>1. /\ \A f \in Fs : users'[f] = users[f] \/ FsTouch(t, f)
            /\ \A f \in Files : count'[f] = count[f] \/ FdTouch(t, f)
        BY <1>0, <1>2 DEF FsTouch, FdTouch
      <4>2. QED
        BY <1>0, <1>2, <3>1, <4>1, OthersOwn
    <3>3. AloneOk(u)'
      <4>1. \A v \in alive' : /\ v \in alive
                              /\ group'[v] = group[v] /\ sighand'[v] = sighand[v] /\ mm'[v] = mm[v]
        BY <1>0 DEF UnshareInv, Shapes
      <4>2. u \in alive'
        BY <1>0, <3>1
      <4>3. /\ thread_group_empty(u) => thread_group_empty(u)'
            /\ SighandAlone(u) => SighandAlone(u)'
            /\ current_is_single_threaded(u) => current_is_single_threaded(u)'
        BY <4>1, <4>2 DEF thread_group_empty, SighandAlone, current_is_single_threaded
      <4>4. AloneOk(u)
        BY DEF UnshareInv
      <4>5. QED
        BY <1>0, <4>3, <4>4 DEF AloneOk, check_unshare_flags
    <3>4. QED
      BY <3>2, <3>3
  <2>3. QED
    BY <2>1, <2>2
<1>6. ASSUME NEW u \in Task PROVE CallOk(u)'
  <2>1. CASE u = t
    BY <1>0, <1>1, <1>2, <2>1, Constants DEF CallOk
  <2>2. CASE u # t
    <3>1. CallOk(u)
      BY DEF UnshareInv
    <3>2. QED
      BY <1>0, <1>2, <2>2, <3>1, CallKept
  <2>3. QED
    BY <2>1, <2>2
<1>7. ASSUME NEW r \in Reader PROVE LinkOk(r)'
  <2>1. LinkOk(r) /\ (pc[r] = "get" => link[r].task \in Task) /\ r # None
    BY Constants DEF UnshareInv, LinkOk, Shapes
  <2>2. QED
    BY <1>0, <1>2, <2>1 DEF LinkOk
<1>8. QED
  BY <1>3, <1>4, <1>5, <1>6, <1>7 DEF UnshareInv

\* A reader's step changes nothing for the tasks.
LEMMA TasksKept ==
    ASSUME UnshareInv, NEW r \in Reader, NEW l, pc' = [pc EXCEPT ![r] = l],
           UNCHANGED <<alive, group, sighand, mm, users, count, fs, files, changed,
                       req, new, err, was>>
    PROVE  /\ Counts'
           /\ \A t \in Task : FsOk(t)' /\ FdOk(t)' /\ CallOk(t)' /\ AloneOk(t)'
<1>1. \A t \in Task : pc'[t] = pc[t]
  BY Constants DEF UnshareInv, Shapes
<1>2. Counts'
  <2>1. ASSUME NEW f
        PROVE  /\ HoldFs(f)' = HoldFs(f) /\ CopyFs(f)' = CopyFs(f)
               /\ HoldFd(f)' = HoldFd(f) /\ CopyFd(f)' = CopyFd(f)
    BY <1>1 DEF HoldFs, CopyFs, HoldFd, CopyFd, UnshareInv, Shapes
  <2>2. QED
    BY <2>1 DEF Counts, UnshareInv
<1>3. ASSUME NEW t \in Task PROVE FsOk(t)' /\ FdOk(t)' /\ CallOk(t)' /\ AloneOk(t)'
  <2>1. FsOk(t) /\ FdOk(t) /\ CallOk(t) /\ AloneOk(t)
    BY DEF UnshareInv
  <2>2. FsOk(t)' /\ FdOk(t)'
    BY <1>1, <2>1 DEF FsOk, FdOk, Copying
  <2>3. CallOk(t)'
    BY <1>1, <2>1, CallKept
  <2>4. check_unshare_flags(t, req[t])' <=> check_unshare_flags(t, req[t])
    BY DEF check_unshare_flags, thread_group_empty, SighandAlone, current_is_single_threaded
  <2>5. QED
    BY <1>1, <2>1, <2>2, <2>3, <2>4 DEF AloneOk
<1>4. QED
  BY <1>2, <1>3

\* A reader locks a live task and finds its fs_struct.
LEMMA LinkFindStep ==
    ASSUME UnshareInv, NEW r \in Reader, NEW t \in Task, LinkFind(r, t), load' = load
    PROVE  UnshareInv'
<1>0. /\ pc[r] = "idle" /\ t \in alive /\ tlock[t] = None
      /\ tlock' = [tlock EXCEPT ![t] = r]
      /\ link' = [link EXCEPT ![r] = [task |-> t, fs |-> fs[t]]]
      /\ pc' = [pc EXCEPT ![r] = "get"]
      /\ UNCHANGED <<alive, group, sighand, mm, users, count, fs, files, changed,
                     req, new, err, was>>
  BY DEF LinkFind, LockTask, Goto, ids, objs, own, call
<1>a. fs[t] \in Fs \cup {None}
  BY DEF UnshareInv, Shapes
<1>b. PICK k : k = [task |-> t, fs |-> fs[t]]
  OBVIOUS
<1>1. k \in LinkRec /\ k = [task |-> t, fs |-> fs[t]] /\ k.task = t /\ k.fs = fs[t]
  BY <1>a, <1>b DEF LinkRec
<1>2. Shapes'
  <2>1. link' \in [Reader -> LinkRec] /\ tlock' \in [Task -> Task \cup Reader \cup {None}]
    BY <1>0, <1>1 DEF UnshareInv, Shapes
  <2>2. pc' \in [Task \cup Reader -> TaskPc \cup ReaderPc] /\ \A u \in Task : pc'[u] \in TaskPc
    BY <1>0, Constants DEF UnshareInv, Shapes, ReaderPc
  <2>3. QED
    BY <1>0, <2>1, <2>2 DEF UnshareInv, Shapes
<1>3. ASSUME NEW q \in Reader PROVE LinkOk(q)'
  <2>1. CASE q = r
    <3>1. link'[r] = k /\ tlock'[t] = r
      BY <1>0, <1>1 DEF UnshareInv, Shapes
    <3>2. QED
      BY <1>0, <1>1, <2>1, <3>1 DEF LinkOk
  <2>2. CASE q # r
    <3>1. LinkOk(q) /\ link'[q] = link[q] /\ pc'[q] = pc[q] /\ q # None
          /\ (pc[q] = "get" => link[q].task \in Task)
      BY <1>0, <2>2, Constants DEF UnshareInv, Shapes, LinkOk
    <3>2. pc[q] = "get" => link[q].task # t /\ tlock'[link[q].task] = tlock[link[q].task]
      BY <1>0, <3>1 DEF LinkOk, UnshareInv, Shapes
    <3>3. QED
      BY <1>0, <3>1, <3>2 DEF LinkOk
  <2>3. QED
    BY <2>1, <2>2
<1>4. QED
  BY <1>0, <1>2, <1>3, TasksKept DEF UnshareInv

\* A reader is done and unlocks the task.
LEMMA LinkReadStep ==
    ASSUME UnshareInv, NEW r \in Reader, proc_cwd_link(r), load' = load
    PROVE  UnshareInv'
<1>0. /\ pc[r] = "get"
      /\ tlock' = [tlock EXCEPT ![link[r].task] = IF @ = r THEN None ELSE @]
      /\ link' = [link EXCEPT ![r] = [task |-> None, fs |-> None]]
      /\ pc' = [pc EXCEPT ![r] = "idle"]
      /\ UNCHANGED <<alive, group, sighand, mm, users, count, fs, files, changed,
                     req, new, err, was>>
  BY DEF proc_cwd_link, Goto, ids, objs, own, call
<1>1. PICK k \in LinkRec : k = [task |-> None, fs |-> None]
  BY DEF LinkRec
<1>2. Shapes'
  <2>1. link' \in [Reader -> LinkRec] /\ tlock' \in [Task -> Task \cup Reader \cup {None}]
    BY <1>0, <1>1 DEF UnshareInv, Shapes
  <2>2. pc' \in [Task \cup Reader -> TaskPc \cup ReaderPc] /\ \A u \in Task : pc'[u] \in TaskPc
    BY <1>0, Constants DEF UnshareInv, Shapes, ReaderPc
  <2>3. QED
    BY <1>0, <2>1, <2>2 DEF UnshareInv, Shapes
<1>3. ASSUME NEW q \in Reader PROVE LinkOk(q)'
  <2>1. CASE q = r
    BY <1>0, <2>1 DEF LinkOk, UnshareInv, Shapes
  <2>2. CASE q # r
    <3>1. LinkOk(q) /\ link'[q] = link[q] /\ pc'[q] = pc[q]
          /\ (pc[q] = "get" => link[q].task \in Task)
      BY <1>0, <2>2 DEF UnshareInv, Shapes, LinkOk
    <3>2. pc[q] = "get" => tlock'[link[q].task] = tlock[link[q].task]
      BY <1>0, <2>2, <3>1 DEF LinkOk, UnshareInv, Shapes
    <3>3. QED
      BY <1>0, <3>1, <3>2 DEF LinkOk
  <2>3. QED
    BY <2>1, <2>2
<1>4. QED
  BY <1>0, <1>2, <1>3, TasksKept DEF UnshareInv

(***************************************************************************)
(* All steps together.                                                     *)
(***************************************************************************)
\* UnshareInv holds at first.
LEMMA UnshareInit ==
    ASSUME Init PROVE UnshareInv
<1>0. Boot \in Task
  BY UnshareAssumption
<1>1. PICK f \in Fs, g \in Files :
         /\ fs = [t \in Task |-> IF t = Boot THEN f ELSE None]
         /\ files = [t \in Task |-> IF t = Boot THEN g ELSE None]
         /\ users = [h \in Fs |-> IF h = f THEN 1 ELSE 0]
         /\ count = [h \in Files |-> IF h = g THEN 1 ELSE 0]
  BY DEF Init, Lowest
<1>2. /\ load \in Workloads /\ alive = {Boot}
      /\ group = [t \in Task |-> t] /\ sighand = [t \in Task |-> t] /\ mm = [t \in Task |-> t]
      /\ changed = [t \in Task |-> {}] /\ tlock = [t \in Task |-> None]
      /\ pc = [x \in Task \cup Reader |-> IF x \in Task THEN "user" ELSE "idle"]
      /\ req = [t \in Task |-> {}] /\ new = [t \in Task |-> NoNew]
      /\ err = [t \in Task |-> FALSE] /\ was = [t \in Task |-> <<>>]
      /\ link = [r \in Reader |-> [task |-> None, fs |-> None]]
  BY DEF Init
<1>3. Shapes
  <2>1. link \in [Reader -> LinkRec] /\ new \in [Task -> NewRec]
    BY <1>2, Constants DEF LinkRec
  <2>2. pc \in [Task \cup Reader -> TaskPc \cup ReaderPc] /\ \A t \in Task : pc[t] \in TaskPc
    BY <1>2 DEF TaskPc, ReaderPc
  <2>3. QED
    BY <1>0, <1>1, <1>2, <2>1, <2>2 DEF Shapes
<1>4. Counts
  <2>0. Cardinality({}) = 0 /\ Cardinality({Boot}) = 1
    BY FS_EmptySet, FS_Singleton
  <2>1. ASSUME NEW h \in Fs PROVE users[h] = Cardinality(HoldFs(h)) + Cardinality(CopyFs(h))
    <3>1. CopyFs(h) = {} /\ HoldFs(h) = IF h = f THEN {Boot} ELSE {}
      BY <1>0, <1>1, <1>2, Constants DEF CopyFs, HoldFs
    <3>2. QED
      BY <1>1, <2>0, <3>1
  <2>2. ASSUME NEW h \in Files PROVE count[h] = Cardinality(HoldFd(h)) + Cardinality(CopyFd(h))
    <3>1. CopyFd(h) = {} /\ HoldFd(h) = IF h = g THEN {Boot} ELSE {}
      BY <1>0, <1>1, <1>2, Constants DEF CopyFd, HoldFd
    <3>2. QED
      BY <1>1, <2>0, <3>1
  <2>3. QED
    BY <2>1, <2>2 DEF Counts
<1>5. \A t \in Task : FsOk(t) /\ FdOk(t) /\ AloneOk(t)
  BY <1>2, Constants DEF FsOk, FdOk, AloneOk
<1>6. \A t \in Task : CallOk(t)
  BY <1>0, <1>1, <1>2, Constants DEF CallOk
<1>7. \A r \in Reader : LinkOk(r)
  BY <1>2, Constants DEF LinkOk
<1>8. QED
  BY <1>3, <1>4, <1>5, <1>6, <1>7 DEF UnshareInv

\* A step that changes nothing keeps it.
LEMMA UnshareStutter ==
    ASSUME UnshareInv, UNCHANGED vars PROVE UnshareInv'
<1>1. UNCHANGED <<load, alive, group, sighand, mm, users, count, fs, files, changed,
                  req, new, err, was, link, tlock, pc>>
  BY DEF vars, ids, objs, own, call
<1>2. Shapes'
  BY <1>1 DEF UnshareInv, Shapes
<1>3. Counts'
  BY <1>1 DEF UnshareInv, Counts, HoldFs, CopyFs, HoldFd, CopyFd
<1>4. ASSUME NEW t \in Task PROVE FsOk(t)' /\ FdOk(t)' /\ CallOk(t)' /\ AloneOk(t)'
  <2>1. FsOk(t)' /\ FdOk(t)'
    BY <1>1 DEF UnshareInv, FsOk, FdOk, Copying
  <2>2. CallOk(t)'
    BY <1>1, CallKept DEF UnshareInv
  <2>3. AloneOk(t)'
    BY <1>1 DEF UnshareInv, AloneOk, check_unshare_flags, thread_group_empty, SighandAlone,
                current_is_single_threaded
  <2>4. QED
    BY <2>1, <2>2, <2>3
<1>5. \A r \in Reader : LinkOk(r)'
  BY <1>1 DEF UnshareInv, LinkOk
<1>6. QED
  BY <1>2, <1>3, <1>4, <1>5 DEF UnshareInv

\* Every step keeps it.
LEMMA UnshareNext ==
    ASSUME UnshareInv, [Next]_vars PROVE UnshareInv'
<1>1. ASSUME NEW t \in Task, Step(t), load' = load PROVE UnshareInv'
  BY <1>1, BeginStep, UnshareFsStep, UnshareFdStep, NamespacesStep, SwitchStep, PutFdStep,
     FreeNewFsStep, ReturnStep, UnshareFilesStep, ExecSwapStep, ExitStep DEF Step
<1>2. ASSUME NEW p \in Task, NEW t \in Task, NEW f \in load.clones, Clone(p, t, f), load' = load
      PROVE  UnshareInv'
  BY <1>2, CloneStep
<1>3. ASSUME NEW r \in Reader, proc_cwd_link(r), load' = load PROVE UnshareInv'
  BY <1>3, LinkReadStep
<1>4. ASSUME NEW r \in Reader, NEW t \in Task, LinkFind(r, t), load' = load PROVE UnshareInv'
  BY <1>4, LinkFindStep
<1>5. CASE UNCHANGED vars
  BY <1>5, UnshareStutter
<1>6. QED
  BY <1>1, <1>2, <1>3, <1>4, <1>5 DEF Next

\* The counts are bounded by the number of tasks.
LEMMA InvGivesTypes ==
    ASSUME UnshareInv PROVE TypeOK
<1>0. Cardinality(Task) \in Nat
  BY UnshareAssumption, FS_CardinalityType
<1>1. ASSUME NEW f \in Fs PROVE users[f] \in 0 .. Cardinality(Task) + 1
  <2>1. users[f] = Cardinality(HoldFs(f)) + Cardinality(CopyFs(f))
    BY DEF UnshareInv, Counts
  <2>2. /\ Cardinality(HoldFs(f)) \in Nat /\ Cardinality(HoldFs(f)) <= Cardinality(Task)
        /\ Cardinality(CopyFs(f)) \in Nat
    BY SetsFinite, UnshareAssumption, FS_Subset, FS_CardinalityType
  <2>3. CASE CopyFs(f) = {}
    <3>1. Cardinality(CopyFs(f)) = 0
      BY <2>3, FS_EmptySet
    <3>2. QED
      BY <1>0, <2>1, <2>2, <3>1
  <2>4. ASSUME NEW t \in CopyFs(f) PROVE users[f] \in 0 .. Cardinality(Task) + 1
    <3>1. t \in Task /\ new[t].fs = f /\ Copying(t) /\ FsOk(t) /\ f # None
      BY Constants, SetsFinite DEF CopyFs, Copying, UnshareInv
    <3>2. users[f] = 1
      BY <3>1 DEF FsOk
    <3>3. QED
      BY <1>0, <3>2
  <2>5. QED
    BY <2>3, <2>4
<1>2. ASSUME NEW f \in Files PROVE count[f] \in 0 .. Cardinality(Task) + 1
  <2>1. count[f] = Cardinality(HoldFd(f)) + Cardinality(CopyFd(f))
    BY DEF UnshareInv, Counts
  <2>2. /\ IsFiniteSet(HoldFd(f)) /\ IsFiniteSet(CopyFd(f))
        /\ Cardinality(HoldFd(f)) \in Nat /\ Cardinality(CopyFd(f)) \in Nat
    BY SetsFinite, FS_CardinalityType
  <2>3. HoldFd(f) \cap CopyFd(f) = {} /\ HoldFd(f) \cup CopyFd(f) \subseteq Task
    BY Constants DEF HoldFd, CopyFd, UnshareInv, Shapes, CallOk
  <2>4. Cardinality(HoldFd(f) \cup CopyFd(f)) = Cardinality(HoldFd(f)) + Cardinality(CopyFd(f))
    <3>1. Cardinality(HoldFd(f) \cup CopyFd(f)) =
            Cardinality(HoldFd(f)) + Cardinality(CopyFd(f)) - Cardinality(HoldFd(f) \cap CopyFd(f))
      BY <2>2, FS_Union
    <3>2. Cardinality(HoldFd(f) \cap CopyFd(f)) = 0
      BY <2>3, FS_EmptySet
    <3>3. QED
      BY <2>2, <3>1, <3>2
  <2>5. Cardinality(HoldFd(f) \cup CopyFd(f)) <= Cardinality(Task)
    BY <2>3, UnshareAssumption, FS_Subset
  <2>6. QED
    BY <1>0, <2>1, <2>2, <2>4, <2>5
<1>3. QED
  BY <1>1, <1>2 DEF TypeOK, UnshareInv, Shapes

(***************************************************************************)
(* The theorems.                                                           *)
(***************************************************************************)
\* UnshareInv holds in every state of every behaviour.
THEOREM UnshareInductive == Spec => []UnshareInv
<1>1. Init => UnshareInv
  BY UnshareInit
<1>2. UnshareInv /\ [Next]_vars => UnshareInv'
  BY UnshareNext
<1>3. QED
  BY <1>1, <1>2, PTL DEF Spec

\* For any number of tasks, users and count say how many have an fs_struct or a
\* files_struct, in whatever order sharers unshare, exec, clone and exit.
THEOREM CountsStayExact == Spec => []CountsExact
<1>1. UnshareInv => CountsExact
  <2>1. SUFFICES ASSUME UnshareInv PROVE CountsExact
    OBVIOUS
  <2>2. TypeOK
    BY <2>1, InvGivesTypes
  <2>3. QED
    BY <2>1, <2>2 DEF UnshareInv, Counts, HoldFs, CopyFs, HoldFd, CopyFd, CountsExact
<1>2. QED
  BY <1>1, UnshareInductive, PTL

\* A reader of /proc/<pid>/cwd never reads an fs_struct its task has let go.
THEOREM LinksReadLive == Spec => []LinkReadsLive
<1>1. UnshareInv => LinkReadsLive
  BY DEF UnshareInv, LinkOk, LinkReadsLive
<1>2. QED
  BY <1>1, UnshareInductive, PTL

\* An unshare that returns has done all of it or nothing: the caller is alone
\* with what it asked for, or has kept everything it had.
THEOREM UnshareStaysTrue == Spec => []UnshareKeepsPromise
<1>1. UnshareInv => UnshareKeepsPromise
  <2>1. SUFFICES ASSUME UnshareInv, NEW t \in Task, pc[t] = "ret"
                 PROVE  IF err[t] THEN Context(t) = was[t] /\ changed[t] = {}
                        ELSE /\ "FS" \in req[t] => users[fs[t]] = 1
                             /\ "FILES" \in req[t] => count[files[t]] = 1
                             /\ "NEWUSER" \in req[t] => "cred" \in changed[t]
                             /\ WantsNs(t) => "nsproxy" \in changed[t]
                             /\ DropsSem(t) => "undo" \in changed[t]
                             /\ req[t] \cap {"NEWUSER", "THREAD"} # {} => thread_group_empty(t)
                             /\ "SIGHAND" \in req[t] => SighandAlone(t)
                             /\ "VM" \in req[t] => \A u \in alive \ {t} : mm[u] # mm[t]
    BY DEF UnshareKeepsPromise
  <2>2. FsOk(t) /\ FdOk(t) /\ CallOk(t) /\ AloneOk(t) /\ err[t] \in BOOLEAN
    BY <2>1 DEF UnshareInv, Shapes
  <2>3. CASE err[t]
    BY <2>1, <2>2, <2>3 DEF CallOk
  <2>4. CASE ~err[t]
    <3>1. users[fs[t]] = 1 \/ "FS" \notin req[t]
      BY <2>1, <2>2, <2>4 DEF FsOk
    <3>2. count[files[t]] = 1 \/ "FILES" \notin req[t]
      BY <2>1, <2>2, <2>4 DEF FdOk
    <3>3. /\ "NEWUSER" \in req[t] => "cred" \in changed[t]
          /\ WantsNs(t) => "nsproxy" \in changed[t]
          /\ DropsSem(t) => "undo" \in changed[t]
      BY <2>1, <2>2, <2>4 DEF CallOk
    <3>4. check_unshare_flags(t, req[t]) /\ ("NEWUSER" \in req[t] => "THREAD" \in req[t])
      BY <2>1, <2>2, <2>4 DEF AloneOk
    <3>5. /\ req[t] \cap {"NEWUSER", "THREAD"} # {} => thread_group_empty(t)
          /\ "SIGHAND" \in req[t] => SighandAlone(t)
      BY <3>4 DEF check_unshare_flags
    <3>6. "VM" \in req[t] => \A u \in alive \ {t} : mm[u] # mm[t]
      BY <3>4 DEF check_unshare_flags, current_is_single_threaded
    <3>7. QED
      BY <2>4, <3>1, <3>2, <3>3, <3>5, <3>6
  <2>5. QED
    BY <2>2, <2>3, <2>4
<1>2. QED
  BY <1>1, UnshareInductive, PTL
=============================================================================
