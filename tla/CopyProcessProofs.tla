-------------------------- MODULE CopyProcessProofs -------------------------
(***************************************************************************)
(* Theorems about CopyProcess, for any number of callers, any calls and    *)
(* any limits.                                                             *)
(***************************************************************************)
EXTENDS CopyProcess, FiniteSetTheorems, TLAPS

\* The rung of a resource.
Rank(r) ==
    CASE r = "creds" -> 1 [] r = "policy" -> 2 [] r = "perf" -> 3 [] r = "audit" -> 4
      [] r = "security" -> 5 [] r = "semundo" -> 6 [] r = "files" -> 7 [] r = "fs" -> 8
      [] r = "sighand" -> 9 [] r = "signal" -> 10 [] r = "mm" -> 11 [] r = "namespaces" -> 12
      [] r = "io" -> 13 [] r = "thread" -> 14 [] r = "pid" -> 15 [] r = "pidfd" -> 16
      [] OTHER -> 17

(***************************************************************************)
(* What each place in kernel_clone and each state of the child tell.       *)
(***************************************************************************)
\* Where the caller is tells what its child is and how far it has climbed.
PlaceOk(c) ==
    /\ pc[c] = "idle" => kid[c] \in {"none", "run", "dead"}
    /\ pc[c] \in {"dup", "out"} => kid[c] = "none"
    /\ pc[c] \in {"nproc", "climb", "limit", "attach", "unwind", "free"} => kid[c] = "new"
    /\ pc[c] = "wake" => kid[c] = "live"
    /\ pc[c] \in {"vwait", "vkill"} => kid[c] \in {"run", "dead", "reaped"}
    /\ pc[c] \in {"idle", "dup", "nproc", "free", "out", "vwait", "vkill"} => rung[c] = 0
    /\ pc[c] = "limit" => rung[c] = 1
    /\ pc[c] = "climb" => rung[c] < Top
    /\ pc[c] \in {"attach", "wake"} => rung[c] = Top
    /\ pc[c] = "unwind" => rung[c] > 0

\* One reference for the child itself, one for a caller that waits for it.
UsageOk(c) ==
    usage[c] = (IF kid[c] \in {"new", "live", "run", "dead"} THEN 1 ELSE 0)
               + (IF pc[c] \in {"vwait", "vkill"} THEN 1 ELSE 0)

\* The child knows the frame only while the caller waits and was not told yet.
FrameOk(c) ==
    /\ vfork_done[c] => pc[c] \in {"vwait", "vkill"}
    /\ pc[c] = "vwait" /\ completed[c] => ~vfork_done[c]

FlagOk(c) ==
    /\ "THREAD" \in flags[c] => {"SIGHAND", "VM"} \subseteq flags[c]
    /\ "CLEAR_SIGHAND" \in flags[c] => "SIGHAND" \notin flags[c]

NodeOk(c) == c \in multiprocess => pc[c] \notin Outside

Local(c) == PlaceOk(c) /\ UsageOk(c) /\ FrameOk(c) /\ FlagOk(c) /\ NodeOk(c)

(***************************************************************************)
(* What the child of c has, and what is counted for it.                    *)
(***************************************************************************)
Reached(c, r) ==
    \/ kid[c] = "new" /\ Rank(r) <= rung[c]
    \/ kid[c] \in {"live", "run"}
    \/ kid[c] = "dead" /\ r \in Kept

Owns(c, r) == Reached(c, r) /\ ~Shared(c, r) /\ (r = "pidfd" => "PIDFD" \in flags[c])
Refs(c, r) == Reached(c, r) /\ Shared(c, r) /\ (r = "signal" => kid[c] # "new")

\* The child is counted in nr_threads; in user->processes.
Born(c) == kid[c] \in {"live", "run", "dead"}
Charged(c) == Born(c) \/ (kid[c] = "new" /\ rung[c] > 0)

\* The caller has passed a check and its child is not yet counted.
PastThreads(c) == pc[c] = "attach" \/ (pc[c] = "climb" /\ rung[c] > 0)
PastNproc(c) == pc[c] = "climb" /\ rung[c] = 0

Sharers(r) == {c \in Caller : Refs(c, r)}
AllBorn == {c \in Caller : Born(c)}
AllCharged == {c \in Caller : Charged(c)}
AllPastThreads == {c \in Caller : PastThreads(c)}
AllPastNproc == {c \in Caller : PastNproc(c)}

OwnOk == \A c \in Caller, r \in Res : <<c, r>> \in own <=> Owns(c, r)
CountsOk ==
    /\ \A r \in Counted : cnt[r] = N + Cardinality(Sharers(r))
    /\ nr_threads = N + crowd + Cardinality(AllBorn)
    /\ processes = N + crowd + Cardinality(AllCharged)
LimitsOk ==
    /\ nr_threads + Cardinality(AllPastThreads) < MaxThreads + N
    /\ Privileged \/ processes + Cardinality(AllPastNproc) < Nproc + N

CloneInv == TypeOK /\ (\A c \in Caller : Local(c)) /\ OwnOk /\ CountsOk /\ LimitsOk

(***************************************************************************)
(* The constants, the ladder and counting.                                 *)
(***************************************************************************)
LEMMA Constants ==
    /\ N \in Nat /\ N > 0 /\ MaxThreads \in Nat /\ Nproc \in Nat
    /\ MaxThreads >= N /\ Nproc >= N /\ IsFiniteSet(Caller)
<1>1. N \in Nat /\ Cardinality(Caller) = N
  BY CloneAssumption, FS_CardinalityType DEF N
<1>2. N # 0
  BY <1>1, CloneAssumption, FS_EmptySet
<1>3. QED
  BY <1>1, <1>2, CloneAssumption

\* Every resource has one rung.
LEMMA LadderRank ==
    /\ \A k \in 1 .. Top : Ladder[k] \in Res /\ Rank(Ladder[k]) = k
    /\ \A r \in Res : Rank(r) \in 1 .. Top /\ Ladder[Rank(r)] = r
<1>1. ASSUME NEW k \in 1 .. Top PROVE Ladder[k] \in Res /\ Rank(Ladder[k]) = k
  <2>1. \/ k \in {1, 2, 3, 4, 5, 6}
        \/ k \in {7, 8, 9, 10, 11, 12}
        \/ k \in {13, 14, 15, 16, 17}
    BY DEF Top
  <2>2. CASE k \in {1, 2, 3, 4, 5, 6}
    BY <2>2 DEF Ladder, Res, Rank
  <2>3. CASE k \in {7, 8, 9, 10, 11, 12}
    BY <2>3 DEF Ladder, Res, Rank
  <2>4. CASE k \in {13, 14, 15, 16, 17}
    BY <2>4 DEF Ladder, Res, Rank
  <2>5. QED
    BY <2>1, <2>2, <2>3, <2>4
<1>2. ASSUME NEW r \in Res PROVE Rank(r) \in 1 .. Top /\ Ladder[Rank(r)] = r
  BY DEF Ladder, Res, Rank, Top
<1>3. QED
  BY <1>1, <1>2

\* Two sets that differ at most in t.
LEMMA Differ ==
    ASSUME NEW S, NEW R, NEW t, IsFiniteSet(S), \A u : u # t => (u \in R <=> u \in S)
    PROVE  /\ IsFiniteSet(R) /\ Cardinality(R) \in Nat /\ Cardinality(S) \in Nat
           /\ Cardinality(R) = Cardinality(S) + (IF t \in R THEN 1 ELSE 0)
                                              - (IF t \in S THEN 1 ELSE 0)
<1>0. Cardinality(S) \in Nat
  BY FS_CardinalityType
<1>1. CASE t \in R <=> t \in S
  <2>1. R = S
    BY <1>1
  <2>2. QED
    BY <1>0, <2>1
<1>2. CASE t \in R /\ t \notin S
  <2>1. R = S \cup {t}
    BY <1>2
  <2>2. QED
    BY <1>0, <1>2, <2>1, FS_AddElement
<1>3. CASE t \notin R /\ t \in S
  <2>1. R = S \ {t}
    BY <1>3
  <2>2. IsFiniteSet(R) /\ Cardinality(R) = Cardinality(S) - 1
    BY <1>3, <2>1, FS_RemoveElement
  <2>3. Cardinality(R) \in Nat
    BY <2>2, FS_CardinalityType
  <2>4. QED
    BY <1>0, <1>3, <2>2, <2>3
<1>4. QED
  BY <1>1, <1>2, <1>3

(***************************************************************************)
(* A step of the caller c, or of its child.                                *)
(***************************************************************************)
\* The other callers and their children stay as they are.
OthersStay(c) ==
    \A d \in Caller \ {c} :
        /\ pc'[d] = pc[d] /\ flags'[d] = flags[d] /\ rung'[d] = rung[d]
        /\ kid'[d] = kid[d] /\ usage'[d] = usage[d]
        /\ vfork_done'[d] = vfork_done[d] /\ completed'[d] = completed[d]
        /\ d \in multiprocess' <=> d \in multiprocess
        /\ \A r \in Res : <<d, r>> \in own' <=> <<d, r>> \in own

\* What the child has is what it is said to own, and the counts follow what it
\* shares and what is counted for it.
Accounts(c) ==
    /\ \A r \in Res : <<c, r>> \in own' <=> Owns(c, r)'
    /\ \A r \in Counted : cnt'[r] = cnt[r] + (IF Refs(c, r)' THEN 1 ELSE 0)
                                           - (IF Refs(c, r) THEN 1 ELSE 0)
    /\ nr_threads' = nr_threads + (crowd' - crowd) + (IF Born(c)' THEN 1 ELSE 0)
                                                   - (IF Born(c) THEN 1 ELSE 0)
    /\ processes' = processes + (crowd' - crowd) + (IF Charged(c)' THEN 1 ELSE 0)
                                                 - (IF Charged(c) THEN 1 ELSE 0)

\* A child is counted by a caller that has passed the check, and the check is
\* passed only below the limit.
Checks(c) ==
    /\ \/ nr_threads' + (IF PastThreads(c)' THEN 1 ELSE 0)
            <= nr_threads + (IF PastThreads(c) THEN 1 ELSE 0)
       \/ nr_threads' = nr_threads /\ nr_threads < MaxThreads
    /\ \/ processes' + (IF PastNproc(c)' THEN 1 ELSE 0)
            <= processes + (IF PastNproc(c) THEN 1 ELSE 0)
       \/ processes' = processes /\ (Privileged \/ processes < Nproc)

LEMMA OthersKeep ==
    ASSUME NEW c \in Caller, OthersStay(c), NEW d \in Caller, d # c
    PROVE  /\ Local(d)' <=> Local(d)
           /\ \A r \in Res : (Owns(d, r)' <=> Owns(d, r)) /\ (Refs(d, r)' <=> Refs(d, r))
           /\ Born(d)' <=> Born(d)
           /\ Charged(d)' <=> Charged(d)
           /\ PastThreads(d)' <=> PastThreads(d)
           /\ PastNproc(d)' <=> PastNproc(d)
<1>1. /\ pc'[d] = pc[d] /\ flags'[d] = flags[d] /\ rung'[d] = rung[d]
      /\ kid'[d] = kid[d] /\ usage'[d] = usage[d]
      /\ vfork_done'[d] = vfork_done[d] /\ completed'[d] = completed[d]
      /\ d \in multiprocess' <=> d \in multiprocess
  BY DEF OthersStay
<1>2. \A r \in Res : (Reached(d, r)' <=> Reached(d, r)) /\ (Shared(d, r)' <=> Shared(d, r))
  BY <1>1 DEF Reached, Shared
<1>3. \A r \in Res : (Owns(d, r)' <=> Owns(d, r)) /\ (Refs(d, r)' <=> Refs(d, r))
  BY <1>1, <1>2 DEF Owns, Refs
<1>4. /\ PlaceOk(d)' <=> PlaceOk(d)
      /\ UsageOk(d)' <=> UsageOk(d)
      /\ FlagOk(d)' <=> FlagOk(d)
      /\ NodeOk(d)' <=> NodeOk(d)
  BY <1>1 DEF PlaceOk, UsageOk, FlagOk, NodeOk
<1>5. FrameOk(d)' <=> FrameOk(d)
  BY <1>1 DEF FrameOk
<1>6. /\ Born(d)' <=> Born(d)
      /\ Charged(d)' <=> Charged(d)
      /\ PastThreads(d)' <=> PastThreads(d)
      /\ PastNproc(d)' <=> PastNproc(d)
  BY <1>1 DEF Born, Charged, PastThreads, PastNproc
<1>7. QED
  BY <1>3, <1>4, <1>5, <1>6 DEF Local

\* The sets of callers that are counted, after a step of c.
LEMMA Recount ==
    ASSUME NEW c \in Caller, OthersStay(c)
    PROVE  /\ \A r \in Counted :
                /\ Cardinality(Sharers(r)) \in Nat /\ Cardinality(Sharers(r)') \in Nat
                /\ Cardinality(Sharers(r)') = Cardinality(Sharers(r))
                     + (IF Refs(c, r)' THEN 1 ELSE 0) - (IF Refs(c, r) THEN 1 ELSE 0)
           /\ Cardinality(AllBorn) \in Nat /\ Cardinality(AllBorn') \in Nat
           /\ Cardinality(AllBorn') = Cardinality(AllBorn)
                + (IF Born(c)' THEN 1 ELSE 0) - (IF Born(c) THEN 1 ELSE 0)
           /\ Cardinality(AllCharged) \in Nat /\ Cardinality(AllCharged') \in Nat
           /\ Cardinality(AllCharged') = Cardinality(AllCharged)
                + (IF Charged(c)' THEN 1 ELSE 0) - (IF Charged(c) THEN 1 ELSE 0)
           /\ Cardinality(AllPastThreads) \in Nat /\ Cardinality(AllPastThreads') \in 0 .. N
           /\ Cardinality(AllPastThreads') = Cardinality(AllPastThreads)
                + (IF PastThreads(c)' THEN 1 ELSE 0) - (IF PastThreads(c) THEN 1 ELSE 0)
           /\ Cardinality(AllPastNproc) \in Nat /\ Cardinality(AllPastNproc') \in 0 .. N
           /\ Cardinality(AllPastNproc') = Cardinality(AllPastNproc)
                + (IF PastNproc(c)' THEN 1 ELSE 0) - (IF PastNproc(c) THEN 1 ELSE 0)
<1>0. IsFiniteSet(Caller) /\ N = Cardinality(Caller) /\ N \in Nat
  BY Constants DEF N
<1>1. ASSUME NEW r \in Counted
      PROVE  /\ Cardinality(Sharers(r)) \in Nat /\ Cardinality(Sharers(r)') \in Nat
             /\ Cardinality(Sharers(r)') = Cardinality(Sharers(r))
                  + (IF Refs(c, r)' THEN 1 ELSE 0) - (IF Refs(c, r) THEN 1 ELSE 0)
  <2>1. r \in Res
    BY DEF Counted, Res
  <2>2. PICK S : S = Sharers(r)
    OBVIOUS
  <2>3. PICK R : R = Sharers(r)'
    OBVIOUS
  <2>4. IsFiniteSet(S)
    BY <1>0, <2>2, FS_Subset DEF Sharers
  <2>5. \A u : u # c => (u \in R <=> u \in S)
    BY <2>1, <2>2, <2>3, OthersKeep DEF Sharers
  <2>6. (c \in R <=> Refs(c, r)') /\ (c \in S <=> Refs(c, r))
    BY <2>2, <2>3 DEF Sharers
  <2>7. /\ Cardinality(S) \in Nat /\ Cardinality(R) \in Nat
        /\ Cardinality(R) = Cardinality(S) + (IF c \in R THEN 1 ELSE 0)
                                           - (IF c \in S THEN 1 ELSE 0)
    BY <2>4, <2>5, Differ
  <2>8. QED
    BY <2>2, <2>3, <2>6, <2>7
<1>2. /\ Cardinality(AllBorn) \in Nat /\ Cardinality(AllBorn') \in 0 .. N
      /\ Cardinality(AllBorn') = Cardinality(AllBorn)
           + (IF Born(c)' THEN 1 ELSE 0) - (IF Born(c) THEN 1 ELSE 0)
  <2>1. PICK S : S = AllBorn
    OBVIOUS
  <2>2. PICK R : R = AllBorn'
    OBVIOUS
  <2>3. IsFiniteSet(S)
    BY <1>0, <2>1, FS_Subset DEF AllBorn
  <2>4. \A u : u # c => (u \in R <=> u \in S)
    BY <2>1, <2>2, OthersKeep DEF AllBorn
  <2>5. (c \in R <=> Born(c)') /\ (c \in S <=> Born(c))
    BY <2>1, <2>2 DEF AllBorn
  <2>6. /\ Cardinality(S) \in Nat /\ Cardinality(R) \in Nat
        /\ Cardinality(R) = Cardinality(S) + (IF c \in R THEN 1 ELSE 0)
                                           - (IF c \in S THEN 1 ELSE 0)
    BY <2>3, <2>4, Differ
  <2>7. Cardinality(R) <= N
    BY <1>0, <2>2, FS_Subset DEF AllBorn
  <2>8. QED
    BY <1>0, <2>1, <2>2, <2>5, <2>6, <2>7
<1>3. /\ Cardinality(AllCharged) \in Nat /\ Cardinality(AllCharged') \in 0 .. N
      /\ Cardinality(AllCharged') = Cardinality(AllCharged)
           + (IF Charged(c)' THEN 1 ELSE 0) - (IF Charged(c) THEN 1 ELSE 0)
  <2>1. PICK S : S = AllCharged
    OBVIOUS
  <2>2. PICK R : R = AllCharged'
    OBVIOUS
  <2>3. IsFiniteSet(S)
    BY <1>0, <2>1, FS_Subset DEF AllCharged
  <2>4. \A u : u # c => (u \in R <=> u \in S)
    BY <2>1, <2>2, OthersKeep DEF AllCharged
  <2>5. (c \in R <=> Charged(c)') /\ (c \in S <=> Charged(c))
    BY <2>1, <2>2 DEF AllCharged
  <2>6. /\ Cardinality(S) \in Nat /\ Cardinality(R) \in Nat
        /\ Cardinality(R) = Cardinality(S) + (IF c \in R THEN 1 ELSE 0)
                                           - (IF c \in S THEN 1 ELSE 0)
    BY <2>3, <2>4, Differ
  <2>7. Cardinality(R) <= N
    BY <1>0, <2>2, FS_Subset DEF AllCharged
  <2>8. QED
    BY <1>0, <2>1, <2>2, <2>5, <2>6, <2>7
<1>4. /\ Cardinality(AllPastThreads) \in Nat /\ Cardinality(AllPastThreads') \in 0 .. N
      /\ Cardinality(AllPastThreads') = Cardinality(AllPastThreads)
           + (IF PastThreads(c)' THEN 1 ELSE 0) - (IF PastThreads(c) THEN 1 ELSE 0)
  <2>1. PICK S : S = AllPastThreads
    OBVIOUS
  <2>2. PICK R : R = AllPastThreads'
    OBVIOUS
  <2>3. IsFiniteSet(S)
    BY <1>0, <2>1, FS_Subset DEF AllPastThreads
  <2>4. \A u : u # c => (u \in R <=> u \in S)
    BY <2>1, <2>2, OthersKeep DEF AllPastThreads
  <2>5. (c \in R <=> PastThreads(c)') /\ (c \in S <=> PastThreads(c))
    BY <2>1, <2>2 DEF AllPastThreads
  <2>6. /\ Cardinality(S) \in Nat /\ Cardinality(R) \in Nat
        /\ Cardinality(R) = Cardinality(S) + (IF c \in R THEN 1 ELSE 0)
                                           - (IF c \in S THEN 1 ELSE 0)
    BY <2>3, <2>4, Differ
  <2>7. Cardinality(R) <= N
    BY <1>0, <2>2, FS_Subset DEF AllPastThreads
  <2>8. QED
    BY <1>0, <2>1, <2>2, <2>5, <2>6, <2>7
<1>5. /\ Cardinality(AllPastNproc) \in Nat /\ Cardinality(AllPastNproc') \in 0 .. N
      /\ Cardinality(AllPastNproc') = Cardinality(AllPastNproc)
           + (IF PastNproc(c)' THEN 1 ELSE 0) - (IF PastNproc(c) THEN 1 ELSE 0)
  <2>1. PICK S : S = AllPastNproc
    OBVIOUS
  <2>2. PICK R : R = AllPastNproc'
    OBVIOUS
  <2>3. IsFiniteSet(S)
    BY <1>0, <2>1, FS_Subset DEF AllPastNproc
  <2>4. \A u : u # c => (u \in R <=> u \in S)
    BY <2>1, <2>2, OthersKeep DEF AllPastNproc
  <2>5. (c \in R <=> PastNproc(c)') /\ (c \in S <=> PastNproc(c))
    BY <2>1, <2>2 DEF AllPastNproc
  <2>6. /\ Cardinality(S) \in Nat /\ Cardinality(R) \in Nat
        /\ Cardinality(R) = Cardinality(S) + (IF c \in R THEN 1 ELSE 0)
                                           - (IF c \in S THEN 1 ELSE 0)
    BY <2>3, <2>4, Differ
  <2>7. Cardinality(R) <= N
    BY <1>0, <2>2, FS_Subset DEF AllPastNproc
  <2>8. QED
    BY <1>0, <2>1, <2>2, <2>5, <2>6, <2>7
<1>6. QED
  BY <1>0, <1>1, <1>2, <1>3, <1>4, <1>5

\* So a step of c keeps the invariant when it keeps c's part of it.
LEMMA StepOf ==
    ASSUME CloneInv, NEW c \in Caller, TypeOK', OthersStay(c), Local(c)',
           Accounts(c), Checks(c)
    PROVE  CloneInv'
<1>1. \A d \in Caller : Local(d)'
  BY OthersKeep DEF CloneInv
<1>2. OwnOk'
  <2>1. ASSUME NEW d \in Caller, NEW r \in Res PROVE <<d, r>> \in own' <=> Owns(d, r)'
    <3>1. CASE d = c
      BY <3>1 DEF Accounts
    <3>2. CASE d # c
      BY <3>2, OthersKeep DEF CloneInv, OwnOk, OthersStay
    <3>3. QED
      BY <3>1, <3>2
  <2>2. QED
    BY <2>1 DEF OwnOk
<1>3. /\ N \in Nat /\ MaxThreads \in Nat /\ Nproc \in Nat
      /\ nr_threads \in Int /\ processes \in Int /\ crowd \in Nat
      /\ nr_threads' \in Int /\ processes' \in Int /\ crowd' \in Nat
      /\ \A r \in Counted : cnt[r] \in Int
  BY Constants DEF CloneInv, TypeOK
<1>4. CountsOk'
  <2>1. \A r \in Counted : cnt'[r] = N + Cardinality(Sharers(r)')
    BY <1>3, Recount DEF CloneInv, CountsOk, Accounts
  <2>2. nr_threads' = N + crowd' + Cardinality(AllBorn')
    BY <1>3, Recount DEF CloneInv, CountsOk, Accounts
  <2>3. processes' = N + crowd' + Cardinality(AllCharged')
    BY <1>3, Recount DEF CloneInv, CountsOk, Accounts
  <2>4. QED
    BY <2>1, <2>2, <2>3 DEF CountsOk
<1>5. LimitsOk'
  <2>1. nr_threads' + Cardinality(AllPastThreads') < MaxThreads + N
    <3>1. PICK x : x = Cardinality(AllPastThreads)
      OBVIOUS
    <3>2. PICK y : y = Cardinality(AllPastThreads')
      OBVIOUS
    <3>3. /\ x \in Nat /\ y \in Nat /\ y <= N
          /\ y = x + (IF PastThreads(c)' THEN 1 ELSE 0) - (IF PastThreads(c) THEN 1 ELSE 0)
      BY <1>3, <3>1, <3>2, Recount
    <3>4. nr_threads + x < MaxThreads + N
      BY <3>1 DEF CloneInv, LimitsOk
    <3>5. PICK i \in Int : i = (IF PastThreads(c)' THEN 1 ELSE 0)
      OBVIOUS
    <3>6. PICK j \in Int : j = (IF PastThreads(c) THEN 1 ELSE 0)
      OBVIOUS
    <3>7. nr_threads' + i <= nr_threads + j \/ (nr_threads' = nr_threads /\ nr_threads < MaxThreads)
      BY <3>5, <3>6 DEF Checks
    <3>8. x \in Nat /\ y \in Nat /\ i \in Int /\ j \in Int /\ y <= N /\ y = (x + i) - j
      BY <3>3, <3>5, <3>6
    <3>9. CASE nr_threads' + i <= nr_threads + j
      <4>1. MaxThreads + N \in Int /\ Nproc + N \in Int /\ x \in Int /\ y \in Int
        BY <1>3, <3>8
      <4>2. PICK v \in Int : v = nr_threads
        BY <1>3
      <4>3. PICK w \in Int : w = nr_threads'
        BY <1>3
      <4>4. PICK b \in Int : b = MaxThreads + N
        BY <4>1
      <4>5. w + i <= v + j
        BY <3>9, <4>2, <4>3
      <4>6. v + x < b
        BY <3>4, <4>2, <4>4
      <4>7. y = (x + i) - j
        BY <3>8
      <4>8. w + y < b
        BY <4>1, <4>5, <4>6, <4>7
      <4>9. QED
        BY <3>2, <4>3, <4>4, <4>8
    <3>10. CASE nr_threads' = nr_threads /\ nr_threads < MaxThreads
      BY <1>3, <3>2, <3>8, <3>10
    <3>11. QED
      BY <3>7, <3>9, <3>10
  <2>2. Privileged \/ processes' + Cardinality(AllPastNproc') < Nproc + N
    <3>1. PICK x : x = Cardinality(AllPastNproc)
      OBVIOUS
    <3>2. PICK y : y = Cardinality(AllPastNproc')
      OBVIOUS
    <3>3. /\ x \in Nat /\ y \in Nat /\ y <= N
          /\ y = x + (IF PastNproc(c)' THEN 1 ELSE 0) - (IF PastNproc(c) THEN 1 ELSE 0)
      BY <1>3, <3>1, <3>2, Recount
    <3>4. Privileged \/ processes + x < Nproc + N
      BY <3>1 DEF CloneInv, LimitsOk
    <3>5. PICK i \in Int : i = (IF PastNproc(c)' THEN 1 ELSE 0)
      OBVIOUS
    <3>6. PICK j \in Int : j = (IF PastNproc(c) THEN 1 ELSE 0)
      OBVIOUS
    <3>7. \/ processes' + i <= processes + j
          \/ processes' = processes /\ (Privileged \/ processes < Nproc)
      BY <3>5, <3>6 DEF Checks
    <3>8. x \in Nat /\ y \in Nat /\ i \in Int /\ j \in Int /\ y <= N /\ y = (x + i) - j
      BY <3>3, <3>5, <3>6
    <3>9. CASE processes' + i <= processes + j
      <4>1. MaxThreads + N \in Int /\ Nproc + N \in Int /\ x \in Int /\ y \in Int
        BY <1>3, <3>8
      <4>2. PICK v \in Int : v = processes
        BY <1>3
      <4>3. PICK w \in Int : w = processes'
        BY <1>3
      <4>4. PICK b \in Int : b = Nproc + N
        BY <4>1
      <4>5. w + i <= v + j
        BY <3>9, <4>2, <4>3
      <4>6. Privileged \/ v + x < b
        BY <3>4, <4>2, <4>4
      <4>7. y = (x + i) - j
        BY <3>8
      <4>8. Privileged \/ w + y < b
        BY <4>1, <4>5, <4>6, <4>7
      <4>9. QED
        BY <3>2, <4>3, <4>4, <4>8
    <3>10. CASE processes' = processes /\ (Privileged \/ processes < Nproc)
      BY <1>3, <3>2, <3>8, <3>10
    <3>11. QED
      BY <3>7, <3>9, <3>10
  <2>3. QED
    BY <2>1, <2>2 DEF LimitsOk
<1>6. QED
  BY <1>1, <1>2, <1>4, <1>5 DEF CloneInv

\* What the invariant says of c before the step.
LEMMA Before ==
    ASSUME CloneInv, NEW c \in Caller
    PROVE  /\ TypeOK /\ Local(c)
           /\ pc[c] \in PCs /\ flags[c] \subseteq Flag /\ rung[c] \in 0 .. Top
           /\ kid[c] \in {"none", "new", "live", "run", "dead", "reaped"}
           /\ usage[c] \in 0 .. 2
           /\ vfork_done[c] \in BOOLEAN /\ completed[c] \in BOOLEAN
           /\ nr_threads \in Int /\ processes \in Int /\ crowd \in Nat
           /\ \A r \in Res : <<c, r>> \in own <=> Owns(c, r)
           /\ \A r \in Counted : cnt[r] \in Int
  BY DEF CloneInv, TypeOK, OwnOk

(***************************************************************************)
(* Steps of the caller that only go to another place.                      *)
(***************************************************************************)
LEMMA Goes ==
    ASSUME CloneInv, NEW c \in Caller, NEW p \in PCs, pc' = [pc EXCEPT ![c] = p],
           UNCHANGED <<flags, rung, keepCounts, multiprocess, keepKids>>,
           Local(c)', Checks(c)
    PROVE  CloneInv'
<1>1. /\ flags' = flags /\ rung' = rung /\ cnt' = cnt /\ own' = own
      /\ processes' = processes /\ nr_threads' = nr_threads
      /\ multiprocess' = multiprocess /\ kid' = kid /\ crowd' = crowd
      /\ usage' = usage /\ vfork_done' = vfork_done /\ completed' = completed
  BY DEF keepCounts, keepKids
<1>2. TypeOK'
  BY <1>1, Before DEF TypeOK
<1>3. \A d \in Caller \ {c} : pc'[d] = pc[d]
  BY Before DEF TypeOK
<1>4. OthersStay(c)
  BY <1>1, <1>3 DEF OthersStay
<1>5. /\ \A r \in Res : Owns(c, r)' <=> Owns(c, r)
      /\ \A r \in Res : Refs(c, r)' <=> Refs(c, r)
      /\ Born(c)' <=> Born(c)
      /\ Charged(c)' <=> Charged(c)
  BY <1>1 DEF Owns, Refs, Reached, Shared, Born, Charged
<1>6. Counted \subseteq Res
  BY DEF Counted, Res
<1>7. Accounts(c)
  BY <1>1, <1>5, <1>6, Before DEF Accounts
<1>8. QED
  BY <1>2, <1>4, <1>7, StepOf

LEMMA DupFailsOk ==
    ASSUME CloneInv, NEW c \in Caller, DupFails(c)
    PROVE  CloneInv'
<1>1. PICK p \in PCs : p = "out"
  BY DEF PCs
<1>2. pc' = [pc EXCEPT ![c] = p]
  BY <1>1 DEF DupFails
<1>3. UNCHANGED <<flags, rung, keepCounts, multiprocess, keepKids>>
  BY DEF DupFails
<1>4. /\ pc'[c] = p /\ flags' = flags /\ rung' = rung /\ multiprocess' = multiprocess
      /\ processes' = processes /\ nr_threads' = nr_threads
      /\ kid' = kid /\ usage' = usage /\ vfork_done' = vfork_done /\ completed' = completed
  BY <1>2, <1>3, Before DEF TypeOK, keepCounts, keepKids
<1>5. PlaceOk(c) /\ UsageOk(c) /\ FrameOk(c) /\ FlagOk(c) /\ NodeOk(c)
  BY Before DEF Local
<1>6. Local(c)'
  <2>1. PlaceOk(c)'
    BY <1>1, <1>4, <1>5, Before DEF PlaceOk, DupFails, Top
  <2>2. UsageOk(c)' /\ FlagOk(c)' /\ NodeOk(c)'
    BY <1>1, <1>4, <1>5 DEF UsageOk, FlagOk, NodeOk, Outside, DupFails
  <2>3. FrameOk(c)'
    BY <1>1, <1>4, <1>5 DEF FrameOk, DupFails
  <2>4. QED
    BY <2>1, <2>2, <2>3 DEF Local
<1>7. Checks(c)
  BY <1>1, <1>4, <1>5, Before, Constants DEF Checks, PastThreads, PastNproc, PlaceOk, DupFails
<1>8. QED
  BY <1>2, <1>3, <1>6, <1>7, Goes

LEMMA CheckNprocOk ==
    ASSUME CloneInv, NEW c \in Caller, CheckNproc(c)
    PROVE  CloneInv'
<1>1. PICK p \in PCs : p = (IF processes >= Nproc /\ ~Privileged THEN "free" ELSE "climb")
  BY DEF PCs
<1>2. pc' = [pc EXCEPT ![c] = p]
  BY <1>1 DEF CheckNproc
<1>3. UNCHANGED <<flags, rung, keepCounts, multiprocess, keepKids>>
  BY DEF CheckNproc
<1>4. /\ pc'[c] = p /\ flags' = flags /\ rung' = rung /\ multiprocess' = multiprocess
      /\ processes' = processes /\ nr_threads' = nr_threads
      /\ kid' = kid /\ usage' = usage /\ vfork_done' = vfork_done /\ completed' = completed
  BY <1>2, <1>3, Before DEF TypeOK, keepCounts, keepKids
<1>5. PlaceOk(c) /\ UsageOk(c) /\ FrameOk(c) /\ FlagOk(c) /\ NodeOk(c)
  BY Before DEF Local
<1>6. Local(c)'
  <2>1. PlaceOk(c)'
    BY <1>1, <1>4, <1>5, Before DEF PlaceOk, CheckNproc, Top
  <2>2. UsageOk(c)' /\ FlagOk(c)' /\ NodeOk(c)'
    BY <1>1, <1>4, <1>5 DEF UsageOk, FlagOk, NodeOk, Outside, CheckNproc
  <2>3. FrameOk(c)'
    BY <1>1, <1>4, <1>5 DEF FrameOk, CheckNproc
  <2>4. QED
    BY <2>1, <2>2, <2>3 DEF Local
<1>7. Checks(c)
  BY <1>1, <1>4, <1>5, Before, Constants DEF Checks, PastThreads, PastNproc, PlaceOk, CheckNproc
<1>8. QED
  BY <1>2, <1>3, <1>6, <1>7, Goes

LEMMA ClimbFailsOk ==
    ASSUME CloneInv, NEW c \in Caller, ClimbFails(c)
    PROVE  CloneInv'
<1>1. PICK p \in PCs : p = (IF rung[c] = 0 THEN "free" ELSE "unwind")
  BY DEF PCs
<1>2. pc' = [pc EXCEPT ![c] = p]
  BY <1>1 DEF ClimbFails
<1>3. UNCHANGED <<flags, rung, keepCounts, multiprocess, keepKids>>
  BY DEF ClimbFails
<1>4. /\ pc'[c] = p /\ flags' = flags /\ rung' = rung /\ multiprocess' = multiprocess
      /\ processes' = processes /\ nr_threads' = nr_threads
      /\ kid' = kid /\ usage' = usage /\ vfork_done' = vfork_done /\ completed' = completed
  BY <1>2, <1>3, Before DEF TypeOK, keepCounts, keepKids
<1>5. PlaceOk(c) /\ UsageOk(c) /\ FrameOk(c) /\ FlagOk(c) /\ NodeOk(c)
  BY Before DEF Local
<1>6. Local(c)'
  <2>1. PlaceOk(c)'
    BY <1>1, <1>4, <1>5, Before DEF PlaceOk, ClimbFails, Top
  <2>2. UsageOk(c)' /\ FlagOk(c)' /\ NodeOk(c)'
    BY <1>1, <1>4, <1>5 DEF UsageOk, FlagOk, NodeOk, Outside, ClimbFails
  <2>3. FrameOk(c)'
    BY <1>1, <1>4, <1>5 DEF FrameOk, ClimbFails
  <2>4. QED
    BY <2>1, <2>2, <2>3 DEF Local
<1>7. Checks(c)
  BY <1>1, <1>4, <1>5, Before, Constants DEF Checks, PastThreads, PastNproc, PlaceOk, ClimbFails
<1>8. QED
  BY <1>2, <1>3, <1>6, <1>7, Goes

LEMMA CheckThreadsOk ==
    ASSUME CloneInv, NEW c \in Caller, CheckThreads(c)
    PROVE  CloneInv'
<1>1. PICK p \in PCs : p = (IF nr_threads >= MaxThreads THEN "unwind" ELSE "climb")
  BY DEF PCs
<1>2. pc' = [pc EXCEPT ![c] = p]
  BY <1>1 DEF CheckThreads
<1>3. UNCHANGED <<flags, rung, keepCounts, multiprocess, keepKids>>
  BY DEF CheckThreads
<1>4. /\ pc'[c] = p /\ flags' = flags /\ rung' = rung /\ multiprocess' = multiprocess
      /\ processes' = processes /\ nr_threads' = nr_threads
      /\ kid' = kid /\ usage' = usage /\ vfork_done' = vfork_done /\ completed' = completed
  BY <1>2, <1>3, Before DEF TypeOK, keepCounts, keepKids
<1>5. PlaceOk(c) /\ UsageOk(c) /\ FrameOk(c) /\ FlagOk(c) /\ NodeOk(c)
  BY Before DEF Local
<1>6. Local(c)'
  <2>1. PlaceOk(c)'
    BY <1>1, <1>4, <1>5, Before DEF PlaceOk, CheckThreads, Top
  <2>2. UsageOk(c)' /\ FlagOk(c)' /\ NodeOk(c)'
    BY <1>1, <1>4, <1>5 DEF UsageOk, FlagOk, NodeOk, Outside, CheckThreads
  <2>3. FrameOk(c)'
    BY <1>1, <1>4, <1>5 DEF FrameOk, CheckThreads
  <2>4. QED
    BY <2>1, <2>2, <2>3 DEF Local
<1>7. Checks(c)
  BY <1>1, <1>4, <1>5, Before, Constants
     DEF Checks, PastThreads, PastNproc, PlaceOk, CheckThreads
<1>8. QED
  BY <1>2, <1>3, <1>6, <1>7, Goes

LEMMA AttachFailsOk ==
    ASSUME CloneInv, NEW c \in Caller, AttachFails(c)
    PROVE  CloneInv'
<1>1. PICK p \in PCs : p = "unwind"
  BY DEF PCs
<1>2. pc' = [pc EXCEPT ![c] = p]
  BY <1>1 DEF AttachFails
<1>3. UNCHANGED <<flags, rung, keepCounts, multiprocess, keepKids>>
  BY DEF AttachFails
<1>4. /\ pc'[c] = p /\ flags' = flags /\ rung' = rung /\ multiprocess' = multiprocess
      /\ processes' = processes /\ nr_threads' = nr_threads
      /\ kid' = kid /\ usage' = usage /\ vfork_done' = vfork_done /\ completed' = completed
  BY <1>2, <1>3, Before DEF TypeOK, keepCounts, keepKids
<1>5. PlaceOk(c) /\ UsageOk(c) /\ FrameOk(c) /\ FlagOk(c) /\ NodeOk(c)
  BY Before DEF Local
<1>6. Local(c)'
  <2>1. PlaceOk(c)'
    BY <1>1, <1>4, <1>5, Before DEF PlaceOk, AttachFails, Top
  <2>2. UsageOk(c)' /\ FlagOk(c)' /\ NodeOk(c)'
    BY <1>1, <1>4, <1>5 DEF UsageOk, FlagOk, NodeOk, Outside, AttachFails
  <2>3. FrameOk(c)'
    BY <1>1, <1>4, <1>5 DEF FrameOk, AttachFails
  <2>4. QED
    BY <2>1, <2>2, <2>3 DEF Local
<1>7. Checks(c)
  BY <1>1, <1>4, <1>5, Before, Constants
     DEF Checks, PastThreads, PastNproc, PlaceOk, AttachFails
<1>8. QED
  BY <1>2, <1>3, <1>6, <1>7, Goes

LEMMA VforkKilledOk ==
    ASSUME CloneInv, NEW c \in Caller, VforkKilled(c)
    PROVE  CloneInv'
<1>1. PICK p \in PCs : p = "vkill"
  BY DEF PCs
<1>2. pc' = [pc EXCEPT ![c] = p]
  BY <1>1 DEF VforkKilled
<1>3. UNCHANGED <<flags, rung, keepCounts, multiprocess, keepKids>>
  BY DEF VforkKilled
<1>4. /\ pc'[c] = p /\ flags' = flags /\ rung' = rung /\ multiprocess' = multiprocess
      /\ processes' = processes /\ nr_threads' = nr_threads
      /\ kid' = kid /\ usage' = usage /\ vfork_done' = vfork_done /\ completed' = completed
  BY <1>2, <1>3, Before DEF TypeOK, keepCounts, keepKids
<1>5. PlaceOk(c) /\ UsageOk(c) /\ FrameOk(c) /\ FlagOk(c) /\ NodeOk(c)
  BY Before DEF Local
<1>6. Local(c)'
  <2>1. PlaceOk(c)'
    BY <1>1, <1>4, <1>5, Before DEF PlaceOk, VforkKilled, Top
  <2>2. UsageOk(c)' /\ FlagOk(c)' /\ NodeOk(c)'
    BY <1>1, <1>4, <1>5 DEF UsageOk, FlagOk, NodeOk, Outside, VforkKilled
  <2>3. FrameOk(c)'
    BY <1>1, <1>4, <1>5 DEF FrameOk, VforkKilled
  <2>4. QED
    BY <2>1, <2>2, <2>3 DEF Local
<1>7. Checks(c)
  BY <1>1, <1>4, <1>5, Before, Constants
     DEF Checks, PastThreads, PastNproc, PlaceOk, VforkKilled
<1>8. QED
  BY <1>2, <1>3, <1>6, <1>7, Goes

(***************************************************************************)
(* Steps that change what the child is, not what it has.                   *)
(***************************************************************************)
LEMMA Keeps ==
    ASSUME CloneInv, NEW c \in Caller, TypeOK', OthersStay(c), Local(c)', Checks(c),
           cnt' = cnt, own' = own, processes' = processes, nr_threads' = nr_threads,
           crowd' = crowd,
           \A r \in Res : (Owns(c, r)' <=> Owns(c, r)) /\ (Refs(c, r)' <=> Refs(c, r)),
           Born(c)' <=> Born(c), Charged(c)' <=> Charged(c)
    PROVE  CloneInv'
<1>1. Counted \subseteq Res
  BY DEF Counted, Res
<1>2. Accounts(c)
  BY <1>1, Before DEF Accounts
<1>3. QED
  BY <1>2, StepOf

LEMMA DupTaskOk ==
    ASSUME CloneInv, NEW c \in Caller, DupTask(c)
    PROVE  CloneInv'
<1>1. PlaceOk(c) /\ UsageOk(c) /\ FrameOk(c) /\ FlagOk(c) /\ NodeOk(c)
  BY Before DEF Local
<1>2. /\ flags' = flags /\ rung' = rung /\ vfork_done' = vfork_done /\ completed' = completed
      /\ cnt' = cnt /\ own' = own /\ processes' = processes /\ nr_threads' = nr_threads
      /\ crowd' = crowd /\ multiprocess' = multiprocess
  BY DEF DupTask, keepCounts, keepKids
<1>3. /\ kid'[c] = "new" /\ usage'[c] = 1 /\ pc'[c] = "nproc"
  BY Before DEF DupTask, TypeOK
<1>4. \A d \in Caller \ {c} :
        /\ kid'[d] = kid[d] /\ usage'[d] = usage[d] /\ pc'[d] = pc[d]
  BY Before DEF DupTask, TypeOK
<1>5. /\ multiprocess' \subseteq Caller
      /\ \A d \in Caller \ {c} : d \in multiprocess' <=> d \in multiprocess
      /\ multiprocess' = multiprocess
  BY <1>1, <1>2, Before DEF DupTask, TypeOK, NodeOk, Outside
<1>6. OthersStay(c)
  BY <1>2, <1>4, <1>5 DEF OthersStay
<1>7. TypeOK'
  BY <1>1, <1>2, <1>5, Before DEF DupTask, TypeOK, PCs, UsageOk, Top
<1>8. PlaceOk(c)'
  BY <1>1, <1>2, <1>3, Before DEF DupTask, PlaceOk, UsageOk, Top
<1>9. UsageOk(c)'
  BY <1>1, <1>2, <1>3, Before DEF DupTask, PlaceOk, UsageOk
<1>10. FrameOk(c)'
  BY <1>1, <1>2, <1>3, Before DEF DupTask, FrameOk
<1>11. FlagOk(c)' /\ NodeOk(c)'
  BY <1>1, <1>2, <1>3, <1>5 DEF DupTask, FlagOk, NodeOk, Outside
<1>12. /\ \A r \in Res : (Owns(c, r)' <=> Owns(c, r)) /\ (Refs(c, r)' <=> Refs(c, r))
       /\ Born(c)' <=> Born(c)
       /\ Charged(c)' <=> Charged(c)
  BY <1>1, <1>2, <1>3, LadderRank
     DEF DupTask, PlaceOk, UsageOk, Owns, Refs, Reached, Shared, Born, Charged, Top
<1>13. Checks(c)
  BY <1>1, <1>2, <1>3, Before DEF DupTask, PlaceOk, Checks, PastThreads, PastNproc
<1>14. QED
  BY <1>2, <1>6, <1>7, <1>8, <1>9, <1>10, <1>11, <1>12, <1>13, Keeps DEF Local

LEMMA FreeTaskOk ==
    ASSUME CloneInv, NEW c \in Caller, FreeTask(c)
    PROVE  CloneInv'
<1>1. PlaceOk(c) /\ UsageOk(c) /\ FrameOk(c) /\ FlagOk(c) /\ NodeOk(c)
  BY Before DEF Local
<1>2. /\ flags' = flags /\ rung' = rung /\ vfork_done' = vfork_done /\ completed' = completed
      /\ cnt' = cnt /\ own' = own /\ processes' = processes /\ nr_threads' = nr_threads
      /\ crowd' = crowd /\ multiprocess' = multiprocess
  BY DEF FreeTask, keepCounts, keepKids
<1>3. /\ kid'[c] = "none" /\ usage'[c] = 0 /\ pc'[c] = "out"
  BY Before DEF FreeTask, TypeOK
<1>4. \A d \in Caller \ {c} :
        /\ kid'[d] = kid[d] /\ usage'[d] = usage[d] /\ pc'[d] = pc[d]
  BY Before DEF FreeTask, TypeOK
<1>5. /\ multiprocess' \subseteq Caller
      /\ \A d \in Caller \ {c} : d \in multiprocess' <=> d \in multiprocess
      /\ multiprocess' = multiprocess
  BY <1>1, <1>2, Before DEF FreeTask, TypeOK, NodeOk, Outside
<1>6. OthersStay(c)
  BY <1>2, <1>4, <1>5 DEF OthersStay
<1>7. TypeOK'
  BY <1>1, <1>2, <1>5, Before DEF FreeTask, TypeOK, PCs, UsageOk, Top
<1>8. PlaceOk(c)'
  BY <1>1, <1>2, <1>3, Before DEF FreeTask, PlaceOk, UsageOk, Top
<1>9. UsageOk(c)'
  BY <1>1, <1>2, <1>3, Before DEF FreeTask, PlaceOk, UsageOk
<1>10. FrameOk(c)'
  BY <1>1, <1>2, <1>3, Before DEF FreeTask, FrameOk
<1>11. FlagOk(c)' /\ NodeOk(c)'
  BY <1>1, <1>2, <1>3, <1>5 DEF FreeTask, FlagOk, NodeOk, Outside
<1>12. /\ \A r \in Res : (Owns(c, r)' <=> Owns(c, r)) /\ (Refs(c, r)' <=> Refs(c, r))
       /\ Born(c)' <=> Born(c)
       /\ Charged(c)' <=> Charged(c)
  BY <1>1, <1>2, <1>3, LadderRank
     DEF FreeTask, PlaceOk, UsageOk, Owns, Refs, Reached, Shared, Born, Charged, Top
<1>13. Checks(c)
  BY <1>1, <1>2, <1>3, Before DEF FreeTask, PlaceOk, Checks, PastThreads, PastNproc
<1>14. QED
  BY <1>2, <1>6, <1>7, <1>8, <1>9, <1>10, <1>11, <1>12, <1>13, Keeps DEF Local

LEMMA ForkOutOk ==
    ASSUME CloneInv, NEW c \in Caller, ForkOut(c)
    PROVE  CloneInv'
<1>1. PlaceOk(c) /\ UsageOk(c) /\ FrameOk(c) /\ FlagOk(c) /\ NodeOk(c)
  BY Before DEF Local
<1>2. /\ rung' = rung /\ kid' = kid /\ usage' = usage /\ vfork_done' = vfork_done
      /\ completed' = completed /\ cnt' = cnt /\ own' = own /\ processes' = processes
      /\ nr_threads' = nr_threads /\ crowd' = crowd
  BY DEF ForkOut, keepCounts, keepKids
<1>3. /\ pc'[c] = "idle" /\ flags'[c] = {}
  BY Before DEF ForkOut, TypeOK
<1>4. \A d \in Caller \ {c} :
        /\ pc'[d] = pc[d] /\ flags'[d] = flags[d]
  BY Before DEF ForkOut, TypeOK
<1>5. /\ multiprocess' \subseteq Caller
      /\ \A d \in Caller \ {c} : d \in multiprocess' <=> d \in multiprocess
      /\ c \notin multiprocess'
  BY <1>1, <1>2, Before DEF ForkOut, TypeOK, NodeOk, Outside
<1>6. OthersStay(c)
  BY <1>2, <1>4, <1>5 DEF OthersStay
<1>7. TypeOK'
  BY <1>1, <1>2, <1>5, Before DEF ForkOut, TypeOK, PCs, UsageOk, Top
<1>8. PlaceOk(c)'
  BY <1>1, <1>2, <1>3, Before DEF ForkOut, PlaceOk, UsageOk, Top
<1>9. UsageOk(c)'
  BY <1>1, <1>2, <1>3, Before DEF ForkOut, PlaceOk, UsageOk
<1>10. FrameOk(c)'
  BY <1>1, <1>2, <1>3, Before DEF ForkOut, FrameOk
<1>11. FlagOk(c)' /\ NodeOk(c)'
  BY <1>1, <1>2, <1>3, <1>5 DEF ForkOut, FlagOk, NodeOk, Outside
<1>12. /\ \A r \in Res : (Owns(c, r)' <=> Owns(c, r)) /\ (Refs(c, r)' <=> Refs(c, r))
       /\ Born(c)' <=> Born(c)
       /\ Charged(c)' <=> Charged(c)
  BY <1>1, <1>2, <1>3, LadderRank
     DEF ForkOut, PlaceOk, UsageOk, Owns, Refs, Reached, Shared, Born, Charged, Top
<1>13. Checks(c)
  BY <1>1, <1>2, <1>3, Before DEF ForkOut, PlaceOk, Checks, PastThreads, PastNproc
<1>14. QED
  BY <1>2, <1>6, <1>7, <1>8, <1>9, <1>10, <1>11, <1>12, <1>13, Keeps DEF Local

LEMMA VforkDoneOk ==
    ASSUME CloneInv, NEW c \in Caller, VforkDone(c)
    PROVE  CloneInv'
<1>1. PlaceOk(c) /\ UsageOk(c) /\ FrameOk(c) /\ FlagOk(c) /\ NodeOk(c)
  BY Before DEF Local
<1>2. /\ flags' = flags /\ rung' = rung /\ vfork_done' = vfork_done /\ completed' = completed
      /\ cnt' = cnt /\ own' = own /\ processes' = processes /\ nr_threads' = nr_threads
      /\ crowd' = crowd /\ multiprocess' = multiprocess
  BY DEF VforkDone, Put, keepCounts, keepKids
<1>3. /\ usage'[c] = usage[c] - 1
      /\ kid'[c] = (IF usage[c] = 1 THEN "none" ELSE kid[c])
      /\ pc'[c] = "idle"
  BY Before DEF VforkDone, Put, TypeOK
<1>4. \A d \in Caller \ {c} :
        /\ usage'[d] = usage[d] /\ kid'[d] = kid[d] /\ pc'[d] = pc[d]
  BY Before DEF VforkDone, Put, TypeOK
<1>5. /\ multiprocess' \subseteq Caller
      /\ \A d \in Caller \ {c} : d \in multiprocess' <=> d \in multiprocess
      /\ multiprocess' = multiprocess
  BY <1>1, <1>2, Before DEF VforkDone, Put, TypeOK, NodeOk, Outside
<1>6. OthersStay(c)
  BY <1>2, <1>4, <1>5 DEF OthersStay
<1>7. TypeOK'
  BY <1>1, <1>2, <1>5, Before DEF VforkDone, Put, TypeOK, PCs, UsageOk, Top
<1>8. PlaceOk(c)'
  BY <1>1, <1>2, <1>3, Before DEF VforkDone, Put, PlaceOk, UsageOk, Top
<1>9. UsageOk(c)'
  BY <1>1, <1>2, <1>3, Before DEF VforkDone, Put, PlaceOk, UsageOk
<1>10. FrameOk(c)'
  BY <1>1, <1>2, <1>3, Before DEF VforkDone, Put, FrameOk
<1>11. FlagOk(c)' /\ NodeOk(c)'
  BY <1>1, <1>2, <1>3, <1>5 DEF VforkDone, Put, FlagOk, NodeOk, Outside
<1>12. /\ \A r \in Res : (Owns(c, r)' <=> Owns(c, r)) /\ (Refs(c, r)' <=> Refs(c, r))
       /\ Born(c)' <=> Born(c)
       /\ Charged(c)' <=> Charged(c)
  BY <1>1, <1>2, <1>3, LadderRank
     DEF VforkDone, Put, PlaceOk, UsageOk, Owns, Refs, Reached, Shared, Born, Charged, Top
<1>13. Checks(c)
  BY <1>1, <1>2, <1>3, Before DEF VforkDone, Put, PlaceOk, Checks, PastThreads, PastNproc
<1>14. QED
  BY <1>2, <1>6, <1>7, <1>8, <1>9, <1>10, <1>11, <1>12, <1>13, Keeps DEF Local

LEMMA VforkAbandonOk ==
    ASSUME CloneInv, NEW c \in Caller, VforkAbandon(c)
    PROVE  CloneInv'
<1>1. PlaceOk(c) /\ UsageOk(c) /\ FrameOk(c) /\ FlagOk(c) /\ NodeOk(c)
  BY Before DEF Local
<1>2. /\ flags' = flags /\ rung' = rung /\ completed' = completed /\ cnt' = cnt
      /\ own' = own /\ processes' = processes /\ nr_threads' = nr_threads /\ crowd' = crowd
      /\ multiprocess' = multiprocess
  BY DEF VforkAbandon, Put, ForgetFrame, keepCounts, keepKids
<1>3. /\ usage'[c] = usage[c] - 1
      /\ kid'[c] = (IF usage[c] = 1 THEN "none" ELSE kid[c])
      /\ vfork_done'[c] = FALSE
      /\ pc'[c] = "idle"
  BY Before DEF VforkAbandon, Put, ForgetFrame, TypeOK
<1>4. \A d \in Caller \ {c} :
        /\ usage'[d] = usage[d] /\ kid'[d] = kid[d]
        /\ vfork_done'[d] = vfork_done[d] /\ pc'[d] = pc[d]
  BY Before DEF VforkAbandon, Put, ForgetFrame, TypeOK
<1>5. /\ multiprocess' \subseteq Caller
      /\ \A d \in Caller \ {c} : d \in multiprocess' <=> d \in multiprocess
      /\ multiprocess' = multiprocess
  BY <1>1, <1>2, Before DEF VforkAbandon, Put, ForgetFrame, TypeOK, NodeOk, Outside
<1>6. OthersStay(c)
  BY <1>2, <1>4, <1>5 DEF OthersStay
<1>7. TypeOK'
  BY <1>1, <1>2, <1>5, Before DEF VforkAbandon, Put, ForgetFrame, TypeOK, PCs, UsageOk, Top
<1>8. PlaceOk(c)'
  BY <1>1, <1>2, <1>3, Before DEF VforkAbandon, Put, ForgetFrame, PlaceOk, UsageOk, Top
<1>9. UsageOk(c)'
  BY <1>1, <1>2, <1>3, Before DEF VforkAbandon, Put, ForgetFrame, PlaceOk, UsageOk
<1>10. FrameOk(c)'
  BY <1>1, <1>2, <1>3, Before DEF VforkAbandon, Put, ForgetFrame, FrameOk
<1>11. FlagOk(c)' /\ NodeOk(c)'
  BY <1>1, <1>2, <1>3, <1>5 DEF VforkAbandon, Put, ForgetFrame, FlagOk, NodeOk, Outside
<1>12. /\ \A r \in Res : (Owns(c, r)' <=> Owns(c, r)) /\ (Refs(c, r)' <=> Refs(c, r))
       /\ Born(c)' <=> Born(c)
       /\ Charged(c)' <=> Charged(c)
  BY <1>1, <1>2, <1>3, LadderRank
     DEF VforkAbandon, Put, ForgetFrame, PlaceOk, UsageOk, Owns, Refs, Reached, Shared, Born,
         Charged, Top
<1>13. Checks(c)
  BY <1>1, <1>2, <1>3, Before
     DEF VforkAbandon, Put, ForgetFrame, PlaceOk, Checks, PastThreads, PastNproc
<1>14. QED
  BY <1>2, <1>6, <1>7, <1>8, <1>9, <1>10, <1>11, <1>12, <1>13, Keeps DEF Local

\* What passes the checks of the system calls and of copy_process.
LEMMA Checked ==
    ASSUME NEW a \in Calls, CallOK(a), FlagsOK(KernelFlags(a))
    PROVE  /\ KernelFlags(a) \subseteq Flag
           /\ "THREAD" \in KernelFlags(a) => {"SIGHAND", "VM"} \subseteq KernelFlags(a)
           /\ "CLEAR_SIGHAND" \in KernelFlags(a) => "SIGHAND" \notin KernelFlags(a)
<1>1. a \in Call
  BY CloneAssumption
<1>2. a.by \in {"fork", "vfork", "clone", "clone3"} /\ a.flags \subseteq Flag
  BY <1>1 DEF Call
<1>3. KernelFlags(a) \subseteq Flag
  BY <1>2 DEF KernelFlags, Flag
<1>4. "THREAD" \in KernelFlags(a) => {"SIGHAND", "VM"} \subseteq KernelFlags(a)
  BY DEF FlagsOK
<1>5. ASSUME "CLEAR_SIGHAND" \in KernelFlags(a) PROVE "SIGHAND" \notin KernelFlags(a)
  <2>1. a.by = "clone3"
    BY <1>2, <1>5 DEF KernelFlags
  <2>2. KernelFlags(a) = a.flags
    BY <2>1 DEF KernelFlags
  <2>3. QED
    BY <1>5, <2>1, <2>2 DEF CallOK, clone3_args_valid
<1>6. QED
  BY <1>3, <1>4, <1>5

LEMMA CloneOk ==
    ASSUME CloneInv, NEW c \in Caller, NEW a \in Calls,
           Clone(c, a)
    PROVE  CloneInv'
<1>1. PlaceOk(c) /\ UsageOk(c) /\ FrameOk(c) /\ FlagOk(c) /\ NodeOk(c)
  BY Before DEF Local
<1>2. /\ rung' = rung /\ kid' = kid /\ usage' = usage /\ vfork_done' = vfork_done
      /\ completed' = completed /\ cnt' = cnt /\ own' = own /\ processes' = processes
      /\ nr_threads' = nr_threads /\ crowd' = crowd
  BY DEF Clone, keepCounts, keepKids
<1>3. /\ flags'[c] = KernelFlags(a) /\ pc'[c] = "dup"
  BY Before DEF Clone, TypeOK
<1>4. \A d \in Caller \ {c} :
        /\ flags'[d] = flags[d] /\ pc'[d] = pc[d]
  BY Before DEF Clone, TypeOK
<1>5. /\ multiprocess' \subseteq Caller
      /\ \A d \in Caller \ {c} : d \in multiprocess' <=> d \in multiprocess
  BY <1>1, <1>2, Before DEF Clone, TypeOK, NodeOk, Outside
<1>6. OthersStay(c)
  BY <1>2, <1>4, <1>5 DEF OthersStay
<1>7. TypeOK'
  BY <1>1, <1>2, <1>5, Before, Checked DEF Clone, TypeOK, PCs, UsageOk, Top
<1>8. PlaceOk(c)'
  BY <1>1, <1>2, <1>3, Before DEF Clone, PlaceOk, UsageOk, Top
<1>9. UsageOk(c)'
  BY <1>1, <1>2, <1>3, Before DEF Clone, PlaceOk, UsageOk
<1>10. FrameOk(c)'
  BY <1>1, <1>2, <1>3, Before DEF Clone, FrameOk
<1>11. FlagOk(c)' /\ NodeOk(c)'
  BY <1>2, <1>3, Checked DEF Clone, FlagOk, NodeOk, Outside
<1>12. /\ \A r \in Res : (Owns(c, r)' <=> Owns(c, r)) /\ (Refs(c, r)' <=> Refs(c, r))
       /\ Born(c)' <=> Born(c)
       /\ Charged(c)' <=> Charged(c)
  BY <1>1, <1>2, <1>3, LadderRank
     DEF Clone, PlaceOk, UsageOk, Owns, Refs, Reached, Shared, Born, Charged, Top
<1>13. Checks(c)
  BY <1>1, <1>2, <1>3, Before DEF Clone, PlaceOk, Checks, PastThreads, PastNproc
<1>14. QED
  BY <1>2, <1>6, <1>7, <1>8, <1>9, <1>10, <1>11, <1>12, <1>13, Keeps DEF Local

LEMMA WakeUpOk ==
    ASSUME CloneInv, NEW c \in Caller, WakeUp(c)
    PROVE  CloneInv'
<1>1. PlaceOk(c) /\ UsageOk(c) /\ FrameOk(c) /\ FlagOk(c) /\ NodeOk(c)
  BY Before DEF Local
<1>2. /\ flags' = flags /\ cnt' = cnt /\ own' = own /\ processes' = processes
      /\ nr_threads' = nr_threads /\ crowd' = crowd /\ multiprocess' = multiprocess
  BY DEF WakeUp, GetTask, keepCounts, keepKids
<1>3. /\ kid'[c] = "run"
      /\ rung'[c] = 0
      /\ pc'[c] = (IF "VFORK" \in flags[c] THEN "vwait" ELSE "idle")
      /\ usage'[c] = (IF "VFORK" \in flags[c] THEN usage[c] + 1 ELSE usage[c])
  BY Before DEF WakeUp, GetTask, TypeOK
<1>4. \A d \in Caller \ {c} :
        /\ kid'[d] = kid[d] /\ rung'[d] = rung[d] /\ pc'[d] = pc[d] /\ usage'[d] = usage[d]
        /\ vfork_done'[d] = vfork_done[d] /\ completed'[d] = completed[d]
  BY Before DEF WakeUp, GetTask, TypeOK
<1>5. /\ multiprocess' \subseteq Caller
      /\ \A d \in Caller \ {c} : d \in multiprocess' <=> d \in multiprocess
      /\ multiprocess' = multiprocess
  BY <1>1, <1>2, Before DEF WakeUp, GetTask, TypeOK, NodeOk, Outside
<1>6. OthersStay(c)
  BY <1>2, <1>4, <1>5 DEF OthersStay
<1>7. TypeOK'
  <2>1. usage[c] = 1
    BY <1>1 DEF WakeUp, PlaceOk, UsageOk
  <2>2. CASE "VFORK" \in flags[c]
    <3>1. pc' \in [Caller -> PCs] /\ usage' \in [Caller -> 0 .. 2]
      BY <2>1, <2>2, Before DEF WakeUp, GetTask, TypeOK, PCs
    <3>2. vfork_done' \in [Caller -> BOOLEAN] /\ completed' \in [Caller -> BOOLEAN]
      BY <2>2, Before DEF WakeUp, TypeOK
    <3>3. QED
      BY <1>2, <3>1, <3>2, Before DEF WakeUp, TypeOK, Top
  <2>3. CASE "VFORK" \notin flags[c]
    BY <1>2, <2>3, Before DEF WakeUp, TypeOK, PCs, Top
  <2>4. QED
    BY <2>2, <2>3
<1>8. PlaceOk(c)'
  BY <1>1, <1>2, <1>3, Before DEF WakeUp, GetTask, PlaceOk, UsageOk, Top
<1>9. UsageOk(c)'
  BY <1>1, <1>2, <1>3, Before DEF WakeUp, GetTask, PlaceOk, UsageOk
<1>10. FrameOk(c)'
  <2>1. CASE "VFORK" \in flags[c]
    <3>1. pc'[c] = "vwait" /\ completed'[c] = FALSE
      BY <2>1, Before DEF WakeUp, TypeOK
    <3>2. QED
      BY <3>1 DEF FrameOk
  <2>2. CASE "VFORK" \notin flags[c]
    <3>1. pc'[c] = "idle" /\ vfork_done'[c] = vfork_done[c] /\ ~vfork_done[c]
      BY <1>1, <2>2, Before DEF WakeUp, TypeOK, FrameOk
    <3>2. QED
      BY <3>1 DEF FrameOk
  <2>3. QED
    BY <2>1, <2>2
<1>11. FlagOk(c)' /\ NodeOk(c)'
  BY <1>1, <1>2, <1>3, <1>5 DEF WakeUp, GetTask, FlagOk, NodeOk, Outside
<1>12. /\ \A r \in Res : (Owns(c, r)' <=> Owns(c, r)) /\ (Refs(c, r)' <=> Refs(c, r))
       /\ Born(c)' <=> Born(c)
       /\ Charged(c)' <=> Charged(c)
  BY <1>1, <1>2, <1>3, LadderRank
     DEF WakeUp, GetTask, PlaceOk, UsageOk, Owns, Refs, Reached, Shared, Born, Charged, Top
<1>13. Checks(c)
  BY <1>1, <1>2, <1>3, Before DEF WakeUp, GetTask, PlaceOk, Checks, PastThreads, PastNproc
<1>14. QED
  BY <1>2, <1>6, <1>7, <1>8, <1>9, <1>10, <1>11, <1>12, <1>13, Keeps DEF Local

(***************************************************************************)
(* Up and down the ladder.                                                 *)
(***************************************************************************)
LEMMA ClimbOk ==
    ASSUME CloneInv, NEW c \in Caller, Climb(c)
    PROVE  CloneInv'
<1>1. PlaceOk(c) /\ UsageOk(c) /\ FrameOk(c) /\ FlagOk(c) /\ NodeOk(c)
  BY Before DEF Local
<1>2. /\ flags' = flags /\ nr_threads' = nr_threads /\ multiprocess' = multiprocess
      /\ kid' = kid /\ crowd' = crowd /\ usage' = usage
      /\ vfork_done' = vfork_done /\ completed' = completed
  BY DEF Climb, keepKids
<1>3. PICK r0 : r0 = Ladder[rung[c] + 1]
  OBVIOUS
<1>4. /\ r0 \in Res /\ Rank(r0) = rung[c] + 1 /\ pc[c] = "climb" /\ kid[c] = "new"
      /\ rung[c] \in 0 .. 16
  BY <1>1, <1>3, Before, LadderRank DEF Climb, PlaceOk, Top
<1>5. /\ r0 = "creds" <=> rung[c] = 0
      /\ r0 = "cgroup" <=> rung[c] = 16
  <2>1. Rank("creds") = 1 /\ Rank("cgroup") = 17
    BY DEF Rank
  <2>2. Ladder[1] = "creds" /\ Ladder[17] = "cgroup"
    BY DEF Ladder
  <2>3. QED
    BY <1>3, <1>4, <2>1, <2>2
<1>6. /\ Take(c, r0)
      /\ processes' = IF r0 = "creds" THEN processes + 1 ELSE processes
      /\ pc' = [pc EXCEPT ![c] = IF r0 = "creds" THEN "limit"
                                 ELSE IF r0 = "cgroup" THEN "attach" ELSE "climb"]
      /\ rung' = [rung EXCEPT ![c] = @ + 1]
  BY <1>3 DEF Climb
<1>7. /\ pc'[c] = (IF r0 = "creds" THEN "limit" ELSE IF r0 = "cgroup" THEN "attach" ELSE "climb")
      /\ rung'[c] = rung[c] + 1
      /\ \A d \in Caller \ {c} : pc'[d] = pc[d] /\ rung'[d] = rung[d]
  BY <1>6, Before DEF TypeOK
<1>8. /\ own' \subseteq Caller \X Res
      /\ \A d \in Caller \ {c}, r \in Res : <<d, r>> \in own' <=> <<d, r>> \in own
  BY <1>4, <1>6, Before DEF Take, TypeOK
<1>9. OthersStay(c)
  BY <1>2, <1>7, <1>8 DEF OthersStay
<1>10. TypeOK'
  <2>1. pc' \in [Caller -> PCs] /\ rung' \in [Caller -> 0 .. Top]
    BY <1>6, Before DEF Climb, TypeOK, PCs, Top
  <2>2. cnt' \in [Counted -> Int]
    BY <1>6, Before DEF Take, Shared, TypeOK
  <2>3. processes' \in Int
    BY <1>6, Before
  <2>4. QED
    BY <1>2, <1>8, <2>1, <2>2, <2>3, Before DEF TypeOK
<1>11. Local(c)'
  <2>1. PlaceOk(c)'
    BY <1>2, <1>4, <1>5, <1>7, Before DEF PlaceOk, Top
  <2>2. UsageOk(c)' /\ FlagOk(c)' /\ NodeOk(c)'
    BY <1>1, <1>2, <1>4, <1>7 DEF UsageOk, FlagOk, NodeOk, Outside
  <2>3. FrameOk(c)'
    BY <1>1, <1>2, <1>4, <1>7 DEF FrameOk
  <2>4. QED
    BY <2>1, <2>2, <2>3 DEF Local
<1>12. ASSUME NEW r \in Res
       PROVE  /\ Shared(c, r)' <=> Shared(c, r)
              /\ Reached(c, r)' <=> Reached(c, r) \/ r = r0
              /\ r = r0 => ~Reached(c, r)
  <2>1. Rank(r) \in 1 .. Top /\ (Rank(r) = rung[c] + 1 <=> r = r0)
    BY <1>3, <1>4, LadderRank
  <2>2. Rank(r) <= rung[c] + 1 <=> Rank(r) <= rung[c] \/ r = r0
    BY <2>1, Before DEF Top
  <2>3. QED
    BY <1>2, <1>4, <1>7, <2>1, <2>2, Before DEF Reached, Shared, Top
<1>13. Accounts(c)
  <2>1. ASSUME NEW r \in Res PROVE <<c, r>> \in own' <=> Owns(c, r)'
    BY <1>2, <1>4, <1>6, <1>12, Before DEF Take, Owns
  <2>2. ASSUME NEW r \in Counted
        PROVE  cnt'[r] = cnt[r] + (IF Refs(c, r)' THEN 1 ELSE 0) - (IF Refs(c, r) THEN 1 ELSE 0)
    <3>1. r \in Res /\ cnt[r] \in Int
      BY Before DEF Counted, Res
    <3>2. /\ Refs(c, r)' <=> Refs(c, r) \/ (r = r0 /\ Shared(c, r) /\ r # "signal")
          /\ r = r0 => ~Refs(c, r)
      BY <1>2, <1>4, <1>12, <3>1 DEF Refs
    <3>3. cnt'[r] = IF r = r0 /\ Shared(c, r) /\ r # "signal" THEN cnt[r] + 1 ELSE cnt[r]
      BY <1>6, Before DEF Take, TypeOK
    <3>4. QED
      BY <3>1, <3>2, <3>3
  <2>3. (Born(c)' <=> Born(c)) /\ ~Born(c)
    BY <1>2, <1>4 DEF Born
  <2>4. Charged(c)' /\ (Charged(c) <=> r0 # "creds")
    BY <1>2, <1>4, <1>5, <1>7, Before DEF Charged, Born
  <2>5. QED
    BY <1>2, <1>6, <2>1, <2>2, <2>3, <2>4, Before DEF Accounts
<1>14. Checks(c)
  BY <1>2, <1>4, <1>5, <1>6, <1>7, Before DEF Checks, PastThreads, PastNproc, Top
<1>15. QED
  BY <1>9, <1>10, <1>11, <1>13, <1>14, StepOf

LEMMA UnwindOk ==
    ASSUME CloneInv, NEW c \in Caller, Unwind(c)
    PROVE  CloneInv'
<1>1. PlaceOk(c) /\ UsageOk(c) /\ FrameOk(c) /\ FlagOk(c) /\ NodeOk(c)
  BY Before DEF Local
<1>2. /\ flags' = flags /\ nr_threads' = nr_threads /\ multiprocess' = multiprocess
      /\ kid' = kid /\ crowd' = crowd /\ usage' = usage
      /\ vfork_done' = vfork_done /\ completed' = completed
  BY DEF Unwind, keepKids
<1>3. PICK r0 : r0 = Ladder[rung[c]]
  OBVIOUS
<1>4. r0 \in Res /\ Rank(r0) = rung[c] /\ pc[c] = "unwind" /\ kid[c] = "new" /\ rung[c] > 0
  BY <1>1, <1>3, Before, LadderRank DEF Unwind, PlaceOk, Top
<1>5. r0 = "creds" <=> rung[c] = 1
  BY <1>4, Before DEF Rank, Res, Top
<1>6. /\ Give(c, r0)
      /\ processes' = IF r0 = "creds" THEN processes - 1 ELSE processes
      /\ pc' = [pc EXCEPT ![c] = IF rung[c] = 1 THEN "free" ELSE "unwind"]
      /\ rung' = [rung EXCEPT ![c] = @ - 1]
  BY <1>3 DEF Unwind, Discounted
<1>7. /\ pc'[c] = (IF rung[c] = 1 THEN "free" ELSE "unwind")
      /\ rung'[c] = rung[c] - 1
      /\ \A d \in Caller \ {c} : pc'[d] = pc[d] /\ rung'[d] = rung[d]
  BY <1>6, Before DEF TypeOK
<1>8. /\ own' \subseteq Caller \X Res
      /\ \A d \in Caller \ {c}, r \in Res : <<d, r>> \in own' <=> <<d, r>> \in own
  BY <1>4, <1>6, Before DEF Give, TypeOK
<1>9. OthersStay(c)
  BY <1>2, <1>7, <1>8 DEF OthersStay
<1>10. TypeOK'
  <2>1. pc' \in [Caller -> PCs] /\ rung' \in [Caller -> 0 .. Top]
    BY <1>4, <1>6, Before DEF TypeOK, PCs, Top
  <2>2. cnt' \in [Counted -> Int]
    BY <1>6, Before DEF Give, Shared, TypeOK
  <2>3. processes' \in Int
    BY <1>6, Before
  <2>4. QED
    BY <1>2, <1>8, <2>1, <2>2, <2>3, Before DEF TypeOK
<1>11. Local(c)'
  <2>1. PlaceOk(c)'
    BY <1>2, <1>4, <1>7, Before DEF PlaceOk, Top
  <2>2. UsageOk(c)' /\ FlagOk(c)' /\ NodeOk(c)'
    BY <1>1, <1>2, <1>4, <1>7 DEF UsageOk, FlagOk, NodeOk, Outside
  <2>3. FrameOk(c)'
    BY <1>1, <1>2, <1>4, <1>7 DEF FrameOk
  <2>4. QED
    BY <2>1, <2>2, <2>3 DEF Local
<1>12. ASSUME NEW r \in Res
       PROVE  /\ Shared(c, r)' <=> Shared(c, r)
              /\ Reached(c, r)' <=> Reached(c, r) /\ r # r0
              /\ r = r0 => Reached(c, r)
  <2>1. Rank(r) \in 1 .. Top /\ (Rank(r) = rung[c] <=> r = r0)
    BY <1>3, <1>4, LadderRank
  <2>2. Rank(r) <= rung[c] - 1 <=> Rank(r) <= rung[c] /\ r # r0
    BY <2>1, Before DEF Top
  <2>3. QED
    BY <1>2, <1>4, <1>7, <2>1, <2>2, Before DEF Reached, Shared, Top
<1>13. Accounts(c)
  <2>1. ASSUME NEW r \in Res PROVE <<c, r>> \in own' <=> Owns(c, r)'
    BY <1>2, <1>4, <1>6, <1>12, Before DEF Give, Owns
  <2>2. ASSUME NEW r \in Counted
        PROVE  cnt'[r] = cnt[r] + (IF Refs(c, r)' THEN 1 ELSE 0) - (IF Refs(c, r) THEN 1 ELSE 0)
    <3>1. r \in Res /\ cnt[r] \in Int
      BY Before DEF Counted, Res
    <3>2. Refs(c, r) <=> Refs(c, r)' \/ (r = r0 /\ Shared(c, r) /\ r # "signal")
      BY <1>2, <1>4, <1>12, <3>1 DEF Refs
    <3>3. r = r0 => ~Refs(c, r)'
      BY <1>12, <3>1 DEF Refs
    <3>4. r = "signal" => (Shared(c, r) <=> "THREAD" \in flags[c])
      BY DEF Shared, FlagOf
    <3>5. cnt'[r] = IF r = r0 /\ Shared(c, r) /\ r # "signal" THEN cnt[r] - 1 ELSE cnt[r]
      BY <1>6, <3>4, Before DEF Give, Cleaned, TypeOK
    <3>6. QED
      BY <3>1, <3>2, <3>3, <3>5
  <2>3. (Born(c)' <=> Born(c)) /\ ~Born(c)
    BY <1>2, <1>4 DEF Born
  <2>4. Charged(c) /\ (Charged(c)' <=> r0 # "creds")
    BY <1>2, <1>4, <1>5, <1>7, Before DEF Charged, Born, Top
  <2>5. QED
    BY <1>2, <1>6, <2>1, <2>2, <2>3, <2>4, Before DEF Accounts
<1>14. Checks(c)
  BY <1>2, <1>4, <1>5, <1>6, <1>7, Before DEF Checks, PastThreads, PastNproc, Top
<1>15. QED
  BY <1>9, <1>10, <1>11, <1>13, <1>14, StepOf

LEMMA AttachOk ==
    ASSUME CloneInv, NEW c \in Caller, Attach(c)
    PROVE  CloneInv'
<1>1. PlaceOk(c) /\ UsageOk(c) /\ FrameOk(c) /\ FlagOk(c) /\ NodeOk(c)
  BY Before DEF Local
<1>2. /\ flags' = flags /\ rung' = rung /\ own' = own /\ processes' = processes
      /\ crowd' = crowd /\ usage' = usage /\ vfork_done' = vfork_done
      /\ completed' = completed /\ nr_threads' = nr_threads + 1
      /\ multiprocess' = multiprocess \ {c}
  BY DEF Attach
<1>3. pc[c] = "attach" /\ kid[c] = "new" /\ rung[c] = Top
  BY <1>1 DEF Attach, PlaceOk
<1>4. /\ pc'[c] = "wake" /\ kid'[c] = "live"
      /\ \A d \in Caller \ {c} : pc'[d] = pc[d] /\ kid'[d] = kid[d]
  BY Before DEF Attach, TypeOK
<1>5. OthersStay(c)
  BY <1>2, <1>4 DEF OthersStay
<1>6. TypeOK'
  <2>1. pc' \in [Caller -> PCs]
    BY Before DEF Attach, TypeOK, PCs
  <2>2. kid' \in [Caller -> {"none", "new", "live", "run", "dead", "reaped"}]
    BY Before DEF Attach, TypeOK
  <2>3. cnt' \in [Counted -> Int]
    BY Before DEF Attach, TypeOK, Counted
  <2>4. nr_threads' \in Int
    BY <1>2, Before
  <2>5. QED
    BY <1>2, <2>1, <2>2, <2>3, <2>4, Before DEF TypeOK
<1>7. Local(c)'
  <2>1. PlaceOk(c)'
    BY <1>2, <1>3, <1>4 DEF PlaceOk
  <2>2. UsageOk(c)' /\ FlagOk(c)' /\ NodeOk(c)'
    BY <1>1, <1>2, <1>3, <1>4 DEF UsageOk, FlagOk, NodeOk
  <2>3. FrameOk(c)'
    BY <1>1, <1>2, <1>3, <1>4 DEF FrameOk
  <2>4. QED
    BY <2>1, <2>2, <2>3 DEF Local
<1>8. ASSUME NEW r \in Res
      PROVE  Reached(c, r) /\ Reached(c, r)' /\ (Shared(c, r)' <=> Shared(c, r))
  <2>1. Rank(r) <= rung[c]
    BY <1>3, LadderRank DEF Top
  <2>2. QED
    BY <1>2, <1>3, <1>4, <2>1 DEF Reached, Shared
<1>9. Accounts(c)
  <2>1. ASSUME NEW r \in Res PROVE <<c, r>> \in own' <=> Owns(c, r)'
    BY <1>2, <1>8, Before DEF Owns
  <2>2. ASSUME NEW r \in Counted
        PROVE  cnt'[r] = cnt[r] + (IF Refs(c, r)' THEN 1 ELSE 0) - (IF Refs(c, r) THEN 1 ELSE 0)
    <3>1. r \in Res /\ cnt[r] \in Int
      BY Before DEF Counted, Res
    <3>2. /\ Refs(c, r)' <=> Shared(c, r)
          /\ Refs(c, r) <=> Shared(c, r) /\ r # "signal"
      BY <1>3, <1>4, <1>8, <3>1 DEF Refs
    <3>3. r = "signal" => (Shared(c, r) <=> "THREAD" \in flags[c])
      BY DEF Shared, FlagOf
    <3>4. cnt'[r] = IF r = "signal" /\ "THREAD" \in flags[c] THEN cnt[r] + 1 ELSE cnt[r]
      BY Before DEF Attach, TypeOK
    <3>5. QED
      BY <3>1, <3>2, <3>3, <3>4
  <2>3. ~Born(c) /\ Born(c)' /\ Charged(c) /\ Charged(c)'
    BY <1>3, <1>4 DEF Born, Charged, Top
  <2>4. QED
    BY <1>2, <2>1, <2>2, <2>3, Before DEF Accounts
<1>10. Checks(c)
  BY <1>2, <1>3, <1>4, Before DEF Checks, PastThreads, PastNproc
<1>11. QED
  BY <1>5, <1>6, <1>7, <1>9, <1>10, StepOf

(***************************************************************************)
(* The child.                                                              *)
(***************************************************************************)
\* mm_release forgets the frame of the parent, after telling it.
LEMMA Released ==
    ASSUME CloneInv, NEW c \in Caller, CompleteVfork(c)
    PROVE  /\ vfork_done' \in [Caller -> BOOLEAN] /\ completed' \in [Caller -> BOOLEAN]
           /\ ~vfork_done'[c]
           /\ \A d \in Caller \ {c} : vfork_done'[d] = vfork_done[d] /\ completed'[d] = completed[d]
<1>1. vfork_done \in [Caller -> BOOLEAN] /\ completed \in [Caller -> BOOLEAN]
  BY Before DEF TypeOK
<1>2. PICK b \in BOOLEAN : b <=> (completed[c] \/ vfork_done[c])
  OBVIOUS
<1>3. b = (completed[c] \/ vfork_done[c])
  BY <1>2
<1>4. completed' = [completed EXCEPT ![c] = b]
  BY <1>3, Zenon DEF CompleteVfork
<1>5. QED
  BY <1>1, <1>4 DEF CompleteVfork

LEMMA ExecOk ==
    ASSUME CloneInv, NEW c \in Caller, Exec(c)
    PROVE  CloneInv'
<1>1. PlaceOk(c) /\ UsageOk(c) /\ FrameOk(c) /\ FlagOk(c) /\ NodeOk(c)
  BY Before DEF Local
<1>2. /\ pc' = pc /\ rung' = rung /\ processes' = processes /\ nr_threads' = nr_threads
      /\ multiprocess' = multiprocess /\ kid' = kid /\ crowd' = crowd /\ usage' = usage
      /\ CompleteVfork(c) /\ kid[c] = "run" /\ "THREAD" \notin flags[c]
  BY DEF Exec, exec_mm_release
<1>3. PICK gone : gone = {r \in {"mm", "files", "sighand"} : Shared(c, r)}
  OBVIOUS
<1>4. /\ cnt' = [r \in Counted |-> IF r \in gone THEN cnt[r] - 1 ELSE cnt[r]]
      /\ own' = own \cup ({c} \X gone)
      /\ gone \subseteq Res /\ gone \subseteq Counted
  BY <1>3 DEF Exec, Res, Counted
<1>5. /\ flags'[c] = flags[c] \ {"VM", "FILES", "SIGHAND", "VFORK"}
      /\ \A d \in Caller \ {c} : flags'[d] = flags[d]
      /\ flags' \in [Caller -> SUBSET Flag]
  BY Before DEF Exec, TypeOK
<1>6. /\ own' \subseteq Caller \X Res
      /\ \A d \in Caller \ {c}, r \in Res : <<d, r>> \in own' <=> <<d, r>> \in own
      /\ \A r \in Res : <<c, r>> \in own' <=> <<c, r>> \in own \/ r \in gone
  BY <1>4, Before DEF TypeOK
<1>7. OthersStay(c)
  BY <1>2, <1>5, <1>6, Released DEF OthersStay
<1>8. TypeOK'
  <2>1. cnt' \in [Counted -> Int]
    BY <1>4, Before
  <2>2. QED
    BY <1>2, <1>5, <1>6, <2>1, Before, Released DEF TypeOK
<1>9. Local(c)'
  <2>1. PlaceOk(c)' /\ UsageOk(c)' /\ NodeOk(c)'
    BY <1>1, <1>2 DEF PlaceOk, UsageOk, NodeOk
  <2>2. FlagOk(c)'
    BY <1>1, <1>2, <1>5 DEF FlagOk
  <2>3. FrameOk(c)'
    BY <1>2, Released DEF FrameOk
  <2>4. QED
    BY <2>1, <2>2, <2>3 DEF Local
<1>10. ASSUME NEW r \in Res
       PROVE  /\ Reached(c, r) /\ Reached(c, r)'
              /\ Shared(c, r)' <=> Shared(c, r) /\ r \notin gone
              /\ r \in gone => Shared(c, r) /\ r # "pidfd"
              /\ "PIDFD" \in flags'[c] <=> "PIDFD" \in flags[c]
  <2>1. Reached(c, r) /\ Reached(c, r)'
    BY <1>2 DEF Reached
  <2>2. r \in gone => Shared(c, r) /\ r # "pidfd"
    BY <1>3
  <2>3. "PIDFD" \in flags'[c] <=> "PIDFD" \in flags[c]
    BY <1>5
  <2>4. Shared(c, r)' <=> Shared(c, r) /\ r \notin gone
    <3>1. CASE r \notin Counted
      BY <3>1 DEF Shared
    <3>2. CASE r \in {"mm", "files", "sighand"}
      BY <1>3, <1>5, <3>2 DEF Shared, FlagOf
    <3>3. CASE r \in {"fs", "signal"}
      BY <1>3, <1>5, <3>3 DEF Shared, FlagOf
    <3>4. QED
      BY <3>1, <3>2, <3>3 DEF Counted
  <2>5. QED
    BY <2>1, <2>2, <2>3, <2>4
<1>11. Accounts(c)
  <2>1. ASSUME NEW r \in Res PROVE <<c, r>> \in own' <=> Owns(c, r)'
    BY <1>6, <1>10, Before DEF Owns
  <2>2. ASSUME NEW r \in Counted
        PROVE  cnt'[r] = cnt[r] + (IF Refs(c, r)' THEN 1 ELSE 0) - (IF Refs(c, r) THEN 1 ELSE 0)
    <3>1. r \in Res /\ cnt[r] \in Int
      BY Before DEF Counted, Res
    <3>2. /\ Refs(c, r)' <=> Shared(c, r) /\ r \notin gone
          /\ Refs(c, r) <=> Shared(c, r)
          /\ r \in gone => Shared(c, r)
      BY <1>2, <1>10, <3>1 DEF Refs
    <3>3. cnt'[r] = IF r \in gone THEN cnt[r] - 1 ELSE cnt[r]
      BY <1>4
    <3>4. QED
      BY <3>1, <3>2, <3>3
  <2>3. Born(c) /\ Born(c)' /\ Charged(c) /\ Charged(c)'
    BY <1>2 DEF Born, Charged
  <2>4. QED
    BY <1>2, <2>1, <2>2, <2>3, Before DEF Accounts
<1>12. Checks(c)
  BY <1>2, Before DEF Checks, PastThreads, PastNproc
<1>13. QED
  BY <1>7, <1>8, <1>9, <1>11, <1>12, StepOf

\* exit and release_task give back a part R of what the child has.
LEMMA Drops ==
    ASSUME CloneInv, NEW c \in Caller, NEW R \in SUBSET Res, DropAll(c, R),
           flags' = flags, Born(c), kid'[c] # "new",
           \A r \in Res : Reached(c, r)' <=> Reached(c, r) /\ r \notin R,
           \A r \in Counted \cap R : Reached(c, r)
    PROVE  /\ cnt' \in [Counted -> Int] /\ own' \subseteq Caller \X Res
           /\ \A d \in Caller \ {c}, r \in Res : <<d, r>> \in own' <=> <<d, r>> \in own
           /\ \A r \in Res : <<c, r>> \in own' <=> Owns(c, r)'
           /\ \A r \in Counted : cnt'[r] = cnt[r] + (IF Refs(c, r)' THEN 1 ELSE 0)
                                                  - (IF Refs(c, r) THEN 1 ELSE 0)
<1>1. /\ cnt' \in [Counted -> Int] /\ own' \subseteq Caller \X Res
      /\ \A d \in Caller \ {c}, r \in Res : <<d, r>> \in own' <=> <<d, r>> \in own
      /\ \A r \in Res : <<c, r>> \in own' <=> <<c, r>> \in own /\ r \notin R
  BY Before DEF DropAll, TypeOK
<1>2. \A r \in Res : Shared(c, r)' <=> Shared(c, r)
  BY DEF Shared
<1>3. ASSUME NEW r \in Res PROVE <<c, r>> \in own' <=> Owns(c, r)'
  BY <1>1, <1>2, Before DEF Owns
<1>4. ASSUME NEW r \in Counted
      PROVE  cnt'[r] = cnt[r] + (IF Refs(c, r)' THEN 1 ELSE 0) - (IF Refs(c, r) THEN 1 ELSE 0)
  <2>1. r \in Res /\ cnt[r] \in Int /\ kid[c] # "new"
    BY Before DEF Counted, Res, Born
  <2>2. /\ Refs(c, r)' <=> Refs(c, r) /\ r \notin R
        /\ Refs(c, r) <=> Reached(c, r) /\ Shared(c, r)
        /\ r \in R => Reached(c, r)
    BY <1>2, <2>1 DEF Refs
  <2>3. cnt'[r] = IF r \in R /\ Shared(c, r) THEN cnt[r] - 1 ELSE cnt[r]
    BY DEF DropAll
  <2>4. QED
    BY <2>1, <2>2, <2>3
<1>5. QED
  BY <1>1, <1>3, <1>4

LEMMA ExitOk ==
    ASSUME CloneInv, NEW c \in Caller, Exit(c)
    PROVE  CloneInv'
<1>1. PlaceOk(c) /\ UsageOk(c) /\ FrameOk(c) /\ FlagOk(c) /\ NodeOk(c)
  BY Before DEF Local
<1>2. /\ pc' = pc /\ flags' = flags /\ rung' = rung /\ processes' = processes
      /\ nr_threads' = nr_threads /\ multiprocess' = multiprocess /\ crowd' = crowd
      /\ usage' = usage /\ CompleteVfork(c) /\ kid[c] = "run" /\ DropAll(c, Res \ Kept)
  BY DEF Exit, exit_mm_release
<1>3. /\ kid'[c] = "dead" /\ \A d \in Caller \ {c} : kid'[d] = kid[d]
      /\ kid' \in [Caller -> {"none", "new", "live", "run", "dead", "reaped"}]
  BY Before DEF Exit, TypeOK
<1>4. Born(c) /\ Born(c)' /\ Charged(c) /\ Charged(c)'
  BY <1>2, <1>3 DEF Born, Charged
<1>5. \A r \in Res : Reached(c, r) /\ (Reached(c, r)' <=> r \notin Res \ Kept)
  BY <1>2, <1>3 DEF Reached
<1>6. Counted \subseteq Res
  BY DEF Counted, Res
<1>7. /\ cnt' \in [Counted -> Int] /\ own' \subseteq Caller \X Res
      /\ \A d \in Caller \ {c}, r \in Res : <<d, r>> \in own' <=> <<d, r>> \in own
      /\ \A r \in Res : <<c, r>> \in own' <=> Owns(c, r)'
      /\ \A r \in Counted : cnt'[r] = cnt[r] + (IF Refs(c, r)' THEN 1 ELSE 0)
                                             - (IF Refs(c, r) THEN 1 ELSE 0)
  BY <1>2, <1>3, <1>4, <1>5, <1>6, Drops
<1>8. OthersStay(c)
  BY <1>2, <1>3, <1>7, Released DEF OthersStay
<1>9. TypeOK'
  BY <1>2, <1>3, <1>7, Before, Released DEF TypeOK
<1>10. Local(c)'
  <2>1. PlaceOk(c)' /\ UsageOk(c)' /\ NodeOk(c)' /\ FlagOk(c)'
    BY <1>1, <1>2, <1>3 DEF PlaceOk, UsageOk, NodeOk, FlagOk
  <2>2. FrameOk(c)'
    BY <1>2, Released DEF FrameOk
  <2>3. QED
    BY <2>1, <2>2 DEF Local
<1>11. Accounts(c)
  BY <1>2, <1>4, <1>7, Before DEF Accounts
<1>12. Checks(c)
  BY <1>2, Before DEF Checks, PastThreads, PastNproc
<1>13. QED
  BY <1>8, <1>9, <1>10, <1>11, <1>12, StepOf

LEMMA ReapOk ==
    ASSUME CloneInv, NEW c \in Caller, Reap(c)
    PROVE  CloneInv'
<1>1. PlaceOk(c) /\ UsageOk(c) /\ FrameOk(c) /\ FlagOk(c) /\ NodeOk(c)
  BY Before DEF Local
<1>2. /\ pc' = pc /\ flags' = flags /\ rung' = rung /\ processes' = processes - 1
      /\ nr_threads' = nr_threads - 1 /\ multiprocess' = multiprocess /\ crowd' = crowd
      /\ vfork_done' = vfork_done /\ completed' = completed
      /\ kid[c] = "dead" /\ DropAll(c, Kept)
  BY DEF Reap
<1>3. /\ kid'[c] = (IF usage[c] = 1 THEN "none" ELSE "reaped")
      /\ usage'[c] = usage[c] - 1
      /\ \A d \in Caller \ {c} : kid'[d] = kid[d] /\ usage'[d] = usage[d]
      /\ kid' \in [Caller -> {"none", "new", "live", "run", "dead", "reaped"}]
  BY Before DEF Reap, TypeOK
<1>4. Born(c) /\ ~Born(c)' /\ Charged(c) /\ ~Charged(c)' /\ kid'[c] # "new"
  BY <1>2, <1>3 DEF Born, Charged
<1>5. \A r \in Res : (Reached(c, r) <=> r \in Kept) /\ ~Reached(c, r)'
  BY <1>2, <1>3 DEF Reached
<1>6. Counted \subseteq Res /\ Kept \subseteq Res
  BY DEF Counted, Res, Kept
<1>7. /\ cnt' \in [Counted -> Int] /\ own' \subseteq Caller \X Res
      /\ \A d \in Caller \ {c}, r \in Res : <<d, r>> \in own' <=> <<d, r>> \in own
      /\ \A r \in Res : <<c, r>> \in own' <=> Owns(c, r)'
      /\ \A r \in Counted : cnt'[r] = cnt[r] + (IF Refs(c, r)' THEN 1 ELSE 0)
                                             - (IF Refs(c, r) THEN 1 ELSE 0)
  BY <1>2, <1>4, <1>5, <1>6, Drops
<1>8. OthersStay(c)
  BY <1>2, <1>3, <1>7 DEF OthersStay
<1>9. TypeOK'
  <2>1. usage[c] \in {1, 2}
    BY <1>1, <1>2 DEF UsageOk
  <2>2. usage' \in [Caller -> 0 .. 2]
    BY <2>1, Before DEF Reap, TypeOK
  <2>3. processes' \in Int /\ nr_threads' \in Int
    BY <1>2, Before
  <2>4. QED
    BY <1>2, <1>3, <1>7, <2>2, <2>3, Before DEF TypeOK
<1>10. Local(c)'
  <2>1. PlaceOk(c)'
    BY <1>1, <1>2, <1>3, Before DEF PlaceOk, UsageOk
  <2>2. UsageOk(c)'
    BY <1>1, <1>2, <1>3 DEF UsageOk
  <2>3. NodeOk(c)' /\ FlagOk(c)'
    BY <1>1, <1>2 DEF NodeOk, FlagOk
  <2>4. FrameOk(c)'
    BY <1>1, <1>2 DEF FrameOk
  <2>5. QED
    BY <2>1, <2>2, <2>3, <2>4 DEF Local
<1>11. Accounts(c)
  BY <1>2, <1>4, <1>7, Before DEF Accounts
<1>12. Checks(c)
  BY <1>2, Before DEF Checks, PastThreads, PastNproc
<1>13. QED
  BY <1>8, <1>9, <1>10, <1>11, <1>12, StepOf

LEMMA LeaveOk ==
    ASSUME CloneInv, NEW c \in Caller, Leave(c)
    PROVE  CloneInv'
<1>1. PlaceOk(c) /\ UsageOk(c) /\ FrameOk(c) /\ FlagOk(c) /\ NodeOk(c)
  BY Before DEF Local
<1>2. /\ pc' = pc /\ flags' = flags /\ rung' = rung /\ cnt' = cnt /\ processes' = processes
      /\ nr_threads' = nr_threads /\ multiprocess' = multiprocess /\ crowd' = crowd + 1
      /\ vfork_done' = vfork_done /\ completed' = completed
      /\ kid[c] = "run" /\ pc[c] = "idle" /\ \A r \in Counted : ~Shared(c, r)
  BY DEF Leave
<1>3. /\ kid'[c] = "none" /\ usage'[c] = 0
      /\ \A d \in Caller \ {c} : kid'[d] = kid[d] /\ usage'[d] = usage[d]
  BY Before DEF Leave, TypeOK
<1>4. Born(c) /\ ~Born(c)' /\ Charged(c) /\ ~Charged(c)'
  BY <1>2, <1>3 DEF Born, Charged
<1>5. \A r \in Res : ~Reached(c, r)'
  BY <1>3 DEF Reached
<1>6. /\ own' \subseteq Caller \X Res
      /\ \A d \in Caller \ {c}, r \in Res : <<d, r>> \in own' <=> <<d, r>> \in own
      /\ \A r \in Res : <<c, r>> \notin own'
  BY Before DEF Leave, TypeOK
<1>7. OthersStay(c)
  BY <1>2, <1>3, <1>6 DEF OthersStay
<1>8. TypeOK'
  <2>1. /\ kid' \in [Caller -> {"none", "new", "live", "run", "dead", "reaped"}]
        /\ usage' \in [Caller -> 0 .. 2]
    BY Before DEF Leave, TypeOK
  <2>2. crowd' \in Nat
    BY <1>2, Before
  <2>3. QED
    BY <1>2, <1>6, <2>1, <2>2, Before DEF TypeOK
<1>9. Local(c)'
  <2>1. PlaceOk(c)' /\ UsageOk(c)' /\ NodeOk(c)' /\ FlagOk(c)'
    BY <1>1, <1>2, <1>3 DEF PlaceOk, UsageOk, NodeOk, FlagOk
  <2>2. FrameOk(c)'
    BY <1>1, <1>2 DEF FrameOk
  <2>3. QED
    BY <2>1, <2>2 DEF Local
<1>10. \A r \in Counted : ~Refs(c, r) /\ ~Refs(c, r)' /\ r \in Res
  BY <1>2, <1>5 DEF Refs, Counted, Res
<1>11. Accounts(c)
  <2>1. \A r \in Res : <<c, r>> \in own' <=> Owns(c, r)'
    BY <1>5, <1>6 DEF Owns
  <2>2. QED
    BY <1>2, <1>4, <1>10, <2>1, Before DEF Accounts
<1>12. Checks(c)
  BY <1>2, Before DEF Checks, PastThreads, PastNproc
<1>13. QED
  BY <1>7, <1>8, <1>9, <1>11, <1>12, StepOf

LEMMA CrowdExitOk ==
    ASSUME CloneInv, CrowdExit
    PROVE  CloneInv'
<1>1. PICK c \in Caller : TRUE
  BY CloneAssumption
<1>2. /\ pc' = pc /\ flags' = flags /\ rung' = rung /\ cnt' = cnt /\ own' = own
      /\ processes' = processes - 1 /\ nr_threads' = nr_threads - 1
      /\ multiprocess' = multiprocess /\ kid' = kid /\ crowd' = crowd - 1 /\ crowd > 0
      /\ usage' = usage /\ vfork_done' = vfork_done /\ completed' = completed
  BY DEF CrowdExit
<1>3. TypeOK'
  <2>1. processes' \in Int /\ nr_threads' \in Int /\ crowd' \in Nat
    BY <1>2, Before
  <2>2. QED
    BY <1>2, <2>1, Before DEF TypeOK
<1>4. OthersStay(c)
  BY <1>2 DEF OthersStay
<1>5. Local(c)'
  <2>1. Local(c)
    BY Before
  <2>2. QED
    BY <1>2, <2>1 DEF Local, PlaceOk, UsageOk, FrameOk, FlagOk, NodeOk
<1>6. /\ \A r \in Res : (Owns(c, r)' <=> Owns(c, r)) /\ (Refs(c, r)' <=> Refs(c, r))
      /\ Born(c)' <=> Born(c)
      /\ Charged(c)' <=> Charged(c)
  BY <1>2 DEF Owns, Refs, Reached, Shared, Born, Charged
<1>7. Counted \subseteq Res
  BY DEF Counted, Res
<1>8. Accounts(c)
  BY <1>2, <1>6, <1>7, Before DEF Accounts
<1>9. Checks(c)
  BY <1>2, Before DEF Checks, PastThreads, PastNproc
<1>10. QED
  BY <1>3, <1>4, <1>5, <1>8, <1>9, StepOf

(***************************************************************************)
(* The invariant.                                                          *)
(***************************************************************************)
LEMMA InitOk == Init => CloneInv
<1> SUFFICES ASSUME Init PROVE CloneInv
  OBVIOUS
<1>1. TypeOK
  <2>1. N \in Int
    BY Constants
  <2>2. QED
    BY <2>1 DEF Init, TypeOK, PCs, Top
<1>2. ASSUME NEW c \in Caller PROVE Local(c)
  BY DEF Init, Local, PlaceOk, UsageOk, FrameOk, FlagOk, NodeOk
<1>3. ASSUME NEW c \in Caller
      PROVE  /\ \A r \in Res : ~Owns(c, r) /\ ~Refs(c, r)
             /\ ~Born(c) /\ ~Charged(c) /\ ~PastThreads(c) /\ ~PastNproc(c)
  BY DEF Init, Owns, Refs, Reached, Born, Charged, PastThreads, PastNproc
<1>4. OwnOk
  BY <1>3 DEF OwnOk, Init
<1>5. Cardinality({}) = 0
  BY FS_EmptySet
<1>6. CountsOk
  <2>1. AllBorn = {} /\ AllCharged = {}
    BY <1>3 DEF AllBorn, AllCharged
  <2>2. ASSUME NEW r \in Counted PROVE Sharers(r) = {} /\ cnt[r] = N
    BY <1>3 DEF Sharers, Counted, Res, Init
  <2>3. processes = N /\ nr_threads = N /\ crowd = 0
    BY DEF Init
  <2>4. QED
    BY <1>5, <2>1, <2>2, <2>3, Constants DEF CountsOk
<1>7. LimitsOk
  <2>1. AllPastThreads = {} /\ AllPastNproc = {}
    BY <1>3 DEF AllPastThreads, AllPastNproc
  <2>2. processes = N /\ nr_threads = N
    BY DEF Init
  <2>3. QED
    BY <1>5, <2>1, <2>2, Constants DEF LimitsOk
<1>8. QED
  BY <1>1, <1>2, <1>4, <1>6, <1>7 DEF CloneInv

LEMMA NextOk ==
    ASSUME CloneInv, Next
    PROVE  CloneInv'
<1>1. ASSUME NEW c \in Caller, Step(c) PROVE CloneInv'
  BY <1>1, DupTaskOk, DupFailsOk, CheckNprocOk, ClimbOk, ClimbFailsOk, CheckThreadsOk,
     AttachOk, AttachFailsOk, UnwindOk, FreeTaskOk, ForkOutOk, WakeUpOk, VforkDoneOk,
     VforkAbandonOk DEF Step
<1>2. ASSUME NEW c \in Caller, \E a \in Calls : Clone(c, a) PROVE CloneInv'
  BY <1>2, CloneOk
<1>3. ASSUME NEW c \in Caller, VforkKilled(c) \/ Exec(c) \/ Exit(c) \/ Reap(c) \/ Leave(c)
      PROVE  CloneInv'
  BY <1>3, VforkKilledOk, ExecOk, ExitOk, ReapOk, LeaveOk
<1>4. QED
  BY <1>1, <1>2, <1>3, CrowdExitOk DEF Next

LEMMA StutterOk ==
    ASSUME CloneInv, UNCHANGED vars
    PROVE  CloneInv'
<1>1. /\ pc' = pc /\ flags' = flags /\ rung' = rung /\ cnt' = cnt /\ own' = own
      /\ processes' = processes /\ nr_threads' = nr_threads
      /\ multiprocess' = multiprocess /\ kid' = kid /\ crowd' = crowd
      /\ usage' = usage /\ vfork_done' = vfork_done /\ completed' = completed
  BY DEF vars
<1>2. PICK c \in Caller : TRUE
  BY CloneAssumption
<1>3. TypeOK'
  BY <1>1, Before DEF TypeOK
<1>4. OthersStay(c)
  BY <1>1 DEF OthersStay
<1>5. Local(c)'
  <2>1. Local(c)
    BY Before
  <2>2. QED
    BY <1>1, <2>1 DEF Local, PlaceOk, UsageOk, FrameOk, FlagOk, NodeOk
<1>6. /\ \A r \in Res : (Owns(c, r)' <=> Owns(c, r)) /\ (Refs(c, r)' <=> Refs(c, r))
      /\ Born(c)' <=> Born(c)
      /\ Charged(c)' <=> Charged(c)
  BY <1>1 DEF Owns, Refs, Reached, Shared, Born, Charged
<1>7. Checks(c)
  BY <1>1, Before DEF Checks, PastThreads, PastNproc
<1>8. QED
  BY <1>1, <1>3, <1>4, <1>5, <1>6, <1>7, Keeps

\* The invariant is inductive: where a caller is and how far it has climbed tell
\* exactly what its child owns, what it shares and where it is counted.
THEOREM CloneInductive == Spec => []CloneInv
<1>1. CloneInv /\ [Next]_vars => CloneInv'
  BY NextOk, StutterOk
<1>2. QED
  BY InitOk, <1>1, PTL DEF Spec

(***************************************************************************)
(* The properties.                                                         *)
(***************************************************************************)
LEMMA Finite ==
    /\ \A r : IsFiniteSet(Sharers(r)) /\ Cardinality(Sharers(r)) \in Nat
    /\ Cardinality(AllPastThreads) \in Nat /\ Cardinality(AllPastNproc) \in Nat
<1>1. /\ \A r : IsFiniteSet(Sharers(r))
      /\ IsFiniteSet(AllPastThreads) /\ IsFiniteSet(AllPastNproc)
  BY CloneAssumption, FS_Subset DEF Sharers, AllPastThreads, AllPastNproc
<1>2. QED
  BY <1>1, FS_CardinalityType

LEMMA InvNoTrace ==
    ASSUME CloneInv
    PROVE  NoTrace
<1>1. TypeOK
  BY DEF CloneInv
<1>2. SharedKept
  BY Finite, Constants DEF CloneInv, CountsOk, SharedKept
<1>3. \A c \in multiprocess : pc[c] \notin Outside
  BY DEF CloneInv, TypeOK, Local, NodeOk
<1>4. ASSUME Quiet
      PROVE  /\ \A r \in Counted : cnt[r] = N
             /\ own = {} /\ processes = N + crowd /\ nr_threads = N + crowd
  <2>1. ASSUME NEW c \in Caller
        PROVE  /\ \A r \in Res : ~Owns(c, r) /\ ~Refs(c, r)
               /\ ~Born(c) /\ ~Charged(c)
    BY <1>4 DEF Quiet, Owns, Refs, Reached, Born, Charged
  <2>2. own = {}
    BY <2>1, <1>1 DEF CloneInv, OwnOk, TypeOK
  <2>3. AllBorn = {} /\ AllCharged = {} /\ \A r \in Counted : Sharers(r) = {}
    BY <2>1 DEF AllBorn, AllCharged, Sharers, Counted, Res
  <2>4. Cardinality({}) = 0
    BY FS_EmptySet
  <2>5. crowd \in Nat /\ N \in Nat
    BY <1>1, Constants DEF TypeOK
  <2>6. QED
    BY <2>2, <2>3, <2>4, <2>5 DEF CloneInv, CountsOk
<1>5. QED
  BY <1>1, <1>2, <1>3, <1>4 DEF NoTrace

\* A fork that fails leaves no trace, and neither does a child that is gone: every
\* increment of copy_process is answered by one bad_fork_* label, by exec, by exit
\* or by release_task, whatever other threads of the process clone meanwhile.
THEOREM ForksLeaveNoTrace == Spec => []NoTrace
  BY CloneInductive, InvNoTrace, PTL

\* The two late checks of copy_process, of max_threads and of RLIMIT_NPROC, are
\* exceeded by less than the number of threads that clone at once.
THEOREM LimitsStayBounded == Spec => []LimitsBounded
<1>1. ASSUME CloneInv PROVE LimitsBounded
  <2>1. nr_threads \in Int /\ processes \in Int /\ N \in Nat /\ MaxThreads \in Nat /\ Nproc \in Nat
    BY <1>1, Constants DEF CloneInv, TypeOK
  <2>2. QED
    BY <1>1, <2>1, Finite DEF CloneInv, LimitsOk, LimitsBounded
<1>2. QED
  BY CloneInductive, <1>1, PTL

\* A running thread shares the memory, the handlers and the signals of its process,
\* each with a reference, and a child cloned with CLONE_CLEAR_SIGHAND has handlers
\* of its own.
THEOREM FlagsStayHonoured == Spec => []FlagsHonoured
<1>1. ASSUME CloneInv PROVE FlagsHonoured
  <2>1. SUFFICES ASSUME NEW c \in Caller, kid[c] \in {"live", "run"}
                 PROVE  /\ "THREAD" \in flags[c] =>
                            \A r \in {"mm", "sighand", "signal"} : <<c, r>> \notin own /\ cnt[r] > N
                        /\ "CLEAR_SIGHAND" \in flags[c] => <<c, "sighand">> \in own
    BY DEF FlagsHonoured
  <2>2. FlagOk(c)
    BY <1>1 DEF CloneInv, Local
  <2>3. \A r \in Res : Reached(c, r) /\ (<<c, r>> \in own <=> Owns(c, r))
    BY <1>1, <2>1 DEF CloneInv, OwnOk, Reached
  <2>4. ASSUME "THREAD" \in flags[c], NEW r \in {"mm", "sighand", "signal"}
        PROVE  <<c, r>> \notin own /\ cnt[r] > N
    <3>1. r \in Res /\ r \in Counted /\ Shared(c, r)
      BY <2>2, <2>4 DEF FlagOk, Shared, FlagOf, Counted, Res
    <3>2. <<c, r>> \notin own /\ Refs(c, r)
      BY <2>1, <2>3, <3>1 DEF Owns, Refs
    <3>3. c \in Sharers(r)
      BY <3>2 DEF Sharers
    <3>4. Cardinality(Sharers(r)) # 0 /\ Cardinality(Sharers(r)) \in Nat
      BY <3>3, Finite, FS_EmptySet
    <3>5. cnt[r] = N + Cardinality(Sharers(r))
      BY <1>1, <3>1 DEF CloneInv, CountsOk
    <3>6. QED
      BY <3>2, <3>4, <3>5, Constants
  <2>5. ASSUME "CLEAR_SIGHAND" \in flags[c] PROVE <<c, "sighand">> \in own
    <3>1. ~Shared(c, "sighand") /\ "sighand" \in Res
      BY <2>2, <2>5 DEF FlagOk, Shared, FlagOf, Res
    <3>2. QED
      BY <2>3, <3>1 DEF Owns
  <2>6. QED
    BY <2>4, <2>5
<1>2. QED
  BY CloneInductive, <1>1, PTL

\* A child's vfork_done never points into a frame that is gone, and the child that
\* a caller waits for is still there, killed callers and early exits included.
THEOREM VforkFramesLive == Spec => []VforkFrameAlive
<1>1. ASSUME CloneInv PROVE VforkFrameAlive
  BY <1>1 DEF CloneInv, Local, FrameOk, PlaceOk, VforkFrameAlive
<1>2. QED
  BY CloneInductive, <1>1, PTL

=============================================================================
