---------------------------- MODULE MmLifeProofs ----------------------------
(***************************************************************************)
(* Theorems about MmLife, for any number of tasks, mms, files, readers and *)
(* mappings.                                                               *)
(***************************************************************************)
EXTENDS MmLife, FiniteSetTheorems, WellFoundedInduction, TLAPS

(***************************************************************************)
(* The inductive invariant: the counts, as MmCounted has them,             *)
(***************************************************************************)

UsersExact == \A m \in Mm : users[m] = UsersOf(m)
CountExact ==
    \A m \in Mm : count[m] = KeepersOf(m) + (IF stage[m] \in {"free", "gone"} THEN 0 ELSE 1)
Runs(f) == {m \in Mm : exe[m] = f}
Linked(f) == {r \in Reader : link[r] = f}
FilesExact == \A f \in File : fref[f] = Num(Runs(f)) + Num(Mapping(f)) + Num(Linked(f))
Modular == {m \in Mm : HasModule(m)}
ModExact == modref = Num(Modular)
NsExact == nsref = Num(Alloc)
Counts == UsersExact /\ CountExact /\ FilesExact /\ ModExact /\ NsExact

(***************************************************************************)
(* how far an mm has been torn down,                                       *)
(***************************************************************************)
MmOk(m) ==
    /\ stage[m] = "live" <=> users[m] # 0
    /\ stage[m] = "free" => count[m] = 0
    /\ stage[m] \in {"exe", "drop", "gone", "free"} => vmas[m] = {}
    /\ stage[m] \in {"drop", "gone", "free"} => exe[m] = None

(***************************************************************************)
(* what the place of a task tells,                                         *)
(***************************************************************************)
HasMm == {"run", "lock", "copy", "module", "free_pt", "kid", "exec", "swapped"}
Making == {"lock", "copy", "module", "free_pt", "exec"}
Forking == {"lock", "copy", "module", "free_pt", "kid"}

TaskOk(t) ==
    /\ pc[t] \in HasMm => mm[t] # None
    /\ pc[t] \in {"none", "exiting", "dead"} => mm[t] = None
    /\ new[t] # None <=> pc[t] \in Making
    /\ active[t] # None <=> pc[t] = "exiting"
    /\ kid[t] # None <=> pc[t] \in Forking
    /\ pc[t] \in {"none", "new"} => oom[t] = None

\* The child in the making is the task's own.
KidOk(t) ==
    kid[t] # None =>
        /\ pc[kid[t]] = "new"
        /\ \A u \in Task : kid[u] = kid[t] => u = t
        /\ mm[kid[t]] = None <=> pc[t] # "kid"
        /\ pc[t] # "kid" => (secret[new[t]] => priv[kid[t]])

\* The mm in the making is nobody else's.
Alone(t) ==
    new[t] # None =>
        /\ \A u \in Task : mm[u] # new[t] /\ (new[u] = new[t] => u = t)
        /\ \A r \in Reader : held[r] # new[t] /\ fd[r] # new[t]

MakeOk(t) ==
    /\ pc[t] = "lock" => exe[new[t]] = None /\ vmas[new[t]] = {}
    /\ pc[t] = "copy" =>
         /\ exe[new[t]] = exe[mm[t]]
         /\ vmas[new[t]] = {v \in vmas[mm[t]] : v < cur[t]} \ DontCopy
    /\ pc[t] = "exec" => ~binfmt[new[t]] /\ vmas[new[t]] = {}

\* execve has put its mm in place and not yet filled it.
SwapOk(t) ==
    pc[t] = "swapped" =>
        /\ ~binfmt[mm[t]] /\ vmas[mm[t]] = {}
        /\ \A u \in Task : mm[u] = mm[t] => u = t

\* A task keeps readers out of the memory of a privileged program.
SecretOk(t) == mm[t] # None /\ pc[t] # "swapped" => (secret[mm[t]] => priv[t])

TaskPart(t) == TaskOk(t) /\ KidOk(t) /\ Alone(t) /\ MakeOk(t) /\ SwapOk(t) /\ SecretOk(t)

(***************************************************************************)
(* and what that of a reader tells.                                        *)
(***************************************************************************)
ReaderOk(r) ==
    /\ held[r] # None <=> rpc[r] \in {"check", "grab", "put", "reading", "cmdline", "lock", "maps"}
    /\ fd[r] # None <=> rpc[r] \in {"put", "open", "reading"}
    /\ link[r] # None <=> rpc[r] = "link"
    /\ target[r] # None <=> rpc[r] \in {"check", "may"}
    /\ target[r] # None => pc[target[r]] \notin {"none", "new"}
    /\ rpc[r] = "check" => /\ pc[target[r]] # "swapped"
                           /\ secret[held[r]] => priv[target[r]]
    /\ rpc[r] = "grab" => ~secret[held[r]]
    /\ fd[r] # None => ~secret[fd[r]]

MmInv ==
    /\ TypeOK /\ Counts
    /\ \A m \in Mm : MmOk(m)
    /\ \A t \in Task : TaskPart(t)
    /\ \A r \in Reader : ReaderOk(r)

(***************************************************************************)
(* Counting.                                                               *)
(***************************************************************************)
Of(S, f, v) == {s \in S : f[s] = v}
One(S, f, x, v) == IF x \in S /\ f[x] = v THEN 1 ELSE 0

\* Two sets that differ at most in x.
LEMMA Differ ==
    ASSUME NEW S, NEW R, NEW t, IsFiniteSet(S), \A u : u # t => (u \in R <=> u \in S)
    PROVE  /\ IsFiniteSet(R) /\ Cardinality(R) \in Nat /\ Cardinality(S) \in Nat
           /\ Cardinality(R) = Cardinality(S) + ((IF t \in R THEN 1 ELSE 0)
                                              - (IF t \in S THEN 1 ELSE 0))
<1>0. Cardinality(S) \in Nat
  BY FS_CardinalityType
<1>1. CASE t \in R <=> t \in S
  <2>1. R = S
    BY <1>1
  <2>2. QED
    BY <1>0, <2>1
<1>2. CASE t \in R /\ t \notin S
  <2>1. R = S \cup {t}
    BY <1>2
  <2>2. QED
    BY <1>0, <1>2, <2>1, FS_AddElement
<1>3. CASE t \notin R /\ t \in S
  <2>1. R = S \ {t}
    BY <1>3
  <2>2. IsFiniteSet(R) /\ Cardinality(R) = Cardinality(S) - 1
    BY <1>3, <2>1, FS_RemoveElement
  <2>3. Cardinality(R) \in Nat
    BY <2>2, FS_CardinalityType
  <2>4. QED
    BY <1>0, <1>3, <2>2, <2>3
<1>4. QED
  BY <1>1, <1>2, <1>3

\* A function g that is f but for its value at x takes the value v where f does,
\* but for x.
LEMMA Moved ==
    ASSUME NEW S, IsFiniteSet(S), NEW f, NEW g, NEW x, NEW v,
           \A s \in S : s # x => g[s] = f[s]
    PROVE  /\ Num(Of(S, f, v)) \in Nat /\ Num(Of(S, g, v)) \in Nat
           /\ Num(Of(S, g, v)) = Num(Of(S, f, v)) + (One(S, g, x, v) - One(S, f, x, v))
<1>1. IsFiniteSet(Of(S, f, v))
  BY FS_Subset DEF Of
<1>2. \A u : u # x => (u \in Of(S, g, v) <=> u \in Of(S, f, v))
  BY DEF Of
<1>3. /\ x \in Of(S, f, v) <=> x \in S /\ f[x] = v
      /\ x \in Of(S, g, v) <=> x \in S /\ g[x] = v
  BY DEF Of
<1>4. QED
  BY <1>1, <1>2, <1>3, Differ DEF Num, One

LEMMA NumNat ==
    ASSUME NEW S, IsFiniteSet(S), NEW f, NEW v
    PROVE  /\ Num(Of(S, f, v)) \in Nat
           /\ \A s \in S : f[s] = v => Num(Of(S, f, v)) # 0
           /\ (\A s \in S : f[s] # v) => Num(Of(S, f, v)) = 0
<1>1. IsFiniteSet(Of(S, f, v))
  BY FS_Subset DEF Of
<1>2. Num(Of(S, f, v)) \in Nat
  BY <1>1, FS_CardinalityType DEF Num
<1>3. Num(Of(S, f, v)) = 0 <=> Of(S, f, v) = {}
  BY <1>1, FS_EmptySet DEF Num
<1>4. QED
  BY <1>2, <1>3 DEF Of

LEMMA UsersSum == ASSUME NEW m
    PROVE UsersOf(m) = Num(Of(Task, mm, m)) + Num(Of(Task, new, m)) + Num(Of(Reader, held, m))
  BY DEF UsersOf, Of
LEMMA KeepersSum == ASSUME NEW m
    PROVE KeepersOf(m) = Num(Of(Task, active, m)) + Num(Of(Task, oom, m)) + Num(Of(Reader, fd, m))
  BY DEF KeepersOf, Of

\* An mm that somebody uses is live, one that is kept is not free.
LEMMA UsedLive ==
    ASSUME MmInv, NEW m \in Mm
    PROVE  /\ users[m] \in Nat /\ UsersOf(m) \in Nat /\ users[m] = UsersOf(m)
           /\ \A t \in Task : mm[t] = m \/ new[t] = m => stage[m] = "live" /\ users[m] > 0
           /\ \A r \in Reader : held[r] = m => stage[m] = "live" /\ users[m] > 0
<1>1. /\ Num(Of(Task, mm, m)) \in Nat
      /\ Num(Of(Task, new, m)) \in Nat
      /\ Num(Of(Reader, held, m)) \in Nat
  BY MmAssumption, NumNat
<1>2. /\ users[m] \in Nat /\ users[m] = UsersOf(m) /\ (stage[m] = "live" <=> users[m] # 0)
  BY DEF MmInv, TypeOK, Counts, UsersExact, MmOk
<1>3. UsersOf(m) \in Nat
  BY <1>2
<1>4. ASSUME NEW t \in Task, mm[t] = m \/ new[t] = m PROVE users[m] # 0
  <2>1. Num(Of(Task, mm, m)) # 0 \/ Num(Of(Task, new, m)) # 0
    BY <1>4, MmAssumption, NumNat
  <2>2. QED
    BY <1>1, <1>2, <2>1, UsersSum
<1>5. ASSUME NEW r \in Reader, held[r] = m PROVE users[m] # 0
  <2>1. Num(Of(Reader, held, m)) # 0
    BY <1>5, MmAssumption, NumNat
  <2>2. QED
    BY <1>1, <1>2, <2>1, UsersSum
<1>6. QED
  BY <1>2, <1>3, <1>4, <1>5

LEMMA KeptNotFree ==
    ASSUME MmInv, NEW m \in Mm
    PROVE  /\ count[m] \in Nat /\ KeepersOf(m) \in Nat
           /\ count[m] = KeepersOf(m) + (IF stage[m] \in {"free", "gone"} THEN 0 ELSE 1)
           /\ \A t \in Task : active[t] = m \/ oom[t] = m => stage[m] # "free" /\ KeepersOf(m) > 0
           /\ \A r \in Reader : fd[r] = m => stage[m] # "free" /\ KeepersOf(m) > 0
<1>1. /\ Num(Of(Task, active, m)) \in Nat
      /\ Num(Of(Task, oom, m)) \in Nat
      /\ Num(Of(Reader, fd, m)) \in Nat
  BY MmAssumption, NumNat
<1>2. /\ count[m] \in Nat
      /\ count[m] = KeepersOf(m) + (IF stage[m] \in {"free", "gone"} THEN 0 ELSE 1)
      /\ stage[m] = "free" => count[m] = 0
  BY DEF MmInv, TypeOK, Counts, CountExact, MmOk
<1>3. KeepersOf(m) \in Nat
  BY <1>1, KeepersSum
<1>4. ASSUME NEW t \in Task, active[t] = m \/ oom[t] = m PROVE KeepersOf(m) > 0
  <2>1. Num(Of(Task, active, m)) # 0 \/ Num(Of(Task, oom, m)) # 0
    BY <1>4, MmAssumption, NumNat
  <2>2. QED
    BY <1>1, <2>1, KeepersSum
<1>5. ASSUME NEW r \in Reader, fd[r] = m PROVE KeepersOf(m) > 0
  <2>1. Num(Of(Reader, fd, m)) # 0
    BY <1>5, MmAssumption, NumNat
  <2>2. QED
    BY <1>1, <2>1, KeepersSum
<1>6. QED
  BY <1>2, <1>3, <1>4, <1>5

\* What a step that changes one mm, one new and one held does to mm_users.
LEMMA UsersShift ==
    ASSUME NEW m, NEW x, NEW y, NEW z,
           \A t \in Task : t # x => mm'[t] = mm[t],
           \A t \in Task : t # y => new'[t] = new[t],
           \A r \in Reader : r # z => held'[r] = held[r]
    PROVE  /\ UsersOf(m)' \in Nat /\ UsersOf(m) \in Nat
           /\ UsersOf(m)' = UsersOf(m) + (One(Task, mm', x, m) - One(Task, mm, x, m))
                 + (One(Task, new', y, m) - One(Task, new, y, m))
                 + (One(Reader, held', z, m) - One(Reader, held, z, m))
<1>0. IsFiniteSet(Task) /\ IsFiniteSet(Reader)
  BY MmAssumption
<1>1. PICK a1, b1, c1 : a1 = Num(Of(Task, mm, m)) /\ b1 = Num(Of(Task, new, m))
                        /\ c1 = Num(Of(Reader, held, m))
  OBVIOUS
<1>2. PICK a2, b2, c2 : a2 = Num(Of(Task, mm', m)) /\ b2 = Num(Of(Task, new', m))
                        /\ c2 = Num(Of(Reader, held', m))
  OBVIOUS
<1>3. PICK i, j, k : /\ i = One(Task, mm', x, m) - One(Task, mm, x, m)
                     /\ j = One(Task, new', y, m) - One(Task, new, y, m)
                     /\ k = One(Reader, held', z, m) - One(Reader, held, z, m)
  OBVIOUS
<1>4. i \in Int /\ j \in Int /\ k \in Int
  BY <1>3 DEF One
<1>5. a1 \in Nat /\ a2 \in Nat /\ a2 = a1 + i
  BY <1>0, <1>1, <1>2, <1>3, Moved
<1>6. b1 \in Nat /\ b2 \in Nat /\ b2 = b1 + j
  BY <1>0, <1>1, <1>2, <1>3, Moved
<1>7. c1 \in Nat /\ c2 \in Nat /\ c2 = c1 + k
  BY <1>0, <1>1, <1>2, <1>3, Moved
<1>8. UsersOf(m) = a1 + b1 + c1
  BY <1>1 DEF UsersOf, Of
<1>9. UsersOf(m)' = a2 + b2 + c2
  BY <1>2 DEF UsersOf, Of
<1>10. a2 + b2 + c2 = (a1 + b1 + c1) + i + j + k
  BY <1>4, <1>5, <1>6, <1>7
<1>11. a1 + b1 + c1 \in Nat /\ a2 + b2 + c2 \in Nat
  BY <1>5, <1>6, <1>7
<1>12. QED
  BY <1>3, <1>8, <1>9, <1>10, <1>11

\* What a step that changes one active, one oom and one fd does to mm_count.
LEMMA KeepersShift ==
    ASSUME NEW m, NEW x, NEW y, NEW z,
           \A t \in Task : t # x => active'[t] = active[t],
           \A t \in Task : t # y => oom'[t] = oom[t],
           \A r \in Reader : r # z => fd'[r] = fd[r]
    PROVE  /\ KeepersOf(m)' \in Nat /\ KeepersOf(m) \in Nat
           /\ KeepersOf(m)' = KeepersOf(m) + (One(Task, active', x, m) - One(Task, active, x, m))
                 + (One(Task, oom', y, m) - One(Task, oom, y, m))
                 + (One(Reader, fd', z, m) - One(Reader, fd, z, m))
<1>0. IsFiniteSet(Task) /\ IsFiniteSet(Reader)
  BY MmAssumption
<1>1. PICK a1, b1, c1 : a1 = Num(Of(Task, active, m)) /\ b1 = Num(Of(Task, oom, m))
                        /\ c1 = Num(Of(Reader, fd, m))
  OBVIOUS
<1>2. PICK a2, b2, c2 : a2 = Num(Of(Task, active', m)) /\ b2 = Num(Of(Task, oom', m))
                        /\ c2 = Num(Of(Reader, fd', m))
  OBVIOUS
<1>3. PICK i, j, k : /\ i = One(Task, active', x, m) - One(Task, active, x, m)
                     /\ j = One(Task, oom', y, m) - One(Task, oom, y, m)
                     /\ k = One(Reader, fd', z, m) - One(Reader, fd, z, m)
  OBVIOUS
<1>4. i \in Int /\ j \in Int /\ k \in Int
  BY <1>3 DEF One
<1>5. a1 \in Nat /\ a2 \in Nat /\ a2 = a1 + i
  BY <1>0, <1>1, <1>2, <1>3, Moved
<1>6. b1 \in Nat /\ b2 \in Nat /\ b2 = b1 + j
  BY <1>0, <1>1, <1>2, <1>3, Moved
<1>7. c1 \in Nat /\ c2 \in Nat /\ c2 = c1 + k
  BY <1>0, <1>1, <1>2, <1>3, Moved
<1>8. KeepersOf(m) = a1 + b1 + c1
  BY <1>1 DEF KeepersOf, Of
<1>9. KeepersOf(m)' = a2 + b2 + c2
  BY <1>2 DEF KeepersOf, Of
<1>10. a2 + b2 + c2 = (a1 + b1 + c1) + i + j + k
  BY <1>4, <1>5, <1>6, <1>7
<1>11. a1 + b1 + c1 \in Nat /\ a2 + b2 + c2 \in Nat
  BY <1>5, <1>6, <1>7
<1>12. QED
  BY <1>3, <1>8, <1>9, <1>10, <1>11

\* The mappings of the file f, after a step that changes one mm.
LEMMA MappingShift ==
    ASSUME MmInv, NEW f, NEW x \in Mm, vmas' \in [Mm -> SUBSET Vma],
           \A m \in Mm : m # x => exe'[m] = exe[m] /\ vmas'[m] = vmas[m]
    PROVE  /\ Num(Mapping(f)) \in Nat /\ Num(Mapping(f)') \in Nat
           /\ Num(vmas[x]) \in Nat /\ Num(vmas'[x]) \in Nat
           /\ Num(Mapping(f)') = Num(Mapping(f))
                + ((IF exe'[x] = f THEN Num(vmas'[x]) ELSE 0)
                   - (IF exe[x] = f THEN Num(vmas[x]) ELSE 0))
<1>1. IsFiniteSet(Mm) /\ IsFiniteSet(Vma)
  BY MmAssumption
<1>2. PICK A : A = {k \in Mapping(f) : k[1] # x}
  OBVIOUS
<1>3. PICK B : B = {x} \X (IF exe[x] = f THEN vmas[x] ELSE {})
  OBVIOUS
<1>4. PICK C : C = {x} \X (IF exe'[x] = f THEN vmas'[x] ELSE {})
  OBVIOUS
<1>5. vmas \in [Mm -> SUBSET Vma]
  BY DEF MmInv, TypeOK
<1>6. Mapping(f) = A \cup B
  BY <1>2, <1>3, <1>5 DEF Mapping
<1>7. Mapping(f)' = A \cup C
  BY <1>2, <1>4 DEF Mapping
<1>8. A \cap B = {} /\ A \cap C = {}
  BY <1>2, <1>3, <1>4
<1>9. ASSUME NEW V \in SUBSET Vma
      PROVE  /\ IsFiniteSet({x} \X V) /\ Cardinality({x} \X V) = Cardinality(V)
             /\ Cardinality(V) \in Nat
  <2>1. IsFiniteSet(V) /\ Cardinality(V) \in Nat
    BY <1>1, FS_Subset, FS_CardinalityType
  <2>2. IsFiniteSet({x}) /\ Cardinality({x}) = 1
    BY FS_Singleton
  <2>3. IsFiniteSet({x} \X V) /\ Cardinality({x} \X V) = 1 * Cardinality(V)
    BY <2>1, <2>2, FS_Product
  <2>4. QED
    BY <2>1, <2>3
<1>10. Cardinality({}) = 0 /\ IsFiniteSet({})
  BY FS_EmptySet
<1>11. IsFiniteSet(A)
  <2>1. IsFiniteSet(Mm \X Vma)
    BY <1>1, FS_Product
  <2>2. A \subseteq Mm \X Vma
    BY <1>2 DEF Mapping
  <2>3. QED
    BY <2>1, <2>2, FS_Subset
<1>12. Cardinality(A) \in Nat
  BY <1>11, FS_CardinalityType
<1>13. /\ Num(vmas[x]) \in Nat /\ IsFiniteSet(B)
       /\ Cardinality(B) = (IF exe[x] = f THEN Num(vmas[x]) ELSE 0)
  BY <1>3, <1>5, <1>9, <1>10 DEF Num
<1>14. /\ Num(vmas'[x]) \in Nat /\ IsFiniteSet(C)
       /\ Cardinality(C) = (IF exe'[x] = f THEN Num(vmas'[x]) ELSE 0)
  BY <1>4, <1>9, <1>10 DEF Num
<1>15. Cardinality(A \cup B) = Cardinality(A) + Cardinality(B) - 0
  BY <1>8, <1>10, <1>11, <1>13, FS_Union
<1>16. Cardinality(A \cup C) = Cardinality(A) + Cardinality(C) - 0
  BY <1>8, <1>10, <1>11, <1>14, FS_Union
<1>17. Num(Mapping(f)) = Cardinality(A) + Cardinality(B)
  BY <1>6, <1>12, <1>13, <1>15 DEF Num
<1>18. Num(Mapping(f)') = Cardinality(A) + Cardinality(C)
  BY <1>7, <1>12, <1>14, <1>16 DEF Num
<1>19. QED
  BY <1>12, <1>13, <1>14, <1>17, <1>18

\* What a step that changes one mm and one link does to the count of a file.
LEMMA FileShift ==
    ASSUME MmInv, NEW f, NEW x \in Mm, NEW z, vmas' \in [Mm -> SUBSET Vma],
           \A m \in Mm : m # x => exe'[m] = exe[m] /\ vmas'[m] = vmas[m],
           \A r \in Reader : r # z => link'[r] = link[r]
    PROVE  /\ Num(Runs(f)) + Num(Mapping(f)) + Num(Linked(f)) \in Nat
           /\ Num(Runs(f)') + Num(Mapping(f)') + Num(Linked(f)') \in Nat
           /\ Num(vmas[x]) \in Nat /\ Num(vmas'[x]) \in Nat
           /\ Num(Runs(f)') + Num(Mapping(f)') + Num(Linked(f)')
                = (Num(Runs(f)) + Num(Mapping(f)) + Num(Linked(f)))
                  + (IF exe'[x] = f THEN Num(vmas'[x]) + 1 ELSE 0)
                  - (IF exe[x] = f THEN Num(vmas[x]) + 1 ELSE 0)
                  + (One(Reader, link', z, f) - One(Reader, link, z, f))
<1>0. IsFiniteSet(Mm) /\ IsFiniteSet(Reader)
  BY MmAssumption
<1>1. PICK a1, b1, c1 : a1 = Num(Runs(f)) /\ b1 = Num(Mapping(f)) /\ c1 = Num(Linked(f))
  OBVIOUS
<1>2. PICK a2, b2, c2 : a2 = Num(Runs(f)') /\ b2 = Num(Mapping(f)') /\ c2 = Num(Linked(f)')
  OBVIOUS
<1>3. PICK k : k = One(Reader, link', z, f) - One(Reader, link, z, f)
  OBVIOUS
<1>4. k \in Int
  BY <1>3 DEF One
<1>5. PICK p : p = (IF exe'[x] = f THEN 1 ELSE 0)
  OBVIOUS
<1>6. PICK q : q = (IF exe[x] = f THEN 1 ELSE 0)
  OBVIOUS
<1>7. PICK v : v = (IF exe'[x] = f THEN Num(vmas'[x]) ELSE 0)
  OBVIOUS
<1>8. PICK w : w = (IF exe[x] = f THEN Num(vmas[x]) ELSE 0)
  OBVIOUS
<1>9. Num(vmas[x]) \in Nat /\ Num(vmas'[x]) \in Nat
  BY MappingShift
<1>10. p \in Int /\ q \in Int /\ v \in Int /\ w \in Int
  BY <1>5, <1>6, <1>7, <1>8, <1>9
<1>11. a1 \in Nat /\ a2 \in Nat /\ a2 = a1 + (p - q)
  <2>1. Runs(f) = Of(Mm, exe, f) /\ Runs(f)' = Of(Mm, exe', f)
    BY DEF Runs, Of
  <2>2. One(Mm, exe', x, f) = p /\ One(Mm, exe, x, f) = q
    BY <1>5, <1>6 DEF One
  <2>3. \A m \in Mm : m # x => exe'[m] = exe[m]
    OBVIOUS
  <2>4. QED
    BY <1>0, <1>1, <1>2, <2>1, <2>2, <2>3, Moved
<1>12. b1 \in Nat /\ b2 \in Nat /\ b2 = b1 + (v - w)
  BY <1>1, <1>2, <1>7, <1>8, MappingShift
<1>13. c1 \in Nat /\ c2 \in Nat /\ c2 = c1 + k
  <2>1. Linked(f) = Of(Reader, link, f) /\ Linked(f)' = Of(Reader, link', f)
    BY DEF Linked, Of
  <2>2. QED
    BY <1>0, <1>1, <1>2, <1>3, <2>1, Moved
<1>14. a2 + b2 + c2 = (a1 + b1 + c1) + (v + p) - (w + q) + k
  BY <1>4, <1>10, <1>11, <1>12, <1>13
<1>15. /\ v + p = (IF exe'[x] = f THEN Num(vmas'[x]) + 1 ELSE 0)
       /\ w + q = (IF exe[x] = f THEN Num(vmas[x]) + 1 ELSE 0)
  BY <1>5, <1>6, <1>7, <1>8, <1>9
<1>16. a1 + b1 + c1 \in Nat /\ a2 + b2 + c2 \in Nat
  BY <1>11, <1>12, <1>13
<1>17. QED
  BY <1>1, <1>2, <1>3, <1>9, <1>14, <1>15, <1>16

LEMMA ModShift ==
    ASSUME NEW x \in Mm, \A m \in Mm : m # x => (HasModule(m)' <=> HasModule(m))
    PROVE  /\ Num(Modular) \in Nat /\ Num(Modular') \in Nat
           /\ Num(Modular') = Num(Modular) + ((IF HasModule(x)' THEN 1 ELSE 0)
                                              - (IF HasModule(x) THEN 1 ELSE 0))
<1>1. PICK S : S = Modular
  OBVIOUS
<1>2. PICK R : R = Modular'
  OBVIOUS
<1>3. IsFiniteSet(S)
  BY <1>1, MmAssumption, FS_Subset DEF Modular
<1>4. \A m : m # x => (m \in R <=> m \in S)
  BY <1>1, <1>2 DEF Modular
<1>5. (x \in R <=> HasModule(x)') /\ (x \in S <=> HasModule(x))
  BY <1>1, <1>2 DEF Modular
<1>6. /\ Cardinality(R) \in Nat /\ Cardinality(S) \in Nat
      /\ Cardinality(R) = Cardinality(S) + ((IF x \in R THEN 1 ELSE 0)
                                            - (IF x \in S THEN 1 ELSE 0))
  BY <1>3, <1>4, Differ
<1>7. QED
  BY <1>1, <1>2, <1>5, <1>6 DEF Num

LEMMA NsShift ==
    ASSUME NEW x \in Mm, \A m \in Mm : m # x => (stage'[m] = "free" <=> stage[m] = "free")
    PROVE  /\ Num(Alloc) \in Nat /\ Num(Alloc') \in Nat
           /\ Num(Alloc') = Num(Alloc) + ((IF stage'[x] # "free" THEN 1 ELSE 0)
                                          - (IF stage[x] # "free" THEN 1 ELSE 0))
<1>1. PICK S : S = Alloc
  OBVIOUS
<1>2. PICK R : R = Alloc'
  OBVIOUS
<1>3. IsFiniteSet(S)
  BY <1>1, MmAssumption, FS_Subset DEF Alloc
<1>4. \A m : m # x => (m \in R <=> m \in S)
  BY <1>1, <1>2 DEF Alloc
<1>5. (x \in R <=> stage'[x] # "free") /\ (x \in S <=> stage[x] # "free")
  BY <1>1, <1>2 DEF Alloc
<1>6. /\ Cardinality(R) \in Nat /\ Cardinality(S) \in Nat
      /\ Cardinality(R) = Cardinality(S) + ((IF x \in R THEN 1 ELSE 0)
                                            - (IF x \in S THEN 1 ELSE 0))
  BY <1>3, <1>4, Differ
<1>7. QED
  BY <1>1, <1>2, <1>5, <1>6 DEF Num

(***************************************************************************)
(* What a step does not touch stays exact.                                 *)
(***************************************************************************)
LEMMA UsersSame ==
    ASSUME MmInv, users' = users, mm' = mm, new' = new, held' = held
    PROVE  UsersExact'
  BY DEF MmInv, Counts, UsersExact, UsersOf, Num

LEMMA CountSame ==
    ASSUME MmInv, count' = count, active' = active, oom' = oom, fd' = fd,
           \A m \in Mm : stage'[m] \in {"free", "gone"} <=> stage[m] \in {"free", "gone"}
    PROVE  CountExact'
<1>1. \A m \in Mm : KeepersOf(m)' = KeepersOf(m)
  BY DEF KeepersOf, Num
<1>2. QED
  BY <1>1 DEF MmInv, Counts, CountExact

LEMMA FilesSame ==
    ASSUME MmInv, fref' = fref, exe' = exe, vmas' = vmas, link' = link
    PROVE  FilesExact'
<1>1. \A f \in File : Runs(f)' = Runs(f) /\ Mapping(f)' = Mapping(f) /\ Linked(f)' = Linked(f)
  BY DEF Runs, Mapping, Linked
<1>2. QED
  BY <1>1 DEF MmInv, Counts, FilesExact, Num

LEMMA ModSame ==
    ASSUME MmInv, modref' = modref, \A m \in Mm : HasModule(m)' <=> HasModule(m)
    PROVE  ModExact'
<1>1. Modular' = Modular
  BY DEF Modular
<1>2. QED
  BY <1>1 DEF MmInv, Counts, ModExact, Num

LEMMA NsSame ==
    ASSUME MmInv, nsref' = nsref, \A m \in Mm : stage'[m] = "free" <=> stage[m] = "free"
    PROVE  NsExact'
<1>1. Alloc' = Alloc
  BY DEF Alloc
<1>2. QED
  BY <1>1 DEF MmInv, Counts, NsExact, Num

(***************************************************************************)
(* The types, counts being numbers because they are exact.                 *)
(***************************************************************************)
MmShape ==
    /\ stage \in [Mm -> Stage]
    /\ users \in [Mm -> Int] /\ count \in [Mm -> Int]
    /\ vmas \in [Mm -> SUBSET Vma]
    /\ exe \in [Mm -> File \cup {None}]
    /\ binfmt \in [Mm -> BOOLEAN] /\ secret \in [Mm -> BOOLEAN]
    /\ fref \in [File -> Int]
TaskShape ==
    /\ pc \in [Task -> PC]
    /\ mm \in [Task -> Mm \cup {None}] /\ active \in [Task -> Mm \cup {None}]
    /\ new \in [Task -> Mm \cup {None}] /\ oom \in [Task -> Mm \cup {None}]
    /\ kid \in [Task -> Task \cup {None}] /\ cur \in [Task -> Nat]
    /\ priv \in [Task -> BOOLEAN]
ReaderShape ==
    /\ rpc \in [Reader -> RPC]
    /\ target \in [Reader -> Task \cup {None}]
    /\ held \in [Reader -> Mm \cup {None}] /\ fd \in [Reader -> Mm \cup {None}]
    /\ link \in [Reader -> File \cup {None}]

LEMMA Shapes ==
    ASSUME MmInv
    PROVE  /\ MmShape /\ TaskShape /\ ReaderShape /\ mix \in Mixes
           /\ modref \in Nat /\ nsref \in Nat /\ fref \in [File -> Nat]
           /\ modref = Num(Modular) /\ nsref = Num(Alloc)
<1>1. users \in [Mm -> Int] /\ count \in [Mm -> Int] /\ fref \in [File -> Int]
  BY DEF MmInv, TypeOK
<1>2. MmShape
  BY <1>1 DEF MmInv, TypeOK, MmShape
<1>3. TaskShape
  BY DEF MmInv, TypeOK, TaskShape
<1>4. ReaderShape
  BY DEF MmInv, TypeOK, ReaderShape
<1>5. QED
  BY <1>2, <1>3, <1>4 DEF MmInv, TypeOK, Counts, ModExact, NsExact

LEMMA Combine ==
    ASSUME MmInv, MmShape', TaskShape', ReaderShape', mix' = mix,
           UsersExact', CountExact', FilesExact', ModExact', NsExact',
           \A m \in Mm : MmOk(m)', \A t \in Task : TaskPart(t)',
           \A r \in Reader : ReaderOk(r)'
    PROVE  MmInv'
<1>0. IsFiniteSet(Mm) /\ IsFiniteSet(Task) /\ IsFiniteSet(Reader) /\ IsFiniteSet(Mm \X Vma)
  BY MmAssumption, FS_Product
<1>1. users' \in [Mm -> Nat]
  <2>1. ASSUME NEW m \in Mm PROVE users'[m] \in Nat
    <3>1. /\ Num(Of(Task, mm', m)) \in Nat
          /\ Num(Of(Task, new', m)) \in Nat
          /\ Num(Of(Reader, held', m)) \in Nat
      BY <1>0, NumNat
    <3>2. users'[m] = Num(Of(Task, mm', m)) + Num(Of(Task, new', m)) + Num(Of(Reader, held', m))
      BY DEF UsersExact, UsersOf, Of
    <3>3. QED
      BY <3>1, <3>2
  <2>2. QED
    BY <2>1 DEF MmShape
<1>2. count' \in [Mm -> Nat]
  <2>1. ASSUME NEW m \in Mm PROVE count'[m] \in Nat
    <3>1. /\ Num(Of(Task, active', m)) \in Nat
          /\ Num(Of(Task, oom', m)) \in Nat
          /\ Num(Of(Reader, fd', m)) \in Nat
      BY <1>0, NumNat
    <3>2. count'[m] = (Num(Of(Task, active', m)) + Num(Of(Task, oom', m)) + Num(Of(Reader, fd', m)))
                      + (IF stage'[m] \in {"free", "gone"} THEN 0 ELSE 1)
      BY DEF CountExact, KeepersOf, Of
    <3>3. QED
      BY <3>1, <3>2
  <2>2. QED
    BY <2>1 DEF MmShape
<1>3. fref' \in [File -> Nat]
  <2>1. ASSUME NEW f \in File PROVE fref'[f] \in Nat
    <3>1. IsFiniteSet(Runs(f)') /\ IsFiniteSet(Mapping(f)') /\ IsFiniteSet(Linked(f)')
      BY <1>0, FS_Subset DEF Runs, Mapping, Linked
    <3>2. Num(Runs(f)') \in Nat /\ Num(Mapping(f)') \in Nat /\ Num(Linked(f)') \in Nat
      BY <3>1, FS_CardinalityType DEF Num
    <3>3. fref'[f] = Num(Runs(f)') + Num(Mapping(f)') + Num(Linked(f)')
      BY DEF FilesExact, Num
    <3>4. QED
      BY <3>2, <3>3
  <2>2. QED
    BY <2>1 DEF MmShape
<1>4. modref' \in Nat /\ nsref' \in Nat
  <2>1. IsFiniteSet(Modular') /\ IsFiniteSet(Alloc')
    BY <1>0, FS_Subset DEF Modular, Alloc
  <2>2. Num(Modular') \in Nat /\ Num(Alloc') \in Nat
    BY <2>1, FS_CardinalityType DEF Num
  <2>3. QED
    BY <2>2 DEF ModExact, NsExact, Num
<1>5. TypeOK'
  BY <1>1, <1>2, <1>3, <1>4, Shapes DEF TypeOK, MmShape, TaskShape, ReaderShape
<1>6. QED
  BY <1>5 DEF MmInv, Counts

(***************************************************************************)
(* The counts stay exact when the changes of a count are those of the      *)
(* pointers it counts.                                                     *)
(***************************************************************************)
Hit(p, m) == IF p = m THEN 1 ELSE 0

LEMMA UsersMove ==
    ASSUME MmInv, NEW x \in Task, NEW y \in Task, held' = held,
           \A t \in Task : t # x => mm'[t] = mm[t],
           \A t \in Task : t # y => new'[t] = new[t],
           \A m \in Mm : users'[m] = users[m] + ((Hit(mm'[x], m) - Hit(mm[x], m))
                                                 + (Hit(new'[y], m) - Hit(new[y], m)))
    PROVE  UsersExact'
<1>1. ASSUME NEW m \in Mm PROVE users'[m] = UsersOf(m)'
  <2>1. /\ UsersOf(m)' \in Nat /\ UsersOf(m) \in Nat
        /\ UsersOf(m)' = UsersOf(m) + (One(Task, mm', x, m) - One(Task, mm, x, m))
                 + (One(Task, new', y, m) - One(Task, new, y, m))
                 + (One(Reader, held', Boot, m) - One(Reader, held, Boot, m))
    BY UsersShift
  <2>2. /\ One(Task, mm', x, m) = Hit(mm'[x], m) /\ One(Task, mm, x, m) = Hit(mm[x], m)
        /\ One(Task, new', y, m) = Hit(new'[y], m) /\ One(Task, new, y, m) = Hit(new[y], m)
        /\ Hit(mm'[x], m) \in Int /\ Hit(mm[x], m) \in Int
        /\ Hit(new'[y], m) \in Int /\ Hit(new[y], m) \in Int
    BY DEF One, Hit
  <2>3. One(Reader, held', Boot, m) = One(Reader, held, Boot, m)
        /\ One(Reader, held, Boot, m) \in Int
    BY DEF One
  <2>4. users[m] = UsersOf(m)
    BY UsedLive
  <2>5. QED
    BY <2>1, <2>2, <2>3, <2>4
<1>2. QED
  BY <1>1 DEF UsersExact

LEMMA HeldMove ==
    ASSUME MmInv, NEW r \in Reader, mm' = mm, new' = new,
           \A q \in Reader : q # r => held'[q] = held[q],
           \A m \in Mm : users'[m] = users[m] + (Hit(held'[r], m) - Hit(held[r], m))
    PROVE  UsersExact'
<1>1. ASSUME NEW m \in Mm PROVE users'[m] = UsersOf(m)'
  <2>1. /\ UsersOf(m)' \in Nat /\ UsersOf(m) \in Nat
        /\ UsersOf(m)' = UsersOf(m) + (One(Task, mm', Boot, m) - One(Task, mm, Boot, m))
                 + (One(Task, new', Boot, m) - One(Task, new, Boot, m))
                 + (One(Reader, held', r, m) - One(Reader, held, r, m))
    BY UsersShift
  <2>2. /\ One(Task, mm', Boot, m) = One(Task, mm, Boot, m)
        /\ One(Task, new', Boot, m) = One(Task, new, Boot, m)
        /\ One(Task, mm, Boot, m) \in Int /\ One(Task, new, Boot, m) \in Int
    BY DEF One
  <2>3. /\ One(Reader, held', r, m) = Hit(held'[r], m) /\ One(Reader, held, r, m) = Hit(held[r], m)
        /\ Hit(held'[r], m) \in Int /\ Hit(held[r], m) \in Int
    BY DEF One, Hit
  <2>4. users[m] = UsersOf(m)
    BY UsedLive
  <2>5. QED
    BY <2>1, <2>2, <2>3, <2>4
<1>2. QED
  BY <1>1 DEF UsersExact

Whole(m) == IF stage[m] \in {"free", "gone"} THEN 0 ELSE 1

LEMMA CountMove ==
    ASSUME MmInv, NEW x \in Task, NEW y \in Task, fd' = fd,
           \A t \in Task : t # x => active'[t] = active[t],
           \A t \in Task : t # y => oom'[t] = oom[t],
           \A m \in Mm : count'[m] = count[m] + ((Hit(active'[x], m) - Hit(active[x], m))
                                                 + (Hit(oom'[y], m) - Hit(oom[y], m))
                                                 + (Whole(m)' - Whole(m)))
    PROVE  CountExact'
<1>1. ASSUME NEW m \in Mm PROVE count'[m] = KeepersOf(m)' + Whole(m)'
  <2>1. /\ KeepersOf(m)' \in Nat /\ KeepersOf(m) \in Nat
        /\ KeepersOf(m)' = KeepersOf(m) + (One(Task, active', x, m) - One(Task, active, x, m))
                 + (One(Task, oom', y, m) - One(Task, oom, y, m))
                 + (One(Reader, fd', Boot, m) - One(Reader, fd, Boot, m))
    BY KeepersShift
  <2>2. /\ One(Task, active', x, m) = Hit(active'[x], m)
        /\ One(Task, active, x, m) = Hit(active[x], m)
        /\ One(Task, oom', y, m) = Hit(oom'[y], m) /\ One(Task, oom, y, m) = Hit(oom[y], m)
        /\ Hit(active'[x], m) \in Int /\ Hit(active[x], m) \in Int
        /\ Hit(oom'[y], m) \in Int /\ Hit(oom[y], m) \in Int
    BY DEF One, Hit
  <2>3. One(Reader, fd', Boot, m) = One(Reader, fd, Boot, m) /\ One(Reader, fd, Boot, m) \in Int
    BY DEF One
  <2>4. count[m] = KeepersOf(m) + Whole(m)
    BY KeptNotFree DEF Whole
  <2>5. Whole(m) \in Int /\ Whole(m)' \in Int
    BY DEF Whole
  <2>6. QED
    BY <2>1, <2>2, <2>3, <2>4, <2>5
<1>2. QED
  BY <1>1 DEF CountExact, Whole

LEMMA FdMove ==
    ASSUME MmInv, NEW r \in Reader, active' = active, oom' = oom, stage' = stage,
           \A q \in Reader : q # r => fd'[q] = fd[q],
           \A m \in Mm : count'[m] = count[m] + (Hit(fd'[r], m) - Hit(fd[r], m))
    PROVE  CountExact'
<1>1. ASSUME NEW m \in Mm PROVE count'[m] = KeepersOf(m)' + Whole(m)'
  <2>1. /\ KeepersOf(m)' \in Nat /\ KeepersOf(m) \in Nat
        /\ KeepersOf(m)' = KeepersOf(m) + (One(Task, active', Boot, m) - One(Task, active, Boot, m))
                 + (One(Task, oom', Boot, m) - One(Task, oom, Boot, m))
                 + (One(Reader, fd', r, m) - One(Reader, fd, r, m))
    BY KeepersShift
  <2>2. /\ One(Task, active', Boot, m) = One(Task, active, Boot, m)
        /\ One(Task, oom', Boot, m) = One(Task, oom, Boot, m)
        /\ One(Task, active, Boot, m) \in Int /\ One(Task, oom, Boot, m) \in Int
    BY DEF One
  <2>3. /\ One(Reader, fd', r, m) = Hit(fd'[r], m) /\ One(Reader, fd, r, m) = Hit(fd[r], m)
        /\ Hit(fd'[r], m) \in Int /\ Hit(fd[r], m) \in Int
    BY DEF One, Hit
  <2>4. count[m] = KeepersOf(m) + Whole(m)
    BY KeptNotFree DEF Whole
  <2>5. Whole(m) \in Int /\ Whole(m)' = Whole(m)
    BY DEF Whole
  <2>6. QED
    BY <2>1, <2>2, <2>3, <2>4, <2>5
<1>2. QED
  BY <1>1 DEF CountExact, Whole

\* x is the mm that changes: the files it refers to.
Uses(x, f) == IF exe[x] = f THEN Num(vmas[x]) + 1 ELSE 0

LEMMA FilesMove ==
    ASSUME MmInv, NEW x \in Mm, vmas' \in [Mm -> SUBSET Vma], link' = link,
           \A m \in Mm : m # x => exe'[m] = exe[m] /\ vmas'[m] = vmas[m],
           \A f \in File : fref'[f] = fref[f] + (Uses(x, f)' - Uses(x, f))
    PROVE  FilesExact'
<1>1. ASSUME NEW f \in File PROVE fref'[f] = Num(Runs(f)') + Num(Mapping(f)') + Num(Linked(f)')
  <2>1. PICK a : a = Num(Runs(f)) + Num(Mapping(f)) + Num(Linked(f))
    OBVIOUS
  <2>2. PICK b : b = Num(Runs(f)') + Num(Mapping(f)') + Num(Linked(f)')
    OBVIOUS
  <2>3. /\ a \in Nat /\ b \in Nat /\ Num(vmas[x]) \in Nat /\ Num(vmas'[x]) \in Nat
        /\ b = a + (IF exe'[x] = f THEN Num(vmas'[x]) + 1 ELSE 0)
                  - (IF exe[x] = f THEN Num(vmas[x]) + 1 ELSE 0)
                  + (One(Reader, link', Boot, f) - One(Reader, link, Boot, f))
    BY <2>1, <2>2, FileShift
  <2>4. One(Reader, link', Boot, f) = One(Reader, link, Boot, f)
        /\ One(Reader, link, Boot, f) \in Int
    BY DEF One
  <2>5. fref[f] = a
    BY <2>1 DEF MmInv, Counts, FilesExact
  <2>6. PICK u \in Int, w \in Int : u = Uses(x, f) /\ w = Uses(x, f)'
    BY <2>3 DEF Uses, Num
  <2>7. b = a + w - u
    BY <2>3, <2>4, <2>6 DEF Uses, Num
  <2>8. fref'[f] = fref[f] + (w - u)
    BY <2>6
  <2>9. QED
    BY <2>2, <2>3, <2>5, <2>6, <2>7, <2>8
<1>2. QED
  BY <1>1 DEF FilesExact, Num

LEMMA LinkedShift ==
    ASSUME NEW r \in Reader, NEW f, \A q \in Reader : q # r => link'[q] = link[q]
    PROVE  /\ Num(Linked(f)) \in Nat /\ Num(Linked(f)') \in Nat
           /\ Num(Linked(f)') = Num(Linked(f)) + (Hit(link'[r], f) - Hit(link[r], f))
<1>1. IsFiniteSet(Reader)
  BY MmAssumption
<1>2. PICK c, d : c = Num(Of(Reader, link, f)) /\ d = Num(Of(Reader, link', f))
  OBVIOUS
<1>3. c \in Nat /\ d \in Nat /\ d = c + (One(Reader, link', r, f) - One(Reader, link, r, f))
  BY <1>1, <1>2, Moved
<1>4. One(Reader, link', r, f) = Hit(link'[r], f) /\ One(Reader, link, r, f) = Hit(link[r], f)
  BY DEF One, Hit
<1>5. Linked(f) = Of(Reader, link, f) /\ Linked(f)' = Of(Reader, link', f)
  BY DEF Linked, Of
<1>6. QED
  BY <1>2, <1>3, <1>4, <1>5

LEMMA LinkMove ==
    ASSUME MmInv, NEW r \in Reader, exe' = exe, vmas' = vmas,
           \A q \in Reader : q # r => link'[q] = link[q],
           \A f \in File : fref'[f] = fref[f] + (Hit(link'[r], f) - Hit(link[r], f))
    PROVE  FilesExact'
<1>1. ASSUME NEW f \in File PROVE fref'[f] = Num(Runs(f)') + Num(Mapping(f)') + Num(Linked(f)')
  <2>1. Runs(f)' = Runs(f) /\ Mapping(f)' = Mapping(f)
    BY DEF Runs, Mapping
  <2>2. IsFiniteSet(Runs(f)) /\ IsFiniteSet(Mapping(f))
    BY MmAssumption, FS_Subset, FS_Product DEF Runs, Mapping
  <2>3. PICK a \in Nat, b \in Nat : a = Num(Runs(f)) /\ b = Num(Mapping(f))
    BY <2>2, FS_CardinalityType DEF Num
  <2>4. PICK c, d : c = Num(Linked(f)) /\ d = Num(Linked(f)')
    OBVIOUS
  <2>5. c \in Nat /\ d \in Nat /\ d = c + (Hit(link'[r], f) - Hit(link[r], f))
    BY <2>4, LinkedShift
  <2>8. PICK i \in Int, j \in Int : i = Hit(link'[r], f) /\ j = Hit(link[r], f)
    BY DEF Hit
  <2>9. fref[f] = a + b + c
    BY <2>3, <2>4 DEF MmInv, Counts, FilesExact
  <2>10. fref'[f] = fref[f] + (i - j)
    BY <2>8
  <2>11. fref'[f] = a + b + d
    BY <2>5, <2>8, <2>9, <2>10
  <2>12. QED
    BY <2>1, <2>3, <2>4, <2>11
<1>2. QED
  BY <1>1 DEF FilesExact, Num

(***************************************************************************)
(* mmget and mmput leave an mm as far torn down as its count says.         *)
(***************************************************************************)
LEMMA GetOk ==
    ASSUME MmInv, NEW m \in Mm, stage[m] = "live", mmget(m),
           count' = count, vmas' = vmas, exe' = exe
    PROVE  /\ \A k \in Mm : MmOk(k)' /\ stage'[k] = stage[k]
           /\ users' \in [Mm -> Int] /\ stage' \in [Mm -> Stage]
           /\ users'[m] = users[m] + 1 /\ \A k \in Mm : k # m => users'[k] = users[k]
<1>1. users \in [Mm -> Nat] /\ stage' = stage /\ stage \in [Mm -> Stage]
  BY DEF MmInv, TypeOK, mmget
<1>2. /\ users' \in [Mm -> Int]
      /\ users'[m] = users[m] + 1 /\ \A k \in Mm : k # m => users'[k] = users[k]
  BY <1>1 DEF mmget
<1>3. \A k \in Mm : users[k] \in Nat /\ MmOk(k)
  BY <1>1 DEF MmInv
<1>4. ASSUME NEW k \in Mm PROVE MmOk(k)'
  <2>1. stage[k] = "live" <=> users'[k] # 0
    BY <1>2, <1>3 DEF MmOk
  <2>2. QED
    BY <1>1, <1>3, <2>1 DEF MmOk
<1>5. QED
  BY <1>1, <1>2, <1>4

LEMMA PutOk ==
    ASSUME MmInv, NEW m \in Mm, users[m] > 0, stage[m] = "live", mmput(m),
           \A k \in Mm : k # m => count'[k] = count[k], vmas' = vmas, exe' = exe
    PROVE  /\ \A k \in Mm : MmOk(k)'
           /\ users' \in [Mm -> Int] /\ stage' \in [Mm -> Stage]
           /\ users'[m] = users[m] - 1 /\ \A k \in Mm : k # m => users'[k] = users[k]
           /\ stage'[m] \in {"live", "unmap"} /\ \A k \in Mm : k # m => stage'[k] = stage[k]
           /\ \A k \in Mm : /\ stage'[k] \in {"free", "gone"} <=> stage[k] \in {"free", "gone"}
                            /\ stage'[k] = "free" <=> stage[k] = "free"
                            /\ stage'[k] \in {"live", "unmap", "exe"}
                                 <=> stage[k] \in {"live", "unmap", "exe"}
<1>1. users \in [Mm -> Nat] /\ stage \in [Mm -> Stage]
  BY DEF MmInv, TypeOK
<1>2. /\ users' \in [Mm -> Int]
      /\ users'[m] = users[m] - 1 /\ \A k \in Mm : k # m => users'[k] = users[k]
  BY <1>1 DEF mmput
<1>3. /\ stage' \in [Mm -> Stage]
      /\ stage'[m] = (IF users[m] = 1 THEN "unmap" ELSE stage[m])
      /\ \A k \in Mm : k # m => stage'[k] = stage[k]
  BY <1>1 DEF mmput, Stage
<1>4. \A k \in Mm : users[k] \in Nat /\ MmOk(k)
  BY <1>1 DEF MmInv
<1>5. ASSUME NEW k \in Mm PROVE MmOk(k)'
  <2>1. stage'[k] = "live" <=> users'[k] # 0
    <3>1. CASE k = m
      BY <1>2, <1>3, <1>4, <3>1
    <3>2. CASE k # m
      BY <1>2, <1>3, <1>4, <3>2 DEF MmOk
    <3>3. QED
      BY <3>1, <3>2
  <2>2. CASE k = m
    BY <1>3, <1>4, <2>1, <2>2 DEF MmOk
  <2>3. CASE k # m
    BY <1>3, <1>4, <2>1, <2>3 DEF MmOk
  <2>4. QED
    BY <2>2, <2>3
<1>6. QED
  BY <1>2, <1>3, <1>5

(***************************************************************************)
(* Steps of a reader.                                                      *)
(***************************************************************************)
OthersRead(r) ==
    \A q \in Reader : q # r =>
        /\ rpc'[q] = rpc[q] /\ target'[q] = target[q] /\ held'[q] = held[q]
        /\ fd'[q] = fd[q] /\ link'[q] = link[q]

\* A reader's step keeps the invariant if it keeps the counts, how far the mms
\* are torn down and what its own place tells, and takes no mm in the making.
LEMMA ReaderStep ==
    ASSUME MmInv, NEW r \in Reader, ReaderShape', OthersRead(r), ReaderOk(r)',
           UNCHANGED <<tasks, vmas, exe, binfmt, secret, modref, nsref, mix>>,
           users' \in [Mm -> Int], count' \in [Mm -> Int], fref' \in [File -> Int],
           stage' \in [Mm -> Stage],
           \A k \in Mm : /\ stage'[k] = "free" <=> stage[k] = "free"
                         /\ stage'[k] \in {"live", "unmap", "exe"}
                              <=> stage[k] \in {"live", "unmap", "exe"},
           \A t \in Task : new[t] # None => held'[r] # new[t] /\ fd'[r] # new[t],
           UsersExact', CountExact', FilesExact', \A m \in Mm : MmOk(m)'
    PROVE  MmInv'
<1>1. MmShape' /\ TaskShape'
  <2>1. MmShape /\ TaskShape
    BY Shapes
  <2>2. MmShape'
    BY <2>1 DEF MmShape
  <2>3. QED
    BY <2>1, <2>2 DEF TaskShape, tasks
<1>2. ModExact'
  <2>1. \A m \in Mm : HasModule(m)' <=> HasModule(m)
    BY DEF HasModule, tasks
  <2>2. QED
    BY <2>1, ModSame
<1>3. NsExact'
  BY NsSame
<1>4. ASSUME NEW t \in Task PROVE TaskPart(t)'
  <2>1. TaskPart(t)
    BY DEF MmInv
  <2>2. Alone(t)'
    BY <2>1 DEF TaskPart, Alone, OthersRead, tasks
  <2>3. TaskOk(t)' /\ KidOk(t)' /\ MakeOk(t)' /\ SwapOk(t)' /\ SecretOk(t)'
    BY <2>1 DEF TaskPart, TaskOk, KidOk, MakeOk, SwapOk, SecretOk, tasks
  <2>4. QED
    BY <2>2, <2>3 DEF TaskPart
<1>5. ASSUME NEW q \in Reader PROVE ReaderOk(q)'
  <2>1. CASE q = r
    BY <2>1
  <2>2. CASE q # r
    <3>1. ReaderOk(q)
      BY DEF MmInv
    <3>2. QED
      BY <2>2, <3>1 DEF ReaderOk, OthersRead, tasks
  <2>3. QED
    BY <2>1, <2>2
<1>6. QED
  BY <1>1, <1>2, <1>3, <1>4, <1>5, Combine

\* A reader takes an mm,
LEMMA ReaderGets ==
    ASSUME MmInv, NEW r \in Reader, NEW m \in Mm, stage[m] = "live", held[r] = None,
           mmget(m), held' = [held EXCEPT ![r] = m],
           UNCHANGED <<count, vmas, exe, binfmt, secret, refs, tasks, fd, link, mix>>,
           rpc' \in [Reader -> RPC], target' \in [Reader -> Task \cup {None}],
           OthersRead(r), ReaderOk(r)',
           \A t \in Task : new[t] # None => m # new[t]
    PROVE  MmInv'
<1>1. MmShape /\ ReaderShape
  BY Shapes
<1>2. /\ \A k \in Mm : MmOk(k)' /\ stage'[k] = stage[k]
      /\ users' \in [Mm -> Int] /\ stage' \in [Mm -> Stage]
      /\ users'[m] = users[m] + 1 /\ \A k \in Mm : k # m => users'[k] = users[k]
  BY GetOk
<1>3. held' \in [Reader -> Mm \cup {None}] /\ held'[r] = m
  BY <1>1 DEF ReaderShape
<1>4. ReaderShape'
  BY <1>1, <1>3 DEF ReaderShape
<1>5. UsersExact'
  <2>1. \A k \in Mm : users'[k] = users[k] + (Hit(held'[r], k) - Hit(held[r], k))
    <3>1. \A k \in Mm : users[k] \in Int /\ k # None
      BY <1>1, MmAssumption DEF MmShape
    <3>2. QED
      BY <1>2, <1>3, <3>1 DEF Hit
  <2>2. QED
    BY <2>1, HeldMove DEF OthersRead, tasks
<1>6. CountExact'
  BY <1>2, CountSame DEF tasks
<1>7. FilesExact'
  BY FilesSame DEF refs
<1>8. \A t \in Task : new[t] # None => held'[r] # new[t] /\ fd'[r] # new[t]
  BY <1>3 DEF MmInv, TaskPart, Alone
<1>9. count' \in [Mm -> Int] /\ fref' \in [File -> Int]
  BY <1>1 DEF MmShape, refs
<1>10. UNCHANGED <<tasks, vmas, exe, binfmt, secret, modref, nsref, mix>>
  BY DEF refs
<1>11. QED
  BY <1>2, <1>4, <1>5, <1>6, <1>7, <1>8, <1>9, <1>10, ReaderStep

\* gives one back,
LEMMA ReaderPuts ==
    ASSUME MmInv, NEW r \in Reader, held[r] # None,
           mmput(held[r]), held' = [held EXCEPT ![r] = None],
           UNCHANGED <<count, vmas, exe, binfmt, secret, refs, tasks, fd, link, mix>>,
           rpc' \in [Reader -> RPC], target' \in [Reader -> Task \cup {None}],
           OthersRead(r), ReaderOk(r)'
    PROVE  MmInv'
<1>1. MmShape /\ ReaderShape
  BY Shapes
<1>0. PICK m \in Mm : m = held[r]
  BY <1>1 DEF ReaderShape
<1>01. stage[m] = "live" /\ users[m] > 0 /\ users[m] \in Nat /\ mmput(m)
  BY <1>0, UsedLive
<1>2. /\ \A k \in Mm : MmOk(k)'
      /\ users' \in [Mm -> Int] /\ stage' \in [Mm -> Stage]
      /\ users'[m] = users[m] - 1 /\ \A k \in Mm : k # m => users'[k] = users[k]
      /\ \A k \in Mm : /\ stage'[k] \in {"free", "gone"} <=> stage[k] \in {"free", "gone"}
                       /\ stage'[k] = "free" <=> stage[k] = "free"
                       /\ stage'[k] \in {"live", "unmap", "exe"}
                            <=> stage[k] \in {"live", "unmap", "exe"}
  BY <1>01, PutOk
<1>3. held' \in [Reader -> Mm \cup {None}] /\ held'[r] = None
  BY <1>1 DEF ReaderShape
<1>4. ReaderShape'
  BY <1>1, <1>3 DEF ReaderShape
<1>5. UsersExact'
  <2>1. \A k \in Mm : users'[k] = users[k] + (Hit(held'[r], k) - Hit(held[r], k))
    <3>1. \A k \in Mm : users[k] \in Int /\ k # None
      BY <1>1, MmAssumption DEF MmShape
    <3>2. QED
      BY <1>0, <1>2, <1>3, <3>1 DEF Hit
  <2>2. QED
    BY <2>1, HeldMove DEF OthersRead, tasks
<1>6. CountExact'
  BY <1>2, CountSame DEF tasks
<1>7. FilesExact'
  BY FilesSame DEF refs
<1>8. \A t \in Task : new[t] # None => held'[r] # new[t] /\ fd'[r] # new[t]
  BY <1>3 DEF MmInv, TaskPart, Alone
<1>9. count' \in [Mm -> Int] /\ fref' \in [File -> Int]
  BY <1>1 DEF MmShape, refs
<1>10. UNCHANGED <<tasks, vmas, exe, binfmt, secret, modref, nsref, mix>>
  BY DEF refs
<1>11. QED
  BY <1>2, <1>4, <1>5, <1>6, <1>7, <1>8, <1>9, <1>10, ReaderStep

\* or does neither.
LEMMA ReaderMoves ==
    ASSUME MmInv, NEW r \in Reader,
           UNCHANGED <<mms, refs, tasks, held, fd, link, mix>>,
           rpc' \in [Reader -> RPC], target' \in [Reader -> Task \cup {None}],
           OthersRead(r), ReaderOk(r)'
    PROVE  MmInv'
<1>1. MmShape /\ ReaderShape
  BY Shapes
<1>2. ReaderShape'
  BY <1>1 DEF ReaderShape
<1>3. UsersExact' /\ CountExact' /\ FilesExact'
  BY UsersSame, CountSame, FilesSame DEF tasks, refs, mms
<1>4. \A m \in Mm : MmOk(m)'
  BY DEF MmInv, MmOk, mms
<1>5. \A t \in Task : new[t] # None => held'[r] # new[t] /\ fd'[r] # new[t]
  BY DEF MmInv, TaskPart, Alone
<1>6. /\ users' \in [Mm -> Int] /\ count' \in [Mm -> Int] /\ fref' \in [File -> Int]
      /\ stage' \in [Mm -> Stage] /\ stage' = stage
  BY <1>1 DEF MmShape, refs, mms
<1>7. UNCHANGED <<tasks, vmas, exe, binfmt, secret, modref, nsref, mix>>
  BY DEF refs, mms
<1>8. QED
  BY <1>2, <1>3, <1>4, <1>5, <1>6, <1>7, ReaderStep

\* An mm that a task has is live and not in the making.
LEMMA TaskMm ==
    ASSUME MmInv, NEW t \in Task, mm[t] # None
    PROVE  /\ mm[t] \in Mm /\ stage[mm[t]] = "live" /\ users[mm[t]] > 0
           /\ \A u \in Task : new[u] # mm[t]
<1>1. mm[t] \in Mm
  BY DEF MmInv, TypeOK
<1>2. stage[mm[t]] = "live" /\ users[mm[t]] > 0
  BY <1>1, UsedLive
<1>3. \A u \in Task : new[u] # mm[t]
  BY DEF MmInv, TaskPart, Alone
<1>4. QED
  BY <1>1, <1>2, <1>3

LEMMA AccessGet ==
    ASSUME MmInv, NEW r \in Reader, NEW t \in Task, access_get(r, t), mix' = mix
    PROVE  MmInv'
<1>1. ReaderOk(r) /\ ReaderShape
  BY Shapes DEF MmInv
<1>2. /\ mm[t] \in Mm /\ stage[mm[t]] = "live" /\ mm[t] # None
      /\ \A u \in Task : new[u] # mm[t]
  BY TaskMm DEF access_get
<1>3. rpc' \in [Reader -> RPC] /\ target' \in [Reader -> Task \cup {None}]
  BY <1>1 DEF access_get, ReaderShape, RPC
<1>4. OthersRead(r)
  BY <1>1 DEF access_get, ReaderShape, OthersRead
<1>5. /\ rpc'[r] = "check" /\ target'[r] = t /\ held'[r] = mm[t]
      /\ fd'[r] = fd[r] /\ link'[r] = link[r]
  BY <1>1, <1>2 DEF access_get, ReaderShape
<1>6. ReaderOk(r)'
  BY <1>1, <1>2, <1>5, MmAssumption
    DEF ReaderOk, MmInv, TaskPart, SecretOk, access_get, ExecReadLock, ExecUpdating, Visible, tasks
<1>7. QED
  BY <1>1, <1>2, <1>3, <1>4, <1>5, <1>6, ReaderGets DEF access_get, ReaderOk

LEMMA CmdlineRead ==
    ASSUME MmInv, NEW r \in Reader, NEW t \in Task, cmdline_read(r, t), mix' = mix
    PROVE  MmInv'
<1>1. ReaderOk(r) /\ ReaderShape
  BY Shapes DEF MmInv
<1>2. /\ mm[t] \in Mm /\ stage[mm[t]] = "live" /\ mm[t] # None
      /\ \A u \in Task : new[u] # mm[t]
  BY TaskMm DEF cmdline_read
<1>3. rpc' \in [Reader -> RPC] /\ target' \in [Reader -> Task \cup {None}]
  BY <1>1 DEF cmdline_read, ReaderShape, RPC
<1>4. OthersRead(r)
  BY <1>1 DEF cmdline_read, ReaderShape, OthersRead
<1>5. /\ rpc'[r] = "cmdline" /\ target'[r] = target[r] /\ held'[r] = mm[t]
      /\ fd'[r] = fd[r] /\ link'[r] = link[r]
  BY <1>1, <1>2 DEF cmdline_read, ReaderShape
<1>6. ReaderOk(r)'
  BY <1>1, <1>2, <1>5, MmAssumption DEF ReaderOk, cmdline_read
<1>7. QED
  BY <1>1, <1>2, <1>3, <1>4, <1>5, <1>6, ReaderGets DEF cmdline_read, ReaderOk

LEMMA MapsLink ==
    ASSUME MmInv, NEW r \in Reader, NEW t \in Task, maps_link(r, t), mix' = mix
    PROVE  MmInv'
<1>1. ReaderOk(r) /\ ReaderShape
  BY Shapes DEF MmInv
<1>2. /\ mm[t] \in Mm /\ stage[mm[t]] = "live" /\ mm[t] # None
      /\ \A u \in Task : new[u] # mm[t]
  BY TaskMm DEF maps_link
<1>3. rpc' \in [Reader -> RPC] /\ target' \in [Reader -> Task \cup {None}]
  BY <1>1 DEF maps_link, ReaderShape, RPC
<1>4. OthersRead(r)
  BY <1>1 DEF maps_link, ReaderShape, OthersRead
<1>5. /\ rpc'[r] = "lock" /\ target'[r] = target[r] /\ held'[r] = mm[t]
      /\ fd'[r] = fd[r] /\ link'[r] = link[r]
  BY <1>1, <1>2 DEF maps_link, ReaderShape
<1>6. ReaderOk(r)'
  BY <1>1, <1>2, <1>5, MmAssumption DEF ReaderOk, maps_link
<1>7. QED
  BY <1>1, <1>2, <1>3, <1>4, <1>5, <1>6, ReaderGets DEF maps_link, ReaderOk

LEMMA MapsMay ==
    ASSUME MmInv, NEW r \in Reader, NEW t \in Task, maps_may(r, t), mix' = mix
    PROVE  MmInv'
<1>1. ReaderOk(r) /\ ReaderShape
  BY Shapes DEF MmInv
<1>2. t # None
  BY MmAssumption
<1>3. rpc' \in [Reader -> RPC] /\ target' \in [Reader -> Task \cup {None}]
  BY <1>1 DEF maps_may, ReaderShape, RPC
<1>4. OthersRead(r)
  BY <1>1 DEF maps_may, ReaderShape, OthersRead
<1>5. /\ rpc'[r] = "may" /\ target'[r] = t /\ held'[r] = held[r]
      /\ fd'[r] = fd[r] /\ link'[r] = link[r]
  BY <1>1, <1>2 DEF maps_may, ReaderShape
<1>6. ReaderOk(r)'
  BY <1>1, <1>2, <1>5, MmAssumption DEF ReaderOk, maps_may, Visible, tasks
<1>7. QED
  BY <1>1, <1>2, <1>3, <1>4, <1>5, <1>6, ReaderMoves DEF maps_may, ReaderOk

LEMMA MapsLock ==
    ASSUME MmInv, NEW r \in Reader, maps_lock(r), mix' = mix
    PROVE  MmInv'
<1>1. ReaderOk(r) /\ ReaderShape
  BY Shapes DEF MmInv
<1>2. rpc[r] = "lock"
  BY DEF maps_lock
<1>3. rpc' \in [Reader -> RPC] /\ target' \in [Reader -> Task \cup {None}]
  BY <1>1 DEF maps_lock, ReaderShape, RPC
<1>4. OthersRead(r)
  BY <1>1 DEF maps_lock, ReaderShape, OthersRead
<1>5. /\ rpc'[r] = "maps" /\ target'[r] = target[r] /\ held'[r] = held[r]
      /\ fd'[r] = fd[r] /\ link'[r] = link[r]
  BY <1>1, <1>2 DEF maps_lock, ReaderShape
<1>6. ReaderOk(r)'
  BY <1>1, <1>2, <1>5, MmAssumption DEF ReaderOk, maps_lock
<1>7. QED
  BY <1>1, <1>2, <1>3, <1>4, <1>5, <1>6, ReaderMoves DEF maps_lock, ReaderOk

LEMMA MemRw ==
    ASSUME MmInv, NEW r \in Reader, mem_rw(r), mix' = mix
    PROVE  MmInv'
<1>1. ReaderOk(r) /\ ReaderShape
  BY Shapes DEF MmInv
<1>2. /\ fd[r] \in Mm /\ fd[r] # None /\ held[r] = None
      /\ stage[fd[r]] = "live" /\ \A u \in Task : new[u] # None => fd[r] # new[u]
  <2>1. fd[r] # None /\ held[r] = None
    BY <1>1 DEF ReaderOk, mem_rw
  <2>2. fd[r] \in Mm
    BY <1>1, <2>1 DEF ReaderShape
  <2>3. users[fd[r]] \in Nat /\ users[fd[r]] > 0
    BY <2>2, UsedLive DEF mem_rw, Reachable
  <2>4. stage[fd[r]] = "live"
    BY <2>2, <2>3 DEF MmInv, MmOk
  <2>5. \A u \in Task : new[u] # None => fd[r] # new[u]
    BY DEF MmInv, TaskPart, Alone
  <2>6. QED
    BY <2>1, <2>2, <2>4, <2>5
<1>3. rpc' \in [Reader -> RPC] /\ target' \in [Reader -> Task \cup {None}]
  BY <1>1 DEF mem_rw, ReaderShape, RPC
<1>4. OthersRead(r)
  BY <1>1 DEF mem_rw, ReaderShape, OthersRead
<1>5. /\ rpc'[r] = "reading" /\ target'[r] = target[r] /\ held'[r] = fd[r]
      /\ fd'[r] = fd[r] /\ link'[r] = link[r]
  BY <1>1, <1>2 DEF mem_rw, ReaderShape
<1>6. ReaderOk(r)'
  BY <1>1, <1>2, <1>5, MmAssumption DEF ReaderOk, mem_rw
<1>7. QED
  BY <1>1, <1>2, <1>3, <1>4, <1>5, <1>6, ReaderGets DEF mem_rw, ReaderOk

LEMMA OpenPut ==
    ASSUME MmInv, NEW r \in Reader, open_put(r), mix' = mix
    PROVE  MmInv'
<1>1. ReaderOk(r) /\ ReaderShape
  BY Shapes DEF MmInv
<1>2. rpc[r] = "put" /\ held[r] # None
  BY <1>1 DEF open_put, ReaderOk
<1>3. rpc' \in [Reader -> RPC] /\ target' \in [Reader -> Task \cup {None}]
  BY <1>1 DEF open_put, ReaderShape, RPC
<1>4. OthersRead(r)
  BY <1>1 DEF open_put, ReaderShape, OthersRead
<1>5. /\ rpc'[r] = "open" /\ target'[r] = target[r] /\ held'[r] = None
      /\ fd'[r] = fd[r] /\ link'[r] = link[r]
  BY <1>1, <1>2 DEF open_put, ReaderShape
<1>6. ReaderOk(r)'
  BY <1>1, <1>2, <1>5, MmAssumption DEF ReaderOk, open_put
<1>7. QED
  BY <1>1, <1>2, <1>3, <1>4, <1>5, <1>6, ReaderPuts DEF open_put, ReaderOk

LEMMA MemRwEnd ==
    ASSUME MmInv, NEW r \in Reader, mem_rw_end(r), mix' = mix
    PROVE  MmInv'
<1>1. ReaderOk(r) /\ ReaderShape
  BY Shapes DEF MmInv
<1>2. rpc[r] = "reading" /\ held[r] # None
  BY <1>1 DEF mem_rw_end, ReaderOk
<1>3. rpc' \in [Reader -> RPC] /\ target' \in [Reader -> Task \cup {None}]
  BY <1>1 DEF mem_rw_end, ReaderShape, RPC
<1>4. OthersRead(r)
  BY <1>1 DEF mem_rw_end, ReaderShape, OthersRead
<1>5. /\ rpc'[r] = "open" /\ target'[r] = target[r] /\ held'[r] = None
      /\ fd'[r] = fd[r] /\ link'[r] = link[r]
  BY <1>1, <1>2 DEF mem_rw_end, ReaderShape
<1>6. ReaderOk(r)'
  BY <1>1, <1>2, <1>5, MmAssumption DEF ReaderOk, mem_rw_end
<1>7. QED
  BY <1>1, <1>2, <1>3, <1>4, <1>5, <1>6, ReaderPuts DEF mem_rw_end, ReaderOk

LEMMA CmdlineEnd ==
    ASSUME MmInv, NEW r \in Reader, cmdline_end(r), mix' = mix
    PROVE  MmInv'
<1>1. ReaderOk(r) /\ ReaderShape
  BY Shapes DEF MmInv
<1>2. rpc[r] = "cmdline" /\ held[r] # None
  BY <1>1 DEF cmdline_end, ReaderOk
<1>3. rpc' \in [Reader -> RPC] /\ target' \in [Reader -> Task \cup {None}]
  BY <1>1 DEF cmdline_end, ReaderShape, RPC
<1>4. OthersRead(r)
  BY <1>1 DEF cmdline_end, ReaderShape, OthersRead
<1>5. /\ rpc'[r] = "idle" /\ target'[r] = target[r] /\ held'[r] = None
      /\ fd'[r] = fd[r] /\ link'[r] = link[r]
  BY <1>1, <1>2 DEF cmdline_end, ReaderShape
<1>6. ReaderOk(r)'
  BY <1>1, <1>2, <1>5, MmAssumption DEF ReaderOk, cmdline_end
<1>7. QED
  BY <1>1, <1>2, <1>3, <1>4, <1>5, <1>6, ReaderPuts DEF cmdline_end, ReaderOk

LEMMA MapsEnd ==
    ASSUME MmInv, NEW r \in Reader, maps_end(r), mix' = mix
    PROVE  MmInv'
<1>1. ReaderOk(r) /\ ReaderShape
  BY Shapes DEF MmInv
<1>2. rpc[r] \in {"lock", "maps"} /\ held[r] # None
  BY <1>1 DEF maps_end, ReaderOk
<1>3. rpc' \in [Reader -> RPC] /\ target' \in [Reader -> Task \cup {None}]
  BY <1>1 DEF maps_end, ReaderShape, RPC
<1>4. OthersRead(r)
  BY <1>1 DEF maps_end, ReaderShape, OthersRead
<1>5. /\ rpc'[r] = "idle" /\ target'[r] = target[r] /\ held'[r] = None
      /\ fd'[r] = fd[r] /\ link'[r] = link[r]
  BY <1>1, <1>2 DEF maps_end, ReaderShape
<1>6. ReaderOk(r)'
  BY <1>1, <1>2, <1>5, MmAssumption DEF ReaderOk, maps_end
<1>7. QED
  BY <1>1, <1>2, <1>3, <1>4, <1>5, <1>6, ReaderPuts DEF maps_end, ReaderOk

LEMMA AccessCheck ==
    ASSUME MmInv, NEW r \in Reader, NEW l \in {"grab", "lock"}, access_check(r, l), mix' = mix
    PROVE  MmInv'
<1>1. ReaderOk(r) /\ ReaderShape /\ rpc[r] = "check" /\ held[r] # None
  BY Shapes DEF MmInv, ReaderOk, access_check
<1>2. target' \in [Reader -> Task \cup {None}] /\ target'[r] = None
  BY <1>1 DEF access_check, ReaderShape
<1>3. CASE priv[target[r]]
  <2>1. /\ mmput(held[r])
        /\ held' = [held EXCEPT ![r] = None] /\ rpc' = [rpc EXCEPT ![r] = "idle"]
        /\ UNCHANGED <<count, vmas, exe, binfmt, secret, refs, tasks, fd, link>>
    BY <1>3 DEF access_check
  <2>2. rpc' \in [Reader -> RPC] /\ rpc'[r] = "idle" /\ held'[r] = None
    BY <1>1, <2>1 DEF ReaderShape, RPC
  <2>3. OthersRead(r)
    BY <1>1, <2>1 DEF access_check, ReaderShape, OthersRead
  <2>4. ReaderOk(r)'
    BY <1>1, <1>2, <2>1, <2>2 DEF ReaderOk
  <2>5. QED
    BY <1>1, <1>2, <2>1, <2>2, <2>3, <2>4, ReaderPuts
<1>4. CASE ~priv[target[r]]
  <2>1. /\ rpc' = [rpc EXCEPT ![r] = l]
        /\ UNCHANGED <<users, stage, held>>
        /\ UNCHANGED <<count, vmas, exe, binfmt, secret, refs, tasks, fd, link>>
    BY <1>4 DEF access_check
  <2>2. rpc' \in [Reader -> RPC] /\ rpc'[r] = l
    BY <1>1, <2>1 DEF ReaderShape, RPC
  <2>3. OthersRead(r)
    BY <1>1, <2>1 DEF access_check, ReaderShape, OthersRead
  <2>4. ~secret[held[r]]
    BY <1>1, <1>4 DEF ReaderOk
  <2>5. ReaderOk(r)'
    BY <1>1, <1>2, <2>1, <2>2, <2>4 DEF ReaderOk
  <2>6. QED
    BY <1>2, <2>1, <2>2, <2>3, <2>5, ReaderMoves DEF mms
<1>5. QED
  BY <1>3, <1>4

LEMMA MapsGet ==
    ASSUME MmInv, NEW r \in Reader, maps_get(r), mix' = mix
    PROVE  MmInv'
<1>1. ReaderOk(r) /\ ReaderShape /\ rpc[r] = "may" /\ held[r] = None
  BY Shapes DEF MmInv, ReaderOk, maps_get
<1>2. target' \in [Reader -> Task \cup {None}] /\ target'[r] = None
  BY <1>1 DEF maps_get, ReaderShape
<1>3. PICK t \in Task : t = target[r]
  BY <1>1 DEF ReaderOk, ReaderShape
<1>4. CASE mm[t] = None
  <2>1. /\ rpc' = [rpc EXCEPT ![r] = "idle"]
        /\ UNCHANGED <<users, stage, held>>
        /\ UNCHANGED <<count, vmas, exe, binfmt, secret, refs, tasks, fd, link>>
    BY <1>3, <1>4 DEF maps_get
  <2>2. rpc' \in [Reader -> RPC] /\ rpc'[r] = "idle"
    BY <1>1, <2>1 DEF ReaderShape, RPC
  <2>3. OthersRead(r)
    BY <1>1, <2>1 DEF maps_get, ReaderShape, OthersRead
  <2>4. ReaderOk(r)'
    BY <1>1, <1>2, <2>1, <2>2 DEF ReaderOk
  <2>5. QED
    BY <1>2, <2>1, <2>2, <2>3, <2>4, ReaderMoves DEF mms
<1>5. CASE mm[t] # None
  <2>1. /\ mm[t] \in Mm /\ stage[mm[t]] = "live" /\ \A u \in Task : new[u] # mm[t]
    BY <1>5, TaskMm
  <2>2. /\ mmget(mm[t])
        /\ held' = [held EXCEPT ![r] = mm[t]] /\ rpc' = [rpc EXCEPT ![r] = "lock"]
        /\ UNCHANGED <<count, vmas, exe, binfmt, secret, refs, tasks, fd, link>>
    BY <1>3, <1>5 DEF maps_get
  <2>3. rpc' \in [Reader -> RPC] /\ rpc'[r] = "lock" /\ held'[r] = mm[t]
    BY <1>1, <2>2 DEF ReaderShape, RPC
  <2>4. OthersRead(r)
    BY <1>1, <2>2 DEF maps_get, ReaderShape, OthersRead
  <2>5. ReaderOk(r)'
    BY <1>1, <1>2, <1>5, <2>2, <2>3 DEF ReaderOk
  <2>6. QED
    BY <1>1, <1>2, <2>1, <2>2, <2>3, <2>4, <2>5, ReaderGets
<1>6. QED
  BY <1>4, <1>5

\* A step that changes what a reader keeps, not what it uses.
LEMMA ReaderKeeps ==
    ASSUME MmInv, NEW r \in Reader, ReaderShape', OthersRead(r), ReaderOk(r)',
           UNCHANGED <<tasks, vmas, exe, binfmt, secret, stage, users, modref, nsref, mix, held>>,
           count' \in [Mm -> Int], fref' \in [File -> Int],
           \A t \in Task : new[t] # None => fd'[r] # new[t],
           \A m \in Mm : stage[m] = "free" => count'[m] = count[m],
           CountExact', FilesExact'
    PROVE  MmInv'
<1>1. MmShape
  BY Shapes
<1>2. \A m \in Mm : MmOk(m)'
  BY DEF MmInv, MmOk
<1>3. UsersExact'
  BY UsersSame DEF tasks
<1>4. users' \in [Mm -> Int] /\ stage' \in [Mm -> Stage]
  BY <1>1 DEF MmShape
<1>5. \A t \in Task : new[t] # None => held'[r] # new[t] /\ fd'[r] # new[t]
  BY DEF MmInv, TaskPart, Alone
<1>6. QED
  BY <1>2, <1>3, <1>4, <1>5, ReaderStep

LEMMA OpenGrab ==
    ASSUME MmInv, NEW r \in Reader, open_grab(r), mix' = mix
    PROVE  MmInv'
<1>1. ReaderOk(r) /\ ReaderShape /\ rpc[r] = "grab" /\ held[r] # None /\ fd[r] = None /\ MmShape
  BY Shapes DEF MmInv, ReaderOk, open_grab
<1>2. PICK m \in Mm : m = held[r]
  BY <1>1 DEF ReaderShape
<1>3. stage[m] = "live" /\ ~secret[m]
  BY <1>1, <1>2, UsedLive DEF ReaderOk
<1>4. /\ count' \in [Mm -> Int] /\ count'[m] = count[m] + 1
      /\ \A k \in Mm : k # m => count'[k] = count[k]
  BY <1>1, <1>2 DEF MmShape, open_grab, mmgrab
<1>5. /\ rpc'[r] = "put" /\ fd'[r] = m /\ ReaderShape'
  BY <1>1, <1>2 DEF open_grab, ReaderShape, RPC
<1>6. OthersRead(r)
  BY <1>1 DEF open_grab, ReaderShape, OthersRead
<1>7. ReaderOk(r)'
  BY <1>1, <1>2, <1>3, <1>5, MmAssumption DEF ReaderOk, open_grab
<1>8. CountExact'
  <2>1. \A k \in Mm : count[k] \in Int /\ k # None
    BY <1>1, MmAssumption DEF MmShape
  <2>2. \A k \in Mm : count'[k] = count[k] + (Hit(fd'[r], k) - Hit(fd[r], k))
    BY <1>1, <1>4, <1>5, <2>1 DEF Hit
  <2>3. QED
    BY <1>6, <2>2, FdMove DEF OthersRead, open_grab, tasks
<1>9. FilesExact'
  BY FilesSame DEF open_grab, refs
<1>10. \A t \in Task : new[t] # None => fd'[r] # new[t]
  BY <1>2, <1>5 DEF MmInv, TaskPart, Alone
<1>11. fref' \in [File -> Int]
  BY <1>1 DEF MmShape, open_grab, refs
<1>12. \A k \in Mm : stage[k] = "free" => count'[k] = count[k]
  BY <1>3, <1>4
<1>13. QED
  BY <1>4, <1>5, <1>6, <1>7, <1>8, <1>9, <1>10, <1>11, <1>12, ReaderKeeps DEF open_grab, refs

LEMMA MemRelease ==
    ASSUME MmInv, NEW r \in Reader, mem_release(r), mix' = mix
    PROVE  MmInv'
<1>1. ReaderOk(r) /\ ReaderShape /\ rpc[r] = "open" /\ held[r] = None /\ fd[r] # None /\ MmShape
  BY Shapes DEF MmInv, ReaderOk, mem_release
<1>2. PICK m \in Mm : m = fd[r]
  BY <1>1 DEF ReaderShape
<1>3. stage[m] # "free"
  BY <1>2, KeptNotFree
<1>4. /\ count' \in [Mm -> Int] /\ count'[m] = count[m] - 1
      /\ \A k \in Mm : k # m => count'[k] = count[k]
  BY <1>1, <1>2 DEF MmShape, mem_release, mmdrop
<1>5. /\ rpc'[r] = "idle" /\ fd'[r] = None /\ ReaderShape'
  BY <1>1 DEF mem_release, ReaderShape, RPC
<1>6. OthersRead(r)
  BY <1>1 DEF mem_release, ReaderShape, OthersRead
<1>7. ReaderOk(r)'
  BY <1>1, <1>5 DEF ReaderOk, mem_release
<1>8. CountExact'
  <2>1. \A k \in Mm : count[k] \in Int /\ k # None
    BY <1>1, MmAssumption DEF MmShape
  <2>2. \A k \in Mm : count'[k] = count[k] + (Hit(fd'[r], k) - Hit(fd[r], k))
    BY <1>2, <1>4, <1>5, <2>1 DEF Hit
  <2>3. QED
    BY <1>6, <2>2, FdMove DEF OthersRead, mem_release, tasks
<1>9. FilesExact'
  BY FilesSame DEF mem_release, refs
<1>10. \A t \in Task : new[t] # None => fd'[r] # new[t]
  BY <1>5
<1>11. fref' \in [File -> Int]
  BY <1>1 DEF MmShape, mem_release, refs
<1>12. \A k \in Mm : stage[k] = "free" => count'[k] = count[k]
  BY <1>3, <1>4
<1>13. QED
  BY <1>4, <1>5, <1>6, <1>7, <1>8, <1>9, <1>10, <1>11, <1>12, ReaderKeeps DEF mem_release, refs

\* What AddRef does at a file, and at none.
LEMMA AddRefAt ==
    ASSUME MmInv, NEW f \in File \cup {None}, NEW n \in Int, fref' = AddRef(f, n)
    PROVE  /\ fref' \in [File -> Int]
           /\ \A g \in File : fref'[g] = fref[g] + (IF g = f THEN n ELSE 0)
<1>1. fref \in [File -> Int] /\ \A g \in File : g # None
  BY Shapes, MmAssumption DEF MmShape
<1>2. CASE f = None
  BY <1>1, <1>2 DEF AddRef
<1>3. CASE f # None
  BY <1>1, <1>3 DEF AddRef
<1>4. QED
  BY <1>2, <1>3

LEMMA ExeLink ==
    ASSUME MmInv, NEW r \in Reader, NEW t \in Task, exe_link(r, t), mix' = mix
    PROVE  MmInv'
<1>1. ReaderOk(r) /\ ReaderShape /\ MmShape
  BY Shapes DEF MmInv
<1>0. rpc[r] = "idle" /\ link[r] = None
  BY <1>1 DEF ReaderOk, exe_link
<1>2. PICK f \in File : f = exe[mm[t]]
  BY <1>1, TaskMm DEF exe_link, MmShape
<1>3. /\ fref' \in [File -> Int]
      /\ \A g \in File : fref'[g] = fref[g] + (IF g = f THEN 1 ELSE 0)
  BY <1>2, AddRefAt DEF exe_link
<1>4. rpc'[r] = "link" /\ link'[r] = f /\ ReaderShape'
  BY <1>1, <1>2 DEF exe_link, ReaderShape, RPC
<1>5. OthersRead(r)
  BY <1>1 DEF exe_link, ReaderShape, OthersRead
<1>6. ReaderOk(r)'
  BY <1>0, <1>1, <1>4, MmAssumption DEF ReaderOk, exe_link
<1>7. FilesExact'
  <2>1. \A g \in File : fref[g] \in Int /\ g # None
    BY <1>1, MmAssumption DEF MmShape
  <2>2. \A g \in File : fref'[g] = fref[g] + (Hit(link'[r], g) - Hit(link[r], g))
    BY <1>0, <1>3, <1>4, <2>1 DEF Hit
  <2>3. QED
    BY <1>5, <2>2, LinkMove DEF OthersRead, exe_link, mms
<1>8. CountExact'
  BY CountSame DEF exe_link, mms, tasks
<1>9. \A u \in Task : new[u] # None => fd'[r] # new[u]
  BY DEF MmInv, TaskPart, Alone, exe_link
<1>10. count' \in [Mm -> Int] /\ \A k \in Mm : stage[k] = "free" => count'[k] = count[k]
  BY <1>1 DEF MmShape, exe_link, mms
<1>11. QED
  BY <1>3, <1>4, <1>5, <1>6, <1>7, <1>8, <1>9, <1>10, ReaderKeeps DEF exe_link, mms

LEMMA ExeLinkEnd ==
    ASSUME MmInv, NEW r \in Reader, exe_link_end(r), mix' = mix
    PROVE  MmInv'
<1>1. ReaderOk(r) /\ ReaderShape /\ MmShape
  BY Shapes DEF MmInv
<1>0. rpc[r] = "link" /\ link[r] # None
  BY <1>1 DEF ReaderOk, exe_link_end
<1>2. PICK f \in File : f = link[r]
  BY <1>0, <1>1 DEF ReaderShape
<1>3. /\ fref' \in [File -> Int]
      /\ \A g \in File : fref'[g] = fref[g] + (IF g = f THEN -1 ELSE 0)
  <2>1. fref' = AddRef(f, -1) /\ -1 \in Int
    BY <1>2 DEF exe_link_end
  <2>2. QED
    BY <2>1, AddRefAt
<1>4. rpc'[r] = "idle" /\ link'[r] = None /\ ReaderShape'
  BY <1>1 DEF exe_link_end, ReaderShape, RPC
<1>5. OthersRead(r)
  BY <1>1 DEF exe_link_end, ReaderShape, OthersRead
<1>6. ReaderOk(r)'
  BY <1>0, <1>1, <1>4, MmAssumption DEF ReaderOk, exe_link_end
<1>7. FilesExact'
  <2>1. \A g \in File : fref[g] \in Int /\ g # None
    BY <1>1, MmAssumption DEF MmShape
  <2>2. \A g \in File : fref'[g] = fref[g] + (Hit(link'[r], g) - Hit(link[r], g))
    BY <1>2, <1>3, <1>4, <2>1 DEF Hit
  <2>3. QED
    BY <1>5, <2>2, LinkMove DEF OthersRead, exe_link_end, mms
<1>8. CountExact'
  BY CountSame DEF exe_link_end, mms, tasks
<1>9. \A u \in Task : new[u] # None => fd'[r] # new[u]
  BY DEF MmInv, TaskPart, Alone, exe_link_end
<1>10. count' \in [Mm -> Int] /\ \A k \in Mm : stage[k] = "free" => count'[k] = count[k]
  BY <1>1 DEF MmShape, exe_link_end, mms
<1>11. QED
  BY <1>3, <1>4, <1>5, <1>6, <1>7, <1>8, <1>9, <1>10, ReaderKeeps DEF exe_link_end, mms

(***************************************************************************)
(* Steps of a task t, and of the child c it makes, if any (else c is t).   *)
(***************************************************************************)
Others(t, c) == {u \in Task : u # t /\ u # c}

OthersRun(t, c) ==
    \A u \in Others(t, c) :
        /\ pc'[u] = pc[u] /\ mm'[u] = mm[u] /\ active'[u] = active[u] /\ new'[u] = new[u]
        /\ kid'[u] = kid[u] /\ cur'[u] = cur[u] /\ priv'[u] = priv[u] /\ oom'[u] = oom[u]

\* What u relies on in the mms it has.
Relied(u) ==
    /\ mm[u] # None => secret'[mm[u]] = secret[mm[u]]
    /\ pc[u] = "copy" => exe'[mm[u]] = exe[mm[u]] /\ vmas'[mm[u]] = vmas[mm[u]]
    /\ pc[u] = "swapped" => binfmt'[mm[u]] = binfmt[mm[u]] /\ vmas'[mm[u]] = vmas[mm[u]]
    /\ new[u] # None => /\ exe'[new[u]] = exe[new[u]] /\ vmas'[new[u]] = vmas[new[u]]
                        /\ binfmt'[new[u]] = binfmt[new[u]] /\ secret'[new[u]] = secret[new[u]]

\* The mm in the making of u stays its own, and the one it has swapped in too.
Unmet(u, x) ==
    /\ new[u] # None => mm'[x] # new[u] /\ new'[x] # new[u]
    /\ pc[u] = "swapped" => mm'[x] # mm[u]

\* The child of u is not touched.
KidApart(u, x) == kid[u] # None => kid[u] # x /\ kid'[x] # kid[u]

LEMMA TaskStep ==
    ASSUME MmInv, NEW t \in Task, NEW c \in Task, MmShape', TaskShape', UNCHANGED <<readers, mix>>,
           OthersRun(t, c),
           \A u \in Others(t, c) : Relied(u),
           \A u \in Others(t, c) : Unmet(u, t) /\ Unmet(u, c) /\ KidApart(u, t) /\ KidApart(u, c),
           TaskPart(t)', TaskPart(c)', \A r \in Reader : ReaderOk(r)',
           UsersExact', CountExact', FilesExact', ModExact', NsExact', \A m \in Mm : MmOk(m)'
    PROVE  MmInv'
<1>1. TaskShape
  BY Shapes
<1>2. ASSUME NEW u \in Others(t, c) PROVE TaskPart(u)'
  <2>1. u \in Task /\ u # t /\ u # c /\ TaskPart(u)
    BY DEF Others, MmInv
  <2>2. /\ pc'[u] = pc[u] /\ mm'[u] = mm[u] /\ active'[u] = active[u] /\ new'[u] = new[u]
        /\ kid'[u] = kid[u] /\ cur'[u] = cur[u] /\ priv'[u] = priv[u] /\ oom'[u] = oom[u]
    BY DEF OthersRun
  <2>3. Relied(u) /\ Unmet(u, t) /\ Unmet(u, c) /\ KidApart(u, t) /\ KidApart(u, c)
    OBVIOUS
  <2>4. TaskOk(u)'
    BY <2>1, <2>2 DEF TaskPart, TaskOk
  <2>5. KidOk(u)'
    <3>1. SUFFICES ASSUME kid[u] # None PROVE KidOk(u)'
      BY <2>2 DEF KidOk
    <3>2. kid[u] \in Others(t, c)
      BY <1>1, <2>3, <3>1 DEF TaskShape, KidApart, Others
    <3>3. pc'[kid[u]] = pc[kid[u]] /\ mm'[kid[u]] = mm[kid[u]] /\ priv'[kid[u]] = priv[kid[u]]
      BY <3>2 DEF OthersRun
    <3>4. ASSUME NEW w \in Task, kid'[w] = kid[u] PROVE w = u
      <4>1. w # t /\ w # c
        BY <2>3, <3>1, <3>4 DEF KidApart
      <4>2. kid'[w] = kid[w]
        BY <4>1 DEF OthersRun, Others
      <4>3. QED
        BY <2>1, <3>1, <3>4, <4>2 DEF TaskPart, KidOk
    <3>5. pc[u] # "kid" => secret'[new[u]] = secret[new[u]]
      BY <2>1, <2>3, <3>1 DEF TaskPart, TaskOk, Relied, Making, Forking
    <3>6. QED
      BY <2>1, <2>2, <3>1, <3>3, <3>4, <3>5 DEF TaskPart, KidOk
  <2>6. Alone(u)'
    <3>1. SUFFICES ASSUME new[u] # None PROVE Alone(u)'
      BY <2>2 DEF Alone
    <3>2. ASSUME NEW w \in Task PROVE mm'[w] # new[u] /\ (new'[w] = new[u] => w = u)
      <4>1. CASE w \in Others(t, c)
        BY <2>1, <3>1, <4>1 DEF OthersRun, TaskPart, Alone
      <4>2. CASE w = t \/ w = c
        BY <2>3, <3>1, <4>2 DEF Unmet
      <4>3. QED
        BY <4>1, <4>2 DEF Others
    <3>3. QED
      BY <2>1, <2>2, <3>1, <3>2 DEF TaskPart, Alone, readers
  <2>7. MakeOk(u)'
    <3>1. pc[u] \in {"lock", "copy", "exec"} => new[u] # None
      BY <2>1 DEF TaskPart, TaskOk, Making
    <3>2. QED
      BY <2>1, <2>2, <2>3, <3>1 DEF TaskPart, MakeOk, Relied
  <2>8. SwapOk(u)'
    <3>1. SUFFICES ASSUME pc[u] = "swapped" PROVE SwapOk(u)'
      BY <2>2 DEF SwapOk
    <3>2. ASSUME NEW w \in Task, mm'[w] = mm[u] PROVE w = u
      <4>1. w # t /\ w # c
        BY <2>3, <3>1, <3>2 DEF Unmet
      <4>2. mm'[w] = mm[w]
        BY <4>1 DEF OthersRun, Others
      <4>3. QED
        BY <2>1, <3>1, <3>2, <4>2 DEF TaskPart, SwapOk
    <3>3. QED
      BY <2>1, <2>2, <2>3, <3>1, <3>2 DEF TaskPart, SwapOk, Relied
  <2>9. SecretOk(u)'
    BY <2>1, <2>2, <2>3 DEF TaskPart, SecretOk, Relied
  <2>10. QED
    BY <2>4, <2>5, <2>6, <2>7, <2>8, <2>9 DEF TaskPart
<1>3. \A u \in Task : TaskPart(u)'
  BY <1>2 DEF Others
<1>4. ReaderShape'
  <2>1. ReaderShape
    BY Shapes
  <2>2. QED
    BY <2>1 DEF ReaderShape, readers
<1>5. QED
  BY <1>3, <1>4, Combine

\* A reader's task stays visible to it, and is not given credentials that let
\* more readers in while it is checked.
LEMMA ReadersStay ==
    ASSUME MmInv, UNCHANGED readers,
           \A r \in Reader : held[r] # None => secret'[held[r]] = secret[held[r]],
           \A r \in Reader : fd[r] # None => secret'[fd[r]] = secret[fd[r]],
           \A r \in Reader : target[r] # None => pc'[target[r]] \notin {"none", "new"},
           \A r \in Reader : rpc[r] = "check" =>
                pc'[target[r]] # "swapped" /\ (priv[target[r]] => priv'[target[r]])
    PROVE  \A r \in Reader : ReaderOk(r)'
<1>1. SUFFICES ASSUME NEW r \in Reader PROVE ReaderOk(r)'
  OBVIOUS
<1>2. /\ rpc'[r] = rpc[r] /\ target'[r] = target[r] /\ held'[r] = held[r]
      /\ fd'[r] = fd[r] /\ link'[r] = link[r]
  BY DEF readers
<1>3. ReaderOk(r)
  BY DEF MmInv
<1>4. QED
  BY <1>2, <1>3 DEF ReaderOk

\* The same, if only t changes its place, and stays visible.
LEMMA ReadersSee ==
    ASSUME MmInv, UNCHANGED readers, secret' = secret, NEW t \in Task,
           priv' = priv, \A u \in Task : u # t => pc'[u] = pc[u],
           pc'[t] \notin {"none", "new", "swapped"}
    PROVE  \A r \in Reader : ReaderOk(r)'
<1>1. \A r \in Reader : ReaderOk(r) /\ target[r] \in Task \cup {None}
  BY Shapes DEF MmInv, ReaderShape
<1>2. \A r \in Reader : target[r] # None =>
         target[r] \in Task /\ pc'[target[r]] \in {pc[target[r]], pc'[t]}
  BY <1>1
<1>3. \A r \in Reader : target[r] # None => pc'[target[r]] \notin {"none", "new"}
  BY <1>1, <1>2 DEF ReaderOk
<1>4. \A r \in Reader : rpc[r] = "check" => pc'[target[r]] # "swapped"
  BY <1>1, <1>2 DEF ReaderOk
<1>5. QED
  BY <1>3, <1>4, ReadersStay

\* A task goes on within dup_mmap.
LEMMA Quiet ==
    ASSUME MmInv, NEW t \in Task, NEW l \in PC \ {"none", "new", "swapped"},
           UNCHANGED <<mms, refs, mm, active, new, kid, priv, oom, readers, mix>>,
           pc[t] \notin {"none", "new"},
           pc' = [pc EXCEPT ![t] = l],
           cur' \in [Task -> Nat], \A u \in Task : u # t => cur'[u] = cur[u],
           TaskPart(t)'
    PROVE  MmInv'
<1>1. MmShape /\ TaskShape
  BY Shapes
<1>2. MmShape' /\ TaskShape' /\ pc'[t] = l /\ \A u \in Task : u # t => pc'[u] = pc[u]
  BY <1>1 DEF MmShape, TaskShape, mms, refs
<1>3. OthersRun(t, t)
  BY <1>2 DEF OthersRun, Others
<1>4. ASSUME NEW u \in Others(t, t) PROVE Relied(u) /\ Unmet(u, t) /\ KidApart(u, t)
  <2>1. u \in Task /\ u # t /\ TaskPart(u) /\ TaskPart(t)
    BY DEF Others, MmInv
  <2>2. Relied(u)
    BY DEF Relied, mms
  <2>3. Unmet(u, t)
    BY <2>1 DEF Unmet, TaskPart, Alone, SwapOk
  <2>4. KidApart(u, t)
    BY <2>1 DEF KidApart, TaskPart, KidOk
  <2>5. QED
    BY <2>2, <2>3, <2>4
<1>5. \A r \in Reader : ReaderOk(r)'
  BY <1>2, ReadersSee DEF mms, PC
<1>6. UsersExact' /\ CountExact' /\ FilesExact'
  BY UsersSame, CountSame, FilesSame DEF readers, refs, mms
<1>7. ModExact'
  <2>1. \A m \in Mm : HasModule(m)' <=> HasModule(m)
    BY DEF HasModule, mms
  <2>2. QED
    BY <2>1, ModSame DEF refs
<1>8. NsExact'
  BY NsSame DEF refs, mms
<1>9. \A m \in Mm : MmOk(m)'
  BY DEF MmInv, MmOk, mms
<1>10. QED
  BY <1>2, <1>3, <1>4, <1>5, <1>6, <1>7, <1>8, <1>9, TaskStep

\* What a task that makes an mm knows of it.
LEMMA MakerMm ==
    ASSUME MmInv, NEW t \in Task, pc[t] \in Making
    PROVE  /\ new[t] \in Mm /\ new[t] # None /\ mm[t] \in Mm /\ mm[t] # None /\ mm[t] # new[t]
           /\ stage[new[t]] = "live" /\ users[new[t]] > 0
           /\ stage[mm[t]] = "live" /\ users[mm[t]] > 0
           /\ \A u \in Task : mm[u] # new[t] /\ (new[u] = new[t] => u = t)
           /\ \A r \in Reader : held[r] # new[t] /\ fd[r] # new[t]
<1>1. TaskPart(t)
  BY DEF MmInv
<1>2. new[t] # None /\ mm[t] # None
  BY <1>1 DEF TaskPart, TaskOk, Making, HasMm
<1>3. new[t] \in Mm /\ mm[t] \in Mm
  BY <1>2, Shapes DEF TaskShape
<1>4. stage[new[t]] = "live" /\ users[new[t]] > 0 /\ stage[mm[t]] = "live" /\ users[mm[t]] > 0
  BY <1>3, UsedLive
<1>5. /\ \A u \in Task : mm[u] # new[t] /\ (new[u] = new[t] => u = t)
      /\ \A r \in Reader : held[r] # new[t] /\ fd[r] # new[t]
  BY <1>1, <1>2 DEF TaskPart, Alone
<1>6. QED
  BY <1>2, <1>3, <1>4, <1>5

\* The steps that leave dup_mmap give up nothing the task's place tells.
LEMMA Leaves ==
    ASSUME MmInv, NEW t \in Task, NEW l \in {"module", "free_pt"},
           pc[t] \in {"lock", "copy", "module"},
           UNCHANGED <<mms, refs, mm, active, new, kid, priv, oom, readers, mix>>,
           pc' = [pc EXCEPT ![t] = l],
           cur' \in [Task -> Nat], \A u \in Task : u # t => cur'[u] = cur[u]
    PROVE  MmInv'
<1>1. TaskPart(t) /\ TaskShape
  BY Shapes DEF MmInv
<1>2. pc'[t] = l /\ \A u \in Task : u # t => pc'[u] = pc[u]
  BY <1>1 DEF TaskShape
<1>3. TaskOk(t)'
  BY <1>1, <1>2 DEF TaskPart, TaskOk, HasMm, Making, Forking
<1>4. KidOk(t)'
  <2>1. kid[t] \in Task /\ kid[t] # t /\ pc[kid[t]] = "new" /\ kid[t] # None
    BY <1>1 DEF TaskPart, TaskOk, KidOk, Forking, TaskShape
  <2>2. pc'[kid[t]] = "new"
    BY <1>2, <2>1
  <2>3. QED
    BY <1>1, <1>2, <2>2 DEF TaskPart, KidOk, mms
<1>5. Alone(t)'
  BY <1>1 DEF TaskPart, Alone, readers
<1>6. MakeOk(t)' /\ SwapOk(t)' /\ SecretOk(t)'
  BY <1>1, <1>2 DEF TaskPart, MakeOk, SwapOk, SecretOk, mms
<1>7. TaskPart(t)'
  BY <1>3, <1>4, <1>5, <1>6 DEF TaskPart
<1>8. QED
  BY <1>7, Quiet DEF PC

LEMMA DupLeaves ==
    ASSUME MmInv, NEW t \in Task, mix' = mix,
           dup_killed(t) \/ dup_fails(t) \/ dup_end(t) \/ dup_no_module(t)
    PROVE  MmInv'
<1>1. TaskShape
  BY Shapes
<1>2. CASE dup_killed(t)
  <2>1. cur' \in [Task -> Nat] /\ \A u \in Task : u # t => cur'[u] = cur[u]
    BY <1>1, <1>2 DEF dup_killed, TaskShape
  <2>2. QED
    BY <1>2, <2>1, Leaves DEF dup_killed
<1>3. CASE dup_fails(t)
  <2>1. cur' \in [Task -> Nat] /\ \A u \in Task : u # t => cur'[u] = cur[u]
    BY <1>1, <1>3 DEF dup_fails, TaskShape
  <2>2. QED
    BY <1>3, <2>1, Leaves DEF dup_fails
<1>4. CASE dup_end(t)
  <2>1. cur' \in [Task -> Nat] /\ \A u \in Task : u # t => cur'[u] = cur[u]
    BY <1>1, <1>4 DEF dup_end, TaskShape
  <2>2. QED
    BY <1>4, <2>1, Leaves DEF dup_end
<1>5. CASE dup_no_module(t)
  <2>1. cur' \in [Task -> Nat] /\ \A u \in Task : u # t => cur'[u] = cur[u]
    BY <1>1, <1>5 DEF dup_no_module, TaskShape
  <2>2. QED
    BY <1>5, <2>1, Leaves DEF dup_no_module
<1>6. QED
  BY <1>2, <1>3, <1>4, <1>5

\* The mapping dup_mmap comes to is the first of those left.
LEMMA FirstVma ==
    ASSUME MmInv, NEW t \in Task, mm[t] \in Mm, ToCopy(t) # {}
    PROVE  /\ NextVma(t) \in vmas[mm[t]] /\ NextVma(t) \in Vma /\ NextVma(t) \in Nat
           /\ NextVma(t) >= cur[t] /\ cur[t] \in Nat
           /\ \A w \in vmas[mm[t]] : w \in Nat /\ (w >= cur[t] => NextVma(t) <= w)
<1> DEFINE R == {ss \in Nat \X Nat : ss[1] < ss[2]}
<1>0. IsWellFoundedOn(R, Nat)
  BY NatLessThanWellFounded, Zenon DEF OpToRel
<1>1. vmas[mm[t]] \subseteq Vma /\ vmas[mm[t]] \subseteq Nat /\ cur[t] \in Nat
  BY MmAssumption DEF MmInv, TypeOK
<1>2. ToCopy(t) \subseteq Nat
  BY <1>1 DEF ToCopy
<1>3. PICK x \in ToCopy(t) : \A y \in ToCopy(t) : ~(<<y, x>> \in R)
  <2> HIDE DEF R
  <2> QED
    BY <1>0, <1>2, WFMin
<1>4. ASSUME NEW y \in ToCopy(t) PROVE x <= y
  <2>1. <<y, x>> \notin R /\ x \in Nat /\ y \in Nat
    BY <1>2, <1>3
  <2>2. ~(y < x)
    BY <2>1
  <2> QED
    BY <2>1, <2>2
<1>5. NextVma(t) \in ToCopy(t) /\ \A w \in ToCopy(t) : NextVma(t) <= w
  BY <1>3, <1>4 DEF NextVma
<1>6. QED
  BY <1>1, <1>5 DEF ToCopy

LEMMA DupSkip ==
    ASSUME MmInv, NEW t \in Task, dup_skip(t), mix' = mix
    PROVE  MmInv'
<1>1. TaskPart(t) /\ TaskShape /\ pc[t] = "copy" /\ pc[t] \in Making
  BY Shapes DEF MmInv, dup_skip, Making
<1>2. PICK v : v = NextVma(t)
  OBVIOUS
<1>3. /\ v \in vmas[mm[t]] /\ v \in Nat /\ v >= cur[t] /\ v \in DontCopy
      /\ \A w \in vmas[mm[t]] : w \in Nat /\ (w >= cur[t] => v <= w)
  BY <1>1, <1>2, MakerMm, FirstVma DEF dup_skip
<1>4. cur' \in [Task -> Nat] /\ cur'[t] = v + 1 /\ \A u \in Task : u # t => cur'[u] = cur[u]
  BY <1>1, <1>2, <1>3 DEF dup_skip, TaskShape, After
<1>5. pc' = [pc EXCEPT ![t] = "copy"] /\ pc'[t] = "copy"
  BY <1>1 DEF dup_skip, TaskShape
<1>6. MakeOk(t)'
  <2>1. exe[new[t]] = exe[mm[t]] /\ vmas[new[t]] = {w \in vmas[mm[t]] : w < cur[t]} \ DontCopy
    BY <1>1 DEF TaskPart, MakeOk
  <2>2. {w \in vmas[mm[t]] : w < v + 1} \ DontCopy = {w \in vmas[mm[t]] : w < cur[t]} \ DontCopy
    <3>1. cur[t] \in Nat
      BY <1>1 DEF TaskShape
    <3>2. \A w \in vmas[mm[t]] : w \notin DontCopy => (w < v + 1 <=> w < cur[t])
      BY <1>3, <3>1
    <3>3. QED
      BY <3>2
  <2>3. QED
    BY <1>4, <1>5, <2>1, <2>2 DEF MakeOk, dup_skip, mms
<1>7. TaskPart(t)'
  BY <1>1, <1>5, <1>6
     DEF TaskPart, TaskOk, KidOk, Alone, SwapOk, SecretOk, dup_skip, mms, readers
<1>8. QED
  BY <1>1, <1>4, <1>5, <1>7, Quiet DEF dup_skip, PC

\* A step of dup_mmap that changes the mm in the making and no other.
LEMMA MakerStep ==
    ASSUME MmInv, NEW t \in Task, NEW l \in {"copy", "free_pt"}, pc[t] \in {"lock", "copy"},
           UNCHANGED <<stage, users, count, binfmt, secret, modref, nsref,
                       mm, active, new, kid, priv, oom, readers, mix>>,
           exe' \in [Mm -> File \cup {None}], vmas' \in [Mm -> SUBSET Vma], fref' \in [File -> Int],
           \A m \in Mm : m # new[t] => exe'[m] = exe[m] /\ vmas'[m] = vmas[m],
           pc' = [pc EXCEPT ![t] = l],
           cur' \in [Task -> Nat], \A u \in Task : u # t => cur'[u] = cur[u],
           MakeOk(t)', FilesExact'
    PROVE  MmInv'
<1>1. TaskPart(t) /\ MmShape /\ TaskShape
  BY Shapes DEF MmInv
<1>2. MmShape' /\ TaskShape' /\ pc'[t] = l /\ \A u \in Task : u # t => pc'[u] = pc[u]
  BY <1>1 DEF MmShape, TaskShape, PC
<1>3. OthersRun(t, t)
  BY <1>2 DEF OthersRun, Others
<1>4. /\ new[t] \in Mm /\ new[t] # None /\ mm[t] # new[t] /\ stage[new[t]] = "live"
      /\ \A u \in Task : mm[u] # new[t] /\ (new[u] = new[t] => u = t)
  BY MakerMm DEF Making
<1>5. ASSUME NEW u \in Others(t, t) PROVE Relied(u) /\ Unmet(u, t) /\ KidApart(u, t)
  <2>1. u \in Task /\ u # t /\ TaskPart(u) /\ new[u] # new[t] /\ mm[u] # new[t]
    BY <1>4 DEF Others, MmInv
  <2>2. Relied(u)
    <3>1. new[u] # None => new[u] \in Mm
      BY <1>1, <2>1 DEF TaskShape
    <3>2. pc[u] \in {"copy", "swapped"} => mm[u] \in Mm
      BY <1>1, <2>1 DEF TaskShape, TaskPart, TaskOk, HasMm
    <3>3. QED
      BY <2>1, <3>1, <3>2 DEF Relied
  <2>3. Unmet(u, t)
    BY <1>1, <2>1 DEF Unmet, TaskPart, Alone, SwapOk
  <2>4. KidApart(u, t)
    BY <1>1, <2>1 DEF KidApart, TaskPart, KidOk
  <2>5. QED
    BY <2>2, <2>3, <2>4
<1>6. \A r \in Reader : ReaderOk(r)'
  BY <1>2, ReadersSee
<1>7. UsersExact' /\ CountExact'
  BY UsersSame, CountSame DEF readers
<1>8. ModExact'
  <2>1. \A m \in Mm : HasModule(m)' <=> HasModule(m)
    BY DEF HasModule
  <2>2. QED
    BY <2>1, ModSame
<1>9. NsExact'
  BY NsSame
<1>10. \A m \in Mm : MmOk(m)'
  BY <1>4 DEF MmInv, MmOk
<1>11. TaskPart(t)'
  <2>1. TaskOk(t)'
    BY <1>1, <1>2 DEF TaskPart, TaskOk, HasMm, Making, Forking
  <2>2. KidOk(t)'
    <3>1. kid[t] \in Task /\ kid[t] # t /\ pc[kid[t]] = "new" /\ kid[t] # None
      BY <1>1 DEF TaskPart, TaskOk, KidOk, Forking, TaskShape
    <3>2. pc'[kid[t]] = "new"
      BY <1>2, <3>1
    <3>3. QED
      BY <1>1, <1>2, <3>2 DEF TaskPart, KidOk
  <2>3. Alone(t)'
    BY <1>1 DEF TaskPart, Alone, readers
  <2>4. SwapOk(t)' /\ SecretOk(t)'
    BY <1>1, <1>2 DEF TaskPart, SwapOk, SecretOk
  <2>5. QED
    BY <2>1, <2>2, <2>3, <2>4 DEF TaskPart
<1>12. QED
  BY <1>2, <1>3, <1>5, <1>6, <1>7, <1>8, <1>9, <1>10, <1>11, TaskStep

LEMMA DupLock ==
    ASSUME MmInv, NEW t \in Task, dup_lock(t), mix' = mix
    PROVE  MmInv'
<1>1. TaskPart(t) /\ MmShape /\ TaskShape /\ pc[t] = "lock"
  BY Shapes DEF MmInv, dup_lock
<1>2. /\ new[t] \in Mm /\ new[t] # None /\ mm[t] \in Mm /\ mm[t] # new[t] /\ stage[new[t]] = "live"
      /\ \A u \in Task : mm[u] # new[t] /\ (new[u] = new[t] => u = t)
  BY <1>1, MakerMm DEF Making
<1>3. exe[new[t]] = None /\ vmas[new[t]] = {}
  BY <1>1 DEF TaskPart, MakeOk
<1>4. PICK f \in File \cup {None} : f = exe[mm[t]]
  BY <1>1, <1>2 DEF MmShape
<1>5. /\ exe' \in [Mm -> File \cup {None}] /\ exe'[new[t]] = f
      /\ \A m \in Mm : m # new[t] => exe'[m] = exe[m]
  BY <1>1, <1>2, <1>4 DEF MmShape, dup_lock
<1>6. /\ fref' \in [File -> Int]
      /\ \A g \in File : fref'[g] = fref[g] + (IF g = f THEN 1 ELSE 0)
  <2>1. fref' = AddRef(f, 1) /\ 1 \in Int
    BY <1>4 DEF dup_lock
  <2>2. QED
    BY <2>1, AddRefAt
<1>7. /\ cur' \in [Task -> Nat] /\ cur'[t] = 0 /\ \A u \in Task : u # t => cur'[u] = cur[u]
      /\ pc'[t] = "copy" /\ pc' = [pc EXCEPT ![t] = "copy"]
  BY <1>1 DEF dup_lock, TaskShape
<1>8. MakeOk(t)'
  <2>1. \A v \in vmas[mm[t]] : ~(v < 0)
    BY <1>1, <1>2, MmAssumption DEF MmShape
  <2>2. vmas[new[t]] = {v \in vmas[mm[t]] : v < 0} \ DontCopy
    BY <1>3, <2>1
  <2>3. exe'[mm[t]] = f
    BY <1>2, <1>4, <1>5
  <2>4. QED
    BY <1>5, <1>7, <2>2, <2>3 DEF MakeOk, dup_lock
<1>9. FilesExact'
  <2>1. vmas' = vmas /\ vmas' \in [Mm -> SUBSET Vma] /\ link' = link
    BY <1>1 DEF dup_lock, MmShape, readers
  <2>2. \A g \in File : fref'[g] = fref[g] + (Uses(new[t], g)' - Uses(new[t], g))
    <3>1. ASSUME NEW g \in File PROVE fref'[g] = fref[g] + (Uses(new[t], g)' - Uses(new[t], g))
      <4>1. Num({}) = 0 /\ fref[g] \in Int /\ g # None
        BY <1>1, MmAssumption, FS_EmptySet DEF Num, MmShape
      <4>2. Uses(new[t], g) = 0
        BY <1>3, <4>1 DEF Uses
      <4>3. Uses(new[t], g)' = (IF f = g THEN 1 ELSE 0)
        BY <1>3, <1>5, <2>1, <4>1 DEF Uses, Num, dup_lock
      <4>4. QED
        BY <1>6, <4>1, <4>2, <4>3
    <3>2. QED
      BY <3>1
  <2>3. \A m \in Mm : m # new[t] => exe'[m] = exe[m] /\ vmas'[m] = vmas[m]
    BY <1>5, <2>1
  <2>4. PICK x \in Mm : x = new[t]
    BY <1>2
  <2>5. \A g \in File : fref'[g] = fref[g] + (Uses(x, g)' - Uses(x, g))
    BY <2>2, <2>4 DEF Uses, dup_lock
  <2>6. QED
    BY <2>1, <2>3, <2>4, <2>5, FilesMove
<1>10. vmas' \in [Mm -> SUBSET Vma] /\ vmas' = vmas
  BY <1>1 DEF MmShape, dup_lock
<1>11. QED
  BY <1>1, <1>5, <1>6, <1>7, <1>8, <1>9, <1>10, MakerStep DEF dup_lock

LEMMA DupVma ==
    ASSUME MmInv, NEW t \in Task, NEW l, dup_vma(t, l), mix' = mix
    PROVE  MmInv'
<1>1. TaskPart(t) /\ MmShape /\ TaskShape /\ pc[t] = "copy" /\ l \in {"copy", "free_pt"}
  BY Shapes DEF MmInv, dup_vma
<1>2. /\ new[t] \in Mm /\ new[t] # None /\ mm[t] \in Mm /\ mm[t] # new[t] /\ stage[new[t]] = "live"
      /\ \A u \in Task : mm[u] # new[t] /\ (new[u] = new[t] => u = t)
  BY <1>1, MakerMm DEF Making
<1>3. exe[new[t]] = exe[mm[t]] /\ vmas[new[t]] = {w \in vmas[mm[t]] : w < cur[t]} \ DontCopy
  BY <1>1 DEF TaskPart, MakeOk
<1>4. PICK v : v = NextVma(t)
  OBVIOUS
<1>5. /\ v \in vmas[mm[t]] /\ v \in Vma /\ v \in Nat /\ v >= cur[t] /\ cur[t] \in Nat
      /\ v \notin DontCopy
      /\ \A w \in vmas[mm[t]] : w \in Nat /\ (w >= cur[t] => v <= w)
  BY <1>2, <1>4, FirstVma DEF dup_vma
<1>6. /\ vmas' \in [Mm -> SUBSET Vma] /\ vmas'[new[t]] = vmas[new[t]] \cup {v}
      /\ \A m \in Mm : m # new[t] => vmas'[m] = vmas[m]
  BY <1>1, <1>2, <1>4, <1>5 DEF MmShape, dup_vma
<1>7. PICK f \in File \cup {None} : f = exe[mm[t]]
  BY <1>1, <1>2 DEF MmShape
<1>8. /\ fref' \in [File -> Int]
      /\ \A g \in File : fref'[g] = fref[g] + (IF g = f THEN 1 ELSE 0)
  <2>1. fref' = AddRef(f, 1) /\ 1 \in Int
    BY <1>7 DEF dup_vma
  <2>2. QED
    BY <2>1, AddRefAt
<1>9. /\ cur' \in [Task -> Nat] /\ \A u \in Task : u # t => cur'[u] = cur[u]
      /\ cur'[t] = (IF l = "copy" THEN v + 1 ELSE 0)
      /\ pc'[t] = l /\ pc' = [pc EXCEPT ![t] = l]
  BY <1>1, <1>4, <1>5 DEF dup_vma, TaskShape, After
<1>10. MakeOk(t)'
  <2>1. SUFFICES ASSUME l = "copy"
                 PROVE  vmas'[new[t]] = {w \in vmas[mm[t]] : w < v + 1} \ DontCopy
    <3>1. vmas'[mm[t]] = vmas[mm[t]] /\ UNCHANGED <<exe, mm, new>>
      BY <1>2, <1>6 DEF dup_vma
    <3>2. QED
      BY <1>1, <1>3, <1>9, <2>1, <3>1 DEF MakeOk
  <2>2. \A w \in vmas[mm[t]] : w < v + 1 <=> (w < cur[t] \/ w = v)
    BY <1>5
  <2>3. QED
    BY <1>3, <1>5, <1>6, <2>2
<1>11. FilesExact'
  <2>1. exe' = exe /\ link' = link
    BY DEF dup_vma, readers
  <2>2. PICK x \in Mm : x = new[t]
    BY <1>2
  <2>3. Num(vmas[x]) \in Int /\ Num(vmas'[x]) = Num(vmas[x]) + 1
    <3>1. IsFiniteSet(vmas[x])
      BY <1>1, MmAssumption, FS_Subset DEF MmShape
    <3>2. v \notin vmas[x] /\ vmas'[x] = vmas[x] \cup {v}
      BY <1>3, <1>5, <1>6, <2>2
    <3>3. Cardinality(vmas[x]) \in Nat
      BY <3>1, FS_CardinalityType
    <3>4. Cardinality(vmas[x] \cup {v}) = Cardinality(vmas[x]) + 1
      BY <3>1, <3>2, FS_AddElement
    <3>5. QED
      BY <3>2, <3>3, <3>4 DEF Num
  <2>4. ASSUME NEW g \in File PROVE fref'[g] = fref[g] + (Uses(x, g)' - Uses(x, g))
    <3>1. fref[g] \in Int /\ exe[x] = f
      BY <1>1, <1>3, <1>7, <2>2 DEF MmShape
    <3>2. Uses(x, g) = (IF f = g THEN Num(vmas[x]) + 1 ELSE 0)
      BY <3>1 DEF Uses
    <3>3. Uses(x, g)' = (IF f = g THEN Num(vmas'[x]) + 1 ELSE 0)
      BY <2>1, <3>1 DEF Uses, Num
    <3>4. QED
      BY <1>8, <2>3, <3>1, <3>2, <3>3
  <2>5. \A m \in Mm : m # x => exe'[m] = exe[m] /\ vmas'[m] = vmas[m]
    BY <1>6, <2>1, <2>2
  <2>6. QED
    BY <1>6, <2>1, <2>4, <2>5, FilesMove
<1>12. exe' = exe /\ exe' \in [Mm -> File \cup {None}]
  BY <1>1 DEF MmShape, dup_vma
<1>13. QED
  BY <1>1, <1>6, <1>8, <1>9, <1>10, <1>11, <1>12, MakerStep DEF dup_vma

(***************************************************************************)
(* The end of copy_mm and of copy_process.                                 *)
(***************************************************************************)
\* What a task knows of the child it makes.
LEMMA MakerKid ==
    ASSUME MmInv, NEW t \in Task, pc[t] \in Forking
    PROVE  /\ kid[t] \in Task /\ kid[t] # None /\ kid[t] # t /\ pc[kid[t]] = "new"
           /\ \A u \in Task : (kid[u] = kid[t] => u = t) /\ kid[u] # t
           /\ new[kid[t]] = None /\ kid[kid[t]] = None
           /\ active[kid[t]] = None /\ oom[kid[t]] = None
           /\ mm[kid[t]] = None <=> pc[t] # "kid"
           /\ \A r \in Reader : target[r] # kid[t]
<1>1. TaskPart(t) /\ TaskShape
  BY Shapes DEF MmInv
<1>2. kid[t] # None
  BY <1>1 DEF TaskPart, TaskOk
<1>3. /\ kid[t] \in Task /\ pc[kid[t]] = "new" /\ kid[t] # t
      /\ \A u \in Task : kid[u] = kid[t] => u = t
      /\ mm[kid[t]] = None <=> pc[t] # "kid"
  BY <1>1, <1>2 DEF TaskPart, KidOk, TaskShape, Forking
<1>4. PICK c \in Task : c = kid[t]
  BY <1>3
<1>5. TaskOk(c)
  BY DEF MmInv, TaskPart
<1>6. new[c] = None /\ kid[c] = None /\ active[c] = None /\ oom[c] = None
  BY <1>3, <1>4, <1>5 DEF TaskOk, Making, Forking
<1>7. ASSUME NEW u \in Task PROVE kid[u] # t
  <2>1. KidOk(u) /\ t # None
    BY MmAssumption DEF MmInv, TaskPart
  <2>2. QED
    BY <2>1 DEF KidOk, Forking
<1>8. ASSUME NEW r \in Reader PROVE target[r] # kid[t]
  <2>1. ReaderOk(r)
    BY DEF MmInv
  <2>2. QED
    BY <1>2, <1>3, <2>1 DEF ReaderOk
<1>9. QED
  BY <1>2, <1>3, <1>4, <1>6, <1>7, <1>8

\* Readers see nothing of a step that changes the places of a task and its child.
LEMMA ReadersSeeFork ==
    ASSUME MmInv, UNCHANGED readers, secret' = secret, NEW t \in Task, NEW c \in Task,
           \A u \in Others(t, c) : pc'[u] = pc[u] /\ priv'[u] = priv[u],
           \A r \in Reader : target[r] # c,
           pc'[t] \notin {"none", "new", "swapped"}, priv'[t] = priv[t]
    PROVE  \A r \in Reader : ReaderOk(r)'
<1>1. ASSUME NEW r \in Reader PROVE ReaderOk(r) /\ target[r] \in Task \cup {None}
  BY Shapes DEF MmInv, ReaderShape
<1>2. ASSUME NEW r \in Reader, target[r] # None
      PROVE  /\ pc'[target[r]] = pc[target[r]] \/ pc'[target[r]] = pc'[t]
             /\ priv'[target[r]] = priv[target[r]]
  <2>1. target[r] \in Task /\ target[r] # c
    BY <1>1, <1>2
  <2>2. QED
    BY <2>1 DEF Others
<1>3. ASSUME NEW r \in Reader, target[r] # None PROVE pc'[target[r]] \notin {"none", "new"}
  BY <1>1, <1>2, <1>3 DEF ReaderOk
<1>4. ASSUME NEW r \in Reader, rpc[r] = "check"
      PROVE pc'[target[r]] # "swapped" /\ (priv[target[r]] => priv'[target[r]])
  BY <1>1, <1>2, <1>4 DEF ReaderOk
<1>5. QED
  BY <1>3, <1>4, ReadersStay

LEMMA ForkDone ==
    ASSUME MmInv, NEW t \in Task, fork_done(t), mix' = mix
    PROVE  MmInv'
<1>1. TaskPart(t) /\ MmShape /\ TaskShape /\ pc[t] = "kid"
  BY Shapes DEF MmInv, fork_done
<1>2. PICK c \in Task : c = kid[t]
  BY <1>1, MakerKid DEF Forking
<1>3. /\ c # None /\ c # t /\ pc[c] = "new"
      /\ \A u \in Task : (kid[u] = c => u = t) /\ kid[u] # t
      /\ new[c] = None /\ kid[c] = None /\ active[c] = None /\ oom[c] = None /\ mm[c] # None
      /\ \A r \in Reader : target[r] # c
  BY <1>1, <1>2, MakerKid DEF Forking
<1>4. /\ pc'[t] = "run" /\ pc'[c] = "run" /\ kid'[t] = None /\ kid'[c] = None
      /\ \A u \in Others(t, c) : pc'[u] = pc[u] /\ kid'[u] = kid[u]
      /\ pc' \in [Task -> PC] /\ kid' \in [Task -> Task \cup {None}]
  BY <1>1, <1>2, <1>3 DEF fork_done, TaskShape, Others, PC
<1>5. UNCHANGED <<mms, refs, mm, active, new, cur, priv, oom, readers, mix>>
  BY DEF fork_done
<1>6. MmShape' /\ TaskShape'
  BY <1>1, <1>4, <1>5 DEF MmShape, TaskShape, mms, refs
<1>7. OthersRun(t, c)
  BY <1>4, <1>5 DEF OthersRun
<1>8. ASSUME NEW u \in Others(t, c)
      PROVE  Relied(u) /\ Unmet(u, t) /\ Unmet(u, c) /\ KidApart(u, t) /\ KidApart(u, c)
  <2>1. u \in Task /\ u # t /\ u # c /\ TaskPart(u)
    BY DEF Others, MmInv
  <2>2. Relied(u)
    BY <1>5 DEF Relied, mms
  <2>3. Unmet(u, t) /\ Unmet(u, c)
    BY <1>5, <2>1 DEF Unmet, TaskPart, Alone, SwapOk
  <2>4. KidApart(u, t) /\ KidApart(u, c)
    BY <1>3, <1>4, <2>1 DEF KidApart
  <2>5. QED
    BY <2>2, <2>3, <2>4
<1>9. TaskPart(t)'
  <2>1. TaskOk(t)' /\ KidOk(t)'
    BY <1>1, <1>4, <1>5 DEF TaskPart, TaskOk, KidOk, HasMm, Making, Forking
  <2>2. Alone(t)' /\ MakeOk(t)' /\ SwapOk(t)' /\ SecretOk(t)'
    BY <1>1, <1>4, <1>5 DEF TaskPart, TaskOk, Making, Alone, MakeOk, SwapOk, SecretOk, mms, readers
  <2>3. QED
    BY <2>1, <2>2 DEF TaskPart
<1>10. TaskPart(c)'
  <2>0. TaskPart(c)
    BY DEF MmInv
  <2>1. TaskOk(c)' /\ KidOk(c)'
    BY <1>3, <1>4, <1>5 DEF TaskOk, KidOk, HasMm, Making, Forking
  <2>2. Alone(c)' /\ MakeOk(c)' /\ SwapOk(c)'
    BY <1>3, <1>4, <1>5 DEF Alone, MakeOk, SwapOk
  <2>3. SecretOk(c)'
    BY <1>3, <1>4, <1>5, <2>0 DEF TaskPart, SecretOk, mms
  <2>4. QED
    BY <2>1, <2>2, <2>3 DEF TaskPart
<1>11. \A r \in Reader : ReaderOk(r)'
  <2>1. \A u \in Others(t, c) : pc'[u] = pc[u] /\ priv'[u] = priv[u]
    BY <1>4, <1>5
  <2>2. QED
    BY <1>3, <1>4, <1>5, <2>1, ReadersSeeFork DEF mms
<1>12. UsersExact' /\ CountExact' /\ FilesExact'
  BY <1>5, UsersSame, CountSame, FilesSame DEF readers, refs, mms
<1>13. ModExact'
  <2>1. \A m \in Mm : HasModule(m)' <=> HasModule(m)
    BY <1>5 DEF HasModule, mms
  <2>2. QED
    BY <1>5, <2>1, ModSame DEF refs
<1>14. NsExact'
  BY <1>5, NsSame DEF refs, mms
<1>15. \A m \in Mm : MmOk(m)'
  BY <1>5 DEF MmInv, MmOk, mms
<1>16. QED
  BY <1>5, <1>6, <1>7, <1>8, <1>9, <1>10, <1>11, <1>12, <1>13, <1>14, <1>15, TaskStep

LEMMA DupModule ==
    ASSUME MmInv, NEW t \in Task, dup_module(t), mix' = mix
    PROVE  MmInv'
<1>1. TaskPart(t) /\ MmShape /\ TaskShape /\ pc[t] = "module"
  BY Shapes DEF MmInv, dup_module
<1>2. PICK c \in Task : c = kid[t]
  BY <1>1, MakerKid DEF Forking
<1>3. /\ c # None /\ c # t /\ pc[c] = "new"
      /\ \A u \in Task : (kid[u] = c => u = t) /\ kid[u] # t
      /\ new[c] = None /\ kid[c] = None /\ active[c] = None /\ oom[c] = None /\ mm[c] = None
      /\ \A r \in Reader : target[r] # c
  BY <1>1, <1>2, MakerKid DEF Forking
<1>4. PICK m \in Mm : m = new[t]
  BY <1>1, MakerMm DEF Making
<1>5. /\ m # None /\ mm[t] \in Mm /\ mm[t] # None /\ mm[t] # m /\ stage[m] = "live"
      /\ \A u \in Task : mm[u] # m /\ (new[u] = m => u = t)
      /\ \A r \in Reader : held[r] # m /\ fd[r] # m
  BY <1>1, <1>4, MakerMm DEF Making
<1>6. /\ pc'[t] = "kid" /\ \A u \in Task : u # t => pc'[u] = pc[u]
      /\ new'[t] = None /\ \A u \in Task : u # t => new'[u] = new[u]
      /\ mm'[c] = m /\ \A u \in Task : u # c => mm'[u] = mm[u]
      /\ pc' \in [Task -> PC] /\ mm' \in [Task -> Mm \cup {None}]
      /\ new' \in [Task -> Mm \cup {None}]
  BY <1>1, <1>2, <1>4 DEF dup_module, TaskShape, PC
<1>7. UNCHANGED <<mms, fref, nsref, active, kid, cur, priv, oom, readers, mix>>
  BY DEF dup_module
<1>8. MmShape' /\ TaskShape'
  BY <1>1, <1>6, <1>7 DEF MmShape, TaskShape, mms
<1>9. OthersRun(t, c)
  BY <1>6, <1>7 DEF OthersRun, Others
<1>10. ASSUME NEW u \in Others(t, c)
      PROVE  Relied(u) /\ Unmet(u, t) /\ Unmet(u, c) /\ KidApart(u, t) /\ KidApart(u, c)
  <2>1. u \in Task /\ u # t /\ u # c /\ TaskPart(u)
    BY DEF Others, MmInv
  <2>2. Relied(u)
    BY <1>7 DEF Relied, mms
  <2>3. Unmet(u, t) /\ Unmet(u, c)
    BY <1>3, <1>5, <1>6, <2>1 DEF Unmet, TaskPart, Alone, SwapOk
  <2>4. KidApart(u, t) /\ KidApart(u, c)
    BY <1>2, <1>3, <1>7, <2>1 DEF KidApart
  <2>5. QED
    BY <2>2, <2>3, <2>4
<1>11. TaskPart(t)'
  <2>0. kid'[t] = c /\ pc'[c] = "new" /\ mm'[t] = mm[t]
    BY <1>2, <1>3, <1>6, <1>7
  <2>1. TaskOk(t)'
    BY <1>1, <1>2, <1>3, <1>6, <1>7, <2>0 DEF TaskPart, TaskOk, HasMm, Making, Forking
  <2>2. KidOk(t)'
    BY <1>2, <1>3, <1>5, <1>6, <1>7, <2>0 DEF KidOk
  <2>3. Alone(t)' /\ MakeOk(t)' /\ SwapOk(t)' /\ SecretOk(t)'
    BY <1>1, <1>6, <1>7, <2>0 DEF TaskPart, Alone, MakeOk, SwapOk, SecretOk, mms
  <2>4. QED
    BY <2>1, <2>2, <2>3 DEF TaskPart
<1>12. TaskPart(c)'
  <2>0. pc'[c] = "new" /\ new'[c] = None /\ mm'[c] = m
    BY <1>3, <1>6
  <2>1. TaskOk(c)' /\ KidOk(c)'
    BY <1>3, <1>7, <2>0 DEF TaskOk, KidOk, HasMm, Making, Forking
  <2>2. Alone(c)' /\ MakeOk(c)' /\ SwapOk(c)'
    BY <2>0 DEF Alone, MakeOk, SwapOk
  <2>3. secret[m] => priv[c]
    BY <1>1, <1>2, <1>3, <1>4 DEF TaskPart, KidOk
  <2>4. SecretOk(c)'
    BY <1>7, <2>0, <2>3 DEF SecretOk, mms
  <2>5. QED
    BY <2>1, <2>2, <2>4 DEF TaskPart
<1>13. \A r \in Reader : ReaderOk(r)'
  <2>1. \A u \in Others(t, c) : pc'[u] = pc[u] /\ priv'[u] = priv[u]
    BY <1>6, <1>7 DEF Others
  <2>2. QED
    BY <1>3, <1>6, <1>7, <2>1, ReadersSeeFork DEF mms
<1>14. UsersExact'
  <2>1. \A k \in Mm : users'[k] = users[k] /\ users[k] \in Int /\ k # None
    BY <1>1, <1>7, MmAssumption DEF MmShape, mms
  <2>2. \A k \in Mm : users'[k] = users[k] + ((Hit(mm'[c], k) - Hit(mm[c], k))
                                              + (Hit(new'[t], k) - Hit(new[t], k)))
    BY <1>3, <1>4, <1>6, <2>1 DEF Hit
  <2>3. QED
    BY <1>6, <1>7, <2>2, UsersMove DEF readers
<1>15. CountExact' /\ FilesExact'
  BY <1>7, CountSame, FilesSame DEF readers, mms
<1>16. ModExact'
  <2>1. \A k \in Mm : k # m => (HasModule(k)' <=> HasModule(k))
    BY <1>4, <1>6, <1>7, MmAssumption DEF HasModule, mms
  <2>2. HasModule(m)' <=> binfmt[m]
    BY <1>5, <1>6, <1>7 DEF HasModule, mms
  <2>3. ~HasModule(m)
    BY <1>4 DEF HasModule
  <2>4. /\ Num(Modular) \in Nat /\ Num(Modular') \in Nat
        /\ Num(Modular') = Num(Modular) + ((IF HasModule(m)' THEN 1 ELSE 0)
                                           - (IF HasModule(m) THEN 1 ELSE 0))
    BY <2>1, ModShift
  <2>5. modref = Num(Modular) /\ modref' = (IF binfmt[m] THEN modref + 1 ELSE modref)
    BY <1>4, Shapes DEF dup_module
  <2>6. modref' = Num(Modular')
    BY <2>2, <2>3, <2>4, <2>5
  <2>7. QED
    BY <2>6 DEF ModExact, Num
<1>17. NsExact'
  BY <1>7, NsSame DEF mms
<1>18. \A k \in Mm : MmOk(k)'
  BY <1>7 DEF MmInv, MmOk, mms
<1>19. QED
  BY <1>7, <1>8, <1>9, <1>10, <1>11, <1>12, <1>13, <1>14, <1>15, <1>16, <1>17, <1>18, TaskStep

LEMMA FreePt ==
    ASSUME MmInv, NEW t \in Task, free_pt(t), mix' = mix
    PROVE  MmInv'
<1>1. TaskPart(t) /\ MmShape /\ TaskShape /\ pc[t] = "free_pt"
  BY Shapes DEF MmInv, free_pt
<1>2. PICK c \in Task : c = kid[t]
  BY <1>1, MakerKid DEF Forking
<1>3. /\ c # None /\ c # t /\ pc[c] = "new"
      /\ \A u \in Task : (kid[u] = c => u = t) /\ kid[u] # t
      /\ new[c] = None /\ kid[c] = None /\ active[c] = None /\ oom[c] = None /\ mm[c] = None
      /\ \A r \in Reader : target[r] # c
  BY <1>1, <1>2, MakerKid DEF Forking
<1>4. PICK m \in Mm : m = new[t]
  BY <1>1, MakerMm DEF Making
<1>5. /\ m # None /\ mm[t] \in Mm /\ mm[t] # None /\ mm[t] # m /\ stage[m] = "live" /\ users[m] > 0
      /\ \A u \in Task : mm[u] # m /\ (new[u] = m => u = t)
      /\ \A r \in Reader : held[r] # m /\ fd[r] # m
  BY <1>1, <1>4, MakerMm DEF Making
<1>6. /\ pc'[t] = "run" /\ pc'[c] = "none" /\ \A u \in Others(t, c) : pc'[u] = pc[u]
      /\ new'[t] = None /\ \A u \in Task : u # t => new'[u] = new[u]
      /\ kid'[t] = None /\ \A u \in Task : u # t => kid'[u] = kid[u]
      /\ pc' \in [Task -> PC] /\ new' \in [Task -> Mm \cup {None}]
      /\ kid' \in [Task -> Task \cup {None}]
  BY <1>1, <1>2, <1>3 DEF free_pt, TaskShape, Others, PC
<1>7. UNCHANGED <<count, vmas, exe, secret, refs, mm, active, cur, priv, oom, readers, mix>>
  BY DEF free_pt
<1>8. /\ binfmt' \in [Mm -> BOOLEAN] /\ ~binfmt'[m] /\ \A k \in Mm : k # m => binfmt'[k] = binfmt[k]
  BY <1>1, <1>4 DEF free_pt, ClearBinfmt, MmShape
<1>9. /\ \A k \in Mm : MmOk(k)'
      /\ users' \in [Mm -> Int] /\ stage' \in [Mm -> Stage]
      /\ users'[m] = users[m] - 1 /\ \A k \in Mm : k # m => users'[k] = users[k]
      /\ \A k \in Mm : /\ stage'[k] \in {"free", "gone"} <=> stage[k] \in {"free", "gone"}
                       /\ stage'[k] = "free" <=> stage[k] = "free"
                       /\ stage'[k] \in {"live", "unmap", "exe"}
                            <=> stage[k] \in {"live", "unmap", "exe"}
  <2>1. mmput(m)
    BY <1>4 DEF free_pt
  <2>2. QED
    BY <1>5, <1>7, <2>1, PutOk
<1>10. MmShape' /\ TaskShape'
  BY <1>1, <1>6, <1>7, <1>8, <1>9 DEF MmShape, TaskShape, refs
<1>11. OthersRun(t, c)
  BY <1>6, <1>7 DEF OthersRun, Others
<1>12. ASSUME NEW u \in Others(t, c)
      PROVE  Relied(u) /\ Unmet(u, t) /\ Unmet(u, c) /\ KidApart(u, t) /\ KidApart(u, c)
  <2>1. u \in Task /\ u # t /\ u # c /\ TaskPart(u) /\ new[u] # m /\ mm[u] # m
    BY <1>5 DEF Others, MmInv
  <2>2. Relied(u)
    <3>1. new[u] # None => binfmt'[new[u]] = binfmt[new[u]]
      BY <1>1, <1>8, <2>1 DEF TaskShape
    <3>2. pc[u] = "swapped" => mm[u] \in Mm
      BY <1>1, <2>1 DEF TaskShape, TaskPart, TaskOk, HasMm
    <3>3. QED
      BY <1>7, <1>8, <2>1, <3>1, <3>2 DEF Relied
  <2>3. Unmet(u, t) /\ Unmet(u, c)
    BY <1>3, <1>6, <1>7, <2>1 DEF Unmet, TaskPart, Alone, SwapOk
  <2>4. KidApart(u, t) /\ KidApart(u, c)
    BY <1>3, <1>6, <2>1 DEF KidApart
  <2>5. QED
    BY <2>2, <2>3, <2>4
<1>13. TaskPart(t)'
  <2>1. TaskOk(t)' /\ KidOk(t)'
    BY <1>1, <1>5, <1>6, <1>7 DEF TaskPart, TaskOk, KidOk, HasMm, Making, Forking
  <2>2. Alone(t)' /\ MakeOk(t)' /\ SwapOk(t)' /\ SecretOk(t)'
    BY <1>1, <1>6, <1>7 DEF TaskPart, Alone, MakeOk, SwapOk, SecretOk
  <2>3. QED
    BY <2>1, <2>2 DEF TaskPart
<1>14. TaskPart(c)'
  <2>1. TaskOk(c)' /\ KidOk(c)'
    BY <1>3, <1>6, <1>7 DEF TaskOk, KidOk, HasMm, Making, Forking
  <2>2. Alone(c)' /\ MakeOk(c)' /\ SwapOk(c)' /\ SecretOk(c)'
    BY <1>3, <1>6, <1>7 DEF Alone, MakeOk, SwapOk, SecretOk
  <2>3. QED
    BY <2>1, <2>2 DEF TaskPart
<1>15. \A r \in Reader : ReaderOk(r)'
  <2>1. \A u \in Others(t, c) : pc'[u] = pc[u] /\ priv'[u] = priv[u]
    BY <1>6, <1>7
  <2>2. QED
    BY <1>3, <1>6, <1>7, <2>1, ReadersSeeFork
<1>16. UsersExact'
  <2>1. \A k \in Mm : users[k] \in Int /\ k # None
    BY <1>1, MmAssumption DEF MmShape
  <2>2. \A k \in Mm : users'[k] = users[k] + ((Hit(mm'[t], k) - Hit(mm[t], k))
                                              + (Hit(new'[t], k) - Hit(new[t], k)))
    BY <1>4, <1>6, <1>7, <1>9, <2>1 DEF Hit
  <2>3. QED
    BY <1>6, <1>7, <2>2, UsersMove DEF readers
<1>17. CountExact' /\ FilesExact' /\ NsExact'
  BY <1>7, <1>9, CountSame, FilesSame, NsSame DEF readers, refs
<1>18. ModExact'
  <2>1. ASSUME NEW k \in Mm PROVE HasModule(k)' <=> HasModule(k)
    <3>1. CASE k = m
      BY <1>4, <1>8, <3>1 DEF HasModule
    <3>2. CASE k # m
      BY <1>4, <1>6, <1>8, <1>9, <3>2, MmAssumption DEF HasModule
    <3>3. QED
      BY <3>1, <3>2
  <2>2. QED
    BY <1>7, <2>1, ModSame DEF refs
<1>19. QED
  BY <1>7, <1>9, <1>10, <1>11, <1>12, <1>13, <1>14, <1>15, <1>16, <1>17, <1>18, TaskStep

LEMMA ForkFails ==
    ASSUME MmInv, NEW t \in Task, fork_fails(t), mix' = mix
    PROVE  MmInv'
<1>1. TaskPart(t) /\ MmShape /\ TaskShape /\ pc[t] = "kid"
  BY Shapes DEF MmInv, fork_fails
<1>2. PICK c \in Task : c = kid[t]
  BY <1>1, MakerKid DEF Forking
<1>3. /\ c # None /\ c # t /\ pc[c] = "new"
      /\ \A u \in Task : (kid[u] = c => u = t) /\ kid[u] # t
      /\ new[c] = None /\ kid[c] = None /\ active[c] = None /\ oom[c] = None /\ mm[c] # None
      /\ \A r \in Reader : target[r] # c
  BY <1>1, <1>2, MakerKid DEF Forking
<1>4. PICK m \in Mm : m = mm[c]
  BY <1>1, <1>3 DEF TaskShape
<1>5. stage[m] = "live" /\ users[m] > 0 /\ new[t] = None
  BY <1>1, <1>4, UsedLive DEF TaskPart, TaskOk, Making
<1>6. /\ pc'[t] = "run" /\ pc'[c] = "none" /\ \A u \in Others(t, c) : pc'[u] = pc[u]
      /\ mm'[c] = None /\ \A u \in Task : u # c => mm'[u] = mm[u]
      /\ kid'[t] = None /\ \A u \in Task : u # t => kid'[u] = kid[u]
      /\ pc' \in [Task -> PC] /\ mm' \in [Task -> Mm \cup {None}]
      /\ kid' \in [Task -> Task \cup {None}]
  BY <1>1, <1>2, <1>3 DEF fork_fails, TaskShape, Others, PC
<1>7. UNCHANGED <<count, vmas, exe, binfmt, secret, refs, active, new, cur, priv,
                  oom, readers, mix>>
  BY DEF fork_fails
<1>9. /\ \A k \in Mm : MmOk(k)'
      /\ users' \in [Mm -> Int] /\ stage' \in [Mm -> Stage]
      /\ users'[m] = users[m] - 1 /\ \A k \in Mm : k # m => users'[k] = users[k]
      /\ \A k \in Mm : /\ stage'[k] \in {"free", "gone"} <=> stage[k] \in {"free", "gone"}
                       /\ stage'[k] = "free" <=> stage[k] = "free"
                       /\ stage'[k] \in {"live", "unmap", "exe"}
                            <=> stage[k] \in {"live", "unmap", "exe"}
  <2>1. mmput(m)
    BY <1>2, <1>4 DEF fork_fails
  <2>2. QED
    BY <1>5, <1>7, <2>1, PutOk
<1>10. MmShape' /\ TaskShape'
  BY <1>1, <1>6, <1>7, <1>9 DEF MmShape, TaskShape, refs
<1>11. OthersRun(t, c)
  BY <1>6, <1>7 DEF OthersRun, Others
<1>12. ASSUME NEW u \in Others(t, c)
      PROVE  Relied(u) /\ Unmet(u, t) /\ Unmet(u, c) /\ KidApart(u, t) /\ KidApart(u, c)
  <2>1. u \in Task /\ u # t /\ u # c /\ TaskPart(u)
    BY DEF Others, MmInv
  <2>2. Relied(u)
    BY <1>7 DEF Relied
  <2>3. Unmet(u, t) /\ Unmet(u, c)
    BY <1>3, <1>5, <1>6, <1>7, <2>1 DEF Unmet, TaskPart, TaskOk, HasMm, Alone, SwapOk
  <2>4. KidApart(u, t) /\ KidApart(u, c)
    BY <1>3, <1>6, <2>1 DEF KidApart
  <2>5. QED
    BY <2>2, <2>3, <2>4
<1>13. TaskPart(t)'
  <2>0. mm'[t] = mm[t]
    BY <1>3, <1>6
  <2>1. TaskOk(t)' /\ KidOk(t)'
    BY <1>1, <1>5, <1>6, <1>7, <2>0 DEF TaskPart, TaskOk, KidOk, HasMm, Making, Forking
  <2>2. Alone(t)' /\ MakeOk(t)' /\ SwapOk(t)' /\ SecretOk(t)'
    BY <1>1, <1>5, <1>6, <1>7, <2>0 DEF TaskPart, Alone, MakeOk, SwapOk, SecretOk
  <2>3. QED
    BY <2>1, <2>2 DEF TaskPart
<1>14. TaskPart(c)'
  <2>1. TaskOk(c)' /\ KidOk(c)'
    BY <1>3, <1>6, <1>7 DEF TaskOk, KidOk, HasMm, Making, Forking
  <2>2. Alone(c)' /\ MakeOk(c)' /\ SwapOk(c)' /\ SecretOk(c)'
    BY <1>3, <1>6, <1>7 DEF Alone, MakeOk, SwapOk, SecretOk
  <2>3. QED
    BY <2>1, <2>2 DEF TaskPart
<1>15. \A r \in Reader : ReaderOk(r)'
  <2>1. \A u \in Others(t, c) : pc'[u] = pc[u] /\ priv'[u] = priv[u]
    BY <1>6, <1>7
  <2>2. QED
    BY <1>3, <1>6, <1>7, <2>1, ReadersSeeFork
<1>16. UsersExact'
  <2>1. \A k \in Mm : users[k] \in Int /\ k # None
    BY <1>1, MmAssumption DEF MmShape
  <2>2. \A k \in Mm : users'[k] = users[k] + ((Hit(mm'[c], k) - Hit(mm[c], k))
                                              + (Hit(new'[t], k) - Hit(new[t], k)))
    BY <1>4, <1>6, <1>7, <1>9, <2>1 DEF Hit
  <2>3. QED
    BY <1>6, <1>7, <2>2, UsersMove DEF readers
<1>17. CountExact' /\ FilesExact' /\ NsExact'
  BY <1>7, <1>9, CountSame, FilesSame, NsSame DEF readers, refs
<1>18. ModExact'
  <2>1. ASSUME NEW k \in Mm PROVE HasModule(k)' <=> HasModule(k)
    BY <1>7, <1>9 DEF HasModule
  <2>2. QED
    BY <1>7, <2>1, ModSame DEF refs
<1>19. QED
  BY <1>7, <1>9, <1>10, <1>11, <1>12, <1>13, <1>14, <1>15, <1>16, <1>17, <1>18, TaskStep

(***************************************************************************)
(* Steps of a task that makes no child: exec, munmap, exit.                *)
(***************************************************************************)
LEMMA SoloStep ==
    ASSUME MmInv, NEW t \in Task, pc[t] # "new", MmShape', TaskShape',
           UNCHANGED <<kid, readers, mix>>,
           OthersRun(t, t), \A u \in Others(t, t) : Relied(u) /\ Unmet(u, t),
           TaskPart(t)', \A r \in Reader : ReaderOk(r)',
           UsersExact', CountExact', FilesExact', ModExact', NsExact', \A m \in Mm : MmOk(m)'
    PROVE  MmInv'
<1>1. ASSUME NEW u \in Others(t, t) PROVE KidApart(u, t)
  <2>1. u \in Task /\ u # t /\ TaskPart(u)
    BY DEF Others, MmInv
  <2>2. QED
    BY <2>1 DEF KidApart, TaskPart, KidOk
<1>2. QED
  BY <1>1, TaskStep

\* What a task that has an mm and makes nothing new means to others.
LEMMA UnmetSame ==
    ASSUME MmInv, NEW t \in Task, NEW u \in Others(t, t), new'[t] = None,
           mm'[t] \in {None, mm[t]}
    PROVE  Unmet(u, t)
<1>1. u \in Task /\ u # t /\ TaskPart(u)
  BY DEF Others, MmInv
<1>2. pc[u] = "swapped" => mm[u] # None
  BY <1>1 DEF TaskPart, TaskOk, HasMm
<1>3. QED
  BY <1>1, <1>2 DEF Unmet, TaskPart, Alone, SwapOk

LEMMA ExecFails ==
    ASSUME MmInv, NEW t \in Task, exec_fails(t), mix' = mix
    PROVE  MmInv'
<1>1. TaskPart(t) /\ MmShape /\ TaskShape /\ pc[t] = "exec"
  BY Shapes DEF MmInv, exec_fails
<1>4. PICK m \in Mm : m = new[t]
  BY <1>1, MakerMm DEF Making
<1>5. /\ stage[m] = "live" /\ users[m] > 0 /\ ~binfmt[m] /\ kid[t] = None
      /\ \A u \in Task : mm[u] # m /\ (new[u] = m => u = t)
  BY <1>1, <1>4, MakerMm DEF Making, Forking, TaskPart, TaskOk, MakeOk
<1>6. /\ pc'[t] = "run" /\ \A u \in Task : u # t => pc'[u] = pc[u]
      /\ new'[t] = None /\ \A u \in Task : u # t => new'[u] = new[u]
      /\ pc' \in [Task -> PC] /\ new' \in [Task -> Mm \cup {None}]
  BY <1>1 DEF exec_fails, TaskShape, PC
<1>7. UNCHANGED <<count, vmas, exe, binfmt, secret, refs, mm, active, kid, cur,
                  priv, oom, readers, mix>>
  BY DEF exec_fails
<1>9. /\ \A k \in Mm : MmOk(k)'
      /\ users' \in [Mm -> Int] /\ stage' \in [Mm -> Stage]
      /\ users'[m] = users[m] - 1 /\ \A k \in Mm : k # m => users'[k] = users[k]
      /\ \A k \in Mm : /\ stage'[k] \in {"free", "gone"} <=> stage[k] \in {"free", "gone"}
                       /\ stage'[k] = "free" <=> stage[k] = "free"
                       /\ stage'[k] \in {"live", "unmap", "exe"}
                            <=> stage[k] \in {"live", "unmap", "exe"}
  <2>1. mmput(m)
    BY <1>4 DEF exec_fails
  <2>2. QED
    BY <1>5, <1>7, <2>1, PutOk
<1>10. MmShape' /\ TaskShape'
  BY <1>1, <1>6, <1>7, <1>9 DEF MmShape, TaskShape, refs
<1>11. OthersRun(t, t)
  BY <1>6, <1>7 DEF OthersRun, Others
<1>12. ASSUME NEW u \in Others(t, t) PROVE Relied(u) /\ Unmet(u, t)
  <2>1. Relied(u)
    BY <1>7 DEF Relied
  <2>2. QED
    BY <1>6, <1>7, <2>1, UnmetSame
<1>13. TaskPart(t)'
  <2>1. TaskOk(t)' /\ KidOk(t)'
    BY <1>1, <1>5, <1>6, <1>7 DEF TaskPart, TaskOk, KidOk, HasMm, Making, Forking
  <2>2. Alone(t)' /\ MakeOk(t)' /\ SwapOk(t)' /\ SecretOk(t)'
    BY <1>1, <1>6, <1>7 DEF TaskPart, Alone, MakeOk, SwapOk, SecretOk
  <2>3. QED
    BY <2>1, <2>2 DEF TaskPart
<1>15. \A r \in Reader : ReaderOk(r)'
  BY <1>6, <1>7, ReadersSee
<1>16. UsersExact'
  <2>1. \A k \in Mm : users[k] \in Int /\ k # None
    BY <1>1, MmAssumption DEF MmShape
  <2>2. \A k \in Mm : users'[k] = users[k] + ((Hit(mm'[t], k) - Hit(mm[t], k))
                                              + (Hit(new'[t], k) - Hit(new[t], k)))
    BY <1>4, <1>6, <1>7, <1>9, <2>1 DEF Hit
  <2>3. QED
    BY <1>6, <1>7, <2>2, UsersMove DEF readers
<1>17. CountExact' /\ FilesExact' /\ NsExact'
  BY <1>7, <1>9, CountSame, FilesSame, NsSame DEF readers, refs
<1>18. ModExact'
  <2>1. ASSUME NEW k \in Mm PROVE HasModule(k)' <=> HasModule(k)
    <3>1. CASE k = m
      BY <1>5, <1>7, <3>1 DEF HasModule
    <3>2. CASE k # m
      BY <1>4, <1>6, <1>7, <1>9, <3>2, MmAssumption DEF HasModule
    <3>3. QED
      BY <3>1, <3>2
  <2>2. QED
    BY <1>7, <2>1, ModSame DEF refs
<1>19. QED
  BY <1>1, <1>7, <1>9, <1>10, <1>11, <1>12, <1>13, <1>15, <1>16, <1>17, <1>18, SoloStep

LEMMA ExecMmap ==
    ASSUME MmInv, NEW t \in Task, exec_mmap(t), mix' = mix
    PROVE  MmInv'
<1>1. TaskPart(t) /\ MmShape /\ TaskShape /\ pc[t] = "exec"
  BY Shapes DEF MmInv, exec_mmap
<1>2. PICK a \in Mm : a = mm[t]
  BY <1>1, MakerMm DEF Making
<1>4. PICK m \in Mm : m = new[t]
  BY <1>1, MakerMm DEF Making
<1>5. /\ stage[a] = "live" /\ users[a] > 0 /\ ~binfmt[m] /\ vmas[m] = {} /\ kid[t] = None /\ a # m
      /\ \A u \in Task : mm[u] # m /\ (new[u] = m => u = t)
  BY <1>1, <1>2, <1>4, MakerMm DEF Making, Forking, TaskPart, TaskOk, MakeOk
<1>6. /\ pc'[t] = "swapped" /\ \A u \in Task : u # t => pc'[u] = pc[u]
      /\ new'[t] = None /\ \A u \in Task : u # t => new'[u] = new[u]
      /\ mm'[t] = m /\ \A u \in Task : u # t => mm'[u] = mm[u]
      /\ pc' \in [Task -> PC] /\ new' \in [Task -> Mm \cup {None}]
      /\ mm' \in [Task -> Mm \cup {None}]
  BY <1>1, <1>4 DEF exec_mmap, TaskShape, PC
<1>7. UNCHANGED <<count, vmas, exe, binfmt, secret, refs, active, kid, cur, priv,
                  oom, readers, mix>>
  BY DEF exec_mmap
<1>9. /\ \A k \in Mm : MmOk(k)'
      /\ users' \in [Mm -> Int] /\ stage' \in [Mm -> Stage]
      /\ users'[a] = users[a] - 1 /\ \A k \in Mm : k # a => users'[k] = users[k]
      /\ \A k \in Mm : /\ stage'[k] \in {"free", "gone"} <=> stage[k] \in {"free", "gone"}
                       /\ stage'[k] = "free" <=> stage[k] = "free"
                       /\ stage'[k] \in {"live", "unmap", "exe"}
                            <=> stage[k] \in {"live", "unmap", "exe"}
  <2>1. mmput(a)
    BY <1>2 DEF exec_mmap
  <2>2. QED
    BY <1>5, <1>7, <2>1, PutOk
<1>10. MmShape' /\ TaskShape'
  BY <1>1, <1>6, <1>7, <1>9 DEF MmShape, TaskShape, refs
<1>11. OthersRun(t, t)
  BY <1>6, <1>7 DEF OthersRun, Others
<1>12. ASSUME NEW u \in Others(t, t) PROVE Relied(u) /\ Unmet(u, t)
  <2>1. Relied(u)
    BY <1>7 DEF Relied
  <2>2. Unmet(u, t)
    BY <1>5, <1>6 DEF Unmet, Others
  <2>3. QED
    BY <2>1, <2>2
<1>13. TaskPart(t)'
  <2>1. TaskOk(t)' /\ KidOk(t)'
    BY <1>1, <1>5, <1>6, <1>7, MmAssumption DEF TaskPart, TaskOk, KidOk, HasMm, Making, Forking
  <2>2. Alone(t)' /\ MakeOk(t)' /\ SecretOk(t)'
    BY <1>6 DEF Alone, MakeOk, SecretOk
  <2>3. SwapOk(t)'
    BY <1>5, <1>6, <1>7 DEF SwapOk
  <2>4. QED
    BY <2>1, <2>2, <2>3 DEF TaskPart
<1>15. \A r \in Reader : ReaderOk(r)'
  <2>1. ASSUME NEW r \in Reader PROVE ReaderOk(r) /\ target[r] \in Task \cup {None}
    BY Shapes DEF MmInv, ReaderShape
  <2>2. ASSUME NEW r \in Reader, target[r] # None
        PROVE  pc'[target[r]] = pc[target[r]] \/ (target[r] = t /\ pc'[target[r]] = "swapped")
    BY <1>6, <2>1, <2>2
  <2>3. ASSUME NEW r \in Reader, target[r] # None PROVE pc'[target[r]] \notin {"none", "new"}
    BY <2>1, <2>2, <2>3 DEF ReaderOk
  <2>4. ASSUME NEW r \in Reader, rpc[r] = "check" PROVE pc'[target[r]] # "swapped"
    <3>1. target[r] # t
      BY <2>4 DEF exec_mmap, BeingChecked
    <3>2. QED
      BY <2>1, <2>2, <2>4, <3>1 DEF ReaderOk
  <2>5. QED
    BY <1>7, <2>3, <2>4, ReadersStay
<1>16. UsersExact'
  <2>1. \A k \in Mm : users[k] \in Int /\ k # None
    BY <1>1, MmAssumption DEF MmShape
  <2>2. \A k \in Mm : users'[k] = users[k] + ((Hit(mm'[t], k) - Hit(mm[t], k))
                                              + (Hit(new'[t], k) - Hit(new[t], k)))
    BY <1>2, <1>4, <1>5, <1>6, <1>9, <2>1 DEF Hit
  <2>3. QED
    BY <1>6, <1>7, <2>2, UsersMove DEF readers
<1>17. CountExact' /\ FilesExact' /\ NsExact'
  BY <1>7, <1>9, CountSame, FilesSame, NsSame DEF readers, refs
<1>18. ModExact'
  <2>1. ASSUME NEW k \in Mm PROVE HasModule(k)' <=> HasModule(k)
    <3>1. CASE k = m
      BY <1>5, <1>7, <3>1 DEF HasModule
    <3>2. CASE k # m
      BY <1>4, <1>6, <1>7, <1>9, <3>2, MmAssumption DEF HasModule
    <3>3. QED
      BY <3>1, <3>2
  <2>2. QED
    BY <1>7, <2>1, ModSame DEF refs
<1>19. QED
  BY <1>1, <1>7, <1>9, <1>10, <1>11, <1>12, <1>13, <1>15, <1>16, <1>17, <1>18, SoloStep

\* A task that may write the mappings of its mm: who else relies on them.
LEMMA Unshared ==
    ASSUME MmInv, NEW t \in Task, NEW m \in Mm, m = mm[t], CanWriteLock(m), NEW u \in Others(t, t)
    PROVE  /\ u \in Task /\ u # t
           /\ new[u] # m /\ (pc[u] = "copy" => mm[u] # m) /\ (pc[u] = "swapped" => mm[u] # m)
           /\ new[u] # None => new[u] \in Mm
           /\ pc[u] \in {"copy", "swapped"} => mm[u] \in Mm
<1>1. u \in Task /\ u # t /\ TaskPart(u) /\ TaskShape
  BY Shapes DEF Others, MmInv
<1>2. m # None
  BY MmAssumption
<1>3. new[u] # m /\ (pc[u] = "swapped" => mm[u] # m)
  BY <1>1, <1>2 DEF TaskPart, Alone, SwapOk
<1>4. pc[u] = "copy" => mm[u] # m
  BY <1>1 DEF CanWriteLock, MmapLocked
<1>5. /\ new[u] # None => new[u] \in Mm
      /\ pc[u] \in {"copy", "swapped"} => mm[u] \in Mm
  BY <1>1 DEF TaskShape, TaskPart, TaskOk, HasMm
<1>6. QED
  BY <1>1, <1>3, <1>4, <1>5

LEMMA ExecCreds ==
    ASSUME MmInv, NEW t \in Task, exec_creds(t), mix' = mix
    PROVE  MmInv'
<1>1. TaskPart(t) /\ MmShape /\ TaskShape /\ pc[t] = "swapped"
  BY Shapes DEF MmInv, exec_creds
<1>2. mm[t] # None /\ new[t] = None /\ kid[t] = None /\ active[t] = None
  BY <1>1 DEF TaskPart, TaskOk, HasMm, Making, Forking
<1>3. PICK m \in Mm : m = mm[t]
  BY <1>1, <1>2 DEF TaskShape
<1>4. /\ stage[m] = "live" /\ ~binfmt[m] /\ vmas[m] = {} /\ \A u \in Task : new[u] # m
  BY <1>1, <1>2, <1>3, TaskMm DEF TaskPart, SwapOk
<1>5. PICK f \in File \cup {None} : f = exe[m]
  BY <1>1 DEF MmShape
<1>6. PICK n \in Int : n = Cardinality(Vma)
  BY MmAssumption, FS_CardinalityType
<1>7. /\ fref' \in [File -> Int]
      /\ \A g \in File : fref'[g] = fref[g] + (IF g = f THEN n ELSE 0)
  <2>1. fref' = AddRef(f, n)
    BY <1>3, <1>5, <1>6 DEF exec_creds
  <2>2. QED
    BY <2>1, AddRefAt
<1>8. /\ vmas' \in [Mm -> SUBSET Vma] /\ vmas'[m] = Vma
      /\ \A k \in Mm : k # m => vmas'[k] = vmas[k]
  BY <1>1, <1>3 DEF MmShape, exec_creds
<1>9. /\ binfmt' \in [Mm -> BOOLEAN] /\ binfmt'[m] /\ \A k \in Mm : k # m => binfmt'[k] = binfmt[k]
  BY <1>1, <1>3 DEF MmShape, exec_creds
<1>10. /\ pc'[t] = "run" /\ \A u \in Task : u # t => pc'[u] = pc[u]
       /\ pc' \in [Task -> PC]
  BY <1>1 DEF exec_creds, TaskShape, PC
<1>11. /\ priv' \in [Task -> BOOLEAN] /\ priv'[t] = secret[m]
       /\ \A u \in Task : u # t => priv'[u] = priv[u]
  BY <1>1, <1>3 DEF exec_creds, TaskShape, MmShape
<1>12. UNCHANGED <<stage, users, count, exe, secret, nsref, mm, active, new, kid,
                   cur, oom, readers, mix>>
  BY DEF exec_creds
<1>13. MmShape' /\ TaskShape'
  BY <1>1, <1>7, <1>8, <1>9, <1>10, <1>11, <1>12 DEF MmShape, TaskShape
<1>14. OthersRun(t, t)
  BY <1>10, <1>11, <1>12 DEF OthersRun, Others
<1>15. ASSUME NEW u \in Others(t, t) PROVE Relied(u) /\ Unmet(u, t)
  <2>1. /\ new[u] # m /\ (pc[u] = "copy" => mm[u] # m) /\ (pc[u] = "swapped" => mm[u] # m)
        /\ new[u] # None => new[u] \in Mm
        /\ pc[u] \in {"copy", "swapped"} => mm[u] \in Mm
    BY <1>3, Unshared DEF exec_creds
  <2>2. Relied(u)
    BY <1>8, <1>9, <1>12, <2>1 DEF Relied
  <2>3. QED
    BY <1>2, <1>12, <2>2, UnmetSame
<1>16. TaskPart(t)'
  <2>1. TaskOk(t)' /\ KidOk(t)'
    BY <1>1, <1>2, <1>10, <1>12 DEF TaskPart, TaskOk, KidOk, HasMm, Making, Forking
  <2>2. Alone(t)' /\ MakeOk(t)' /\ SwapOk(t)'
    BY <1>2, <1>10, <1>12 DEF Alone, MakeOk, SwapOk
  <2>3. SecretOk(t)'
    BY <1>3, <1>11, <1>12 DEF SecretOk
  <2>4. QED
    BY <2>1, <2>2, <2>3 DEF TaskPart
<1>17. \A r \in Reader : ReaderOk(r)'
  <2>1. ASSUME NEW r \in Reader PROVE ReaderOk(r) /\ target[r] \in Task \cup {None}
    BY Shapes DEF MmInv, ReaderShape
  <2>2. ASSUME NEW r \in Reader, target[r] # None PROVE pc'[target[r]] \in {"run", pc[target[r]]}
    BY <1>10, <2>1, <2>2
  <2>3. ASSUME NEW r \in Reader, target[r] # None PROVE pc'[target[r]] \notin {"none", "new"}
    BY <2>1, <2>2, <2>3 DEF ReaderOk
  <2>4. ASSUME NEW r \in Reader, rpc[r] = "check"
        PROVE pc'[target[r]] # "swapped" /\ (priv[target[r]] => priv'[target[r]])
    <3>1. target[r] # None /\ target[r] \in Task /\ target[r] # t
      BY <1>1, <2>1, <2>4 DEF ReaderOk
    <3>2. priv'[target[r]] = priv[target[r]]
      BY <1>11, <3>1
    <3>3. QED
      BY <2>1, <2>2, <2>4, <3>1, <3>2 DEF ReaderOk
  <2>5. QED
    BY <1>12, <2>3, <2>4, ReadersStay
<1>18. UsersExact' /\ CountExact' /\ NsExact'
  BY <1>12, UsersSame, CountSame, NsSame DEF readers
<1>19. FilesExact'
  <2>1. ASSUME NEW g \in File PROVE fref'[g] = fref[g] + (Uses(m, g)' - Uses(m, g))
    <3>1. Num({}) = 0 /\ fref[g] \in Int /\ exe'[m] = f
      BY <1>1, <1>5, <1>12, FS_EmptySet DEF Num, MmShape
    <3>2. Uses(m, g) = (IF f = g THEN 1 ELSE 0)
      BY <1>4, <1>5, <3>1 DEF Uses
    <3>3. Uses(m, g)' = (IF f = g THEN n + 1 ELSE 0)
      BY <1>6, <1>8, <3>1 DEF Uses, Num
    <3>4. QED
      BY <1>6, <1>7, <3>1, <3>2, <3>3
  <2>2. \A k \in Mm : k # m => exe'[k] = exe[k] /\ vmas'[k] = vmas[k]
    BY <1>8, <1>12
  <2>3. QED
    BY <1>8, <1>12, <2>1, <2>2, FilesMove DEF readers
<1>20. ModExact'
  <2>1. \A k \in Mm : k # m => (HasModule(k)' <=> HasModule(k))
    BY <1>9, <1>12 DEF HasModule
  <2>2. HasModule(m)' /\ ~HasModule(m)
    BY <1>4, <1>9, <1>12 DEF HasModule
  <2>3. /\ Num(Modular) \in Nat /\ Num(Modular') \in Nat
        /\ Num(Modular') = Num(Modular) + ((IF HasModule(m)' THEN 1 ELSE 0)
                                           - (IF HasModule(m) THEN 1 ELSE 0))
    BY <2>1, ModShift
  <2>4. modref = Num(Modular) /\ modref' = modref + 1
    BY Shapes DEF exec_creds
  <2>5. modref' = Num(Modular')
    BY <2>2, <2>3, <2>4
  <2>6. QED
    BY <2>5 DEF ModExact, Num
<1>21. \A k \in Mm : MmOk(k)'
  BY <1>4, <1>8, <1>12 DEF MmInv, MmOk
<1>22. QED
  BY <1>1, <1>12, <1>13, <1>14, <1>15, <1>16, <1>17, <1>18, <1>19, <1>20, <1>21, SoloStep

LEMMA Munmap ==
    ASSUME MmInv, NEW t \in Task, NEW v \in Vma, munmap(t, v), mix' = mix
    PROVE  MmInv'
<1>1. TaskPart(t) /\ MmShape /\ TaskShape /\ pc[t] = "run"
  BY Shapes DEF MmInv, munmap
<1>2. mm[t] # None /\ new[t] = None
  BY <1>1 DEF TaskPart, TaskOk, HasMm, Making
<1>3. PICK m \in Mm : m = mm[t]
  BY <1>1, <1>2 DEF TaskShape
<1>4. stage[m] = "live" /\ v \in vmas[m]
  BY <1>2, <1>3, TaskMm DEF munmap
<1>5. PICK f \in File \cup {None} : f = exe[m]
  BY <1>1 DEF MmShape
<1>6. /\ fref' \in [File -> Int]
      /\ \A g \in File : fref'[g] = fref[g] + (IF g = f THEN -1 ELSE 0)
  <2>1. fref' = AddRef(f, -1) /\ -1 \in Int
    BY <1>3, <1>5 DEF munmap
  <2>2. QED
    BY <2>1, AddRefAt
<1>7. /\ vmas' \in [Mm -> SUBSET Vma] /\ vmas'[m] = vmas[m] \ {v}
      /\ \A k \in Mm : k # m => vmas'[k] = vmas[k]
  BY <1>1, <1>3 DEF MmShape, munmap
<1>8. UNCHANGED <<stage, users, count, exe, binfmt, secret, modref, nsref, tasks, readers, mix>>
  BY DEF munmap
<1>9. MmShape' /\ TaskShape'
  BY <1>1, <1>6, <1>7, <1>8 DEF MmShape, TaskShape, tasks
<1>10. OthersRun(t, t)
  BY <1>8 DEF OthersRun, Others, tasks
<1>11. ASSUME NEW u \in Others(t, t) PROVE Relied(u) /\ Unmet(u, t)
  <2>1. /\ new[u] # m /\ (pc[u] = "copy" => mm[u] # m) /\ (pc[u] = "swapped" => mm[u] # m)
        /\ new[u] # None => new[u] \in Mm
        /\ pc[u] \in {"copy", "swapped"} => mm[u] \in Mm
    BY <1>3, Unshared DEF munmap
  <2>2. Relied(u)
    BY <1>7, <1>8, <2>1 DEF Relied
  <2>3. QED
    BY <1>2, <1>8, <2>2, UnmetSame DEF tasks
<1>12. TaskPart(t)'
  <2>1. TaskOk(t)' /\ KidOk(t)' /\ SecretOk(t)'
    BY <1>1, <1>8 DEF TaskPart, TaskOk, KidOk, SecretOk, tasks
  <2>2. Alone(t)' /\ MakeOk(t)' /\ SwapOk(t)'
    BY <1>1, <1>2, <1>8 DEF Alone, MakeOk, SwapOk, tasks
  <2>3. QED
    BY <2>1, <2>2 DEF TaskPart
<1>13. \A r \in Reader : ReaderOk(r)'
  BY <1>1, <1>8, ReadersSee DEF tasks
<1>14. UsersExact' /\ CountExact' /\ NsExact'
  BY <1>8, UsersSame, CountSame, NsSame DEF readers, tasks
<1>15. FilesExact'
  <2>1. Num(vmas[m]) \in Int /\ Num(vmas'[m]) = Num(vmas[m]) - 1
    <3>1. IsFiniteSet(vmas[m])
      BY <1>1, MmAssumption, FS_Subset DEF MmShape
    <3>2. Cardinality(vmas[m]) \in Nat /\ Cardinality(vmas[m] \ {v}) = Cardinality(vmas[m]) - 1
      BY <1>4, <3>1, FS_CardinalityType, FS_RemoveElement
    <3>3. QED
      BY <1>7, <3>2 DEF Num
  <2>2. ASSUME NEW g \in File PROVE fref'[g] = fref[g] + (Uses(m, g)' - Uses(m, g))
    <3>1. fref[g] \in Int /\ exe'[m] = f
      BY <1>1, <1>5, <1>8 DEF MmShape
    <3>2. Uses(m, g) = (IF f = g THEN Num(vmas[m]) + 1 ELSE 0)
      BY <1>5 DEF Uses
    <3>3. Uses(m, g)' = (IF f = g THEN Num(vmas'[m]) + 1 ELSE 0)
      BY <3>1 DEF Uses, Num
    <3>4. QED
      BY <1>6, <2>1, <3>1, <3>2, <3>3
  <2>3. \A k \in Mm : k # m => exe'[k] = exe[k] /\ vmas'[k] = vmas[k]
    BY <1>7, <1>8
  <2>4. QED
    BY <1>7, <1>8, <2>2, <2>3, FilesMove DEF readers
<1>16. ModExact'
  <2>1. \A k \in Mm : HasModule(k)' <=> HasModule(k)
    BY <1>8 DEF HasModule, tasks
  <2>2. QED
    BY <1>8, <2>1, ModSame
<1>17. \A k \in Mm : MmOk(k)'
  BY <1>4, <1>7, <1>8 DEF MmInv, MmOk
<1>18. QED
  BY <1>1, <1>8, <1>9, <1>10, <1>11, <1>12, <1>13, <1>14, <1>15, <1>16, <1>17, SoloStep DEF tasks

\* Steps that change what a task keeps of an mm_struct, and not its memory.
LEMMA KeeperStep ==
    ASSUME MmInv, NEW t \in Task, pc[t] # "new",
           UNCHANGED <<stage, users, vmas, exe, binfmt, secret, refs, mm, new, kid,
                       cur, readers, mix>>,
           count' \in [Mm -> Int], CountExact',
           \A m \in Mm : stage[m] = "free" => count'[m] = count[m],
           pc' \in [Task -> PC], active' \in [Task -> Mm \cup {None}],
           oom' \in [Task -> Mm \cup {None}], priv' \in [Task -> BOOLEAN],
           \A u \in Task : u # t => /\ pc'[u] = pc[u] /\ active'[u] = active[u]
                                    /\ oom'[u] = oom[u] /\ priv'[u] = priv[u],
           TaskPart(t)', \A r \in Reader : ReaderOk(r)'
    PROVE  MmInv'
<1>1. MmShape /\ TaskShape /\ TaskPart(t)
  BY Shapes DEF MmInv
<1>2. MmShape' /\ TaskShape'
  BY <1>1 DEF MmShape, TaskShape, refs
<1>3. OthersRun(t, t)
  BY DEF OthersRun, Others
<1>4. ASSUME NEW u \in Others(t, t) PROVE Relied(u) /\ Unmet(u, t)
  <2>1. u \in Task /\ u # t /\ TaskPart(u)
    BY DEF Others, MmInv
  <2>2. Relied(u)
    BY DEF Relied
  <2>3. Unmet(u, t)
    BY <2>1 DEF Unmet, TaskPart, Alone, SwapOk
  <2>4. QED
    BY <2>2, <2>3
<1>5. UsersExact' /\ FilesExact' /\ NsExact'
  BY UsersSame, FilesSame, NsSame DEF readers, refs
<1>6. ModExact'
  <2>1. \A k \in Mm : HasModule(k)' <=> HasModule(k)
    BY DEF HasModule
  <2>2. QED
    BY <2>1, ModSame DEF refs
<1>7. \A k \in Mm : MmOk(k)'
  BY DEF MmInv, MmOk
<1>8. QED
  BY <1>2, <1>3, <1>4, <1>5, <1>6, <1>7, SoloStep

LEMMA MarkOomVictim ==
    ASSUME MmInv, NEW t \in Task, mark_oom_victim(t), mix' = mix
    PROVE  MmInv'
<1>1. TaskPart(t) /\ MmShape /\ TaskShape /\ pc[t] \notin {"none", "new"} /\ oom[t] = None
  BY Shapes DEF MmInv, mark_oom_victim
<1>2. PICK m \in Mm : m = mm[t]
  BY <1>1 DEF TaskShape, mark_oom_victim
<1>3. stage[m] = "live"
  BY <1>2, UsedLive
<1>4. /\ count' \in [Mm -> Int] /\ count'[m] = count[m] + 1
      /\ \A k \in Mm : k # m => count'[k] = count[k]
  BY <1>1, <1>2 DEF MmShape, mark_oom_victim, mmgrab
<1>5. oom' \in [Task -> Mm \cup {None}] /\ oom'[t] = m /\ \A u \in Task : u # t => oom'[u] = oom[u]
  BY <1>1, <1>2 DEF TaskShape, mark_oom_victim
<1>6. UNCHANGED <<stage, users, vmas, exe, binfmt, secret, refs,
                  pc, mm, active, new, kid, cur, priv, readers, mix>>
  BY DEF mark_oom_victim
<1>7. CountExact'
  <2>1. \A k \in Mm : count[k] \in Int /\ k # None /\ Whole(k)' = Whole(k) /\ Whole(k) \in Int
    BY <1>1, <1>6, MmAssumption DEF MmShape, Whole
  <2>2. ASSUME NEW k \in Mm
        PROVE  count'[k] = count[k] + ((Hit(active'[t], k) - Hit(active[t], k))
                                       + (Hit(oom'[t], k) - Hit(oom[t], k))
                                       + (Whole(k)' - Whole(k)))
    <3>1. Hit(active'[t], k) = Hit(active[t], k) /\ Hit(active[t], k) \in Int
      BY <1>6 DEF Hit
    <3>2. Hit(oom'[t], k) = (IF k = m THEN 1 ELSE 0) /\ Hit(oom[t], k) = 0
      BY <1>1, <1>5, <2>1 DEF Hit
    <3>3. QED
      BY <1>4, <2>1, <3>1, <3>2
  <2>3. QED
    BY <1>5, <1>6, <2>2, CountMove DEF readers
<1>8. TaskPart(t)'
  BY <1>1, <1>6 DEF TaskPart, TaskOk, KidOk, Alone, MakeOk, SwapOk, SecretOk, readers
<1>9. \A r \in Reader : ReaderOk(r)'
  BY <1>6 DEF MmInv, ReaderOk, readers
<1>10. \A k \in Mm : stage[k] = "free" => count'[k] = count[k]
  BY <1>3, <1>4
<1>11. /\ pc' \in [Task -> PC] /\ active' \in [Task -> Mm \cup {None}]
       /\ priv' \in [Task -> BOOLEAN]
       /\ \A u \in Task : u # t => /\ pc'[u] = pc[u] /\ active'[u] = active[u]
                                   /\ oom'[u] = oom[u] /\ priv'[u] = priv[u]
  BY <1>1, <1>5, <1>6 DEF TaskShape
<1>12. QED
  BY <1>1, <1>4, <1>5, <1>6, <1>7, <1>8, <1>9, <1>10, <1>11, KeeperStep

LEMMA SwitchAway ==
    ASSUME MmInv, NEW t \in Task, switch_away(t), mix' = mix
    PROVE  MmInv'
<1>1. TaskPart(t) /\ MmShape /\ TaskShape /\ pc[t] = "exiting"
  BY Shapes DEF MmInv, switch_away
<1>2. active[t] # None /\ mm[t] = None /\ new[t] = None /\ kid[t] = None
  BY <1>1 DEF TaskPart, TaskOk, HasMm, Making, Forking
<1>3. PICK m \in Mm : m = active[t]
  BY <1>1, <1>2 DEF TaskShape
<1>4. stage[m] # "free"
  BY <1>3, KeptNotFree
<1>5. /\ count' \in [Mm -> Int] /\ count'[m] = count[m] - 1
      /\ \A k \in Mm : k # m => count'[k] = count[k]
  BY <1>1, <1>3 DEF MmShape, switch_away, mmdrop
<1>6. /\ active' \in [Task -> Mm \cup {None}] /\ active'[t] = None
      /\ \A u \in Task : u # t => active'[u] = active[u]
      /\ pc' \in [Task -> PC] /\ pc'[t] = "dead" /\ \A u \in Task : u # t => pc'[u] = pc[u]
  BY <1>1 DEF TaskShape, switch_away, PC
<1>7. UNCHANGED <<stage, users, vmas, exe, binfmt, secret, refs, mm, new, kid, cur,
                  priv, oom, readers, mix>>
  BY DEF switch_away
<1>8. CountExact'
  <2>1. \A k \in Mm : count[k] \in Int /\ k # None /\ Whole(k)' = Whole(k) /\ Whole(k) \in Int
    BY <1>1, <1>7, MmAssumption DEF MmShape, Whole
  <2>2. ASSUME NEW k \in Mm
        PROVE  count'[k] = count[k] + ((Hit(active'[t], k) - Hit(active[t], k))
                                       + (Hit(oom'[t], k) - Hit(oom[t], k))
                                       + (Whole(k)' - Whole(k)))
    <3>1. Hit(oom'[t], k) = Hit(oom[t], k) /\ Hit(oom[t], k) \in Int
      BY <1>7 DEF Hit
    <3>2. Hit(active[t], k) = (IF k = m THEN 1 ELSE 0) /\ Hit(active'[t], k) = 0
      BY <1>3, <1>6, <2>1 DEF Hit
    <3>3. QED
      BY <1>5, <2>1, <3>1, <3>2
  <2>3. QED
    BY <1>6, <1>7, <2>2, CountMove DEF readers
<1>9. TaskPart(t)'
  <2>1. TaskOk(t)' /\ KidOk(t)'
    BY <1>2, <1>6, <1>7 DEF TaskOk, KidOk, HasMm, Making, Forking
  <2>2. Alone(t)' /\ MakeOk(t)' /\ SwapOk(t)' /\ SecretOk(t)'
    BY <1>2, <1>6, <1>7 DEF Alone, MakeOk, SwapOk, SecretOk
  <2>3. QED
    BY <2>1, <2>2 DEF TaskPart
<1>10. \A r \in Reader : ReaderOk(r)'
  BY <1>6, <1>7, ReadersSee
<1>11. \A k \in Mm : stage[k] = "free" => count'[k] = count[k]
  BY <1>4, <1>5
<1>12. /\ oom' \in [Task -> Mm \cup {None}] /\ priv' \in [Task -> BOOLEAN]
       /\ \A u \in Task : u # t => /\ pc'[u] = pc[u] /\ active'[u] = active[u]
                                   /\ oom'[u] = oom[u] /\ priv'[u] = priv[u]
  BY <1>1, <1>6, <1>7 DEF TaskShape
<1>13. QED
  BY <1>1, <1>5, <1>6, <1>7, <1>8, <1>9, <1>10, <1>11, <1>12, KeeperStep

LEMMA FreeSignalStruct ==
    ASSUME MmInv, NEW t \in Task, free_signal_struct(t), mix' = mix
    PROVE  MmInv'
<1>1. TaskPart(t) /\ MmShape /\ TaskShape /\ pc[t] = "dead"
  BY Shapes DEF MmInv, free_signal_struct
<1>2. active[t] = None /\ mm[t] = None /\ new[t] = None /\ kid[t] = None
  BY <1>1 DEF TaskPart, TaskOk, HasMm, Making, Forking
<1>3. PICK m \in Mm \cup {None} : m = oom[t]
  BY <1>1 DEF TaskShape
<1>4. m \in Mm => stage[m] # "free"
  BY <1>3, KeptNotFree
<1>5. /\ count' \in [Mm -> Int]
      /\ \A k \in Mm : count'[k] = (IF k = m THEN count[k] - 1 ELSE count[k])
  <2>1. \A k \in Mm : k # None
    BY MmAssumption
  <2>2. CASE m = None
    BY <1>1, <1>3, <2>1, <2>2 DEF MmShape, free_signal_struct
  <2>3. CASE m # None
    BY <1>1, <1>3, <2>1, <2>3 DEF MmShape, free_signal_struct, mmdrop
  <2>4. QED
    BY <2>2, <2>3
<1>6. /\ oom' \in [Task -> Mm \cup {None}] /\ oom'[t] = None
      /\ \A u \in Task : u # t => oom'[u] = oom[u]
      /\ pc' \in [Task -> PC] /\ pc'[t] = "none" /\ \A u \in Task : u # t => pc'[u] = pc[u]
      /\ priv' \in [Task -> BOOLEAN] /\ \A u \in Task : u # t => priv'[u] = priv[u]
  BY <1>1 DEF TaskShape, free_signal_struct, PC
<1>7. UNCHANGED <<stage, users, vmas, exe, binfmt, secret, refs, mm, active, new,
                  kid, cur, readers, mix>>
  BY DEF free_signal_struct
<1>8. CountExact'
  <2>1. \A k \in Mm : count[k] \in Int /\ k # None /\ Whole(k)' = Whole(k) /\ Whole(k) \in Int
    BY <1>1, <1>7, MmAssumption DEF MmShape, Whole
  <2>2. ASSUME NEW k \in Mm
        PROVE  count'[k] = count[k] + ((Hit(active'[t], k) - Hit(active[t], k))
                                       + (Hit(oom'[t], k) - Hit(oom[t], k))
                                       + (Whole(k)' - Whole(k)))
    <3>1. Hit(active'[t], k) = Hit(active[t], k) /\ Hit(active[t], k) \in Int
      BY <1>7 DEF Hit
    <3>2. Hit(oom[t], k) = (IF k = m THEN 1 ELSE 0) /\ Hit(oom'[t], k) = 0
      BY <1>3, <1>6, <2>1 DEF Hit
    <3>3. QED
      BY <1>5, <2>1, <3>1, <3>2
  <2>3. QED
    BY <1>6, <1>7, <2>2, CountMove DEF readers
<1>9. TaskPart(t)'
  <2>1. TaskOk(t)' /\ KidOk(t)'
    BY <1>2, <1>6, <1>7 DEF TaskOk, KidOk, HasMm, Making, Forking
  <2>2. Alone(t)' /\ MakeOk(t)' /\ SwapOk(t)' /\ SecretOk(t)'
    BY <1>2, <1>6, <1>7 DEF Alone, MakeOk, SwapOk, SecretOk
  <2>3. QED
    BY <2>1, <2>2 DEF TaskPart
<1>10. \A r \in Reader : ReaderOk(r)'
  <2>1. ASSUME NEW r \in Reader PROVE ReaderOk(r) /\ target[r] \in Task \cup {None} /\ target[r] # t
    BY Shapes DEF MmInv, ReaderShape, free_signal_struct, Referenced
  <2>2. ASSUME NEW r \in Reader, target[r] # None
        PROVE  pc'[target[r]] = pc[target[r]] /\ priv'[target[r]] = priv[target[r]]
    BY <1>6, <2>1, <2>2
  <2>3. ASSUME NEW r \in Reader, target[r] # None PROVE pc'[target[r]] \notin {"none", "new"}
    BY <2>1, <2>2, <2>3 DEF ReaderOk
  <2>4. ASSUME NEW r \in Reader, rpc[r] = "check"
        PROVE pc'[target[r]] # "swapped" /\ (priv[target[r]] => priv'[target[r]])
    BY <2>1, <2>2, <2>4 DEF ReaderOk
  <2>5. QED
    BY <1>7, <2>3, <2>4, ReadersStay
<1>11. \A k \in Mm : stage[k] = "free" => count'[k] = count[k]
  BY <1>4, <1>5
<1>12. /\ active' \in [Task -> Mm \cup {None}]
       /\ \A u \in Task : u # t => /\ pc'[u] = pc[u] /\ active'[u] = active[u]
                                   /\ oom'[u] = oom[u] /\ priv'[u] = priv[u]
  BY <1>1, <1>6, <1>7 DEF TaskShape
<1>13. QED
  BY <1>1, <1>5, <1>6, <1>7, <1>8, <1>9, <1>10, <1>11, <1>12, KeeperStep

LEMMA ExitMm ==
    ASSUME MmInv, NEW t \in Task, exit_mm(t), mix' = mix
    PROVE  MmInv'
<1>1. TaskPart(t) /\ MmShape /\ TaskShape /\ pc[t] = "run"
  BY Shapes DEF MmInv, exit_mm
<1>2. mm[t] # None /\ new[t] = None /\ kid[t] = None /\ active[t] = None
  BY <1>1 DEF TaskPart, TaskOk, HasMm, Making, Forking
<1>3. PICK m \in Mm : m = mm[t]
  BY <1>1, <1>2 DEF TaskShape
<1>4. stage[m] = "live" /\ users[m] > 0
  BY <1>3, UsedLive
<1>5. /\ count' \in [Mm -> Int] /\ count'[m] = count[m] + 1
      /\ \A k \in Mm : k # m => count'[k] = count[k]
  BY <1>1, <1>3 DEF MmShape, exit_mm, mmgrab
<1>6. /\ active' \in [Task -> Mm \cup {None}] /\ active'[t] = m
      /\ \A u \in Task : u # t => active'[u] = active[u]
      /\ mm' \in [Task -> Mm \cup {None}] /\ mm'[t] = None
      /\ \A u \in Task : u # t => mm'[u] = mm[u]
      /\ pc' \in [Task -> PC] /\ pc'[t] = "exiting" /\ \A u \in Task : u # t => pc'[u] = pc[u]
  BY <1>1, <1>3 DEF TaskShape, exit_mm, PC
<1>7. UNCHANGED <<vmas, exe, binfmt, secret, refs, new, kid, cur, priv, oom, readers, mix>>
  BY DEF exit_mm
<1>8. /\ \A k \in Mm : MmOk(k)'
      /\ users' \in [Mm -> Int] /\ stage' \in [Mm -> Stage]
      /\ users'[m] = users[m] - 1 /\ \A k \in Mm : k # m => users'[k] = users[k]
      /\ \A k \in Mm : /\ stage'[k] \in {"free", "gone"} <=> stage[k] \in {"free", "gone"}
                       /\ stage'[k] = "free" <=> stage[k] = "free"
                       /\ stage'[k] \in {"live", "unmap", "exe"}
                            <=> stage[k] \in {"live", "unmap", "exe"}
  <2>1. mmput(m)
    BY <1>3 DEF exit_mm
  <2>2. QED
    BY <1>4, <1>5, <1>7, <2>1, PutOk
<1>9. MmShape' /\ TaskShape'
  BY <1>1, <1>5, <1>6, <1>7, <1>8 DEF MmShape, TaskShape, refs
<1>10. OthersRun(t, t)
  BY <1>6, <1>7 DEF OthersRun, Others
<1>11. ASSUME NEW u \in Others(t, t) PROVE Relied(u) /\ Unmet(u, t)
  <2>1. Relied(u)
    BY <1>7 DEF Relied
  <2>2. QED
    BY <1>2, <1>6, <1>7, <2>1, UnmetSame
<1>12. TaskPart(t)'
  <2>1. TaskOk(t)' /\ KidOk(t)'
    BY <1>2, <1>6, <1>7, MmAssumption DEF TaskOk, KidOk, HasMm, Making, Forking
  <2>2. Alone(t)' /\ MakeOk(t)' /\ SwapOk(t)' /\ SecretOk(t)'
    BY <1>2, <1>6, <1>7 DEF Alone, MakeOk, SwapOk, SecretOk
  <2>3. QED
    BY <2>1, <2>2 DEF TaskPart
<1>13. \A r \in Reader : ReaderOk(r)'
  BY <1>6, <1>7, ReadersSee
<1>14. UsersExact'
  <2>1. \A k \in Mm : users[k] \in Int /\ k # None
    BY <1>1, MmAssumption DEF MmShape
  <2>2. \A k \in Mm : users'[k] = users[k] + ((Hit(mm'[t], k) - Hit(mm[t], k))
                                              + (Hit(new'[t], k) - Hit(new[t], k)))
    BY <1>3, <1>6, <1>7, <1>8, <2>1 DEF Hit
  <2>3. QED
    BY <1>6, <1>7, <2>2, UsersMove DEF readers
<1>15. CountExact'
  <2>1. \A k \in Mm : count[k] \in Int /\ k # None /\ Whole(k)' = Whole(k) /\ Whole(k) \in Int
    BY <1>1, <1>8, MmAssumption DEF MmShape, Whole
  <2>2. ASSUME NEW k \in Mm
        PROVE  count'[k] = count[k] + ((Hit(active'[t], k) - Hit(active[t], k))
                                       + (Hit(oom'[t], k) - Hit(oom[t], k))
                                       + (Whole(k)' - Whole(k)))
    <3>1. Hit(oom'[t], k) = Hit(oom[t], k) /\ Hit(oom[t], k) \in Int
      BY <1>7 DEF Hit
    <3>2. Hit(active'[t], k) = (IF k = m THEN 1 ELSE 0) /\ Hit(active[t], k) = 0
      BY <1>2, <1>6, <2>1 DEF Hit
    <3>3. QED
      BY <1>5, <2>1, <3>1, <3>2
  <2>3. QED
    BY <1>6, <1>7, <2>2, CountMove DEF readers
<1>16. FilesExact' /\ NsExact'
  BY <1>7, <1>8, FilesSame, NsSame DEF readers, refs
<1>17. ModExact'
  <2>1. ASSUME NEW k \in Mm PROVE HasModule(k)' <=> HasModule(k)
    BY <1>7, <1>8 DEF HasModule
  <2>2. QED
    BY <1>7, <2>1, ModSame DEF refs
<1>18. QED
  BY <1>1, <1>7, <1>8, <1>9, <1>10, <1>11, <1>12, <1>13, <1>14, <1>15, <1>16, <1>17, SoloStep

(***************************************************************************)
(* A fork begins.                                                          *)
(***************************************************************************)
\* A slot that is free for a task is nobody's.
LEMMA FreshTask ==
    ASSUME MmInv, NEW c \in Task, pc[c] = "none"
    PROVE  /\ mm[c] = None /\ new[c] = None /\ active[c] = None /\ kid[c] = None /\ oom[c] = None
           /\ \A u \in Task : kid[u] # c
           /\ \A r \in Reader : target[r] # c
<1>1. TaskOk(c) /\ c # None
  BY MmAssumption DEF MmInv, TaskPart
<1>2. mm[c] = None /\ new[c] = None /\ active[c] = None /\ kid[c] = None /\ oom[c] = None
  BY <1>1 DEF TaskOk, Making, Forking
<1>3. ASSUME NEW u \in Task PROVE kid[u] # c
  <2>1. KidOk(u)
    BY DEF MmInv, TaskPart
  <2>2. QED
    BY <1>1, <2>1 DEF KidOk
<1>4. ASSUME NEW r \in Reader PROVE target[r] # c
  <2>1. ReaderOk(r)
    BY DEF MmInv
  <2>2. QED
    BY <1>1, <2>1 DEF ReaderOk
<1>5. QED
  BY <1>2, <1>3, <1>4

\* Nor is one that is free for an mm.
LEMMA FreshMm ==
    ASSUME MmInv, NEW m \in Mm, stage[m] # "live"
    PROVE  /\ users[m] = 0 /\ m # None
           /\ \A u \in Task : mm[u] # m /\ new[u] # m
           /\ \A r \in Reader : held[r] # m
           /\ stage[m] = "free" => /\ count[m] = 0 /\ vmas[m] = {} /\ exe[m] = None
                                   /\ \A r \in Reader : fd[r] # m
<1>1. MmOk(m) /\ m # None
  BY MmAssumption DEF MmInv
<1>2. /\ \A u \in Task : mm[u] # m /\ new[u] # m
      /\ \A r \in Reader : held[r] # m
  BY UsedLive
<1>3. stage[m] = "free" => \A r \in Reader : fd[r] # m
  BY KeptNotFree
<1>4. QED
  BY <1>1, <1>2, <1>3 DEF MmOk

LEMMA ShareMm ==
    ASSUME MmInv, NEW t \in Task, share_mm(t), mix' = mix
    PROVE  MmInv'
<1>1. TaskPart(t) /\ MmShape /\ TaskShape /\ pc[t] = "run"
  BY Shapes DEF MmInv, share_mm
<1>2. PICK c \in Task : c = NewTask /\ pc[c] = "none"
  BY DEF share_mm, NewTask
<1>3. /\ mm[c] = None /\ new[c] = None /\ active[c] = None /\ kid[c] = None /\ oom[c] = None
      /\ c # None /\ c # t /\ \A u \in Task : kid[u] # c
      /\ \A r \in Reader : target[r] # c
  BY <1>1, <1>2, FreshTask, MmAssumption
<1>4. mm[t] # None /\ new[t] = None /\ kid[t] = None /\ active[t] = None
  BY <1>1 DEF TaskPart, TaskOk, HasMm, Making, Forking
<1>5. PICK m \in Mm : m = mm[t]
  BY <1>1, <1>4 DEF TaskShape
<1>6. stage[m] = "live" /\ m # None /\ \A u \in Task : new[u] # m
  BY <1>4, <1>5, TaskMm
<1>7. /\ pc'[t] = "kid" /\ pc'[c] = "new" /\ \A u \in Others(t, c) : pc'[u] = pc[u]
      /\ kid'[t] = c /\ \A u \in Task : u # t => kid'[u] = kid[u]
      /\ mm'[c] = m /\ \A u \in Task : u # c => mm'[u] = mm[u]
      /\ priv'[c] = priv[t] /\ \A u \in Task : u # c => priv'[u] = priv[u]
      /\ pc' \in [Task -> PC] /\ kid' \in [Task -> Task \cup {None}]
      /\ mm' \in [Task -> Mm \cup {None}] /\ priv' \in [Task -> BOOLEAN]
  <2>1. /\ pc' = [pc EXCEPT ![t] = "kid", ![c] = "new"] /\ kid' = [kid EXCEPT ![t] = c]
        /\ priv' = [priv EXCEPT ![c] = priv[t]] /\ mm' = [mm EXCEPT ![c] = m]
    BY <1>2, <1>5 DEF share_mm, StartChild
  <2>2. /\ pc'[t] = "kid" /\ pc'[c] = "new" /\ \A u \in Others(t, c) : pc'[u] = pc[u]
        /\ pc' \in [Task -> PC]
    BY <1>1, <1>3, <2>1 DEF TaskShape, Others, PC
  <2>3. /\ priv'[c] = priv[t] /\ \A u \in Task : u # c => priv'[u] = priv[u]
        /\ priv' \in [Task -> BOOLEAN]
    BY <1>1, <2>1 DEF TaskShape
  <2>4. QED
    BY <1>1, <2>1, <2>2, <2>3 DEF TaskShape
<1>8. UNCHANGED <<count, vmas, exe, binfmt, secret, refs, active, new, cur, oom, readers, mix>>
  BY DEF share_mm
<1>9. /\ \A k \in Mm : MmOk(k)' /\ stage'[k] = stage[k]
      /\ users' \in [Mm -> Int] /\ stage' \in [Mm -> Stage]
      /\ users'[m] = users[m] + 1 /\ \A k \in Mm : k # m => users'[k] = users[k]
  <2>1. mmget(m)
    BY <1>5 DEF share_mm
  <2>2. QED
    BY <1>6, <1>8, <2>1, GetOk
<1>10. MmShape' /\ TaskShape'
  BY <1>1, <1>7, <1>8, <1>9 DEF MmShape, TaskShape, refs
<1>11. OthersRun(t, c)
  BY <1>7, <1>8 DEF OthersRun, Others
<1>12. ASSUME NEW u \in Others(t, c)
       PROVE  Relied(u) /\ Unmet(u, t) /\ Unmet(u, c) /\ KidApart(u, t) /\ KidApart(u, c)
  <2>1. u \in Task /\ u # t /\ u # c /\ TaskPart(u)
    BY DEF Others, MmInv
  <2>2. Relied(u)
    BY <1>8 DEF Relied
  <2>3. pc[u] = "swapped" => mm[u] # m
    BY <1>5, <2>1 DEF TaskPart, SwapOk
  <2>4. Unmet(u, t) /\ Unmet(u, c)
    BY <1>3, <1>4, <1>5, <1>6, <1>7, <1>8, <2>1, <2>3 DEF Unmet
  <2>5. kid[u] # t
    BY <1>1, <2>1, MmAssumption DEF TaskPart, KidOk
  <2>6. KidApart(u, t) /\ KidApart(u, c)
    BY <1>3, <1>7, <2>1, <2>5 DEF KidApart
  <2>7. QED
    BY <2>2, <2>4, <2>6
<1>13. TaskPart(t)'
  <2>0. mm'[t] = m /\ priv'[t] = priv[t]
    BY <1>3, <1>5, <1>7
  <2>1. TaskOk(t)'
    BY <1>1, <1>3, <1>4, <1>6, <1>7, <1>8, <2>0 DEF TaskPart, TaskOk, HasMm, Making, Forking
  <2>2. KidOk(t)'
    BY <1>3, <1>6, <1>7 DEF KidOk
  <2>3. Alone(t)' /\ MakeOk(t)' /\ SwapOk(t)'
    BY <1>4, <1>7, <1>8 DEF Alone, MakeOk, SwapOk
  <2>4. SecretOk(t)'
    BY <1>1, <1>5, <1>8, <2>0 DEF TaskPart, SecretOk
  <2>5. QED
    BY <2>1, <2>2, <2>3, <2>4 DEF TaskPart
<1>14. TaskPart(c)'
  <2>0. kid'[c] = None
    BY <1>3, <1>7
  <2>1. TaskOk(c)' /\ KidOk(c)'
    BY <1>3, <1>7, <1>8, <2>0 DEF TaskOk, KidOk, HasMm, Making, Forking
  <2>2. Alone(c)' /\ MakeOk(c)' /\ SwapOk(c)'
    BY <1>3, <1>7, <1>8 DEF Alone, MakeOk, SwapOk
  <2>3. secret[m] => priv[t]
    BY <1>1, <1>4, <1>5 DEF TaskPart, SecretOk
  <2>4. SecretOk(c)'
    BY <1>7, <1>8, <2>3 DEF SecretOk
  <2>5. QED
    BY <2>1, <2>2, <2>4 DEF TaskPart
<1>15. \A r \in Reader : ReaderOk(r)'
  <2>1. \A u \in Others(t, c) : pc'[u] = pc[u] /\ priv'[u] = priv[u]
    BY <1>7 DEF Others
  <2>2. priv'[t] = priv[t]
    BY <1>3, <1>7
  <2>3. QED
    BY <1>3, <1>7, <1>8, <2>1, <2>2, ReadersSeeFork
<1>16. UsersExact'
  <2>1. \A k \in Mm : users[k] \in Int /\ k # None
    BY <1>1, MmAssumption DEF MmShape
  <2>2. \A k \in Mm : users'[k] = users[k] + ((Hit(mm'[c], k) - Hit(mm[c], k))
                                              + (Hit(new'[t], k) - Hit(new[t], k)))
    BY <1>3, <1>7, <1>8, <1>9, <2>1 DEF Hit
  <2>3. QED
    BY <1>7, <1>8, <2>2, UsersMove DEF readers
<1>17. CountExact' /\ FilesExact' /\ NsExact'
  BY <1>8, <1>9, CountSame, FilesSame, NsSame DEF readers, refs
<1>18. ModExact'
  <2>1. ASSUME NEW k \in Mm PROVE HasModule(k)' <=> HasModule(k)
    BY <1>8, <1>9 DEF HasModule
  <2>2. QED
    BY <1>8, <2>1, ModSame DEF refs
<1>19. QED
  BY <1>8, <1>9, <1>10, <1>11, <1>12, <1>13, <1>14, <1>15, <1>16, <1>17, <1>18, TaskStep

\* A task gets a new mm_struct to fill.
LEMMA NewMmOk ==
    ASSUME MmInv, NEW t \in Task, new[t] = None, NEW m \in Mm, stage[m] = "free",
           NEW s \in BOOLEAN, NEW f \in File \cup {None}, NEW b \in BOOLEAN, mm_init(m, s, f, b),
           new'[t] = m, \A u \in Task : u # t => new'[u] = new[u],
           UNCHANGED <<vmas, modref, mm, active, oom, readers>>
    PROVE  /\ stage' \in [Mm -> Stage] /\ users' \in [Mm -> Int] /\ count' \in [Mm -> Int]
           /\ exe' \in [Mm -> File \cup {None}] /\ exe'[m] = f
           /\ binfmt' \in [Mm -> BOOLEAN] /\ binfmt'[m] = b
           /\ secret' \in [Mm -> BOOLEAN] /\ secret'[m] = s
           /\ \A k \in Mm : k # m => /\ exe'[k] = exe[k] /\ binfmt'[k] = binfmt[k]
                                     /\ secret'[k] = secret[k]
           /\ UsersExact' /\ CountExact' /\ ModExact' /\ NsExact' /\ \A k \in Mm : MmOk(k)'
<1>1. MmShape /\ TaskShape
  BY Shapes
<1>2. /\ stage' \in [Mm -> Stage] /\ stage'[m] = "live"
      /\ \A k \in Mm : k # m => stage'[k] = stage[k]
      /\ users' \in [Mm -> Int] /\ users'[m] = 1 /\ \A k \in Mm : k # m => users'[k] = users[k]
      /\ count' \in [Mm -> Int] /\ count'[m] = 1 /\ \A k \in Mm : k # m => count'[k] = count[k]
  BY <1>1 DEF MmShape, mm_init, Stage
<1>3. /\ exe' \in [Mm -> File \cup {None}] /\ exe'[m] = f /\ \A k \in Mm : k # m => exe'[k] = exe[k]
  BY <1>1 DEF MmShape, mm_init
<1>4. /\ binfmt' \in [Mm -> BOOLEAN] /\ binfmt'[m] = b
      /\ \A k \in Mm : k # m => binfmt'[k] = binfmt[k]
      /\ secret' \in [Mm -> BOOLEAN] /\ secret'[m] = s
      /\ \A k \in Mm : k # m => secret'[k] = secret[k]
  BY <1>1 DEF MmShape, mm_init
<1>5. new'[t] = m /\ \A u \in Task : u # t => new'[u] = new[u]
  OBVIOUS
<1>6. users[m] = 0 /\ count[m] = 0 /\ m # None /\ vmas[m] = {}
  BY FreshMm
<1>7. UsersExact'
  <2>1. \A k \in Mm : users[k] \in Int /\ k # None
    BY <1>1, MmAssumption DEF MmShape
  <2>2. ASSUME NEW k \in Mm
        PROVE  users'[k] = users[k] + ((Hit(mm'[t], k) - Hit(mm[t], k))
                                       + (Hit(new'[t], k) - Hit(new[t], k)))
    <3>1. Hit(mm'[t], k) = Hit(mm[t], k) /\ Hit(mm[t], k) \in Int
      BY DEF Hit
    <3>2. Hit(new'[t], k) = (IF k = m THEN 1 ELSE 0) /\ Hit(new[t], k) = 0
      BY <1>5, <2>1 DEF Hit
    <3>3. QED
      BY <1>2, <1>6, <2>1, <3>1, <3>2
  <2>3. \A u \in Task : u # t => mm'[u] = mm[u]
    OBVIOUS
  <2>4. held' = held
    BY DEF readers
  <2>5. QED
    BY <1>5, <2>2, <2>3, <2>4, UsersMove
<1>8. CountExact'
  <2>1. ASSUME NEW k \in Mm
        PROVE  count'[k] = count[k] + ((Hit(active'[t], k) - Hit(active[t], k))
                                       + (Hit(oom'[t], k) - Hit(oom[t], k))
                                       + (Whole(k)' - Whole(k)))
    <3>1. /\ Hit(oom'[t], k) = Hit(oom[t], k) /\ Hit(oom[t], k) \in Int
          /\ Hit(active'[t], k) = Hit(active[t], k) /\ Hit(active[t], k) \in Int
      BY DEF Hit
    <3>2. count[k] \in Int
      BY <1>1 DEF MmShape
    <3>3. CASE k = m
      <4>1. Whole(m)' = 1 /\ Whole(m) = 0
        BY <1>2 DEF Whole
      <4>2. QED
        BY <1>2, <1>6, <3>1, <3>3, <4>1
    <3>4. CASE k # m
      <4>1. Whole(k)' = Whole(k) /\ Whole(k) \in Int
        BY <1>2, <3>4 DEF Whole
      <4>2. QED
        BY <1>2, <3>1, <3>2, <3>4, <4>1
    <3>5. QED
      BY <3>3, <3>4
  <2>2. QED
    BY <2>1, CountMove DEF readers
<1>9. ModExact'
  <2>1. ASSUME NEW k \in Mm PROVE HasModule(k)' <=> HasModule(k)
    <3>1. CASE k = m
      <4>1. ~HasModule(m)'
        BY <1>5 DEF HasModule
      <4>2. ~HasModule(m)
        BY DEF HasModule
      <4>3. QED
        BY <3>1, <4>1, <4>2
    <3>2. CASE k # m
      <4>1. k # None
        BY MmAssumption
      <4>2. (\A u \in Task : new'[u] # k) <=> (\A u \in Task : new[u] # k)
        BY <1>5, <3>2, <4>1
      <4>3. binfmt'[k] = binfmt[k] /\ stage'[k] = stage[k]
        BY <1>2, <1>4, <3>2
      <4>4. QED
        BY <4>2, <4>3 DEF HasModule
    <3>3. QED
      BY <3>1, <3>2
  <2>2. QED
    BY <2>1, ModSame
<1>10. NsExact'
  <2>1. \A k \in Mm : k # m => (stage'[k] = "free" <=> stage[k] = "free")
    BY <1>2
  <2>2. /\ Num(Alloc) \in Nat /\ Num(Alloc') \in Nat
        /\ Num(Alloc') = Num(Alloc) + ((IF stage'[m] # "free" THEN 1 ELSE 0)
                                       - (IF stage[m] # "free" THEN 1 ELSE 0))
    BY <2>1, NsShift
  <2>3. nsref = Num(Alloc) /\ nsref' = nsref + 1
    BY Shapes DEF mm_init
  <2>4. nsref' = Num(Alloc')
    BY <1>2, <2>2, <2>3
  <2>5. QED
    BY <2>4 DEF NsExact, Num
<1>11. ASSUME NEW k \in Mm PROVE MmOk(k)'
  <2>1. CASE k = m
    BY <1>2, <2>1 DEF MmOk
  <2>2. CASE k # m
    BY <1>2, <1>3, <2>2 DEF MmInv, MmOk
  <2>3. QED
    BY <2>1, <2>2
<1>12. QED
  BY <1>2, <1>3, <1>4, <1>5, <1>7, <1>8, <1>9, <1>10, <1>11

\* A free mm is none that others rely on.
LEMMA FreshRelied ==
    ASSUME MmInv, NEW m \in Mm, stage[m] = "free", NEW u \in Task, vmas' = vmas,
           \A k \in Mm : k # m => /\ exe'[k] = exe[k] /\ binfmt'[k] = binfmt[k]
                                  /\ secret'[k] = secret[k]
    PROVE  Relied(u)
<1>1. TaskShape /\ mm[u] # m /\ new[u] # m /\ TaskPart(u)
  BY Shapes, FreshMm DEF MmInv
<1>2. (mm[u] # None => mm[u] \in Mm) /\ (new[u] # None => new[u] \in Mm)
  BY <1>1 DEF TaskShape
<1>3. pc[u] \in {"copy", "swapped"} => mm[u] # None
  BY <1>1 DEF TaskPart, TaskOk, HasMm
<1>4. QED
  BY <1>1, <1>2, <1>3 DEF Relied

LEMMA RoomMm ==
    ASSUME MmInv, HasRoom
    PROVE  NewMm \in Mm /\ stage[NewMm] = "free"
<1>1. \E m \in Mm : stage[m] = "free"
  BY DEF HasRoom, Alloc
<1>2. QED
  BY <1>1 DEF NewMm

\* The files, when a new mm runs f.
LEMMA NewMmFiles ==
    ASSUME MmInv, NEW m \in Mm, stage[m] = "free", NEW f \in File \cup {None}, exe'[m] = f,
           \A k \in Mm : k # m => exe'[k] = exe[k], UNCHANGED <<vmas, link>>,
           \A g \in File : fref'[g] = fref[g] + (IF g = f THEN 1 ELSE 0)
    PROVE  FilesExact'
<1>1. MmShape
  BY Shapes
<1>2. vmas[m] = {} /\ exe[m] = None
  BY FreshMm
<1>3. ASSUME NEW g \in File PROVE fref'[g] = fref[g] + (Uses(m, g)' - Uses(m, g))
  <2>1. Num({}) = 0 /\ fref[g] \in Int /\ g # None
    BY <1>1, MmAssumption, FS_EmptySet DEF Num, MmShape
  <2>2. Uses(m, g) = 0
    BY <1>2, <2>1 DEF Uses
  <2>3. Uses(m, g)' = (IF f = g THEN 1 ELSE 0)
    BY <1>2, <2>1 DEF Uses, Num
  <2>4. QED
    BY <2>1, <2>2, <2>3
<1>4. vmas' \in [Mm -> SUBSET Vma] /\ \A k \in Mm : k # m => exe'[k] = exe[k] /\ vmas'[k] = vmas[k]
  BY <1>1 DEF MmShape
<1>5. QED
  BY <1>3, <1>4, FilesMove

LEMMA DupMm ==
    ASSUME MmInv, NEW t \in Task, dup_mm(t), mix' = mix
    PROVE  MmInv'
<1>1. TaskPart(t) /\ MmShape /\ TaskShape /\ pc[t] = "run"
  BY Shapes DEF MmInv, dup_mm
<1>2. PICK c \in Task : c = NewTask /\ pc[c] = "none"
  BY DEF dup_mm, NewTask
<1>3. /\ mm[c] = None /\ new[c] = None /\ active[c] = None /\ kid[c] = None /\ oom[c] = None
      /\ c # None /\ c # t /\ \A u \in Task : kid[u] # c
      /\ \A r \in Reader : target[r] # c
  BY <1>1, <1>2, FreshTask, MmAssumption
<1>4. mm[t] # None /\ new[t] = None /\ kid[t] = None /\ active[t] = None /\ mm[t] \in Mm
  BY <1>1 DEF TaskPart, TaskOk, HasMm, Making, Forking, TaskShape
<1>5. PICK m \in Mm : m = NewMm /\ stage[m] = "free"
  BY RoomMm DEF dup_mm
<1>6. /\ m # None /\ vmas[m] = {} /\ exe[m] = None
      /\ \A u \in Task : mm[u] # m /\ new[u] # m
      /\ \A r \in Reader : held[r] # m /\ fd[r] # m
  BY <1>5, FreshMm
<1>7. PICK s \in BOOLEAN, b \in BOOLEAN : s = secret[mm[t]] /\ b = binfmt[mm[t]]
  BY <1>1, <1>4 DEF MmShape
<1>8. /\ UNCHANGED <<vmas, fref, modref, mm, active, cur, oom, readers, mix>>
      /\ new' \in [Task -> Mm \cup {None}] /\ new'[t] = m
      /\ \A u \in Task : u # t => new'[u] = new[u]
  BY <1>1, <1>5 DEF dup_mm, TaskShape
<1>9. /\ stage' \in [Mm -> Stage] /\ users' \in [Mm -> Int] /\ count' \in [Mm -> Int]
      /\ exe' \in [Mm -> File \cup {None}] /\ exe'[m] = None
      /\ binfmt' \in [Mm -> BOOLEAN] /\ binfmt'[m] = b
      /\ secret' \in [Mm -> BOOLEAN] /\ secret'[m] = s
      /\ \A k \in Mm : k # m => /\ exe'[k] = exe[k] /\ binfmt'[k] = binfmt[k]
                                /\ secret'[k] = secret[k]
      /\ UsersExact' /\ CountExact' /\ ModExact' /\ NsExact' /\ \A k \in Mm : MmOk(k)'
  <2>1. mm_init(m, s, None, b)
    BY <1>5, <1>7 DEF dup_mm
  <2>2. UNCHANGED <<vmas, modref, mm, active, oom, readers>>
    BY <1>8
  <2>3. None \in File \cup {None}
    OBVIOUS
  <2>4. QED
    BY <1>4, <1>5, <1>8, <2>1, <2>2, <2>3, NewMmOk
<1>10. /\ pc'[t] = "lock" /\ pc'[c] = "new" /\ \A u \in Others(t, c) : pc'[u] = pc[u]
       /\ kid'[t] = c /\ \A u \in Task : u # t => kid'[u] = kid[u]
       /\ priv'[c] = priv[t] /\ \A u \in Task : u # c => priv'[u] = priv[u]
       /\ pc' \in [Task -> PC] /\ kid' \in [Task -> Task \cup {None}] /\ priv' \in [Task -> BOOLEAN]
  <2>1. /\ pc' = [pc EXCEPT ![t] = "lock", ![c] = "new"] /\ kid' = [kid EXCEPT ![t] = c]
        /\ priv' = [priv EXCEPT ![c] = priv[t]]
    BY <1>2 DEF dup_mm, StartChild
  <2>2. /\ pc'[t] = "lock" /\ pc'[c] = "new" /\ \A u \in Others(t, c) : pc'[u] = pc[u]
        /\ pc' \in [Task -> PC]
    BY <1>1, <1>3, <2>1 DEF TaskShape, Others, PC
  <2>3. /\ priv'[c] = priv[t] /\ \A u \in Task : u # c => priv'[u] = priv[u]
        /\ priv' \in [Task -> BOOLEAN]
    BY <1>1, <2>1 DEF TaskShape
  <2>4. QED
    BY <1>1, <2>1, <2>2, <2>3 DEF TaskShape
<1>11. MmShape' /\ TaskShape'
  BY <1>1, <1>8, <1>9, <1>10 DEF MmShape, TaskShape
<1>12. OthersRun(t, c)
  BY <1>8, <1>9, <1>10 DEF OthersRun, Others
<1>13. ASSUME NEW u \in Others(t, c)
       PROVE  Relied(u) /\ Unmet(u, t) /\ Unmet(u, c) /\ KidApart(u, t) /\ KidApart(u, c)
  <2>1. u \in Task /\ u # t /\ u # c /\ TaskPart(u)
    BY DEF Others, MmInv
  <2>2. Relied(u)
    BY <1>5, <1>8, <1>9, <2>1, FreshRelied
  <2>3. new'[c] = None
    BY <1>3, <1>8
  <2>4. Unmet(u, t) /\ Unmet(u, c)
    BY <1>6, <1>8, <1>9, <2>1, <2>3 DEF Unmet, TaskPart, Alone, SwapOk
  <2>5. kid[u] # t
    BY <1>1, <2>1, MmAssumption DEF TaskPart, KidOk
  <2>6. KidApart(u, t) /\ KidApart(u, c)
    BY <1>3, <1>10, <2>1, <2>5 DEF KidApart
  <2>7. QED
    BY <2>2, <2>4, <2>6
<1>14. TaskPart(t)'
  <2>0. priv'[t] = priv[t] /\ secret'[mm[t]] = secret[mm[t]] /\ (secret[mm[t]] => priv[t])
    BY <1>1, <1>3, <1>4, <1>6, <1>9, <1>10 DEF TaskPart, SecretOk
  <2>1. TaskOk(t)'
    BY <1>1, <1>3, <1>4, <1>6, <1>8, <1>9, <1>10 DEF TaskPart, TaskOk, HasMm, Making, Forking
  <2>2. KidOk(t)'
    BY <1>3, <1>7, <1>8, <1>9, <1>10, <2>0 DEF KidOk
  <2>3. Alone(t)'
    BY <1>6, <1>8, <1>9 DEF Alone, readers
  <2>4. MakeOk(t)' /\ SwapOk(t)'
    BY <1>6, <1>8, <1>9, <1>10 DEF MakeOk, SwapOk
  <2>5. SecretOk(t)'
    BY <1>8, <2>0 DEF SecretOk
  <2>6. QED
    BY <2>1, <2>2, <2>3, <2>4, <2>5 DEF TaskPart
<1>15. TaskPart(c)'
  <2>0. kid'[c] = None /\ new'[c] = None /\ mm'[c] = None
    BY <1>3, <1>8, <1>9, <1>10
  <2>1. TaskOk(c)' /\ KidOk(c)'
    BY <1>3, <1>8, <1>10, <2>0 DEF TaskOk, KidOk, HasMm, Making, Forking
  <2>2. Alone(c)' /\ MakeOk(c)' /\ SwapOk(c)' /\ SecretOk(c)'
    BY <1>10, <2>0 DEF Alone, MakeOk, SwapOk, SecretOk
  <2>3. QED
    BY <2>1, <2>2 DEF TaskPart
<1>16. \A r \in Reader : ReaderOk(r)'
  <2>1. ASSUME NEW r \in Reader
        PROVE  /\ ReaderOk(r) /\ target[r] \in Task \cup {None}
               /\ held[r] \in Mm \cup {None} /\ fd[r] \in Mm \cup {None}
    BY Shapes DEF MmInv, ReaderShape
  <2>2. ASSUME NEW r \in Reader, target[r] # None
        PROVE  /\ pc'[target[r]] = pc[target[r]] \/ pc'[target[r]] = "lock"
               /\ priv'[target[r]] = priv[target[r]]
    <3>1. target[r] \in Task /\ target[r] # c
      BY <1>3, <2>1, <2>2
    <3>2. QED
      BY <1>10, <3>1 DEF Others
  <2>3. ASSUME NEW r \in Reader, target[r] # None PROVE pc'[target[r]] \notin {"none", "new"}
    BY <2>1, <2>2, <2>3 DEF ReaderOk
  <2>4. ASSUME NEW r \in Reader, rpc[r] = "check"
        PROVE pc'[target[r]] # "swapped" /\ (priv[target[r]] => priv'[target[r]])
    BY <2>1, <2>2, <2>4 DEF ReaderOk
  <2>5. ASSUME NEW r \in Reader
        PROVE  /\ held[r] # None => secret'[held[r]] = secret[held[r]]
               /\ fd[r] # None => secret'[fd[r]] = secret[fd[r]]
    BY <1>6, <1>9, <2>1
  <2>6. QED
    BY <1>8, <2>3, <2>4, <2>5, ReadersStay
<1>17. FilesExact'
  <2>1. \A g \in File : fref'[g] = fref[g] + (IF g = None THEN 1 ELSE 0)
    <3>1. \A g \in File : fref[g] \in Int /\ g # None
      BY <1>1, MmAssumption DEF MmShape
    <3>2. QED
      BY <1>8, <3>1
  <2>2. None \in File \cup {None} /\ UNCHANGED <<vmas, link>>
    BY <1>8 DEF readers
  <2>3. QED
    BY <1>5, <1>9, <2>1, <2>2, NewMmFiles
<1>18. QED
  BY <1>8, <1>9, <1>11, <1>12, <1>13, <1>14, <1>15, <1>16, <1>17, TaskStep

LEMMA ExecAlloc ==
    ASSUME MmInv, NEW t \in Task, NEW suid \in BOOLEAN, exec_alloc(t, suid), mix' = mix
    PROVE  MmInv'
<1>1. TaskPart(t) /\ MmShape /\ TaskShape /\ pc[t] = "run"
  BY Shapes DEF MmInv, exec_alloc
<1>2. PICK f \in File : f = NewFile
  BY DEF exec_alloc, NewFile
<1>4. mm[t] # None /\ new[t] = None /\ kid[t] = None /\ active[t] = None /\ mm[t] \in Mm
  BY <1>1 DEF TaskPart, TaskOk, HasMm, Making, Forking, TaskShape
<1>5. PICK m \in Mm : m = NewMm /\ stage[m] = "free"
  BY RoomMm DEF exec_alloc
<1>6. /\ m # None /\ vmas[m] = {} /\ exe[m] = None
      /\ \A u \in Task : mm[u] # m /\ new[u] # m
      /\ \A r \in Reader : held[r] # m /\ fd[r] # m
  BY <1>5, FreshMm
<1>8. /\ UNCHANGED <<vmas, modref, mm, active, kid, cur, priv, oom, readers, mix>>
      /\ new' \in [Task -> Mm \cup {None}] /\ new'[t] = m
      /\ \A u \in Task : u # t => new'[u] = new[u]
  BY <1>1, <1>5 DEF exec_alloc, TaskShape
<1>9. /\ stage' \in [Mm -> Stage] /\ users' \in [Mm -> Int] /\ count' \in [Mm -> Int]
      /\ exe' \in [Mm -> File \cup {None}] /\ exe'[m] = f
      /\ binfmt' \in [Mm -> BOOLEAN] /\ ~binfmt'[m]
      /\ secret' \in [Mm -> BOOLEAN]
      /\ \A k \in Mm : k # m => /\ exe'[k] = exe[k] /\ binfmt'[k] = binfmt[k]
                                /\ secret'[k] = secret[k]
      /\ UsersExact' /\ CountExact' /\ ModExact' /\ NsExact' /\ \A k \in Mm : MmOk(k)'
  <2>0. PICK b \in BOOLEAN : b = FALSE
    OBVIOUS
  <2>1. mm_init(m, suid, f, b)
    BY <1>2, <1>5, <2>0 DEF exec_alloc
  <2>2. UNCHANGED <<vmas, modref, mm, active, oom, readers>>
    BY <1>8
  <2>3. f \in File \cup {None}
    OBVIOUS
  <2>4. QED
    BY <1>4, <1>5, <1>8, <2>0, <2>1, <2>2, <2>3, NewMmOk
<1>10. /\ pc'[t] = "exec" /\ \A u \in Task : u # t => pc'[u] = pc[u]
       /\ pc' \in [Task -> PC]
  BY <1>1 DEF exec_alloc, TaskShape, PC
<1>11. /\ fref' \in [File -> Int]
       /\ \A g \in File : fref'[g] = fref[g] + (IF g = f THEN 1 ELSE 0)
  <2>1. fref' = AddRef(f, 1) /\ 1 \in Int /\ f \in File \cup {None}
    BY <1>2 DEF exec_alloc
  <2>2. QED
    BY <2>1, AddRefAt
<1>12. MmShape' /\ TaskShape'
  BY <1>1, <1>8, <1>9, <1>10, <1>11 DEF MmShape, TaskShape
<1>13. OthersRun(t, t)
  BY <1>8, <1>9, <1>10 DEF OthersRun, Others
<1>14. ASSUME NEW u \in Others(t, t) PROVE Relied(u) /\ Unmet(u, t)
  <2>1. u \in Task /\ u # t /\ TaskPart(u)
    BY DEF Others, MmInv
  <2>2. Relied(u)
    BY <1>5, <1>8, <1>9, <2>1, FreshRelied
  <2>3. Unmet(u, t)
    BY <1>6, <1>8, <1>9, <2>1 DEF Unmet, TaskPart, Alone, SwapOk
  <2>4. QED
    BY <2>2, <2>3
<1>15. TaskPart(t)'
  <2>0. secret'[mm[t]] = secret[mm[t]] /\ (secret[mm[t]] => priv[t])
    BY <1>1, <1>4, <1>6, <1>9 DEF TaskPart, SecretOk
  <2>1. TaskOk(t)' /\ KidOk(t)'
    BY <1>1, <1>4, <1>6, <1>8, <1>9, <1>10 DEF TaskPart, TaskOk, KidOk, HasMm, Making, Forking
  <2>2. Alone(t)'
    BY <1>6, <1>8, <1>9 DEF Alone, readers
  <2>3. MakeOk(t)' /\ SwapOk(t)'
    BY <1>6, <1>8, <1>9, <1>10 DEF MakeOk, SwapOk
  <2>4. SecretOk(t)'
    BY <1>8, <2>0 DEF SecretOk
  <2>5. QED
    BY <2>1, <2>2, <2>3, <2>4 DEF TaskPart
<1>16. \A r \in Reader : ReaderOk(r)'
  <2>1. ASSUME NEW r \in Reader
        PROVE  /\ ReaderOk(r) /\ target[r] \in Task \cup {None}
               /\ held[r] \in Mm \cup {None} /\ fd[r] \in Mm \cup {None}
    BY Shapes DEF MmInv, ReaderShape
  <2>2. ASSUME NEW r \in Reader, target[r] # None PROVE pc'[target[r]] \in {"exec", pc[target[r]]}
    BY <1>10, <2>1, <2>2
  <2>3. ASSUME NEW r \in Reader, target[r] # None PROVE pc'[target[r]] \notin {"none", "new"}
    BY <2>1, <2>2, <2>3 DEF ReaderOk
  <2>4. ASSUME NEW r \in Reader, rpc[r] = "check" PROVE pc'[target[r]] # "swapped"
    BY <2>1, <2>2, <2>4 DEF ReaderOk
  <2>5. ASSUME NEW r \in Reader
        PROVE  /\ held[r] # None => secret'[held[r]] = secret[held[r]]
               /\ fd[r] # None => secret'[fd[r]] = secret[fd[r]]
    BY <1>6, <1>9, <2>1
  <2>6. QED
    BY <1>8, <2>3, <2>4, <2>5, ReadersStay
<1>17. FilesExact'
  <2>1. f \in File \cup {None} /\ UNCHANGED <<vmas, link>>
    BY <1>8 DEF readers
  <2>2. QED
    BY <1>5, <1>9, <1>11, <2>1, NewMmFiles
<1>18. QED
  BY <1>1, <1>8, <1>9, <1>12, <1>13, <1>14, <1>15, <1>16, <1>17, SoloStep

(***************************************************************************)
(* __mmput and __mmdrop: nobody has the mm they work on.                   *)
(***************************************************************************)
LEMMA TearStep ==
    ASSUME MmInv, NEW m \in Mm, stage[m] # "live",
           UNCHANGED <<users, tasks, readers, mix>>, MmShape',
           \A k \in Mm : k # m => /\ stage'[k] = stage[k] /\ count'[k] = count[k]
                                  /\ vmas'[k] = vmas[k] /\ exe'[k] = exe[k]
                                  /\ binfmt'[k] = binfmt[k] /\ secret'[k] = secret[k],
           secret'[m] \in {FALSE, secret[m]}, MmOk(m)',
           CountExact', FilesExact', ModExact', NsExact'
    PROVE  MmInv'
<1>1. MmShape /\ TaskShape /\ ReaderShape
  BY Shapes
<1>2. TaskShape' /\ ReaderShape'
  BY <1>1 DEF TaskShape, ReaderShape, tasks, readers
<1>3. UsersExact'
  BY UsersSame DEF tasks, readers
<1>4. ASSUME NEW k \in Mm PROVE MmOk(k)'
  <2>1. CASE k = m
    BY <2>1
  <2>2. CASE k # m
    BY <2>2 DEF MmInv, MmOk
  <2>3. QED
    BY <2>1, <2>2
<1>5. ASSUME NEW u \in Task PROVE TaskPart(u)'
  <2>1. TaskPart(u) /\ mm[u] # m /\ new[u] # m
    BY FreshMm DEF MmInv
  <2>2. (mm[u] # None => mm[u] \in Mm) /\ (new[u] # None => new[u] \in Mm)
    BY <1>1 DEF TaskShape
  <2>3. /\ pc[u] \in {"copy", "swapped"} => mm[u] # None
        /\ pc[u] \in Making => new[u] # None
        /\ kid[u] # None => pc[u] \in Forking
    BY <2>1 DEF TaskPart, TaskOk, HasMm
  <2>4. TaskOk(u)'
    BY <2>1 DEF TaskPart, TaskOk, tasks
  <2>5. KidOk(u)'
    <3>1. kid[u] # None /\ pc[u] # "kid" => secret'[new[u]] = secret[new[u]]
      BY <2>1, <2>2, <2>3 DEF Making, Forking
    <3>2. QED
      BY <2>1, <3>1 DEF TaskPart, KidOk, tasks
  <2>6. Alone(u)'
    BY <2>1 DEF TaskPart, Alone, tasks, readers
  <2>7. MakeOk(u)'
    BY <2>1, <2>2, <2>3 DEF TaskPart, MakeOk, Making, tasks
  <2>8. SwapOk(u)'
    BY <2>1, <2>2, <2>3 DEF TaskPart, SwapOk, tasks
  <2>9. SecretOk(u)'
    BY <2>1, <2>2 DEF TaskPart, SecretOk, tasks
  <2>10. QED
    BY <2>4, <2>5, <2>6, <2>7, <2>8, <2>9 DEF TaskPart
<1>6. ASSUME NEW r \in Reader PROVE ReaderOk(r)'
  <2>1. ReaderOk(r) /\ held[r] # m
    BY FreshMm DEF MmInv
  <2>2. (held[r] # None => held[r] \in Mm) /\ (fd[r] # None => fd[r] \in Mm)
    BY <1>1 DEF ReaderShape
  <2>3. held[r] # None => secret'[held[r]] = secret[held[r]]
    BY <2>1, <2>2
  <2>4. fd[r] # None => ~secret'[fd[r]]
    <3>1. SUFFICES ASSUME fd[r] # None PROVE ~secret'[fd[r]]
      OBVIOUS
    <3>2. fd[r] \in Mm /\ ~secret[fd[r]]
      BY <2>1, <2>2, <3>1 DEF ReaderOk
    <3>3. CASE fd[r] = m
      BY <3>2, <3>3
    <3>4. CASE fd[r] # m
      BY <3>2, <3>4
    <3>5. QED
      BY <3>3, <3>4
  <2>5. QED
    BY <2>1, <2>3, <2>4 DEF ReaderOk, tasks, readers
<1>7. QED
  BY <1>2, <1>3, <1>4, <1>5, <1>6, Combine

LEMMA ExitMmap ==
    ASSUME MmInv, NEW m \in Mm, exit_mmap(m), mix' = mix
    PROVE  MmInv'
<1>1. MmShape /\ stage[m] = "unmap" /\ MmOk(m)
  BY Shapes DEF MmInv, exit_mmap
<1>2. UNCHANGED <<users, count, exe, binfmt, secret, modref, nsref, tasks, readers, mix>>
  BY DEF exit_mmap
<1>3. /\ stage' \in [Mm -> Stage] /\ stage'[m] = "exe"
      /\ \A k \in Mm : k # m => stage'[k] = stage[k]
      /\ vmas' \in [Mm -> SUBSET Vma] /\ vmas'[m] = {} /\ \A k \in Mm : k # m => vmas'[k] = vmas[k]
  BY <1>1 DEF exit_mmap, MmShape, Stage
<1>4. PICK f \in File \cup {None} : f = exe[m]
  BY <1>1 DEF MmShape
<1>5. PICK n \in Nat : n = Num(vmas[m])
  <2>1. IsFiniteSet(vmas[m])
    BY <1>1, MmAssumption, FS_Subset DEF MmShape
  <2>2. QED
    BY <2>1, FS_CardinalityType DEF Num
<1>6. /\ fref' \in [File -> Int]
      /\ \A g \in File : fref'[g] = fref[g] + (IF g = f THEN -n ELSE 0)
  <2>1. fref' = AddRef(f, -n) /\ -n \in Int
    BY <1>4, <1>5 DEF exit_mmap, Num
  <2>2. QED
    BY <2>1, AddRefAt
<1>7. MmShape'
  BY <1>1, <1>2, <1>3, <1>6 DEF MmShape
<1>8. MmOk(m)'
  BY <1>1, <1>2, <1>3 DEF MmOk
<1>9. CountExact'
  <2>1. \A k \in Mm : stage'[k] \in {"free", "gone"} <=> stage[k] \in {"free", "gone"}
    BY <1>1, <1>3
  <2>2. QED
    BY <1>2, <2>1, CountSame DEF tasks, readers
<1>10. FilesExact'
  <2>1. ASSUME NEW g \in File PROVE fref'[g] = fref[g] + (Uses(m, g)' - Uses(m, g))
    <3>1. Num({}) = 0 /\ fref[g] \in Int /\ exe'[m] = f
      BY <1>1, <1>2, <1>4, FS_EmptySet DEF Num, MmShape
    <3>2. Uses(m, g) = (IF f = g THEN n + 1 ELSE 0)
      BY <1>4, <1>5 DEF Uses
    <3>3. Uses(m, g)' = (IF f = g THEN 1 ELSE 0)
      BY <1>3, <3>1 DEF Uses, Num
    <3>4. QED
      BY <1>6, <3>1, <3>2, <3>3
  <2>2. \A k \in Mm : k # m => exe'[k] = exe[k] /\ vmas'[k] = vmas[k]
    BY <1>2, <1>3
  <2>3. QED
    BY <1>2, <1>3, <2>1, <2>2, FilesMove DEF readers
<1>11. ModExact'
  <2>1. \A k \in Mm : HasModule(k)' <=> HasModule(k)
    BY <1>1, <1>2, <1>3 DEF HasModule, tasks
  <2>2. QED
    BY <1>2, <2>1, ModSame
<1>12. NsExact'
  BY <1>1, <1>2, <1>3, NsSame
<1>13. QED
  BY <1>1, <1>2, <1>3, <1>7, <1>8, <1>9, <1>10, <1>11, <1>12, TearStep

LEMMA DropExe ==
    ASSUME MmInv, NEW m \in Mm, drop_exe(m), mix' = mix
    PROVE  MmInv'
<1>1. MmShape /\ stage[m] = "exe" /\ MmOk(m) /\ vmas[m] = {} /\ \A u \in Task : new[u] # m
  BY Shapes, FreshMm DEF MmInv, drop_exe, MmOk
<1>2. UNCHANGED <<users, count, vmas, binfmt, secret, nsref, tasks, readers, mix>>
  BY DEF drop_exe
<1>3. /\ stage' \in [Mm -> Stage] /\ stage'[m] = "drop"
      /\ \A k \in Mm : k # m => stage'[k] = stage[k]
      /\ exe' \in [Mm -> File \cup {None}] /\ exe'[m] = None
      /\ \A k \in Mm : k # m => exe'[k] = exe[k]
  BY <1>1 DEF drop_exe, MmShape, Stage
<1>4. PICK f \in File \cup {None} : f = exe[m]
  BY <1>1 DEF MmShape
<1>6. /\ fref' \in [File -> Int]
      /\ \A g \in File : fref'[g] = fref[g] + (IF g = f THEN -1 ELSE 0)
  <2>1. fref' = AddRef(f, -1) /\ -1 \in Int
    BY <1>4 DEF drop_exe
  <2>2. QED
    BY <2>1, AddRefAt
<1>7. MmShape'
  BY <1>1, <1>2, <1>3, <1>6 DEF MmShape
<1>8. MmOk(m)'
  BY <1>1, <1>2, <1>3 DEF MmOk
<1>9. CountExact'
  <2>1. \A k \in Mm : stage'[k] \in {"free", "gone"} <=> stage[k] \in {"free", "gone"}
    BY <1>1, <1>3
  <2>2. QED
    BY <1>2, <2>1, CountSame DEF tasks, readers
<1>10. FilesExact'
  <2>1. ASSUME NEW g \in File PROVE fref'[g] = fref[g] + (Uses(m, g)' - Uses(m, g))
    <3>1. Num({}) = 0 /\ fref[g] \in Int /\ g # None
      BY <1>1, MmAssumption, FS_EmptySet DEF Num, MmShape
    <3>2. Uses(m, g) = (IF f = g THEN 1 ELSE 0)
      BY <1>1, <1>4, <3>1 DEF Uses
    <3>3. Uses(m, g)' = 0
      BY <1>3, <3>1 DEF Uses
    <3>4. QED
      BY <1>6, <3>1, <3>2, <3>3
  <2>2. \A k \in Mm : k # m => exe'[k] = exe[k] /\ vmas'[k] = vmas[k]
    BY <1>2, <1>3
  <2>3. vmas' \in [Mm -> SUBSET Vma]
    BY <1>1, <1>2 DEF MmShape
  <2>4. QED
    BY <1>2, <2>1, <2>2, <2>3, FilesMove DEF readers
<1>11. ModExact'
  <2>1. \A k \in Mm : k # m => (HasModule(k)' <=> HasModule(k))
    BY <1>2, <1>3 DEF HasModule, tasks
  <2>2. ~HasModule(m)' /\ (HasModule(m) <=> binfmt[m])
    BY <1>1, <1>3 DEF HasModule
  <2>3. /\ Num(Modular) \in Nat /\ Num(Modular') \in Nat
        /\ Num(Modular') = Num(Modular) + ((IF HasModule(m)' THEN 1 ELSE 0)
                                           - (IF HasModule(m) THEN 1 ELSE 0))
    BY <2>1, ModShift
  <2>4. modref = Num(Modular) /\ modref' = (IF binfmt[m] THEN modref - 1 ELSE modref)
    BY Shapes DEF drop_exe
  <2>5. modref' = Num(Modular')
    BY <2>2, <2>3, <2>4
  <2>6. QED
    BY <2>5 DEF ModExact, Num
<1>12. NsExact'
  BY <1>1, <1>2, <1>3, NsSame
<1>13. QED
  BY <1>1, <1>2, <1>3, <1>7, <1>8, <1>9, <1>10, <1>11, <1>12, TearStep

LEMMA MmputDrop ==
    ASSUME MmInv, NEW m \in Mm, mmput_drop(m), mix' = mix
    PROVE  MmInv'
<1>1. MmShape /\ stage[m] = "drop" /\ MmOk(m)
  BY Shapes DEF MmInv, mmput_drop
<1>2. UNCHANGED <<users, vmas, exe, binfmt, secret, refs, tasks, readers, mix>>
  BY DEF mmput_drop
<1>3. /\ stage' \in [Mm -> Stage] /\ stage'[m] = "gone"
      /\ \A k \in Mm : k # m => stage'[k] = stage[k]
      /\ count' \in [Mm -> Int] /\ count'[m] = count[m] - 1
      /\ \A k \in Mm : k # m => count'[k] = count[k]
  BY <1>1 DEF mmput_drop, mmdrop, MmShape, Stage
<1>4. MmShape'
  BY <1>1, <1>2, <1>3 DEF MmShape, refs
<1>5. MmOk(m)'
  BY <1>1, <1>2, <1>3 DEF MmOk
<1>6. CountExact'
  <2>1. ASSUME NEW k \in Mm
        PROVE  count'[k] = count[k] + ((Hit(active'[Boot], k) - Hit(active[Boot], k))
                                + (Hit(oom'[Boot], k) - Hit(oom[Boot], k)) + (Whole(k)' - Whole(k)))
    <3>1. /\ Hit(oom'[Boot], k) = Hit(oom[Boot], k) /\ Hit(oom[Boot], k) \in Int
          /\ Hit(active'[Boot], k) = Hit(active[Boot], k) /\ Hit(active[Boot], k) \in Int
      BY <1>2 DEF Hit, tasks
    <3>2. count[k] \in Int
      BY <1>1 DEF MmShape
    <3>3. CASE k = m
      <4>1. Whole(m)' = 0 /\ Whole(m) = 1
        BY <1>1, <1>3 DEF Whole
      <4>2. QED
        BY <1>3, <3>1, <3>2, <3>3, <4>1
    <3>4. CASE k # m
      <4>1. Whole(k)' = Whole(k) /\ Whole(k) \in Int
        BY <1>3, <3>4 DEF Whole
      <4>2. QED
        BY <1>3, <3>1, <3>2, <3>4, <4>1
    <3>5. QED
      BY <3>3, <3>4
  <2>2. Boot \in Task /\ fd' = fd /\ active' = active /\ oom' = oom
    BY <1>2, MmAssumption DEF tasks, readers
  <2>3. QED
    BY <2>1, <2>2, CountMove
<1>7. FilesExact'
  BY <1>2, FilesSame DEF refs, readers
<1>8. ModExact'
  <2>1. \A k \in Mm : HasModule(k)' <=> HasModule(k)
    BY <1>1, <1>2, <1>3 DEF HasModule, tasks
  <2>2. QED
    BY <1>2, <2>1, ModSame DEF refs
<1>9. NsExact'
  BY <1>1, <1>2, <1>3, NsSame DEF refs
<1>10. QED
  BY <1>1, <1>2, <1>3, <1>4, <1>5, <1>6, <1>7, <1>8, <1>9, TearStep

LEMMA FreeMm ==
    ASSUME MmInv, NEW m \in Mm, free_mm(m), mix' = mix
    PROVE  MmInv'
<1>1. MmShape /\ MmOk(m) /\ stage[m] # "free" /\ count[m] = 0
  BY Shapes DEF MmInv, free_mm
<1>0. stage[m] = "gone"
  <2>1. KeepersOf(m) \in Nat /\ 0 = KeepersOf(m) + (IF stage[m] \in {"free", "gone"} THEN 0 ELSE 1)
    BY <1>1, KeptNotFree
  <2>2. QED
    BY <1>1, <2>1
<1>2. UNCHANGED <<users, count, vmas, exe, fref, modref, tasks, readers, mix>>
  BY DEF free_mm
<1>3. /\ stage' \in [Mm -> Stage] /\ stage'[m] = "free"
      /\ \A k \in Mm : k # m => stage'[k] = stage[k]
  BY <1>1 DEF free_mm, MmShape, Stage
<1>4. /\ binfmt' \in [Mm -> BOOLEAN] /\ secret' \in [Mm -> BOOLEAN] /\ secret'[m] = FALSE
      /\ \A k \in Mm : k # m => binfmt'[k] = binfmt[k] /\ secret'[k] = secret[k]
  BY <1>1 DEF free_mm, MmShape
<1>5. MmShape'
  BY <1>1, <1>2, <1>3, <1>4 DEF MmShape
<1>6. MmOk(m)'
  BY <1>0, <1>1, <1>2, <1>3 DEF MmOk
<1>7. CountExact'
  <2>1. \A k \in Mm : stage'[k] \in {"free", "gone"} <=> stage[k] \in {"free", "gone"}
    BY <1>0, <1>3
  <2>2. QED
    BY <1>2, <2>1, CountSame DEF tasks, readers
<1>8. FilesExact'
  BY <1>2, FilesSame DEF readers
<1>9. ModExact'
  <2>1. ASSUME NEW k \in Mm PROVE HasModule(k)' <=> HasModule(k)
    <3>1. CASE k = m
      BY <1>0, <1>3, <3>1 DEF HasModule
    <3>2. CASE k # m
      BY <1>2, <1>3, <1>4, <3>2 DEF HasModule, tasks
    <3>3. QED
      BY <3>1, <3>2
  <2>2. QED
    BY <1>2, <2>1, ModSame
<1>10. NsExact'
  <2>1. \A k \in Mm : k # m => (stage'[k] = "free" <=> stage[k] = "free")
    BY <1>3
  <2>2. /\ Num(Alloc) \in Nat /\ Num(Alloc') \in Nat
        /\ Num(Alloc') = Num(Alloc) + ((IF stage'[m] # "free" THEN 1 ELSE 0)
                                       - (IF stage[m] # "free" THEN 1 ELSE 0))
    BY <2>1, NsShift
  <2>3. nsref = Num(Alloc) /\ nsref' = nsref - 1
    BY Shapes DEF free_mm
  <2>4. nsref' = Num(Alloc')
    BY <1>0, <1>3, <2>2, <2>3
  <2>5. QED
    BY <2>4 DEF NsExact, Num
<1>11. QED
  BY <1>0, <1>2, <1>3, <1>4, <1>5, <1>6, <1>7, <1>8, <1>9, <1>10, TearStep

(***************************************************************************)
(* The invariant holds.                                                    *)
(***************************************************************************)
LEMMA FirstOnes == FirstMm \in Mm /\ FirstFile \in File
  BY MmAssumption DEF FirstMm, FirstFile

LEMMA InitCounts ==
    ASSUME Init
    PROVE  UsersExact /\ CountExact /\ FilesExact /\ ModExact /\ NsExact
<1>0. FirstMm \in Mm /\ FirstFile \in File /\ Boot \in Task /\ \A m \in Mm : m # None
  BY FirstOnes, MmAssumption
<1>1. \A x : Num({x}) = 1
  BY FS_Singleton DEF Num
<1>2. Num({}) = 0
  BY FS_EmptySet DEF Num
<1>3. UsersExact
  <2>1. ASSUME NEW m \in Mm PROVE users[m] = UsersOf(m)
    <3>1. {t \in Task : mm[t] = m} = (IF m = FirstMm THEN {Boot} ELSE {})
      BY <1>0 DEF Init, OnlyBoot
    <3>2. {t \in Task : new[t] = m} = {} /\ {r \in Reader : held[r] = m} = {}
      BY <1>0 DEF Init
    <3>3. users[m] = (IF m = FirstMm THEN 1 ELSE 0)
      BY DEF Init, OnlyFirst
    <3>4. UsersOf(m) = (IF m = FirstMm THEN 1 ELSE 0)
      <4>1. UsersOf(m) = Num(IF m = FirstMm THEN {Boot} ELSE {}) + Num({}) + Num({})
        BY <3>1, <3>2 DEF UsersOf
      <4>2. Num({Boot}) = 1
        BY <1>1
      <4>3. CASE m = FirstMm
        BY <1>2, <4>1, <4>2, <4>3
      <4>4. CASE m # FirstMm
        BY <1>2, <4>1, <4>4
      <4>5. QED
        BY <4>3, <4>4
    <3>5. QED
      BY <3>3, <3>4
  <2>2. QED
    BY <2>1 DEF UsersExact
<1>4. CountExact
  <2>1. ASSUME NEW m \in Mm
        PROVE  count[m] = KeepersOf(m) + (IF stage[m] \in {"free", "gone"} THEN 0 ELSE 1)
    <3>1. /\ {t \in Task : active[t] = m} = {} /\ {t \in Task : oom[t] = m} = {}
          /\ {r \in Reader : fd[r] = m} = {}
      BY <1>0 DEF Init
    <3>2. KeepersOf(m) = 0
      BY <1>2, <3>1 DEF KeepersOf
    <3>3. /\ count[m] = (IF m = FirstMm THEN 1 ELSE 0)
          /\ stage[m] = (IF m = FirstMm THEN "live" ELSE "free")
      BY DEF Init, OnlyFirst
    <3>4. QED
      BY <3>2, <3>3
  <2>2. QED
    BY <2>1 DEF CountExact
<1>5. FilesExact
  <2>1. ASSUME NEW f \in File PROVE fref[f] = Num(Runs(f)) + Num(Mapping(f)) + Num(Linked(f))
    <3>0. f # None
      BY MmAssumption
    <3>1. Runs(f) = (IF f = FirstFile THEN {FirstMm} ELSE {})
      BY <1>0, <3>0 DEF Init, Runs, OnlyFirst
    <3>2. Linked(f) = {}
      BY <3>0 DEF Init, Linked
    <3>3. Mapping(f) = (IF f = FirstFile THEN {FirstMm} \X Vma ELSE {})
      BY <1>0, <3>0 DEF Init, Mapping, OnlyFirst
    <3>4. Cardinality({FirstMm} \X Vma) = Cardinality(Vma) /\ Cardinality(Vma) \in Nat
      <4>1. IsFiniteSet(Vma) /\ IsFiniteSet({FirstMm}) /\ Cardinality({FirstMm}) = 1
        BY MmAssumption, FS_Singleton
      <4>2. Cardinality(Vma) \in Nat
        BY <4>1, FS_CardinalityType
      <4>3. Cardinality({FirstMm} \X Vma) = 1 * Cardinality(Vma)
        BY <4>1, FS_Product
      <4>4. QED
        BY <4>2, <4>3
    <3>5. fref[f] = (IF f = FirstFile THEN 1 + Cardinality(Vma) ELSE 0)
      BY DEF Init
    <3>6. CASE f = FirstFile
      <4>1. Runs(f) = {FirstMm} /\ Mapping(f) = {FirstMm} \X Vma /\ Num(Linked(f)) = 0
        BY <1>2, <3>1, <3>2, <3>3, <3>6
      <4>2. Num(Runs(f)) = 1
        BY <1>1, <4>1
      <4>3. Num(Mapping(f)) = Cardinality(Vma)
        BY <3>4, <4>1 DEF Num
      <4>4. QED
        BY <3>4, <3>5, <3>6, <4>1, <4>2, <4>3
    <3>7. CASE f # FirstFile
      BY <1>2, <3>1, <3>2, <3>3, <3>5, <3>7
    <3>8. QED
      BY <3>6, <3>7
  <2>2. QED
    BY <2>1 DEF FilesExact
<1>6. ModExact
  <2>1. Modular = {FirstMm}
    BY <1>0 DEF Init, Modular, HasModule, OnlyFirst
  <2>2. QED
    BY <1>1, <2>1 DEF Init, ModExact
<1>7. NsExact
  <2>1. Alloc = {FirstMm}
    BY <1>0 DEF Init, Alloc, OnlyFirst
  <2>2. QED
    BY <1>1, <2>1 DEF Init, NsExact
<1>8. QED
  BY <1>3, <1>4, <1>5, <1>6, <1>7

LEMMA MmInit ==
    ASSUME Init
    PROVE  MmInv
<1>0. /\ FirstMm \in Mm /\ FirstFile \in File /\ Boot \in Task
      /\ \A m \in Mm : m # None
      /\ Cardinality(Vma) \in Nat
  BY FirstOnes, MmAssumption, FS_CardinalityType
<1>1. TypeOK
  <2>1. /\ stage \in [Mm -> Stage] /\ users \in [Mm -> Nat] /\ count \in [Mm -> Nat]
        /\ vmas \in [Mm -> SUBSET Vma] /\ exe \in [Mm -> File \cup {None}]
        /\ secret \in [Mm -> BOOLEAN]
    BY <1>0 DEF Init, OnlyFirst, Stage
  <2>2. binfmt \in [Mm -> BOOLEAN]
    BY DEF Init, OnlyFirst
  <2>3. fref \in [File -> Nat] /\ modref \in Nat /\ nsref \in Nat
    BY <1>0 DEF Init
  <2>4. /\ pc \in [Task -> PC]
        /\ mm \in [Task -> Mm \cup {None}] /\ active \in [Task -> Mm \cup {None}]
        /\ new \in [Task -> Mm \cup {None}] /\ oom \in [Task -> Mm \cup {None}]
        /\ kid \in [Task -> Task \cup {None}] /\ cur \in [Task -> Nat]
        /\ priv \in [Task -> BOOLEAN]
    BY <1>0 DEF Init, OnlyBoot, PC
  <2>5. /\ rpc \in [Reader -> RPC]
        /\ target \in [Reader -> Task \cup {None}]
        /\ held \in [Reader -> Mm \cup {None}] /\ fd \in [Reader -> Mm \cup {None}]
        /\ link \in [Reader -> File \cup {None}] /\ mix \in Mixes
    BY DEF Init, RPC
  <2>6. QED
    BY <2>1, <2>2, <2>3, <2>4, <2>5 DEF TypeOK
<1>2. Counts
  BY InitCounts DEF Counts
<1>3. \A m \in Mm : MmOk(m)
  BY DEF Init, OnlyFirst, MmOk
<1>4. ASSUME NEW t \in Task PROVE TaskPart(t)
  <2>1. /\ pc[t] = (IF t = Boot THEN "run" ELSE "none")
        /\ mm[t] = (IF t = Boot THEN FirstMm ELSE None)
        /\ active[t] = None /\ new[t] = None /\ kid[t] = None /\ oom[t] = None
    BY DEF Init, OnlyBoot
  <2>2. TaskOk(t) /\ KidOk(t)
    BY <1>0, <2>1 DEF TaskOk, KidOk, HasMm, Making, Forking
  <2>3. Alone(t) /\ MakeOk(t) /\ SwapOk(t)
    BY <2>1 DEF Alone, MakeOk, SwapOk
  <2>4. SecretOk(t)
    BY <1>0, <2>1 DEF SecretOk, Init
  <2>5. QED
    BY <2>2, <2>3, <2>4 DEF TaskPart
<1>5. \A r \in Reader : ReaderOk(r)
  BY DEF Init, ReaderOk
<1>6. QED
  BY <1>1, <1>2, <1>3, <1>4, <1>5 DEF MmInv

LEMMA TeardownInv ==
    ASSUME MmInv, NEW m \in Mm, Teardown(m), mix' = mix
    PROVE  MmInv'
  BY ExitMmap, DropExe, MmputDrop, FreeMm DEF Teardown

LEMMA ProceedInv ==
    ASSUME MmInv, NEW t \in Task, Proceed(t), mix' = mix
    PROVE  MmInv'
<1>1. CASE dup_killed(t) \/ dup_fails(t) \/ dup_end(t) \/ dup_no_module(t)
  BY <1>1, DupLeaves
<1>2. CASE dup_lock(t) \/ (\E l \in PC : dup_vma(t, l)) \/ dup_skip(t) \/ dup_module(t)
  BY <1>2, DupLock, DupVma, DupSkip, DupModule
<1>3. CASE free_pt(t) \/ fork_done(t) \/ fork_fails(t)
  BY <1>3, FreePt, ForkDone, ForkFails
<1>4. CASE exec_fails(t) \/ exec_mmap(t) \/ exec_creds(t)
  BY <1>4, ExecFails, ExecMmap, ExecCreds
<1>5. CASE switch_away(t) \/ free_signal_struct(t)
  BY <1>5, SwitchAway, FreeSignalStruct
<1>6. QED
  BY <1>1, <1>2, <1>3, <1>4, <1>5 DEF Proceed

LEMMA BeginInv ==
    ASSUME MmInv, NEW t \in Task, Begin(t), mix' = mix
    PROVE  MmInv'
  BY ShareMm, DupMm, ExecAlloc, Munmap, MarkOomVictim, ExitMm DEF Begin

LEMMA FinishInv ==
    ASSUME MmInv, NEW r \in Reader, Finish(r), mix' = mix
    PROVE  MmInv'
<1>1. CASE \E l \in {"grab", "lock"} : access_check(r, l)
  BY <1>1, AccessCheck
<1>2. CASE open_grab(r) \/ open_put(r) \/ mem_rw_end(r)
  BY <1>2, OpenGrab, OpenPut, MemRwEnd
<1>3. CASE cmdline_end(r) \/ exe_link_end(r)
  BY <1>3, CmdlineEnd, ExeLinkEnd
<1>4. CASE maps_get(r) \/ maps_lock(r) \/ maps_end(r)
  BY <1>4, MapsGet, MapsLock, MapsEnd
<1>5. QED
  BY <1>1, <1>2, <1>3, <1>4 DEF Finish

LEMMA LookInv ==
    ASSUME MmInv, NEW r \in Reader, Look(r), mix' = mix
    PROVE  MmInv'
<1>1. CASE \E t \in Task : \/ access_get(r, t) \/ cmdline_read(r, t) \/ exe_link(r, t)
                           \/ maps_may(r, t) \/ maps_link(r, t)
  BY <1>1, AccessGet, CmdlineRead, ExeLink, MapsMay, MapsLink
<1>2. CASE mem_rw(r) \/ mem_release(r)
  BY <1>2, MemRw, MemRelease
<1>3. QED
  BY <1>1, <1>2 DEF Look

LEMMA MmStutter ==
    ASSUME MmInv, UNCHANGED vars
    PROVE  MmInv'
<1>1. UNCHANGED mms /\ UNCHANGED refs /\ UNCHANGED tasks /\ UNCHANGED readers /\ mix' = mix
  BY DEF vars
<1>2. MmShape' /\ TaskShape' /\ ReaderShape'
  BY <1>1, Shapes DEF MmShape, TaskShape, ReaderShape, mms, refs, tasks, readers
<1>3. UsersExact' /\ CountExact' /\ FilesExact' /\ NsExact'
  BY <1>1, UsersSame, CountSame, FilesSame, NsSame DEF mms, refs, tasks, readers
<1>4. ModExact'
  <2>1. \A m \in Mm : HasModule(m)' <=> HasModule(m)
    BY <1>1 DEF HasModule, mms, tasks
  <2>2. QED
    BY <1>1, <2>1, ModSame DEF refs
<1>5. \A m \in Mm : MmOk(m)'
  BY <1>1 DEF MmInv, MmOk, mms
<1>6. ASSUME NEW t \in Task PROVE TaskPart(t)'
  <2>1. TaskPart(t)
    BY DEF MmInv
  <2>2. TaskOk(t)' /\ KidOk(t)' /\ Alone(t)'
    BY <1>1, <2>1 DEF TaskPart, TaskOk, KidOk, Alone, mms, tasks, readers
  <2>3. MakeOk(t)' /\ SwapOk(t)' /\ SecretOk(t)'
    BY <1>1, <2>1 DEF TaskPart, MakeOk, SwapOk, SecretOk, mms, tasks
  <2>4. QED
    BY <2>2, <2>3 DEF TaskPart
<1>7. \A r \in Reader : ReaderOk(r)'
  BY <1>1 DEF MmInv, ReaderOk, mms, tasks, readers
<1>8. QED
  BY <1>1, <1>2, <1>3, <1>4, <1>5, <1>6, <1>7, Combine

LEMMA MmNext ==
    ASSUME MmInv, [Next]_vars
    PROVE  MmInv'
<1>1. CASE Next
  BY <1>1, TeardownInv, ProceedInv, BeginInv, FinishInv, LookInv DEF Next
<1>2. CASE UNCHANGED vars
  BY <1>2, MmStutter
<1>3. QED
  BY <1>1, <1>2

\* MmInv holds in every state, whatever fork, exec, exit, the teardown of an mm
\* and the readers in /proc/<pid> do and in which order: the counts are the
\* references there are, and each task, mm and reader is where they say.
THEOREM MmInductive == Spec => []MmInv
<1>1. Init => MmInv
  BY MmInit
<1>2. MmInv /\ [Next]_vars => MmInv'
  BY MmNext
<1>3. QED
  BY <1>1, <1>2, PTL DEF Spec

\* Every reference count of mm_structs, program files, the format's module and
\* the user namespace is exact in every state: through dup_mm and its failures,
\* clones that share an mm, exec, exit, the teardown in __mmput and __mmdrop,
\* and any number of readers in /proc/<pid>.
THEOREM CountsExact == Spec => []MmCounted
<1>1. MmInv => MmCounted
  BY DEF MmInv, Counts, UsersExact, CountExact, FilesExact, ModExact, NsExact,
         Runs, Linked, Modular, MmCounted
<1>2. QED
  BY <1>1, MmInductive, PTL

\* mmput and mmdrop never take an mm away from somebody who has it: memory that
\* a task or a reader uses is not torn down, and an mm_struct that an open file,
\* an exiting task or the out-of-memory killer keeps is not freed.
THEOREM NoUseAfterFree == Spec => []MmSafe
<1>1. ASSUME MmInv PROVE MmSafe
  <2>1. ASSUME NEW m \in Mm PROVE UsersOf(m) > 0 => stage[m] = "live"
    <3>1. users[m] \in Nat /\ users[m] = UsersOf(m) /\ MmOk(m)
      BY <1>1, UsedLive DEF MmInv
    <3>2. QED
      BY <3>1 DEF MmOk
  <2>2. ASSUME NEW m \in Mm PROVE KeepersOf(m) > 0 => stage[m] # "free"
    <3>1. /\ count[m] \in Nat /\ KeepersOf(m) \in Nat /\ MmOk(m)
          /\ count[m] = KeepersOf(m) + (IF stage[m] \in {"free", "gone"} THEN 0 ELSE 1)
      BY <1>1, KeptNotFree DEF MmInv
    <3>2. QED
      BY <3>1 DEF MmOk
  <2>3. QED
    BY <2>1, <2>2 DEF MmSafe
<1>2. QED
  BY <1>1, MmInductive, PTL

\* mm_access and proc_mem_open never hand out the memory of a privileged program
\* to a reader without privileges, whenever the program is started.
THEOREM SecretsKept == Spec => []AccessHonoured
<1>1. MmInv => AccessHonoured
  BY DEF MmInv, ReaderOk, AccessHonoured
<1>2. QED
  BY <1>1, MmInductive, PTL

(***************************************************************************)
(* The mappings somebody goes through under mmap_lock.                     *)
(***************************************************************************)
ListedStay == \A r \in Reader : rpc[r] = "maps" => vmas'[held[r]] = vmas[held[r]]

LEMMA ListedSame ==
    ASSUME MmInv, NEW m, \A k \in Mm : k # m => vmas'[k] = vmas[k],
           \A r \in Reader : rpc[r] = "maps" => held[r] # m
    PROVE  ListedStay
<1>1. \A r \in Reader : rpc[r] = "maps" => held[r] \in Mm
  BY Shapes DEF MmInv, ReaderOk, ReaderShape
<1>2. QED
  BY <1>1 DEF ListedStay

LEMMA ListedStep ==
    ASSUME MmInv, Next
    PROVE  ListedStay
<1>0. MmShape
  BY Shapes
<1>1. ASSUME NEW m \in Mm, Teardown(m) PROVE ListedStay
  <2>1. CASE exit_mmap(m)
    <3>1. \A k \in Mm : k # m => vmas'[k] = vmas[k]
      BY <1>0, <2>1 DEF exit_mmap, MmShape
    <3>2. \A r \in Reader : held[r] # m
      BY <2>1, UsedLive DEF exit_mmap
    <3>3. QED
      BY <3>1, <3>2, ListedSame
  <2>2. CASE drop_exe(m) \/ mmput_drop(m) \/ free_mm(m)
    BY <2>2 DEF drop_exe, mmput_drop, free_mm, ListedStay
  <2>3. QED
    BY <1>1, <2>1, <2>2 DEF Teardown
<1>2. ASSUME NEW t \in Task, Proceed(t) PROVE ListedStay
  <2>1. ASSUME NEW l \in PC, dup_vma(t, l) PROVE ListedStay
    <3>1. \A k \in Mm : k # new[t] => vmas'[k] = vmas[k]
      BY <1>0, <2>1 DEF dup_vma, MmShape
    <3>2. \A r \in Reader : held[r] # new[t]
      BY <2>1, MakerMm DEF dup_vma, Making
    <3>3. QED
      BY <3>1, <3>2, ListedSame
  <2>2. CASE exec_creds(t)
    <3>1. \A k \in Mm : k # mm[t] => vmas'[k] = vmas[k]
      BY <1>0, <2>2 DEF exec_creds, MmShape
    <3>2. \A r \in Reader : rpc[r] = "maps" => held[r] # mm[t]
      BY <2>2 DEF exec_creds, CanWriteLock, MmapRead
    <3>3. QED
      BY <3>1, <3>2, ListedSame
  <2>3. CASE \/ dup_lock(t) \/ dup_killed(t) \/ dup_skip(t) \/ dup_fails(t) \/ dup_end(t)
             \/ dup_module(t) \/ dup_no_module(t) \/ free_pt(t) \/ fork_done(t) \/ fork_fails(t)
    <3>1. vmas' = vmas
      BY <2>3 DEF dup_lock, dup_killed, dup_skip, dup_fails, dup_end, dup_module,
                  dup_no_module, free_pt, fork_done, fork_fails, mms
    <3>2. QED
      BY <3>1 DEF ListedStay
  <2>4. CASE exec_fails(t) \/ exec_mmap(t) \/ switch_away(t) \/ free_signal_struct(t)
    BY <2>4 DEF exec_fails, exec_mmap, switch_away, free_signal_struct, ListedStay
  <2>5. QED
    BY <1>2, <2>1, <2>2, <2>3, <2>4 DEF Proceed
<1>3. ASSUME NEW t \in Task, Begin(t) PROVE ListedStay
  <2>1. ASSUME NEW v \in Vma, munmap(t, v) PROVE ListedStay
    <3>1. \A k \in Mm : k # mm[t] => vmas'[k] = vmas[k]
      BY <1>0, <2>1 DEF munmap, MmShape
    <3>2. \A r \in Reader : rpc[r] = "maps" => held[r] # mm[t]
      BY <2>1 DEF munmap, CanWriteLock, MmapRead
    <3>3. QED
      BY <3>1, <3>2, ListedSame
  <2>2. ASSUME NEW suid \in BOOLEAN, exec_alloc(t, suid) PROVE ListedStay
    BY <2>2 DEF exec_alloc, ListedStay
  <2>3. CASE share_mm(t) \/ dup_mm(t) \/ mark_oom_victim(t) \/ exit_mm(t)
    BY <2>3 DEF share_mm, dup_mm, mark_oom_victim, exit_mm, ListedStay
  <2>4. QED
    BY <1>3, <2>1, <2>2, <2>3 DEF Begin
<1>4. ASSUME NEW r \in Reader, Finish(r) \/ Look(r) PROVE vmas' = vmas
  <2>1. CASE Finish(r)
    BY <2>1 DEF Finish, access_check, open_grab, open_put, mem_rw_end, cmdline_end, exe_link_end,
                maps_get, maps_lock, maps_end, mms
  <2>2. CASE Look(r)
    BY <2>2 DEF Look, access_get, cmdline_read, exe_link, maps_may, maps_link, mem_rw,
                mem_release, mms
  <2>3. QED
    BY <1>4, <2>1, <2>2
<1>5. QED
  BY <1>1, <1>2, <1>3, <1>4 DEF Next, ListedStay

\* dup_mmap copies, and proc_map_files_readdir lists, the mappings there are
\* while it has mmap_lock: no munmap, exec or exit of those who share the mm,
\* and no teardown, changes them meanwhile.
THEOREM MappingsLocked == Spec => MappingsStable
<1>1. MmInv => CopyIsSnapshot
  BY DEF MmInv, TaskPart, MakeOk, CopyIsSnapshot
<1>2. MmInv /\ [Next]_vars => [ListedStay]_vars
  BY ListedStep
<1>3. Spec => [][CopyIsSnapshot' /\ ListedStay]_vars
  BY <1>1, <1>2, MmInductive, PTL DEF Spec
<1>4. QED
  BY <1>3, PTL DEF MappingsStable, ListedStay
=============================================================================
