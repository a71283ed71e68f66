-------------------------- MODULE StackCacheProofs --------------------------
(***************************************************************************)
(* Theorems about StackCache, for any number of tasks, readers, CPUs and   *)
(* areas, any size of a stack and of the caches.                           *)
(***************************************************************************)
EXTENDS StackCache, FiniteSetTheorems, TLAPS

Actor == Task \cup Reader

\* Who counts on the stack of t, who is releasing it, and who counts on t.
Holders(t) == {x \in Actor : Obj(x) = t /\ pc[x] \in {"made", "live", "walk"}}
Releasers(t) == {x \in Actor : Obj(x) = t /\ pc[x] \in {"release", "free", "put"}}
Keepers(t) == {x \in Actor : Obj(x) = t /\ pc[x] # "zombie"}

Looking == [task : Task, file : {"stack", "wchan"}]
MakingPc == {"none", "take", "clear", "vmalloc", "charge", "dup", "free", "put"}
MadePc == {"made", "live", "release", "free", "put", "gone", "zombie"}
ReaderPc == {"check", "get", "walk", "release", "free", "put", "unlock"}
AnyPc == {"none", "take", "clear", "vmalloc", "charge", "dup", "free", "put", "made", "live",
          "release", "gone", "zombie", "idle", "check", "get", "walk", "unlock"}

\* Every variable has its type; a reader looks at a task exactly while it is
\* in a call.
Shapes ==
    /\ cached \in [Cpu -> [Slot -> Area \cup {None}]]
    /\ cpu \in [Cpu -> {"up", "down", "off"}] /\ mapped \subseteq Area
    /\ charged \in [Area -> 0 .. Pages] /\ data \in [Area -> Task \cup {Blank}]
    /\ pc \in [Actor -> AnyPc] /\ i \in [Actor -> Nat \ {0}]
    /\ stack \in [Task -> Area \cup {None}]
    /\ refs \in [Task -> Nat] /\ usage \in [Task -> Nat]
    /\ dead \in [Task -> BOOLEAN] /\ secret \in [Task -> BOOLEAN]
    /\ nr_stack \in Int
    /\ look \in [Reader -> Looking \cup {NotLooking}]

\* The indices of the loops stay in range.
Indices ==
    /\ \A x \in Actor : pc[x] \in {"take", "put"} => i[x] \in Slot
    /\ \A x \in Actor : pc[x] = "charge" => i[x] \in 1 .. Pages

\* A reader looks at a task, which is made then, exactly while it is in a call.
Readers ==
    \A r \in Reader :
        \/ pc[r] = "idle" /\ look[r] = NotLooking
        \/ pc[r] \in ReaderPc /\ look[r] \in Looking /\ usage[look[r].task] > 0

\* A task that is being made has a stack from its allocation to its release,
\* charged for as many pages as the loop has done.
Making1(t) ==
    usage[t] = 0 =>
        /\ pc[t] \in MakingPc /\ refs[t] \in {0, 1} /\ ~dead[t] /\ ~secret[t]
        /\ stack[t] # None <=> pc[t] \in {"clear", "charge", "dup", "free", "put"}
        /\ pc[t] \in {"clear", "put"} => charged[stack[t]] = 0
        /\ pc[t] = "charge" => charged[stack[t]] = i[t] - 1
        /\ pc[t] = "dup" => charged[stack[t]] = Pages

\* A task that is made counts who uses its stack and who uses the task_struct.
\* It has a charged stack as long as somebody does, and after that until the
\* one who brought the count to zero has released it.
Made1(t) ==
    usage[t] > 0 =>
        /\ pc[t] \in MadePc
        /\ pc[t] \in {"made", "live"} \/ dead[t]
        /\ refs[t] = Cardinality(Holders(t)) /\ usage[t] = Cardinality(Keepers(t))
        /\ refs[t] > 0 => /\ stack[t] # None /\ Releasers(t) = {}
                          /\ charged[stack[t]] = Pages
        /\ refs[t] = 0 => (stack[t] # None <=> Releasers(t) # {})
        /\ \A x, y \in Releasers(t) : x = y
        /\ \A x \in Releasers(t) : /\ pc[x] = "release" => charged[stack[t]] = Pages
                                   /\ pc[x] = "put" => charged[stack[t]] = 0

Tasks == \A t \in Task : Making1(t) /\ Made1(t)

\* Every mapped area is in one place, a slot or a task, and nothing else is;
\* pages stay charged at tasks only.
SlotsApart ==
    \A c, d \in Cpu, n, m \in Slot :
        cached[c][n] # None /\ cached[c][n] = cached[d][m] => c = d /\ n = m
StacksApart ==
    \A t, u \in Task : stack[t] # None /\ stack[t] = stack[u] => t = u
SlotsNotStacks ==
    \A c \in Cpu, n \in Slot, t \in Task : cached[c][n] # None => cached[c][n] # stack[t]
PlacedMapped ==
    /\ \A c \in Cpu, n \in Slot : cached[c][n] \in mapped \cup {None}
    /\ \A t \in Task : stack[t] \in mapped \cup {None}
MappedPlaced ==
    \A a \in mapped : \/ \E c \in Cpu, n \in Slot : cached[c][n] = a
                      \/ \E t \in Task : stack[t] = a
OffEmpty ==
    \A c \in Cpu, n \in Slot : cpu[c] = "off" => cached[c][n] = None
LooseUncharged ==
    \A a \in Area : (\A t \in Task : stack[t] # a) => charged[a] = 0

PlacesInv ==
    /\ SlotsApart /\ StacksApart /\ SlotsNotStacks /\ PlacedMapped /\ MappedPlaced
    /\ OffEmpty /\ LooseUncharged

\* Tasks whose stack is counted in NR_KERNEL_STACK_KB.
Whole1(t) == usage[t] > 0 /\ (refs[t] > 0 \/ \E x \in Releasers(t) : pc[x] = "release")
Whole == {t \in Task : Whole1(t)}

Counted == IsFiniteSet(Whole) /\ nr_stack = Pages * Cardinality(Whole)

Traced ==
    \A r \in Reader : look[r].file = "stack" /\ pc[r] \in {"get", "walk"} =>
                      ~secret[look[r].task]

StackInv ==
    /\ Shapes /\ Indices /\ Readers /\ Tasks /\ PlacesInv
    /\ Counted /\ Traced /\ warned = FALSE

(***************************************************************************)
(* Counting.                                                               *)
(***************************************************************************)
LEMMA CardFacts ==
    ASSUME NEW S, IsFiniteSet(S)
    PROVE  /\ Cardinality(S) \in Nat
           /\ Cardinality(S) = 0 <=> S = {}
           /\ \A x \in S : Cardinality(S) = 1 => S = {x}
           /\ \A x : /\ IsFiniteSet(S \cup {x}) /\ IsFiniteSet(S \ {x})
                     /\ x \notin S => Cardinality(S \cup {x}) = Cardinality(S) + 1
                     /\ x \in S => Cardinality(S \ {x}) = Cardinality(S) - 1
<1>1. Cardinality(S) \in Nat /\ (Cardinality(S) = 0 <=> S = {})
  BY FS_CardinalityType, FS_EmptySet
<1>2. \A x : /\ IsFiniteSet(S \cup {x}) /\ IsFiniteSet(S \ {x})
             /\ x \notin S => Cardinality(S \cup {x}) = Cardinality(S) + 1
             /\ x \in S => Cardinality(S \ {x}) = Cardinality(S) - 1
  BY FS_AddElement, FS_RemoveElement
<1>3. ASSUME NEW x \in S, Cardinality(S) = 1 PROVE S = {x}
  <2>1. PICK y : S = {y}
    BY <1>3, FS_Singleton
  <2>2. QED
    BY <2>1
<1>4. QED
  BY <1>1, <1>2, <1>3

\* Tasks and readers are apart, and neither is None.
LEMMA Disjoint ==
    /\ \A t \in Task : t \in Actor /\ t \notin Reader /\ Obj(t) = t /\ t # None
    /\ \A r \in Reader : r \in Actor /\ r \notin Task /\ Obj(r) = look[r].task
    /\ \A x \in Actor : x \in Task \/ x \in Reader
    /\ None \notin Area /\ None \notin Task
BY StackAssumption DEF Actor, Obj

\* Readers and the task itself are all who can count on a task.
LEMMA SetsFinite ==
    ASSUME NEW t \in Task
    PROVE  /\ IsFiniteSet(Holders(t)) /\ IsFiniteSet(Keepers(t))
           /\ Holders(t) \subseteq Reader \cup {t}
<1>1. Holders(t) \subseteq Reader \cup {t} /\ Keepers(t) \subseteq Reader \cup {t}
  BY Disjoint DEF Holders, Keepers
<1>2. IsFiniteSet(Reader \cup {t})
  BY StackAssumption, FS_AddElement
<1>3. QED
  BY <1>1, <1>2, FS_Subset

\* A step of the actor x deals with the task o alone.
Local(x, o) ==
    /\ Obj(x) \in {o, None} /\ Obj(x)' \in {o, None}
    /\ \A y \in Actor \ {x} : Obj(y)' = Obj(y)
    /\ \A y \in Actor \ {x, o} : pc'[y] = pc[y] /\ i'[y] = i[y]
    /\ \A t \in Task \ {o} : /\ refs'[t] = refs[t] /\ usage'[t] = usage[t]
                            /\ stack'[t] = stack[t] /\ dead'[t] = dead[t]
                            /\ secret'[t] = secret[t]
    /\ \A a \in Area : a = stack[o] \/ charged'[a] = charged[a]

\* It leaves every other task as it was.
LEMMA Others ==
    ASSUME StackInv, NEW x \in Actor, NEW o \in Task,
           Local(x, o),
           NEW t \in Task, t # o
    PROVE  Making1(t)' /\ Made1(t)' /\ (Whole1(t)' <=> Whole1(t))
<1>1. t # x /\ o \notin Reader /\ Obj(o) = o /\ t # None
  BY Disjoint DEF Local
<1>2. /\ Holders(t)' = Holders(t) /\ Releasers(t)' = Releasers(t) /\ Keepers(t)' = Keepers(t)
      /\ \A y \in Releasers(t) : pc'[y] = pc[y]
  <2>1. \A y \in Actor : Obj(y)' = t <=> Obj(y) = t
    BY <1>1 DEF Local
  <2>2. \A y \in Actor : Obj(y) = t => pc'[y] = pc[y]
    BY <1>1, Disjoint DEF Local
  <2>3. QED
    BY <2>1, <2>2 DEF Holders, Releasers, Keepers
<1>3. stack[t] # None => stack[t] \in Area /\ stack[t] # stack[o]
  BY <1>1 DEF StackInv, Shapes, PlacesInv, StacksApart
<1>4. pc'[t] = pc[t] /\ i'[t] = i[t] /\ refs'[t] = refs[t] /\ usage'[t] = usage[t]
      /\ stack'[t] = stack[t] /\ dead'[t] = dead[t] /\ secret'[t] = secret[t]
  BY <1>1, Disjoint DEF Local
<1>5. stack[t] # None => charged'[stack[t]] = charged[stack[t]]
  BY <1>3 DEF Local
<1>6. Making1(t) /\ Made1(t)
  BY DEF StackInv, Tasks
<1>7. Making1(t)'
  BY <1>4, <1>5, <1>6 DEF Making1
<1>8. Made1(t)'
  <2>1. \A y \in Releasers(t) : usage[t] > 0 => stack[t] # None
    BY <1>6, SetsFinite, CardFacts DEF Made1, StackInv, Shapes
  <2>2. QED
    BY <1>2, <1>4, <1>5, <1>6, <2>1 DEF Made1
<1>9. Whole1(t)' <=> Whole1(t)
  BY <1>2, <1>4 DEF Whole1
<1>10. QED
  BY <1>7, <1>8, <1>9

\* What such a step leaves to show: its own task, and the count of stacks.
LEMMA TaskStep ==
    ASSUME StackInv, NEW x \in Actor, NEW o \in Task,
           Local(x, o),
           Making1(o)', Made1(o)',
           \/ (Whole1(o)' <=> Whole1(o)) /\ nr_stack' = nr_stack
           \/ ~Whole1(o) /\ Whole1(o)' /\ nr_stack' = nr_stack + Pages
           \/ Whole1(o) /\ ~Whole1(o)' /\ nr_stack' = nr_stack - Pages
    PROVE  Tasks' /\ Counted'
<1>1. ASSUME NEW t \in Task, t # o
      PROVE  Making1(t)' /\ Made1(t)' /\ (Whole1(t)' <=> Whole1(t))
  BY <1>1, Others
<1>2. Tasks'
  BY <1>1 DEF Tasks
<1>3. IsFiniteSet(Whole) /\ nr_stack = Pages * Cardinality(Whole)
  BY DEF StackInv, Counted
<1>4. Pages \in Nat /\ Cardinality(Whole) \in Nat
  BY <1>3, CardFacts, StackAssumption
<1>5. CASE (Whole1(o)' <=> Whole1(o)) /\ nr_stack' = nr_stack
  <2>1. Whole' = Whole
    BY <1>1, <1>5 DEF Whole
  <2>2. QED
    BY <1>2, <1>3, <1>5, <2>1 DEF Counted
<1>6. CASE ~Whole1(o) /\ Whole1(o)' /\ nr_stack' = nr_stack + Pages
  <2>1. Whole' = Whole \cup {o} /\ o \notin Whole
    BY <1>1, <1>6 DEF Whole
  <2>2. IsFiniteSet(Whole') /\ Cardinality(Whole') = Cardinality(Whole) + 1
    BY <1>3, <2>1, CardFacts
  <2>3. Pages * (Cardinality(Whole) + 1) = Pages * Cardinality(Whole) + Pages
    BY <1>4
  <2>4. QED
    BY <1>2, <1>3, <1>6, <2>2, <2>3 DEF Counted
<1>7. CASE Whole1(o) /\ ~Whole1(o)' /\ nr_stack' = nr_stack - Pages
  <2>1. Whole' = Whole \ {o} /\ o \in Whole
    BY <1>1, <1>7 DEF Whole
  <2>2. IsFiniteSet(Whole') /\ Cardinality(Whole') = Cardinality(Whole) - 1
    BY <1>3, <2>1, CardFacts
  <2>3. Pages * (Cardinality(Whole) - 1) = Pages * Cardinality(Whole) - Pages
    BY <1>4
  <2>4. QED
    BY <1>2, <1>3, <1>7, <2>2, <2>3 DEF Counted
<1>8. QED
  BY <1>5, <1>6, <1>7

\* How an actor that goes on to l enters and leaves the sets of its task.
LEMMA Moved ==
    ASSUME pc \in [Actor -> AnyPc], NEW x \in Actor, NEW l, NEW o \in Task, Obj(x) = o,
           pc' = [pc EXCEPT ![x] = l], look' = look
    PROVE  /\ Holders(o)' = IF l \in {"made", "live", "walk"} THEN Holders(o) \cup {x}
                            ELSE Holders(o) \ {x}
           /\ Releasers(o)' = IF l \in {"release", "free", "put"} THEN Releasers(o) \cup {x}
                              ELSE Releasers(o) \ {x}
           /\ Keepers(o)' = IF l # "zombie" THEN Keepers(o) \cup {x} ELSE Keepers(o) \ {x}
           /\ \A y \in Actor : Obj(y)' = Obj(y)
<1>1. \A y \in Actor : Obj(y)' = Obj(y)
  BY DEF Obj
<1>2. QED
  BY <1>1 DEF Holders, Releasers, Keepers

(***************************************************************************)
(* Making a task.                                                          *)
(***************************************************************************)
\* Nothing moves.
LEMMA PlacesSame ==
    ASSUME StackInv, UNCHANGED <<cached, cpu, mapped, stack>>,
           \A a \in Area : charged'[a] = charged[a] \/ \E t \in Task : stack[t] = a
    PROVE  PlacesInv'
BY DEF StackInv, PlacesInv, SlotsApart, StacksApart, SlotsNotStacks, PlacedMapped,
       MappedPlaced, OffEmpty, LooseUncharged

\* dup_task_struct begins.
LEMMA AllocStep ==
    ASSUME StackInv, NEW t \in Task, alloc_task_struct_node(t)
    PROVE  StackInv'
<1> USE DEF alloc_task_struct_node, Enter, Goto, areas, tasks
<1>1. Shapes' /\ ~warned'
  BY Disjoint DEF AnyPc, StackInv, Shapes
<1>0. PlacesInv'
  BY PlacesSame
<1>2. Indices' /\ Readers' /\ Traced'
  BY Disjoint, StackAssumption DEF StackInv, Shapes, Indices, Readers, Traced, Slot
<1>3. Local(t, t)
  BY Disjoint DEF Local, Obj, StackInv, Shapes
<1>4. usage[t] = 0
  BY DEF StackInv, Shapes, Tasks, Made1, MadePc
<1>5. Making1(t)' /\ Made1(t)' /\ (Whole1(t)' <=> Whole1(t))
  BY <1>4, Disjoint DEF StackInv, Shapes, Tasks, Making1, MakingPc, Made1, Whole1
<1>6. Tasks' /\ Counted'
  BY <1>3, <1>5, Disjoint, TaskStep
<1>7. QED
  BY <1>0, <1>1, <1>2, <1>6 DEF StackInv

\* An area goes from a slot to a task that has none.
LEMMA SlotToTask ==
    ASSUME StackInv, NEW t \in Task, NEW c \in Cpu, NEW n \in Slot,
           cpu[c] = "up", cached[c][n] # None, stack[t] = None,
           stack' = [stack EXCEPT ![t] = cached[c][n]],
           cached' = [cached EXCEPT ![c][n] = None],
           UNCHANGED <<cpu, mapped, charged>>
    PROVE  PlacesInv'
<1>1. /\ \A d \in Cpu, m \in Slot :
            cached'[d][m] = IF d = c /\ m = n THEN None ELSE cached[d][m]
      /\ \A u \in Task : stack'[u] = IF u = t THEN cached[c][n] ELSE stack[u]
  BY DEF StackInv, Shapes
<1>2. \A u \in Task : stack[u] # cached[c][n]
  BY DEF StackInv, PlacesInv, SlotsNotStacks
<1>3. SlotsApart' /\ StacksApart' /\ SlotsNotStacks'
  BY <1>1, <1>2 DEF StackInv, PlacesInv, SlotsApart, StacksApart, SlotsNotStacks
<1>4. PlacedMapped'
  BY <1>1 DEF StackInv, PlacesInv, PlacedMapped
<1>5. MappedPlaced'
  BY <1>1 DEF StackInv, PlacesInv, MappedPlaced
<1>6. OffEmpty'
  BY <1>1 DEF StackInv, PlacesInv, OffEmpty
<1>7. LooseUncharged'
  BY <1>1, Disjoint DEF StackInv, PlacesInv, LooseUncharged
<1>8. QED
  BY <1>3, <1>4, <1>5, <1>6, <1>7 DEF PlacesInv

\* this_cpu_xchg takes a stack out of a slot, or goes on to the next one.
LEMMA TakeStep ==
    ASSUME StackInv, NEW t \in Task, NEW c \in Cpu, TakeCached(t, c)
    PROVE  StackInv'
<1> DEFINE s == cached[c][i[t]]
<1>0. /\ i[t] \in Slot /\ t \in Actor /\ cpu[c] = "up" /\ pc[t] = "take"
      /\ UNCHANGED <<cpu, mapped, charged, data, refs, usage, dead, secret, nr_stack, look, warned>>
  BY Disjoint DEF StackInv, Indices, Up, TakeCached
<1>1. usage[t] = 0 /\ stack[t] = None
  BY <1>0 DEF StackInv, Shapes, Tasks, Making1, Made1, MadePc
<1>2. CASE s # None
  <2>1. /\ cached' = [cached EXCEPT ![c][i[t]] = None] /\ stack' = [stack EXCEPT ![t] = s]
        /\ pc' = [pc EXCEPT ![t] = "clear"] /\ i' = [i EXCEPT ![t] = 1]
    BY <1>2 DEF TakeCached, EmptySlot, Enter, Goto
  <2>2. charged[s] = 0 /\ s \in Area
    BY <1>0, <1>1, <1>2 DEF StackInv, Shapes, PlacesInv, SlotsNotStacks, LooseUncharged
  <2>3. Shapes'
    BY <1>0, <2>1, <2>2 DEF AnyPc, StackInv, Shapes
  <2>4. Indices' /\ Readers' /\ Traced' /\ ~warned'
    BY <1>0, <2>1, Disjoint DEF StackInv, Shapes, Indices, Readers, Traced
  <2>5. PlacesInv'
    BY <1>0, <1>1, <1>2, <2>1, SlotToTask
  <2>6. Local(t, t)
    BY <1>0, <2>1, Disjoint DEF Local, Obj, StackInv, Shapes
  <2>7. Making1(t)' /\ Made1(t)' /\ (Whole1(t)' <=> Whole1(t))
    BY <1>0, <1>1, <1>2, <2>1, <2>2 DEF StackInv, Shapes, Tasks, Making1, MakingPc, Made1, Whole1
  <2>8. QED
    BY <1>0, <2>3, <2>4, <2>5, <2>6, <2>7, TaskStep DEF StackInv
<1>3. CASE s = None
  <2>1. cached' = cached /\ stack' = stack
    BY <1>0, <1>3 DEF TakeCached, EmptySlot, StackInv, Shapes
  <2>2. \/ pc' = pc /\ i[t] < NrCached /\ i' = [i EXCEPT ![t] = @ + 1]
        \/ pc' = [pc EXCEPT ![t] = "vmalloc"] /\ i' = [i EXCEPT ![t] = 1]
    BY <1>3 DEF TakeCached, Enter, Goto
  <2>3. Shapes'
    BY <1>0, <2>1, <2>2 DEF AnyPc, StackInv, Shapes
  <2>4. Readers' /\ Traced' /\ ~warned'
    BY <1>0, <2>2, Disjoint DEF StackInv, Shapes, Readers, Traced
  <2>9. Indices'
    <3>1. \A x \in Actor \ {t} : pc'[x] = pc[x] /\ i'[x] = i[x]
      BY <2>2 DEF StackInv, Shapes
    <3>2. pc'[t] = "vmalloc" \/ (pc'[t] = "take" /\ i'[t] \in Slot)
      BY <1>0, <2>2, StackAssumption DEF StackInv, Shapes, Slot
    <3>3. QED
      BY <3>1, <3>2 DEF StackInv, Indices
  <2>5. PlacesInv'
    BY <1>0, <2>1 DEF StackInv, PlacesInv, SlotsApart, StacksApart, SlotsNotStacks, PlacedMapped,
                      MappedPlaced, OffEmpty, LooseUncharged
  <2>6. Local(t, t)
    BY <1>0, <2>1, <2>2, Disjoint DEF Local, Obj, StackInv, Shapes
  <2>7. Making1(t)' /\ Made1(t)' /\ (Whole1(t)' <=> Whole1(t))
    BY <1>0, <1>1, <2>1, <2>2 DEF StackInv, Shapes, Tasks, Making1, MakingPc, Made1, Whole1
  <2>8. QED
    BY <1>0, <2>3, <2>4, <2>5, <2>6, <2>7, <2>9, TaskStep DEF StackInv
<1>4. QED
  BY <1>2, <1>3

\* The memset of a reused stack.
LEMMA ClearStep ==
    ASSUME StackInv, NEW t \in Task, ClearStack(t)
    PROVE  StackInv'
<1> USE DEF ClearStack, Zeroed, Enter, Goto, tasks
<1>1. Shapes' /\ ~warned'
  <2>1. data' \in [Area -> Task \cup {Blank}]
    BY DEF StackInv, Shapes
  <2>2. QED
    BY <2>1, Disjoint DEF AnyPc, StackInv, Shapes
<1>2. Indices' /\ Readers' /\ Traced'
  BY Disjoint, StackAssumption DEF StackInv, Shapes, Indices, Readers, Traced, Slot
<1>3. Local(t, t)
  BY Disjoint DEF Local, Obj, StackInv, Shapes
<1>4. usage[t] = 0
  BY DEF StackInv, Shapes, Tasks, Made1, MadePc
<1>5. Making1(t)' /\ Made1(t)' /\ (Whole1(t)' <=> Whole1(t))
  BY <1>4, Disjoint DEF StackInv, Shapes, Tasks, Making1, MakingPc, Made1, Whole1
<1>6. Tasks' /\ Counted'
  BY <1>3, <1>5, Disjoint, TaskStep
<1>7. PlacesInv'
  BY PlacesSame
<1>8. QED
  BY <1>1, <1>2, <1>6, <1>7 DEF StackInv

\* A new stack, or no memory for one.
LEMMA VmallocStep ==
    ASSUME StackInv, NEW t \in Task, Vmalloc(t)
    PROVE  StackInv'
<1> USE DEF Enter, Goto
<1>0. t \in Actor /\ pc[t] = "vmalloc" /\ UNCHANGED <<cached, cpu, charged, refs, usage, dead,
                                              secret, nr_stack, look, warned>>
  BY Disjoint DEF Vmalloc
<1>1. usage[t] = 0 /\ stack[t] = None
  BY <1>0 DEF StackInv, Shapes, Tasks, Making1, Made1, MadePc
<1>2. CASE Goto(t, "none") /\ UNCHANGED <<mapped, data, stack, i>>
  <2>1. Shapes' /\ PlacesInv' /\ ~warned'
    BY <1>0, <1>2, Disjoint, PlacesSame DEF AnyPc, StackInv, Shapes
  <2>2. Indices' /\ Readers' /\ Traced'
    BY <1>0, <1>2, Disjoint, StackAssumption DEF StackInv, Shapes, Indices, Readers, Traced, Slot
  <2>3. Local(t, t)
    BY <1>0, <1>2, Disjoint DEF Local, Obj, StackInv, Shapes
  <2>4. Making1(t)' /\ Made1(t)' /\ (Whole1(t)' <=> Whole1(t))
    BY <1>0, <1>1, <1>2, Disjoint DEF StackInv, Shapes, Tasks, Making1, MakingPc, Made1, Whole1
  <2>5. Tasks' /\ Counted'
    BY <1>0, <2>3, <2>4, Disjoint, TaskStep
  <2>6. QED
    BY <2>1, <2>2, <2>5 DEF StackInv
<1>3. ASSUME NEW s \in Area \ mapped,
             mapped' = mapped \cup {s}, data' = [data EXCEPT ![s] = Blank],
             stack' = [stack EXCEPT ![t] = s], Enter(t, "charge")
      PROVE  StackInv'
  <2>1. Shapes'
    BY <1>0, <1>3, Disjoint DEF AnyPc, StackInv, Shapes
  <2>2. Indices' /\ Readers' /\ Traced' /\ ~warned'
    BY <1>0, <1>3, Disjoint, StackAssumption DEF StackInv, Shapes, Indices, Readers, Traced, Slot
  <2>3. Local(t, t)
    BY <1>0, <1>3, Disjoint DEF Local, Obj, StackInv, Shapes
  <2>4. \A u \in Task : stack'[u] = IF u = t THEN s ELSE stack[u]
    BY <1>3 DEF StackInv, Shapes
  <2>5. (\A u \in Task : stack[u] # s) /\ s # None /\ charged[s] = 0
    BY <1>3, Disjoint DEF StackInv, PlacesInv, PlacedMapped, LooseUncharged
  <2>6. PlacesInv'
    <3>1. \A d \in Cpu, m \in Slot : cached[d][m] # s
      BY <1>3, Disjoint DEF StackInv, PlacesInv, PlacedMapped
    <3>2. SlotsApart' /\ StacksApart' /\ SlotsNotStacks' /\ OffEmpty'
      BY <1>0, <2>4, <2>5, <3>1
         DEF StackInv, PlacesInv, SlotsApart, StacksApart, SlotsNotStacks, OffEmpty
    <3>3. PlacedMapped'
      BY <1>0, <1>3, <2>4 DEF StackInv, PlacesInv, PlacedMapped
    <3>4. MappedPlaced'
      <4>1. stack'[t] = s /\ \A u \in Task, a \in mapped : stack[u] = a => stack'[u] = a
        BY <1>1, <2>4, Disjoint DEF StackInv, Shapes
      <4>2. QED
        BY <1>0, <1>3, <4>1 DEF StackInv, PlacesInv, MappedPlaced
    <3>5. LooseUncharged'
      BY <1>0, <1>1, <2>4, Disjoint DEF StackInv, PlacesInv, LooseUncharged
    <3>6. QED
      BY <3>2, <3>3, <3>4, <3>5 DEF PlacesInv
  <2>7. Making1(t)' /\ Made1(t)' /\ (Whole1(t)' <=> Whole1(t))
    BY <1>0, <1>1, <1>3, <2>5, Disjoint
       DEF StackInv, Shapes, Tasks, Making1, MakingPc, Made1, Whole1
  <2>8. Tasks' /\ Counted'
    BY <1>0, <2>3, <2>7, Disjoint, TaskStep
  <2>9. QED
    BY <2>1, <2>2, <2>6, <2>8 DEF StackInv
<1>4. QED
  BY <1>2, <1>3 DEF Vmalloc

\* A page is charged, or charging fails half-way.
LEMMA ChargeStep ==
    ASSUME StackInv, NEW t \in Task, ChargePage(t)
    PROVE  StackInv'
<1> DEFINE s == stack[t]
<1>0. /\ t \in Actor /\ pc[t] = "charge" /\ i[t] \in 1 .. Pages
      /\ UNCHANGED <<cached, cpu, mapped, data, stack, refs, usage, dead, secret,
                     nr_stack, look, warned>>
  BY Disjoint DEF StackInv, Indices, ChargePage, tasks
<1>1. usage[t] = 0 /\ s # None /\ charged[s] = i[t] - 1 /\ s \in Area
  BY <1>0 DEF StackInv, Shapes, Tasks, Making1, Made1, MadePc
<1>2. \/ /\ charged' = [charged EXCEPT ![s] = i[t]] /\ pc' = pc
         /\ i[t] < Pages /\ i' = [i EXCEPT ![t] = @ + 1]
      \/ /\ charged' = [charged EXCEPT ![s] = i[t]] /\ i[t] = Pages
         /\ pc' = [pc EXCEPT ![t] = "dup"] /\ i' = [i EXCEPT ![t] = 1]
      \/ charged' = charged /\ pc' = [pc EXCEPT ![t] = "free"] /\ i' = [i EXCEPT ![t] = 1]
  <2>1. charged[s] + 1 = i[t] /\ (i[t] < Pages \/ i[t] = Pages)
    BY <1>0, <1>1, StackAssumption
  <2>2. QED
    BY <2>1 DEF ChargePage, Enter, Goto
<1>3. Shapes'
  <2>1. charged' \in [Area -> 0 .. Pages]
    BY <1>0, <1>1, <1>2, StackAssumption DEF StackInv, Shapes
  <2>2. pc' \in [Actor -> AnyPc] /\ i' \in [Actor -> Nat \ {0}]
    BY <1>0, <1>2 DEF AnyPc, StackInv, Shapes
  <2>3. QED
    BY <1>0, <2>1, <2>2 DEF StackInv, Shapes
<1>4. Readers' /\ Traced' /\ ~warned'
  BY <1>0, <1>2, Disjoint DEF StackInv, Shapes, Readers, Traced
<1>5. Indices'
  <2>1. \A x \in Actor \ {t} : pc'[x] = pc[x] /\ i'[x] = i[x]
    BY <1>2 DEF StackInv, Shapes
  <2>2. pc'[t] \in {"dup", "free"} \/ (pc'[t] = "charge" /\ i'[t] \in 1 .. Pages)
    BY <1>0, <1>2, StackAssumption DEF StackInv, Shapes
  <2>3. QED
    BY <2>1, <2>2 DEF StackInv, Indices
<1>6. PlacesInv'
  <2>1. \A a \in Area : charged'[a] = charged[a] \/ a = s
    BY <1>2 DEF StackInv, Shapes
  <2>2. QED
    BY <1>0, <2>1, PlacesSame
<1>7. Local(t, t)
  BY <1>0, <1>2, Disjoint DEF Local, Obj, StackInv, Shapes
<1>8. Making1(t)' /\ Made1(t)' /\ (Whole1(t)' <=> Whole1(t))
  <2>1. \/ pc'[t] = "charge" /\ charged'[s] = i'[t] - 1
        \/ pc'[t] = "dup" /\ charged'[s] = Pages
        \/ pc'[t] = "free"
    BY <1>0, <1>1, <1>2, StackAssumption DEF StackInv, Shapes
  <2>2. QED
    BY <1>0, <1>1, <2>1 DEF StackInv, Tasks, Making1, MakingPc, Made1, Whole1
<1>9. QED
  BY <1>0, <1>3, <1>4, <1>5, <1>6, <1>7, <1>8, TaskStep DEF StackInv

\* The task is complete, or dup_task_struct fails.
LEMMA DupStep ==
    ASSUME StackInv, NEW t \in Task, NEW err \in BOOLEAN, DupStruct(t, err)
    PROVE  StackInv'
<1>0. /\ t \in Actor /\ pc[t] = "dup" /\ refs' = [refs EXCEPT ![t] = 1]
      /\ UNCHANGED <<cached, cpu, mapped, charged, data, stack, dead, secret, look, warned>>
  BY Disjoint DEF DupStruct, areas
<1>1. /\ usage[t] = 0 /\ stack[t] # None /\ charged[stack[t]] = Pages
      /\ ~dead[t] /\ ~secret[t] /\ refs[t] \in {0, 1}
  BY <1>0 DEF StackInv, Shapes, Tasks, Making1, Made1, MadePc
<1>2. PlacesInv'
  BY <1>0, PlacesSame
<1>3. CASE err
  <2>1. /\ pc' = [pc EXCEPT ![t] = "free"] /\ i' = [i EXCEPT ![t] = 1]
        /\ UNCHANGED <<usage, nr_stack>>
    BY <1>3 DEF DupStruct, Enter, Goto
  <2>2. Shapes' /\ ~warned'
    BY <1>0, <2>1 DEF AnyPc, StackInv, Shapes
  <2>3. Indices' /\ Readers' /\ Traced'
    BY <1>0, <2>1, Disjoint DEF StackInv, Shapes, Indices, Readers, Traced
  <2>4. Local(t, t)
    BY <1>0, <2>1, Disjoint DEF Local, Obj, StackInv, Shapes
  <2>5. Making1(t)' /\ Made1(t)' /\ (Whole1(t)' <=> Whole1(t))
    BY <1>0, <1>1, <2>1 DEF StackInv, Shapes, Tasks, Making1, MakingPc, Made1, Whole1
  <2>6. QED
    BY <1>0, <1>2, <2>1, <2>2, <2>3, <2>4, <2>5, TaskStep DEF StackInv
<1>4. CASE ~err
  <2>1. /\ pc' = [pc EXCEPT ![t] = "made"] /\ i' = i
        /\ usage' = [usage EXCEPT ![t] = 1] /\ nr_stack' = nr_stack + Pages
    BY <1>4 DEF DupStruct, Goto
  <2>2. Shapes' /\ ~warned'
    BY <1>0, <2>1, StackAssumption DEF AnyPc, StackInv, Shapes
  <2>3. \A r \in Reader : look[r].task # t
    BY <1>1, Disjoint DEF StackInv, Readers, Looking, NotLooking
  <2>4. Indices' /\ Traced'
    BY <1>0, <2>1, Disjoint DEF StackInv, Shapes, Indices, Traced
  <2>5. Readers'
    BY <1>0, <2>1, Disjoint DEF StackInv, Shapes, Readers, Looking
  <2>6. Local(t, t)
    BY <1>0, <2>1, Disjoint DEF Local, Obj, StackInv, Shapes
  <2>7. Holders(t)' = {t} /\ Keepers(t)' = {t} /\ Releasers(t)' = {}
    <3>1. \A x \in Actor : Obj(x)' = t => x = t
      BY <1>0, <2>3, Disjoint DEF Obj, Actor
    <3>2. pc'[t] = "made" /\ Obj(t)' = t
      BY <1>0, <2>1, Disjoint DEF StackInv, Shapes, Obj
    <3>3. QED
      BY <1>0, <3>1, <3>2 DEF Holders, Keepers, Releasers
  <2>8. Making1(t)' /\ Made1(t)' /\ Whole1(t)' /\ ~Whole1(t)
    <3>1. Cardinality({t}) = 1
      BY FS_Singleton
    <3>2. usage'[t] = 1 /\ refs'[t] = 1 /\ pc'[t] = "made" /\ stack'[t] = stack[t]
      BY <1>0, <2>1 DEF StackInv, Shapes
    <3>3. QED
      BY <1>0, <1>1, <2>7, <3>1, <3>2 DEF Making1, Made1, MadePc, Whole1
  <2>9. QED
    BY <1>0, <1>2, <2>1, <2>2, <2>4, <2>5, <2>6, <2>8, TaskStep DEF StackInv
<1>5. QED
  BY <1>3, <1>4

(***************************************************************************)
(* Using and releasing a stack.                                            *)
(***************************************************************************)
\* Facts about a task that is made and one who counts on its stack.
LEMMA HolderFacts ==
    ASSUME StackInv, NEW t \in Task, usage[t] > 0, NEW x \in Holders(t)
    PROVE  /\ refs[t] \in Nat /\ refs[t] > 0 /\ stack[t] # None /\ stack[t] \in Area
           /\ Releasers(t) = {} /\ charged[stack[t]] = Pages
           /\ refs[t] = 1 => Holders(t) = {x}
           /\ Cardinality(Holders(t) \ {x}) = refs[t] - 1
           /\ refs[t] # 1 => refs[t] - 1 > 0
<1>1. IsFiniteSet(Holders(t)) /\ refs[t] = Cardinality(Holders(t))
  BY SetsFinite DEF StackInv, Tasks, Made1
<1>2. refs[t] \in Nat /\ refs[t] # 0 /\ (refs[t] = 1 => Holders(t) = {x})
      /\ Cardinality(Holders(t) \ {x}) = refs[t] - 1
  BY <1>1, CardFacts
<1>3. refs[t] > 0 /\ (refs[t] # 1 => refs[t] - 1 > 0)
  BY <1>2
<1>4. QED
  BY <1>1, <1>2, <1>3 DEF StackInv, Tasks, Made1, Shapes

\* put_task_stack by x, of the stack of t, which is dead if x is t: the last
\* one becomes its only releaser.
LEMMA PutStackStep ==
    ASSUME StackInv, NEW x \in Actor, NEW t \in Task, Obj(x) = t, usage[t] > 0,
           x \in Holders(t), NEW l \in {"gone", "unlock"},
           put_task_stack(x, l), x = t => l = "gone" /\ dead'[t],
           x # t => l = "unlock" /\ dead' = dead,
           \A u \in Task \ {t} : dead'[u] = dead[u], dead' \in [Task -> BOOLEAN],
           UNCHANGED <<cached, cpu, mapped, charged, data, stack, usage, secret,
                       nr_stack, look, warned>>
    PROVE  StackInv'
<1> DEFINE l2 == IF refs[t] = 1 THEN "release" ELSE l
<1>0. /\ refs' = [refs EXCEPT ![t] = @ - 1] /\ pc' = [pc EXCEPT ![x] = l2]
      /\ i' = i \/ i' = [i EXCEPT ![x] = 1]
  BY DEF put_task_stack, Enter, Goto
<1>1. /\ refs[t] \in Nat /\ refs[t] > 0 /\ stack[t] # None /\ stack[t] \in Area
      /\ Releasers(t) = {} /\ charged[stack[t]] = Pages
      /\ refs[t] = 1 => Holders(t) = {x}
      /\ Cardinality(Holders(t) \ {x}) = refs[t] - 1
      /\ refs[t] # 1 => refs[t] - 1 > 0
  BY HolderFacts
<1>2. pc[x] \in {"made", "live", "walk"} /\ (x \in Reader => x # t)
  BY Disjoint DEF Holders
<1>3. Shapes' /\ ~warned'
  <2>1. refs' \in [Task -> Nat]
    BY <1>0, <1>1 DEF StackInv, Shapes
  <2>2. pc' \in [Actor -> AnyPc] /\ i' \in [Actor -> Nat \ {0}]
    BY <1>0 DEF AnyPc, StackInv, Shapes
  <2>3. QED
    BY <2>1, <2>2 DEF StackInv, Shapes
<1>4. Indices'
  BY <1>0 DEF StackInv, Shapes, Indices
<1>5. Readers'
  <2>1. \A r \in Reader : pc'[r] = pc[r] \/ (r = x /\ pc'[r] \in {"release", "unlock"})
    BY <1>0, Disjoint DEF StackInv, Shapes
  <2>2. QED
    BY <1>2, <2>1 DEF StackInv, Readers, ReaderPc
<1>6. Traced'
  BY <1>0, <1>2, Disjoint DEF StackInv, Shapes, Traced
<1>7. PlacesInv'
  BY PlacesSame
<1>8. Local(x, t)
  BY <1>0, Disjoint DEF Local, Obj, StackInv, Shapes
<1>9. /\ Holders(t)' = Holders(t) \ {x}
      /\ Releasers(t)' = IF refs[t] = 1 THEN {x} ELSE {}
      /\ Keepers(t)' = Keepers(t)
  <2>1. x \in Keepers(t)
    BY <1>2 DEF Keepers
  <2>2. l2 \in {"release", "gone", "unlock"} /\ (l2 = "release" <=> refs[t] = 1)
    OBVIOUS
  <2>3. pc \in [Actor -> AnyPc] /\ pc' = [pc EXCEPT ![x] = l2] /\ look' = look
    BY <1>0 DEF StackInv, Shapes
  <2> HIDE DEF l2
  <2>4. /\ Holders(t)' = IF l2 \in {"made", "live", "walk"} THEN Holders(t) \cup {x}
                         ELSE Holders(t) \ {x}
        /\ Releasers(t)' = IF l2 \in {"release", "free", "put"} THEN Releasers(t) \cup {x}
                           ELSE Releasers(t) \ {x}
        /\ Keepers(t)' = IF l2 # "zombie" THEN Keepers(t) \cup {x} ELSE Keepers(t) \ {x}
    BY <2>3, Moved
  <2>5. QED
    BY <1>1, <2>1, <2>2, <2>4
<1>10. pc'[t] \in MadePc /\ (pc'[t] \in {"made", "live"} \/ dead'[t])
  <2>1. CASE x = t
    BY <1>0, <2>1 DEF StackInv, Shapes, MadePc
  <2>2. CASE x # t
    BY <1>0, <2>2, Disjoint DEF StackInv, Shapes, Tasks, Made1
  <2>3. QED
    BY <2>1, <2>2
<1>11. Made1(t)' /\ Making1(t)' /\ (Whole1(t)' <=> Whole1(t))
  <2>1. refs'[t] = refs[t] - 1 /\ usage'[t] = usage[t] /\ stack'[t] = stack[t]
        /\ charged'[stack'[t]] = Pages /\ usage[t] = Cardinality(Keepers(t))
    BY <1>0, <1>1 DEF StackInv, Shapes, Tasks, Made1
  <2>2. refs[t] = 1 => pc'[x] = "release"
    BY <1>0 DEF StackInv, Shapes
  <2>3. Made1(t)'
    BY <1>1, <1>9, <1>10, <2>1, <2>2 DEF Made1
  <2>4. Making1(t)' /\ (Whole1(t)' <=> Whole1(t))
    BY <1>1, <1>9, <2>1, <2>2 DEF Making1, Whole1
  <2>5. QED
    BY <2>3, <2>4
<1>12. QED
  BY <1>3, <1>4, <1>5, <1>6, <1>7, <1>8, <1>11, TaskStep DEF StackInv

\* The task itself puts its stack.
LEMMA LastUseByTask ==
    ASSUME StackInv, NEW t \in Task, ForkFails(t) \/ Exit(t)
    PROVE  StackInv'
<1>1. /\ pc[t] \in {"made", "live"} /\ dead' = [dead EXCEPT ![t] = TRUE]
      /\ put_task_stack(t, "gone")
      /\ UNCHANGED <<cached, cpu, mapped, charged, data, stack, usage, secret,
                     nr_stack, look, warned>>
  BY DEF ForkFails, Exit, MarkDead, areas
<1>2. usage[t] > 0 /\ t \in Holders(t) /\ Obj(t) = t /\ t \in Actor
  BY <1>1, Disjoint DEF StackInv, Shapes, Tasks, Making1, MakingPc, Holders
<1>3. /\ dead'[t] /\ dead' \in [Task -> BOOLEAN]
      /\ \A u \in Task \ {t} : dead'[u] = dead[u]
  BY <1>1 DEF StackInv, Shapes
<1>4. QED
  BY <1>1, <1>2, <1>3, PutStackStep

\* The task runs.
LEMMA StartStep ==
    ASSUME StackInv, NEW t \in Task, Start(t)
    PROVE  StackInv'
<1>0. /\ t \in Actor /\ pc[t] = "made" /\ data' = [data EXCEPT ![stack[t]] = t]
      /\ pc' = [pc EXCEPT ![t] = "live"] /\ Obj(t) = t
      /\ UNCHANGED <<cached, cpu, mapped, charged, stack, refs, usage, dead, secret, i,
                     nr_stack, look, warned>>
  BY Disjoint DEF Start, Goto, tasks
<1>1. usage[t] > 0
  BY <1>0 DEF StackInv, Shapes, Tasks, Making1, MakingPc
<1>2. Shapes' /\ ~warned'
  <2>1. data' \in [Area -> Task \cup {Blank}]
    BY <1>0 DEF StackInv, Shapes
  <2>2. QED
    BY <1>0, <2>1 DEF AnyPc, StackInv, Shapes
<1>3. Indices' /\ Readers' /\ Traced'
  BY <1>0, Disjoint DEF StackInv, Shapes, Indices, Readers, Traced
<1>4. PlacesInv'
  BY <1>0, PlacesSame
<1>5. Local(t, t)
  BY <1>0, Disjoint DEF Local, Obj, StackInv, Shapes
<1>6. Holders(t)' = Holders(t) /\ Releasers(t)' = Releasers(t) /\ Keepers(t)' = Keepers(t)
  <2>1. \A y \in Actor : Obj(y)' = Obj(y) /\ pc'[y] = IF y = t THEN "live" ELSE pc[y]
    BY <1>0 DEF Obj, StackInv, Shapes
  <2>2. QED
    BY <1>0, <2>1 DEF Holders, Releasers, Keepers
<1>7. Made1(t)' /\ Making1(t)' /\ (Whole1(t)' <=> Whole1(t))
  <2>1. pc'[t] = "live" /\ \A x \in Releasers(t) : pc'[x] = pc[x]
    BY <1>0 DEF StackInv, Shapes, Releasers
  <2>2. QED
    BY <1>0, <1>1, <1>6, <2>1 DEF StackInv, Tasks, Made1, MadePc, Making1, Whole1
<1>8. QED
  BY <1>0, <1>2, <1>3, <1>4, <1>5, <1>7, TaskStep DEF StackInv

\* execve waits for readers that have passed lock_trace.
LEMMA ExecStep ==
    ASSUME StackInv, NEW t \in Task, Exec(t)
    PROVE  StackInv'
<1>0. /\ t \in Actor /\ pc[t] = "live" /\ secret' = [secret EXCEPT ![t] = TRUE]
      /\ UNCHANGED <<cached, cpu, mapped, charged, data, stack, refs, usage, dead, pc, i,
                     nr_stack, look, warned>>
  BY Disjoint DEF Exec, areas
<1>1. Shapes' /\ Indices' /\ Readers' /\ ~warned'
  BY <1>0 DEF StackInv, Shapes, Indices, Readers
<1>2. PlacesInv'
  BY <1>0, PlacesSame
<1>3. Traced'
  <2>1. \A r \in Reader : look[r].file = "stack" /\ look[r].task = t => pc[r] \notin {"get", "walk"}
    <3>1. ASSUME NEW r \in Reader, look[r].file = "stack", look[r].task = t
          PROVE  look[r] = [task |-> t, file |-> "stack"]
      BY <3>1 DEF StackInv, Shapes, Looking, NotLooking
    <3>2. QED
      BY <3>1 DEF Exec, ExecLockFree
  <2>2. QED
    BY <1>0, <2>1 DEF StackInv, Shapes, Traced, Looking, NotLooking
<1>4. usage[t] > 0
  BY <1>0 DEF StackInv, Shapes, Tasks, Making1, MakingPc
<1>5. \A u \in Task : /\ Holders(u)' = Holders(u) /\ Releasers(u)' = Releasers(u)
                      /\ Keepers(u)' = Keepers(u)
  BY <1>0 DEF Holders, Releasers, Keepers, Obj
<1>6. Tasks'
  <2>1. \A u \in Task : secret'[u] = secret[u] \/ usage[u] > 0
    BY <1>0, <1>4 DEF StackInv, Shapes
  <2>2. ASSUME NEW u \in Task PROVE Making1(u)'
    <3>1. Making1(u) /\ usage[u] \in Nat
      BY DEF StackInv, Shapes, Tasks
    <3>2. CASE usage[u] = 0
      <4>1. secret'[u] <=> secret[u]
        BY <2>1, <3>2
      <4>2. QED
        BY <1>0, <3>1, <4>1 DEF Making1
    <3>3. CASE usage[u] # 0
      BY <1>0, <3>3 DEF Making1
    <3>4. QED
      BY <3>2, <3>3
  <2>3. \A u \in Task : Made1(u)'
    BY <1>0, <1>5 DEF StackInv, Tasks, Made1
  <2>4. QED
    BY <2>2, <2>3 DEF Tasks
<1>7. Counted'
  <2>1. Whole' = Whole
    BY <1>0, <1>5 DEF Whole, Whole1
  <2>2. QED
    BY <1>0, <2>1 DEF StackInv, Counted
<1>8. QED
  BY <1>1, <1>2, <1>3, <1>6, <1>7 DEF StackInv

\* Facts about one who releases a stack: of a task that is made, or of one
\* whose making failed.
LEMMA ReleaserFacts ==
    ASSUME StackInv, NEW x \in Actor, pc[x] \in {"release", "free", "put"}
    PROVE  /\ Obj(x) \in Task /\ stack[Obj(x)] # None /\ stack[Obj(x)] \in Area
           /\ x \in Releasers(Obj(x)) /\ x \in Keepers(Obj(x)) /\ x \notin Holders(Obj(x))
           /\ usage[Obj(x)] > 0 => refs[Obj(x)] = 0 /\ dead[Obj(x)] /\ Releasers(Obj(x)) = {x}
           /\ usage[Obj(x)] = 0 => x = Obj(x) /\ pc[x] # "release"
           /\ x \in Reader => usage[Obj(x)] > 0
           /\ pc[x] = "release" => charged[stack[Obj(x)]] = Pages
           /\ pc[x] = "put" => charged[stack[Obj(x)]] = 0
           /\ \A r \in Reader : usage[Obj(x)] = 0 => look[r].task # Obj(x)
<1> DEFINE t == Obj(x)
<1>1. t \in Task /\ (x \in Reader => usage[t] > 0) /\ (x \in Task => t = x)
  BY Disjoint DEF StackInv, Readers, Looking, Obj
<1>2. x \in Releasers(t) /\ x \in Keepers(t) /\ x \notin Holders(t)
  BY DEF Releasers, Keepers, Holders
<1>3. usage[t] \in Nat /\ refs[t] \in Nat
  BY <1>1 DEF StackInv, Shapes
<1>4. \A r \in Reader : usage[t] = 0 => look[r].task # t
  BY <1>1, <1>3, Disjoint DEF StackInv, Readers, NotLooking
<1>5. CASE usage[t] > 0
  <2>1. Made1(t)
    BY <1>1 DEF StackInv, Tasks
  <2>2. refs[t] = 0 /\ Releasers(t) = {x} /\ stack[t] # None
    BY <1>2, <1>3, <1>5, <2>1 DEF Made1
  <2>3. t \notin Holders(t) => dead[t]
    BY <1>1, <1>5, <2>1, Disjoint DEF Made1, Holders
  <2>4. Holders(t) = {}
    BY <1>1, <1>5, <2>1, <2>2, SetsFinite, CardFacts DEF Made1
  <2>5. QED
    BY <1>1, <1>2, <1>3, <1>4, <1>5, <2>1, <2>2, <2>3, <2>4 DEF Made1, StackInv, Shapes
<1>6. CASE usage[t] = 0
  <2>1. x = t /\ pc[x] # "release" /\ stack[t] # None /\ (pc[x] = "put" => charged[stack[t]] = 0)
    BY <1>1, <1>6, Disjoint DEF StackInv, Tasks, Making1, MakingPc
  <2>2. QED
    BY <1>1, <1>2, <1>3, <1>4, <1>6, <2>1 DEF StackInv, Shapes
<1>7. QED
  BY <1>3, <1>5, <1>6

\* Only the stack of a dead task is released.
LEMMA ReleaseStep ==
    ASSUME StackInv, NEW x \in Actor, release_task_stack(x)
    PROVE  StackInv'
<1>a. pc[x] = "release"
  BY DEF release_task_stack
<1>b. PICK t \in Task : Obj(x) = t /\ usage[t] \in Nat
  BY <1>a, ReleaserFacts DEF StackInv, Shapes
<1>0. /\ stack[t] # None /\ stack[t] \in Area
      /\ x \in Releasers(t) /\ x \in Keepers(t) /\ x \notin Holders(t)
      /\ usage[t] > 0 /\ refs[t] = 0 /\ dead[t] /\ Releasers(t) = {x}
      /\ charged[stack[t]] = Pages
  BY <1>a, <1>b, ReleaserFacts
<1>1. /\ pc' = [pc EXCEPT ![x] = "free"] /\ i' = [i EXCEPT ![x] = 1] /\ nr_stack' = nr_stack - Pages
      /\ UNCHANGED <<cached, cpu, mapped, charged, data, stack, refs, usage, dead, secret,
                     look, warned>>
  BY <1>0, <1>b DEF release_task_stack, Enter, Goto, areas, tasks
<1>2. Shapes' /\ ~warned'
  BY <1>1, StackAssumption DEF AnyPc, StackInv, Shapes
<1>3. Indices' /\ Traced'
  BY <1>a, <1>1, Disjoint DEF StackInv, Shapes, Indices, Traced
<1>4. Readers'
  BY <1>a, <1>1, Disjoint DEF StackInv, Shapes, Readers, ReaderPc
<1>5. PlacesInv'
  BY <1>1, PlacesSame
<1>6. Local(x, t)
  BY <1>b, <1>1, Disjoint DEF Local, Obj, StackInv, Shapes
<1>7. Holders(t)' = Holders(t) /\ Releasers(t)' = {x} /\ Keepers(t)' = Keepers(t)
  <2>1. \A y \in Actor : Obj(y)' = Obj(y) /\ pc'[y] = IF y = x THEN "free" ELSE pc[y]
    BY <1>1 DEF Obj, StackInv, Shapes
  <2>2. QED
    BY <1>a, <1>b, <1>0, <2>1 DEF Holders, Releasers, Keepers
<1>8. Made1(t)' /\ Making1(t)' /\ Whole1(t) /\ ~Whole1(t)'
  <2>1. pc'[x] = "free" /\ (pc'[t] = pc[t] \/ x = t)
    BY <1>0, <1>1, Disjoint DEF StackInv, Shapes
  <2>2. Made1(t)
    BY <1>0 DEF StackInv, Tasks
  <2>3. Made1(t)'
    BY <1>0, <1>1, <1>7, <2>1, <2>2 DEF Made1, MadePc
  <2>4. Making1(t)' /\ Whole1(t) /\ ~Whole1(t)'
    BY <1>a, <1>0, <1>1, <1>7, <2>1 DEF Making1, Whole1
  <2>5. QED
    BY <2>3, <2>4
<1>9. QED
  BY <1>0, <1>1, <1>2, <1>3, <1>4, <1>5, <1>6, <1>8, TaskStep DEF StackInv

\* The pages of a stack are uncharged before it leaves its task.
LEMMA UnchargeStep ==
    ASSUME StackInv, NEW x \in Actor, UnchargeStack(x)
    PROVE  StackInv'
<1>a. PICK t \in Task : Obj(x) = t /\ usage[t] \in Nat
  BY ReleaserFacts DEF UnchargeStack, StackInv, Shapes
<1>0. /\ pc[x] = "free" /\ charged' = [charged EXCEPT ![stack[t]] = 0]
      /\ pc' = [pc EXCEPT ![x] = "put"] /\ i' = [i EXCEPT ![x] = 1]
      /\ UNCHANGED <<cached, cpu, mapped, data, stack, refs, usage, dead, secret,
                     nr_stack, look, warned>>
  BY <1>a DEF UnchargeStack, Uncharge, Enter, Goto, tasks
<1>1. /\ stack[t] # None /\ stack[t] \in Area
      /\ x \in Releasers(t) /\ x \in Keepers(t) /\ x \notin Holders(t)
      /\ usage[t] > 0 => refs[t] = 0 /\ dead[t] /\ Releasers(t) = {x}
      /\ usage[t] = 0 => x = t
  BY <1>0, <1>a, ReleaserFacts
<1>3. Shapes' /\ ~warned'
  <2>1. charged' \in [Area -> 0 .. Pages]
    <3>1. 0 \in 0 .. Pages
      BY StackAssumption
    <3>2. QED
      BY <1>0, <3>1 DEF StackInv, Shapes
  <2>2. QED
    BY <1>0, <2>1 DEF AnyPc, StackInv, Shapes
<1>4. Indices' /\ Traced'
  BY <1>0, Disjoint, StackAssumption DEF StackInv, Shapes, Indices, Traced, Slot
<1>5. Readers'
  BY <1>0, Disjoint DEF StackInv, Shapes, Readers, ReaderPc
<1>6. PlacesInv'
  <2>1. \A a \in Area : charged'[a] = charged[a] \/ a = stack[t]
    BY <1>0 DEF StackInv, Shapes
  <2>2. QED
    BY <1>0, <1>1, <2>1, PlacesSame
<1>7. Local(x, t)
  BY <1>0, <1>1, <1>a, Disjoint DEF Local, Obj, StackInv, Shapes
<1>8. Holders(t)' = Holders(t) /\ Releasers(t)' = Releasers(t) /\ Keepers(t)' = Keepers(t)
  <2>1. \A y \in Actor : Obj(y)' = Obj(y) /\ pc'[y] = IF y = x THEN "put" ELSE pc[y]
    BY <1>0 DEF Obj, StackInv, Shapes
  <2>2. QED
    BY <1>0, <1>a, <2>1 DEF Holders, Releasers, Keepers
<1>9. Made1(t)' /\ Making1(t)' /\ (Whole1(t)' <=> Whole1(t))
  <2>1. /\ pc'[x] = "put" /\ (pc'[t] = pc[t] \/ x = t) /\ usage[t] \in Nat
        /\ charged'[stack[t]] = 0
    BY <1>0, <1>1, Disjoint DEF StackInv, Shapes
  <2>2. Made1(t) /\ Making1(t)
    BY <1>1 DEF StackInv, Tasks
  <2>3. Made1(t)'
    BY <1>0, <1>1, <1>8, <2>1, <2>2 DEF Made1, MadePc
  <2>4. Making1(t)'
    BY <1>0, <1>1, <2>1, <2>2 DEF Making1, MakingPc
  <2>5. Whole1(t)' <=> Whole1(t)
    BY <1>0, <1>1, <1>8, <2>1 DEF Whole1
  <2>6. QED
    BY <2>3, <2>4, <2>5
<1>10. QED
  BY <1>0, <1>1, <1>3, <1>4, <1>5, <1>6, <1>7, <1>9, TaskStep DEF StackInv

\* A stack that is out of its task's hands, in a slot or unmapped.
LEMMA GoneStep ==
    ASSUME StackInv, NEW x \in Actor, pc[x] = "put", StackGone(x),
           Shapes', PlacesInv',
           UNCHANGED <<charged, refs, usage, dead, secret, nr_stack, look, warned>>
    PROVE  StackInv'
<1>a. PICK t \in Task : Obj(x) = t /\ usage[t] \in Nat
  BY ReleaserFacts DEF StackInv, Shapes
<1>b. PICK l : l = IF x \in Reader THEN "unlock" ELSE IF usage[t] = 0 THEN "none" ELSE "gone"
  OBVIOUS
<1>0. /\ stack' = [stack EXCEPT ![t] = None]
      /\ pc' = [pc EXCEPT ![x] = l] /\ i' = [i EXCEPT ![x] = 1]
  BY <1>a, <1>b DEF StackGone, Enter, Goto
<1>1. /\ stack[t] # None /\ stack[t] \in Area
      /\ x \in Releasers(t) /\ x \in Keepers(t) /\ x \notin Holders(t)
      /\ usage[t] > 0 => refs[t] = 0 /\ dead[t] /\ Releasers(t) = {x}
      /\ usage[t] = 0 => x = t
      /\ x \in Reader => usage[t] > 0
  BY <1>a, ReleaserFacts
<1>2. l \in {"unlock", "none", "gone"}
      /\ (x \in Reader <=> l = "unlock") /\ (l = "none" => usage[t] = 0)
      /\ (usage[t] = 0 => l = "none")
  BY <1>1, <1>b
<1>4. Indices' /\ Traced'
  BY <1>0, <1>2, Disjoint DEF StackInv, Shapes, Indices, Traced
<1>5. Readers'
  BY <1>0, <1>2, Disjoint DEF StackInv, Shapes, Readers, ReaderPc
<1>7. Local(x, t)
  BY <1>0, <1>1, <1>a, Disjoint DEF Local, Obj, StackInv, Shapes
<1>8. Holders(t)' = Holders(t) /\ Releasers(t)' = Releasers(t) \ {x} /\ Keepers(t)' = Keepers(t)
  <2>1. \A y \in Actor : Obj(y)' = Obj(y) /\ pc'[y] = IF y = x THEN l ELSE pc[y]
    BY <1>0 DEF Obj, StackInv, Shapes
  <2>2. QED
    BY <1>2, <1>a, <2>1 DEF Holders, Releasers, Keepers
<1>9. Made1(t)' /\ Making1(t)' /\ (Whole1(t)' <=> Whole1(t))
  <2>1. /\ pc'[x] = l /\ (pc'[t] = pc[t] \/ x = t) /\ usage[t] \in Nat
        /\ stack'[t] = None /\ (x = t => l \in {"none", "gone"})
    BY <1>0, <1>1, <1>2, Disjoint DEF StackInv, Shapes
  <2>2. Made1(t) /\ Making1(t)
    BY <1>1 DEF StackInv, Tasks
  <2>3. Made1(t)'
    BY <1>1, <1>2, <1>8, <2>1, <2>2 DEF Made1, MadePc
  <2>4. Making1(t)'
    BY <1>1, <1>2, <2>1, <2>2 DEF Making1, MakingPc
  <2>5. Whole1(t)' <=> Whole1(t)
    BY <1>0, <1>1, <1>8, <2>1 DEF Whole1
  <2>6. QED
    BY <2>3, <2>4, <2>5
<1>10. QED
  BY <1>1, <1>4, <1>5, <1>7, <1>9, TaskStep DEF StackInv

\* A stack goes to a slot or is unmapped, and is in one place still.
LEMMA PutCachedStep ==
    ASSUME StackInv, NEW x \in Actor, NEW c \in Cpu, PutCached(x, c)
    PROVE  StackInv'
<1>a. pc[x] = "put" /\ i[x] \in Slot /\ cpu[c] = "up"
      /\ UNCHANGED <<cpu, charged, data, refs, usage, dead, secret, nr_stack, look, warned>>
  BY DEF PutCached, Up, StackInv, Indices
<1>b. PICK t \in Task : Obj(x) = t
  BY <1>a, ReleaserFacts
<1>1. stack[t] # None /\ stack[t] \in Area /\ charged[stack[t]] = 0
  BY <1>a, <1>b, ReleaserFacts
<1>2. \A u \in Task : u # t => stack[u] # stack[t]
  BY <1>1 DEF StackInv, PlacesInv, StacksApart
<1>3. \A d \in Cpu, m \in Slot : cached[d][m] # stack[t]
  BY <1>1 DEF StackInv, PlacesInv, SlotsNotStacks
<1>4. CASE StackGone(x) /\ (\/ /\ SlotFree(c, i[x]) /\ mapped' = mapped
                               /\ cached' = [cached EXCEPT ![c][i[x]] = stack[t]]
                            \/ cached' = cached /\ mapped' = mapped \ {stack[t]})
  <2>1. /\ stack' = [stack EXCEPT ![t] = None] /\ i' = [i EXCEPT ![x] = 1]
        /\ pc' = [pc EXCEPT ![x] = IF x \in Reader THEN "unlock"
                                   ELSE IF usage[t] = 0 THEN "none" ELSE "gone"]
    BY <1>4, <1>b DEF StackGone, Enter, Goto
  <2>2. \A u \in Task : stack'[u] = IF u = t THEN None ELSE stack[u]
    BY <2>1 DEF StackInv, Shapes
  <2>3. Shapes'
    <3>1. cached' \in [Cpu -> [Slot -> Area \cup {None}]] /\ mapped' \subseteq Area
      <4>1. cached[c] \in [Slot -> Area \cup {None}]
        BY DEF StackInv, Shapes
      <4>2. [cached[c] EXCEPT ![i[x]] = stack[t]] \in [Slot -> Area \cup {None}]
        BY <1>1, <4>1
      <4>3. QED
        BY <1>4, <4>2 DEF StackInv, Shapes
    <3>2. pc' \in [Actor -> AnyPc] /\ i' \in [Actor -> Nat \ {0}]
      BY <2>1 DEF AnyPc, StackInv, Shapes
    <3>3. QED
      BY <1>a, <2>1, <3>1, <3>2 DEF StackInv, Shapes
  <2>4. LooseUncharged'
    BY <1>a, <1>1, <2>2 DEF StackInv, PlacesInv, LooseUncharged
  <2>5. StacksApart'
    BY <2>2 DEF StackInv, PlacesInv, StacksApart
  <2>6. CASE SlotFree(c, i[x]) /\ mapped' = mapped /\ cached' = [cached EXCEPT ![c][i[x]] = stack[t]]
    <3>1. \A d \in Cpu, m \in Slot :
            cached'[d][m] = IF d = c /\ m = i[x] THEN stack[t] ELSE cached[d][m]
      BY <1>a, <2>6 DEF StackInv, Shapes
    <3>2. SlotsApart' /\ SlotsNotStacks'
      BY <1>1, <1>2, <1>3, <2>2, <3>1 DEF StackInv, PlacesInv, SlotsApart, SlotsNotStacks
    <3>3. PlacedMapped' /\ OffEmpty'
      BY <1>a, <2>2, <2>6, <3>1 DEF StackInv, PlacesInv, PlacedMapped, OffEmpty
    <3>4. MappedPlaced'
      <4>1. cached'[c][i[x]] = stack[t] /\ cached[c][i[x]] = None
        BY <1>a, <2>6, <3>1 DEF SlotFree
      <4>2. \A a \in mapped : a # None
        BY Disjoint DEF StackInv, Shapes
      <4>3. \A a \in mapped : (\E d \in Cpu, m \in Slot : cached[d][m] = a) =>
                              \E d \in Cpu, m \in Slot : cached'[d][m] = a
        BY <3>1, <4>1, <4>2
      <4>4. \A a \in mapped : (\E u \in Task : stack[u] = a) =>
                              a = stack[t] \/ \E u \in Task : stack'[u] = a
        BY <2>2
      <4>5. QED
        BY <1>a, <2>6, <4>1, <4>3, <4>4 DEF StackInv, PlacesInv, MappedPlaced
    <3>5. PlacesInv'
      BY <2>4, <2>5, <3>2, <3>3, <3>4 DEF PlacesInv
    <3>6. QED
      BY <1>a, <1>4, <2>3, <3>5, GoneStep
  <2>7. CASE cached' = cached /\ mapped' = mapped \ {stack[t]}
    <3>1. SlotsApart' /\ SlotsNotStacks' /\ OffEmpty'
      BY <1>a, <2>2, <2>7 DEF StackInv, PlacesInv, SlotsApart, SlotsNotStacks, OffEmpty
    <3>2. PlacedMapped'
      BY <1>2, <1>3, <2>2, <2>7 DEF StackInv, PlacesInv, PlacedMapped
    <3>3. MappedPlaced'
      BY <2>2, <2>7 DEF StackInv, PlacesInv, MappedPlaced
    <3>4. PlacesInv'
      BY <2>4, <2>5, <3>1, <3>2, <3>3 DEF PlacesInv
    <3>5. QED
      BY <1>a, <1>4, <2>3, <3>4, GoneStep
  <2>8. QED
    BY <1>4, <2>6, <2>7
<1>5. CASE i[x] < NrCached /\ i' = [i EXCEPT ![x] = @ + 1] /\ UNCHANGED <<cached, mapped, stack, pc>>
  <2>1. Shapes'
    BY <1>a, <1>5 DEF StackInv, Shapes
  <2>2. Readers' /\ Traced' /\ ~warned'
    BY <1>a, <1>5 DEF StackInv, Readers, Traced
  <2>3. Indices'
    <3>1. i'[x] \in Slot /\ \A y \in Actor \ {x} : i'[y] = i[y]
      BY <1>a, <1>5, StackAssumption DEF StackInv, Shapes, Slot
    <3>2. QED
      BY <1>a, <1>5, <3>1 DEF StackInv, Indices
  <2>4. PlacesInv'
    BY <1>a, <1>5, PlacesSame
  <2>5. Local(x, t)
    BY <1>a, <1>b, <1>5, Disjoint DEF Local, Obj, StackInv, Shapes
  <2>6. \A u \in Task : /\ Holders(u)' = Holders(u) /\ Releasers(u)' = Releasers(u)
                        /\ Keepers(u)' = Keepers(u)
    BY <1>a, <1>5 DEF Holders, Releasers, Keepers, Obj
  <2>7. Made1(t)' /\ Making1(t)' /\ (Whole1(t)' <=> Whole1(t))
    <3>1. Made1(t) /\ Making1(t) /\ (pc[t] # "charge" \/ i'[t] = i[t])
      BY <1>a, <1>5, Disjoint DEF StackInv, Shapes, Tasks
    <3>2. Made1(t) /\ Making1(t)
      BY DEF StackInv, Tasks
    <3>3. QED
      BY <1>a, <1>5, <2>6, <3>1, <3>2 DEF Made1, Making1, Whole1
  <2>8. QED
    BY <1>a, <2>1, <2>2, <2>3, <2>4, <2>5, <2>7, TaskStep DEF StackInv
<1>6. QED
  BY <1>4, <1>5, <1>b DEF PutCached

(***************************************************************************)
(* The count of users of a task_struct.                                    *)
(***************************************************************************)
\* Facts about one who counts on a task that is made.
LEMMA KeeperFacts ==
    ASSUME StackInv, NEW t \in Task, usage[t] > 0, NEW x \in Keepers(t)
    PROVE  /\ usage[t] \in Nat /\ usage[t] = 1 => Keepers(t) = {x}
           /\ Cardinality(Keepers(t) \ {x}) = usage[t] - 1
           /\ Holders(t) \cup Releasers(t) \subseteq Keepers(t)
           /\ Holders(t) = {} => refs[t] = 0
<1>1. IsFiniteSet(Keepers(t)) /\ usage[t] = Cardinality(Keepers(t))
      /\ refs[t] = Cardinality(Holders(t))
  BY SetsFinite DEF StackInv, Tasks, Made1
<1>2. Holders(t) \cup Releasers(t) \subseteq Keepers(t)
  BY DEF Holders, Releasers, Keepers
<1>3. Holders(t) = {} => refs[t] = 0
  BY <1>1, FS_EmptySet
<1>4. QED
  BY <1>1, <1>2, <1>3, CardFacts

\* The task_struct loses the reference of its task.
LEMMA DropStep ==
    ASSUME StackInv, NEW t \in Task, DropTask(t)
    PROVE  StackInv'
<1>0. /\ pc[t] = "gone" /\ put_task_struct(t, "zombie") /\ Obj(t) = t /\ t \in Actor
      /\ UNCHANGED <<cached, cpu, mapped, charged, data, stack, refs, i, nr_stack, look>>
  BY Disjoint DEF DropTask, areas
<1>1. usage[t] \in Nat /\ usage[t] > 0 /\ Made1(t) /\ t \in Keepers(t)
      /\ t \notin Holders(t) /\ t \notin Releasers(t)
  BY <1>0 DEF StackInv, Shapes, Tasks, Making1, MakingPc, Keepers, Holders, Releasers
<1>2. /\ usage[t] = 1 => Keepers(t) = {t}
      /\ Cardinality(Keepers(t) \ {t}) = usage[t] - 1
      /\ Holders(t) \cup Releasers(t) \subseteq Keepers(t)
      /\ Holders(t) = {} => refs[t] = 0
  BY <1>1, KeeperFacts
<1>3. usage[t] = 1 => Holders(t) = {} /\ Releasers(t) = {} /\ refs[t] = 0 /\ stack[t] = None
  BY <1>1, <1>2 DEF Made1
<1>4. PICK l : l = IF usage[t] = 1 THEN "none" ELSE "zombie"
  OBVIOUS
<1>5. /\ usage' = [usage EXCEPT ![t] = @ - 1]
      /\ dead' = [dead EXCEPT ![t] = usage[t] # 1 /\ @]
      /\ secret' = [secret EXCEPT ![t] = usage[t] # 1 /\ @]
      /\ warned' = FALSE
      /\ pc' = [pc EXCEPT ![t] = l]
  <2>1. DOMAIN pc = Actor
    BY DEF StackInv, Shapes
  <2>2. QED
    BY <1>0, <1>3, <1>4, <2>1 DEF put_task_struct, StackInv, Shapes
<1>6. Shapes'
  <2>1. usage' \in [Task -> Nat]
    BY <1>1, <1>5 DEF StackInv, Shapes
  <2>2. dead' \in [Task -> BOOLEAN] /\ secret' \in [Task -> BOOLEAN]
    BY <1>5 DEF StackInv, Shapes
  <2>3. pc' \in [Actor -> AnyPc]
    BY <1>4, <1>5 DEF AnyPc, StackInv, Shapes
  <2>4. QED
    BY <1>0, <2>1, <2>2, <2>3 DEF StackInv, Shapes
<1>7. Indices'
  BY <1>0, <1>4, <1>5 DEF StackInv, Shapes, Indices
<1>8. PlacesInv'
  BY <1>0, PlacesSame
<1>9. \A r \in Reader : look[r].task = t => usage[t] > 1
  <2>1. ASSUME NEW r \in Reader, look[r].task = t PROVE usage[t] # 1
    <3>1. r \in Keepers(t) /\ r # t
      BY <2>1, Disjoint DEF Keepers, StackInv, Readers, ReaderPc, Looking, NotLooking
    <3>2. QED
      BY <1>2, <3>1
  <2>2. QED
    BY <1>1, <2>1
<1>10. Readers'
  <2>1. \A r \in Reader : pc'[r] = pc[r]
    BY <1>5, Disjoint DEF StackInv, Shapes
  <2>2. \A u \in Task : usage'[u] = IF u = t THEN usage[t] - 1 ELSE usage[u]
    BY <1>5 DEF StackInv, Shapes
  <2>3. QED
    BY <1>0, <1>1, <1>9, <2>1, <2>2 DEF StackInv, Readers, Looking
<1>11. Traced'
  <2>1. \A r \in Reader : pc'[r] = pc[r]
    BY <1>5, Disjoint DEF StackInv, Shapes
  <2>2. \A u \in Task : secret'[u] => secret[u]
    BY <1>5 DEF StackInv, Shapes
  <2>3. \A r \in Reader : pc[r] \in {"get", "walk"} => look[r].task \in Task
    BY DEF StackInv, Readers, Looking
  <2>4. QED
    BY <1>0, <2>1, <2>2, <2>3 DEF StackInv, Traced
<1>12. Local(t, t)
  BY <1>0, <1>5, Disjoint DEF Local, Obj, StackInv, Shapes
<1>13. /\ Holders(t)' = Holders(t) /\ Releasers(t)' = Releasers(t)
       /\ l = "zombie" => Keepers(t)' = Keepers(t) \ {t}
  <2>1. \A y \in Actor : Obj(y)' = Obj(y) /\ pc'[y] = IF y = t THEN l ELSE pc[y]
    BY <1>0, <1>5 DEF Obj, StackInv, Shapes
  <2>2. QED
    BY <1>0, <1>4, <2>1 DEF Holders, Releasers, Keepers
<1>14. Made1(t)' /\ Making1(t)' /\ (Whole1(t)' <=> Whole1(t))
  <2>1. /\ pc'[t] = l /\ usage'[t] = usage[t] - 1 /\ stack'[t] = stack[t] /\ refs'[t] = refs[t]
        /\ usage[t] = 1 => ~dead'[t] /\ ~secret'[t]
        /\ usage[t] # 1 => (dead'[t] <=> dead[t])
    BY <1>0, <1>5 DEF StackInv, Shapes
  <2>2. \A x \in Releasers(t) : pc'[x] = pc[x]
    BY <1>1, <1>5 DEF StackInv, Shapes, Releasers
  <2>3. CASE usage[t] = 1
    BY <1>3, <1>4, <2>1, <2>3 DEF Made1, Making1, MakingPc, Whole1
  <2>4. CASE usage[t] # 1
    <3>1. usage'[t] > 0
      BY <1>1, <2>1, <2>4
    <3>2. Made1(t)'
      BY <1>0, <1>1, <1>2, <1>4, <1>13, <2>1, <2>2, <2>4 DEF Made1, MadePc
    <3>3. Making1(t)' /\ (Whole1(t)' <=> Whole1(t))
      BY <1>1, <1>13, <2>1, <2>2, <3>1 DEF Making1, Whole1
    <3>4. QED
      BY <3>2, <3>3
  <2>5. QED
    BY <2>3, <2>4
<1>15. QED
  BY <1>0, <1>5, <1>6, <1>7, <1>8, <1>10, <1>11, <1>12, <1>14, TaskStep DEF StackInv

(***************************************************************************)
(* Readers.                                                                *)
(***************************************************************************)
LEMMA OpenStep ==
    ASSUME StackInv, NEW r \in Reader, NEW t \in Task, NEW f \in {"stack", "wchan"}, Open(r, t, f)
    PROVE  StackInv'
<1>0. /\ pc[r] = "idle" /\ r \in Actor /\ r \notin Task /\ r # t
      /\ look' = [look EXCEPT ![r] = [task |-> t, file |-> f]]
      /\ usage' = [usage EXCEPT ![t] = @ + 1] /\ pc' = [pc EXCEPT ![r] = "check"]
      /\ UNCHANGED <<cached, cpu, mapped, charged, data, stack, refs, dead, secret, i, nr_stack, warned>>
  BY Disjoint DEF Open, Goto, areas
<1>1. usage[t] \in Nat /\ usage[t] > 0
  BY DEF Open, StackInv, Shapes, Tasks, Making1, MakingPc
<1>2. look[r] = NotLooking /\ Obj(r) = None /\ Obj(r)' = t
  BY <1>0, Disjoint DEF StackInv, Shapes, Readers, ReaderPc, NotLooking, Obj
<1>3. Shapes'
  <2>1. look' \in [Reader -> Looking \cup {NotLooking}]
    BY <1>0 DEF StackInv, Shapes, Looking
  <2>2. QED
    BY <1>0, <2>1 DEF AnyPc, StackInv, Shapes
<1>4. Indices' /\ warned' = FALSE
  BY <1>0 DEF StackInv, Shapes, Indices
<1>5. Readers' /\ Traced'
  <2>1. \A q \in Reader \ {r} : pc'[q] = pc[q] /\ look'[q] = look[q]
    BY <1>0, Disjoint DEF StackInv, Shapes
  <2>2. pc'[r] = "check" /\ look'[r] = [task |-> t, file |-> f]
    BY <1>0 DEF StackInv, Shapes
  <2>3. \A u \in Task : usage[u] > 0 => usage'[u] > 0
    BY <1>0, <1>1 DEF StackInv, Shapes
  <2>4. usage'[t] > 0
    BY <1>1, <2>3
  <2>5. Traced'
    BY <1>0, <2>1, <2>2 DEF StackInv, Traced
  <2>6. Readers'
    BY <2>1, <2>2, <2>3, <2>4 DEF StackInv, Readers, ReaderPc, Looking
  <2>7. QED
    BY <2>5, <2>6
<1>6. PlacesInv'
  BY <1>0, PlacesSame
<1>7. \A y \in Actor \ {r} : Obj(y)' = Obj(y) /\ pc'[y] = pc[y]
  BY <1>0, Disjoint DEF Obj, StackInv, Shapes
<1>8. Local(r, t)
  BY <1>0, <1>2, <1>7 DEF Local, StackInv, Shapes
<1>9. /\ Holders(t)' = Holders(t) /\ Releasers(t)' = Releasers(t)
      /\ Keepers(t)' = Keepers(t) \cup {r} /\ r \notin Keepers(t)
  <2>1. pc'[r] = "check"
    BY <1>0 DEF StackInv, Shapes
  <2>2. QED
    BY <1>0, <1>2, <1>7, <2>1, Disjoint DEF Holders, Releasers, Keepers
<1>10. Made1(t)' /\ Making1(t)' /\ (Whole1(t)' <=> Whole1(t))
  <2>1. /\ usage'[t] = usage[t] + 1 /\ pc'[t] = pc[t] /\ usage'[t] > 0
        /\ \A x \in Releasers(t) : pc'[x] = pc[x]
    BY <1>0, <1>1 DEF StackInv, Shapes, Releasers
  <2>2. Made1(t)
    BY DEF StackInv, Tasks
  <2>3. Cardinality(Keepers(t) \cup {r}) = usage[t] + 1
    BY <1>1, <1>9, <2>2, SetsFinite, CardFacts DEF Made1
  <2>4. Made1(t)'
    BY <1>0, <1>1, <1>9, <2>1, <2>2, <2>3 DEF Made1
  <2>5. Making1(t)' /\ (Whole1(t)' <=> Whole1(t))
    BY <1>0, <1>1, <1>9, <2>1 DEF Making1, Whole1
  <2>6. QED
    BY <2>4, <2>5
<1>11. QED
  BY <1>0, <1>3, <1>4, <1>5, <1>6, <1>8, <1>10, TaskStep DEF StackInv

\* lock_trace, or the test of wchan.
LEMMA CheckStep ==
    ASSUME StackInv, NEW r \in Reader, Check(r)
    PROVE  StackInv'
<1>a. pc[r] = "check" /\ r \in Actor /\ r \notin Task
  BY Disjoint DEF Check
<1>b. PICK t \in Task : look[r].task = t /\ Obj(r) = t /\ usage[t] > 0
  BY <1>a, Disjoint DEF StackInv, Readers, Looking
<1>c. PICK l : l = IF secret[t] THEN "unlock" ELSE "get"
  OBVIOUS
<1>0. pc' = [pc EXCEPT ![r] = l]
      /\ UNCHANGED <<cached, cpu, mapped, charged, data, stack, refs, usage, dead, secret, i,
                     nr_stack, look, warned>>
  BY <1>b, <1>c DEF Check, Goto, areas, tasks
<1>1. Shapes' /\ Indices' /\ warned' = FALSE
  BY <1>0, <1>c DEF AnyPc, StackInv, Shapes, Indices
<1>2. Readers' /\ Traced'
  <2>1. pc'[r] = l /\ \A q \in Reader \ {r} : pc'[q] = pc[q]
    BY <1>0, Disjoint DEF StackInv, Shapes
  <2>2. Readers'
    BY <1>0, <1>a, <1>c, <2>1 DEF StackInv, Readers, ReaderPc
  <2>3. Traced'
    BY <1>0, <1>b, <1>c, <2>1 DEF StackInv, Traced
  <2>4. QED
    BY <2>2, <2>3
<1>3. PlacesInv'
  BY <1>0, PlacesSame
<1>4. Local(r, t)
  BY <1>0, <1>b, Disjoint DEF Local, Obj, StackInv, Shapes
<1>5. Holders(t)' = Holders(t) /\ Releasers(t)' = Releasers(t) /\ Keepers(t)' = Keepers(t)
  <2>1. \A y \in Actor : Obj(y)' = Obj(y) /\ pc'[y] = IF y = r THEN l ELSE pc[y]
    BY <1>0 DEF Obj, StackInv, Shapes
  <2>2. QED
    BY <1>a, <1>c, <2>1 DEF Holders, Releasers, Keepers
<1>6. Made1(t)' /\ Making1(t)' /\ (Whole1(t)' <=> Whole1(t))
  <2>1. pc'[t] = pc[t] /\ \A x \in Releasers(t) : pc'[x] = pc[x]
    BY <1>0, <1>a DEF StackInv, Shapes, Releasers
  <2>2. QED
    BY <1>0, <1>b, <1>5, <2>1 DEF StackInv, Tasks, Made1, Making1, Whole1
<1>7. QED
  BY <1>0, <1>a, <1>1, <1>2, <1>3, <1>4, <1>6, TaskStep DEF StackInv

\* try_get_task_stack.
LEMMA GetStep ==
    ASSUME StackInv, NEW r \in Reader, GetStack(r)
    PROVE  StackInv'
<1>a. pc[r] = "get" /\ r \in Actor /\ r \notin Task
  BY Disjoint DEF GetStack
<1>b. PICK t \in Task : look[r].task = t /\ Obj(r) = t /\ usage[t] > 0
  BY <1>a, Disjoint DEF StackInv, Readers, Looking
<1>c. PICK l : l = IF refs[t] > 0 THEN "walk" ELSE "unlock"
  OBVIOUS
<1>0. /\ pc' = [pc EXCEPT ![r] = l]
      /\ refs' = IF refs[t] > 0 THEN [refs EXCEPT ![t] = @ + 1] ELSE refs
      /\ UNCHANGED <<cached, cpu, mapped, charged, data, stack, usage, dead, secret, i,
                     nr_stack, look, warned>>
  BY <1>b, <1>c DEF GetStack, TryGet, Goto, areas
<1>1. Shapes' /\ Indices' /\ warned' = FALSE
  <2>1. refs' \in [Task -> Nat]
    BY <1>0 DEF StackInv, Shapes
  <2>2. QED
    BY <1>0, <1>c, <2>1 DEF AnyPc, StackInv, Shapes, Indices
<1>2. Readers' /\ Traced'
  <2>1. pc'[r] = l /\ \A q \in Reader \ {r} : pc'[q] = pc[q]
    BY <1>0, Disjoint DEF StackInv, Shapes
  <2>2. Readers'
    BY <1>0, <1>a, <1>c, <2>1 DEF StackInv, Readers, ReaderPc
  <2>3. Traced'
    BY <1>0, <1>a, <1>c, <2>1 DEF StackInv, Traced
  <2>4. QED
    BY <2>2, <2>3
<1>3. PlacesInv'
  BY <1>0, PlacesSame
<1>4. Local(r, t)
  BY <1>0, <1>b, Disjoint DEF Local, Obj, StackInv, Shapes
<1>5. /\ Holders(t)' = IF l = "walk" THEN Holders(t) \cup {r} ELSE Holders(t)
      /\ r \notin Holders(t)
      /\ Releasers(t)' = Releasers(t) /\ Keepers(t)' = Keepers(t)
  <2>1. \A y \in Actor : Obj(y)' = Obj(y) /\ pc'[y] = IF y = r THEN l ELSE pc[y]
    BY <1>0 DEF Obj, StackInv, Shapes
  <2>2. QED
    BY <1>a, <1>b, <1>c, <2>1 DEF Holders, Releasers, Keepers
<1>6. Made1(t)' /\ Making1(t)' /\ (Whole1(t)' <=> Whole1(t))
  <2>1. pc'[t] = pc[t] /\ \A x \in Releasers(t) : pc'[x] = pc[x]
    BY <1>0, <1>a DEF StackInv, Shapes, Releasers
  <2>2. Made1(t) /\ refs[t] \in Nat
    BY DEF StackInv, Shapes, Tasks
  <2>3. Cardinality(Holders(t) \cup {r}) = refs[t] + 1
    BY <1>b, <1>5, <2>2, SetsFinite, CardFacts DEF Made1
  <2>4. refs'[t] = (IF l = "walk" THEN refs[t] + 1 ELSE refs[t]) /\ (l = "walk" <=> refs[t] > 0)
    BY <1>0, <1>c DEF StackInv, Shapes
  <2>5. Made1(t)'
    BY <1>0, <1>b, <1>5, <2>1, <2>2, <2>3, <2>4 DEF Made1
  <2>6. Making1(t)' /\ (Whole1(t)' <=> Whole1(t))
    BY <1>0, <1>b, <1>5, <2>1, <2>2, <2>4 DEF Making1, Whole1
  <2>7. QED
    BY <2>5, <2>6
<1>7. QED
  BY <1>0, <1>a, <1>1, <1>2, <1>3, <1>4, <1>6, TaskStep DEF StackInv

\* A reader puts the stack.
LEMMA PutByReader ==
    ASSUME StackInv, NEW r \in Reader, PutStack(r)
    PROVE  StackInv'
<1>1. pc[r] = "walk" /\ r \in Actor /\ r \notin Task /\ put_task_stack(r, "unlock")
      /\ UNCHANGED <<cached, cpu, mapped, charged, data, stack, usage, dead, secret,
                     nr_stack, look, warned>>
  BY Disjoint DEF PutStack, areas
<1>2. PICK t \in Task : Obj(r) = t /\ usage[t] > 0
  BY <1>1, Disjoint DEF StackInv, Readers, Looking
<1>3. r \in Holders(t) /\ r # t
  BY <1>1, <1>2 DEF Holders
<1>4. dead' \in [Task -> BOOLEAN]
  BY <1>1 DEF StackInv, Shapes
<1>5. QED
  BY <1>1, <1>2, <1>3, <1>4, PutStackStep

\* A reader drops its reference, and the last one frees the task_struct.
LEMMA CloseStep ==
    ASSUME StackInv, NEW r \in Reader, Close(r)
    PROVE  StackInv'
<1>a. pc[r] = "unlock" /\ r \in Actor /\ r \notin Task
  BY Disjoint DEF Close
<1>b. PICK t \in Task : look[r].task = t /\ Obj(r) = t /\ usage[t] > 0
  BY <1>a, Disjoint DEF StackInv, Readers, Looking
<1>0. /\ put_task_struct(r, "idle") /\ look' = [look EXCEPT ![r] = NotLooking]
      /\ UNCHANGED <<cached, cpu, mapped, charged, data, stack, refs, i, nr_stack>>
  BY DEF Close, areas
<1>1. /\ usage[t] \in Nat /\ Made1(t) /\ r \in Keepers(t)
      /\ r \notin Holders(t) /\ r \notin Releasers(t) /\ r # t
  BY <1>a, <1>b DEF StackInv, Shapes, Tasks, Keepers, Holders, Releasers
<1>2. /\ usage[t] = 1 => Keepers(t) = {r}
      /\ Cardinality(Keepers(t) \ {r}) = usage[t] - 1
      /\ Holders(t) \cup Releasers(t) \subseteq Keepers(t)
      /\ Holders(t) = {} => refs[t] = 0
  BY <1>1, <1>b, KeeperFacts
<1>3. usage[t] = 1 => Holders(t) = {} /\ Releasers(t) = {} /\ refs[t] = 0 /\ stack[t] = None
  BY <1>1, <1>2 DEF Made1
<1>5. /\ usage' = [usage EXCEPT ![t] = @ - 1]
      /\ dead' = [dead EXCEPT ![t] = usage[t] # 1 /\ @]
      /\ secret' = [secret EXCEPT ![t] = usage[t] # 1 /\ @]
      /\ warned' = FALSE
      /\ \A y \in Actor : pc'[y] = IF y = r THEN "idle"
                                   ELSE IF y = t /\ usage[t] = 1 THEN "none" ELSE pc[y]
      /\ DOMAIN pc' = Actor /\ pc' = [y \in Actor |-> pc'[y]]
  <2>1. DOMAIN pc = Actor
    BY DEF StackInv, Shapes
  <2>2. QED
    BY <1>0, <1>b, <1>1, <1>3, <2>1 DEF put_task_struct, StackInv
<1>6. Shapes'
  <2>1. usage' \in [Task -> Nat]
    BY <1>b, <1>1, <1>5 DEF StackInv, Shapes
  <2>2. dead' \in [Task -> BOOLEAN] /\ secret' \in [Task -> BOOLEAN]
    BY <1>5 DEF StackInv, Shapes
  <2>3. pc' \in [Actor -> AnyPc]
    <3>1. \A y \in Actor : pc'[y] \in AnyPc
      BY <1>5 DEF AnyPc, StackInv, Shapes
    <3>2. QED
      BY <1>5, <3>1
  <2>4. look' \in [Reader -> Looking \cup {NotLooking}]
    BY <1>0 DEF StackInv, Shapes
  <2>5. QED
    BY <1>0, <2>1, <2>2, <2>3, <2>4 DEF StackInv, Shapes
<1>7. Indices'
  BY <1>0, <1>5 DEF StackInv, Indices
<1>8. PlacesInv'
  BY <1>0, PlacesSame
<1>c. /\ \A q \in Reader \ {r} : pc'[q] = pc[q] /\ look'[q] = look[q]
      /\ pc'[r] = "idle" /\ look'[r] = NotLooking
  BY <1>0, <1>1, <1>5, Disjoint DEF StackInv, Shapes
<1>9. \A q \in Reader \ {r} : look[q].task = t => usage[t] > 1
  <2>1. ASSUME NEW q \in Reader \ {r}, look[q].task = t PROVE usage[t] # 1
    <3>1. q \in Keepers(t)
      BY <2>1, Disjoint DEF Keepers, StackInv, Readers, ReaderPc, NotLooking
    <3>2. QED
      BY <1>2, <3>1
  <2>2. QED
    BY <1>b, <1>1, <2>1
<1>10. Readers'
  <2>1. \A u \in Task : usage'[u] = IF u = t THEN usage[t] - 1 ELSE usage[u]
    BY <1>5 DEF StackInv, Shapes
  <2>2. \A q \in Reader \ {r} : look[q] \in Looking => usage'[look[q].task] > 0 \/ ~(usage[look[q].task] > 0)
    BY <1>1, <1>9, <2>1 DEF Looking
  <2>3. QED
    BY <1>c, <2>2 DEF StackInv, Readers
<1>11. Traced'
  <2>1. \A u \in Task : secret'[u] => secret[u]
    BY <1>5 DEF StackInv, Shapes
  <2>2. \A q \in Reader : pc[q] \in {"get", "walk"} => look[q].task \in Task
    BY DEF StackInv, Readers, Looking
  <2>3. QED
    BY <1>c, <2>1, <2>2 DEF StackInv, Traced
<1>12. \A y \in Actor \ {r} : Obj(y)' = Obj(y)
  BY <1>c, Disjoint DEF Obj
<1>13. Obj(r)' = None
  BY <1>a, <1>c DEF Obj, NotLooking
<1>14. Local(r, t)
  BY <1>0, <1>b, <1>5, <1>12, <1>13 DEF Local, StackInv, Shapes
<1>15. /\ Holders(t)' = Holders(t) /\ Releasers(t)' = Releasers(t)
       /\ usage[t] # 1 => Keepers(t)' = Keepers(t) \ {r}
  <2>1. \A y \in Actor : Obj(y)' = t <=> Obj(y) = t /\ y # r
    BY <1>12, <1>13, <1>b, Disjoint
  <2>2. CASE usage[t] = 1
    BY <1>1, <1>3, <1>5, <2>1, <2>2 DEF Holders, Releasers
  <2>3. CASE usage[t] # 1
    BY <1>1, <1>5, <2>1, <2>3 DEF Holders, Releasers, Keepers
  <2>4. QED
    BY <2>2, <2>3
<1>16. Made1(t)' /\ Making1(t)' /\ (Whole1(t)' <=> Whole1(t))
  <2>1. /\ pc'[t] = (IF usage[t] = 1 THEN "none" ELSE pc[t])
        /\ usage'[t] = usage[t] - 1 /\ stack'[t] = stack[t] /\ refs'[t] = refs[t]
        /\ usage[t] = 1 => ~dead'[t] /\ ~secret'[t]
        /\ usage[t] # 1 => (dead'[t] <=> dead[t])
    BY <1>0, <1>1, <1>5, Disjoint DEF StackInv, Shapes
  <2>2. usage[t] # 1 => \A x \in Releasers(t) : pc'[x] = pc[x]
    BY <1>1, <1>5 DEF Releasers
  <2>3. CASE usage[t] = 1
    BY <1>3, <2>1, <2>3 DEF Made1, Making1, MakingPc, Whole1
  <2>4. CASE usage[t] # 1
    <3>1. usage'[t] > 0
      BY <1>1, <1>b, <2>1, <2>4
    <3>2. Made1(t)'
      BY <1>0, <1>1, <1>2, <1>b, <1>15, <2>1, <2>2, <2>4 DEF Made1
    <3>3. Making1(t)' /\ (Whole1(t)' <=> Whole1(t))
      BY <1>b, <1>15, <2>1, <2>2, <2>4, <3>1 DEF Making1, Whole1
    <3>4. QED
      BY <3>2, <3>3
  <2>5. QED
    BY <2>3, <2>4
<1>17. QED
  BY <1>0, <1>a, <1>5, <1>6, <1>7, <1>8, <1>10, <1>11, <1>14, <1>16, TaskStep DEF StackInv

(***************************************************************************)
(* CPUs, and all steps together.                                           *)
(***************************************************************************)
LEMMA CpuStep ==
    ASSUME StackInv, NEW c \in Cpu, CpuDown(c) \/ free_vm_stack_cache(c) \/ CpuUp(c)
    PROVE  StackInv'
<1>0. UNCHANGED <<charged, data, stack, refs, usage, dead, secret, pc, i, nr_stack, look, warned>>
  BY DEF CpuDown, free_vm_stack_cache, CpuUp, tasks
<1>1. \A t \in Task : Holders(t)' = Holders(t) /\ Releasers(t)' = Releasers(t) /\ Keepers(t)' = Keepers(t)
  BY <1>0 DEF Holders, Releasers, Keepers, Obj
<1>2. Tasks' /\ Counted'
  <2>1. ASSUME NEW t \in Task PROVE Made1(t)' /\ Making1(t)' /\ (Whole1(t)' <=> Whole1(t))
    BY <1>0, <1>1 DEF StackInv, Tasks, Made1, Making1, Whole1
  <2>2. Whole' = Whole
    BY <2>1 DEF Whole
  <2>3. QED
    BY <1>0, <2>1, <2>2 DEF StackInv, Tasks, Counted
<1>3. Indices' /\ Readers' /\ Traced' /\ warned' = FALSE
  BY <1>0 DEF StackInv, Indices, Readers, Traced
<1>4. Shapes' /\ PlacesInv'
  <2>1. CASE CpuDown(c) \/ CpuUp(c)
    <3>1. cached' = cached /\ mapped' = mapped /\ \E v \in {"up", "down"} : cpu' = [cpu EXCEPT ![c] = v]
      BY <2>1 DEF CpuDown, CpuUp
    <3>2. Shapes'
      BY <1>0, <3>1 DEF StackInv, Shapes
    <3>3. OffEmpty'
      BY <3>1 DEF StackInv, Shapes, PlacesInv, OffEmpty
    <3>4. QED
      BY <1>0, <3>1, <3>2, <3>3 DEF StackInv, PlacesInv, SlotsApart, StacksApart, SlotsNotStacks,
                                    PlacedMapped, MappedPlaced, LooseUncharged
  <2>2. CASE free_vm_stack_cache(c)
    <3>1. /\ cpu' = [cpu EXCEPT ![c] = "off"] /\ mapped' = mapped \ {cached[c][n] : n \in Slot}
          /\ cached' = [cached EXCEPT ![c] = [n \in Slot |-> None]]
      BY <2>2 DEF free_vm_stack_cache, SlotsCleared
    <3>2. \A d \in Cpu, n \in Slot : cached'[d][n] = IF d = c THEN None ELSE cached[d][n]
      BY <3>1 DEF StackInv, Shapes
    <3>3. Shapes'
      <4>1. [n \in Slot |-> None] \in [Slot -> Area \cup {None}]
        OBVIOUS
      <4>2. QED
        BY <1>0, <3>1, <4>1 DEF StackInv, Shapes
    <3>4. SlotsApart' /\ SlotsNotStacks' /\ StacksApart' /\ LooseUncharged'
      BY <1>0, <3>2 DEF StackInv, PlacesInv, SlotsApart, SlotsNotStacks, StacksApart, LooseUncharged
    <3>5. OffEmpty'
      BY <3>1, <3>2 DEF StackInv, Shapes, PlacesInv, OffEmpty
    <3>6. PlacedMapped'
      <4>1. \A d \in Cpu \ {c}, n \in Slot :
               cached[d][n] # None => cached[d][n] \notin {cached[c][m] : m \in Slot}
        BY DEF StackInv, PlacesInv, SlotsApart
      <4>2. \A t \in Task : stack[t] # None => stack[t] \notin {cached[c][m] : m \in Slot}
        BY DEF StackInv, PlacesInv, SlotsNotStacks
      <4>3. QED
        BY <1>0, <3>1, <3>2, <4>1, <4>2 DEF StackInv, PlacesInv, PlacedMapped
    <3>7. MappedPlaced'
      BY <1>0, <3>1, <3>2 DEF StackInv, PlacesInv, MappedPlaced
    <3>8. QED
      BY <3>3, <3>4, <3>5, <3>6, <3>7 DEF PlacesInv
  <2>3. QED
    BY <2>1, <2>2
<1>5. QED
  BY <1>2, <1>3, <1>4 DEF StackInv

\* The invariant holds initially.
LEMMA StackInit ==
    ASSUME Init PROVE StackInv
<1>1. PICK s \in Area :
        /\ cached = [c \in Cpu |-> [n \in Slot |-> None]]
        /\ cpu = [c \in Cpu |-> "up"]
        /\ mapped = {s}
        /\ charged = [a \in Area |-> IF a = s THEN Pages ELSE 0]
        /\ data = [a \in Area |-> IF a = s THEN Boot ELSE Blank]
        /\ pc = [x \in Task \cup Reader |-> IF x = Boot THEN "live"
                                            ELSE IF x \in Task THEN "none" ELSE "idle"]
        /\ i = [x \in Task \cup Reader |-> 1]
        /\ stack = [t \in Task |-> IF t = Boot THEN s ELSE None]
        /\ refs = [t \in Task |-> IF t = Boot THEN 1 ELSE 0]
        /\ usage = [t \in Task |-> IF t = Boot THEN 1 ELSE 0]
        /\ dead = [t \in Task |-> FALSE] /\ secret = [t \in Task |-> FALSE]
        /\ nr_stack = Pages
        /\ look = [r \in Reader |-> NotLooking]
        /\ warned = FALSE
  BY DEF Init
<1>2. s # None /\ Boot \in Task /\ Boot # None /\ Pages \in Nat /\ None \notin Task
  BY Disjoint, StackAssumption
<1>3. Shapes
  <2>1. charged \in [Area -> 0 .. Pages]
    BY <1>1, <1>2
  <2>2. QED
    BY <1>1, <1>2, <2>1 DEF Shapes, Actor, AnyPc
<1>4. Indices /\ Readers /\ Traced
  <2>1. \A r \in Reader : pc[r] = "idle" /\ look[r] = NotLooking
    BY <1>1, <1>2, Disjoint
  <2>2. \A x \in Actor : pc[x] \notin {"take", "put", "charge"}
    BY <1>1 DEF Actor
  <2>3. QED
    BY <2>1, <2>2 DEF Indices, Readers, Traced
<1>5. PlacesInv
  BY <1>1, <1>2 DEF PlacesInv, SlotsApart, StacksApart, SlotsNotStacks, PlacedMapped,
                    MappedPlaced, OffEmpty, LooseUncharged
<1>6. Holders(Boot) = {Boot} /\ Keepers(Boot) = {Boot} /\ Releasers(Boot) = {}
  <2>1. \A x \in Actor : Obj(x) = Boot <=> x = Boot
    BY <1>1, <1>2, Disjoint DEF Obj, NotLooking
  <2>2. pc[Boot] = "live" /\ Boot \in Actor
    BY <1>1, <1>2 DEF Actor
  <2>3. QED
    BY <2>1, <2>2 DEF Holders, Keepers, Releasers
<1>7. Tasks
  <2>1. ASSUME NEW t \in Task PROVE Making1(t)
    BY <1>1, <1>2 DEF Making1, MakingPc, Actor
  <2>2. ASSUME NEW t \in Task PROVE Made1(t)
    <3>1. CASE t = Boot
      <4>1. Cardinality({Boot}) = 1
        BY FS_Singleton
      <4>2. pc[Boot] = "live" /\ refs[Boot] = 1 /\ usage[Boot] = 1 /\ stack[Boot] = s /\ charged[s] = Pages
        BY <1>1, <1>2
      <4>3. QED
        BY <1>2, <1>6, <3>1, <4>1, <4>2 DEF Made1, MadePc
    <3>2. CASE t # Boot
      BY <1>1, <3>2 DEF Made1
    <3>3. QED
      BY <3>1, <3>2
  <2>3. QED
    BY <2>1, <2>2 DEF Tasks
<1>8. Counted
  <2>1. Whole = {Boot}
    BY <1>1, <1>2 DEF Whole, Whole1
  <2>2. IsFiniteSet({Boot}) /\ Cardinality({Boot}) = 1
    BY FS_Singleton
  <2>3. QED
    BY <1>1, <1>2, <2>1, <2>2 DEF Counted
<1>9. QED
  BY <1>1, <1>3, <1>4, <1>5, <1>7, <1>8 DEF StackInv

\* Every step keeps it.
LEMMA StackNext ==
    ASSUME StackInv, [Next]_vars PROVE StackInv'
<1>1. ASSUME NEW t \in Task,
             \/ alloc_task_struct_node(t) \/ Making(t) \/ ForkFails(t) \/ Start(t)
             \/ Exit(t) \/ DropTask(t) \/ Exec(t)
      PROVE  StackInv'
  BY <1>1, AllocStep, TakeStep, ClearStep, VmallocStep, ChargeStep, DupStep, LastUseByTask,
     StartStep, DropStep, ExecStep DEF Making
<1>2. ASSUME NEW x \in Actor, Releasing(x) PROVE StackInv'
  BY <1>2, ReleaseStep, UnchargeStep, PutCachedStep DEF Releasing
<1>3. ASSUME NEW r \in Reader, Reading(r) PROVE StackInv'
  BY <1>3, CheckStep, GetStep, PutByReader, CloseStep DEF Reading
<1>4. CASE UNCHANGED vars
  <2>1. UNCHANGED <<cached, cpu, mapped, charged, data, stack, refs, usage, dead, secret, pc, i,
                    nr_stack, look, warned>>
    BY <1>4 DEF vars, areas, tasks
  <2>2. \A t \in Task : Holders(t)' = Holders(t) /\ Releasers(t)' = Releasers(t) /\ Keepers(t)' = Keepers(t)
    BY <2>1 DEF Holders, Releasers, Keepers, Obj
  <2>3. \A t \in Task : Made1(t)' /\ Making1(t)' /\ (Whole1(t)' <=> Whole1(t))
    BY <2>1, <2>2 DEF StackInv, Tasks, Made1, Making1, Whole1
  <2>4. Tasks' /\ Counted'
    <3>1. Whole' = Whole
      BY <2>3 DEF Whole
    <3>2. QED
      BY <2>1, <2>3, <3>1 DEF StackInv, Tasks, Counted
  <2>5. PlacesInv'
    BY <2>1, PlacesSame
  <2>6. QED
    BY <2>1, <2>4, <2>5 DEF StackInv, Shapes, Indices, Readers, Traced
<1>5. QED
  BY <1>1, <1>2, <1>3, <1>4, OpenStep, CpuStep DEF Next, Actor

(***************************************************************************)
(* The charges and the traces.                                             *)
(***************************************************************************)
LEMMA InvGivesTypes ==
    ASSUME StackInv PROVE TypeOK
<1>1. Cardinality(Reader) \in Nat
  BY StackAssumption, CardFacts
<1>2. ASSUME NEW t \in Task PROVE refs[t] \in 0 .. Cardinality(Reader) + 1
  <2>1. CASE usage[t] = 0
    BY <1>1, <2>1 DEF StackInv, Tasks, Making1
  <2>2. CASE usage[t] > 0
    <3>1. IsFiniteSet(Reader \cup {t}) /\ Cardinality(Reader \cup {t}) = Cardinality(Reader) + 1
      BY StackAssumption, Disjoint, CardFacts
    <3>2. Cardinality(Holders(t)) <= Cardinality(Reader \cup {t})
      BY <3>1, SetsFinite, FS_Subset
    <3>3. refs[t] = Cardinality(Holders(t)) /\ refs[t] \in Nat
      BY <2>2 DEF StackInv, Shapes, Tasks, Made1
    <3>4. QED
      BY <1>1, <3>1, <3>2, <3>3
  <2>3. QED
    BY <2>1, <2>2 DEF StackInv, Shapes
<1>3. refs \in [Task -> 0 .. Cardinality(Reader) + 1]
  BY <1>2 DEF StackInv, Shapes
<1>4. nr_stack \in Nat
  <2>1. Cardinality(Whole) \in Nat /\ Pages \in Nat /\ nr_stack = Pages * Cardinality(Whole)
    BY CardFacts, StackAssumption DEF StackInv, Counted
  <2>2. QED
    BY <2>1
<1>5. QED
  BY <1>3, <1>4 DEF StackInv, Shapes, TypeOK

\* An area that is mapped is in one place, any other in none.
LEMMA InvGivesPlaces ==
    ASSUME StackInv, NEW a \in Area PROVE Places(a) = IF a \in mapped THEN 1 ELSE 0
<1> DEFINE S == {k \in Cpu \X Slot : cached[k[1]][k[2]] = a}
           T == {t \in Task : stack[t] = a}
<1>0. a # None /\ Cardinality({}) = 0
  BY Disjoint, FS_EmptySet
<1>5. Places(a) = Cardinality(S) + Cardinality(T)
  BY DEF Places
<1>1. CASE a \notin mapped
  <2>1. S = {} /\ T = {}
    BY <1>0, <1>1 DEF StackInv, PlacesInv, PlacedMapped
  <2>2. QED
    BY <1>0, <1>1, <1>5, <2>1
<1>2. ASSUME NEW c \in Cpu, NEW n \in Slot, cached[c][n] = a, a \in mapped
      PROVE  Places(a) = 1
  <2>1. T = {}
    BY <1>0, <1>2 DEF StackInv, PlacesInv, SlotsNotStacks
  <2>2. S = {<<c, n>>}
    <3>1. \A k \in S : k = <<c, n>>
      BY <1>0, <1>2 DEF StackInv, PlacesInv, SlotsApart
    <3>2. <<c, n>> \in S
      BY <1>2
    <3>3. QED
      BY <3>1, <3>2
  <2>3. Cardinality({<<c, n>>}) = 1
    BY FS_Singleton
  <2> HIDE DEF S, T
  <2>4. QED
    BY <1>0, <1>5, <2>1, <2>2, <2>3
<1>3. ASSUME NEW t \in Task, stack[t] = a, a \in mapped
      PROVE  Places(a) = 1
  <2>1. S = {}
    BY <1>0, <1>3 DEF StackInv, PlacesInv, SlotsNotStacks
  <2>2. T = {t}
    BY <1>0, <1>3 DEF StackInv, PlacesInv, StacksApart
  <2>3. Cardinality({t}) = 1
    BY FS_Singleton
  <2> HIDE DEF S, T
  <2>4. QED
    BY <1>0, <1>5, <2>1, <2>2, <2>3
<1>4. QED
  BY <1>1, <1>2, <1>3 DEF StackInv, PlacesInv, MappedPlaced

\* Both ways to say which stacks NR_KERNEL_STACK_KB counts.
LEMMA WholeIsAccounted ==
    ASSUME StackInv PROVE Accounted = Whole
<1>1. ASSUME NEW t \in Task PROVE t \in Accounted <=> t \in Whole
  <2>0. t \in Actor /\ Obj(t) = t /\ usage[t] \in Nat /\ refs[t] \in Nat
    BY Disjoint DEF StackInv, Shapes
  <2>1. CASE usage[t] = 0
    <3>1. pc[t] \notin {"made", "live", "release"} /\ \A r \in Reader : look[r].task # t
      BY <2>1, Disjoint DEF StackInv, Tasks, Making1, MakingPc, Readers, NotLooking
    <3>2. QED
      BY <2>1, <3>1 DEF Accounted, Whole, Whole1
  <2>2. CASE usage[t] > 0 /\ refs[t] > 0
    <3>1. pc[t] # "free"
      BY <2>0, <2>2 DEF StackInv, Tasks, Made1, Releasers
    <3>2. QED
      BY <2>2, <3>1 DEF Accounted, Whole, Whole1
  <2>3. CASE usage[t] > 0 /\ refs[t] = 0
    <3>1. pc[t] \notin {"made", "live"}
      <4>1. Holders(t) = {}
        BY <2>3, SetsFinite, CardFacts DEF StackInv, Tasks, Made1
      <4>2. QED
        BY <2>0, <4>1 DEF Holders
    <3>2. (\E x \in Releasers(t) : pc[x] = "release") <=>
             pc[t] = "release" \/ \E r \in Reader : look[r].task = t /\ pc[r] = "release"
      BY <2>0, Disjoint DEF Releasers
    <3>3. QED
      BY <2>3, <3>1, <3>2 DEF Accounted, Whole, Whole1
  <2>4. QED
    BY <2>0, <2>1, <2>2, <2>3
<1>2. QED
  BY <1>1 DEF Accounted, Whole

\* Whatever forks fail, readers come late and CPUs go away, every mapped area is
\* in exactly one place, the memory cgroup is charged for the stacks of complete
\* tasks and for nothing that is cached or freed, NR_KERNEL_STACK_KB counts
\* those stacks, and neither WARN_ON fires (memcg_charge_kernel_stack,
\* free_thread_stack, release_task_stack, account_kernel_stack).
THEOREM ChargesStayExact == Spec => []ChargesExact
<1>1. StackInv => ChargesExact
  <2> SUFFICES ASSUME StackInv PROVE ChargesExact
    OBVIOUS
  <2>1. AreasKept
    BY InvGivesTypes, InvGivesPlaces DEF AreasKept, StackInv, PlacesInv, OffEmpty
  <2>2. \A t \in Accounted : charged[stack[t]] = Pages
    <3>1. ASSUME NEW t \in Whole PROVE charged[stack[t]] = Pages
      BY DEF StackInv, Tasks, Made1, Whole, Whole1
    <3>2. QED
      BY <3>1, WholeIsAccounted
  <2>3. nr_stack = Pages * Cardinality(Accounted)
    BY WholeIsAccounted DEF StackInv, Counted
  <2>4. QED
    BY <2>1, <2>2, <2>3 DEF ChargesExact, StackInv, PlacesInv, LooseUncharged
<1>2. Init => StackInv
  BY StackInit
<1>3. StackInv /\ [Next]_vars => StackInv'
  BY StackNext
<1>4. QED
  BY <1>1, <1>2, <1>3, PTL DEF Spec

\* Nobody gets a trace of a task that lock_trace would no longer let him trace,
\* whatever execve does between the test and the walk (proc_pid_stack).
THEOREM TracesStayHonoured == Spec => []TraceHonoured
<1>1. StackInv => TraceHonoured
  BY DEF StackInv, Traced, TraceHonoured
<1>2. Init => StackInv
  BY StackInit
<1>3. StackInv /\ [Next]_vars => StackInv'
  BY StackNext
<1>4. QED
  BY <1>1, <1>2, <1>3, PTL DEF Spec

(***************************************************************************)
(* StackCache implements StackPool.                                        *)
(***************************************************************************)
Uses(x) == pc[x] \in OnStack /\ Obj(x) # None

\* Everyone but those in X goes on using what he used.
Quiet(X) ==
    \A y \in Actor \ X : /\ Uses(y)' <=> Uses(y)
                         /\ Uses(y) => Obj(y)' = Obj(y) /\ stack'[Obj(y)] = stack[Obj(y)]

\* Who uses an area.
LEMMA UsersAre ==
    ASSUME StackInv, NEW a \in Area
    PROVE  /\ Users(a) \subseteq Actor
           /\ \A x \in Actor : x \in Users(a) <=> Uses(x) /\ stack[Obj(x)] = a
           /\ \A x \in Actor : Uses(x) => Obj(x) \in Task
<1>1. \A x \in Actor : Obj(x) # None => Obj(x) \in Task
  BY Disjoint DEF StackInv, Readers, Looking, NotLooking
<1>2. QED
  BY <1>1 DEF Users, Uses, Actor

\* The owner of an area in use is the task that has it.
LEMMA OwnerIs ==
    ASSUME StackInv, NEW a \in Area
    PROVE  /\ Users(a) = {} => Owner(a) = None
           /\ Users(a) # {} => Owner(a) \in Task /\ stack[Owner(a)] = a
           /\ \A t \in Task : Users(a) # {} /\ stack[t] = a => Owner(a) = t
<1>1. Users(a) = {} => Owner(a) = None
  BY DEF Owner
<1>2. ASSUME Users(a) # {}
      PROVE  Owner(a) \in Task /\ stack[Owner(a)] = a
  <2>1. PICK x \in Actor : Obj(x) \in Task /\ stack[Obj(x)] = a
    BY <1>2, UsersAre
  <2>2. \E t \in Task : stack[t] = a
    BY <2>1
  <2>3. QED
    BY <1>2, <2>2 DEF Owner
<1>3. \A t \in Task : Users(a) # {} /\ stack[t] = a => Owner(a) = t
  BY <1>2, Disjoint DEF StackInv, PlacesInv, StacksApart
<1>4. QED
  BY <1>1, <1>2, <1>3

\* An area whose users stay has the owner it had.
LEMMA OwnerKept ==
    ASSUME StackInv, StackInv', NEW X, Quiet(X), NEW a \in Area,
           (Users(a) = {} /\ Users(a)' = {}) \/ \E y \in Actor \ X : y \in Users(a)
    PROVE  Owner(a)' = Owner(a)
<1>1. CASE Users(a) = {} /\ Users(a)' = {}
  BY <1>1 DEF Owner
<1>2. ASSUME NEW y \in Actor \ X, y \in Users(a)
      PROVE  Owner(a)' = Owner(a)
  <2>1. PICK t \in Task : Obj(y) = t /\ stack[t] = a /\ Uses(y)
    BY <1>2, UsersAre
  <2>2. Owner(a) = t
    BY <1>2, <2>1, OwnerIs
  <2>3. Uses(y)' /\ Obj(y)' = t /\ stack'[t] = a
    BY <2>1 DEF Quiet
  <2>4. y \in Users(a)'
    BY <2>3 DEF Users, Uses, Actor
  <2>5. Owner(a)' = t
    <3>1. \A u \in Task : stack'[u] = a => u = t
      BY <2>3, Disjoint DEF StackInv, PlacesInv, StacksApart
    <3>2. Owner(a)' = CHOOSE u \in Task : stack'[u] = a
      BY <2>4 DEF Owner
    <3>3. QED
      BY <2>3, <3>1, <3>2
  <2>6. QED
    BY <2>2, <2>5
<1>3. QED
  BY <1>1, <1>2

\* Who is left alone uses what he used.
LEMMA UsersKept ==
    ASSUME StackInv, NEW X, Quiet(X), NEW a \in Area, NEW y \in Actor \ X
    PROVE  y \in Users(a)' <=> y \in Users(a)
<1>1. y \in Users(a)' <=> Uses(y)' /\ stack'[Obj(y)'] = a
  BY DEF Users, Uses, Actor
<1>2. y \in Users(a) <=> Uses(y) /\ stack[Obj(y)] = a
  BY DEF Users, Uses, Actor
<1>3. QED
  BY <1>1, <1>2 DEF Quiet

\* Nobody comes or goes.
LEMMA PoolQuiet ==
    ASSUME StackInv, StackInv', Quiet({}), NEW a \in Area
    PROVE  Users(a)' = Users(a) /\ Owner(a)' = Owner(a)
<1>1. Users(a)' = Users(a)
  <2>1. Users(a) \subseteq Actor /\ Users(a)' \subseteq Actor
    BY DEF Users, Actor
  <2>2. QED
    BY <2>1, UsersKept
<1>2. Users(a) # {} => \E y \in Actor \ {} : y \in Users(a)
  BY UsersAre
<1>3. QED
  BY <1>1, <1>2, OwnerKept

\* Then the pool does not move.
LEMMA PoolStutter ==
    ASSUME StackInv, StackInv', Quiet({}), data' = data
    PROVE  UNCHANGED Pool!vars
BY PoolQuiet DEF Pool!vars

\* x joins those who use the area a of t, or is the first.
LEMMA PoolEnter ==
    ASSUME StackInv, StackInv', NEW x \in Actor, Quiet({x}), NEW t \in Task, NEW a \in Area,
           ~Uses(x), Uses(x)', Obj(x)' = t, stack'[t] = a
    PROVE  /\ \A b \in Area : Users(b)' = IF b = a THEN Users(a) \cup {x} ELSE Users(b)
           /\ \A b \in Area \ {a} : Owner(b)' = Owner(b)
           /\ Owner(a)' = t
<1>1. ASSUME NEW b \in Area PROVE Users(b)' = IF b = a THEN Users(a) \cup {x} ELSE Users(b)
  <2>1. Users(b) \subseteq Actor /\ Users(b)' \subseteq Actor /\ x \notin Users(b)
        /\ (x \in Users(b)' <=> b = a)
    BY DEF Users, Uses, Actor
  <2>2. \A y \in Actor \ {x} : y \in Users(b)' <=> y \in Users(b)
    BY UsersKept
  <2>3. QED
    BY <2>1, <2>2
<1>2. ASSUME NEW b \in Area \ {a} PROVE Owner(b)' = Owner(b)
  <2>1. Users(b)' = Users(b) /\ x \notin Users(b) /\ Users(b) \subseteq Actor
    BY <1>1 DEF Users, Uses, Actor
  <2>2. QED
    BY <2>1, OwnerKept
<1>3. Owner(a)' = t
  <2>1. Users(a)' # {}
    BY <1>1
  <2>2. \A u \in Task : stack'[u] = a => u = t
    BY Disjoint DEF StackInv, PlacesInv, StacksApart
  <2>3. QED
    BY <2>1, <2>2 DEF Owner
<1>4. QED
  BY <1>1, <1>2, <1>3

\* x leaves the area a.
LEMMA PoolLeave ==
    ASSUME StackInv, StackInv', NEW x \in Actor, Quiet({x}), NEW a \in Area,
           Uses(x), ~Uses(x)', stack[Obj(x)] = a, data' = data
    PROVE  Pool!Leave(a, x)
<1>1. ASSUME NEW b \in Area PROVE Users(b)' = IF b = a THEN Users(a) \ {x} ELSE Users(b)
  <2>1. Users(b) \subseteq Actor /\ Users(b)' \subseteq Actor /\ (x \in Users(b) <=> b = a)
        /\ x \notin Users(b)'
    BY DEF Users, Uses, Actor
  <2>2. \A y \in Actor \ {x} : y \in Users(b)' <=> y \in Users(b)
    BY UsersKept
  <2>3. QED
    BY <2>1, <2>2
<1>2. x \in Users(a) /\ \A b \in Area : Users(b) \subseteq Actor
  BY DEF Users, Uses, Actor
<1>3. ASSUME NEW b \in Area \ {a} PROVE Owner(b)' = Owner(b)
  <2>1. Users(b)' = Users(b) /\ x \notin Users(b)
    BY <1>1 DEF Users
  <2>2. QED
    BY <1>2, <2>1, OwnerKept
<1>4. Owner(a)' = IF Users(a) = {x} THEN None ELSE Owner(a)
  <2>1. CASE Users(a) = {x}
    BY <1>1, <2>1 DEF Owner
  <2>2. CASE Users(a) # {x}
    BY <1>2, <2>2, OwnerKept
  <2>3. QED
    BY <2>1, <2>2
<1>5. QED
  BY <1>1, <1>2, <1>3, <1>4 DEF Pool!Leave


\* A step that moves x alone leaves the others alone.
LEMMA SameUse ==
    ASSUME UNCHANGED <<stack, look>>, NEW x \in Actor,
           \A y \in Actor \ {x} : pc'[y] = pc[y]
    PROVE  /\ Quiet({x}) /\ Obj(x)' = Obj(x)
           /\ (pc'[x] \in OnStack <=> pc[x] \in OnStack) => Quiet({})
<1>1. \A y \in Actor : Obj(y)' = Obj(y)
  BY DEF Obj
<1>2. \A y \in Actor \ {x} : Uses(y)' <=> Uses(y)
  BY <1>1 DEF Uses
<1>3. Quiet({x}) /\ Obj(x)' = Obj(x)
  BY <1>1, <1>2 DEF Quiet
<1>4. ASSUME pc'[x] \in OnStack <=> pc[x] \in OnStack PROVE Quiet({})
  <2>1. Uses(x)' <=> Uses(x)
    BY <1>1, <1>4 DEF Uses
  <2>2. QED
    BY <1>1, <1>2, <2>1 DEF Quiet
<1>5. QED
  BY <1>3, <1>4

\* A task that is still to get its stack is not made.
LEMMA NotYetMade ==
    ASSUME StackInv, NEW t \in Task, pc[t] \in {"take", "clear", "vmalloc"}
    PROVE  usage[t] = 0
BY DEF StackInv, Shapes, Tasks, Made1, MadePc

\* A task that is being made gets a stack: nobody looks at it yet.
LEMMA MakerAlone ==
    ASSUME StackInv, NEW t \in Task, pc[t] \in {"take", "clear", "vmalloc"},
           \A u \in Task \ {t} : stack'[u] = stack[u], UNCHANGED look,
           \A y \in Actor \ {t} : pc'[y] = pc[y]
    PROVE  Quiet({t}) /\ ~Uses(t) /\ Obj(t)' = t
<1>1. usage[t] = 0
  BY NotYetMade
<1>2. \A y \in Actor \ {t} : Obj(y) # t
  BY <1>1, Disjoint DEF StackInv, Readers, Looking, NotLooking
<1>3. \A y \in Actor : Obj(y)' = Obj(y)
  BY DEF Obj
<1>4. \A y \in Actor : Uses(y) => Obj(y) \in Task
  BY Disjoint DEF Uses, StackInv, Readers, Looking, NotLooking
<1>5. Quiet({t})
  <2>1. ASSUME NEW y \in Actor \ {t}
        PROVE  /\ Uses(y)' <=> Uses(y)
               /\ Uses(y) => Obj(y)' = Obj(y) /\ stack'[Obj(y)] = stack[Obj(y)]
    BY <1>2, <1>3, <1>4 DEF Uses
  <2>2. QED
    BY <2>1 DEF Quiet
<1>6. ~Uses(t) /\ Obj(t)' = t
  BY <1>3, Disjoint DEF Uses, OnStack
<1>7. QED
  BY <1>5, <1>6

\* A stack is given out: nobody uses it, and its task has no other.
LEMMA PoolGive ==
    ASSUME StackInv, StackInv', NEW t \in Task, NEW a \in Area,
           Quiet({t}), ~Uses(t), Uses(t)', Obj(t)' = t, stack'[t] = a,
           Users(a) = {}, \A b \in Area : stack[t] = b => Users(b) = {},
           data' = [data EXCEPT ![a] = Blank]
    PROVE  Pool!Give(a, t)
<1>1. /\ \A b \in Area : Users(b)' = IF b = a THEN Users(a) \cup {t} ELSE Users(b)
      /\ \A b \in Area \ {a} : Owner(b)' = Owner(b)
      /\ Owner(a)' = t
  BY PoolEnter, Disjoint
<1>2. \A b \in Area : Owner(b) # t
  BY OwnerIs, Disjoint
<1>3. QED
  BY <1>1, <1>2 DEF Pool!Give

\* Steps of a task that is being made.
LEMMA PoolMaking ==
    ASSUME StackInv, StackInv', NEW t \in Task, alloc_task_struct_node(t) \/ Making(t)
    PROVE  [Pool!Next]_(Pool!vars)
<1>0. t \in Actor /\ pc[t] \in AnyPc /\ DOMAIN pc = Actor /\ DOMAIN stack = Task /\ Obj(t) = t
  BY Disjoint DEF StackInv, Shapes
<1>1. CASE alloc_task_struct_node(t)
  <2>1. pc[t] = "none" /\ pc'[t] = "take" /\ UNCHANGED <<stack, look, data>>
        /\ \A y \in Actor \ {t} : pc'[y] = pc[y]
    BY <1>0, <1>1 DEF alloc_task_struct_node, Enter, Goto, areas, tasks
  <2>2. QED
    BY <1>0, <2>1, SameUse, PoolStutter DEF OnStack
<1>2. ASSUME NEW c \in Cpu, TakeCached(t, c) PROVE [Pool!Next]_(Pool!vars)
  <2>1. /\ pc[t] = "take" /\ pc'[t] \in {"take", "clear", "vmalloc"} /\ UNCHANGED <<look, data>>
        /\ \A y \in Actor \ {t} : pc'[y] = pc[y]
        /\ \A u \in Task \ {t} : stack'[u] = stack[u]
    BY <1>0, <1>2 DEF TakeCached, Enter, Goto
  <2>2. Quiet({t}) /\ ~Uses(t)
    BY <2>1, MakerAlone
  <2>3. ~Uses(t)'
    BY <2>1 DEF Uses, OnStack
  <2>4. Quiet({})
    BY <2>2, <2>3 DEF Quiet
  <2>5. QED
    BY <2>1, <2>4, PoolStutter
<1>3. CASE ClearStack(t)
  <2>1. /\ pc[t] = "clear" /\ pc'[t] = "charge" /\ UNCHANGED <<stack, look>>
        /\ data' = [data EXCEPT ![stack[t]] = Blank]
        /\ \A y \in Actor \ {t} : pc'[y] = pc[y]
    BY <1>0, <1>3 DEF ClearStack, Zeroed, Enter, Goto, tasks
  <2>2. Quiet({t}) /\ ~Uses(t) /\ Obj(t)' = t
    BY <2>1, MakerAlone
  <2>3. Uses(t)'
    BY <2>1, <2>2, Disjoint DEF Uses, OnStack
  <2>4. usage[t] = 0 /\ stack[t] \in Area
    <3>1. usage[t] = 0
      BY <2>1, NotYetMade
    <3>2. QED
      BY <2>1, <3>1 DEF StackInv, Shapes, Tasks, Making1
  <2>5. Users(stack[t]) = {}
    <3>1. \A y \in Actor : Uses(y) => y # t /\ Obj(y) # t /\ Obj(y) \in Task
      BY <2>2, <2>4, Disjoint DEF Uses, StackInv, Readers, Looking, NotLooking
    <3>2. \A y \in Actor : Uses(y) => stack[Obj(y)] # stack[t]
      BY <2>4, <3>1, Disjoint DEF StackInv, PlacesInv, StacksApart
    <3>3. QED
      BY <2>4, <3>2, UsersAre
  <2>6. Pool!Give(stack[t], t)
    BY <2>1, <2>2, <2>3, <2>4, <2>5, PoolGive
  <2>7. QED
    BY <2>4, <2>6 DEF Pool!Next
<1>4. CASE Vmalloc(t)
  <2>1. pc[t] = "vmalloc" /\ UNCHANGED look
    BY <1>4 DEF Vmalloc
  <2>2. CASE pc'[t] = "none" /\ UNCHANGED <<data, stack>> /\ \A y \in Actor \ {t} : pc'[y] = pc[y]
    BY <1>0, <2>1, <2>2, SameUse, PoolStutter DEF OnStack
  <2>3. ASSUME NEW s \in Area \ mapped, data' = [data EXCEPT ![s] = Blank],
               stack' = [stack EXCEPT ![t] = s], pc' = [pc EXCEPT ![t] = "charge"]
        PROVE  [Pool!Next]_(Pool!vars)
    <3>1. Quiet({t}) /\ ~Uses(t) /\ Obj(t)' = t
      BY <1>0, <2>1, <2>3, MakerAlone
    <3>2. Uses(t)' /\ stack'[t] = s
      BY <1>0, <2>3, <3>1, Disjoint DEF Uses, OnStack
    <3>3. Users(s) = {}
      <4>1. s # None
        BY Disjoint
      <4>2. \A u \in Task : stack[u] # s
        BY <4>1 DEF StackInv, PlacesInv, PlacedMapped
      <4>3. QED
        BY <4>2, UsersAre
    <3>4. stack[t] = None
      <4>1. usage[t] = 0
        BY <2>1, NotYetMade
      <4>2. QED
        BY <2>1, <4>1 DEF StackInv, Tasks, Making1
    <3>5. Pool!Give(s, t)
      BY <2>3, <3>1, <3>2, <3>3, <3>4, Disjoint, PoolGive
    <3>6. QED
      BY <3>5 DEF Pool!Next
  <2>4. QED
    BY <1>0, <1>4, <2>2, <2>3 DEF Vmalloc, Enter, Goto
<1>5. CASE ChargePage(t)
  <2>1. /\ pc[t] = "charge" /\ pc'[t] \in {"charge", "dup", "free"} /\ UNCHANGED <<stack, look, data>>
        /\ \A y \in Actor \ {t} : pc'[y] = pc[y]
    BY <1>0, <1>5 DEF ChargePage, Enter, Goto, tasks
  <2>2. QED
    BY <1>0, <2>1, SameUse, PoolStutter DEF OnStack
<1>6. ASSUME NEW err \in BOOLEAN, DupStruct(t, err) PROVE [Pool!Next]_(Pool!vars)
  <2>1. /\ pc[t] = "dup" /\ pc'[t] \in {"free", "made"} /\ UNCHANGED <<stack, look, data>>
        /\ \A y \in Actor \ {t} : pc'[y] = pc[y]
    BY <1>0, <1>6 DEF DupStruct, Enter, Goto, areas
  <2>2. QED
    BY <1>0, <2>1, SameUse, PoolStutter DEF OnStack
<1>7. QED
  BY <1>1, <1>2, <1>3, <1>4, <1>5, <1>6 DEF Making

\* put_task_stack: the last user stays until the stack is released.
LEMMA PoolPut ==
    ASSUME StackInv, StackInv', NEW x \in Actor, NEW t \in Task, Obj(x) = t, usage[t] > 0,
           x \in Holders(t), NEW l \in {"gone", "unlock"}, put_task_stack(x, l),
           UNCHANGED <<data, stack, look>>
    PROVE  [Pool!Next]_(Pool!vars)
<1>0. /\ DOMAIN pc = Actor /\ pc[x] \in {"made", "live", "walk"} /\ pc[x] \in OnStack
      /\ stack[t] \in Area
  BY HolderFacts DEF StackInv, Shapes, Holders, OnStack
<1>1. PICK m \in {"release", "gone", "unlock"} : pc' = [pc EXCEPT ![x] = m]
  BY DEF put_task_stack, Enter, Goto
<1>2. pc'[x] = m /\ \A y \in Actor \ {x} : pc'[y] = pc[y]
  BY <1>0, <1>1
<1>3. CASE m = "release"
  BY <1>0, <1>2, <1>3, SameUse, PoolStutter DEF OnStack
<1>4. CASE m # "release"
  <2>1. Quiet({x})
    BY <1>2, SameUse
  <2>2. Uses(x) /\ ~Uses(x)'
    BY <1>0, <1>2, <1>4, Disjoint DEF Uses, OnStack
  <2>3. Pool!Leave(stack[t], x)
    BY <1>0, <2>1, <2>2, PoolLeave
  <2>4. QED
    BY <1>0, <2>3 DEF Pool!Next, Actor
<1>5. QED
  BY <1>3, <1>4

\* Steps of a task that is made.
LEMMA PoolRunning ==
    ASSUME StackInv, StackInv', NEW t \in Task,
           ForkFails(t) \/ Start(t) \/ Exit(t) \/ DropTask(t) \/ Exec(t)
    PROVE  [Pool!Next]_(Pool!vars)
<1>0. t \in Actor /\ pc[t] \in AnyPc /\ DOMAIN pc = Actor /\ Obj(t) = t
  BY Disjoint DEF StackInv, Shapes
<1>1. pc[t] \in {"made", "live"} => usage[t] > 0 /\ t \in Holders(t)
  BY <1>0 DEF StackInv, Shapes, Tasks, Making1, MakingPc, Holders
<1>2. CASE ForkFails(t) \/ Exit(t)
  <2>1. pc[t] \in {"made", "live"} /\ put_task_stack(t, "gone") /\ UNCHANGED <<data, stack, look>>
    BY <1>2 DEF ForkFails, Exit, areas
  <2>2. QED
    BY <1>0, <1>1, <2>1, PoolPut
<1>3. CASE Start(t)
  <2>1. /\ pc[t] = "made" /\ pc' = [pc EXCEPT ![t] = "live"] /\ UNCHANGED <<stack, look>>
        /\ data' = [data EXCEPT ![stack[t]] = t]
    BY <1>3 DEF Start, Goto, tasks
  <2>2. stack[t] \in Area
    BY <1>1, <2>1, HolderFacts
  <2>3. Quiet({})
    BY <1>0, <2>1, SameUse DEF OnStack
  <2>4. ASSUME NEW a \in Area PROVE Users(a)' = Users(a) /\ Owner(a)' = Owner(a)
    BY <2>3, PoolQuiet
  <2>5. t \in Users(stack[t])
    BY <1>0, <2>1, <2>2, Disjoint, UsersAre DEF Uses, OnStack
  <2>6. Owner(stack[t]) = t
    BY <2>2, <2>5, OwnerIs
  <2>7. Pool!Write(stack[t], t)
    BY <2>1, <2>2, <2>4, <2>5, <2>6 DEF Pool!Write
  <2>8. QED
    BY <2>2, <2>7 DEF Pool!Next
<1>4. CASE DropTask(t)
  <2>1. /\ pc[t] = "gone" /\ pc'[t] \in {"none", "zombie"} /\ UNCHANGED <<data, stack, look>>
        /\ \A y \in Actor \ {t} : pc'[y] = pc[y]
    BY <1>0, <1>4 DEF DropTask, put_task_struct, areas
  <2>2. QED
    BY <1>0, <2>1, SameUse, PoolStutter DEF OnStack
<1>5. CASE Exec(t)
  <2>1. UNCHANGED <<data, stack, look, pc>>
    BY <1>5 DEF Exec, areas
  <2>2. QED
    BY <1>0, <2>1, SameUse, PoolStutter
<1>6. QED
  BY <1>2, <1>3, <1>4, <1>5

\* Steps of who releases a stack: it is taken from its task by the step that
\* caches or unmaps it, when nobody else uses it.
LEMMA PoolReleasing ==
    ASSUME StackInv, StackInv', NEW x \in Actor, Releasing(x)
    PROVE  [Pool!Next]_(Pool!vars)
<1>0. DOMAIN pc = Actor /\ DOMAIN stack = Task
  BY DEF StackInv, Shapes
<1>1. pc[x] \in {"release", "free", "put"} /\ UNCHANGED <<look, data>>
  BY DEF Releasing, release_task_stack, UnchargeStack, PutCached, areas
<1>2. PICK t \in Task : Obj(x) = t
  BY <1>1, ReleaserFacts
<1>3. CASE pc'[x] \in {"free", "put"} /\ UNCHANGED stack /\ \A y \in Actor \ {x} : pc'[y] = pc[y]
  BY <1>1, <1>3, SameUse, PoolStutter DEF OnStack
<1>4. CASE pc[x] = "put" /\ StackGone(x)
  <2>1. PICK l \in {"unlock", "none", "gone"} : pc' = [pc EXCEPT ![x] = l]
    BY <1>4 DEF StackGone, Enter, Goto
  <2>2. stack' = [stack EXCEPT ![t] = None]
    BY <1>2, <1>4 DEF StackGone
  <2>3. \A y \in Actor : Obj(y)' = Obj(y)
    BY <1>1 DEF Obj
  <2>4. ASSUME NEW y \in Actor \ {x}, Uses(y) PROVE Obj(y) # t
    <3>1. SUFFICES ASSUME Obj(y) = t PROVE FALSE
      OBVIOUS
    <3>2. CASE usage[t] = 0
      <4>1. x = t /\ \A r \in Reader : look[r].task # t
        BY <1>1, <1>2, <3>2, ReleaserFacts
      <4>2. QED
        BY <3>1, <4>1, Disjoint
    <3>3. CASE usage[t] > 0
      <4>1. refs[t] = 0 /\ Releasers(t) = {x}
        BY <1>1, <1>2, <3>3, ReleaserFacts
      <4>2. Holders(t) = {}
        BY <3>3, <4>1, SetsFinite, CardFacts DEF StackInv, Tasks, Made1
      <4>3. pc[y] \in {"charge", "dup"}
        BY <3>1, <2>4, <4>1, <4>2 DEF Uses, OnStack, Holders, Releasers
      <4>4. y = t /\ pc[t] \in MadePc
        BY <3>1, <3>3, <4>3, Disjoint DEF StackInv, Readers, ReaderPc, Tasks, Made1
      <4>5. QED
        BY <4>3, <4>4 DEF MadePc
    <3>4. QED
      BY <3>2, <3>3 DEF StackInv, Shapes
  <2>5. Quiet({x})
    <3>1. ASSUME NEW y \in Actor \ {x}
          PROVE  /\ Uses(y)' <=> Uses(y)
                 /\ Uses(y) => Obj(y)' = Obj(y) /\ stack'[Obj(y)] = stack[Obj(y)]
      <4>1. pc'[y] = pc[y] /\ Obj(y)' = Obj(y)
        BY <1>0, <2>1, <2>3
      <4>2. Uses(y) => Obj(y) \in Task \ {t}
        BY <2>4, Disjoint DEF Uses, StackInv, Readers, Looking, NotLooking
      <4>3. QED
        BY <1>0, <2>2, <4>1, <4>2 DEF Uses
    <3>2. QED
      BY <3>1 DEF Quiet
  <2>6. Uses(x) /\ ~Uses(x)'
    BY <1>0, <1>2, <1>4, <2>1, Disjoint DEF Uses, OnStack
  <2>7. stack[t] \in Area
    BY <1>1, <1>2, ReleaserFacts
  <2>8. Pool!Leave(stack[t], x)
    BY <1>1, <1>2, <2>5, <2>6, <2>7, PoolLeave
  <2>9. QED
    BY <2>7, <2>8 DEF Pool!Next, Actor
<1>5. CASE UNCHANGED <<pc, stack>>
  BY <1>1, <1>5, SameUse, PoolStutter
<1>6. CASE release_task_stack(x)
  <2>1. dead[t]
    BY <1>2, <1>6, ReleaserFacts DEF release_task_stack, StackInv, Shapes
  <2>2. pc'[x] = "free" /\ UNCHANGED stack /\ \A y \in Actor \ {x} : pc'[y] = pc[y]
    BY <1>0, <1>2, <1>6, <2>1 DEF release_task_stack, Enter, Goto, tasks
  <2>3. QED
    BY <1>3, <2>2
<1>7. CASE UnchargeStack(x)
  <2>1. pc'[x] = "put" /\ UNCHANGED stack /\ \A y \in Actor \ {x} : pc'[y] = pc[y]
    BY <1>0, <1>7 DEF UnchargeStack, Enter, Goto, tasks
  <2>2. QED
    BY <1>3, <2>1
<1>8. ASSUME NEW c \in Cpu, PutCached(x, c) PROVE [Pool!Next]_(Pool!vars)
  BY <1>4, <1>5, <1>8 DEF PutCached
<1>9. QED
  BY <1>6, <1>7, <1>8 DEF Releasing

\* Steps of a reader.
LEMMA PoolReading ==
    ASSUME StackInv, StackInv', NEW r \in Reader,
           Reading(r) \/ \E t \in Task, f \in {"stack", "wchan"} : Open(r, t, f)
    PROVE  [Pool!Next]_(Pool!vars)
<1>0. r \in Actor /\ r \notin Task /\ DOMAIN pc = Actor /\ DOMAIN look = Reader
      /\ Obj(r) = look[r].task
  BY Disjoint DEF StackInv, Shapes
<1>1. CASE \E t \in Task, f \in {"stack", "wchan"} : Open(r, t, f)
  <2>1. /\ pc[r] = "idle" /\ pc'[r] = "check" /\ UNCHANGED <<data, stack>>
        /\ \A y \in Actor \ {r} : pc'[y] = pc[y]
        /\ \A q \in Reader \ {r} : look'[q] = look[q]
    BY <1>0, <1>1 DEF Open, Goto, areas
  <2>2. \A y \in Actor \ {r} : Obj(y)' = Obj(y)
    BY <2>1, Disjoint DEF Obj
  <2>3. ~Uses(r) /\ ~Uses(r)'
    BY <2>1 DEF Uses, OnStack
  <2>4. Quiet({})
    BY <2>1, <2>2, <2>3 DEF Quiet, Uses
  <2>5. QED
    BY <2>1, <2>4, PoolStutter
<1>2. CASE Check(r)
  <2>1. /\ pc[r] = "check" /\ pc'[r] \in {"unlock", "get"} /\ UNCHANGED <<data, stack, look>>
        /\ \A y \in Actor \ {r} : pc'[y] = pc[y]
    BY <1>0, <1>2 DEF Check, Goto, areas, tasks
  <2>2. QED
    BY <1>0, <2>1, SameUse, PoolStutter DEF OnStack
<1>3. CASE GetStack(r)
  <2>1. /\ pc[r] = "get" /\ UNCHANGED <<data, stack, look>>
        /\ \A y \in Actor \ {r} : pc'[y] = pc[y]
        /\ pc'[r] = IF refs[look[r].task] > 0 THEN "walk" ELSE "unlock"
    BY <1>0, <1>3 DEF GetStack, TryGet, Goto, areas
  <2>2. PICK t \in Task : look[r].task = t /\ usage[t] > 0
    BY <2>1 DEF StackInv, Readers, Looking
  <2>3. CASE refs[t] > 0
    <3>1. PICK y \in Holders(t) : TRUE
      <4>1. refs[t] = Cardinality(Holders(t)) /\ refs[t] \in Nat
        BY <2>2 DEF StackInv, Shapes, Tasks, Made1
      <4>2. QED
        BY <2>3, <4>1, SetsFinite, CardFacts
    <3>2. stack[t] \in Area /\ y \in Actor /\ Obj(y) = t /\ Uses(y)
      BY <2>2, HolderFacts, Disjoint DEF Holders, Uses, OnStack
    <3>3. Users(stack[t]) # {} /\ Owner(stack[t]) = t
      BY <3>2, UsersAre, OwnerIs
    <3>4. Quiet({r}) /\ ~Uses(r) /\ Uses(r)' /\ Obj(r)' = t
      <4>1. Quiet({r}) /\ Obj(r)' = t
        BY <1>0, <2>1, <2>2, SameUse
      <4>2. QED
        BY <2>1, <2>2, <2>3, <4>1, Disjoint DEF Uses, OnStack
    <3>5. /\ \A b \in Area : Users(b)' = IF b = stack[t] THEN Users(stack[t]) \cup {r} ELSE Users(b)
          /\ \A b \in Area \ {stack[t]} : Owner(b)' = Owner(b)
          /\ Owner(stack[t])' = t
      <4>1. PICK a \in Area : stack[t] = a /\ stack'[t] = a
        BY <2>1, <3>2
      <4>2. QED
        BY <1>0, <2>1, <3>4, <4>1, PoolEnter
    <3>6. Pool!Join(stack[t], r)
      BY <2>1, <3>2, <3>3, <3>5 DEF Pool!Join
    <3>7. QED
      BY <3>2, <3>6 DEF Pool!Next
  <2>4. CASE ~(refs[t] > 0)
    BY <1>0, <2>1, <2>2, <2>4, SameUse, PoolStutter DEF OnStack
  <2>5. QED
    BY <2>3, <2>4
<1>4. CASE PutStack(r)
  <2>1. pc[r] = "walk" /\ put_task_stack(r, "unlock") /\ UNCHANGED <<data, stack, look>>
    BY <1>4 DEF PutStack, areas
  <2>2. PICK t \in Task : look[r].task = t /\ usage[t] > 0
    BY <2>1 DEF StackInv, Readers, Looking
  <2>3. r \in Holders(t)
    BY <1>0, <2>1, <2>2 DEF Holders
  <2>4. QED
    BY <1>0, <2>1, <2>2, <2>3, PoolPut
<1>5. CASE Close(r)
  <2>1. PICK t \in Task : look[r].task = t /\ usage[t] > 0
    BY <1>5 DEF Close, StackInv, Readers, Looking
  <2>2. r \in Keepers(t)
    BY <1>0, <1>5, <2>1 DEF Keepers, Close
  <2>3. usage[t] = 1 => pc[t] = "zombie"
    <3>0. usage[t] \in Nat
      BY DEF StackInv, Shapes
    <3>1. usage[t] = 1 => Keepers(t) = {r}
      BY <2>1, <2>2, <3>0, KeeperFacts
    <3>2. t \in Actor /\ Obj(t) = t /\ t # r
      BY <1>0, Disjoint
    <3>3. QED
      BY <3>1, <3>2 DEF Keepers
  <2>a. /\ pc[r] = "unlock" /\ UNCHANGED <<data, stack>>
        /\ look' = [look EXCEPT ![r] = NotLooking]
        /\ pc' = [y \in Actor |-> IF y = t /\ usage[t] = 1 THEN "none"
                                  ELSE IF y = r THEN "idle" ELSE pc[y]]
    BY <1>0, <1>5, <2>1 DEF Close, put_task_struct, areas
  <2>b. \A y \in Actor \ {r} : pc'[y] = pc[y] \/ (pc[y] = "zombie" /\ pc'[y] = "none")
    <3>1. \A y \in Actor \ {r} : pc'[y] = IF y = t /\ usage[t] = 1 THEN "none" ELSE pc[y]
      BY <2>a
    <3>2. QED
      BY <2>3, <3>1
  <2>c. r # t /\ pc'[r] = "idle"
    BY <1>0, <2>a
  <2>4. /\ pc[r] = "unlock" /\ pc'[r] = "idle" /\ UNCHANGED <<data, stack>>
        /\ \A q \in Reader \ {r} : look'[q] = look[q]
        /\ \A y \in Actor \ {r} : pc'[y] = pc[y] \/ (pc[y] = "zombie" /\ pc'[y] = "none")
    BY <1>0, <2>a, <2>b, <2>c
  <2>5. \A y \in Actor \ {r} : Obj(y)' = Obj(y)
    BY <2>4, Disjoint DEF Obj
  <2>6. \A y \in Actor : pc'[y] \in OnStack <=> pc[y] \in OnStack
    BY <2>4 DEF OnStack
  <2>7. ~Uses(r) /\ ~Uses(r)'
    BY <2>4 DEF Uses, OnStack
  <2>8. Quiet({})
    BY <2>4, <2>5, <2>6, <2>7 DEF Quiet, Uses
  <2>9. QED
    BY <2>4, <2>8, PoolStutter
<1>6. QED
  BY <1>1, <1>2, <1>3, <1>4, <1>5 DEF Reading

\* Every step of the caches and counts is a step of the pool, or none.
LEMMA PoolStep ==
    ASSUME StackInv, StackInv', [Next]_vars
    PROVE  [Pool!Next]_(Pool!vars)
<1>1. ASSUME NEW t \in Task,
             \/ alloc_task_struct_node(t) \/ Making(t) \/ ForkFails(t) \/ Start(t)
             \/ Exit(t) \/ DropTask(t) \/ Exec(t)
      PROVE  [Pool!Next]_(Pool!vars)
  BY <1>1, PoolMaking, PoolRunning
<1>2. ASSUME NEW x \in Actor, Releasing(x) PROVE [Pool!Next]_(Pool!vars)
  BY <1>2, PoolReleasing
<1>3. ASSUME NEW r \in Reader,
             Reading(r) \/ \E t \in Task, f \in {"stack", "wchan"} : Open(r, t, f)
      PROVE  [Pool!Next]_(Pool!vars)
  BY <1>3, PoolReading
<1>4. ASSUME UNCHANGED <<pc, stack, look, data>>
      PROVE  [Pool!Next]_(Pool!vars)
  <2>1. Quiet({})
    BY <1>4 DEF Quiet, Uses, Obj
  <2>2. QED
    BY <1>4, <2>1, PoolStutter
<1>5. ASSUME NEW c \in Cpu, CpuDown(c) \/ free_vm_stack_cache(c) \/ CpuUp(c)
      PROVE  [Pool!Next]_(Pool!vars)
  <2>1. UNCHANGED <<pc, stack, look, data>>
    BY <1>5 DEF CpuDown, free_vm_stack_cache, CpuUp, tasks
  <2>2. QED
    BY <1>4, <2>1
<1>6. CASE UNCHANGED vars
  BY <1>4, <1>6 DEF vars, areas, tasks
<1>7. QED
  BY <1>1, <1>2, <1>3, <1>5, <1>6 DEF Next, Actor

\* Initially one stack is given, to the task that runs throughout.
LEMMA PoolInit ==
    ASSUME Init PROVE Pool!Init
<1>0. StackInv
  BY StackInit
<1>1. PICK s \in Area :
        /\ data = [a \in Area |-> IF a = s THEN Boot ELSE Blank]
        /\ pc = [x \in Task \cup Reader |-> IF x = Boot THEN "live"
                                            ELSE IF x \in Task THEN "none" ELSE "idle"]
        /\ stack = [t \in Task |-> IF t = Boot THEN s ELSE None]
  BY DEF Init
<1>2. Boot \in Task /\ Boot \in Actor /\ Obj(Boot) = Boot /\ Boot # None
  BY StackAssumption, Disjoint
<1>3. \A x \in Actor : Uses(x) <=> x = Boot
  BY <1>1, <1>2 DEF Uses, OnStack, Actor
<1>4. ASSUME NEW a \in Area
      PROVE  /\ Users(a) = IF a = s THEN {Boot} ELSE {}
             /\ Owner(a) = IF a = s THEN Boot ELSE None
  <2>1. stack[Boot] = s
    BY <1>1, <1>2
  <2>2. Users(a) = IF a = s THEN {Boot} ELSE {}
    BY <1>0, <1>2, <1>3, <2>1, UsersAre
  <2>3. QED
    BY <1>0, <1>2, <2>1, <2>2, OwnerIs
<1>5. QED
  BY <1>1, <1>2, <1>4 DEF Pool!Init

\* The two caches per CPU, the failing forks, the readers that come late and the
\* CPUs that go away implement the pool: a stack is given to one task at a time,
\* blank, when the last user of its former task has left it
\* (alloc_thread_stack_node, put_task_stack, free_thread_stack).
THEOREM StacksStayExclusive == Spec => StacksAreExclusive
<1>1. Init => StackInv /\ Pool!Init
  BY StackInit, PoolInit
<1>2. StackInv /\ [Next]_vars => StackInv'
  BY StackNext
<1>3. StackInv /\ StackInv' /\ [Next]_vars => [Pool!Next]_(Pool!vars)
  BY PoolStep
<1>4. QED
  BY <1>1, <1>2, <1>3, PTL DEF Spec, StacksAreExclusive, Pool!Spec

Owned == \A a \in Area : Users(a) # {} => Owner(a) # None

\* No step of the pool lets a task meet the data of another.
LEMMA IsolationStep ==
    ASSUME Pool!Isolation, Owned, Owned', [Pool!Next]_(Pool!vars),
           data \in [Area -> Task \cup {Blank}]
    PROVE  Pool!Isolation'
<1> SUFFICES ASSUME NEW a \in Area, Users(a)' # {}
             PROVE  data'[a] \in {Blank, Owner(a)'}
  BY DEF Pool!Isolation, Owned
<1>0. \A b \in Area : Users(b) # {} => data[b] \in {Blank, Owner(b)}
  BY DEF Pool!Isolation
<1>1. ASSUME NEW b \in Area, NEW t \in Task, Pool!Give(b, t)
      PROVE  data'[a] \in {Blank, Owner(a)'}
  <2>1. /\ Owner(a)' = IF a = b THEN t ELSE Owner(a)
        /\ a # b => Users(a)' = Users(a)
        /\ data'[a] = IF a = b THEN Blank ELSE data[a]
    BY <1>1 DEF Pool!Give
  <2>2. QED
    BY <1>0, <2>1
<1>2. ASSUME NEW b \in Area, NEW t \in Task, Pool!Write(b, t)
      PROVE  data'[a] \in {Blank, Owner(a)'}
  <2>1. /\ Owner(b) = t /\ Owner(a)' = Owner(a) /\ Users(a)' = Users(a)
        /\ data'[a] = IF a = b THEN t ELSE data[a]
    BY <1>2 DEF Pool!Write
  <2>2. QED
    BY <1>0, <2>1
<1>3. ASSUME NEW b \in Area, NEW u \in Actor, Pool!Join(b, u)
      PROVE  data'[a] \in {Blank, Owner(a)'}
  <2>1. /\ Owner(a)' = Owner(a) /\ Users(b) # {} /\ data' = data
        /\ a # b => Users(a)' = Users(a)
    BY <1>3 DEF Pool!Join
  <2>2. QED
    BY <1>0, <2>1
<1>4. ASSUME NEW b \in Area, NEW u \in Actor, Pool!Leave(b, u)
      PROVE  data'[a] \in {Blank, Owner(a)'}
  <2>1. /\ Users(a)' = IF a = b THEN Users(a) \ {u} ELSE Users(a)
        /\ Owner(a)' = IF a = b /\ Users(a) = {u} THEN None ELSE Owner(a)
        /\ data' = data
    BY <1>4 DEF Pool!Leave
  <2>2. QED
    BY <1>0, <2>1
<1>5. CASE UNCHANGED Pool!vars
  <2>1. Users(a)' = Users(a) /\ Owner(a)' = Owner(a) /\ data' = data
    BY <1>5 DEF Pool!vars
  <2>2. QED
    BY <1>0, <2>1
<1>6. QED
  BY <1>1, <1>2, <1>3, <1>4, <1>5 DEF Pool!Next, Actor

\* A stack in use, cached before or not, belongs to a task and holds that task's
\* data or none at all: a stack a CPU has kept is blank for its next task (the
\* memset in alloc_thread_stack_node).
THEOREM StacksStayIsolated == Spec => []Pool!Isolation
<1>1. Init => StackInv /\ Pool!Isolation
  <2>1. ASSUME Init PROVE StackInv /\ Pool!Init
    BY <2>1, StackInit, PoolInit
  <2>2. ASSUME StackInv, Pool!Init PROVE Pool!Isolation
    BY <2>2, OwnerIs DEF Pool!Init, Pool!Isolation
  <2>3. QED
    BY <2>1, <2>2
<1>2. StackInv => Owned
  BY OwnerIs, Disjoint DEF Owned
<1>3. StackInv /\ [Next]_vars => StackInv'
  BY StackNext
<1>4. /\ StackInv /\ StackInv' /\ Owned /\ Owned' /\ Pool!Isolation /\ [Next]_vars
      => Pool!Isolation'
  BY PoolStep, IsolationStep DEF StackInv, Shapes
<1>5. QED
  BY <1>1, <1>2, <1>3, <1>4, PTL DEF Spec
=============================================================================
