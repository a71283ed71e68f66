---------------------------- MODULE OomAdjProofs ----------------------------
(***************************************************************************)
(* Theorems about OomAdj, for any number of processes, mms and writers and *)
(* any values written.                                                     *)
(***************************************************************************)
EXTENDS OomAdj, FiniteSetTheorems, TLAPS

\* oom_adj_mutex has one holder, and a task a writer holds is not reaped.
MutexOk == \A v, w \in Writer : wpc[v] # "idle" /\ wpc[w] # "idle" => v = w

WriterOk(w) ==
    /\ wpc[w] = "idle" => task[w] = None
    /\ wpc[w] # "idle" => task[w] \in Proc /\ Listed(task[w])
    /\ wpc[w] \in {"idle", "find"} => pin[w] = None /\ w \notin plain
    /\ wpc[w] # "walk" => done[w] = {}
    /\ wpc[w] = "walk" => task[w] \in done[w]

\* What is known of a process by the stage of its life.
LifeOk(p) ==
    /\ mm[p] = None <=> life[p] \in {"none", "dead"}
    /\ kid[p] # None => life[p] = "live"
    /\ vfork[p] => life[p] = "live" /\ ~own[p]
    /\ p \in GlobalInit => life[p] = "live" /\ ~own[p]

\* A child in the making has the mm of its parent, who does nothing else, or
\* one that nobody else has.
Joins(c) == life[c] = "attached" \/ (life[c] = "signal" /\ how[c] = "vm")
KidOk(p) ==
    kid[p] # None =>
        /\ life[kid[p]] \in {"signal", "attached", "live"}
        /\ Joins(kid[p]) => mm[kid[p]] = mm[p] /\ own[kid[p]] = own[p]
        /\ \A q \in Proc : kid[q] = kid[p] => q = p
NewOk(c) ==
    life[c] = "signal" =>
        /\ how[c] = "vfork" => ~own[c]
        /\ how[c] = "copy" => /\ \A q \in Proc \ {c} : mm[q] # mm[c]
                              /\ \A w \in Writer : pin[w] # mm[c]

ProcsOk ==
    /\ \A p \in Proc : LifeOk(p)
    /\ \A p \in Proc : KidOk(p)
    /\ \A p \in Proc : NewOk(p)

(***************************************************************************)
(* Scores.                                                                 *)
(***************************************************************************)
Share(p, q) == Ordinary(p) /\ Ordinary(q) /\ mm[p] = mm[q]

\* MMF_MULTIPROCESS is set where it must be.
MultiOk == \A p, q \in Proc : p # q /\ Share(p, q) => multi[mm[p]]

\* A writer is between p and q, which share the mm it goes through.
Between(w, p, q) == wpc[w] = "walk" /\ pin[w] = mm[p] /\ ~(p \in done[w] <=> q \in done[w])
SetsMin(w) == ~legacy[w] /\ w \in Capable

AgreeOk(p, q) ==
    Share(p, q) => /\ (\A w \in Writer : ~Between(w, p, q)) => adj[p] = adj[q]
                   /\ (\A w \in Writer : SetsMin(w) => ~Between(w, p, q)) => adj_min[p] = adj_min[q]

\* A task that has left the mm the writer goes through, or was found to be
\* alone in its own, is still alone when its score is set.
SetOk(w) ==
    wpc[w] = "set" /\ Ordinary(task[w]) /\ mm[task[w]] # pin[w] => ~multi[mm[task[w]]]

\* Whom the writer has been to has the value.
VisitedOk(w, p) ==
    wpc[w] = "walk" /\ Ordinary(p) /\ p \in done[w] /\ mm[p] = pin[w] =>
        adj[p] = val[w] /\ (SetsMin(w) => adj_min[p] = val[w])

\* What was allowed for the task named is allowed for those it is carried to.
Bound(w, p) == \/ legacy[w] /\ val[w] >= adj[p]
               \/ ~legacy[w] /\ val[w] >= adj_min[p]
FloorOk(w) ==
    w \notin Capable =>
        /\ wpc[w] \in {"find", "set"} => Bound(w, task[w])
        /\ wpc[w] \in {"set", "walk"} /\ w \in plain =>
             \A p \in Proc : Ordinary(p) /\ mm[p] = pin[w] /\ p \notin done[w] => Bound(w, p)

ScoresOk ==
    /\ MultiOk
    /\ \A p, q \in Proc : AgreeOk(p, q)
    /\ \A w \in Writer : SetOk(w)
    /\ \A w \in Writer, p \in Proc : VisitedOk(w, p)
    /\ \A w \in Writer : FloorOk(w)

OomInv ==
    /\ TaskTypes /\ MutexOk /\ reused = {}
    /\ \A w \in Writer : WriterOk(w)
    /\ ProcsOk /\ ScoresOk

\* References: one for the users of an mm, if it has any, one for the write
\* that goes through it; there is at most one such write.
MmCountOk ==
    /\ mm_count \in [Mm -> Nat]
    /\ \A m \in Mm : mm_count[m] = (IF InUse(m) THEN 1 ELSE 0) + (IF Held(m) THEN 1 ELSE 0)

(***************************************************************************)
(* Constants and scales.                                                   *)
(***************************************************************************)
\* The assumption in the form the steps use it.
LEMMA Constants ==
    /\ Boot \subseteq Proc /\ GlobalInit \subseteq Boot /\ Target \subseteq Proc
    /\ Capable \subseteq Writer /\ Score \subseteq Int /\ Legacy \subseteq Int
    /\ None \notin Proc /\ None \notin Mm /\ None \notin Writer
BY OomAssumption

\* Scores are integers, 0 is one of them.
LEMMA Scores ==
    0 \in ScoreRange /\ \A s \in ScoreRange : s \in Int
BY DEF ScoreRange, OOM_SCORE_ADJ_MIN, OOM_SCORE_ADJ_MAX

\* oom_adj_write scales what it accepts to a score.
LEMMA ScaleInRange ==
    ASSUME NEW x \in LegacyRange PROVE Scale(x) \in ScoreRange
BY DEF LegacyRange, ScoreRange, Scale, Quot, OOM_DISABLE, OOM_ADJUST_MIN, OOM_ADJUST_MAX,
       OOM_SCORE_ADJ_MIN, OOM_SCORE_ADJ_MAX

\* oom_adj_read scales a score to one of its own values.
LEMMA UnscaleInRange ==
    ASSUME NEW s \in ScoreRange PROVE Unscale(s) \in LegacyRange
BY DEF LegacyRange, ScoreRange, Unscale, Quot, OOM_DISABLE, OOM_ADJUST_MIN, OOM_ADJUST_MAX,
       OOM_SCORE_ADJ_MIN, OOM_SCORE_ADJ_MAX

\* A value written through oom_adj loses at most one towards zero.
LEMMA RoundTrip ==
    ASSUME NEW x \in LegacyRange
    PROVE  /\ IF x >= 0 THEN Unscale(Scale(x)) \in {x - 1, x} \cap Nat
                        ELSE Unscale(Scale(x)) \in {x, x + 1}
           /\ x \in {OOM_DISABLE, OOM_ADJUST_MAX} => Unscale(Scale(x)) = x
BY DEF LegacyRange, Unscale, Scale, Quot, OOM_DISABLE, OOM_ADJUST_MIN, OOM_ADJUST_MAX,
       OOM_SCORE_ADJ_MAX

\* There are mms for all processes that run at first.
LEMMA BootMmExists ==
    /\ BootMm \in [Boot -> Mm]
    /\ \A p, q \in Boot : BootMm[p] = BootMm[q] => p = q
<1>1. IsFiniteSet(Boot) /\ IsFiniteSet(Mm) /\ Cardinality(Boot) <= Cardinality(Mm)
  BY OomAssumption, FS_Subset
<1>2. /\ Cardinality(Boot) \in Nat /\ ExistsBijection(1..Cardinality(Boot), Boot)
      /\ Cardinality(Mm) \in Nat /\ ExistsBijection(1..Cardinality(Mm), Mm)
  BY <1>1, FS_CardinalityType
<1>3. PICK f \in [1..Cardinality(Boot) -> Boot] : \A p \in Boot : \E i \in 1..Cardinality(Boot) : f[i] = p
  BY <1>2 DEF ExistsBijection, Bijection, Surjection
<1>4. PICK g \in [1..Cardinality(Mm) -> Mm] :
         \A i, j \in 1..Cardinality(Mm) : g[i] = g[j] => i = j
  BY <1>2 DEF ExistsBijection, Bijection, Injection, IsInjective
<1>5. PICK n : n = [p \in Boot |-> CHOOSE i \in 1..Cardinality(Boot) : f[i] = p]
  OBVIOUS
<1>6. \A p \in Boot : n[p] \in 1..Cardinality(Mm) /\ f[n[p]] = p
  BY <1>1, <1>2, <1>3, <1>5
<1>7. PICK h : h = [p \in Boot |-> g[n[p]]]
  OBVIOUS
<1>8. h \in [Boot -> Mm] /\ \A p, q \in Boot : h[p] = h[q] => p = q
  BY <1>4, <1>6, <1>7
<1>9. QED
  BY <1>8 DEF BootMm

(***************************************************************************)
(* Steps of processes.                                                     *)
(***************************************************************************)
\* An ordinary process was so before, where it is now, with its scores; ...
Kept(p) ==
    /\ Ordinary(p) /\ mm'[p] = mm[p] /\ multi'[mm[p]] = multi[mm[p]]
    /\ adj'[p] = adj[p] /\ adj_min'[p] = adj_min[p]

\* ... or it is alone in an mm no writer goes through.
AloneNow(p) ==
    /\ \A q \in Proc \ {p} : mm'[q] # mm'[p]
    /\ \A w \in Writer : pin[w] # mm'[p] /\ (task[w] = p => ~multi'[mm'[p]])

\* A step of processes that is one or the other for all of them keeps what is
\* known of the scores.
LEMMA ScoresKept ==
    ASSUME OomInv, UNCHANGED writers,
           \A p \in Proc : Ordinary(p)' => Kept(p) \/ AloneNow(p),
           \A w \in Writer : task[w] \in Proc =>
               adj'[task[w]] = adj[task[w]] /\ adj_min'[task[w]] = adj_min[task[w]]
    PROVE  ScoresOk'
<1>0. UNCHANGED <<wpc, task, val, legacy, pin, done, plain>>
  BY DEF writers
<1>1. ASSUME NEW p \in Proc, NEW q \in Proc, p # q, Share(p, q)' PROVE Kept(p) /\ Kept(q)
  BY <1>1 DEF Share, AloneNow
<1>2. MultiOk'
  BY <1>1 DEF MultiOk, Share, Kept, OomInv, ScoresOk
<1>3. ASSUME NEW p \in Proc, NEW q \in Proc PROVE AgreeOk(p, q)'
  <2>1. CASE p = q
    BY <2>1 DEF AgreeOk
  <2>2. CASE p # q /\ Share(p, q)'
    <3>1. Kept(p) /\ Kept(q) /\ AgreeOk(p, q) /\ Share(p, q)
      BY <1>1, <2>2 DEF Kept, Share, OomInv, ScoresOk
    <3>2. \A w \in Writer : (Between(w, p, q)' <=> Between(w, p, q)) /\ (SetsMin(w)' <=> SetsMin(w))
      BY <1>0, <3>1 DEF Kept, Between, SetsMin
    <3>3. QED
      BY <3>1, <3>2 DEF AgreeOk, Kept
  <2>3. QED
    BY <2>1, <2>2 DEF AgreeOk
<1>4. ASSUME NEW w \in Writer PROVE SetOk(w)'
  <2>1. SetOk(w) /\ (wpc[w] = "set" => task[w] \in Proc)
    BY DEF OomInv, ScoresOk, WriterOk
  <2>2. QED
    BY <1>0, <2>1 DEF SetOk, Kept, AloneNow
<1>5. ASSUME NEW w \in Writer, NEW p \in Proc PROVE VisitedOk(w, p)'
  <2>1. VisitedOk(w, p) /\ (SetsMin(w)' <=> SetsMin(w))
    BY <1>0 DEF OomInv, ScoresOk, SetsMin
  <2>2. QED
    BY <1>0, <2>1 DEF VisitedOk, Kept, AloneNow
<1>6. ASSUME NEW w \in Writer PROVE FloorOk(w)'
  <2>1. FloorOk(w) /\ (wpc[w] # "idle" => task[w] \in Proc)
    BY DEF OomInv, ScoresOk, WriterOk
  <2>2. ASSUME NEW p \in Proc, Ordinary(p)', mm'[p] = pin[w] PROVE Kept(p)
    BY <2>2 DEF AloneNow
  <2>3. QED
    BY <1>0, <2>1, <2>2 DEF FloorOk, Bound, Kept
<1>7. QED
  BY <1>2, <1>3, <1>4, <1>5, <1>6 DEF ScoresOk

\* The mm a process gets is nobody's and no writer goes through it.
LEMMA NewMmUnused ==
    ASSUME MmCountOk, \E m \in Mm : Unused(m)
    PROVE  /\ NewMm \in Mm /\ \A w \in Writer : pin[w] # NewMm
           /\ \A p \in Proc : mm[p] # NewMm
<1>1. NewMm \in Mm /\ mm_count[NewMm] = 0
  BY DEF NewMm, Unused
<1>2. ~InUse(NewMm) /\ ~Held(NewMm)
  BY <1>1 DEF MmCountOk
<1>3. QED
  BY <1>1, <1>2 DEF InUse, Held

\* A writer's own state is kept by a step that leaves its task on the list.
LEMMA WritersKept ==
    ASSUME OomInv, UNCHANGED writers,
           \A w \in Writer : task[w] \in Proc /\ Listed(task[w]) => Listed(task[w])'
    PROVE  MutexOk' /\ \A w \in Writer : WriterOk(w)'
<1>0. UNCHANGED <<wpc, task, val, legacy, pin, done, plain>>
  BY DEF writers
<1>1. MutexOk'
  BY <1>0 DEF MutexOk, OomInv
<1>2. ASSUME NEW w \in Writer PROVE WriterOk(w)'
  <2>1. WriterOk(w)
    BY DEF OomInv
  <2>2. QED
    BY <1>0, <2>1 DEF WriterOk
<1>3. QED
  BY <1>1, <1>2

\* clone makes a process nobody sees yet, in the mm of its parent or a new one.
LEMMA CloneStep ==
    ASSUME OomInv, MmCountOk, NEW p \in Proc, NEW k \in {"vm", "vfork", "copy"}, clone(p, k)
    PROVE  OomInv'
<1>0. TaskTypes /\ ProcsOk /\ UNCHANGED writers /\ vfork' = vfork
  BY DEF OomInv, clone
<1>1. PICK c \in Proc : c = NewProc /\ life[c] = "none"
  BY DEF clone, NewProc
<1>2. PICK m \in Mm \cup {None} : m = IF k = "copy" THEN NewMm ELSE mm[p]
  BY <1>0, NewMmUnused DEF clone, TaskTypes
<1>3. PICK o \in BOOLEAN : o <=> (k = "copy" \/ (k = "vm" /\ own[p]))
  OBVIOUS
<1>4. /\ life[p] = "live" /\ kid[p] = None /\ p # c
      /\ life' = [life EXCEPT ![c] = "signal"]
      /\ kid' = [kid EXCEPT ![p] = c]
      /\ how' = [how EXCEPT ![c] = k]
      /\ adj' = [adj EXCEPT ![c] = adj[p]]
      /\ adj_min' = [adj_min EXCEPT ![c] = adj_min[p]]
      /\ mm' = [mm EXCEPT ![c] = m]
  BY <1>1, <1>2 DEF clone, Ready
<1>5. own' = [own EXCEPT ![c] = o]
  <2>1. o = (k = "copy" \/ (k = "vm" /\ own[p]))
    BY <1>0, <1>3 DEF TaskTypes
  <2>2. own' = [own EXCEPT ![c] = k = "copy" \/ (k = "vm" /\ own[p])]
    BY <1>1 DEF clone
  <2>3. QED
    BY <2>1, <2>2, Zenon
<1>6. /\ reused' = {} /\ multi' \in [Mm -> BOOLEAN]
      /\ \A q \in Proc : mm[q] # None => multi'[mm[q]] = multi[mm[q]]
      /\ k = "copy" => /\ \A q \in Proc : mm[q] # m
                       /\ \A w \in Writer : pin[w] # m
                       /\ m # None
  <2>1. CASE k = "copy"
    <3>1. (\E x \in Mm : Unused(x)) /\ TakeNewMm /\ m = NewMm
      BY <1>2, <2>1 DEF clone
    <3>2. m \in Mm /\ (\A w \in Writer : pin[w] # m) /\ \A q \in Proc : mm[q] # m
      BY <1>0, <3>1, NewMmUnused
    <3>3. reused' = {} /\ multi' = [multi EXCEPT ![m] = FALSE]
      BY <3>1, <3>2 DEF TakeNewMm, OomInv
    <3>4. QED
      BY <1>0, <3>2, <3>3, Constants DEF TaskTypes
  <2>2. CASE k # "copy"
    BY <1>0, <2>2 DEF clone, TaskTypes, OomInv
  <2>3. QED
    BY <2>1, <2>2
<1>7. TaskTypes'
  <2>1. /\ life' \in [Proc -> {"none", "signal", "attached", "live", "dead"}]
        /\ mm' \in [Proc -> Mm \cup {None}] /\ kid' \in [Proc -> Proc \cup {None}]
        /\ how' \in [Proc -> {"vm", "vfork", "copy"}] /\ own' \in [Proc -> BOOLEAN]
        /\ adj' \in [Proc -> ScoreRange] /\ adj_min' \in [Proc -> ScoreRange]
    BY <1>0, <1>4, <1>5 DEF TaskTypes
  <2>2. QED
    BY <1>0, <1>6, <2>1 DEF TaskTypes, writers
<1>8. /\ life'[c] = "signal" /\ how'[c] = k /\ mm'[c] = m /\ own'[c] = o /\ kid'[p] = c
      /\ \A q \in Proc \ {c} : /\ life'[q] = life[q] /\ how'[q] = how[q] /\ mm'[q] = mm[q]
                               /\ own'[q] = own[q]
                               /\ adj'[q] = adj[q] /\ adj_min'[q] = adj_min[q]
      /\ \A q \in Proc \ {p} : kid'[q] = kid[q]
  BY <1>0, <1>4, <1>5 DEF TaskTypes
<1>9. MutexOk' /\ \A w \in Writer : WriterOk(w)'
  <2>1. \A w \in Writer : task[w] \in Proc /\ Listed(task[w]) => Listed(task[w])'
    BY <1>0, <1>1, <1>8 DEF Listed, writers
  <2>2. QED
    BY <1>0, <2>1, WritersKept
<1>10. \A q \in Proc : LifeOk(q)'
  <2>1. m # None
    BY <1>0, <1>2, <1>4, <1>6 DEF ProcsOk, LifeOk
  <2>2. LifeOk(c) /\ c \notin GlobalInit
    BY <1>0, <1>1 DEF ProcsOk, LifeOk
  <2>3. LifeOk(c)'
    BY <1>0, <1>1, <1>4, <1>8, <2>1, <2>2 DEF LifeOk
  <2>4. LifeOk(p)'
    BY <1>0, <1>4, <1>8 DEF ProcsOk, LifeOk
  <2>5. \A q \in Proc \ {c, p} : LifeOk(q)'
    BY <1>0, <1>8 DEF ProcsOk, LifeOk
  <2>6. QED
    BY <2>3, <2>4, <2>5
<1>11. \A q \in Proc : KidOk(q)'
  <2>1. \A q \in Proc : kid[q] # c
    BY <1>0, <1>1, Constants DEF ProcsOk, KidOk
  <2>2. KidOk(p)'
    <3>1. \A q \in Proc : kid'[q] = c => q = p
      BY <1>8, <2>1
    <3>2. k = "vm" => m = mm[p] /\ o = own[p]
      BY <1>0, <1>2, <1>3 DEF TaskTypes
    <3>3. QED
      BY <1>1, <1>4, <1>8, <3>1, <3>2 DEF KidOk, Joins
  <2>3. ASSUME NEW q \in Proc \ {p} PROVE KidOk(q)'
    <3>1. KidOk(q) /\ kid'[q] = kid[q] /\ kid[q] # c /\ kid[q] \in Proc \cup {None}
      BY <1>0, <1>8, <2>1 DEF ProcsOk, TaskTypes
    <3>2. q # c \/ kid[q] = None
      BY <1>0, <1>1 DEF ProcsOk, LifeOk
    <3>3. kid[q] # None => \A r \in Proc : kid'[r] = kid[q] => r = q
      BY <1>8, <2>1, <3>1 DEF KidOk
    <3>4. QED
      BY <1>8, <3>1, <3>2, <3>3 DEF KidOk, Joins
  <2>4. QED
    BY <2>2, <2>3
<1>12. \A q \in Proc : NewOk(q)'
  <2>1. NewOk(c)'
    <3>1. k = "vfork" => ~o
      BY <1>3
    <3>2. k = "copy" => (\A q \in Proc \ {c} : mm'[q] # m) /\ (\A w \in Writer : pin'[w] # m)
      BY <1>0, <1>6, <1>8 DEF writers
    <3>3. QED
      BY <1>8, <3>1, <3>2 DEF NewOk
  <2>2. ASSUME NEW q \in Proc \ {c} PROVE NewOk(q)'
    <3>1. NewOk(q) /\ mm'[q] = mm[q] /\ own'[q] = own[q] /\ life'[q] = life[q] /\ how'[q] = how[q]
      BY <1>0, <1>8 DEF ProcsOk
    <3>2. life[q] = "signal" => p # q
      BY <1>4
    <3>3. life[q] = "signal" /\ how[q] = "copy" => m # mm[q]
      BY <1>2, <1>6, <3>1, <3>2 DEF NewOk
    <3>4. QED
      BY <1>0, <1>8, <3>1, <3>3 DEF NewOk, writers
  <2>3. QED
    BY <2>1, <2>2
<1>13. ScoresOk'
  <2>1. ASSUME NEW q \in Proc, Ordinary(q)' PROVE Kept(q)
    <3>1. q # c /\ Ordinary(q)
      BY <1>8, <2>1 DEF Ordinary
    <3>2. mm[q] # None
      BY <1>0, <3>1 DEF Ordinary, ProcsOk, LifeOk
    <3>3. QED
      BY <1>6, <1>8, <3>1, <3>2 DEF Kept
  <2>2. \A w \in Writer : task[w] # c
    BY <1>1, Constants DEF OomInv, WriterOk, Listed
  <2>3. \A w \in Writer : task[w] \in Proc =>
           adj'[task[w]] = adj[task[w]] /\ adj_min'[task[w]] = adj_min[task[w]]
    BY <1>8, <2>2
  <2>4. QED
    BY <1>0, <2>1, <2>3, ScoresKept
<1>14. QED
  BY <1>6, <1>7, <1>9, <1>10, <1>11, <1>12, <1>13 DEF OomInv, ProcsOk

\* The child is put on the lists, alone in its mm, in vfork, or not yet live.
LEMMA AttachStep ==
    ASSUME OomInv, NEW p \in Proc, attach(p)
    PROVE  OomInv'
<1>0. TaskTypes /\ ProcsOk
      /\ UNCHANGED <<mm, multi, reused, own, adj, adj_min>> /\ UNCHANGED writers
  BY DEF OomInv, attach, scores
<1>1. PICK c \in Proc : c = kid[p] /\ life[c] = "signal"
  BY <1>0 DEF attach, TaskTypes
<1>2. PICK l \in {"attached", "live"} : l = IF how[c] = "vm" THEN "attached" ELSE "live"
  OBVIOUS
<1>3. PICK v \in BOOLEAN : v <=> how[c] = "vfork"
  OBVIOUS
<1>4. PICK k \in Proc \cup {None} : k = IF how[c] = "copy" THEN None ELSE c
  OBVIOUS
<1>5. /\ life' = [life EXCEPT ![c] = l] /\ kid' = [kid EXCEPT ![p] = k]
      /\ how' = [how EXCEPT ![c] = "copy"]
  BY <1>1, <1>2, <1>4 DEF attach
<1>6. vfork' = [vfork EXCEPT ![c] = v]
  <2>1. v = (how[c] = "vfork")
    BY <1>3
  <2>2. vfork' = [vfork EXCEPT ![c] = how[c] = "vfork"]
    BY <1>1 DEF attach
  <2>3. QED
    BY <2>1, <2>2, Zenon
<1>7. TaskTypes'
  <2>1. /\ life' \in [Proc -> {"none", "signal", "attached", "live", "dead"}]
        /\ kid' \in [Proc -> Proc \cup {None}]
        /\ how' \in [Proc -> {"vm", "vfork", "copy"}] /\ vfork' \in [Proc -> BOOLEAN]
    BY <1>0, <1>5, <1>6 DEF TaskTypes
  <2>2. QED
    BY <1>0, <2>1 DEF TaskTypes, writers
<1>8. /\ life'[c] = l /\ how'[c] = "copy" /\ vfork'[c] = v /\ kid'[p] = k
      /\ \A q \in Proc \ {c} : life'[q] = life[q] /\ how'[q] = how[q] /\ vfork'[q] = vfork[q]
      /\ \A q \in Proc \ {p} : kid'[q] = kid[q]
  BY <1>0, <1>5, <1>6 DEF TaskTypes
<1>9. p # c /\ life[p] = "live" /\ LifeOk(c) /\ LifeOk(p) /\ KidOk(p) /\ NewOk(c) /\ c # None
  BY <1>0, <1>1, Constants DEF ProcsOk, LifeOk
<1>10. MutexOk' /\ \A w \in Writer : WriterOk(w)'
  <2>1. \A w \in Writer : task[w] \in Proc /\ Listed(task[w]) => Listed(task[w])'
    BY <1>0, <1>8 DEF Listed, writers
  <2>2. QED
    BY <1>0, <2>1, WritersKept
<1>11. \A q \in Proc : LifeOk(q)'
  <2>1. how[c] = "vfork" => l = "live" /\ ~own[c]
    BY <1>1, <1>2, <1>9 DEF NewOk
  <2>2. LifeOk(c)'
    BY <1>0, <1>1, <1>3, <1>8, <1>9, <2>1 DEF LifeOk
  <2>3. LifeOk(p)'
    BY <1>0, <1>8, <1>9 DEF LifeOk
  <2>4. \A q \in Proc \ {c, p} : LifeOk(q)'
    BY <1>0, <1>8 DEF ProcsOk, LifeOk
  <2>5. QED
    BY <2>2, <2>3, <2>4
<1>12. \A q \in Proc : KidOk(q)'
  <2>1. \A q \in Proc : kid[q] = c => q = p
    BY <1>1, <1>9 DEF KidOk
  <2>2. KidOk(p)'
    <3>1. k # None => /\ k = c /\ (l = "attached" => mm[c] = mm[p] /\ own[c] = own[p])
                      /\ \A q \in Proc : kid'[q] = c => q = p
      BY <1>1, <1>2, <1>4, <1>8, <1>9, <2>1 DEF KidOk, Joins
    <3>2. QED
      BY <1>0, <1>8, <3>1 DEF KidOk, Joins
  <2>3. ASSUME NEW q \in Proc \ {p} PROVE KidOk(q)'
    <3>1. KidOk(q) /\ kid'[q] = kid[q] /\ kid[q] # c /\ kid[q] \in Proc \cup {None}
      BY <1>0, <1>8, <2>1 DEF ProcsOk, TaskTypes
    <3>2. kid[q] # None => \A r \in Proc : kid'[r] = kid[q] => r = q
      BY <1>4, <1>8, <1>9, <3>1 DEF KidOk
    <3>3. QED
      BY <1>0, <1>8, <3>1, <3>2 DEF KidOk, Joins
  <2>4. QED
    BY <2>2, <2>3
<1>13. \A q \in Proc : NewOk(q)'
  BY <1>0, <1>8 DEF ProcsOk, NewOk, writers
<1>14. ScoresOk'
  <2>1. ASSUME NEW q \in Proc, Ordinary(q)' PROVE Kept(q) \/ AloneNow(q)
    <3>1. CASE q # c
      BY <1>0, <1>8, <2>1, <3>1 DEF Ordinary, Kept
    <3>2. CASE q = c
      <4>1. how[c] = "copy"
        BY <1>0, <1>1, <1>2, <1>8, <1>9, <2>1, <3>2 DEF Ordinary, NewOk, TaskTypes
      <4>2. \A w \in Writer : task[w] # c
        BY <1>1, <1>9 DEF OomInv, WriterOk, Listed
      <4>3. QED
        BY <1>0, <1>1, <1>9, <3>2, <4>1, <4>2 DEF NewOk, AloneNow
    <3>3. QED
      BY <3>1, <3>2
  <2>2. QED
    BY <1>0, <2>1, ScoresKept
<1>15. QED
  BY <1>0, <1>7, <1>10, <1>11, <1>12, <1>13, <1>14 DEF OomInv, ProcsOk

\* The child becomes ordinary with the scores of its parent, nobody writing.
LEMMA CopyOomStep ==
    ASSUME OomInv, NEW p \in Proc, copy_oom_score_adj(p)
    PROVE  OomInv'
<1>0. /\ TaskTypes /\ ProcsOk /\ \A w \in Writer : wpc[w] = "idle"
      /\ UNCHANGED <<mm, vfork, how, reused, own>> /\ UNCHANGED writers
  BY DEF OomInv, copy_oom_score_adj, MutexFree
<1>1. PICK c \in Proc : c = kid[p] /\ life[c] = "attached"
  BY <1>0 DEF copy_oom_score_adj, TaskTypes
<1>2. /\ life' = [life EXCEPT ![c] = "live"] /\ kid' = [kid EXCEPT ![p] = None]
      /\ adj' = [adj EXCEPT ![c] = adj[p]] /\ adj_min' = [adj_min EXCEPT ![c] = adj_min[p]]
      /\ multi' = [multi EXCEPT ![mm[c]] = TRUE]
  BY <1>1 DEF copy_oom_score_adj, CopyScores
<1>3. /\ p # c /\ life[p] = "live" /\ LifeOk(c) /\ LifeOk(p) /\ KidOk(p) /\ c # None
      /\ mm[c] = mm[p] /\ own[c] = own[p] /\ mm[c] \in Mm
  BY <1>0, <1>1, Constants DEF ProcsOk, LifeOk, KidOk, Joins, TaskTypes
<1>4. TaskTypes'
  <2>1. /\ life' \in [Proc -> {"none", "signal", "attached", "live", "dead"}]
        /\ kid' \in [Proc -> Proc \cup {None}] /\ multi' \in [Mm -> BOOLEAN]
        /\ adj' \in [Proc -> ScoreRange] /\ adj_min' \in [Proc -> ScoreRange]
    BY <1>0, <1>2 DEF TaskTypes
  <2>2. QED
    BY <1>0, <2>1 DEF TaskTypes, writers
<1>5. /\ life'[c] = "live" /\ kid'[p] = None /\ multi'[mm[c]] = TRUE
      /\ \A q \in Proc \ {c} : life'[q] = life[q] /\ adj'[q] = adj[q] /\ adj_min'[q] = adj_min[q]
      /\ adj'[c] = adj[p] /\ adj_min'[c] = adj_min[p]
      /\ \A q \in Proc \ {p} : kid'[q] = kid[q]
      /\ \A q \in Proc : mm[q] # None /\ multi[mm[q]] => multi'[mm[q]]
  BY <1>0, <1>2, <1>3 DEF TaskTypes
<1>6. MutexOk' /\ \A w \in Writer : WriterOk(w)'
  <2>1. \A w \in Writer : task[w] \in Proc /\ Listed(task[w]) => Listed(task[w])'
    BY <1>0, <1>5 DEF Listed, writers
  <2>2. QED
    BY <1>0, <2>1, WritersKept
<1>7. \A q \in Proc : LifeOk(q)'
  <2>1. LifeOk(c)' /\ LifeOk(p)'
    BY <1>0, <1>1, <1>3, <1>5 DEF LifeOk
  <2>2. \A q \in Proc \ {c, p} : LifeOk(q)'
    BY <1>0, <1>5 DEF ProcsOk, LifeOk
  <2>3. QED
    BY <2>1, <2>2
<1>8. \A q \in Proc : KidOk(q)'
  <2>1. KidOk(p)'
    BY <1>5 DEF KidOk
  <2>2. ASSUME NEW q \in Proc \ {p} PROVE KidOk(q)'
    <3>1. KidOk(q) /\ kid'[q] = kid[q] /\ kid[q] # c /\ kid[q] \in Proc \cup {None}
      BY <1>0, <1>1, <1>3, <1>5 DEF ProcsOk, TaskTypes, KidOk
    <3>2. kid[q] # None => \A r \in Proc : kid'[r] = kid[q] => r = q
      BY <1>3, <1>5, <3>1 DEF KidOk
    <3>3. QED
      BY <1>0, <1>5, <3>1, <3>2 DEF KidOk, Joins
  <2>3. QED
    BY <2>1, <2>2
<1>9. \A q \in Proc : NewOk(q)'
  BY <1>0, <1>5 DEF ProcsOk, NewOk, writers
<1>10. ScoresOk'
  <2>0. \A q \in Proc : Ordinary(q)' => mm[q] # None /\ (Ordinary(q) \/ (q = c /\ Ordinary(p)))
    BY <1>0, <1>3, <1>5, <1>7 DEF Ordinary, LifeOk
  <2>1. MultiOk'
    <3>1. ASSUME NEW q \in Proc, NEW r \in Proc, q # r, Share(q, r)' PROVE multi'[mm[q]]
      <4>1. CASE q = c \/ r = c
        BY <1>0, <1>5, <3>1, <4>1 DEF Share
      <4>2. CASE q # c /\ r # c
        <5>1. Share(q, r)
          BY <1>0, <2>0, <3>1, <4>2 DEF Share
        <5>2. multi[mm[q]]
          BY <3>1, <5>1 DEF OomInv, ScoresOk, MultiOk
        <5>3. QED
          BY <1>5, <2>0, <3>1, <5>2 DEF Share
      <4>3. QED
        BY <4>1, <4>2
    <3>2. QED
      BY <1>0, <3>1 DEF MultiOk
  <2>2. ASSUME NEW q \in Proc, NEW r \in Proc PROVE AgreeOk(q, r)'
    <3>1. \A x, y \in Proc : Share(x, y) => adj[x] = adj[y] /\ adj_min[x] = adj_min[y]
      BY <1>0 DEF OomInv, ScoresOk, AgreeOk, Between
    <3>2. ASSUME NEW x \in Proc, Ordinary(x)'
          PROVE  \E y \in Proc : /\ Ordinary(y) /\ mm[y] = mm'[x]
                                  /\ adj'[x] = adj[y] /\ adj_min'[x] = adj_min[y]
      <4>1. CASE x = c
        BY <1>0, <1>1, <1>3, <1>5, <2>0, <3>2, <4>1 DEF Ordinary
      <4>2. CASE x # c
        BY <1>0, <1>5, <2>0, <3>2, <4>2
      <4>3. QED
        BY <4>1, <4>2
    <3>3. Share(q, r)' => adj'[q] = adj'[r] /\ adj_min'[q] = adj_min'[r]
      BY <3>1, <3>2 DEF Share
    <3>4. QED
      BY <3>3 DEF AgreeOk
  <2>3. \A w \in Writer : wpc'[w] = "idle"
    BY <1>0 DEF writers
  <2>4. QED
    BY <2>1, <2>2, <2>3 DEF ScoresOk, SetOk, VisitedOk, FloorOk
<1>11. QED
  BY <1>0, <1>4, <1>6, <1>7, <1>8, <1>9, <1>10 DEF OomInv, ProcsOk

\* The parent of p, if p is a child of vfork, goes on.
LEMMA WokenKids ==
    ASSUME OomInv, NEW p \in Proc
    PROVE  /\ Woken(p) \in [Proc -> Proc \cup {None}]
           /\ \A q \in Proc : Woken(p)[q] # p
           /\ \A q \in Proc : Woken(p)[q] = kid[q] \/ Woken(p)[q] = None
BY Constants DEF OomInv, TaskTypes, Woken

\* exec moves a process alone to a new mm.
LEMMA ExecStep ==
    ASSUME OomInv, MmCountOk, NEW p \in Proc, exec(p)
    PROVE  OomInv'
<1>0. /\ TaskTypes /\ ProcsOk /\ life[p] = "live" /\ kid[p] = None
      /\ UNCHANGED <<life, how, adj, adj_min>> /\ UNCHANGED writers
  BY DEF OomInv, exec, Ready, scores
<1>1. PICK m \in Mm : /\ m = NewMm /\ \A w \in Writer : pin[w] # m
                      /\ \A q \in Proc : mm[q] # m
  BY <1>0, NewMmUnused DEF exec
<1>2. PICK k : k = Woken(p)
  OBVIOUS
<1>3. /\ k \in [Proc -> Proc \cup {None}] /\ \A q \in Proc : k[q] # p
      /\ \A q \in Proc : k[q] = kid[q] \/ k[q] = None
  BY <1>2, WokenKids
<1>4. PICK o \in BOOLEAN : o <=> p \notin GlobalInit
  OBVIOUS
<1>5. /\ mm' = [mm EXCEPT ![p] = m] /\ multi' = [multi EXCEPT ![m] = FALSE] /\ reused' = {}
      /\ vfork' = [vfork EXCEPT ![p] = FALSE] /\ kid' = k
  BY <1>1, <1>2 DEF exec, TakeNewMm, OomInv
<1>6. own' = [own EXCEPT ![p] = o]
  <2>1. o = (p \notin GlobalInit)
    BY <1>4
  <2>2. own' = [own EXCEPT ![p] = p \notin GlobalInit]
    BY DEF exec
  <2>3. QED
    BY <2>1, <2>2, Zenon
<1>7. TaskTypes'
  <2>1. /\ mm' \in [Proc -> Mm \cup {None}] /\ multi' \in [Mm -> BOOLEAN]
        /\ vfork' \in [Proc -> BOOLEAN] /\ own' \in [Proc -> BOOLEAN]
    BY <1>0, <1>5, <1>6 DEF TaskTypes
  <2>2. QED
    BY <1>0, <1>3, <1>5, <2>1 DEF TaskTypes, writers
<1>8. /\ mm'[p] = m /\ ~vfork'[p] /\ own'[p] = o /\ ~multi'[m]
      /\ \A q \in Proc \ {p} : mm'[q] = mm[q] /\ vfork'[q] = vfork[q] /\ own'[q] = own[q]
      /\ \A x \in Mm \ {m} : multi'[x] = multi[x]
  BY <1>0, <1>5, <1>6 DEF TaskTypes
<1>9. MutexOk' /\ \A w \in Writer : WriterOk(w)'
  <2>1. \A w \in Writer : task[w] \in Proc /\ Listed(task[w]) => Listed(task[w])'
    BY <1>0 DEF Listed, writers
  <2>2. QED
    BY <1>0, <2>1, WritersKept
<1>10. \A q \in Proc : LifeOk(q)'
  <2>1. LifeOk(p)'
    BY <1>0, <1>1, <1>3, <1>4, <1>5, <1>8, Constants DEF ProcsOk, LifeOk
  <2>2. \A q \in Proc \ {p} : LifeOk(q)'
    BY <1>0, <1>3, <1>5, <1>8 DEF ProcsOk, LifeOk
  <2>3. QED
    BY <2>1, <2>2
<1>11. \A q \in Proc : KidOk(q)'
  <2>1. ASSUME NEW q \in Proc, k[q] # None PROVE KidOk(q)'
    <3>1. KidOk(q) /\ k[q] = kid[q] /\ kid[q] # None /\ kid[q] # p /\ q # p /\ kid[q] \in Proc
      BY <1>0, <1>3, <2>1 DEF ProcsOk, TaskTypes
    <3>2. \A r \in Proc : k[r] = k[q] => r = q
      BY <1>3, <2>1, <3>1 DEF KidOk
    <3>3. QED
      BY <1>0, <1>5, <1>8, <3>1, <3>2 DEF KidOk, Joins
  <2>2. QED
    BY <1>5, <2>1 DEF KidOk
<1>12. \A q \in Proc : NewOk(q)'
  <2>1. ASSUME NEW q \in Proc, life[q] = "signal" PROVE NewOk(q)'
    <3>1. NewOk(q) /\ q # p /\ mm'[q] = mm[q] /\ mm[q] # m /\ own'[q] = own[q]
      BY <1>0, <1>1, <1>8, <2>1 DEF ProcsOk
    <3>2. QED
      BY <1>0, <1>8, <3>1 DEF NewOk, writers
  <2>2. QED
    BY <1>0, <2>1 DEF NewOk
<1>13. ScoresOk'
  <2>1. ASSUME NEW q \in Proc, Ordinary(q)' PROVE Kept(q) \/ AloneNow(q)
    <3>1. CASE q = p
      BY <1>1, <1>8, <3>1 DEF AloneNow
    <3>2. CASE q # p
      <4>1. Ordinary(q) /\ mm'[q] = mm[q]
        BY <1>0, <1>8, <2>1, <3>2 DEF Ordinary
      <4>2. mm[q] \in Mm \ {m}
        BY <1>0, <1>1, <4>1 DEF Ordinary, ProcsOk, LifeOk, TaskTypes
      <4>3. QED
        BY <1>0, <1>8, <4>1, <4>2 DEF Kept
    <3>3. QED
      BY <3>1, <3>2
  <2>2. QED
    BY <1>0, <2>1, ScoresKept
<1>14. QED
  BY <1>5, <1>7, <1>9, <1>10, <1>11, <1>12, <1>13 DEF OomInv, ProcsOk

\* A process dies, its vfork child, if it has one, being let go; exit and
\* vfork_killed are both of this form.
LEMMA DeathStep ==
    ASSUME OomInv, NEW p \in Proc, life[p] = "live", p \notin GlobalInit,
           life' = [life EXCEPT ![p] = "dead"], mm' = [mm EXCEPT ![p] = None],
           kid' = [Woken(p) EXCEPT ![p] = None],
           vfork' \in [Proc -> BOOLEAN], ~vfork'[p],
           \A q \in Proc : vfork'[q] => vfork[q],
           kid[p] # None => life[kid[p]] = "live",
           UNCHANGED <<how, multi, reused, own, adj, adj_min>>, UNCHANGED writers
    PROVE  OomInv'
<1>0. TaskTypes /\ ProcsOk
  BY DEF OomInv
<1>2. PICK k : k = [Woken(p) EXCEPT ![p] = None]
  OBVIOUS
<1>3. /\ k \in [Proc -> Proc \cup {None}] /\ \A q \in Proc : k[q] # p
      /\ \A q \in Proc : k[q] = kid[q] \/ k[q] = None
      /\ k[p] = None /\ kid' = k
  BY <1>2, WokenKids, Constants
<1>7. TaskTypes'
  <2>1. /\ mm' \in [Proc -> Mm \cup {None}]
        /\ life' \in [Proc -> {"none", "signal", "attached", "live", "dead"}]
    BY <1>0 DEF TaskTypes
  <2>2. QED
    BY <1>0, <1>3, <2>1 DEF TaskTypes, writers
<1>8. /\ mm'[p] = None /\ life'[p] = "dead"
      /\ \A q \in Proc \ {p} : mm'[q] = mm[q] /\ life'[q] = life[q]
  BY <1>0 DEF TaskTypes
<1>9. MutexOk' /\ \A w \in Writer : WriterOk(w)'
  <2>1. \A w \in Writer : task[w] \in Proc /\ Listed(task[w]) => Listed(task[w])'
    BY <1>0, <1>8 DEF Listed, writers
  <2>2. QED
    BY <1>0, <2>1, WritersKept
<1>10. \A q \in Proc : LifeOk(q)'
  <2>1. LifeOk(p)'
    BY <1>0, <1>3, <1>8 DEF LifeOk
  <2>2. \A q \in Proc \ {p} : LifeOk(q)'
    BY <1>0, <1>3, <1>8 DEF ProcsOk, LifeOk
  <2>3. QED
    BY <2>1, <2>2
<1>11. \A q \in Proc : KidOk(q)'
  <2>1. ASSUME NEW q \in Proc, k[q] # None PROVE KidOk(q)'
    <3>1. KidOk(q) /\ k[q] = kid[q] /\ kid[q] # None /\ kid[q] # p /\ q # p /\ kid[q] \in Proc
      BY <1>0, <1>3, <2>1 DEF ProcsOk, TaskTypes
    <3>2. \A r \in Proc : k[r] = k[q] => r = q
      BY <1>3, <2>1, <3>1 DEF KidOk
    <3>3. QED
      BY <1>0, <1>3, <1>8, <3>1, <3>2 DEF KidOk, Joins
  <2>2. QED
    BY <1>3, <2>1 DEF KidOk
<1>12. \A q \in Proc : NewOk(q)'
  <2>1. ASSUME NEW q \in Proc, life'[q] = "signal" PROVE NewOk(q)'
    <3>1. NewOk(q) /\ q # p /\ mm'[q] = mm[q] /\ mm[q] # None /\ life[q] = "signal"
      BY <1>0, <1>8, <2>1 DEF ProcsOk, LifeOk
    <3>2. QED
      BY <1>0, <1>8, <3>1 DEF NewOk, writers
  <2>2. QED
    BY <1>0, <2>1 DEF NewOk
<1>13. ScoresOk'
  <2>1. ASSUME NEW q \in Proc, Ordinary(q)' PROVE Kept(q)
    BY <1>8, <2>1 DEF Ordinary, Kept
  <2>2. QED
    BY <1>0, <2>1, ScoresKept
<1>14. QED
  BY <1>7, <1>9, <1>10, <1>11, <1>12, <1>13 DEF OomInv, ProcsOk

\* exit, of a process that is making no child.
LEMMA ExitStep ==
    ASSUME OomInv, NEW p \in Proc, exit(p)
    PROVE  OomInv'
<1>0. /\ TaskTypes /\ life[p] = "live" /\ kid[p] = None /\ p \notin GlobalInit
      /\ life' = [life EXCEPT ![p] = "dead"] /\ mm' = [mm EXCEPT ![p] = None]
      /\ vfork' = [vfork EXCEPT ![p] = FALSE] /\ kid' = Woken(p)
      /\ UNCHANGED <<how, multi, reused, own, adj, adj_min>> /\ UNCHANGED writers
  BY DEF OomInv, exit, Ready, scores
<1>1. Woken(p) = [Woken(p) EXCEPT ![p] = None]
  BY <1>0 DEF Woken
<1>2. vfork' \in [Proc -> BOOLEAN] /\ ~vfork'[p] /\ \A q \in Proc : vfork'[q] => vfork[q]
  BY <1>0 DEF TaskTypes
<1>3. QED
  BY <1>0, <1>1, <1>2, DeathStep

\* The death of a parent that waits in vfork.
LEMMA VforkKilledStep ==
    ASSUME OomInv, NEW p \in Proc, vfork_killed(p)
    PROVE  OomInv'
<1>0. /\ TaskTypes /\ ProcsOk /\ life[p] = "live" /\ kid[p] \in Proc /\ vfork[kid[p]]
      /\ p \notin GlobalInit
      /\ life' = [life EXCEPT ![p] = "dead"] /\ mm' = [mm EXCEPT ![p] = None]
      /\ vfork' = [vfork EXCEPT ![kid[p]] = FALSE, ![p] = FALSE]
      /\ kid' = [Woken(p) EXCEPT ![p] = None]
      /\ UNCHANGED <<how, multi, reused, own, adj, adj_min>> /\ UNCHANGED writers
  BY DEF OomInv, vfork_killed, scores, TaskTypes
<1>1. life[kid[p]] = "live"
  BY <1>0 DEF ProcsOk, LifeOk
<1>2. vfork' \in [Proc -> BOOLEAN] /\ ~vfork'[p] /\ \A q \in Proc : vfork'[q] => vfork[q]
  BY <1>0 DEF TaskTypes
<1>3. QED
  BY <1>0, <1>1, <1>2, DeathStep

\* A dead process no writer holds is forgotten.
LEMMA ReapStep ==
    ASSUME OomInv, NEW p \in Proc, reap(p)
    PROVE  OomInv'
<1>0. /\ TaskTypes /\ ProcsOk /\ life[p] = "dead" /\ \A w \in Writer : task[w] # p
      /\ life' = [life EXCEPT ![p] = "none"]
      /\ adj' = [adj EXCEPT ![p] = 0] /\ adj_min' = [adj_min EXCEPT ![p] = 0]
      /\ own' = [own EXCEPT ![p] = FALSE]
      /\ UNCHANGED <<mm, vfork, kid, how, multi, reused>> /\ UNCHANGED writers
  BY DEF OomInv, reap
<1>1. TaskTypes'
  <2>1. /\ life' \in [Proc -> {"none", "signal", "attached", "live", "dead"}]
        /\ own' \in [Proc -> BOOLEAN]
        /\ adj' \in [Proc -> ScoreRange] /\ adj_min' \in [Proc -> ScoreRange]
    BY <1>0, Scores DEF TaskTypes
  <2>2. QED
    BY <1>0, <2>1 DEF TaskTypes, writers
<1>2. /\ life'[p] = "none" /\ ~own'[p]
      /\ \A q \in Proc \ {p} : /\ life'[q] = life[q] /\ own'[q] = own[q]
                               /\ adj'[q] = adj[q] /\ adj_min'[q] = adj_min[q]
  BY <1>0 DEF TaskTypes
<1>3. MutexOk' /\ \A w \in Writer : WriterOk(w)'
  <2>1. \A w \in Writer : task[w] \in Proc /\ Listed(task[w]) => Listed(task[w])'
    BY <1>0, <1>2 DEF Listed, writers
  <2>2. QED
    BY <1>0, <2>1, WritersKept
<1>4. ASSUME NEW q \in Proc PROVE LifeOk(q)'
  <2>1. LifeOk(q)
    BY <1>0 DEF ProcsOk
  <2>2. CASE q = p
    BY <1>0, <1>2, <2>1, <2>2 DEF LifeOk
  <2>3. CASE q # p
    BY <1>0, <1>2, <2>1, <2>3 DEF LifeOk
  <2>4. QED
    BY <2>2, <2>3
<1>5. ASSUME NEW q \in Proc PROVE KidOk(q)'
  <2>1. KidOk(q) /\ LifeOk(q) /\ kid[q] \in Proc \cup {None}
    BY <1>0 DEF ProcsOk, TaskTypes
  <2>2. kid[q] # None => kid[q] # p /\ q # p
    BY <1>0, <2>1 DEF KidOk, LifeOk
  <2>3. kid[q] # None => /\ life'[kid[q]] = life[kid[q]] /\ own'[kid[q]] = own[kid[q]]
                         /\ own'[q] = own[q]
    BY <1>2, <2>1, <2>2
  <2>4. QED
    BY <1>0, <2>1, <2>3 DEF KidOk, Joins
<1>6. ASSUME NEW q \in Proc PROVE NewOk(q)'
  <2>1. NewOk(q)
    BY <1>0 DEF ProcsOk
  <2>2. QED
    BY <1>0, <1>2, <2>1 DEF NewOk, writers
<1>7. ScoresOk'
  <2>1. ASSUME NEW q \in Proc, Ordinary(q)' PROVE Kept(q)
    BY <1>0, <1>2, <2>1 DEF Ordinary, Kept
  <2>2. \A w \in Writer : task[w] \in Proc =>
           adj'[task[w]] = adj[task[w]] /\ adj_min'[task[w]] = adj_min[task[w]]
    BY <1>0, <1>2
  <2>3. QED
    BY <1>0, <2>1, <2>2, ScoresKept
<1>8. QED
  BY <1>0, <1>1, <1>3, <1>4, <1>5, <1>6, <1>7 DEF OomInv, ProcsOk

(***************************************************************************)
(* Steps of writers.                                                       *)
(***************************************************************************)
\* A writer at work changes no process, and is the only one at work.
Others(w) == \A v \in Writer \ {w} : wpc[v] = "idle" /\ wpc'[v] = "idle"

\* What a step of a writer must keep for OomInv to hold after it.
LEMMA WriterStep ==
    ASSUME OomInv, NEW w \in Writer, UNCHANGED procs, TaskTypes', Others(w), WriterOk(w)',
           \A v \in Writer \ {w} : UNCHANGED <<task[v], pin[v], done[v], legacy[v], val[v]>>
                                   /\ (v \in plain' <=> v \in plain),
           pin'[w] \in {None, pin[w]} \/ \E q \in Proc : Listed(q) /\ pin'[w] = mm[q],
           \A p, q \in Proc : AgreeOk(p, q)', SetOk(w)', FloorOk(w)',
           \A p \in Proc : VisitedOk(w, p)'
    PROVE  OomInv'
<1>0. UNCHANGED <<life, mm, vfork, kid, how, multi, reused, own>> /\ ProcsOk /\ ScoresOk
  BY DEF procs, OomInv
<1>1. MutexOk'
  BY DEF MutexOk, Others
<1>2. ASSUME NEW v \in Writer PROVE WriterOk(v)'
  <2>1. WriterOk(v)
    BY DEF OomInv
  <2>2. CASE v # w
    BY <2>1, <2>2 DEF WriterOk, Others
  <2>3. QED
    BY <2>2
<1>3. ProcsOk'
  <2>1. \A p \in Proc : LifeOk(p)' /\ KidOk(p)'
    BY <1>0 DEF ProcsOk, LifeOk, KidOk, Joins
  <2>2. ASSUME NEW p \in Proc, life[p] = "signal", how[p] = "copy", NEW v \in Writer
        PROVE  pin'[v] # mm[p]
    <3>1. NewOk(p) /\ mm[p] # None
      BY <1>0, <2>2 DEF ProcsOk, LifeOk
    <3>2. \A q \in Proc : Listed(q) => mm[q] # mm[p]
      BY <2>2, <3>1 DEF NewOk, Listed
    <3>3. QED
      BY <2>2, <3>1, <3>2 DEF NewOk
  <2>3. \A p \in Proc : NewOk(p)'
    BY <1>0, <2>2 DEF ProcsOk, NewOk
  <2>4. QED
    BY <2>1, <2>3 DEF ProcsOk
<1>4. MultiOk'
  BY <1>0 DEF ScoresOk, MultiOk, Share, Ordinary
<1>5. \A v \in Writer \ {w} : SetOk(v)' /\ FloorOk(v)' /\ \A p \in Proc : VisitedOk(v, p)'
  BY DEF Others, SetOk, FloorOk, VisitedOk
<1>6. ScoresOk'
  BY <1>4, <1>5 DEF ScoresOk
<1>7. QED
  BY <1>0, <1>1, <1>2, <1>3, <1>6 DEF OomInv

\* Two processes that share an mm agree as long as nobody has begun to write.
LEMMA AgreeNow ==
    ASSUME OomInv, \A w \in Writer : wpc[w] # "walk"
    PROVE  \A p, q \in Proc : Share(p, q) => adj[p] = adj[q] /\ adj_min[p] = adj_min[q]
BY DEF OomInv, ScoresOk, AgreeOk, Between

\* A write begins with a value that is allowed for its task.
LEMMA LockStep ==
    ASSUME OomInv, NEW w \in Writer, NEW p \in Proc, NEW v \in ScoreRange, NEW old \in BOOLEAN,
           LockMutex(w, p, v, old)
    PROVE  OomInv'
<1>0. /\ TaskTypes /\ Listed(p) /\ \A u \in Writer : wpc[u] = "idle"
      /\ w \in Capable \/ (old /\ v >= adj[p]) \/ (~old /\ v >= adj_min[p])
      /\ wpc' = [wpc EXCEPT ![w] = "find"] /\ task' = [task EXCEPT ![w] = p]
      /\ val' = [val EXCEPT ![w] = v] /\ legacy' = [legacy EXCEPT ![w] = old]
      /\ UNCHANGED procs /\ UNCHANGED <<adj, adj_min, pin, done, plain>>
  BY DEF LockMutex, OomInv, MutexFree, Allowed, scores
<1>1. UNCHANGED <<life, mm, vfork, kid, how, multi, reused, own>>
  BY <1>0 DEF procs
<1>2. TaskTypes'
  <2>1. /\ wpc' \in [Writer -> WPC] /\ task' \in [Writer -> Proc \cup {None}]
        /\ val' \in [Writer -> ScoreRange] /\ legacy' \in [Writer -> BOOLEAN]
    BY <1>0 DEF TaskTypes, WPC
  <2>2. QED
    BY <1>0, <1>1, <2>1 DEF TaskTypes
<1>3. /\ wpc'[w] = "find" /\ task'[w] = p /\ val'[w] = v /\ legacy'[w] = old
      /\ \A u \in Writer \ {w} : /\ wpc'[u] = wpc[u] /\ task'[u] = task[u]
                                 /\ val'[u] = val[u] /\ legacy'[u] = legacy[u]
  BY <1>0 DEF TaskTypes
<1>4. Others(w)
  BY <1>0, <1>3 DEF Others
<1>5. WriterOk(w)'
  <2>1. WriterOk(w) /\ Listed(p)'
    BY <1>0, <1>1 DEF OomInv, Listed
  <2>2. QED
    BY <1>0, <1>1, <1>3, <2>1, Constants DEF WriterOk
<1>6. \A q, r \in Proc : AgreeOk(q, r)'
  <2>1. \A q, r \in Proc : Share(q, r)' => adj'[q] = adj'[r] /\ adj_min'[q] = adj_min'[r]
    BY <1>0, <1>1, AgreeNow DEF Share, Ordinary
  <2>2. QED
    BY <2>1 DEF AgreeOk
<1>7. SetOk(w)' /\ FloorOk(w)' /\ \A q \in Proc : VisitedOk(w, q)'
  BY <1>0, <1>3 DEF SetOk, FloorOk, VisitedOk, Bound
<1>8. QED
  BY <1>0, <1>2, <1>3, <1>4, <1>5, <1>6, <1>7, WriterStep

\* A writer at work holds the mutex alone.
LEMMA AtWork ==
    ASSUME OomInv, NEW w \in Writer, wpc[w] # "idle", NEW l \in WPC,
           wpc' = [wpc EXCEPT ![w] = l]
    PROVE  /\ Others(w) /\ wpc'[w] = l /\ wpc' \in [Writer -> WPC]
           /\ task[w] \in Proc /\ Listed(task[w]) /\ WriterOk(w)
BY DEF OomInv, TaskTypes, MutexOk, Others, WriterOk

\* The mm is looked up; whoever it is carried to agrees with the task found.
LEMMA FindStep ==
    ASSUME OomInv, NEW w \in Writer, find_lock_task_mm(w)
    PROVE  OomInv'
<1>0. /\ TaskTypes /\ wpc[w] = "find" /\ wpc' = [wpc EXCEPT ![w] = "set"]
      /\ plain' = IF Ordinary(task[w]) THEN plain \cup {w} ELSE plain
      /\ UNCHANGED procs /\ UNCHANGED <<adj, adj_min, task, val, legacy, done>>
  BY DEF find_lock_task_mm, OomInv, scores
<1>1. UNCHANGED <<life, mm, vfork, kid, how, multi, reused, own>>
  BY <1>0 DEF procs
<1>2. /\ Others(w) /\ wpc'[w] = "set" /\ wpc' \in [Writer -> WPC]
      /\ task[w] \in Proc /\ Listed(task[w]) /\ WriterOk(w)
  BY <1>0, AtWork DEF WPC
<1>3. PICK p \in Proc : p = task[w]
  BY <1>2
<1>4. PICK m \in Mm \cup {None} :
          m = IF ~vfork[p] /\ mm[p] # None /\ multi[mm[p]] THEN mm[p] ELSE None
  BY <1>0 DEF TaskTypes
<1>5. pin' = [pin EXCEPT ![w] = m]
  BY <1>3, <1>4 DEF find_lock_task_mm
<1>6. /\ pin'[w] = m /\ \A u \in Writer \ {w} : pin'[u] = pin[u]
      /\ pin' \in [Writer -> Mm \cup {None}]
  BY <1>0, <1>5 DEF TaskTypes
<1>7. TaskTypes'
  <2>1. plain' \subseteq Writer
    BY <1>0 DEF TaskTypes
  <2>2. QED
    BY <1>0, <1>1, <1>2, <1>6, <2>1 DEF TaskTypes
<1>8. WriterOk(w)'
  <2>1. Listed(p)'
    BY <1>1, <1>2, <1>3 DEF Listed
  <2>2. QED
    BY <1>0, <1>2, <1>3, <2>1 DEF WriterOk
<1>9. \A u \in Writer : wpc[u] # "walk" /\ wpc'[u] # "walk"
  BY <1>0, <1>2 DEF Others
<1>10. \A q, r \in Proc : AgreeOk(q, r)'
  <2>1. \A q, r \in Proc : Share(q, r)' => adj'[q] = adj'[r] /\ adj_min'[q] = adj_min'[r]
    BY <1>0, <1>1, <1>9, AgreeNow DEF Share, Ordinary
  <2>2. QED
    BY <2>1 DEF AgreeOk
<1>11. SetOk(w)'
  <2>1. Ordinary(p) /\ mm[p] # m => ~multi[mm[p]]
    BY <1>4 DEF OomInv, ProcsOk, LifeOk, Ordinary
  <2>2. QED
    BY <1>0, <1>1, <1>3, <1>6, <2>1 DEF SetOk, Ordinary
<1>12. FloorOk(w)'
  <2>1. ASSUME w \notin Capable PROVE Bound(w, p) /\ Bound(w, p)'
    BY <1>0, <1>3, <2>1 DEF OomInv, ScoresOk, FloorOk, Bound
  <2>2. ASSUME w \notin Capable, w \in plain', NEW q \in Proc, Ordinary(q), mm[q] = m
        PROVE  Bound(w, q)'
    <3>1. Ordinary(p)
      BY <1>0, <1>2, <1>3, <2>2 DEF WriterOk
    <3>2. m # None
      BY <2>2 DEF OomInv, ProcsOk, LifeOk, Ordinary
    <3>3. Share(p, q)
      BY <1>4, <2>2, <3>1, <3>2 DEF Share
    <3>4. adj[p] = adj[q] /\ adj_min[p] = adj_min[q]
      BY <1>9, <3>3, AgreeNow
    <3>5. QED
      BY <1>0, <2>1, <2>2, <3>4 DEF Bound
  <2>3. QED
    BY <1>0, <1>1, <1>2, <1>3, <1>6, <2>1, <2>2 DEF FloorOk, Ordinary
<1>13. \A q \in Proc : VisitedOk(w, q)'
  BY <1>2 DEF VisitedOk
<1>14. QED
  <2>1. pin'[w] \in {None, pin[w]} \/ \E q \in Proc : Listed(q) /\ pin'[w] = mm[q]
    BY <1>2, <1>3, <1>4, <1>6
  <2>2. \A u \in Writer \ {w} : u \in plain' <=> u \in plain
    BY <1>0
  <2>3. QED
    BY <1>0, <1>2, <1>6, <1>7, <1>8, <1>10, <1>11, <1>12, <1>13, <2>1, <2>2, WriterStep

\* What setting one score does.
LEMMA ScoreSet ==
    ASSUME TaskTypes, NEW w \in Writer, NEW p \in Proc, SetScore(w, p)
    PROVE  /\ adj' \in [Proc -> ScoreRange] /\ adj_min' \in [Proc -> ScoreRange]
           /\ adj'[p] = val[w] /\ \A q \in Proc \ {p} : adj'[q] = adj[q] /\ adj_min'[q] = adj_min[q]
           /\ SetsMin(w) => adj_min'[p] = val[w]
           /\ ~SetsMin(w) => adj_min' = adj_min
<1>1. /\ adj' = [adj EXCEPT ![p] = val[w]]
      /\ SetsMin(w) => adj_min' = [adj_min EXCEPT ![p] = val[w]]
      /\ ~SetsMin(w) => adj_min' = adj_min
  BY DEF SetScore, SetsMin
<1>2. val[w] \in ScoreRange /\ adj \in [Proc -> ScoreRange] /\ adj_min \in [Proc -> ScoreRange]
  BY DEF TaskTypes
<1>3. QED
  BY <1>1, <1>2

\* The task named gets the value: it is alone in its mm, or those it shares it
\* with are still to be visited.
LEMMA SetStep ==
    ASSUME OomInv, NEW w \in Writer, set_oom_adj(w)
    PROVE  OomInv'
<1>0. /\ TaskTypes /\ wpc[w] = "set" /\ wpc' = [wpc EXCEPT ![w] = "walk"]
      /\ SetScore(w, task[w]) /\ done' = [done EXCEPT ![w] = {task[w]} \cup GlobalInit]
      /\ UNCHANGED procs /\ UNCHANGED <<task, val, legacy, pin, plain>>
  BY DEF set_oom_adj, OomInv
<1>1. UNCHANGED <<life, mm, vfork, kid, how, multi, reused, own>>
  BY <1>0 DEF procs
<1>2. /\ Others(w) /\ wpc'[w] = "walk" /\ wpc' \in [Writer -> WPC]
      /\ task[w] \in Proc /\ Listed(task[w]) /\ WriterOk(w)
  BY <1>0, AtWork DEF WPC
<1>3. PICK p \in Proc : p = task[w]
  BY <1>2
<1>4. /\ adj' \in [Proc -> ScoreRange] /\ adj_min' \in [Proc -> ScoreRange]
      /\ adj'[p] = val[w] /\ \A q \in Proc \ {p} : adj'[q] = adj[q] /\ adj_min'[q] = adj_min[q]
      /\ SetsMin(w) => adj_min'[p] = val[w]
      /\ ~SetsMin(w) => adj_min' = adj_min
  BY <1>0, <1>3, ScoreSet
<1>5. /\ done'[w] = {p} \cup GlobalInit /\ \A u \in Writer \ {w} : done'[u] = done[u]
      /\ done' \in [Writer -> SUBSET Proc]
  BY <1>0, <1>3, Constants DEF TaskTypes
<1>6. TaskTypes'
  BY <1>0, <1>1, <1>2, <1>4, <1>5 DEF TaskTypes
<1>7. WriterOk(w)'
  <2>1. Listed(p)'
    BY <1>1, <1>2, <1>3 DEF Listed
  <2>2. QED
    BY <1>0, <1>2, <1>3, <1>5, <2>1 DEF WriterOk
<1>8. \A q \in Proc : (Ordinary(q)' <=> Ordinary(q)) /\ (Ordinary(q) => q \notin GlobalInit)
  BY <1>1 DEF Ordinary, OomInv, ProcsOk, LifeOk
<1>9. \A u \in Writer : wpc[u] # "walk" /\ (u # w => wpc'[u] # "walk") /\ (SetsMin(u)' <=> SetsMin(u))
  BY <1>0, <1>2 DEF Others, SetsMin
<1>10. \A q, r \in Proc : Share(q, r) => adj[q] = adj[r] /\ adj_min[q] = adj_min[r]
  BY <1>9, AgreeNow
<1>11. ASSUME NEW q \in Proc, Share(p, q), q # p
       PROVE  pin[w] = mm[p] /\ q \notin done'[w] /\ p \in done'[w]
  <2>1. multi[mm[p]]
    BY <1>11 DEF OomInv, ScoresOk, MultiOk
  <2>2. SetOk(w) /\ Ordinary(p) /\ Ordinary(q)
    BY <1>11 DEF OomInv, ScoresOk, Share
  <2>3. QED
    BY <1>0, <1>3, <1>5, <1>8, <1>11, <2>1, <2>2 DEF SetOk
<1>12. ASSUME NEW q \in Proc, NEW r \in Proc, Share(q, r)' PROVE AgreeOk(q, r)'
  <2>0. Share(q, r) /\ Share(r, q)
    BY <1>1, <1>8, <1>12 DEF Share
  <2>1. CASE q # p /\ r # p
    BY <1>4, <1>10, <2>0, <2>1 DEF AgreeOk
  <2>2. CASE q = r
    BY <2>2 DEF AgreeOk
  <2>3. CASE q # r /\ (q = p \/ r = p)
    <3>1. Between(w, q, r)'
      BY <1>0, <1>1, <1>2, <1>11, <2>0, <2>3 DEF Between, Share
    <3>2. ~SetsMin(w) => adj_min'[q] = adj_min'[r]
      BY <1>4, <1>10, <2>0
    <3>3. QED
      BY <1>9, <3>1, <3>2 DEF AgreeOk
  <2>4. QED
    BY <2>1, <2>2, <2>3
<1>13. \A q, r \in Proc : AgreeOk(q, r)'
  BY <1>12 DEF AgreeOk
<1>14. \A q \in Proc : VisitedOk(w, q)'
  <2>1. ASSUME NEW q \in Proc, Ordinary(q)', q \in done'[w] PROVE q = p
    BY <1>5, <1>8, <2>1
  <2>2. QED
    BY <1>0, <1>4, <1>9, <2>1 DEF VisitedOk
<1>15. SetOk(w)'
  BY <1>2 DEF SetOk
<1>16. FloorOk(w)'
  <2>1. FloorOk(w) /\ done[w] = {}
    BY <1>0, <1>2 DEF OomInv, ScoresOk, WriterOk
  <2>2. ASSUME w \notin Capable, w \in plain, NEW q \in Proc, Ordinary(q), mm[q] = pin[w],
               q \notin done'[w]
        PROVE  Bound(w, q)'
    <3>1. Bound(w, q) /\ q # p
      BY <1>0, <1>5, <2>1, <2>2 DEF FloorOk
    <3>2. QED
      BY <1>0, <1>4, <3>1 DEF Bound
  <2>3. QED
    BY <1>0, <1>1, <1>2, <1>8, <2>2 DEF FloorOk
<1>17. QED
  BY <1>0, <1>2, <1>5, <1>6, <1>7, <1>13, <1>14, <1>15, <1>16, WriterStep

\* A process that shares the mm gets the value, and with it agrees with those
\* visited before; another one is passed by.
LEMMA VisitStep ==
    ASSUME OomInv, NEW w \in Writer, NEW p \in Proc, visit(w, p)
    PROVE  OomInv'
<1>0. /\ TaskTypes /\ wpc[w] = "walk" /\ p \notin done[w]
      /\ IF Sharer(w, p) THEN SetScore(w, p) ELSE UNCHANGED <<adj, adj_min>>
      /\ done' = [done EXCEPT ![w] = @ \cup {p}]
      /\ UNCHANGED procs /\ UNCHANGED <<wpc, task, val, legacy, pin, plain>>
  BY DEF visit, OomInv, scores
<1>1. UNCHANGED <<life, mm, vfork, kid, how, multi, reused, own>>
  BY <1>0 DEF procs
<1>2. /\ Others(w) /\ wpc'[w] = "walk"
      /\ task[w] \in Proc /\ Listed(task[w]) /\ WriterOk(w)
  BY <1>0 DEF OomInv, MutexOk, Others, WriterOk
<1>3. /\ done'[w] = done[w] \cup {p} /\ \A u \in Writer \ {w} : done'[u] = done[u]
      /\ done' \in [Writer -> SUBSET Proc]
  BY <1>0 DEF TaskTypes
<1>4. /\ adj' \in [Proc -> ScoreRange] /\ adj_min' \in [Proc -> ScoreRange]
      /\ \A q \in Proc \ {p} : adj'[q] = adj[q] /\ adj_min'[q] = adj_min[q]
      /\ Sharer(w, p) => /\ adj'[p] = val[w]
                         /\ SetsMin(w) => adj_min'[p] = val[w]
      /\ ~SetsMin(w) => adj_min' = adj_min
      /\ ~Sharer(w, p) => adj' = adj /\ adj_min' = adj_min
  <2>1. CASE Sharer(w, p)
    BY <1>0, <2>1, ScoreSet
  <2>2. CASE ~Sharer(w, p)
    BY <1>0, <2>2 DEF TaskTypes
  <2>3. QED
    BY <2>1, <2>2
<1>5. TaskTypes'
  BY <1>0, <1>1, <1>3, <1>4 DEF TaskTypes
<1>6. WriterOk(w)'
  <2>1. Listed(task[w])'
    BY <1>0, <1>1, <1>2 DEF Listed
  <2>2. QED
    BY <1>0, <1>2, <2>1 DEF WriterOk
<1>7. \A q \in Proc : /\ Ordinary(q)' <=> Ordinary(q)
                      /\ Ordinary(q) => ~vfork[q]
  BY <1>1 DEF Ordinary, OomInv, ProcsOk, LifeOk
<1>8. \A u \in Writer : SetsMin(u)' <=> SetsMin(u)
  BY <1>0 DEF SetsMin
<1>9. \A u \in Writer \ {w} : wpc[u] # "walk" /\ wpc'[u] # "walk"
  BY <1>2 DEF Others
<1>10. ASSUME NEW q \in Proc, NEW r \in Proc, Share(q, r)', q # r, q # p PROVE AgreeOk(q, r)'
  <2>0. Share(q, r) /\ AgreeOk(q, r) /\ adj'[q] = adj[q] /\ adj_min'[q] = adj_min[q]
    BY <1>1, <1>4, <1>7, <1>10 DEF Share, OomInv, ScoresOk
  <2>1. CASE pin[w] # mm[q]
    <3>1. adj'[r] = adj[r] /\ adj_min'[r] = adj_min[r]
      BY <1>4, <2>0, <2>1 DEF Sharer, Share
    <3>2. \A u \in Writer : ~Between(u, q, r)
      BY <1>9, <2>1 DEF Between
    <3>3. QED
      BY <2>0, <3>1, <3>2 DEF AgreeOk
  <2>2. CASE pin[w] = mm[q] /\ r # p
    <3>1. adj'[r] = adj[r] /\ adj_min'[r] = adj_min[r]
      BY <1>4, <2>2
    <3>2. \A u \in Writer : Between(u, q, r)' <=> Between(u, q, r)
      BY <1>0, <1>1, <1>2, <1>3, <1>9, <1>10, <2>2 DEF Between
    <3>3. QED
      BY <1>8, <2>0, <3>1, <3>2 DEF AgreeOk
  <2>3. CASE pin[w] = mm[q] /\ r = p
    <3>1. Sharer(w, p) /\ adj'[p] = val[w] /\ (SetsMin(w) => adj_min'[p] = val[w])
      BY <1>4, <1>7, <2>0, <2>3 DEF Sharer, Share
    <3>2. CASE q \in done[w]
      <4>1. adj[q] = val[w] /\ (SetsMin(w) => adj_min[q] = val[w])
        BY <1>0, <2>0, <2>3, <3>2 DEF OomInv, ScoresOk, VisitedOk, Share
      <4>2. ~SetsMin(w) => adj_min[q] = adj_min[p] /\ adj_min'[p] = adj_min[p]
        BY <1>4, <1>9, <2>0, <2>3 DEF AgreeOk, Between
      <4>3. QED
        BY <2>0, <2>3, <3>1, <4>1, <4>2 DEF AgreeOk
    <3>3. CASE q \notin done[w]
      <4>1. Between(w, q, r)'
        BY <1>0, <1>1, <1>2, <1>3, <1>10, <2>3, <3>3 DEF Between
      <4>2. ~SetsMin(w) => adj_min[q] = adj_min[p] /\ adj_min'[p] = adj_min[p]
        BY <1>4, <1>9, <2>0, <2>3 DEF AgreeOk, Between
      <4>3. QED
        BY <1>8, <2>0, <2>3, <4>1, <4>2 DEF AgreeOk
    <3>4. QED
      BY <3>2, <3>3
  <2>4. QED
    BY <2>1, <2>2, <2>3
<1>11. ASSUME NEW q \in Proc, NEW r \in Proc PROVE AgreeOk(q, r)'
  <2>1. CASE q = r \/ ~Share(q, r)'
    BY <2>1 DEF AgreeOk
  <2>2. CASE q # r /\ Share(q, r)' /\ q # p
    BY <1>10, <2>2
  <2>3. CASE q # r /\ Share(q, r)' /\ r # p
    <3>1. Share(r, q)' /\ mm'[q] = mm'[r]
      BY <2>3 DEF Share
    <3>2. AgreeOk(r, q)'
      BY <1>10, <2>3, <3>1
    <3>3. \A u \in Writer : Between(u, r, q)' <=> Between(u, q, r)'
      BY <3>1 DEF Between
    <3>4. QED
      BY <3>1, <3>2, <3>3 DEF AgreeOk
  <2>4. QED
    BY <2>1, <2>2, <2>3
<1>12. ASSUME NEW q \in Proc PROVE VisitedOk(w, q)'
  <2>1. VisitedOk(w, q)
    BY DEF OomInv, ScoresOk
  <2>2. CASE q # p
    BY <1>0, <1>1, <1>3, <1>4, <1>7, <1>8, <2>1, <2>2 DEF VisitedOk
  <2>3. CASE q = p
    BY <1>0, <1>1, <1>4, <1>7, <1>8, <2>3 DEF VisitedOk, Sharer
  <2>4. QED
    BY <2>2, <2>3
<1>13. SetOk(w)'
  BY <1>2 DEF SetOk
<1>14. FloorOk(w)'
  <2>1. FloorOk(w)
    BY DEF OomInv, ScoresOk
  <2>2. ASSUME w \notin Capable, w \in plain, NEW q \in Proc, Ordinary(q), mm[q] = pin[w],
               q \notin done'[w]
        PROVE  Bound(w, q)'
    <3>1. Bound(w, q) /\ q # p
      BY <1>0, <1>3, <2>1, <2>2 DEF FloorOk
    <3>2. QED
      BY <1>0, <1>4, <3>1 DEF Bound
  <2>3. QED
    BY <1>0, <1>1, <1>2, <1>7, <2>2 DEF FloorOk
<1>15. QED
  BY <1>0, <1>2, <1>3, <1>5, <1>6, <1>11, <1>12, <1>13, <1>14, WriterStep

\* The walk is over: everybody on the list has been visited.
LEMMA UnlockStep ==
    ASSUME OomInv, NEW w \in Writer, unlock_mutex(w)
    PROVE  OomInv'
<1>0. /\ TaskTypes /\ wpc[w] = "walk" /\ wpc' = [wpc EXCEPT ![w] = "idle"]
      /\ pin[w] # None => \A p \in Proc : Listed(p) => p \in done[w]
      /\ task' = [task EXCEPT ![w] = None] /\ val' = [val EXCEPT ![w] = 0]
      /\ legacy' = [legacy EXCEPT ![w] = FALSE] /\ pin' = [pin EXCEPT ![w] = None]
      /\ done' = [done EXCEPT ![w] = {}] /\ plain' = plain \ {w}
      /\ UNCHANGED procs /\ UNCHANGED <<adj, adj_min>>
  BY DEF unlock_mutex, OomInv, scores
<1>1. UNCHANGED <<life, mm, vfork, kid, how, multi, reused, own>>
  BY <1>0 DEF procs
<1>2. Others(w) /\ wpc'[w] = "idle" /\ wpc' \in [Writer -> WPC]
  BY <1>0, AtWork DEF WPC
<1>3. /\ task'[w] = None /\ pin'[w] = None /\ done'[w] = {}
      /\ \A u \in Writer \ {w} : /\ task'[u] = task[u] /\ pin'[u] = pin[u] /\ done'[u] = done[u]
                                 /\ val'[u] = val[u] /\ legacy'[u] = legacy[u]
  BY <1>0 DEF TaskTypes
<1>4. TaskTypes'
  <2>1. /\ task' \in [Writer -> Proc \cup {None}] /\ val' \in [Writer -> ScoreRange]
        /\ legacy' \in [Writer -> BOOLEAN] /\ pin' \in [Writer -> Mm \cup {None}]
        /\ done' \in [Writer -> SUBSET Proc] /\ plain' \subseteq Writer
    BY <1>0, Scores DEF TaskTypes
  <2>2. QED
    BY <1>0, <1>1, <1>2, <2>1 DEF TaskTypes
<1>5. WriterOk(w)'
  BY <1>0, <1>2, <1>3 DEF WriterOk
<1>6. ASSUME NEW q \in Proc, NEW r \in Proc, Share(q, r)' PROVE AgreeOk(q, r)'
  <2>1. Share(q, r) /\ AgreeOk(q, r) /\ mm[q] # None /\ Listed(q) /\ Listed(r)
    BY <1>1, <1>6 DEF Share, Ordinary, OomInv, ScoresOk, ProcsOk, LifeOk, Listed
  <2>2. \A u \in Writer : ~Between(u, q, r)
    BY <1>0, <1>2, <2>1 DEF Between, Others
  <2>3. QED
    BY <1>0, <2>1, <2>2 DEF AgreeOk
<1>7. \A q, r \in Proc : AgreeOk(q, r)'
  BY <1>6 DEF AgreeOk
<1>8. SetOk(w)' /\ FloorOk(w)' /\ \A q \in Proc : VisitedOk(w, q)'
  BY <1>2 DEF SetOk, FloorOk, VisitedOk
<1>9. \A u \in Writer \ {w} : u \in plain' <=> u \in plain
  BY <1>0
<1>10. QED
  BY <1>0, <1>2, <1>3, <1>4, <1>5, <1>7, <1>8, <1>9, WriterStep

(***************************************************************************)
(* All steps together.                                                     *)
(***************************************************************************)
\* At first every process that runs is alone in its mm.
LEMMA OomInit ==
    ASSUME Init PROVE OomInv
<1>1. TaskTypes
  <2>1. mm \in [Proc -> Mm \cup {None}]
    BY BootMmExists, Constants DEF Init
  <2>2. own \in [Proc -> BOOLEAN]
    <3>1. \A p \in Proc : (p \in Boot \ GlobalInit) \in BOOLEAN
      OBVIOUS
    <3>2. QED
      BY <3>1, Zenon DEF Init
  <2>3. QED
    BY <2>1, <2>2, Scores DEF Init, TaskTypes, WPC
<1>2. MutexOk /\ reused = {} /\ \A w \in Writer : WriterOk(w)
  BY DEF Init, MutexOk, WriterOk
<1>3. /\ \A p \in Proc : /\ life[p] = IF p \in Boot THEN "live" ELSE "none"
                         /\ mm[p] = IF p \in Boot THEN BootMm[p] ELSE None
                         /\ ~vfork[p] /\ kid[p] = None
                         /\ own[p] <=> p \in Boot \ GlobalInit
      /\ \A w \in Writer : wpc[w] = "idle"
  BY DEF Init
<1>4. \A p \in Boot : BootMm[p] \in Mm
  BY BootMmExists
<1>5. ProcsOk
  BY <1>3, <1>4, Constants DEF ProcsOk, LifeOk, KidOk, NewOk
<1>6. \A p, q \in Proc : Share(p, q) => p = q
  BY <1>3, BootMmExists DEF Share, Ordinary
<1>7. ScoresOk
  BY <1>3, <1>6 DEF ScoresOk, MultiOk, AgreeOk, SetOk, VisitedOk, FloorOk
<1>8. QED
  BY <1>1, <1>2, <1>5, <1>7 DEF OomInv

\* Nothing is lost when nothing changes.
LEMMA OomStutter ==
    ASSUME OomInv, UNCHANGED vars PROVE OomInv'
<1>1. /\ UNCHANGED <<life, mm, vfork, kid, how, multi, reused, own, adj, adj_min>>
      /\ UNCHANGED <<wpc, task, val, legacy, pin, done, plain>> /\ UNCHANGED writers
  BY DEF vars, procs, scores, writers
<1>2. TaskTypes'
  BY <1>1 DEF OomInv, TaskTypes
<1>3. ProcsOk'
  BY <1>1 DEF OomInv, ProcsOk, LifeOk, KidOk, NewOk, Joins
<1>4. MutexOk' /\ \A w \in Writer : WriterOk(w)'
  BY <1>1, WritersKept DEF Listed
<1>5. ScoresOk'
  BY <1>1, ScoresKept DEF Kept, Ordinary
<1>6. QED
  BY <1>1, <1>2, <1>3, <1>4, <1>5 DEF OomInv

\* Every step keeps OomInv.
LEMMA OomNext ==
    ASSUME OomInv, MmCountOk, [Next]_vars PROVE OomInv'
<1>1. ASSUME NEW p \in Proc, Process(p) PROVE OomInv'
  BY <1>1, CloneStep, AttachStep, CopyOomStep, ExecStep, ExitStep, VforkKilledStep, ReapStep
     DEF Process
<1>2. ASSUME NEW w \in Writer, NEW p \in Target, NEW x \in Score, oom_score_adj_write(w, p, x)
      PROVE  OomInv'
  BY <1>2, LockStep, Constants DEF oom_score_adj_write, InRange
<1>3. ASSUME NEW w \in Writer, NEW p \in Target, NEW x \in Legacy, oom_adj_write(w, p, x)
      PROVE  OomInv'
  BY <1>3, LockStep, ScaleInRange, Constants DEF oom_adj_write
<1>4. ASSUME NEW w \in Writer, Write(w) PROVE OomInv'
  BY <1>2, <1>3, <1>4, FindStep, SetStep, VisitStep, UnlockStep DEF Write
<1>5. QED
  BY <1>1, <1>4, OomStutter DEF Next

(***************************************************************************)
(* References to mm_structs.                                               *)
(***************************************************************************)
\* A step that leaves the users and the holder of every mm alone.
LEMMA CountStays ==
    ASSUME MmCountOk, mm_count' = mm_count, mm' = mm, pin' = pin
    PROVE  MmCountOk'
BY DEF MmCountOk, InUse, Held

\* A process that leaves its mm, for a new one or for good.
LEMMA CountLeaves ==
    ASSUME OomInv, MmCountOk, NEW p \in Proc, mm[p] \in Mm, NEW n \in Mm \cup {None},
           mm' = [mm EXCEPT ![p] = n], pin' = pin,
           n # None => ~InUse(n) /\ ~Held(n),
           mm_count' = IF n = None THEN mmput(p) ELSE [mmput(p) EXCEPT ![n] = 1]
    PROVE  MmCountOk'
<1>1. PICK o \in Mm : o = mm[p]
  OBVIOUS
<1>2. /\ \A q \in Proc : mm'[q] = IF q = p THEN n ELSE mm[q]
      /\ \A m \in Mm : Held(m)' <=> Held(m)
      /\ InUse(o) /\ o # n /\ o # None
  BY <1>1, Constants DEF OomInv, TaskTypes, Held, InUse
<1>3. PICK last \in BOOLEAN : last <=> \A q \in Proc \ {p} : mm[q] # o
  OBVIOUS
<1>4. mmput(p) = IF last THEN [mm_count EXCEPT ![o] = @ - 1] ELSE mm_count
  BY <1>1, <1>2, <1>3 DEF mmput, mmdrop
<1>5. /\ InUse(o)' <=> ~last
      /\ n # None => InUse(n)'
      /\ \A m \in Mm \ {o, n} : InUse(m)' <=> InUse(m)
  BY <1>1, <1>2, <1>3 DEF InUse
<1>6. mm_count[o] \in Nat /\ mm_count[o] >= 1 /\ mm_count \in [Mm -> Nat]
  BY <1>2 DEF MmCountOk
<1>7. /\ mmput(p) \in [Mm -> Nat]
      /\ mmput(p)[o] = IF last THEN mm_count[o] - 1 ELSE mm_count[o]
      /\ \A m \in Mm \ {o} : mmput(p)[m] = mm_count[m]
  BY <1>4, <1>6
<1>8. /\ mm_count' \in [Mm -> Nat]
      /\ mm_count'[o] = IF last THEN mm_count[o] - 1 ELSE mm_count[o]
      /\ n # None => mm_count'[n] = 1
      /\ \A m \in Mm \ {o, n} : mm_count'[m] = mm_count[m]
  BY <1>2, <1>7, Constants
<1>9. ASSUME NEW m \in Mm
      PROVE  mm_count'[m] = (IF InUse(m)' THEN 1 ELSE 0) + (IF Held(m)' THEN 1 ELSE 0)
  <2>1. mm_count[m] = (IF InUse(m) THEN 1 ELSE 0) + (IF Held(m) THEN 1 ELSE 0)
    BY DEF MmCountOk
  <2>2. CASE m = o
    BY <1>2, <1>5, <1>8, <2>1, <2>2
  <2>3. CASE m = n
    BY <1>2, <1>5, <1>8, <2>3, Constants
  <2>4. CASE m # o /\ m # n
    BY <1>2, <1>5, <1>8, <2>1, <2>4
  <2>5. QED
    BY <2>2, <2>3, <2>4
<1>10. QED
  BY <1>8, <1>9 DEF MmCountOk

\* A new process joins its parent, or has the first reference to a new mm.
LEMMA CountClone ==
    ASSUME OomInv, MmCountOk, NEW p \in Proc, NEW k \in {"vm", "vfork", "copy"}, clone(p, k)
    PROVE  MmCountOk'
<1>1. PICK c \in Proc : c = NewProc /\ life[c] = "none"
  BY DEF clone, NewProc
<1>2. mm[c] = None /\ mm[p] \in Mm /\ c # p /\ pin' = pin
  BY <1>1 DEF clone, Ready, OomInv, ProcsOk, LifeOk, TaskTypes, writers
<1>3. \A m \in Mm : Held(m)' <=> Held(m)
  BY <1>2 DEF Held
<1>4. CASE k = "copy"
  <2>1. PICK n \in Mm : n = NewMm /\ ~InUse(n) /\ ~Held(n)
    BY <1>4, NewMmUnused DEF clone, InUse, Held
  <2>2. mm' = [mm EXCEPT ![c] = n] /\ mm_count' = [mm_count EXCEPT ![n] = 1]
    BY <1>1, <1>4, <2>1 DEF clone
  <2>3. \A q \in Proc : mm'[q] = IF q = c THEN n ELSE mm[q]
    BY <2>2 DEF OomInv, TaskTypes
  <2>4. InUse(n)' /\ \A m \in Mm \ {n} : InUse(m)' <=> InUse(m)
    BY <1>2, <2>3, Constants DEF InUse
  <2>5. /\ mm_count' \in [Mm -> Nat] /\ mm_count'[n] = 1
        /\ \A m \in Mm \ {n} : mm_count'[m] = mm_count[m]
    BY <2>2 DEF MmCountOk
  <2>6. ASSUME NEW m \in Mm
        PROVE  mm_count'[m] = (IF InUse(m)' THEN 1 ELSE 0) + (IF Held(m)' THEN 1 ELSE 0)
    <3>1. mm_count[m] = (IF InUse(m) THEN 1 ELSE 0) + (IF Held(m) THEN 1 ELSE 0)
      BY DEF MmCountOk
    <3>2. QED
      BY <1>3, <2>1, <2>4, <2>5, <3>1
  <2>7. QED
    BY <2>5, <2>6 DEF MmCountOk
<1>5. CASE k # "copy"
  <2>1. mm' = [mm EXCEPT ![c] = mm[p]] /\ mm_count' = mm_count
    BY <1>1, <1>5 DEF clone
  <2>2. \A q \in Proc : mm'[q] = IF q = c THEN mm[p] ELSE mm[q]
    BY <2>1 DEF OomInv, TaskTypes
  <2>3. \A m \in Mm : InUse(m)' <=> InUse(m)
    BY <1>2, <2>2, Constants DEF InUse
  <2>4. QED
    BY <1>3, <2>1, <2>3 DEF MmCountOk
<1>6. QED
  BY <1>4, <1>5

\* exec, exit and the death of a parent in vfork.
LEMMA CountDeparts ==
    ASSUME OomInv, MmCountOk, NEW p \in Proc, exec(p) \/ exit(p) \/ vfork_killed(p)
    PROVE  MmCountOk'
<1>1. mm[p] \in Mm /\ pin' = pin
  BY DEF exec, exit, vfork_killed, Ready, OomInv, ProcsOk, LifeOk, TaskTypes, writers
<1>2. CASE exec(p)
  <2>1. PICK n \in Mm : n = NewMm /\ ~InUse(n) /\ ~Held(n)
    BY <1>2, NewMmUnused DEF exec, InUse, Held
  <2>2. mm' = [mm EXCEPT ![p] = n] /\ mm_count' = [mmput(p) EXCEPT ![n] = 1]
    BY <1>2, <2>1 DEF exec
  <2>3. QED
    BY <1>1, <2>1, <2>2, CountLeaves, Constants
<1>3. CASE exit(p) \/ vfork_killed(p)
  <2>1. mm' = [mm EXCEPT ![p] = None] /\ mm_count' = mmput(p)
    BY <1>3 DEF exit, vfork_killed
  <2>2. QED
    BY <1>1, <2>1, CountLeaves
<1>4. QED
  BY <1>2, <1>3

\* The local mm of the one writer at work is set and counted.
LEMMA CountGrab ==
    ASSUME OomInv, MmCountOk, NEW w \in Writer, find_lock_task_mm(w)
    PROVE  MmCountOk'
<1>0. TaskTypes /\ wpc[w] = "find" /\ mm' = mm
  BY DEF OomInv, find_lock_task_mm, procs
<1>1. \A v \in Writer : pin[v] = None
  BY <1>0 DEF OomInv, MutexOk, WriterOk
<1>2. PICK p \in Proc : p = task[w]
  BY <1>0 DEF OomInv, WriterOk
<1>3. PICK m \in Mm \cup {None} :
          m = IF ~vfork[p] /\ mm[p] # None /\ multi[mm[p]] THEN mm[p] ELSE None
  BY <1>0 DEF TaskTypes
<1>4. pin' = [pin EXCEPT ![w] = m] /\ mm_count' = mmgrab(m)
  BY <1>2, <1>3 DEF find_lock_task_mm
<1>5. \A v \in Writer : pin'[v] = IF v = w THEN m ELSE None
  BY <1>0, <1>1, <1>4 DEF TaskTypes
<1>6. /\ \A x \in Mm : InUse(x)' <=> InUse(x)
      /\ \A x \in Mm : ~Held(x) /\ (Held(x)' <=> x = m)
  BY <1>0, <1>1, <1>5, Constants DEF InUse, Held
<1>7. CASE m = None
  BY <1>4, <1>6, <1>7, Constants DEF mmgrab, MmCountOk
<1>8. CASE m # None
  <2>1. /\ mm_count' \in [Mm -> Nat] /\ mm_count'[m] = mm_count[m] + 1
        /\ \A x \in Mm \ {m} : mm_count'[x] = mm_count[x]
    BY <1>4, <1>8 DEF mmgrab, MmCountOk
  <2>2. ASSUME NEW x \in Mm
        PROVE  mm_count'[x] = (IF InUse(x)' THEN 1 ELSE 0) + (IF Held(x)' THEN 1 ELSE 0)
    <3>1. mm_count[x] = (IF InUse(x) THEN 1 ELSE 0) + (IF Held(x) THEN 1 ELSE 0)
      BY DEF MmCountOk
    <3>2. QED
      BY <1>6, <2>1, <3>1
  <2>3. QED
    BY <2>1, <2>2 DEF MmCountOk
<1>9. QED
  BY <1>7, <1>8

\* The writer drops its mm and forgets it.
LEMMA CountDrop ==
    ASSUME OomInv, MmCountOk, NEW w \in Writer, unlock_mutex(w)
    PROVE  MmCountOk'
<1>0. TaskTypes /\ wpc[w] = "walk" /\ mm' = mm
  BY DEF OomInv, unlock_mutex, procs
<1>1. \A v \in Writer \ {w} : pin[v] = None
  BY <1>0 DEF OomInv, MutexOk, WriterOk
<1>2. PICK m \in Mm \cup {None} : m = pin[w]
  BY <1>0 DEF TaskTypes
<1>3. pin' = [pin EXCEPT ![w] = None] /\ mm_count' = mmdrop(m)
  BY <1>2 DEF unlock_mutex
<1>4. \A v \in Writer : pin'[v] = None
  BY <1>0, <1>1, <1>3 DEF TaskTypes
<1>5. /\ \A x \in Mm : InUse(x)' <=> InUse(x)
      /\ \A x \in Mm : ~Held(x)' /\ (Held(x) <=> x = m)
  BY <1>0, <1>1, <1>2, <1>4, Constants DEF InUse, Held
<1>6. CASE m = None
  BY <1>3, <1>5, <1>6, Constants DEF mmdrop, MmCountOk
<1>7. CASE m # None
  <2>1. mm_count[m] \in Nat /\ mm_count[m] >= 1
    BY <1>5, <1>7 DEF MmCountOk
  <2>2. /\ mm_count' \in [Mm -> Nat] /\ mm_count'[m] = mm_count[m] - 1
        /\ \A x \in Mm \ {m} : mm_count'[x] = mm_count[x]
    BY <1>3, <1>7, <2>1 DEF mmdrop, MmCountOk
  <2>3. ASSUME NEW x \in Mm
        PROVE  mm_count'[x] = (IF InUse(x)' THEN 1 ELSE 0) + (IF Held(x)' THEN 1 ELSE 0)
    <3>1. mm_count[x] = (IF InUse(x) THEN 1 ELSE 0) + (IF Held(x) THEN 1 ELSE 0)
      BY DEF MmCountOk
    <3>2. QED
      BY <1>5, <2>2, <3>1
  <2>4. QED
    BY <2>2, <2>3 DEF MmCountOk
<1>8. QED
  BY <1>6, <1>7

\* At first an mm has a reference if a process that runs has it.
LEMMA CountInit ==
    ASSUME Init PROVE MmCountOk
<1>1. \A p \in Proc : mm[p] = IF p \in Boot THEN BootMm[p] ELSE None
  BY DEF Init
<1>2. \A m \in Mm : InUse(m) <=> \E p \in Boot : BootMm[p] = m
  BY <1>1, Constants DEF InUse
<1>3. \A m \in Mm : ~Held(m)
  BY Constants DEF Init, Held
<1>4. QED
  BY <1>2, <1>3 DEF Init, MmCountOk

\* Every step keeps the counts.
LEMMA CountNext ==
    ASSUME OomInv, MmCountOk, [Next]_vars PROVE MmCountOk'
<1>1. ASSUME NEW p \in Proc, attach(p) \/ copy_oom_score_adj(p) \/ reap(p) PROVE MmCountOk'
  BY <1>1, CountStays DEF attach, copy_oom_score_adj, reap, writers
<1>2. ASSUME NEW p \in Proc, Process(p) PROVE MmCountOk'
  BY <1>1, <1>2, CountClone, CountDeparts DEF Process
<1>3. ASSUME NEW w \in Writer, NEW p, NEW v, NEW old, LockMutex(w, p, v, old) PROVE MmCountOk'
  BY <1>3, CountStays DEF LockMutex, procs
<1>4. ASSUME NEW w \in Writer, NEW p, set_oom_adj(w) \/ visit(w, p) PROVE MmCountOk'
  BY <1>4, CountStays DEF set_oom_adj, visit, procs
<1>5. ASSUME NEW w \in Writer, Write(w) PROVE MmCountOk'
  BY <1>3, <1>4, <1>5, CountGrab, CountDrop DEF Write, oom_score_adj_write, oom_adj_write
<1>6. CASE UNCHANGED vars
  BY <1>6, CountStays DEF vars, procs, writers
<1>7. QED
  BY <1>2, <1>5, <1>6 DEF Next

(***************************************************************************)
(* The theorems.                                                           *)
(***************************************************************************)
\* OomInv and the counts hold in every state of every behaviour.
THEOREM OomInductive == Spec => [](OomInv /\ MmCountOk)
<1>1. Init => OomInv /\ MmCountOk
  BY OomInit, CountInit
<1>2. OomInv /\ MmCountOk /\ [Next]_vars => (OomInv /\ MmCountOk)'
  BY OomNext, CountNext
<1>3. QED
  BY <1>1, <1>2, PTL DEF Spec

\* For any number of processes and writers: when nobody holds oom_adj_mutex,
\* ordinary processes that share an mm have the same score and floor, although
\* clone copies and compares scores in different steps and exec and exit move
\* processes while a write walks over them.
THEOREM ScoresStayEqual == Spec => []ScoresAgree
<1>1. OomInv /\ MmCountOk => ScoresAgree
  BY DEF OomInv, MmCountOk, TypeOK, ScoresOk, ScoresAgree, AgreeOk, Share, Between, MutexFree
<1>2. QED
  BY <1>1, OomInductive, PTL

\* For any number of processes, mms and writers: mmgrab in __set_oom_adj, and
\* mmdrop after the walk, keep the mm of a write from being allocated to other
\* processes, and an mm_struct is referenced exactly as long as it is in use.
THEOREM MmStaysPinned == Spec => []PinnedMm
<1>1. OomInv /\ MmCountOk => PinnedMm
  <2>1. SUFFICES ASSUME OomInv, MmCountOk PROVE PinnedMm
    OBVIOUS
  <2>2. \A m \in Mm : mm_count[m] > 0 <=> InUse(m) \/ Held(m)
    BY <2>1 DEF MmCountOk
  <2>3. QED
    BY <2>1, <2>2 DEF OomInv, PinnedMm
<1>2. QED
  BY <1>1, OomInductive, PTL

\* The scales of oom_adj and oom_score_adj agree for every value, and every
\* score a process can ever have is shown as a value of oom_adj.
THEOREM ScalesAgree == Spec => []LegacyScale
<1>1. OomInv => LegacyScale
  <2>1. SUFFICES ASSUME OomInv PROVE LegacyScale
    OBVIOUS
  <2>2. \A p \in Proc : Unscale(adj[p]) \in LegacyRange
    BY <2>1, UnscaleInRange DEF OomInv, TaskTypes
  <2>3. {OOM_DISABLE, OOM_ADJUST_MAX} \subseteq LegacyRange
    BY DEF LegacyRange, OOM_DISABLE, OOM_ADJUST_MIN, OOM_ADJUST_MAX
  <2>4. QED
    BY <2>2, <2>3, RoundTrip DEF LegacyScale
<1>2. QED
  BY <1>1, OomInductive, PTL

\* What a step of the system does to a score, seen from the floor.
FloorStep ==
    \A w \in Writer \ Capable, p \in Proc :
        (/\ wpc[w] \in {"set", "walk"} /\ adj'[p] < adj[p] /\ Ordinary(p)
         /\ (w \in plain \/ p = task[w])) => adj'[p] >= adj_min[p]

\* Only the writer that holds the mutex lowers a score, and by a value that
\* was tested against the floor of its task, which is that of all it goes to.
LEMMA FloorKept ==
    ASSUME OomInv, [Next]_vars PROVE FloorStep
<1>0. SUFFICES ASSUME NEW w \in Writer \ Capable, NEW p \in Proc,
                      wpc[w] \in {"set", "walk"}, adj'[p] < adj[p], Ordinary(p),
                      w \in plain \/ p = task[w]
               PROVE  adj'[p] >= adj_min[p]
  BY DEF FloorStep
<1>1. /\ TaskTypes /\ FloorOk(w) /\ WriterOk(w)
      /\ adj[p] \in Int /\ adj_min[p] \in Int /\ val[w] \in Int
  BY <1>0, Scores DEF OomInv, ScoresOk, TaskTypes
<1>2. adj'[p] # adj[p]
  BY <1>0, <1>1
<1>3. ~MutexFree /\ \A v \in Writer : wpc[v] # "idle" => v = w
  BY <1>0 DEF MutexFree, OomInv, MutexOk
<1>4. ASSUME NEW q \in Proc, Process(q) PROVE FALSE
  <2>1. ASSUME NEW k \in {"vm", "vfork", "copy"}, clone(q, k) PROVE FALSE
    <3>1. NewProc \in Proc /\ life[NewProc] = "none" /\ adj' = [adj EXCEPT ![NewProc] = adj[q]]
      BY <2>1 DEF clone, NewProc
    <3>2. QED
      BY <1>0, <1>1, <1>2, <3>1 DEF Ordinary, TaskTypes
  <2>2. ASSUME reap(q) PROVE FALSE
    BY <1>0, <1>1, <1>2, <2>2 DEF reap, Ordinary, TaskTypes
  <2>3. QED
    BY <1>2, <1>3, <1>4, <2>1, <2>2
       DEF Process, attach, copy_oom_score_adj, exec, exit, vfork_killed, scores
<1>5. ASSUME NEW v \in Writer, set_oom_adj(v) PROVE adj'[p] >= adj_min[p]
  <2>1. v = w /\ wpc[w] = "set" /\ adj' = [adj EXCEPT ![task[w]] = val[w]]
    BY <1>3, <1>5 DEF set_oom_adj, SetScore
  <2>2. p = task[w] /\ adj'[p] = val[w] /\ Bound(w, p)
    BY <1>0, <1>1, <1>2, <2>1 DEF FloorOk, TaskTypes
  <2>3. QED
    BY <1>0, <1>1, <2>2 DEF Bound
<1>6. ASSUME NEW v \in Writer, NEW q \in Proc, visit(v, q) PROVE adj'[p] >= adj_min[p]
  <2>1. v = w /\ wpc[w] = "walk" /\ q \notin done[w] /\ Sharer(w, q)
        /\ adj' = [adj EXCEPT ![q] = val[w]]
    BY <1>2, <1>3, <1>6 DEF visit, SetScore, scores
  <2>2. q = p /\ adj'[p] = val[w] /\ mm[p] = pin[w]
    BY <1>1, <1>2, <2>1 DEF TaskTypes, Sharer
  <2>3. CASE w \in plain
    <3>1. Bound(w, p)
      BY <1>0, <1>1, <2>1, <2>2, <2>3 DEF FloorOk
    <3>2. QED
      BY <1>0, <1>1, <2>2, <3>1 DEF Bound
  <2>4. CASE p = task[w]
    BY <1>1, <2>1, <2>2, <2>4 DEF WriterOk
  <2>5. QED
    BY <1>0, <2>3, <2>4
<1>7. ASSUME NEW v \in Writer, Write(v) PROVE adj'[p] >= adj_min[p]
  BY <1>2, <1>3, <1>5, <1>6, <1>7
     DEF Write, oom_score_adj_write, oom_adj_write, LockMutex, find_lock_task_mm, unlock_mutex, scores
<1>8. CASE UNCHANGED vars
  BY <1>2, <1>8 DEF vars, scores
<1>9. QED
  BY <1>4, <1>7, <1>8 DEF Next

\* For any number of processes and writers, nobody without CAP_SYS_RESOURCE
\* brings a process below its floor, not even one that merely shares the mm.
THEOREM FloorsStay == Spec => FloorHolds
<1>1. OomInv /\ [Next]_vars => [FloorStep]_vars
  BY FloorKept
<1>2. QED
  BY <1>1, OomInductive, PTL DEF Spec, FloorHolds, FloorStep
=============================================================================
