----------------------------- MODULE StackPool ------------------------------
(***************************************************************************)
(* What the users of kernel stacks rely on, however stacks are allocated,  *)
(* cached and freed: a stack is given to one task at a time, blank, and    *)
(* only when everybody who looked at it for its former task has left it.   *)
(***************************************************************************)
CONSTANTS Area,     \* stacks
          Task,     \* tasks that run on them
          User,     \* tasks and those who read a task's stack
          None,     \* no task
          Blank     \* what a stack holds when nobody has written to it

\* What a pool is made of; it holds in StackCache.
PoolSets == None \notin Task /\ Task \subseteq User

VARIABLES given,    \* the task a stack is given to, or None
          users,    \* who uses it
          data      \* whose data it holds

vars == <<given, users, data>>

Init ==
    /\ given \in [Area -> Task \cup {None}]
    /\ users = [a \in Area |-> IF given[a] = None THEN {} ELSE {given[a]}]
    /\ data = [a \in Area |-> IF given[a] = None THEN Blank ELSE given[a]]

Give(a, t) ==
    /\ users[a] = {}
    /\ \A b \in Area : given[b] # t
    /\ given' = [given EXCEPT ![a] = t]
    /\ users' = [users EXCEPT ![a] = {t}]
    /\ data' = [data EXCEPT ![a] = Blank]

Write(a, t) ==
    /\ given[a] = t /\ t \in users[a]
    /\ data' = [data EXCEPT ![a] = t]
    /\ UNCHANGED <<given, users>>

Join(a, u) ==
    /\ users[a] # {}
    /\ users' = [users EXCEPT ![a] = @ \cup {u}]
    /\ UNCHANGED <<given, data>>

\* Who leaves last takes the stack from its task.
Leave(a, u) ==
    /\ u \in users[a]
    /\ users' = [users EXCEPT ![a] = @ \ {u}]
    /\ given' = [given EXCEPT ![a] = IF users[a] = {u} THEN None ELSE @]
    /\ UNCHANGED data

Next ==
    \/ \E a \in Area, t \in Task : Give(a, t) \/ Write(a, t)
    \/ \E a \in Area, u \in User : Join(a, u) \/ Leave(a, u)

Spec == Init /\ [][Next]_vars

\* A stack in use holds nothing but its task's data.
Isolation == \A a \in Area : users[a] # {} => given[a] # None /\ data[a] \in {Blank, given[a]}
=============================================================================
