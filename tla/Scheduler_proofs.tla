--------------------------- MODULE Scheduler_proofs ---------------------------
(***************************************************************************)
(* Proofs about Scheduler, for any tasks, periods and run times.           *)
(***************************************************************************)
EXTENDS Scheduler, FiniteSetTheorems, TLAPS

\* No task is in the list twice.
Distinct(s) == \A i, j \in DOMAIN s : s[i].Task = s[j].Task => i = j

\* The list and the description taken out of it hold the tasks that were
\* added, each once, and each is due no earlier than a period after its last
\* run.
Paced(last, t, next) == last[t] = EPOCH \/ next >= last[t] + Period[t]

IInv ==
  /\ TypeOK
  /\ Distinct(Tasks)
  /\ \A i \in DOMAIN Tasks : Tasks[i].Task \in added
  /\ running # NoTask => /\ running.Task \in added
                         /\ \A i \in DOMAIN Tasks : Tasks[i].Task # running.Task
                         /\ lastRun[running.Task] = iteration
  /\ pc = "run" <=> running # NoTask
  /\ \A t \in added : \/ \E i \in DOMAIN Tasks : Tasks[i].Task = t
                      \/ running # NoTask /\ running.Task = t
  /\ \A i \in DOMAIN Tasks : Paced(lastRun, Tasks[i].Task, Tasks[i].NextRun)
  /\ \A t \in TaskIds \ added : lastRun[t] = EPOCH

-----------------------------------------------------------------------------
\* The front and the rest of a list that is not empty.
LEMMA PopSeq ==
  ASSUME NEW S, NEW s \in Seq(S), s # << >>
  PROVE  /\ Head(s) = s[1] /\ Head(s) \in S /\ Tail(s) \in Seq(S)
         /\ DOMAIN s = 1 .. Len(s) /\ 1 \in DOMAIN s
         /\ DOMAIN Tail(s) = 1 .. Len(s) - 1
         /\ \A i \in DOMAIN Tail(s) :
              i \in Nat /\ i + 1 \in DOMAIN s /\ Tail(s)[i] = s[i + 1]
         /\ \A i \in DOMAIN s : i = 1 \/ (i - 1 \in DOMAIN Tail(s)
                                          /\ s[i] = Tail(s)[i - 1])
OBVIOUS

\* One description is put in front of the list.
LEMMA InFront ==
  ASSUME NEW S, NEW s \in Seq(S), NEW d \in S
  PROVE  LET r == <<d>> \o s
         IN  /\ r \in Seq(S) /\ r[1] = d /\ 1 \in DOMAIN r
             /\ DOMAIN r = 1 .. Len(s) + 1
             /\ \A i \in DOMAIN s : i + 1 \in DOMAIN r /\ r[i + 1] = s[i]
             /\ \A i \in DOMAIN r : i = 1 \/ (i - 1 \in DOMAIN s /\ r[i] = s[i - 1])
OBVIOUS

\* One description is put behind the list.
LEMMA Behind ==
  ASSUME NEW S, NEW s \in Seq(S), NEW d \in S
  PROVE  LET r == Append(s, d)
         IN  /\ r \in Seq(S) /\ DOMAIN r = 1 .. Len(s) + 1
             /\ DOMAIN s = 1 .. Len(s)
             /\ r[Len(s) + 1] = d
             /\ \A i \in DOMAIN s : i \in DOMAIN r /\ r[i] = s[i]
             /\ \A i \in DOMAIN r : i = Len(s) + 1 \/ i \in DOMAIN s
OBVIOUS

\* The sorted list is the list in another order, that of NextRun: every place of
\* it is filled from a place of the list of its own.
LEMMA SortPermutes ==
  ASSUME NEW s \in Seq(Description)
  PROVE  \E p \in [DOMAIN s -> DOMAIN s] :
           /\ \A i, j \in DOMAIN s : p[i] = p[j] => i = j
           /\ \A k \in DOMAIN s : \E i \in DOMAIN s : p[i] = k
           /\ StableSort(s) = [k \in DOMAIN s |-> s[p[k]]]
           /\ \A i, j \in DOMAIN s : i < j => s[p[i]].NextRun <= s[p[j]].NextRun
<1> DEFINE D == DOMAIN s
           Before(i) == {j \in D : \/ s[j].NextRun < s[i].NextRun
                                   \/ s[j].NextRun = s[i].NextRun /\ j < i}
           place == [i \in D |-> Cardinality(Before(i)) + 1]
           p == [k \in D |-> CHOOSE i \in D : Cardinality(Before(i)) = k - 1]
<1>1. /\ D = 1 .. Len(s) /\ Len(s) \in Nat
      /\ \A i \in D : i \in Nat /\ s[i].NextRun \in Nat
  <2>1. D = 1 .. Len(s) /\ Len(s) \in Nat /\ \A i \in D : s[i] \in Description
    OBVIOUS
  <2>2. \A d \in Description : d.NextRun \in Nat
    BY DEF Description
  <2>3. QED
    BY <2>1, <2>2
<1>2. IsFiniteSet(D) /\ Cardinality(D) = Len(s)
  BY <1>1, FS_Interval
<1>3. \A i \in D : /\ i \notin Before(i) /\ Before(i) \subseteq D
                   /\ IsFiniteSet(Before(i))
                   /\ Cardinality(Before(i)) \in Nat
                   /\ Cardinality(Before(i)) <= Len(s) - 1
  <2> SUFFICES ASSUME NEW i \in D
               PROVE  /\ i \notin Before(i) /\ Before(i) \subseteq D
                      /\ IsFiniteSet(Before(i))
                      /\ Cardinality(Before(i)) \in Nat
                      /\ Cardinality(Before(i)) <= Len(s) - 1
    OBVIOUS
  <2>1. i \notin Before(i) /\ Before(i) \in SUBSET (D \ {i})
    BY <1>1
  <2>2. IsFiniteSet(D \ {i}) /\ Cardinality(D \ {i}) = Len(s) - 1
    BY <1>2, FS_RemoveElement
  <2> HIDE DEF Before
  <2>3. IsFiniteSet(Before(i)) /\ Cardinality(Before(i)) <= Len(s) - 1
    BY <2>1, <2>2, FS_Subset
  <2>4. Cardinality(Before(i)) \in Nat
    BY <2>3, FS_CardinalityType
  <2>5. QED
    BY <2>1, <2>3, <2>4
<1>4. ASSUME NEW i \in D, NEW j \in D, i \in Before(j)
      PROVE  Cardinality(Before(i)) < Cardinality(Before(j))
  <2>1. Before(i) \in SUBSET Before(j) /\ Before(i) # Before(j)
    BY <1>1, <1>3, <1>4
  <2> HIDE DEF Before
  <2>2. QED
    BY <1>3, <2>1, FS_Subset
<1>5. /\ \A i, j \in D : i # j => i \in Before(j) \/ j \in Before(i)
      /\ \A i, j \in D : i \in Before(j) => s[i].NextRun <= s[j].NextRun
  BY <1>1
<1> HIDE DEF Before
<1>6. \A i, j \in D : Cardinality(Before(i)) = Cardinality(Before(j)) => i = j
  BY <1>3, <1>4, <1>5
<1>7. place \in Injection(D, D)
  <2>1. place \in [D -> D]
    BY <1>1, <1>3
  <2>2. \A i, j \in D : place[i] = place[j] => i = j
    BY <1>3, <1>6
  <2>3. QED
    BY <2>1, <2>2 DEF Injection, IsInjective
<1>8. place \in Surjection(D, D)
  BY <1>2, <1>7, FS_Injection
<1>9. \A k \in D : \E i \in D : Cardinality(Before(i)) = k - 1
  <2>1. \A k \in D : \E i \in D : place[i] = k
    BY <1>8 DEF Surjection
  <2>2. QED
    BY <1>1, <1>3, <2>1
<1>10. \A k \in D : p[k] \in D /\ Cardinality(Before(p[k])) = k - 1
  BY <1>9
<1>11. \A i, j \in D : p[i] = p[j] => i = j
  BY <1>1, <1>10
<1>12. \A k \in D : \E i \in D : p[i] = k
  <2> SUFFICES ASSUME NEW k \in D PROVE \E i \in D : p[i] = k
    OBVIOUS
  <2>1. place[k] \in D
    BY <1>7 DEF Injection
  <2>2. Cardinality(Before(p[place[k]])) = Cardinality(Before(k))
    BY <1>3, <1>10, <2>1
  <2>3. p[place[k]] = k
    BY <1>6, <1>10, <2>1, <2>2
  <2>4. QED
    BY <2>1, <2>3
<1>13. StableSort(s) = [k \in D |-> s[p[k]]]
  BY DEF StableSort, Before
<1>14. p \in [D -> D]
  BY <1>10
<1>15. \A i, j \in D : i < j => s[p[i]].NextRun <= s[p[j]].NextRun
  <2> SUFFICES ASSUME NEW i \in D, NEW j \in D, i < j
               PROVE  s[p[i]].NextRun <= s[p[j]].NextRun
    OBVIOUS
  <2>1. /\ p[i] \in D /\ p[j] \in D /\ p[i] # p[j] /\ i \in Int /\ j \in Int
        /\ Cardinality(Before(p[i])) = i - 1
        /\ Cardinality(Before(p[j])) = j - 1
    BY <1>1, <1>10, <1>11
  <2>2. p[j] \notin Before(p[i])
    BY <1>4, <2>1
  <2>3. QED
    BY <1>5, <2>1, <2>2
<1> HIDE DEF p
<1>16. QED
  BY <1>11, <1>12, <1>13, <1>14, <1>15

\* A sorted list is a list, of the same tasks at the same times, in order.
LEMMA SortKeeps ==
  ASSUME NEW s \in Seq(Description)
  PROVE  LET r == StableSort(s)
         IN  /\ r \in Seq(Description) /\ DOMAIN r = DOMAIN s
             /\ Distinct(s) => Distinct(r)
             /\ \A k \in DOMAIN r : \E i \in DOMAIN s : r[k] = s[i]
             /\ \A i \in DOMAIN s : \E k \in DOMAIN r : r[k] = s[i]
             /\ \A i, j \in DOMAIN r : i < j => r[i].NextRun <= r[j].NextRun
<1>1. PICK p \in [DOMAIN s -> DOMAIN s] :
           /\ \A i, j \in DOMAIN s : p[i] = p[j] => i = j
           /\ \A k \in DOMAIN s : \E i \in DOMAIN s : p[i] = k
           /\ StableSort(s) = [k \in DOMAIN s |-> s[p[k]]]
           /\ \A i, j \in DOMAIN s : i < j => s[p[i]].NextRun <= s[p[j]].NextRun
  BY SortPermutes
<1> DEFINE r == StableSort(s)
<1>2. DOMAIN r = DOMAIN s /\ \A k \in DOMAIN s : r[k] = s[p[k]] /\ p[k] \in DOMAIN s
  BY <1>1
<1>3. r \in Seq(Description)
  <2>1. DOMAIN s = 1 .. Len(s) /\ Len(s) \in Nat
        /\ \A i \in DOMAIN s : s[i] \in Description
    OBVIOUS
  <2>2. r = [k \in 1 .. Len(s) |-> s[p[k]]]
    BY <1>1, <2>1
  <2>3. \A k \in 1 .. Len(s) : s[p[k]] \in Description
    BY <1>2, <2>1
  <2> HIDE DEF r
  <2>4. QED
    BY <2>1, <2>2, <2>3
<1> HIDE DEF r
<1>4. Distinct(s) => Distinct(r)
  <2> SUFFICES ASSUME Distinct(s), NEW i \in DOMAIN s, NEW j \in DOMAIN s,
                      r[i].Task = r[j].Task
               PROVE  i = j
    BY <1>2 DEF Distinct
  <2>1. s[p[i]].Task = s[p[j]].Task /\ p[i] \in DOMAIN s /\ p[j] \in DOMAIN s
    BY <1>2
  <2>2. p[i] = p[j]
    BY <2>1 DEF Distinct
  <2>3. QED
    BY <1>1, <2>2
<1>5. /\ \A k \in DOMAIN r : \E i \in DOMAIN s : r[k] = s[i]
      /\ \A i \in DOMAIN s : \E k \in DOMAIN r : r[k] = s[i]
  BY <1>1, <1>2
<1>6. ASSUME NEW i \in DOMAIN r, NEW j \in DOMAIN r, i < j
      PROVE  r[i].NextRun <= r[j].NextRun
  <2>1. i \in DOMAIN s /\ j \in DOMAIN s
    BY <1>2
  <2>2. r[i] = s[p[i]] /\ r[j] = s[p[j]]
    BY <1>2, <2>1
  <2>3. s[p[i]].NextRun <= s[p[j]].NextRun
    BY <1>1, <1>6, <2>1
  <2>4. QED
    BY <2>2, <2>3
<1>7. QED
  BY <1>2, <1>3, <1>4, <1>5, <1>6 DEF r

-----------------------------------------------------------------------------
\* Initially the inductive invariant holds.
LEMMA InitStep == Init => IInv
<1> SUFFICES ASSUME Init PROVE IInv
  OBVIOUS
<1>1. << >> \in Seq(Description) /\ DOMAIN << >> = {}
  OBVIOUS
<1>2. START \in START .. MaxTime /\ 0 \in 0 .. MaxTime
  BY SchedulerAssumption DEF START
<1>3. lastRun \in [TaskIds -> 0 .. MaxTime]
  BY <1>2 DEF Init, EPOCH
<1>4. TypeOK
  BY <1>1, <1>2, <1>3 DEF Init, TypeOK
<1>5. QED
  BY <1>1, <1>4 DEF Init, IInv, Distinct, EPOCH

\* Adding a task keeps the invariant: it is new, and has not run yet.
LEMMA AddStep ==
  ASSUME IInv, NEW t \in TaskIds, AddTask(t)
  PROVE  IInv'
<1> DEFINE d == [NextRun |-> EPOCH, Task |-> t]
<1>1. d \in Description /\ d.Task = t /\ d.NextRun = EPOCH
  BY DEF Description, EPOCH
<1> HIDE DEF d
<1>2. Tasks \in Seq(Description) /\ Tasks' = <<d>> \o Tasks
  BY DEF IInv, TypeOK, AddTask, d
<1>3. /\ Tasks' \in Seq(Description) /\ Tasks'[1] = d /\ 1 \in DOMAIN Tasks'
      /\ \A i \in DOMAIN Tasks : i + 1 \in DOMAIN Tasks' /\ Tasks'[i + 1] = Tasks[i]
      /\ \A i \in DOMAIN Tasks' : /\ i \in Nat
                                  /\ \/ i = 1
                                     \/ i - 1 \in DOMAIN Tasks /\ Tasks'[i] = Tasks[i - 1]
  BY <1>1, <1>2, InFront
<1>4. t \notin added /\ lastRun[t] = EPOCH
      /\ \A i \in DOMAIN Tasks : Tasks[i].Task # t
  BY DEF AddTask, IInv
<1>5. TypeOK'
  BY <1>3 DEF IInv, TypeOK, AddTask
<1>6. Distinct(Tasks)'
  <2> SUFFICES ASSUME NEW i \in DOMAIN Tasks', NEW j \in DOMAIN Tasks',
                      Tasks'[i].Task = Tasks'[j].Task
               PROVE  i = j
    BY DEF Distinct
  <2>1. CASE i = 1 \/ j = 1
    BY <1>1, <1>3, <1>4, <2>1
  <2>2. CASE i # 1 /\ j # 1
    <3>1. i - 1 \in DOMAIN Tasks /\ j - 1 \in DOMAIN Tasks
          /\ Tasks[i - 1].Task = Tasks[j - 1].Task
      BY <1>3, <2>2
    <3>2. i - 1 = j - 1
      BY <3>1 DEF IInv, Distinct
    <3>3. i \in Nat /\ j \in Nat
      BY <1>3
    <3>4. QED
      BY <3>2, <3>3
  <2>3. QED
    BY <2>1, <2>2
<1>7. \A i \in DOMAIN Tasks' :
        Tasks'[i] = d \/ \E j \in DOMAIN Tasks : Tasks'[i] = Tasks[j]
  BY <1>3
<1>8. /\ added' = added \cup {t} /\ UNCHANGED <<pc, running, iteration, lastRun>>
  BY DEF AddTask
<1>9. \A u \in added' : \/ \E i \in DOMAIN Tasks' : Tasks'[i].Task = u
                        \/ running' # NoTask /\ running'.Task = u
  BY <1>1, <1>3, <1>8 DEF IInv
<1>10. \A i \in DOMAIN Tasks' : Paced(lastRun', Tasks'[i].Task, Tasks'[i].NextRun)
  <2>1. Paced(lastRun, d.Task, d.NextRun)
    BY <1>1, <1>4 DEF Paced
  <2>2. \A i \in DOMAIN Tasks' : Paced(lastRun, Tasks'[i].Task, Tasks'[i].NextRun)
    BY <1>7, <2>1 DEF IInv
  <2>3. QED
    BY <1>8, <2>2 DEF Paced
<1>11. \A i \in DOMAIN Tasks' : Tasks'[i].Task \in added'
  BY <1>1, <1>7, <1>8 DEF IInv
<1>12. running' # NoTask =>
         /\ running'.Task \in added'
         /\ \A i \in DOMAIN Tasks' : Tasks'[i].Task # running'.Task
         /\ lastRun'[running'.Task] = iteration'
  BY <1>1, <1>4, <1>7, <1>8 DEF IInv
<1>13. /\ pc' = "run" <=> running' # NoTask
       /\ \A u \in TaskIds \ added' : lastRun'[u] = EPOCH
  BY <1>8 DEF IInv
<1>14. QED
  BY <1>5, <1>6, <1>9, <1>10, <1>11, <1>12, <1>13 DEF IInv

\* Taking a due task out keeps the invariant.
LEMMA DueStep ==
  ASSUME IInv, LookDue
  PROVE  IInv'
<1>1. Tasks \in Seq(Description) /\ Tasks # << >> /\ running = NoTask
      /\ running' = Head(Tasks) /\ Tasks' = Tail(Tasks) /\ pc' = "run"
      /\ UNCHANGED <<iteration, added>>
      /\ lastRun' = [lastRun EXCEPT ![Head(Tasks).Task] = iteration]
  BY DEF LookDue, TakeFirst, IInv, TypeOK
<1>2. /\ running' = Tasks[1] /\ running' \in Description /\ 1 \in DOMAIN Tasks
      /\ Tasks' \in Seq(Description)
      /\ \A i \in DOMAIN Tasks' :
           i \in Nat /\ i + 1 \in DOMAIN Tasks /\ Tasks'[i] = Tasks[i + 1]
      /\ \A i \in DOMAIN Tasks : i = 1 \/ (i - 1 \in DOMAIN Tasks'
                                           /\ Tasks[i] = Tasks'[i - 1])
  BY <1>1, PopSeq
<1>3. /\ running'.Task \in TaskIds /\ running' # NoTask
      /\ lastRun'[running'.Task] = iteration
      /\ \A t \in TaskIds : t # running'.Task => lastRun'[t] = lastRun[t]
  <2>1. running'.Task \in TaskIds /\ running'.Task \in added
    BY <1>2 DEF Description, IInv
  <2>2. running' # NoTask
    BY <1>2, SchedulerAssumption
  <2>3. lastRun \in [TaskIds -> 0 .. MaxTime]
        /\ lastRun' = [lastRun EXCEPT ![running'.Task] = iteration]
    BY <1>1 DEF IInv, TypeOK
  <2>4. QED
    BY <2>1, <2>2, <2>3
<1>4. \A i \in DOMAIN Tasks' : Tasks'[i].Task # running'.Task
  BY <1>2 DEF IInv, Distinct
<1>5. TypeOK'
  <2>1. until' \in 0 .. MaxTime
    BY SchedulerAssumption DEF LookDue, Deadline, IInv, TypeOK, START
  <2>2. lastRun' \in [TaskIds -> 0 .. MaxTime]
    BY <1>1 DEF IInv, TypeOK
  <2>3. QED
    BY <1>2, <2>1, <2>2 DEF LookDue, IInv, TypeOK
<1>6. Distinct(Tasks)'
  <2> SUFFICES ASSUME NEW i \in DOMAIN Tasks', NEW j \in DOMAIN Tasks',
                      Tasks'[i].Task = Tasks'[j].Task
               PROVE  i = j
    BY DEF Distinct
  <2>1. i + 1 = j + 1
    BY <1>2 DEF IInv, Distinct
  <2>2. QED
    BY <1>2, <2>1
<1>7. \A i \in DOMAIN Tasks' : /\ Tasks'[i].Task \in added'
                               /\ Paced(lastRun', Tasks'[i].Task, Tasks'[i].NextRun)
  <2> SUFFICES ASSUME NEW i \in DOMAIN Tasks'
               PROVE  /\ Tasks'[i].Task \in added'
                      /\ Paced(lastRun', Tasks'[i].Task, Tasks'[i].NextRun)
    OBVIOUS
  <2>1. Tasks'[i] = Tasks[i + 1] /\ i + 1 \in DOMAIN Tasks
    BY <1>2
  <2>2. Tasks'[i].Task \in added /\ Paced(lastRun, Tasks'[i].Task, Tasks'[i].NextRun)
    BY <2>1 DEF IInv
  <2>3. lastRun'[Tasks'[i].Task] = lastRun[Tasks'[i].Task]
    BY <1>3, <1>4, <2>2 DEF IInv, TypeOK
  <2>4. Paced(lastRun', Tasks'[i].Task, Tasks'[i].NextRun)
    BY <2>2, <2>3 DEF Paced
  <2>5. QED
    BY <1>1, <2>2, <2>4
<1>8. \A t \in added' : \/ \E i \in DOMAIN Tasks' : Tasks'[i].Task = t
                        \/ running' # NoTask /\ running'.Task = t
  <2> SUFFICES ASSUME NEW t \in added, t # running'.Task
               PROVE  \E i \in DOMAIN Tasks' : Tasks'[i].Task = t
    BY <1>1, <1>3
  <2>1. PICK j \in DOMAIN Tasks : Tasks[j].Task = t
    BY <1>1 DEF IInv
  <2>2. j # 1
    BY <1>2, <2>1
  <2>3. QED
    BY <1>2, <2>1, <2>2
<1>9. \A t \in TaskIds \ added' : lastRun'[t] = EPOCH
  BY <1>1, <1>2, <1>3 DEF IInv
<1>10. running'.Task \in added' /\ lastRun'[running'.Task] = iteration'
  BY <1>1, <1>2, <1>3 DEF IInv
<1>11. pc' = "run" <=> running' # NoTask
  BY <1>1, <1>3
<1>12. QED
  BY <1>4, <1>5, <1>6, <1>7, <1>8, <1>9, <1>10, <1>11 DEF IInv

\* Sorting keeps the invariant.
LEMMA SortStep ==
  ASSUME IInv, LookLater
  PROVE  IInv'
<1>1. Tasks \in Seq(Description) /\ Tasks # << >>
      /\ Tasks' = StableSort(Tasks) /\ running = NoTask
      /\ UNCHANGED <<running, iteration, added, lastRun>> /\ pc' # "run"
  BY DEF LookLater, IInv, TypeOK
<1>2. /\ Tasks' \in Seq(Description) /\ DOMAIN Tasks' = DOMAIN Tasks
      /\ Distinct(Tasks) => Distinct(Tasks')
      /\ \A k \in DOMAIN Tasks' : \E i \in DOMAIN Tasks : Tasks'[k] = Tasks[i]
      /\ \A i \in DOMAIN Tasks : \E k \in DOMAIN Tasks' : Tasks'[k] = Tasks[i]
  BY <1>1, SortKeeps
<1>3. Head(Tasks') \in Description
  <2>1. Tasks' # << >>
    BY <1>1, <1>2
  <2>2. QED
    BY <1>2, <2>1, PopSeq
<1>4. until' \in 0 .. MaxTime
  BY <1>1, <1>3, SchedulerAssumption DEF LookLater, Deadline, Description
<1>5. TypeOK'
  BY <1>2, <1>4 DEF LookLater, IInv, TypeOK
<1>6. Distinct(Tasks)'
  BY <1>2 DEF IInv, Distinct
<1>7. \A i \in DOMAIN Tasks' : /\ Tasks'[i].Task \in added
                               /\ Paced(lastRun, Tasks'[i].Task, Tasks'[i].NextRun)
  BY <1>2 DEF IInv
<1>8. \A i \in DOMAIN Tasks' : Paced(lastRun', Tasks'[i].Task, Tasks'[i].NextRun)
  BY <1>1, <1>7 DEF Paced
<1>9. /\ running' = NoTask /\ pc' # "run"
      /\ \A t \in TaskIds \ added' : lastRun'[t] = EPOCH
  BY <1>1 DEF IInv
<1>10. \A t \in added' : \E i \in DOMAIN Tasks' : Tasks'[i].Task = t
  <2> SUFFICES ASSUME NEW t \in added
               PROVE  \E i \in DOMAIN Tasks' : Tasks'[i].Task = t
    BY <1>1
  <2>1. PICK j \in DOMAIN Tasks : Tasks[j].Task = t
    BY <1>1 DEF IInv
  <2>2. QED
    BY <1>2, <2>1
<1>11. QED
  BY <1>1, <1>5, <1>6, <1>7, <1>8, <1>9, <1>10 DEF IInv

\* Putting a task back keeps the invariant: its next run is a period after the
\* iteration that ran it.
LEMMA RunStep ==
  ASSUME IInv, RunDone
  PROVE  IInv'
<1> DEFINE d == [NextRun |-> iteration + Period[running.Task],
                 Task |-> running.Task]
<1>1. running \in Description /\ running.Task \in TaskIds
      /\ running # NoTask /\ lastRun[running.Task] = iteration
      /\ running.Task \in added
      /\ \A i \in DOMAIN Tasks : Tasks[i].Task # running.Task
  BY DEF RunDone, IInv, TypeOK, Description
<1>2. d \in Description /\ d.Task = running.Task
      /\ d.NextRun = iteration + Period[running.Task]
  BY <1>1, SchedulerAssumption DEF Description, IInv, TypeOK
<1>3. Tasks \in Seq(Description) /\ Tasks' = Append(Tasks, d)
      /\ running' = NoTask /\ pc' # "run" /\ UNCHANGED <<iteration, added, lastRun>>
  BY DEF RunDone, NextRunOf, IInv, TypeOK
<1> HIDE DEF d
<1>4. /\ Tasks' \in Seq(Description) /\ Tasks'[Len(Tasks) + 1] = d
      /\ Len(Tasks) + 1 \in DOMAIN Tasks'
      /\ \A i \in DOMAIN Tasks : i \in DOMAIN Tasks' /\ Tasks'[i] = Tasks[i]
      /\ \A i \in DOMAIN Tasks' : i = Len(Tasks) + 1 \/ i \in DOMAIN Tasks
  BY <1>2, <1>3, Behind
<1>5. TypeOK'
  BY <1>4, SchedulerAssumption DEF RunDone, IInv, TypeOK
<1>6. Distinct(Tasks)'
  BY <1>1, <1>2, <1>4 DEF IInv, Distinct
<1>7. Paced(lastRun, d.Task, d.NextRun)
  <2>1. iteration \in Int /\ Period[running.Task] \in Int
    BY <1>1, SchedulerAssumption DEF IInv, TypeOK
  <2>2. d.NextRun >= lastRun[d.Task] + Period[d.Task]
    BY <1>1, <1>2, <2>1
  <2>3. QED
    BY <2>2 DEF Paced
<1>8. \A i \in DOMAIN Tasks' :
        Tasks'[i] = d \/ \E j \in DOMAIN Tasks : Tasks'[i] = Tasks[j]
  BY <1>4
<1>9. \A i \in DOMAIN Tasks' : /\ Tasks'[i].Task \in added
                               /\ Paced(lastRun, Tasks'[i].Task, Tasks'[i].NextRun)
  BY <1>1, <1>2, <1>7, <1>8 DEF IInv
<1>10. \A i \in DOMAIN Tasks' : Paced(lastRun', Tasks'[i].Task, Tasks'[i].NextRun)
  BY <1>3, <1>9 DEF Paced
<1>11. \A t \in added' : \E i \in DOMAIN Tasks' : Tasks'[i].Task = t
  <2> SUFFICES ASSUME NEW t \in added
               PROVE  \E i \in DOMAIN Tasks' : Tasks'[i].Task = t
    BY <1>3
  <2>1. CASE t = running.Task
    BY <1>2, <1>4, <2>1
  <2>2. CASE t # running.Task
    BY <1>4, <2>2 DEF IInv
  <2>3. QED
    BY <2>1, <2>2
<1>12. \A t \in TaskIds \ added' : lastRun'[t] = EPOCH
  BY <1>3 DEF IInv
<1>13. QED
  BY <1>3, <1>5, <1>6, <1>9, <1>10, <1>11, <1>12 DEF IInv

\* Every other step leaves the list alone.
LEMMA OtherStep ==
  ASSUME IInv,
         \/ Disable \/ NotifyStop \/ BeginIteration \/ LookEmpty \/ FallAsleep
         \/ Wake \/ WakeSpuriously \/ Tick \/ UNCHANGED vars
  PROVE  IInv'
<1>1. /\ UNCHANGED <<Tasks, running, added, lastRun>>
      /\ running # NoTask => UNCHANGED <<iteration, pc>>
      /\ pc' = "run" <=> pc = "run"
  BY DEF IInv, Disable, NotifyStop, BeginIteration, LookEmpty, FallAsleep, Wake,
         SleepOver, Asleep, WakeSpuriously, Tick, vars
<1>2. TypeOK'
  <2>1. START = 1 /\ MaxTime \in Nat \ {0} /\ now \in START .. MaxTime
        /\ iteration \in 0 .. MaxTime /\ until \in 0 .. MaxTime
    BY SchedulerAssumption DEF IInv, TypeOK, START
  <2>2. now' \in START .. MaxTime
    BY <2>1
       DEF Disable, NotifyStop, BeginIteration, LookEmpty, FallAsleep, Wake,
           WakeSpuriously, Tick, vars
  <2>3. iteration' \in 0 .. MaxTime /\ until' \in 0 .. MaxTime
    BY <2>1
       DEF Disable, NotifyStop, BeginIteration, LookEmpty, FallAsleep, Wake,
           WakeSpuriously, Tick, vars
  <2>4. /\ woken' \in BOOLEAN /\ Enabled' \in BOOLEAN
        /\ owner' \in {"up", "notify", "join"}
        /\ pc' \in {"top", "look", "goSleep", "sleep", "goSleepUntil",
                    "sleepUntil", "run", "stopped"}
    BY DEF IInv, TypeOK, Asleep, Disable, NotifyStop, BeginIteration, LookEmpty,
           FallAsleep, Wake, WakeSpuriously, Tick, vars
  <2>5. QED
    BY <1>1, <2>2, <2>3, <2>4 DEF IInv, TypeOK
<1>3. Distinct(Tasks)'
      /\ \A i \in DOMAIN Tasks' : Paced(lastRun', Tasks'[i].Task, Tasks'[i].NextRun)
  BY <1>1 DEF IInv, Distinct, Paced
<1>4. QED
  BY <1>1, <1>2, <1>3 DEF IInv

LEMMA NextStep == IInv /\ [Next]_vars => IInv'
BY AddStep, DueStep, SortStep, RunStep, OtherStep DEF Next, Owner, Thread

-----------------------------------------------------------------------------
\* The inductive invariant holds in every reachable state.
THEOREM Inductive == Spec => []IInv
BY InitStep, NextStep, PTL DEF Spec

\* The state keeps its types (MakeIteration, AddTask).
THEOREM TypeCorrect == Spec => []TypeOK
<1>1. IInv => TypeOK
  BY DEF IInv
<1>2. QED
  BY Inductive, <1>1, PTL

\* No task is lost or doubled, whatever AddTask puts in front while the list is
\* unlocked and however it is sorted (MakeIteration).
THEOREM TasksConserved == Spec => []Conserved
<1>1. IInv => Conserved
  <2> SUFFICES ASSUME IInv, NEW t \in TaskIds
               PROVE  Copies(t) = IF t \in added THEN 1 ELSE 0
    BY DEF Conserved
  <2> DEFINE at == {i \in DOMAIN Tasks : Tasks[i].Task = t}
  <2>1. CASE at = {}
    <3>1. Cardinality(at) = 0
      BY <2>1, FS_EmptySet
    <3>2. t \in added <=> running # NoTask /\ running.Task = t
      BY <2>1 DEF IInv
    <3> HIDE DEF at
    <3>3. QED
      BY <3>1, <3>2 DEF Copies, at
  <2>2. ASSUME NEW i \in at PROVE Copies(t) = IF t \in added THEN 1 ELSE 0
    <3>1. at = {i}
      BY <2>2 DEF IInv, Distinct
    <3>2. Cardinality(at) = 1
      BY <3>1, FS_Singleton
    <3>3. t \in added /\ ~(running # NoTask /\ running.Task = t)
      BY <2>2 DEF IInv
    <3> HIDE DEF at
    <3>4. QED
      BY <3>2, <3>3 DEF Copies, at
  <2>3. QED
    BY <2>1, <2>2
<1>2. QED
  BY Inductive, <1>1, PTL

\* Two runs of a task are at least its period apart, for any periods and run
\* times (MakeIteration's NextRun).
THEOREM RateHolds == Spec => RateBounded
<1>1. IInv /\ [Next]_vars =>
        \A t \in TaskIds :
          lastRun'[t] # lastRun[t] /\ lastRun[t] # EPOCH
            => lastRun'[t] >= lastRun[t] + Period[t]
  <2> SUFFICES ASSUME IInv, [Next]_vars, NEW t \in TaskIds,
                      lastRun'[t] # lastRun[t], lastRun[t] # EPOCH
               PROVE  lastRun'[t] >= lastRun[t] + Period[t]
    OBVIOUS
  <2>1. LookDue
    BY DEF Next, Owner, Thread, AddTask, Disable, NotifyStop, BeginIteration,
           LookEmpty, LookLater, FallAsleep, Wake, RunDone, WakeSpuriously,
           Tick, vars
  <2>2. 1 \in DOMAIN Tasks /\ Head(Tasks) = Tasks[1] /\ Tasks[1] \in Description
    BY <2>1, PopSeq DEF LookDue, IInv, TypeOK
  <2>3. /\ t = Tasks[1].Task /\ lastRun'[t] = iteration
        /\ Tasks[1].NextRun <= iteration
    BY <2>1, <2>2 DEF LookDue, IInv, TypeOK
  <2>4. Tasks[1].NextRun >= lastRun[t] + Period[t]
    BY <2>2, <2>3 DEF IInv, Paced
  <2>5. Tasks[1].NextRun \in Int /\ iteration \in Int
        /\ lastRun[t] \in Int /\ Period[t] \in Int
    BY <2>2, SchedulerAssumption DEF IInv, TypeOK, Description
  <2>6. QED
    BY <2>3, <2>4, <2>5
<1>2. QED
  BY Inductive, <1>1, PTL DEF Spec, RateBounded

-----------------------------------------------------------------------------
\* On time.

\* How long the present run still takes.
Rest == IF pc = "run" THEN until - now ELSE 0

\* The tasks that may be run before the i-th of the list: those not added yet,
\* which go to the front, those before it, those a sort may put before it, and
\* the one that runs if it will be due again no later.
Ahead(i) ==
  {t \in TaskIds \ {Tasks[i].Task} :
     \/ t \notin added
     \/ \E j \in DOMAIN Tasks :
          /\ Tasks[j].Task = t
          /\ j < i \/ Tasks[j].NextRun <= Tasks[i].NextRun
     \/ /\ running # NoTask /\ running.Task = t
        /\ NextRunOf(running) <= Tasks[i].NextRun}

\* One run of each of them, after the present one, still leaves it in time.
InTime(i) ==
  Tasks[i].NextRun # EPOCH /\ now >= Tasks[i].NextRun =>
    now + Rest + Cardinality(Ahead(i)) * RunTime
      <= Tasks[i].NextRun + Cardinality(TaskIds) * RunTime

\* What is due is in time; the thread looks at the list as of now, sleeps
\* without end only if nothing has been run, and otherwise no longer than until
\* the first task is due.
TimeInv ==
  /\ pc = "look" => iteration = now
  /\ pc = "run" => /\ iteration <= now /\ now <= until
                   /\ until <= iteration + RunTime
  /\ pc \in {"goSleep", "sleep"} => \A i \in DOMAIN Tasks : Tasks[i].NextRun = EPOCH
  /\ pc \in {"goSleepUntil", "sleepUntil"} =>
       \A i \in DOMAIN Tasks : Tasks[i].NextRun = EPOCH \/ until <= Tasks[i].NextRun
  /\ pc # "stopped" => \A i \in DOMAIN Tasks : InTime(i)

\* The types of times and tasks.
LEMMA Numbers ==
  ASSUME IInv
  PROVE  /\ now \in Nat /\ until \in Nat /\ iteration \in Nat /\ Rest \in Int
         /\ now <= MaxTime /\ RunTime \in Nat /\ MaxTime \in Nat
         /\ \A t \in TaskIds : Period[t] \in Nat /\ Period[t] > 0
         /\ \A i \in DOMAIN Tasks : /\ i \in Nat /\ Tasks[i].NextRun \in Nat
                                    /\ Tasks[i].Task \in TaskIds
         /\ running # NoTask => running.Task \in TaskIds
<1>1. /\ now \in Nat /\ until \in Nat /\ iteration \in Nat /\ now <= MaxTime
      /\ RunTime \in Nat /\ MaxTime \in Nat
  BY SchedulerAssumption DEF IInv, TypeOK, START
<1>2. \A i \in DOMAIN Tasks : i \in Nat /\ Tasks[i] \in Description
  BY DEF IInv, TypeOK
<1>3. \A t \in TaskIds : Period[t] \in Nat /\ Period[t] > 0
  BY SchedulerAssumption
<1>4. running # NoTask => running \in Description
  BY DEF IInv, TypeOK
<1>5. QED
  BY <1>1, <1>2, <1>3, <1>4 DEF Description, Rest

\* What one run of each of some tasks takes, compared with fewer tasks.
LEMMA FewerRuns ==
  ASSUME NEW A \in SUBSET TaskIds, NEW B \in SUBSET A
  PROVE  /\ Cardinality(A) * RunTime \in Nat /\ Cardinality(B) * RunTime \in Nat
         /\ Cardinality(B) * RunTime <= Cardinality(A) * RunTime
         /\ B # A => Cardinality(B) * RunTime + RunTime <= Cardinality(A) * RunTime
<1>1. IsFiniteSet(A)
  BY SchedulerAssumption, FS_Subset
<1>2. /\ IsFiniteSet(B) /\ Cardinality(B) <= Cardinality(A)
      /\ Cardinality(A) = Cardinality(B) => A = B
  BY <1>1, FS_Subset
<1>3. Cardinality(A) \in Nat /\ Cardinality(B) \in Nat /\ RunTime \in Nat
  BY <1>1, <1>2, FS_CardinalityType, SchedulerAssumption
<1>4. \A a, b, r \in Nat : /\ a * r \in Nat
                           /\ b <= a => b * r <= a * r
                           /\ b < a => b * r + r <= a * r
  <2> SUFFICES ASSUME NEW a \in Nat, NEW b \in Nat, NEW r \in Nat
               PROVE  /\ a * r \in Nat
                      /\ b <= a => b * r <= a * r
                      /\ b < a => b * r + r <= a * r
    OBVIOUS
  <2>1. \A k \in Nat : k * r \in Nat /\ (b + k) * r = b * r + k * r
    OBVIOUS
  <2>2. b <= a => b * r <= a * r
    <3>1. b <= a => a - b \in Nat /\ b + (a - b) = a
      OBVIOUS
    <3>2. QED
      BY <2>1, <3>1
  <2>3. b < a => b * r + r <= a * r
    <3>1. b < a => a - b - 1 \in Nat /\ (b + 1) + (a - b - 1) = a
      OBVIOUS
    <3>2. \A k \in Nat : ((b + 1) + k) * r = b * r + r + k * r
      OBVIOUS
    <3>3. QED
      BY <2>1, <3>1, <3>2
  <2>4. QED
    BY <2>1, <2>2, <2>3
<1>5. QED
  BY <1>2, <1>3, <1>4

\* All the others leave time for one more run.
LEMMA OneMoreRun ==
  ASSUME NEW t \in TaskIds, NEW A \in SUBSET (TaskIds \ {t})
  PROVE  /\ Cardinality(A) * RunTime \in Nat
         /\ Cardinality(TaskIds) * RunTime \in Nat
         /\ Cardinality(A) * RunTime + RunTime <= Cardinality(TaskIds) * RunTime
BY FewerRuns

-----------------------------------------------------------------------------
\* A task that a step leaves in the list stays in time if no time passes, the
\* present run takes no longer, and no task gets ahead of it.
LEMMA StaysInTime ==
  ASSUME IInv, NEW i, NEW j \in DOMAIN Tasks, InTime(j),
         Tasks'[i] = Tasks[j], now' = now, Rest \in Int, Rest' = Rest,
         Ahead(i)' \subseteq Ahead(j)
  PROVE  InTime(i)'
<1>1. Tasks[j].NextRun \in Int /\ now \in Int
  BY Numbers
<1> DEFINE before == Cardinality(Ahead(j)) * RunTime
           after == Cardinality(Ahead(i)') * RunTime
<1>2. Ahead(j) \in SUBSET TaskIds
  BY DEF Ahead
<1>3. before \in Int /\ after \in Int /\ after <= before
      /\ Cardinality(TaskIds) * RunTime \in Int
  BY <1>2, FewerRuns, OneMoreRun
<1> HIDE DEF before, after
<1>4. Tasks[j].NextRun # EPOCH /\ now >= Tasks[j].NextRun =>
        now + Rest + after
          <= Tasks[j].NextRun + Cardinality(TaskIds) * RunTime
  BY <1>1, <1>3 DEF InTime, before
<1>5. Tasks'[i].NextRun # EPOCH /\ now' >= Tasks'[i].NextRun =>
        now' + Rest' + after
          <= Tasks'[i].NextRun + Cardinality(TaskIds) * RunTime
  BY <1>4
<1>6. QED
  BY <1>5 DEF InTime, after

\* Adding a task changes nothing for the others: it might have been added, and
\* run, before they are.
LEMMA AddInTime ==
  ASSUME IInv, TimeInv, NEW t \in TaskIds, AddTask(t)
  PROVE  TimeInv'
<1> DEFINE d == [NextRun |-> EPOCH, Task |-> t]
<1>1. d \in Description /\ d.Task = t /\ d.NextRun = EPOCH
  BY DEF Description, EPOCH
<1>2. Tasks \in Seq(Description) /\ Tasks' = <<d>> \o Tasks
  BY DEF IInv, TypeOK, AddTask
<1> HIDE DEF d
<1>3. /\ Tasks'[1] = d /\ 1 \in DOMAIN Tasks'
      /\ \A i \in DOMAIN Tasks' : /\ i \in Nat
                                  /\ \/ i = 1
                                     \/ i - 1 \in DOMAIN Tasks /\ Tasks'[i] = Tasks[i - 1]
  BY <1>1, <1>2, InFront
<1>4. /\ t \notin added /\ added' = added \cup {t}
      /\ UNCHANGED <<now, pc, iteration, running, until>>
  BY DEF AddTask
<1>5. Rest \in Int /\ Rest' = Rest
  BY <1>4, Numbers DEF Rest
<1>6. ASSUME NEW i \in DOMAIN Tasks', Tasks'[i].NextRun # EPOCH, pc # "stopped"
      PROVE  InTime(i)'
  <2>1. i # 1
    BY <1>1, <1>3, <1>6
  <2>2. /\ i - 1 \in DOMAIN Tasks /\ Tasks'[i] = Tasks[i - 1]
        /\ i \in Nat /\ i - 1 \in Nat
    BY <1>3, <2>1, Numbers
  <2>3. Ahead(i)' \subseteq Ahead(i - 1)
    <3> SUFFICES ASSUME NEW u \in TaskIds \ {Tasks'[i].Task}, u \in Ahead(i)',
                        u \in added
                 PROVE  u \in Ahead(i - 1)
      BY <2>2 DEF Ahead
    <3>1. u # t
      BY <1>4
    <3>2. \/ \E j \in DOMAIN Tasks' :
               /\ Tasks'[j].Task = u
               /\ j < i \/ Tasks'[j].NextRun <= Tasks'[i].NextRun
          \/ /\ running # NoTask /\ running.Task = u
             /\ NextRunOf(running) <= Tasks'[i].NextRun
      BY <1>4 DEF Ahead, NextRunOf
    <3>3. CASE \E j \in DOMAIN Tasks' :
                 /\ Tasks'[j].Task = u
                 /\ j < i \/ Tasks'[j].NextRun <= Tasks'[i].NextRun
      <4>1. PICK j \in DOMAIN Tasks' :
                 /\ Tasks'[j].Task = u
                 /\ j < i \/ Tasks'[j].NextRun <= Tasks'[i].NextRun
        BY <3>3
      <4>2. /\ j - 1 \in DOMAIN Tasks /\ Tasks'[j] = Tasks[j - 1]
            /\ j < i => j - 1 < i - 1
        BY <1>1, <1>3, <2>2, <3>1, <4>1
      <4>3. QED
        BY <2>2, <4>1, <4>2 DEF Ahead
    <3>4. QED
      BY <2>2, <3>2, <3>3 DEF Ahead
  <2>4. InTime(i - 1)
    BY <1>6, <2>2 DEF TimeInv
  <2>5. QED
    BY <1>4, <1>5, <2>2, <2>3, <2>4, StaysInTime
<1>7. \A i \in DOMAIN Tasks' : Tasks'[i].NextRun = EPOCH => InTime(i)'
  BY DEF InTime
<1>8. \A i \in DOMAIN Tasks' :
        Tasks'[i] = d \/ \E j \in DOMAIN Tasks : Tasks'[i] = Tasks[j]
  BY <1>3
<1>9. QED
  BY <1>1, <1>4, <1>6, <1>7, <1>8 DEF TimeInv

\* A due task that is taken out is no longer ahead of the others that are due:
\* it will be due again only after them.
LEMMA DueInTime ==
  ASSUME IInv, TimeInv, LookDue
  PROVE  TimeInv'
<1>1. /\ Tasks \in Seq(Description) /\ Tasks # << >> /\ running = NoTask
      /\ running' = Head(Tasks) /\ Tasks' = Tail(Tasks)
      /\ pc = "look" /\ pc' = "run" /\ Head(Tasks).NextRun <= iteration
      /\ iteration = now /\ until' = Deadline(now + RunTime)
      /\ UNCHANGED <<now, iteration, added>>
  BY DEF LookDue, TakeFirst, IInv, TypeOK, TimeInv
<1>2. /\ running' = Tasks[1] /\ 1 \in DOMAIN Tasks
      /\ \A i \in DOMAIN Tasks' :
           /\ i \in Nat /\ 0 < i
           /\ i + 1 \in DOMAIN Tasks /\ Tasks'[i] = Tasks[i + 1]
  BY <1>1, PopSeq
<1> DEFINE t == Tasks[1].Task
<1>3. t \in TaskIds /\ t \in added /\ running' # NoTask
      /\ now \in Int /\ RunTime \in Nat /\ Period[t] \in Int /\ Period[t] > 0
  <2>1. Tasks[1] # NoTask
    BY <1>1, <1>2, SchedulerAssumption
  <2>2. QED
    BY <1>2, <2>1, Numbers DEF IInv
<1>4. until' \in Int /\ now <= until' /\ until' <= now + RunTime
  BY <1>1, Numbers DEF Deadline
<1>5. ASSUME NEW i \in DOMAIN Tasks', Tasks'[i].NextRun # EPOCH,
             now >= Tasks'[i].NextRun
      PROVE  InTime(i)'
  <2>1. /\ i + 1 \in DOMAIN Tasks /\ Tasks'[i] = Tasks[i + 1] /\ i \in Nat
        /\ 1 < i + 1 /\ 1 # i + 1
    BY <1>2
  <2>2. Tasks[i + 1].NextRun \in Int
    BY <2>1, Numbers
  <2>3. t # Tasks[i + 1].Task
    BY <1>2, <2>1 DEF IInv, Distinct
  <2>4. t \in Ahead(i + 1)
    BY <1>2, <1>3, <2>1, <2>3 DEF Ahead
  <2>5. Ahead(i)' \subseteq Ahead(i + 1) \ {t}
    <3> SUFFICES ASSUME NEW u \in TaskIds \ {Tasks[i + 1].Task}, u \in Ahead(i)'
                 PROVE  u \in Ahead(i + 1) /\ u # t
      BY <2>1 DEF Ahead
    <3>1. \/ u \notin added
          \/ \E j \in DOMAIN Tasks' :
               /\ Tasks'[j].Task = u
               /\ j < i \/ Tasks'[j].NextRun <= Tasks'[i].NextRun
          \/ t = u /\ iteration + Period[t] <= Tasks'[i].NextRun
      BY <1>1, <1>2 DEF Ahead, NextRunOf
    <3>2. CASE u \notin added
      BY <1>3, <3>2 DEF Ahead
    <3>3. CASE \E j \in DOMAIN Tasks' :
                 /\ Tasks'[j].Task = u
                 /\ j < i \/ Tasks'[j].NextRun <= Tasks'[i].NextRun
      <4>1. PICK j \in DOMAIN Tasks' :
                 /\ Tasks'[j].Task = u
                 /\ j < i \/ Tasks'[j].NextRun <= Tasks'[i].NextRun
        BY <3>3
      <4>2. /\ j + 1 \in DOMAIN Tasks /\ Tasks'[j] = Tasks[j + 1] /\ j \in Nat
            /\ j + 1 # 1
            /\ j < i => j + 1 < i + 1
        BY <1>2, <2>1, <4>1
      <4>3. u # t
        BY <1>2, <4>1, <4>2 DEF IInv, Distinct
      <4>4. QED
        BY <2>1, <4>1, <4>2, <4>3 DEF Ahead
    <3>4. ~(iteration + Period[t] <= Tasks'[i].NextRun)
      BY <1>1, <1>3, <1>5, <2>2, <2>1
    <3>5. QED
      BY <3>1, <3>2, <3>3, <3>4
  <2> DEFINE before == Cardinality(Ahead(i + 1)) * RunTime
             after == Cardinality(Ahead(i)') * RunTime
  <2>6. Ahead(i + 1) \in SUBSET TaskIds /\ Ahead(i)' # Ahead(i + 1)
    BY <2>4, <2>5 DEF Ahead
  <2>7. before \in Int /\ after \in Int /\ after + RunTime <= before
        /\ Cardinality(TaskIds) * RunTime \in Int
    BY <2>5, <2>6, FewerRuns, OneMoreRun
  <2>8. Rest = 0
    BY <1>1 DEF Rest
  <2>9. now + 0 + before
          <= Tasks[i + 1].NextRun + Cardinality(TaskIds) * RunTime
    BY <1>1, <1>5, <2>2, <2>1, <2>8 DEF TimeInv, InTime
  <2> HIDE DEF before, after
  <2>10. now + (until' - now) + after
          <= Tasks'[i].NextRun + Cardinality(TaskIds) * RunTime
    BY <1>3, <1>4, <2>2, <2>1, <2>7, <2>9
  <2>11. Rest' = until' - now
    BY <1>1 DEF Rest
  <2>12. QED
    BY <1>1, <2>10, <2>11 DEF InTime, after
<1>6. \A i \in DOMAIN Tasks' : InTime(i)'
  BY <1>1, <1>5 DEF InTime
<1>7. /\ iteration' <= now' /\ now' <= until' /\ until' <= iteration' + RunTime
      /\ pc' = "run"
  BY <1>1, <1>3, <1>4
<1>8. QED
  BY <1>6, <1>7 DEF TimeInv

\* Sorting puts ahead of a task only what is due no later; the thread will
\* sleep until the first of them is due.
LEMMA SortInTime ==
  ASSUME IInv, TimeInv, LookLater
  PROVE  TimeInv'
<1>1. /\ Tasks \in Seq(Description) /\ Tasks # << >> /\ running = NoTask
      /\ Tasks' = StableSort(Tasks) /\ pc = "look" /\ pc' = "goSleepUntil"
      /\ until' = Deadline(Head(Tasks').NextRun)
      /\ UNCHANGED <<now, iteration, running, added>>
  BY DEF LookLater, IInv, TypeOK
<1>2. /\ Tasks' \in Seq(Description) /\ DOMAIN Tasks' = DOMAIN Tasks
      /\ \A k \in DOMAIN Tasks' : \E i \in DOMAIN Tasks : Tasks'[k] = Tasks[i]
      /\ \A i, j \in DOMAIN Tasks' : i < j => Tasks'[i].NextRun <= Tasks'[j].NextRun
  BY <1>1, SortKeeps
<1>3. \A k \in DOMAIN Tasks' : /\ k \in Nat /\ Tasks'[k].NextRun \in Int
                               /\ k = 1 \/ 1 < k
  BY <1>2, Numbers
<1>4. Tasks' # << >>
  BY <1>1, <1>2
<1>5. 1 \in DOMAIN Tasks' /\ Head(Tasks') = Tasks'[1]
  BY <1>2, <1>4, PopSeq
<1>6. \A i \in DOMAIN Tasks' : Tasks'[1].NextRun <= Tasks'[i].NextRun
  BY <1>2, <1>3, <1>5
<1>7. \A i \in DOMAIN Tasks' : until' <= Tasks'[i].NextRun
  BY <1>1, <1>3, <1>5, <1>6, Numbers DEF Deadline
<1>8. Rest \in Int /\ Rest' = Rest
  BY <1>1 DEF Rest
<1>9. ASSUME NEW i \in DOMAIN Tasks'
      PROVE  InTime(i)'
  <2>1. PICK j \in DOMAIN Tasks : Tasks'[i] = Tasks[j]
    BY <1>2
  <2>2. Ahead(i)' \subseteq Ahead(j)
    <3> SUFFICES ASSUME NEW u \in TaskIds \ {Tasks[j].Task}, u \in Ahead(i)',
                        u \in added
                 PROVE  u \in Ahead(j)
      BY <1>1, <2>1 DEF Ahead
    <3>1. \E k \in DOMAIN Tasks' :
            /\ Tasks'[k].Task = u
            /\ k < i \/ Tasks'[k].NextRun <= Tasks'[i].NextRun
      BY <1>1 DEF Ahead
    <3>2. PICK k \in DOMAIN Tasks' :
            /\ Tasks'[k].Task = u
            /\ Tasks'[k].NextRun <= Tasks'[i].NextRun
      BY <1>2, <3>1
    <3>3. PICK l \in DOMAIN Tasks : Tasks'[k] = Tasks[l]
      BY <1>2
    <3>4. Tasks[l].Task = u /\ Tasks[l].NextRun <= Tasks[j].NextRun
      BY <2>1, <3>2, <3>3
    <3>5. QED
      BY <3>4 DEF Ahead
  <2>3. InTime(j)
    BY <1>1 DEF TimeInv
  <2>4. QED
    BY <1>1, <1>8, <2>1, <2>2, <2>3, StaysInTime
<1>10. QED
  BY <1>1, <1>7, <1>9 DEF TimeInv

\* A task that was run is due a period after it was begun, and late by no more
\* than its own run; it is ahead of another only if it will be due no later.
LEMMA RunInTime ==
  ASSUME IInv, TimeInv, RunDone
  PROVE  TimeInv'
<1> DEFINE d == [NextRun |-> NextRunOf(running), Task |-> running.Task]
<1>1. /\ pc = "run" /\ pc' = "top" /\ running # NoTask /\ running' = NoTask
      /\ Tasks \in Seq(Description) /\ Tasks' = Append(Tasks, d)
      /\ UNCHANGED <<now, iteration, added>>
      /\ iteration <= now /\ now <= until /\ until <= iteration + RunTime
      /\ running.Task \in TaskIds
  BY Numbers DEF RunDone, IInv, TypeOK, TimeInv
<1>2. /\ now \in Int /\ iteration \in Nat /\ until \in Int /\ RunTime \in Nat
      /\ Period[running.Task] \in Nat
      /\ \A i \in DOMAIN Tasks : i \in Nat
  BY <1>1, Numbers
<1>3. /\ d \in Description /\ d.Task = running.Task
      /\ d.NextRun = NextRunOf(running)
      /\ d.NextRun = iteration + Period[running.Task]
  BY <1>1, <1>2 DEF Description, NextRunOf
<1> HIDE DEF d
<1>4. /\ Tasks'[Len(Tasks) + 1] = d /\ Len(Tasks) \in Nat
      /\ DOMAIN Tasks = 1 .. Len(Tasks)
      /\ Len(Tasks) + 1 \in DOMAIN Tasks'
      /\ \A i \in DOMAIN Tasks : i \in DOMAIN Tasks' /\ Tasks'[i] = Tasks[i]
      /\ \A i \in DOMAIN Tasks' : i = Len(Tasks) + 1 \/ i \in DOMAIN Tasks
  BY <1>1, <1>3, Behind
<1>5. ASSUME NEW i \in DOMAIN Tasks
      PROVE  InTime(i)'
  <2>1. Tasks'[i] = Tasks[i] /\ ~(Len(Tasks) + 1 < i) /\ i \in Nat
    BY <1>4
  <2>2. Ahead(i)' \subseteq Ahead(i)
    <3> SUFFICES ASSUME NEW u \in TaskIds \ {Tasks[i].Task}, u \in Ahead(i)',
                        u \in added
                 PROVE  u \in Ahead(i)
      BY <1>1, <2>1 DEF Ahead
    <3>1. PICK k \in DOMAIN Tasks' :
            /\ Tasks'[k].Task = u
            /\ k < i \/ Tasks'[k].NextRun <= Tasks[i].NextRun
      BY <1>1, <2>1 DEF Ahead
    <3>2. CASE k \in DOMAIN Tasks
      BY <1>4, <3>1, <3>2 DEF Ahead
    <3>3. CASE k = Len(Tasks) + 1
      BY <1>1, <1>3, <1>4, <2>1, <3>1, <3>3 DEF Ahead
    <3>4. QED
      BY <1>4, <3>2, <3>3
  <2> DEFINE before == Cardinality(Ahead(i)) * RunTime
             after == Cardinality(Ahead(i)') * RunTime
  <2>3. Ahead(i) \in SUBSET TaskIds
    BY DEF Ahead
  <2>4. before \in Int /\ after \in Int /\ after <= before
        /\ Cardinality(TaskIds) * RunTime \in Int /\ Tasks[i].NextRun \in Int
    BY <2>2, <2>3, FewerRuns, OneMoreRun, Numbers
  <2>5. Tasks[i].NextRun # EPOCH /\ now >= Tasks[i].NextRun =>
          now + (until - now) + before
            <= Tasks[i].NextRun + Cardinality(TaskIds) * RunTime
    BY <1>1 DEF TimeInv, InTime, Rest
  <2> HIDE DEF before, after
  <2>6. Tasks[i].NextRun # EPOCH /\ now >= Tasks[i].NextRun =>
          now + 0 + after
            <= Tasks[i].NextRun + Cardinality(TaskIds) * RunTime
    BY <1>1, <1>2, <2>4, <2>5
  <2>7. Rest' = 0
    BY <1>1 DEF Rest
  <2>8. QED
    BY <1>1, <2>1, <2>6, <2>7 DEF InTime, after
<1>6. ASSUME NEW i \in DOMAIN Tasks', i = Len(Tasks) + 1
      PROVE  InTime(i)'
  <2> DEFINE after == Cardinality(Ahead(i)') * RunTime
  <2>1. Tasks'[i] = d /\ Tasks'[i].Task = running.Task
    BY <1>3, <1>4, <1>6
  <2>2. Ahead(i)' \in SUBSET (TaskIds \ {running.Task})
    BY <2>1 DEF Ahead
  <2>3. after \in Int /\ Cardinality(TaskIds) * RunTime \in Int
        /\ after + RunTime <= Cardinality(TaskIds) * RunTime
    BY <1>1, <2>2, OneMoreRun
  <2> HIDE DEF after
  <2>4. now + 0 + after
          <= iteration + Period[running.Task] + Cardinality(TaskIds) * RunTime
    BY <1>1, <1>2, <2>3
  <2>5. Rest' = 0 /\ now' = now /\ Tasks'[i].NextRun = iteration + Period[running.Task]
    BY <1>1, <1>3, <2>1 DEF Rest
  <2>6. QED
    BY <2>4, <2>5 DEF InTime, after
<1>7. \A i \in DOMAIN Tasks' : InTime(i)'
  BY <1>4, <1>5, <1>6
<1>8. QED
  BY <1>1, <1>7 DEF TimeInv

\* Time passes only while the thread sleeps, which ends when the first task is
\* due, or while a task runs.
LEMMA TickInTime ==
  ASSUME Urgent, IInv, TimeInv, Tick
  PROVE  TimeInv'
<1>1. /\ now' = now + 1 /\ Idle
      /\ UNCHANGED <<Tasks, pc, iteration, running, until, added>>
      /\ now \in Nat /\ until \in Nat /\ iteration \in Nat /\ RunTime \in Nat
  BY Numbers DEF Tick
<1>2. ASSUME NEW i \in DOMAIN Tasks, pc # "stopped"
      PROVE  InTime(i)'
  <2> DEFINE ahead == Cardinality(Ahead(i)) * RunTime
             all == Cardinality(TaskIds) * RunTime
             next == Tasks[i].NextRun
  <2>1. Ahead(i)' = Ahead(i)
    BY <1>1 DEF Ahead, NextRunOf
  <2>2. Tasks[i].Task \in TaskIds /\ Ahead(i) \in SUBSET (TaskIds \ {Tasks[i].Task})
    BY Numbers DEF Ahead
  <2>3. ahead \in Int /\ all \in Int /\ ahead + RunTime <= all /\ next \in Nat
    BY <2>2, OneMoreRun, Numbers
  <2>4. next # EPOCH /\ now >= next => now + Rest + ahead <= next + all
    BY <1>2 DEF TimeInv, InTime
  <2>5. /\ Tasks'[i].NextRun = next /\ UNCHANGED <<pc, until>>
        /\ Cardinality(Ahead(i)') * RunTime = ahead
    BY <1>1, <2>1
  <2> HIDE DEF ahead, all, next
  <2>6. CASE pc = "sleep"
    BY <1>1, <1>2, <2>5, <2>6 DEF TimeInv, InTime, next
  <2>7. CASE pc = "sleepUntil"
    <3>1. next = EPOCH \/ now + 1 <= next
      <4>1. next = EPOCH \/ until <= next
        BY <2>7 DEF TimeInv, next
      <4>2. now < until
        BY <1>1, <2>7 DEF Idle
      <4>3. QED
        BY <1>1, <2>3, <4>1, <4>2
    <3>2. next # EPOCH /\ now + 1 >= next => (now + 1) + 0 + ahead <= next + all
      BY <1>1, <2>3, <3>1
    <3>3. Rest' = 0
      BY <2>5, <2>7 DEF Rest
    <3>4. QED
      BY <1>1, <2>5, <3>2, <3>3 DEF InTime, all
  <2>8. CASE pc = "run"
    <3>1. now < until /\ iteration <= now /\ until <= iteration + RunTime
      BY <1>1, <2>8 DEF Idle, TimeInv
    <3>2. Rest = until - now /\ Rest' = until - (now + 1)
      BY <1>1, <2>8 DEF Rest
    <3>3. next # EPOCH /\ now >= next => now + (until - now) + ahead <= next + all
      BY <2>4, <3>2
    <3>4. next # EPOCH /\ now + 1 >= next =>
            (now + 1) + (until - (now + 1)) + ahead <= next + all
      BY <1>1, <2>3, <3>1, <3>3
    <3>5. QED
      BY <1>1, <2>5, <3>2, <3>4 DEF InTime, all
  <2>9. QED
    BY <1>1, <1>2, <2>6, <2>7, <2>8 DEF Idle
<1>3. pc # "look"
  BY <1>1 DEF Idle
<1>4. pc = "run" => iteration <= now + 1 /\ now + 1 <= until
  BY <1>1 DEF Idle, TimeInv
<1>5. QED
  BY <1>1, <1>2, <1>3, <1>4 DEF TimeInv

\* The other steps of the thread and its owner take no time and leave the list.
LEMMA OtherInTime ==
  ASSUME IInv, TimeInv,
         \/ Disable \/ NotifyStop \/ BeginIteration \/ LookEmpty \/ FallAsleep
         \/ Wake \/ WakeSpuriously \/ UNCHANGED vars
  PROVE  TimeInv'
<1>1. /\ UNCHANGED <<now, Tasks, running, added>>
      /\ pc' = "run" <=> pc = "run"
      /\ running # NoTask => UNCHANGED <<iteration, until>>
      /\ pc' # "stopped" => pc # "stopped"
  BY DEF IInv, Disable, NotifyStop, BeginIteration, LookEmpty, FallAsleep, Wake,
         SleepOver, Asleep, WakeSpuriously, vars
<1>2. Rest \in Int /\ Rest' = Rest
  BY <1>1, Numbers DEF Rest, IInv
<1>3. ASSUME NEW i \in DOMAIN Tasks, pc # "stopped"
      PROVE  InTime(i)'
  <2>1. Ahead(i)' = Ahead(i)
    BY <1>1 DEF Ahead, NextRunOf
  <2>2. QED
    BY <1>1, <1>2, <1>3, <2>1, StaysInTime DEF TimeInv
<1>4. /\ pc' = "look" => iteration' = now
      /\ pc' = "run" => UNCHANGED <<iteration, until>>
      /\ pc' \in {"goSleep", "sleep"} => pc \in {"goSleep", "sleep"} \/ Tasks = << >>
      /\ pc' \in {"goSleepUntil", "sleepUntil"} =>
           pc \in {"goSleepUntil", "sleepUntil"} /\ until' = until
  BY <1>1
     DEF TimeInv, IInv, Disable, NotifyStop, BeginIteration, LookEmpty,
         FallAsleep, Wake, SleepOver, Asleep, WakeSpuriously, vars
<1>5. Tasks = << >> => DOMAIN Tasks = {}
  OBVIOUS
<1>6. QED
  BY <1>1, <1>3, <1>4, <1>5 DEF TimeInv

\* A task that has been run is run again in time, for any number of tasks, any
\* periods and run times, although the list is sorted only before a sleep and
\* others are added in front of it (MakeIteration, AddTask).
THEOREM TasksOnTime == ASSUME Urgent PROVE Spec => []OnTime
<1>1. Init => TimeInv
  <2>1. DOMAIN << >> = {}
    OBVIOUS
  <2>2. QED
    BY <2>1 DEF Init, TimeInv
<1>2. IInv /\ TimeInv /\ [Next]_vars => TimeInv'
  BY AddInTime, DueInTime, SortInTime, RunInTime, TickInTime, OtherInTime
     DEF Next, Owner, Thread
<1>3. IInv /\ TimeInv => OnTime
  <2> SUFFICES ASSUME IInv, TimeInv, pc # "stopped", NEW i \in DOMAIN Tasks,
                      Tasks[i].NextRun # EPOCH
               PROVE  now <= Tasks[i].NextRun + Cardinality(TaskIds) * RunTime
    BY DEF OnTime
  <2> DEFINE ahead == Cardinality(Ahead(i)) * RunTime
             all == Cardinality(TaskIds) * RunTime
  <2>1. Tasks[i].Task \in TaskIds /\ Ahead(i) \in SUBSET (TaskIds \ {Tasks[i].Task})
    BY Numbers DEF Ahead
  <2>2. ahead \in Nat /\ all \in Nat /\ now \in Nat /\ Tasks[i].NextRun \in Nat
    BY <2>1, OneMoreRun, Numbers
  <2>3. Rest \in Nat
    BY Numbers DEF Rest, TimeInv
  <2>4. now >= Tasks[i].NextRun => now + Rest + ahead <= Tasks[i].NextRun + all
    BY DEF TimeInv, InTime
  <2> HIDE DEF ahead, all
  <2>5. now <= Tasks[i].NextRun + all
    BY <2>2, <2>3, <2>4
  <2>6. QED
    BY <2>5 DEF all
<1>4. QED
  BY Inductive, <1>1, <1>2, <1>3, PTL DEF Spec
=============================================================================
