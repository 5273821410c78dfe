--------------------------- MODULE CalendarProofs ---------------------------
(***************************************************************************)
(* The tasks of a day and its markers, for every number of tasks, rows and *)
(* dialogs.                                                                *)
(***************************************************************************)
EXTENDS Calendar, WellFoundedInduction, SequenceTheorems, TLAPS

LEMMA LeastIndex ==
  ASSUME NEW I, I \subseteq Nat, I # {}
  PROVE  Min(I) \in I /\ \A j \in I : Min(I) <= j
<1> DEFINE Less == {ss \in Nat \X Nat : ss[1] < ss[2]}
<1>1. PICK k \in I : \A j \in I : <<j, k>> \notin Less
  <2>1. IsWellFoundedOn(Less, Nat)
    BY NatLessThanWellFounded DEF OpToRel
  <2> HIDE DEF Less
  <2>2. QED
    BY <2>1, WFMin
<1>2. \A j \in I : k <= j
  <2> SUFFICES ASSUME NEW j \in I PROVE k <= j
    OBVIOUS
  <2>1. ~(j < k)
    BY <1>1
  <2>2. QED
    BY <2>1
<1>3. QED
  BY <1>2 DEF Min

LEMMA RemoveAtType ==
  ASSUME NEW S, NEW s \in Seq(S), NEW i \in 1 .. Len(s)
  PROVE  /\ RemoveAt(s, i) \in Seq(S)
         /\ Len(RemoveAt(s, i)) = Len(s) - 1
         /\ ToSet(RemoveAt(s, i)) \subseteq ToSet(s)
         /\ ToSet(s) \ ToSet(RemoveAt(s, i)) \subseteq {s[i]}
<1> DEFINE r == RemoveAt(s, i)
<1> DEFINE before == SubSeq(s, 1, i - 1)
           after == SubSeq(s, i + 1, Len(s))
<1>a. /\ before \in Seq(S) /\ Len(before) = i - 1
      /\ \A j \in 1 .. i - 1 : before[j] = s[j]
  OBVIOUS
<1>b. /\ after \in Seq(S) /\ Len(after) = Len(s) - i
      /\ \A j \in 1 .. Len(s) - i : after[j] = s[j + i]
  OBVIOUS
<1>c. r = before \o after
  BY DEF RemoveAt
<1> HIDE DEF before, after, r
<1>1. r \in Seq(S) /\ Len(r) = Len(s) - 1
  <2>1. r \in Seq(S) /\ Len(r) = Len(before) + Len(after)
    BY <1>a, <1>b, <1>c, ConcatProperties
  <2>2. Len(s) \in Nat
    OBVIOUS
  <2>3. QED
    BY <1>a, <1>b, <2>1, <2>2
<1>2. \A j \in 1 .. Len(r) : r[j] = IF j < i THEN s[j] ELSE s[j + 1]
  <2> SUFFICES ASSUME NEW j \in 1 .. Len(r)
               PROVE  r[j] = IF j < i THEN s[j] ELSE s[j + 1]
    OBVIOUS
  <2>1. r[j] = IF j <= Len(before) THEN before[j] ELSE after[j - Len(before)]
    BY <1>1, <1>a, <1>b, <1>c, ConcatProperties
  <2>2. CASE j < i
    BY <2>1, <2>2, <1>a
  <2>3. CASE j >= i
    <3>1. r[j] = after[j - (i - 1)] /\ j - (i - 1) \in 1 .. Len(s) - i
      BY <2>1, <2>3, <1>a, <1>1
    <3>2. QED
      BY <3>1, <2>3, <1>b
  <2>4. QED
    BY <2>2, <2>3
<1>3. ToSet(r) \subseteq ToSet(s)
  BY <1>1, <1>2 DEF ToSet
<1>4. \A j \in 1 .. Len(s) : j # i => s[j] \in ToSet(r)
  <2> SUFFICES ASSUME NEW j \in 1 .. Len(s), j # i PROVE s[j] \in ToSet(r)
    OBVIOUS
  <2>1. CASE j < i
    BY <1>1, <1>2, <2>1 DEF ToSet
  <2>2. CASE j > i
    <3>1. j - 1 \in 1 .. Len(r) /\ r[j - 1] = s[j]
      BY <1>1, <1>2, <2>2
    <3>2. QED
      BY <1>1, <3>1 DEF ToSet
  <2>3. QED
    BY <2>1, <2>2
<1>5. ToSet(s) \ ToSet(r) \subseteq {s[i]}
  BY <1>4 DEF ToSet
<1>6. QED
  BY <1>1, <1>3, <1>5 DEF r

LEMMA MarkerGoes ==
  ASSUME NEW S, NEW s \in Seq(S), NEW i \in 1 .. Len(s)
  PROVE  /\ MarkerGone(s, s[i]) \in Seq(S)
         /\ Len(MarkerGone(s, s[i])) = Len(s) - 1
<1> DEFINE I == {j \in 1 .. Len(s) : s[j] = s[i]}
<1>1. Min(I) \in 1 .. Len(s)
  <2>1. I \subseteq Nat /\ i \in I
    OBVIOUS
  <2>2. Min(I) \in I
    BY <2>1, LeastIndex
  <2>3. QED
    BY <2>2
<1>2. MarkerGone(s, s[i]) = RemoveAt(s, Min(I))
  BY <1>1 DEF MarkerGone, SelectInSeq
<1>3. QED
  BY <1>1, <1>2, RemoveAtType

LEMMA FrontType ==
  ASSUME NEW S, NEW s \in Seq(S), s # <<>>
  PROVE  /\ Front(s) \in Seq(S)
         /\ Len(Front(s)) = Len(s) - 1
         /\ \A k \in 1 .. Len(s) - 1 : Front(s)[k] = s[k]
<1>1. Len(s) \in Nat \ {0} /\ \A k \in 1 .. Len(s) - 1 : s[k] \in S
  OBVIOUS
<1>2. PICK m \in Nat : Len(s) = m + 1 /\ Front(s) = SubSeq(s, 1, m)
  <2>1. Len(s) - 1 \in Nat /\ Len(s) = (Len(s) - 1) + 1
    BY <1>1
  <2>2. QED
    BY <2>1 DEF Front
<1>3. /\ SubSeq(s, 1, m) \in Seq(S)
      /\ Len(SubSeq(s, 1, m)) = IF 1 <= m THEN m - 1 + 1 ELSE 0
      /\ \A k \in 1 .. m - 1 + 1 : SubSeq(s, 1, m)[k] = s[1 + k - 1]
  BY <1>1, <1>2, SubSeqProperties
<1>4. Len(SubSeq(s, 1, m)) = m
  BY <1>3
<1>5. \A k \in 1 .. m : SubSeq(s, 1, m)[k] = s[k]
  BY <1>3
<1>6. m = Len(s) - 1
  BY <1>2
<1>7. QED
  BY <1>2, <1>3, <1>4, <1>5, <1>6
-----------------------------------------------------------------------------
(* A day's list in a map.                                                  *)

\* What TypeOK says of each of the two maps.
IsMap(map, S) ==
    DOMAIN map \subseteq Days /\ \A d \in DOMAIN map : map[d] \in Seq(S)

LEMMA ListOfType ==
  ASSUME NEW S, NEW map, IsMap(map, S), NEW d
  PROVE  ListOf(map, d) \in Seq(S)
BY DEF IsMap, ListOf

LEMMA ListOfUpdate ==
  ASSUME NEW map, NEW d, NEW s, NEW new, new = Put(map, d, s)
  PROVE  \A e : ListOf(new, e) = IF e = d THEN s ELSE ListOf(map, e)
BY DEF ListOf, Put

LEMMA UpdateType ==
  ASSUME NEW S, NEW map, IsMap(map, S), NEW d \in Days, NEW s \in Seq(S)
  PROVE  IsMap(Put(map, d, s), S)
BY DEF IsMap, Put

LEMMA EmptyMap ==
  ASSUME NEW S
  PROVE  IsMap(<<>>, S) /\ \A d : ListOf(<<>>, d) = <<>>
<1>1. DOMAIN <<>> = {}
  OBVIOUS
<1>2. QED
  BY <1>1 DEF IsMap, ListOf

\* What Append does to a day's list.
LEMMA AppendAdds ==
  ASSUME NEW S, NEW s \in Seq(S), NEW x \in S
  PROVE  /\ Append(s, x) \in Seq(S)
         /\ Len(Append(s, x)) = Len(s) + 1
         /\ ToSet(Append(s, x)) = ToSet(s) \cup {x}
<1>1. /\ Append(s, x) \in Seq(S) /\ Len(Append(s, x)) = Len(s) + 1
      /\ \A j \in 1 .. Len(s) : Append(s, x)[j] = s[j]
      /\ Append(s, x)[Len(s) + 1] = x
  BY AppendProperties
<1>2. QED
  BY <1>1 DEF ToSet
-----------------------------------------------------------------------------
(* The inductive invariant.                                                *)

\* Until a dialog above has taken off a task, each dialog has the position of the
\* task that was held.
DialogsFit ==
    /\ adding => dialogs = <<>>
    /\ dialogs = <<>> => ~slipped
    /\ ~slipped => \A k \in DOMAIN dialogs :
           /\ dialogs[k].index <= Len(ListOf(tasks, today))
           /\ ListOf(tasks, today)[dialogs[k].index].n = dialogs[k].n

DialogRecord == [index : 1 .. Rows, n : Nat]

IInv == TypeOK /\ MarkersMatchTasks /\ EveryTaskHasATime /\ DialogsFit

LEMMA IInit == Init => IInv
<1> SUFFICES ASSUME Init PROVE IInv
  OBVIOUS
<1>1. TypeOK
  <2>1. DOMAIN <<>> = {} /\ <<>> \in Seq(DialogRecord)
    OBVIOUS
  <2>2. 0 \in Days /\ 0 \in 0 .. MaxTasks
    BY CalendarAssumption DEF Days
  <2>3. QED
    BY <2>1, <2>2 DEF Init, TypeOK, DialogRecord
<1>2. MarkersMatchTasks /\ EveryTaskHasATime
  BY EmptyMap DEF Init, MarkersMatchTasks, EveryTaskHasATime, TasksOf, ToSet
<1>3. DialogsFit
  BY DEF Init, DialogsFit
<1>4. QED
  BY <1>1, <1>2, <1>3 DEF IInv

\* The steps that touch neither map.
LEMMA MapsKept ==
  ASSUME IInv, tasks' = tasks, markers' = markers
  PROVE  /\ MarkersMatchTasks' /\ EveryTaskHasATime'
         /\ \A d \in Days : TasksOf(d)' = TasksOf(d)
BY DEF IInv, MarkersMatchTasks, EveryTaskHasATime, TasksOf

LEMMA MoveKeeps ==
  ASSUME IInv, Next, ~ \E text \in Texts : Submit(text), ~MarkDone, ~LeaveTab,
         ~Cancel, ~ \E i \in 1 .. Rows : Hold(i)
  PROVE  IInv' /\ \A d \in Days : TasksOf(d)' = TasksOf(d)
<1>1. CASE (\E d \in 0 .. Span : Press(d)) \/ Prev \/ Next30
  <2>1. /\ OnPage /\ today' \in Days
        /\ UNCHANGED <<tasks, markers, time, adding, dialogs, added, slipped>>
    BY <1>1, CalendarAssumption DEF Press, Prev, Next30, Selects, Days, IInv, TypeOK
  <2>2. TypeOK' /\ DialogsFit'
    BY <2>1 DEF IInv, TypeOK, DialogsFit, OnPage
  <2>3. QED
    BY <2>1, <2>2, MapsKept DEF IInv
<1>2. CASE OpenAdd \/ LeaveAdd \/ \E t \in Times \cup {Cancelled} : PickTime(t)
  <2>1. /\ adding' \in BOOLEAN /\ time' \in Times \cup {Null, Cancelled}
        /\ adding' => dialogs = <<>>
        /\ UNCHANGED <<today, tasks, markers, dialogs, added, slipped>>
    BY <1>2 DEF OpenAdd, LeaveAdd, PickTime, OnPage, IInv, TypeOK, DialogsFit
  <2>2. TypeOK' /\ DialogsFit'
    BY <2>1 DEF IInv, TypeOK, DialogsFit
  <2>3. QED
    BY <2>1, <2>2, MapsKept DEF IInv
<1>3. QED
  BY <1>1, <1>2 DEF Next

LEMMA HoldKeeps ==
  ASSUME IInv, NEW i \in 1 .. Rows, Hold(i)
  PROVE  IInv' /\ \A d \in Days : TasksOf(d)' = TasksOf(d)
<1> DEFINE x == [index |-> i, n |-> tasks[today][i].n]
<1>1. /\ tasks' = tasks /\ markers' = markers /\ today' = today
      /\ slipped' = slipped /\ ~slipped /\ ~adding' /\ dialogs' = Append(dialogs, x)
      /\ UNCHANGED <<time, adding, added>>
  BY DEF Hold
<1>2. ListOf(tasks, today) = tasks[today] /\ today \in DOMAIN tasks
  BY DEF Hold, ListOf
<1>3. tasks[today] \in Seq(Task) /\ i \in 1 .. Len(tasks[today])
  BY <1>2 DEF Hold, IInv, TypeOK
<1>4. x \in DialogRecord
  <2>1. tasks[today][i] \in Task
    BY <1>3
  <2>2. QED
    BY <2>1 DEF Task, DialogRecord
<1>5. dialogs \in Seq(DialogRecord)
  BY DEF IInv, TypeOK, DialogRecord
<1> HIDE DEF x
<1>6. /\ dialogs' \in Seq(DialogRecord) /\ dialogs' # <<>>
      /\ \A k \in DOMAIN dialogs' : dialogs'[k] = x \/ (k \in DOMAIN dialogs /\ dialogs'[k] = dialogs[k])
  BY <1>1, <1>4, <1>5, AppendProperties
<1>7. TypeOK'
  BY <1>1, <1>6 DEF IInv, TypeOK, DialogRecord
<1>8. x.index <= Len(ListOf(tasks, today)) /\ ListOf(tasks, today)[x.index].n = x.n
  BY <1>2, <1>3 DEF x
<1>9. DialogsFit'
  BY <1>1, <1>6, <1>8 DEF IInv, DialogsFit
<1>10. QED
  BY <1>1, <1>7, <1>9, MapsKept DEF IInv

\* The dialogs that are left when the top one is popped.
LEMMA PopsTop ==
  ASSUME IInv, dialogs # <<>>, dialogs' = Front(dialogs)
  PROVE  /\ dialogs' \in Seq(DialogRecord)
         /\ Last(dialogs) \in DialogRecord
         /\ Len(dialogs) \in DOMAIN dialogs /\ Last(dialogs) = dialogs[Len(dialogs)]
         /\ dialogs' = <<>> <=> Len(dialogs) <= 1
         /\ \A k \in DOMAIN dialogs' : k \in DOMAIN dialogs /\ dialogs'[k] = dialogs[k]
<1>1. dialogs \in Seq(DialogRecord)
  BY DEF IInv, TypeOK, DialogRecord
<1>2. Len(dialogs) \in Nat \ {0}
  BY <1>1
<1>3. /\ Front(dialogs) \in Seq(DialogRecord) /\ Len(Front(dialogs)) = Len(dialogs) - 1
      /\ \A k \in 1 .. Len(dialogs) - 1 : Front(dialogs)[k] = dialogs[k]
  BY <1>1, FrontType
<1>4. QED
  BY <1>1, <1>2, <1>3 DEF Last

LEMMA CancelKeeps ==
  ASSUME IInv, Cancel
  PROVE  IInv' /\ \A d \in Days : TasksOf(d)' = TasksOf(d)
<1>1. /\ dialogs # <<>> /\ dialogs' = Front(dialogs)
      /\ slipped' = (slipped /\ Len(dialogs) > 1)
      /\ UNCHANGED <<today, tasks, markers, time, adding, added>>
  BY DEF Cancel
<1>2. dialogs \in Seq(DialogRecord)
  BY DEF IInv, TypeOK, DialogRecord
<1>3. TypeOK'
  BY <1>1, PopsTop DEF IInv, TypeOK, DialogRecord
<1>4. CASE dialogs' = <<>>
  <2>1. DOMAIN dialogs' = {} /\ ~(Len(dialogs) > 1)
    BY <1>1, <1>2, <1>4, PopsTop
  <2>2. ~slipped'
    BY <1>1, <2>1
  <2>3. QED
    BY <1>1, <1>3, <1>4, <2>1, <2>2, MapsKept DEF IInv, DialogsFit
<1>5. CASE dialogs' # <<>>
  <2>1. slipped' = slipped
    BY <1>1, <1>2, <1>5, PopsTop DEF IInv, TypeOK
  <2>2. DialogsFit'
    BY <1>1, <1>5, <2>1, PopsTop DEF IInv, DialogsFit
  <2>3. QED
    BY <1>1, <1>3, <2>2, MapsKept DEF IInv
<1>6. QED
  BY <1>4, <1>5

LEMMA SubmitKeeps ==
  ASSUME IInv, NEW text \in Texts, Submit(text)
  PROVE  IInv' /\ \A d \in Days : TasksOf(d) \subseteq TasksOf(d)'
<1> DEFINE title == [time |-> time, text |-> text]
           task == [n |-> added, title |-> title]
<1>1. /\ tasks' = Put(tasks, today, Append(ListOf(tasks, today), task))
      /\ markers' = Put(markers, today, Append(ListOf(markers, today), title))
      /\ added < MaxTasks /\ added' = added + 1
      /\ adding /\ adding' = FALSE /\ UNCHANGED <<today, time, dialogs, slipped>>
  BY DEF Submit, With
<1>2. title \in Title /\ task \in Task /\ task.title.time \in Times
  BY DEF Submit, HasTime, IInv, TypeOK, Title, Task
<1> HIDE DEF title, task
<1>3. IsMap(tasks, Task) /\ IsMap(markers, Title) /\ today \in Days
  BY DEF IInv, TypeOK, IsMap
<1> DEFINE here == ListOf(tasks, today)
           marks == ListOf(markers, today)
<1>4. here \in Seq(Task) /\ marks \in Seq(Title)
  BY <1>3, ListOfType
<1>5. \A d \in Days :
        /\ ListOf(tasks, d)' = IF d = today THEN Append(here, task) ELSE ListOf(tasks, d)
        /\ ListOf(markers, d)' = IF d = today THEN Append(marks, title) ELSE ListOf(markers, d)
  <2> DEFINE more == Append(here, task)
             moreMarks == Append(marks, title)
  <2>1. tasks' = Put(tasks, today, more) /\ markers' = Put(markers, today, moreMarks)
    BY <1>1
  <2> HIDE DEF more, moreMarks
  <2>2. \A d \in Days : ListOf(tasks', d) = IF d = today THEN more ELSE ListOf(tasks, d)
    BY <2>1, ListOfUpdate
  <2>3. \A d \in Days :
            ListOf(markers', d) = IF d = today THEN moreMarks ELSE ListOf(markers, d)
    BY <2>1, ListOfUpdate
  <2>4. QED
    BY <2>2, <2>3 DEF more, moreMarks
<1>6. /\ Append(here, task) \in Seq(Task) /\ Len(Append(here, task)) = Len(here) + 1
      /\ ToSet(Append(here, task)) = ToSet(here) \cup {task}
      /\ Append(marks, title) \in Seq(Title) /\ Len(Append(marks, title)) = Len(marks) + 1
  BY <1>2, <1>4, AppendAdds
<1>7. TypeOK'
  <2>1. IsMap(tasks', Task) /\ IsMap(markers', Title)
    BY <1>1, <1>3, <1>6, UpdateType
  <2>2. added' \in 0 .. MaxTasks
    BY <1>1, CalendarAssumption DEF IInv, TypeOK
  <2>3. QED
    BY <1>1, <2>1, <2>2 DEF IInv, TypeOK, IsMap
<1> HIDE DEF here, marks
<1>8. \A d \in Days : TasksOf(d)' = IF d = today THEN TasksOf(d) \cup {task} ELSE TasksOf(d)
  BY <1>5, <1>6 DEF TasksOf, here
<1>9. MarkersMatchTasks'
  <2>1. Len(marks) = Len(here)
    BY <1>3 DEF IInv, MarkersMatchTasks, here, marks
  <2>2. QED
    BY <1>5, <1>6, <2>1 DEF IInv, MarkersMatchTasks
<1>10. EveryTaskHasATime'
  BY <1>2, <1>8 DEF IInv, EveryTaskHasATime
<1>11. DialogsFit'
  <2>1. dialogs' = <<>> /\ ~slipped' /\ DOMAIN dialogs' = {}
    BY <1>1 DEF IInv, DialogsFit
  <2>2. QED
    BY <2>1 DEF DialogsFit
<1>12. QED
  BY <1>7, <1>8, <1>9, <1>10, <1>11 DEF IInv

LEMMA MarkDoneKeeps ==
  ASSUME IInv, MarkDone
  PROVE  /\ IInv'
         /\ \A d \in Days : \A t \in TasksOf(d) \ TasksOf(d)' :
               slipped \/ (dialogs # <<>> /\ Last(dialogs).n = t.n)
<1> DEFINE i == Last(dialogs).index
           here == ListOf(tasks, today)
           marks == ListOf(markers, today)
<1>1. /\ dialogs # <<>> /\ dialogs' = Front(dialogs) /\ slipped' = (Len(dialogs) > 1)
      /\ i <= Len(marks) /\ i <= Len(here)
      /\ tasks' = Put(tasks, today, RemoveAt(here, i))
      /\ markers' = Put(markers, today, MarkerGone(marks, marks[i]))
      /\ UNCHANGED <<today, time, adding, added>>
  BY DEF MarkDone, TaskGone
<1>2. IsMap(tasks, Task) /\ IsMap(markers, Title) /\ today \in Days
  BY DEF IInv, TypeOK, IsMap
<1>3. here \in Seq(Task) /\ marks \in Seq(Title)
  BY <1>2, ListOfType
<1>4. i \in 1 .. Len(here) /\ i \in 1 .. Len(marks)
  BY <1>1, <1>3, PopsTop DEF DialogRecord
<1>5. \A d \in Days :
        /\ ListOf(tasks, d)' = IF d = today THEN RemoveAt(here, i) ELSE ListOf(tasks, d)
        /\ ListOf(markers, d)' = IF d = today THEN MarkerGone(marks, marks[i])
                                 ELSE ListOf(markers, d)
  BY <1>1, ListOfUpdate
<1>6. /\ RemoveAt(here, i) \in Seq(Task) /\ Len(RemoveAt(here, i)) = Len(here) - 1
      /\ ToSet(RemoveAt(here, i)) \subseteq ToSet(here)
      /\ ToSet(here) \ ToSet(RemoveAt(here, i)) \subseteq {here[i]}
  BY <1>3, <1>4, RemoveAtType
<1>7. /\ MarkerGone(marks, marks[i]) \in Seq(Title)
      /\ Len(MarkerGone(marks, marks[i])) = Len(marks) - 1
  BY <1>3, <1>4, MarkerGoes
<1>8. TypeOK'
  <2>1. IsMap(tasks', Task) /\ IsMap(markers', Title)
    BY <1>1, <1>2, <1>6, <1>7, UpdateType
  <2>2. dialogs' \in Seq(DialogRecord) /\ slipped' \in BOOLEAN
    BY <1>1, PopsTop
  <2>3. QED
    BY <1>1, <2>1, <2>2 DEF IInv, TypeOK, IsMap, DialogRecord
<1> HIDE DEF here, marks, i
<1>9. \A d \in Days : /\ TasksOf(d)' \subseteq TasksOf(d)
                      /\ TasksOf(d) \ TasksOf(d)' \subseteq IF d = today THEN {here[i]} ELSE {}
  BY <1>5, <1>6 DEF TasksOf, here
<1>10. MarkersMatchTasks'
  <2>1. Len(marks) = Len(here)
    BY <1>2 DEF IInv, MarkersMatchTasks, here, marks
  <2>2. QED
    BY <1>5, <1>6, <1>7, <2>1 DEF IInv, MarkersMatchTasks
<1>11. EveryTaskHasATime'
  BY <1>9 DEF IInv, EveryTaskHasATime
<1>12. DialogsFit'
  <2>1. ~adding /\ ~adding'
    BY <1>1 DEF IInv, DialogsFit
  <2>2. dialogs' = <<>> => ~slipped'
    <3>1. dialogs' = <<>> => Len(dialogs) <= 1
      BY <1>1, PopsTop
    <3>2. dialogs \in Seq(DialogRecord)
      BY DEF IInv, TypeOK, DialogRecord
    <3>3. Len(dialogs) <= 1 => ~(Len(dialogs) > 1)
      BY <3>2
    <3>4. QED
      BY <1>1, <3>1, <3>3
  <2>3. ~slipped' => DOMAIN dialogs' = {}
    <3>1. Len(dialogs) <= 1 => dialogs' = <<>>
      BY <1>1, PopsTop
    <3>2. dialogs \in Seq(DialogRecord) /\ DOMAIN <<>> = {}
      BY DEF IInv, TypeOK, DialogRecord
    <3>3. Len(dialogs) <= 1 \/ Len(dialogs) > 1
      BY <3>2
    <3>4. QED
      BY <1>1, <3>1, <3>2, <3>3
  <2>4. QED
    BY <2>1, <2>2, <2>3 DEF DialogsFit
<1>13. ~slipped => here[i].n = Last(dialogs).n
  BY <1>1, PopsTop DEF IInv, DialogsFit, here, i
<1>14. QED
  BY <1>1, <1>8, <1>9, <1>10, <1>11, <1>12, <1>13 DEF IInv

LEMMA LeaveTabKeeps ==
  ASSUME IInv, LeaveTab
  PROVE  IInv' /\ tasks' = <<>>
<1>1. /\ OnPage /\ today' = 0 /\ tasks' = <<>> /\ markers' = <<>> /\ time' = Null
      /\ UNCHANGED <<adding, dialogs, added, slipped>>
  BY DEF LeaveTab
<1>2. TypeOK'
  <2>1. 0 \in Days /\ DOMAIN <<>> = {}
    BY CalendarAssumption DEF Days
  <2>2. QED
    BY <1>1, <2>1 DEF IInv, TypeOK
<1>3. MarkersMatchTasks' /\ EveryTaskHasATime'
  BY <1>1, EmptyMap DEF MarkersMatchTasks, EveryTaskHasATime, TasksOf, ToSet
<1>4. DialogsFit'
  <2>1. dialogs' = <<>> /\ DOMAIN dialogs' = {} /\ ~slipped'
    BY <1>1 DEF OnPage, IInv, DialogsFit
  <2>2. QED
    BY <2>1 DEF DialogsFit
<1>5. QED
  BY <1>1, <1>2, <1>3, <1>4 DEF IInv

LEMMA INext ==
  ASSUME IInv, [Next]_vars
  PROVE  /\ IInv'
         /\ tasks' # <<>> =>
               \A d \in Days : \A t \in TasksOf(d) \ TasksOf(d)' :
                   slipped \/ (dialogs # <<>> /\ Last(dialogs).n = t.n)
<1>1. CASE UNCHANGED vars
  <2>1. MarkersMatchTasks' /\ EveryTaskHasATime' /\ \A d \in Days : TasksOf(d)' = TasksOf(d)
    BY <1>1, MapsKept DEF vars
  <2>2. TypeOK' /\ DialogsFit'
    BY <1>1 DEF vars, IInv, TypeOK, DialogsFit
  <2>3. QED
    BY <2>1, <2>2 DEF IInv
<1>2. CASE \E text \in Texts : Submit(text)
  BY <1>2, SubmitKeeps
<1>3. CASE MarkDone
  BY <1>3, MarkDoneKeeps
<1>4. CASE LeaveTab
  BY <1>4, LeaveTabKeeps
<1>5. CASE Cancel
  BY <1>5, CancelKeeps
<1>6. CASE \E i \in 1 .. Rows : Hold(i)
  BY <1>6, HoldKeeps
<1>7. CASE /\ Next /\ ~ \E text \in Texts : Submit(text)
           /\ ~MarkDone /\ ~LeaveTab /\ ~Cancel /\ ~ \E i \in 1 .. Rows : Hold(i)
  BY <1>7, MoveKeeps
<1>8. QED
  BY <1>1, <1>2, <1>3, <1>4, <1>5, <1>6, <1>7

\* Every reachable state is well typed, however many tasks, days and dialogs.
THEOREM CalendarTypeCorrect == Spec => []TypeOK
<1>1. IInv => TypeOK
  BY DEF IInv
<1>2. IInv /\ [Next]_vars => IInv'
  BY INext
<1>3. QED
  BY IInit, <1>1, <1>2, PTL DEF Spec

\* A day has as many markers as tasks, although a marker is taken off by what it
\* equals and a task by its position.
THEOREM MarkersStayWithTasks == Spec => []MarkersMatchTasks
<1>1. IInv => MarkersMatchTasks
  BY DEF IInv
<1>2. IInv /\ [Next]_vars => IInv'
  BY INext
<1>3. QED
  BY IInit, <1>1, <1>2, PTL DEF Spec

\* No task has the text of a picker that was cancelled or never opened.
THEOREM TasksHaveTimes == Spec => []EveryTaskHasATime
<1>1. IInv => EveryTaskHasATime
  BY DEF IInv
<1>2. IInv /\ [Next]_vars => IInv'
  BY INext
<1>3. QED
  BY IInit, <1>1, <1>2, PTL DEF Spec

\* Only the task whose tile was held goes, until a dialog above another has taken
\* off a task.
THEOREM HeldTasksGo == Spec => OnlyTheTaskHeldGoes
<1> DEFINE Step == tasks' # <<>> =>
               \A d \in Days : \A t \in TasksOf(d) \ TasksOf(d)' :
                   slipped \/ (dialogs # <<>> /\ Last(dialogs).n = t.n)
<1>1. IInv /\ [Next]_vars => IInv' /\ [Step]_vars
  BY INext
<1>2. QED
  BY IInit, <1>1, PTL DEF Spec, OnlyTheTaskHeldGoes
=============================================================================
