------------------------------ MODULE Calendar ------------------------------
(***************************************************************************)
(* CalendarPage: the tasks of each day and, apart from them, the markers   *)
(* that the calendar shows.  Both live in the State of the page alone.     *)
(*                                                                         *)
(* A task is added on a page of its own, which uses the time that was      *)
(* chosen last, and taken off by a dialog that keeps the task's position.  *)
(* Two fingers held on two tiles open two dialogs, one over the other.     *)
(***************************************************************************)
EXTENDS Integers, SequencesExt

CONSTANTS
    Times,        \* what the time picker may yield
    Texts,        \* what may be typed
    Null,         \* no picker was opened yet
    Cancelled,    \* the picker was left without a time
    Span,         \* the days after the first that may be tapped (60)
    Jump,         \* the days PREV and NEXT move by (30)
    Rows,         \* the rows of the list (10)
    Reach,        \* how far PREV and NEXT are used (bound)
    MaxTasks,     \* how many tasks are added (bound)
    MaxDialogs    \* how many tiles are held at once (bound)

ASSUME CalendarAssumption ==
    /\ Null \notin Times /\ Cancelled \notin Times /\ Null # Cancelled
    /\ {Span, Jump, Rows, Reach, MaxTasks, MaxDialogs} \subseteq Nat

VARIABLES
    today,        \* _currentDate2, in days from _currentDate
    tasks,        \* _toDoList, and the serial numbers of its entries
    markers,      \* _markedDateMap
    time,         \* _time
    adding,       \* the page that adds a task is over this one
    dialogs,      \* the dialogs over it: the position each has, and history:
                  \* the task that was held
    added,        \* history: how many tasks were added
    slipped       \* history: a dialog above took a task off

vars == <<today, tasks, markers, time, adding, dialogs, added, slipped>>

Title == [time : Times \cup {Null, Cancelled}, text : Texts]
Task == [n : Nat, title : Title]

Init ==
    /\ today = 0
    /\ tasks = <<>> /\ markers = <<>>
    /\ time = Null
    /\ adding = FALSE
    /\ dialogs = <<>>
    /\ added = 0
    /\ slipped = FALSE
-----------------------------------------------------------------------------
\* A map from days to lists, as Dart's: a day without an entry has no list.
ListOf(map, d) == IF d \in DOMAIN map THEN map[d] ELSE <<>>

Put(map, d, s) == [e \in DOMAIN map \cup {d} |-> IF e = d THEN s ELSE map[e]]

With(map, d, x) == Put(map, d, Append(ListOf(map, d), x))

OnPage == ~adding /\ dialogs = <<>>

\* A day is tapped, or PREV or NEXT.
Selects(d) ==
    /\ OnPage
    /\ today' = d
    /\ UNCHANGED <<tasks, markers, time, adding, dialogs, added, slipped>>

Press(d) == d \in 0 .. Span /\ Selects(d)
Prev == today - Jump >= -Reach /\ Selects(today - Jump)
Next30 == today + Jump <= Reach /\ Selects(today + Jump)

OpenAdd ==
    /\ OnPage
    /\ adding' = TRUE
    /\ UNCHANGED <<today, tasks, markers, time, dialogs, added, slipped>>

LeaveAdd ==
    /\ adding
    /\ adding' = FALSE
    /\ UNCHANGED <<today, tasks, markers, time, dialogs, added, slipped>>

\* A picker that is cancelled forgets the time of the task before.
PickTime(t) ==
    /\ adding
    /\ time' = t
    /\ UNCHANGED <<today, tasks, markers, adding, dialogs, added, slipped>>

\* Mutant: the text "null" is long enough to be cut.
HasTimeAlways(t) == TRUE

\* "null" has no characters 10 to 15: substring throws.
HasTime(t) == t \in Times

\* _addToDoItem, and the page is left; without a time it stays as it is.
Submit(text) ==
    /\ adding
    /\ added < MaxTasks
    /\ HasTime(time)
    /\ LET title == [time |-> time, text |-> text] IN
        /\ tasks' = With(tasks, today, [n |-> added, title |-> title])
        /\ markers' = With(markers, today, title)
    /\ adding' = FALSE
    /\ added' = added + 1
    /\ UNCHANGED <<today, time, dialogs, slipped>>

\* A tile is held down, alone or with others: each opens its dialog, with the
\* position its tile has now, the later over the earlier.
Hold(i) ==
    /\ ~adding
    /\ Len(dialogs) < MaxDialogs
    /\ \A k \in DOMAIN dialogs : dialogs[k].index # i
    /\ ~slipped
    /\ i \in 1 .. Rows /\ i <= Len(ListOf(tasks, today))
    /\ dialogs' = Append(dialogs, [index |-> i, n |-> tasks[today][i].n])
    /\ UNCHANGED <<today, tasks, markers, time, adding, added, slipped>>

\* The top dialog is popped.
Cancel ==
    /\ dialogs # <<>>
    /\ dialogs' = Front(dialogs)
    /\ slipped' = (slipped /\ Len(dialogs) > 1)
    /\ UNCHANGED <<today, tasks, markers, time, adding, added>>

\* Mutant: MARK AS DONE leaves the marker.
MarkerStays(s, title) == s

\* EventList.remove: the first marker that equals the one at the position.
MarkerGone(s, title) == LET k == SelectInSeq(s, LAMBDA x : x = title)
                        IN  IF k = 0 THEN s ELSE RemoveAt(s, k)

\* Mutants: MARK AS DONE takes the last task; it empties the entry only.
TaskGoneLast(s, i) == Front(s)

TaskGoneEmpty(s, i) == [s EXCEPT ![i] = Null]

TaskGone(s, i) == RemoveAt(s, i)

\* MARK AS DONE: _removeTodoItem, and the dialog is popped.
MarkDone ==
    /\ dialogs # <<>>
    /\ LET i == Last(dialogs).index
           here == ListOf(tasks, today)
           marks == ListOf(markers, today)
       IN  /\ i <= Len(marks) /\ i <= Len(here)
           /\ tasks' = Put(tasks, today, TaskGone(here, i))
           /\ markers' = Put(markers, today, MarkerGone(marks, marks[i]))
    /\ dialogs' = Front(dialogs)
    /\ slipped' = (Len(dialogs) > 1)
    /\ UNCHANGED <<today, time, adding, added>>

\* The tab is left: the State is disposed of, and the next one starts anew.
LeaveTab ==
    /\ OnPage
    /\ today' = 0
    /\ tasks' = <<>> /\ markers' = <<>>
    /\ time' = Null
    /\ UNCHANGED <<adding, dialogs, added, slipped>>

Next ==
    \/ \E d \in 0 .. Span : Press(d)
    \/ Prev
    \/ Next30
    \/ OpenAdd
    \/ LeaveAdd
    \/ \E t \in Times \cup {Cancelled} : PickTime(t)
    \/ \E text \in Texts : Submit(text)
    \/ \E i \in 1 .. Rows : Hold(i)
    \/ Cancel
    \/ MarkDone
    \/ LeaveTab

Spec == Init /\ [][Next]_vars
-----------------------------------------------------------------------------
(* Properties.                                                             *)

Days == -Reach .. Span + Reach

\* Every variable has its type.
TypeOK ==
    /\ today \in Days
    /\ DOMAIN tasks \subseteq Days /\ DOMAIN markers \subseteq Days
    /\ \A d \in DOMAIN tasks : tasks[d] \in Seq(Task)
    /\ \A d \in DOMAIN markers : markers[d] \in Seq(Title)
    /\ time \in Times \cup {Null, Cancelled}
    /\ adding \in BOOLEAN /\ slipped \in BOOLEAN
    /\ dialogs \in Seq([index : 1 .. Rows, n : Nat])
    /\ added \in 0 .. MaxTasks

\* A day has as many markers as tasks, though the two lists are kept apart and
\* MARK AS DONE takes a position from one and what equals it from the other: so no
\* task outlives the marker its removal needs (calendarPage.dart 112-134).
MarkersMatchTasks ==
    \A d \in Days : Len(ListOf(markers, d)) = Len(ListOf(tasks, d))

TasksOf(d) == ToSet(ListOf(tasks, d))

\* MARK AS DONE takes off the task whose tile was held, and nothing else does but
\* leaving the tab, unless a dialog opened over this one has taken off another:
\* then the position it kept may be its neighbour's (calendarPage.dart 130-168).
OnlyTheTaskHeldGoes ==
    [][ tasks' # <<>> =>
          \A d \in Days : \A t \in TasksOf(d) \ TasksOf(d)' :
              slipped \/ (dialogs # <<>> /\ Last(dialogs).n = t.n) ]_vars

\* Every task has a time the user chose, though the text it is cut from is that of
\* the last picker whatever became of it (calendarPage.dart 170-207).
EveryTaskHasATime ==
    \A d \in Days : \A t \in TasksOf(d) : t.title.time \in Times
=============================================================================
