-------------------------------- MODULE Log --------------------------------
(***************************************************************************)
(* The asynchronous log: any thread pushes its line into a BlockQueue, a   *)
(* ring of m_max_size slots behind a mutex and two condition variables;    *)
(* one writer thread pops the lines and appends them to a file that is     *)
(* changed every midnight and every m_split_lines lines.  What a thread    *)
(* does while it holds a mutex is one step; notify_one follows the unlock  *)
(* and is a step of its own.  ~Log runs in static destruction, after       *)
(* ~WebServer joined every other thread that logs.                         *)
(***************************************************************************)
EXTENDS Naturals, Sequences, FiniteSets, SequencesExt

CONSTANTS Loggers,      \* the threads that log
          Exit,         \* the thread that runs ~Log
          MaxSize,      \* m_max_size
          SplitLines,   \* m_split_lines
          MonthDays,    \* the days after which tm_mday repeats itself
          MaxLines,     \* bound: the lines each thread logs
          MaxDate       \* bound: the midnights that pass

ASSUME LoggersAssumption == IsFiniteSet(Loggers) /\ Exit \notin Loggers
ASSUME MaxSizeAssumption == MaxSize \in Nat \ {0}
ASSUME SplitLinesAssumption == SplitLines \in Nat \ {0}
ASSUME MonthDaysAssumption == MonthDays \in Nat \ {0}
ASSUME BoundsAssumption == MaxLines \in Nat /\ MaxDate \in Nat

VARIABLES array, front, back, size,   \* the ring of BlockQueue
          pc,           \* pc[p]: where p is in push
          calls,        \* calls[p]: the pushes p has completed
          wpc,          \* where the writer is in thread_func
          single_log,   \* single_log: the item in the writer's hand
          count,        \* m_count
          today,        \* m_today
          name,         \* the file m_fp is open on; Closed after ~Log
          disk,         \* disk[f]: the lines of file f and the day of each
          date,         \* what the clock says: days since the start
          accepted,     \* history: the items pushed, in order
          taken         \* history: the items popped, in order

queueVars == <<array, front, back, size>>
fileVars == <<count, today, name, disk>>
vars == <<queueVars, pc, calls, wpc, single_log, fileVars, date, accepted, taken>>

Pushers == Loggers \cup {Exit}

Items == [by : Pushers, n : 1 .. MaxLines + 1]

\* The item ~Log pushes, "LOG_ENDS_NOW".
End == [by |-> Exit, n |-> 1]

\* A file: its date and the number of its suffix, 0 for none.
MaxSuffix == MaxLines * Cardinality(Loggers)
Files == (0 .. MaxDate) \X (0 .. MaxSuffix)

Closed == <<>>

Mday(d) == d % MonthDays

Slots == 0 .. MaxSize - 1

Init ==
  /\ array = [s \in Slots |-> End] /\ front = 0 /\ back = 0 /\ size = 0
  /\ pc = [p \in Pushers |-> "idle"]
  /\ calls = [p \in Pushers |-> 0]
  /\ wpc = "lock" /\ single_log = End
  /\ date = 0 /\ count = 0 /\ today = Mday(0) /\ name = <<0, 0>>
  /\ disk = [f \in Files |-> <<>>]
  /\ accepted = <<>> /\ taken = <<>>

At(l) == {p \in Pushers : pc[p] = l}

(***************************************************************************)
(* BlockQueue::push, called by write_log for a line and by ~Log for the    *)
(* end.  A thread that finds the ring full gives up the lock and waits on  *)
(* m_not_full; woken, it tests again.                                      *)
(***************************************************************************)
MayLog(p) ==
  p \in Loggers /\ calls[p] < MaxLines /\ pc[Exit] = "idle" /\ calls[Exit] = 0

MayEnd(p) == p = Exit /\ calls[Exit] = 0 /\ \A q \in Loggers : pc[q] = "idle"

Ready(p) == pc[p] = "lock" \/ (pc[p] = "idle" /\ (MayLog(p) \/ MayEnd(p)))

Item(p) == [by |-> p, n |-> calls[p] + 1]

PushWait(p) ==
  /\ Ready(p) /\ size = MaxSize
  /\ pc' = [pc EXCEPT ![p] = "wait"]
  /\ UNCHANGED <<queueVars, calls, wpc, single_log, fileVars, date, accepted, taken>>

PushSpurious(p) ==
  /\ pc[p] = "wait"
  /\ pc' = [pc EXCEPT ![p] = "lock"]
  /\ UNCHANGED <<queueVars, calls, wpc, single_log, fileVars, date, accepted, taken>>

\* Mutant: a thread that was woken does not test again whether a slot is free.
PushPutBlind(p) ==
  /\ Ready(p) /\ (size < MaxSize \/ pc[p] = "lock")
  /\ array' = [array EXCEPT ![back] = Item(p)]
  /\ back' = (back + 1) % MaxSize
  /\ size' = size + 1
  /\ accepted' = Append(accepted, Item(p))
  /\ calls' = [calls EXCEPT ![p] = @ + 1]
  /\ pc' = [pc EXCEPT ![p] = "pushed"]
  /\ UNCHANGED <<front, wpc, single_log, fileVars, date, taken>>

PushPut(p) ==
  /\ Ready(p) /\ size < MaxSize
  /\ array' = [array EXCEPT ![back] = Item(p)]
  /\ back' = (back + 1) % MaxSize
  /\ size' = size + 1
  /\ accepted' = Append(accepted, Item(p))
  /\ calls' = [calls EXCEPT ![p] = @ + 1]
  /\ pc' = [pc EXCEPT ![p] = "pushed"]
  /\ UNCHANGED <<front, wpc, single_log, fileVars, date, taken>>

\* Mutant: push notifies only when it made the ring full.
PushNotifyFull(p) ==
  /\ pc[p] = "pushed"
  /\ wpc' = IF wpc = "wait" /\ size = MaxSize THEN "lock" ELSE wpc
  /\ pc' = [pc EXCEPT ![p] = "idle"]
  /\ UNCHANGED <<queueVars, calls, single_log, fileVars, date, accepted, taken>>

PushNotify(p) ==
  /\ pc[p] = "pushed"
  /\ wpc' = IF wpc = "wait" THEN "lock" ELSE wpc
  /\ pc' = [pc EXCEPT ![p] = "idle"]
  /\ UNCHANGED <<queueVars, calls, single_log, fileVars, date, accepted, taken>>

(***************************************************************************)
(* BlockQueue::pop, by the writer only.                                    *)
(***************************************************************************)
PopWait ==
  /\ wpc = "lock" /\ size = 0
  /\ wpc' = "wait"
  /\ UNCHANGED <<queueVars, pc, calls, single_log, fileVars, date, accepted, taken>>

PopSpurious ==
  /\ wpc = "wait"
  /\ wpc' = "lock"
  /\ UNCHANGED <<queueVars, pc, calls, single_log, fileVars, date, accepted, taken>>

PopTake ==
  /\ wpc = "lock" /\ size > 0
  /\ single_log' = array[front]
  /\ taken' = Append(taken, array[front])
  /\ front' = (front + 1) % MaxSize
  /\ size' = size - 1
  /\ wpc' = "taken"
  /\ UNCHANGED <<array, back, pc, calls, fileVars, date, accepted>>

PopNotify ==
  /\ wpc = "taken"
  /\ \/ At("wait") = {} /\ UNCHANGED pc
     \/ \E p \in At("wait") : pc' = [pc EXCEPT ![p] = "lock"]
  /\ wpc' = "write"
  /\ UNCHANGED <<queueVars, calls, single_log, fileVars, date, accepted, taken>>

(***************************************************************************)
(* write_single_log and switch_log.  The line is counted, the file changed *)
(* when the day or the count asks for it, and the line appended and        *)
(* flushed (m_flush_interval is 1).  A new day starts its count again      *)
(* after this line was counted.                                            *)
(***************************************************************************)
NewDay == today # Mday(date)

Count == IF NewDay THEN 0 ELSE count + 1

\* Mutant: the day is not looked at.
SwitchesNotDaily == (count + 1) % SplitLines = 0

Switches == NewDay \/ (count + 1) % SplitLines = 0

Name ==
  IF ~Switches THEN name
  ELSE <<date, IF NewDay THEN 0 ELSE Count \div SplitLines>>

\* Mutant: the line that changes the file is written to neither.
WriteLineSkips ==
  /\ wpc = "write" /\ single_log # End
  /\ count' = Count
  /\ today' = Mday(date)
  /\ name' = Name
  /\ disk' = IF Switches THEN disk
             ELSE [disk EXCEPT ![name] = Append(@, [line |-> single_log, on |-> date])]
  /\ wpc' = "lock"
  /\ UNCHANGED <<queueVars, pc, calls, single_log, date, accepted, taken>>

WriteLine ==
  /\ wpc = "write" /\ single_log # End
  /\ count' = Count
  /\ today' = Mday(date)
  /\ name' = Name
  /\ disk' = [disk EXCEPT ![Name] = Append(@, [line |-> single_log, on |-> date])]
  /\ wpc' = "lock"
  /\ UNCHANGED <<queueVars, pc, calls, single_log, date, accepted, taken>>

\* The end: the writer leaves the loop that drains the ring when the ring is
\* empty.  It always is: ~Log pushes the end behind everything else.
WriterEnds ==
  /\ wpc = "write" /\ single_log = End /\ size = 0
  /\ wpc' = "exited"
  /\ UNCHANGED <<queueVars, pc, calls, single_log, fileVars, date, accepted, taken>>

\* Mutant: ~Log closes the file without joining the writer.
CloseEarly ==
  /\ calls[Exit] = 1 /\ pc[Exit] = "idle"
  /\ name # Closed
  /\ name' = Closed
  /\ UNCHANGED <<queueVars, pc, calls, wpc, single_log, count, today, disk, date,
                 accepted, taken>>

\* ~Log joins the writer and closes the file.
Close ==
  /\ calls[Exit] = 1 /\ pc[Exit] = "idle" /\ wpc = "exited" /\ name # Closed
  /\ name' = Closed
  /\ UNCHANGED <<queueVars, pc, calls, wpc, single_log, count, today, disk, date,
                 accepted, taken>>

Midnight ==
  /\ date < MaxDate
  /\ date' = date + 1
  /\ UNCHANGED <<queueVars, pc, calls, wpc, single_log, fileVars, accepted, taken>>

Push(p) == PushWait(p) \/ PushPut(p) \/ PushNotify(p)

Writer == PopWait \/ PopTake \/ PopNotify \/ WriteLine \/ WriterEnds

Next ==
  \/ \E p \in Pushers : Push(p) \/ PushSpurious(p)
  \/ Writer \/ PopSpurious
  \/ Close \/ Midnight

Safe == Init /\ [][Next]_vars

\* A push or a pop that has begun goes on, and so does ~Log; nobody has to
\* log, or to exit.
Spec ==
  /\ Safe
  /\ \A p \in Pushers : WF_vars(pc[p] # "idle" /\ Push(p))
  /\ WF_vars(Writer) /\ WF_vars(Close)

-----------------------------------------------------------------------------
QueueTypeOK ==
  /\ array \in [Slots -> Items]
  /\ front \in Slots /\ back \in Slots /\ size \in 0 .. MaxSize
  /\ pc \in [Pushers -> {"idle", "lock", "wait", "pushed"}]
  /\ calls \in [Pushers -> 0 .. MaxLines + 1]
  /\ wpc \in {"lock", "wait", "taken", "write", "exited"}
  /\ single_log \in Items
  /\ accepted \in Seq(Items) /\ taken \in Seq(Items)

TypeOK ==
  /\ QueueTypeOK
  /\ count \in 0 .. MaxSuffix /\ today \in 0 .. MonthDays - 1
  /\ name \in Files \cup {Closed}
  /\ disk \in [Files -> Seq([line : Items, on : 0 .. MaxDate])]
  /\ date \in 0 .. MaxDate

RingOf(arr, f, n) == [i \in 1 .. n |-> arr[(f + (i - 1)) % MaxSize]]

\* The items from m_front on, around the end of the array.
Ring == RingOf(array, front, size)

\* BlockQueue keeps every item from push to pop, once and in order, however
\* often the ring goes round.
TakenInOrder == accepted = taken \o Ring

\* push and pop lose no notification: the writer sleeps over queued items only
\* while a notification for each is on its way, and threads sleep on a ring
\* with free slots only while as many others are on their way to fill them.
NoSleeperNeeded ==
  /\ wpc = "wait" => size <= Cardinality(At("pushed"))
  /\ At("wait") # {} =>
       MaxSize - size <= Cardinality(At("lock")) + IF wpc = "taken" THEN 1 ELSE 0

LinesOf(f) == [i \in DOMAIN disk[f] |-> disk[f][i].line]

\* The files of the log read one after the other, by date and by suffix.
Logged ==
  FlattenSeq([d \in 1 .. MaxDate + 1 |->
    FlattenSeq([k \in 1 .. MaxSuffix + 1 |-> LinesOf(<<d - 1, k - 1>>)])])

\* The item that was taken and is in no file: the writer keeps the end for good.
InHand == IF wpc \in {"taken", "write", "exited"} THEN <<single_log>> ELSE <<>>

\* switch_log never goes back to a file that was left: the files, read in the
\* order of their names, hold exactly the lines the writer took, in order.
FilesInOrder == taken = Logged \o InHand

\* switch_log changes the file in time: none grows longer than m_split_lines, and
\* a line is written to a file of the day on which it is written.
FilesSplit ==
  \A f \in Files :
    /\ Len(disk[f]) <= SplitLines
    /\ \A i \in DOMAIN disk[f] : disk[f][i].on = f[1]

\* When ~Log has closed the file every line that was logged is in a file.
NothingLostAtExit == name = Closed => accepted = Append(Logged, End)

\* The ring with its one reader, seen as a first-in first-out queue.
Abstract == INSTANCE Fifo WITH delivered <- taken

\* ~Log ends: the writer finds the end in its queue and can be joined.
ExitEnds == calls[Exit] = 1 ~> name = Closed
=============================================================================
