------------------------------ MODULE CrowTimer ------------------------------
(***************************************************************************)
(* crow::detail::task_timer: the deadlines of one worker's connections,    *)
(* as operators on a record.                                               *)
(*                                                                         *)
(*   tasks    from the ids in use to the tasks scheduled under them: the   *)
(*            connection to close and the ticks left until then            *)
(*   highest  the last id given out                                        *)
(*                                                                         *)
(* The time left stands for the time point less the current time: Age lets *)
(* a tick go by.  A task is expired when its time point is strictly past.  *)
(***************************************************************************)
EXTENDS Integers, Functions

CONSTANT Timeout   \* ticks until a deadline, set_default_timeout

ASSUME TimeoutAssumption == Timeout \in Nat

NewTimer == [tasks |-> << >>, highest |-> 0]

Drop(tasks, ids) == Restrict(tasks, DOMAIN tasks \ ids)

\* cancel: an id not in use is ignored.
Cancel(timer, id) == [timer EXCEPT !.tasks = Drop(@, {id})]

\* schedule: std::map::insert does nothing when the id is in use.
Schedule(timer, c) ==
  LET id == timer.highest + 1
  IN  [tasks |-> [i \in DOMAIN timer.tasks \cup {id} |->
                    IF i \in DOMAIN timer.tasks THEN timer.tasks[i]
                    ELSE [conn |-> c, left |-> Timeout]],
       highest |-> id]

Expired(timer) == { i \in DOMAIN timer.tasks : timer.tasks[i].left < 0 }

\* Mutant: the ids start again at 0 after every tick.
ProcessTasksResetIds(timer) ==
  [tasks |-> Drop(timer.tasks, Expired(timer)), highest |-> 0]

\* process_tasks without the calls of the expired tasks: they are erased, and
\* the ids start again at 0 when no task is left.
ProcessTasks(timer) ==
  LET rest == Drop(timer.tasks, Expired(timer))
  IN  [tasks |-> rest, highest |-> IF DOMAIN rest = {} THEN 0 ELSE timer.highest]

Older(task) ==
  [task EXCEPT !.left = IF task.left < 0 THEN task.left ELSE task.left - 1]

\* A tick goes by.
Age(timer) ==
  [timer EXCEPT !.tasks = [i \in DOMAIN timer.tasks |-> Older(timer.tasks[i])]]

=============================================================================
