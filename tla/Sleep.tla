--------------------------------- MODULE Sleep ---------------------------------
(***************************************************************************)
(* What an application is promised by the executor and the time driver     *)
(* together: a task that awaits a deadline is resumed, never before it,    *)
(* and always at some time after it (src/src/executor.rs and               *)
(* src/src/time_driver.rs).  How the promise is kept -- queues, Compare 1, *)
(* interrupts, events -- does not show here.                               *)
(***************************************************************************)
EXTENDS Naturals

CONSTANTS Tasks, Deadlines, Horizon, MAX

VARIABLES
    now,        \* the time
    goal,       \* what each task awaits: a deadline, or MAX once it has ended
    lap         \* parity of the number of awaits each task has completed

vars == <<now, goal, lap>>

Init ==
    /\ now = 0
    /\ goal \in [Tasks -> Deadlines]
    /\ lap = [t \in Tasks |-> 0]

Tick ==
    /\ now < Horizon
    /\ now' = now + 1
    /\ UNCHANGED <<goal, lap>>

(* The task goes on, to its next await or to its end.                      *)
Resume(t) ==
    /\ goal[t] <= now
    /\ \E d \in Deadlines \cup {MAX} : goal' = [goal EXCEPT ![t] = d]
    /\ lap' = [lap EXCEPT ![t] = 1 - @]
    /\ UNCHANGED now

(* Something else it waits for comes first: it turns to another deadline.  *)
Turn(t) ==
    /\ now < goal[t] /\ goal[t] # MAX
    /\ \E d \in Deadlines : goal' = [goal EXCEPT ![t] = d]
    /\ UNCHANGED <<now, lap>>

Next == Tick \/ \E t \in Tasks : Resume(t) \/ Turn(t)

(* Time passes, and a deadline that has come resumes its task.             *)
Spec ==
    /\ Init /\ [][Next]_vars
    /\ WF_vars(Tick)
    /\ \A t \in Tasks : WF_vars(Resume(t))
=============================================================================
