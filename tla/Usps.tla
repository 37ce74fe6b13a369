-------------------------------- MODULE Usps --------------------------------
(***************************************************************************)
(* A run of one of the scheduler programs of Projects/P1: main, the        *)
(* signal handlers that interrupt it, the children it forks and the part   *)
(* of the kernel they meet in (fork, kill, waitpid, signal delivery).      *)
(*                                                                         *)
(* Init chooses the program; main executes the statements of its text one  *)
(* by one (module UspsPrograms).  A handler is a frame on top of main: it  *)
(* runs when its signal is pending and not blocked, between any two steps  *)
(* of main or of the other handler, and main waits below it.  signal() has *)
(* BSD semantics: a handler blocks its own signal only, and wait restarts. *)
(* main's direct call of the SIGALRM handler is a frame too, one that      *)
(* blocks nothing.  A handler that uses the ready queue while what it      *)
(* interrupted is inside a call of the queue, or after the queue was       *)
(* destroyed, may end in the status "undefined", of which nothing is said. *)
(*                                                                         *)
(* Not kept: SIGUSR2, which main sends itself and whose handler is empty;  *)
(* the SIGCHLD of a child that stops or continues, on which the handler's  *)
(* waitpid reports nothing; the reuse of a pid after it was reaped.        *)
(***************************************************************************)
EXTENDS Integers, Sequences, FiniteSets, UspsPrograms

CONSTANTS
  Chosen,      \* the programs a run may be of
  MaxLines,    \* commands in the workload
  MaxAlarms,   \* bound on the expirations of the timer
  Quanta       \* values the user may ask for (0: none)

ASSUME UspsAssumption == Chosen \subseteq ProgramNames /\ MaxLines \in Nat /\ Quanta \subseteq Int

VARIABLES
  prog,             \* the program that runs
  pc,               \* the statement main is at
  sub,              \* where in the statement: a loop's test, wait, load or store
  tmp,              \* the value main has loaded of active_procs
  k,                \* index of the round of signals
  status,           \* "running", or how the program ended
  handles,          \* signals main has a handler for
  Q, q_ticks,       \* the quantum asked for; the quantum in ticks
  lines,            \* commands not yet read
  pcount, active_procs, pcb_arr,
  ready_queue, destroyed, current_process, iter,
  armed, alarms,    \* the interval timer, and how often it may still fire
  pending, frames,  \* signals pending for main; handlers running, innermost last
  child             \* the children, by pid

Pids == 1..MaxLines
NoChild == [st |-> "none", stopped |-> FALSE, usr1 |-> FALSE, seen |-> FALSE, died |-> "no"]
NoPcb == [pid |-> 0, ticks |-> 0, alive |-> FALSE, send_usr1 |-> FALSE]

mainvars == <<pc, sub, tmp, k, status>>
setupvars == <<prog, handles, Q, q_ticks>>
procvars == <<lines, pcount, pcb_arr>>
schedvars == <<ready_queue, destroyed, current_process, iter>>
kernelvars == <<armed, alarms, pending, frames, child>>
vars == <<mainvars, setupvars, procvars, active_procs, schedvars, kernelvars>>

text == Programs[prog]
Statements == {text.main[i] : i \in 1..Len(text.main)}

Init ==
  /\ prog \in Chosen
  /\ pc = "options" /\ sub = "test" /\ tmp = 0 /\ k = 1 /\ status = "running"
  /\ handles = {} /\ Q = 0 /\ q_ticks = 0
  /\ lines \in 0..MaxLines
  /\ pcount = 0 /\ active_procs = 0 /\ pcb_arr = [i \in Pids |-> NoPcb]
  /\ ready_queue = <<>> /\ destroyed = FALSE /\ current_process = 0 /\ iter = 0
  /\ armed = FALSE /\ alarms = 0 /\ pending = {} /\ frames = <<>>
  /\ child = [p \in Pids |-> NoChild]

-----------------------------------------------------------------------------
(* What main asks of the kernel. *)

Alive(p) == child[p].st \in {"forked", "runs"}
Unreaped == {p \in Pids : Alive(p) \/ child[p].st = "zombie"}

Signalled(c, sig) ==
  IF c.st \notin {"forked", "runs"} THEN c
  ELSE CASE sig = "USR1" -> [c EXCEPT !.usr1 = TRUE]
         [] sig = "STOP" -> [c EXCEPT !.stopped = TRUE]
         [] sig = "CONT" -> [c EXCEPT !.stopped = FALSE]
         [] OTHER -> [c EXCEPT !.st = "zombie", !.died = sig]

Kill(p, sig) == child' = [child EXCEPT ![p] = Signalled(@, sig)]

Raise(sig) == pending' = IF sig \in handles THEN pending \union {sig} ELSE pending

-----------------------------------------------------------------------------
(* main.  It runs when no handler is on top of it. *)

MainAt(l) == status = "running" /\ frames = <<>> /\ pc = l
Goto(l) == pc' = l /\ sub' = "test" /\ k' = 1 /\ UNCHANGED <<tmp, status>>
Advance == Goto(After(text.main, pc))
End(how) == status' = how /\ UNCHANGED <<pc, sub, tmp, k>>

\* getenv and getopt: a bad option or a second operand ends the program.
Options ==
  /\ MainAt("options")
  /\ \/ \E q \in Quanta : Q' = q /\ Advance
     \/ End("usage") /\ UNCHANGED Q
  /\ UNCHANGED <<prog, handles, q_ticks, procvars, active_procs, schedvars, kernelvars>>

Quantum ==
  /\ MainAt("quantum")
  /\ IF Q = 0 THEN End("usage") ELSE Advance
  /\ UNCHANGED <<setupvars, procvars, active_procs, schedvars, kernelvars>>

\* The descriptor of a workload that was opened is dropped at once (wfd = 0), so
\* the lines come from standard input in every run and nothing is closed later.
Open ==
  /\ MainAt("open")
  /\ Advance \/ End("usage")
  /\ UNCHANGED <<setupvars, procvars, active_procs, schedvars, kernelvars>>

SignalOf == [sigusr1 |-> "USR1", sigusr2 |-> "USR2", sigchld |-> "CHLD", sigalrm |-> "ALRM"]
Establish ==
  /\ \E l \in DOMAIN SignalOf :
       /\ MainAt(l)
       /\ \/ Advance /\ handles' = handles \union {SignalOf[l]}
          \/ End("failed") /\ UNCHANGED handles
  /\ UNCHANGED <<prog, Q, q_ticks, procvars, active_procs, schedvars, kernelvars>>

\* MIN_Q, MAX_Q and TICK_FREQ; C division truncates.
Clamped(q) == IF q < 20 THEN 20 ELSE IF q > 1000 THEN 1000 ELSE q
Truncated(a, b) == IF a >= 0 THEN a \div b ELSE -((-a) \div b)
Rounded(q) == 20 * Truncated(q + 1, 20)

Clamp ==
  /\ MainAt("clamp") /\ Advance /\ Q' = Clamped(Q)
  /\ UNCHANGED <<prog, handles, q_ticks, procvars, active_procs, schedvars, kernelvars>>
Ticks ==
  /\ MainAt("ticks") /\ Advance
  /\ Q' = Rounded(Q) /\ q_ticks' = Truncated(Q', 20)
  /\ UNCHANGED <<prog, handles, procvars, active_procs, schedvars, kernelvars>>
CreateQueue ==
  /\ MainAt("create")
  /\ Advance \/ End("failed")
  /\ UNCHANGED <<setupvars, procvars, active_procs, schedvars, kernelvars>>

\* One turn of the fork loop: read a line and fork.  End of file and a failed
\* fork leave the loop.
NextPid == Cardinality({p \in Pids : child[p].st # "none"}) + 1
ReadAndFork ==
  /\ MainAt("read")
  /\ \/ lines = 0 /\ Goto("count") /\ UNCHANGED <<lines, child>>
     \/ lines > 0 /\ lines' = lines - 1 /\ Goto("count") /\ UNCHANGED child
     \/ /\ lines > 0 /\ lines' = lines - 1
        /\ child' = [child EXCEPT ![NextPid].st = "forked"]
        /\ Advance
  /\ UNCHANGED <<setupvars, pcount, pcb_arr, active_procs, schedvars, armed, alarms, pending, frames>>

\* The parent's branch.  Only the programs with a ready queue mark the entry.
Record ==
  /\ MainAt("record") /\ Advance
  /\ LET entry == [pcb_arr[pcount + 1] EXCEPT !.pid = NextPid - 1]
     IN pcb_arr' = [pcb_arr EXCEPT ![pcount + 1] =
                      IF "enqueue" \in Statements THEN [entry EXCEPT !.alive = TRUE, !.send_usr1 = TRUE]
                      ELSE entry]
  /\ UNCHANGED <<setupvars, lines, pcount, active_procs, schedvars, kernelvars>>
Enqueue ==
  /\ MainAt("enqueue") /\ Advance
  /\ ready_queue' = Append(ready_queue, pcount + 1)
  /\ UNCHANGED <<setupvars, procvars, active_procs, destroyed, current_process, iter, kernelvars>>
Leave ==
  /\ MainAt("leave") /\ Goto("count")
  /\ UNCHANGED <<setupvars, procvars, active_procs, schedvars, kernelvars>>
Bump ==
  /\ MainAt("bump") /\ Goto("read")
  /\ pcount' = pcount + 1
  /\ UNCHANGED <<setupvars, lines, pcb_arr, active_procs, schedvars, kernelvars>>
(* Mutant: the last child is not counted. *)
CountShort ==
  /\ MainAt("count") /\ Advance
  /\ active_procs' = IF pcount = 0 THEN 0 ELSE pcount - 1
  /\ UNCHANGED <<setupvars, procvars, schedvars, kernelvars>>
Count ==
  /\ MainAt("count") /\ Advance
  /\ active_procs' = pcount
  /\ UNCHANGED <<setupvars, procvars, schedvars, kernelvars>>

\* while (active_procs > 0) { wait(NULL); active_procs -= 1; }
Reaping == {"reap1", "reap2"}
ReapAt(where) == pc \in Reaping /\ MainAt(pc) /\ sub = where
Sub(where) == sub' = where /\ UNCHANGED <<pc, k, status>>
(* Mutant: the loop goes on while the count is not zero. *)
ReapTestNonzero ==
  /\ ReapAt("test")
  /\ IF active_procs # 0 THEN Sub("wait") /\ UNCHANGED tmp ELSE Advance
  /\ UNCHANGED <<setupvars, procvars, active_procs, schedvars, kernelvars>>
ReapTest ==
  /\ ReapAt("test")
  /\ IF active_procs > 0 THEN Sub("wait") /\ UNCHANGED tmp ELSE Advance
  /\ UNCHANGED <<setupvars, procvars, active_procs, schedvars, kernelvars>>
(* Mutant: WNOHANG, the call does not wait. *)
ReapWaitPolls ==
  /\ ReapAt("wait") /\ Sub("load")
  /\ \/ \E p \in Pids : child[p].st = "zombie" /\ child' = [child EXCEPT ![p].st = "reaped"]
     \/ (\A p \in Pids : child[p].st # "zombie") /\ UNCHANGED child
  /\ UNCHANGED <<tmp, setupvars, procvars, active_procs, schedvars, armed, alarms, pending, frames>>
\* wait takes a child that ended, or fails at once when there is no child left.
ReapWait ==
  /\ ReapAt("wait") /\ Sub("load")
  /\ \/ \E p \in Pids : child[p].st = "zombie" /\ child' = [child EXCEPT ![p].st = "reaped"]
     \/ Unreaped = {} /\ UNCHANGED child
  /\ UNCHANGED <<tmp, setupvars, procvars, active_procs, schedvars, armed, alarms, pending, frames>>
\* active_procs is volatile: main's decrement loads and stores it, and a handler
\* may count a child down in between.
ReapLoad ==
  /\ ReapAt("load") /\ Sub("store") /\ tmp' = active_procs
  /\ UNCHANGED <<setupvars, procvars, active_procs, schedvars, kernelvars>>
ReapStore ==
  /\ ReapAt("store") /\ Sub("test") /\ active_procs' = tmp - 1
  /\ UNCHANGED <<tmp, setupvars, procvars, schedvars, kernelvars>>

\* if (wfd != 0) close(wfd), with wfd = 0.
Close ==
  /\ \E l \in {"close1", "close2", "close3"} : MainAt(l)
  /\ Advance
  /\ UNCHANGED <<setupvars, procvars, active_procs, schedvars, kernelvars>>

\* setitimer.  With an interval nobody set it may arm the timer or leave it off.
\* When it fails main kills what it counted and goes to the cleanup label.
SetTimer ==
  /\ MainAt("timer")
  /\ \/ /\ Advance
        /\ armed' \in IF text.interval = "set" THEN {TRUE} ELSE BOOLEAN
        /\ alarms' = MaxAlarms
        /\ UNCHANGED child
     \/ /\ Goto(IF "close2" \in Statements THEN "close2" ELSE "close1")
        /\ child' = [p \in Pids |-> IF \E i \in 1..pcount : pcb_arr[i].pid = p
                                    THEN Signalled(child[p], "KILL") ELSE child[p]]
        /\ UNCHANGED <<armed, alarms>>
  /\ UNCHANGED <<setupvars, procvars, active_procs, schedvars, pending, frames>>

\* The direct call of the SIGALRM handler: nothing is blocked while it runs.
Call == [kind |-> "call", at |-> "tick", pid |-> 0, left |-> 0, sig |-> "none", decoded |-> TRUE]
Dispatch ==
  /\ MainAt("dispatch") /\ Advance
  /\ frames' = <<Call>>
  /\ UNCHANGED <<setupvars, procvars, active_procs, schedvars, armed, alarms, pending, child>>

\* while (active_procs > 0) pause();  No program comes here with a positive
\* count (MainEnds would fail), so pause itself is not modelled.
Pause ==
  /\ MainAt("pause") /\ active_procs <= 0 /\ Advance
  /\ UNCHANGED <<setupvars, procvars, active_procs, schedvars, kernelvars>>
\* ready_queue->destroy: the timer is still armed.
Destroy ==
  /\ MainAt("destroy") /\ Advance /\ destroyed' = TRUE
  /\ UNCHANGED <<setupvars, procvars, active_procs, ready_queue, current_process, iter, kernelvars>>

SignalSent == [usr1 |-> "USR1", stop |-> "STOP", cont |-> "CONT"]
(* Mutant: the last child gets no signal. *)
RoundShort ==
  /\ \E l \in DOMAIN SignalSent :
       /\ MainAt(l)
       /\ IF k < pcount
          THEN Kill(pcb_arr[k].pid, SignalSent[l]) /\ k' = k + 1 /\ UNCHANGED <<pc, sub, tmp, status>>
          ELSE Advance /\ UNCHANGED child
  /\ UNCHANGED <<setupvars, procvars, active_procs, schedvars, armed, alarms, pending, frames>>
Round ==
  /\ \E l \in DOMAIN SignalSent :
       /\ MainAt(l)
       /\ IF k <= pcount
          THEN Kill(pcb_arr[k].pid, SignalSent[l]) /\ k' = k + 1 /\ UNCHANGED <<pc, sub, tmp, status>>
          ELSE Advance /\ UNCHANGED child
  /\ UNCHANGED <<setupvars, procvars, active_procs, schedvars, armed, alarms, pending, frames>>
Return ==
  /\ MainAt("return") /\ End("ended") /\ armed' = FALSE
  /\ UNCHANGED <<setupvars, procvars, active_procs, schedvars, alarms, pending, frames, child>>

Main ==
  \/ Options \/ Quantum \/ Open \/ Establish \/ Clamp \/ Ticks \/ CreateQueue
  \/ ReadAndFork \/ Record \/ Enqueue \/ Leave \/ Bump \/ Count
  \/ ReapTest \/ ReapWait \/ ReapLoad \/ ReapStore
  \/ Close \/ SetTimer \/ Dispatch \/ Pause \/ Destroy \/ Round \/ Return

-----------------------------------------------------------------------------
(* The timer and the delivery of a signal: a handler frame on top. *)

TimerFires ==
  /\ status = "running" /\ armed /\ alarms > 0
  /\ alarms' = alarms - 1 /\ pending' = pending \union {"ALRM"}
  /\ UNCHANGED <<mainvars, setupvars, procvars, active_procs, schedvars, armed, frames, child>>

Deliver(sig) ==
  /\ status = "running" /\ sig \in pending
  /\ \A i \in 1..Len(frames) : frames[i].kind # sig
  /\ pending' = pending \ {sig}
  /\ \E decoded \in IF sig = "CHLD" /\ text.onchild.decodes = "unset" THEN BOOLEAN ELSE {TRUE} :
       frames' = Append(frames, [kind |-> sig, at |-> IF sig = "ALRM" THEN "tick" ELSE "waitpid",
                                 pid |-> 0, left |-> 0, sig |-> "none", decoded |-> decoded])
  /\ UNCHANGED <<mainvars, setupvars, procvars, active_procs, schedvars, armed, alarms, child>>

top == frames[Len(frames)]
HandlerAt(kinds, l) == status = "running" /\ frames # <<>> /\ top.kind \in kinds /\ top.at = l
StepTo(l) == frames' = [frames EXCEPT ![Len(frames)].at = l]
Done == frames' = SubSeq(frames, 1, Len(frames) - 1)
KeepRest == UNCHANGED <<setupvars, lines, pcount, armed, alarms, pending>>

-----------------------------------------------------------------------------
(* The SIGCHLD handler. *)

(* Mutant: one entry too many is compared. *)
pid_searchPast(pid) ==
  LET found == {i \in 1..pcount + 1 : i \in Pids /\ pcb_arr[i].pid = pid /\ (text.onchild.search = "all" \/ i = 1)}
  IN IF found = {} THEN 0 ELSE CHOOSE i \in found : \A j \in found : i <= j
\* The entry of a pid: every entry is compared, or only the first; 0: none.
pid_search(pid) ==
  LET found == {i \in 1..pcount : pcb_arr[i].pid = pid /\ (text.onchild.search = "all" \/ i = 1)}
  IN IF found = {} THEN 0 ELSE CHOOSE i \in found : \A j \in found : i <= j

Reap ==
  /\ HandlerAt({"CHLD"}, "waitpid")
  /\ IF \E p \in Pids : child[p].st = "zombie"
     THEN \E p \in Pids :
            /\ child[p].st = "zombie"
            /\ child' = [child EXCEPT ![p].st = "reaped"]
            /\ frames' = [frames EXCEPT ![Len(frames)].at = "mark", ![Len(frames)].pid = p]
     ELSE Done /\ UNCHANGED child
  /\ UNCHANGED <<mainvars, pcb_arr, active_procs, schedvars>> /\ KeepRest

\* A child that is not found (index -1) is marked outside the array.  The programs
\* that decode a variable nobody set do so once per run of the handler, before
\* the first waitpid: decoded is chosen when the handler starts.
Mark ==
  /\ HandlerAt({"CHLD"}, "mark") /\ StepTo("waitpid")
  /\ LET i == pid_search(top.pid)
     IN IF top.decoded
        THEN /\ pcb_arr' = IF i = 0 THEN pcb_arr ELSE [pcb_arr EXCEPT ![i].alive = FALSE]
             /\ active_procs' = active_procs - 1
        ELSE UNCHANGED <<pcb_arr, active_procs>>
  /\ UNCHANGED <<mainvars, schedvars, child>> /\ KeepRest

-----------------------------------------------------------------------------
(* The SIGALRM handler, called by main or run on a signal.  It reads        *)
(* current_process anew at every use.                                       *)

Scheduling(l) == HandlerAt({"ALRM", "call"}, l)
Follow == StepTo(After(text.onalarm, top.at))
current == pcb_arr[current_process]

Tick ==
  /\ Scheduling("tick")
  /\ IF current_process # 0 THEN Follow ELSE StepTo("next")
  /\ UNCHANGED <<mainvars, pcb_arr, active_procs, schedvars, child>> /\ KeepRest
TickAlive ==
  /\ Scheduling("alive")
  /\ IF current.alive THEN Follow ELSE StepTo("drop")
  /\ UNCHANGED <<mainvars, pcb_arr, active_procs, schedvars, child>> /\ KeepRest
\* --(current_process->ticks_remaining) loads and stores it.
Spend ==
  /\ Scheduling("spend")
  /\ frames' = [frames EXCEPT ![Len(frames)].at = "spent", ![Len(frames)].left = current.ticks]
  /\ UNCHANGED <<mainvars, pcb_arr, active_procs, schedvars, child>> /\ KeepRest
Spent ==
  /\ Scheduling("spent")
  /\ IF top.left - 1 > 0 THEN Done ELSE Follow
  /\ pcb_arr' = [pcb_arr EXCEPT ![current_process].ticks = top.left - 1]
  /\ UNCHANGED <<mainvars, active_procs, schedvars, child>> /\ KeepRest
Preempt ==
  /\ Scheduling("preempt") /\ Follow
  /\ Kill(current.pid, "STOP")
  /\ UNCHANGED <<mainvars, pcb_arr, active_procs, schedvars>> /\ KeepRest

\* What the handler interrupted is inside a call of the queue: main's call of the
\* handler, or main destroying it.
QueueCalls == {"requeue", "next"}
InQueueCall == pc = "destroy" \/ \E i \in 1..Len(frames) - 1 : frames[i].at \in QueueCalls
\* An operation then, or on the destroyed queue, is undefined: at best it takes
\* effect, or on the destroyed queue leaves no trace.
QueueStatus == status' \in IF destroyed \/ InQueueCall THEN {"running", "undefined"} ELSE {"running"}

Requeue ==
  /\ Scheduling("requeue") /\ Follow
  /\ ready_queue' = IF destroyed THEN ready_queue ELSE Append(ready_queue, current_process)
  /\ QueueStatus
  /\ UNCHANGED <<pc, sub, tmp, k, pcb_arr, active_procs, destroyed, current_process, iter, child>> /\ KeepRest

\* print_process_info reads three files of /proc; a file it cannot open ends it
\* early.  The header is repeated every DELIMITER (20) lines.
DELIMITER == 20
Show ==
  /\ Scheduling("show") /\ Follow
  /\ iter' \in {iter, (iter + 1) % DELIMITER}
  /\ UNCHANGED <<mainvars, pcb_arr, active_procs, ready_queue, destroyed, current_process, child>> /\ KeepRest
Drop ==
  /\ Scheduling("drop") /\ StepTo("next") /\ current_process' = 0
  /\ UNCHANGED <<mainvars, pcb_arr, active_procs, ready_queue, destroyed, iter, child>> /\ KeepRest

NextReady ==
  /\ Scheduling("next")
  /\ IF destroyed \/ ready_queue = <<>>
     THEN Done /\ UNCHANGED <<ready_queue, current_process>>
     ELSE Follow /\ current_process' = Head(ready_queue) /\ ready_queue' = Tail(ready_queue)
  /\ QueueStatus
  /\ UNCHANGED <<pc, sub, tmp, k, pcb_arr, active_procs, destroyed, iter, child>> /\ KeepRest
TestAlive ==
  /\ Scheduling("test")
  /\ IF current.alive THEN Follow ELSE StepTo("next")
  /\ UNCHANGED <<mainvars, pcb_arr, active_procs, schedvars, child>> /\ KeepRest
Refill ==
  /\ Scheduling("refill") /\ Follow
  /\ pcb_arr' = [pcb_arr EXCEPT ![current_process].ticks = q_ticks]
  /\ UNCHANGED <<mainvars, active_procs, schedvars, child>> /\ KeepRest

\* if (send_usr1_signal) { send_usr1_signal = false; kill(SIGUSR1); } else kill(SIGCONT);
\* In main's call an alarm may come between the test and the assignment.
Choose ==
  /\ Scheduling("choose")
  /\ IF current.send_usr1 THEN Follow
     ELSE frames' = [frames EXCEPT ![Len(frames)].at = "resume", ![Len(frames)].sig = "CONT"]
  /\ UNCHANGED <<mainvars, pcb_arr, active_procs, schedvars, child>> /\ KeepRest
ClearTo(flag) ==
  /\ Scheduling("clear")
  /\ frames' = [frames EXCEPT ![Len(frames)].at = "resume", ![Len(frames)].sig = "USR1"]
  /\ pcb_arr' = [pcb_arr EXCEPT ![current_process].send_usr1 = flag]
  /\ UNCHANGED <<mainvars, active_procs, schedvars, child>> /\ KeepRest
(* Mutant: the flag stays set. *)
ClearForgets == ClearTo(TRUE)
Clear == ClearTo(FALSE)
Resume ==
  /\ Scheduling("resume") /\ Done
  /\ Kill(current.pid, top.sig)
  /\ UNCHANGED <<mainvars, pcb_arr, active_procs, schedvars>> /\ KeepRest

Handler ==
  \/ Reap \/ Mark
  \/ Tick \/ TickAlive \/ Spend \/ Spent \/ Preempt \/ Requeue \/ Show \/ Drop
  \/ NextReady \/ TestAlive \/ Refill \/ Choose \/ Clear \/ Resume

-----------------------------------------------------------------------------
(* A child.  It has main's handler of SIGUSR1 until it execs; the command   *)
(* it then runs has none, so that SIGUSR1 ends it.                          *)

ChildOnly == UNCHANGED <<mainvars, setupvars, procvars, active_procs, schedvars, armed, alarms, frames>>
Dies(p, how) ==
  /\ child' = [child EXCEPT ![p].st = "zombie", ![p].usr1 = FALSE, ![p].died = how]
  /\ Raise("CHLD")

TakeUsr1(p) ==
  /\ child[p].usr1 /\ ~child[p].stopped
  /\ \/ /\ child[p].st = "forked"
        /\ child' = [child EXCEPT ![p].usr1 = FALSE, ![p].seen = TRUE]
        /\ UNCHANGED pending
     \/ child[p].st = "runs" /\ Dies(p, "USR1")
  /\ ChildOnly

\* while (!vis_USR1) nanosleep(20 ms), in the programs that have it, then execvp;
\* when that fails the child exits with -1.
Exec(p) ==
  /\ child[p].st = "forked" /\ ~child[p].stopped
  /\ text.gated => child[p].seen
  /\ \/ child' = [child EXCEPT ![p].st = "runs"] /\ UNCHANGED pending
     \/ Dies(p, "exec")
  /\ ChildOnly

\* The command ends by itself.
Exit(p) ==
  /\ child[p].st = "runs" /\ ~child[p].stopped
  /\ Dies(p, "exit")
  /\ ChildOnly

Child(p) == TakeUsr1(p) \/ Exec(p) \/ Exit(p)

Over == status # "running" /\ UNCHANGED vars

\* The one thread of the program: main, a handler on top of it, or the start of one.
Thread == Main \/ Handler \/ \E sig \in {"CHLD", "ALRM"} : Deliver(sig)

Next == Thread \/ TimerFires \/ (\E p \in Pids : Child(p)) \/ Over

\* The kernel runs every process that can run, and a command that is not stopped
\* ends some day.
Fairness == WF_vars(Thread) /\ \A p \in Pids : WF_vars(Child(p))

Spec == Init /\ [][Next]_vars /\ Fairness

-----------------------------------------------------------------------------
(* Properties. *)

ChildStates == {"none", "forked", "runs", "zombie", "reaped"}

\* Types and bounds: active_procs never leaves -MaxLines..MaxLines although main and
\* the handler both count it down; the alarm's handler, inside main's call of it, puts
\* a process on the queue at most twice; where the quantum is clamped it has at most
\* 50 ticks; at most one direct call and one handler per signal are on the stack.
TypeOK ==
  /\ prog \in Chosen /\ k \in 1..MaxLines + 1
  /\ status \in {"running", "usage", "failed", "undefined", "ended"}
  /\ q_ticks \in Int /\ ("clamp" \in Statements => q_ticks \in 0..50)
  /\ lines \in 0..MaxLines /\ pcount \in 0..MaxLines
  /\ active_procs \in -MaxLines..MaxLines /\ tmp \in -MaxLines..MaxLines
  /\ ready_queue \in Seq(Pids) /\ Len(ready_queue) <= 2
  /\ current_process \in 0..MaxLines
  /\ \A p \in Pids : child[p].st \in ChildStates
  /\ Len(frames) <= 3

Waiters == {p \in ProgramNames : \E i \in 1..Len(Programs[p].main) : Programs[p].main[i] \in Reaping}

\* A program that waits returns from main only after every child it forked was
\* reaped, whoever reaped it: main's wait or the SIGCHLD handler.
WaitsForEveryChild == status = "ended" /\ prog \in Waiters => Unreaped = {}

\* In the wait loop the count main goes by covers the children not yet reaped: two
\* reapers, and a decrement that is lost between them, never count a child twice.
Owed == Cardinality(Unreaped) + Cardinality({i \in 1..Len(frames) : frames[i].at = "mark"})
CountCoversChildren ==
  status = "running" /\ pc \in Reaping /\ Unreaped # {} =>
    Owed <= CASE sub = "load"  -> active_procs - 1
              [] sub = "store" -> tmp - 1
              [] OTHER         -> active_procs

\* A step that sends p SIGUSR1: main's round of signals, or the SIGALRM handler.
SendsUsr1(p) ==
  \/ Round /\ pc = "usr1" /\ k <= pcount /\ pcb_arr[k].pid = p
  \/ Resume /\ top.sig = "USR1" /\ current.pid = p
AtGate(p) == child[p].st = "forked" /\ ~child[p].usr1 /\ ~child[p].seen

\* The gate of a child is opened once: main's round, and the handler when it runs on
\* the timer's signal, send SIGUSR1 to a child that waits at its gate and was sent none
\* before, in whatever order the handler interrupts main's own call of it.
GateOpenedOnce ==
  [][\A p \in Pids :
       text.gated /\ SendsUsr1(p) /\ (frames # <<>> => top.kind = "ALRM") => AtGate(p)]_vars

\* SIGUSR1 starts a process the first time it is selected and is never sent to a
\* process that was started, as the assignment has it (P1Handout.pdf, part 2): no child
\* of a gated program dies of a signal the scheduler sent.  main's own call of the
\* handler breaks it: two alarms between its test of the flag and its assignment start
\* the process, and main then sends SIGUSR1 a second time.
SchedulerKillsNobody == text.gated => \A p \in Pids : child[p].died \notin {"USR1", "KILL"}

\* The gate of uspsv2 is shut until every command has been forked: no command runs
\* while main still forks.
CommandsStartTogether ==
  prog = "v2" /\ pc \in {"read", "record", "bump", "count"} =>
    \A p \in Pids : child[p].st \in {"none", "forked"}

\* Where the SIGALRM handler uses current_process it is not NULL, although the
\* handler may interrupt main's direct call of itself and the SIGCHLD handler
\* either of them.
NoNullProcess ==
  frames # <<>> /\ top.kind \in {"ALRM", "call"} /\ top.at \notin {"tick", "drop", "next"} => current_process # 0

\* main never waits for ever, neither in wait nor below a handler.
MainEnds == <>(status # "running")

\* In the programs that wait, every forked child gets past its gate and ends.
EveryCommandEnds ==
  \A p \in Pids : child[p].st = "forked" /\ prog \in Waiters ~> child[p].died # "no"
=============================================================================
