------------------------------ MODULE UspsProofs ------------------------------
(***************************************************************************)
(* For any number of commands, timer expirations and quanta, and for every *)
(* scheduler program of Projects/P1: the two reapers of a program count    *)
(* each child once, so that the program waits for all of them; main's      *)
(* round and the handler on the timer's signal open the gate of a child    *)
(* once; and the alarm's handler, interrupting main's call of itself and   *)
(* interrupted by the SIGCHLD handler, never uses a NULL current_process.  *)
(*                                                                         *)
(* The proof has one invariant, Inv below.  After it come the text of the  *)
(* programs, the stack of frames, the children and the process table, each *)
(* with the lemmas that say what a step does to it; then one lemma for     *)
(* each part of Inv, ending in "Step"; the theorems are at the end.        *)
(***************************************************************************)
EXTENDS Usps, FiniteSetTheorems, SequenceTheorems, TLAPS

-----------------------------------------------------------------------------
(* The programs, by the statements of main. *)

V1s == {"v1", "old_v1"}
V2s == {"v2", "old_v2", "test_v2"}
V3s == {"v3", "v4"}
Lates == {"old_v3", "old_v4", "test_v3", "test_v4"}

\* The statements main can be at, up to the fork loop and in each kind of program.
SetupLabels == {"options", "quantum", "open", "sigusr1", "sigusr2", "sigchld", "sigalrm", "clamp", "ticks", "create"}
V1Labels == {"options", "open", "quantum", "read", "record", "bump", "count", "reap1", "close1", "return"}
V2Labels == {"options", "quantum", "open", "sigusr1", "read", "record", "bump", "count",
             "usr1", "stop", "cont", "reap1", "close1", "return"}
V3Labels == {"options", "quantum", "open", "sigusr1", "sigusr2", "sigchld", "sigalrm", "clamp", "ticks", "create",
             "read", "record", "enqueue", "leave", "count", "timer", "dispatch", "pause",
             "close1", "destroy", "usr1", "stop", "cont", "return"}
LateLabels == {"options", "quantum", "open", "sigusr1", "sigusr2", "sigchld", "sigalrm", "ticks", "create",
               "read", "record", "bump", "count", "reap1", "close1", "timer", "dispatch", "pause",
               "close2", "destroy", "usr1", "stop", "cont", "reap2", "close3", "return"}

\* The statements of the SIGALRM handler.
AlarmLabels == {"tick", "alive", "spend", "spent", "preempt", "requeue", "show", "drop", "next",
                "test", "refill", "choose", "clear", "resume"}

-----------------------------------------------------------------------------
(* The inductive invariant: types. *)

Frame == [kind : {"CHLD", "ALRM", "call"}, at : AlarmLabels \union {"waitpid", "mark"},
          pid : 0..MaxLines, left : Int, sig : {"none", "USR1", "CONT"}, decoded : BOOLEAN]
Pcb == [pid : 0..MaxLines, ticks : Int, alive : BOOLEAN, send_usr1 : BOOLEAN]
ChildRec == [st : ChildStates, stopped : BOOLEAN, usr1 : BOOLEAN, seen : BOOLEAN,
             died : {"no", "USR1", "KILL", "exec", "exit"}]

\* main is at a statement its program reaches.
PcInv ==
  /\ prog \in V1s => pc \in V1Labels
  /\ prog \in V2s => pc \in V2Labels
  /\ prog \in V3s => pc \in V3Labels
  /\ prog \in Lates => pc \in LateLabels
MainTypes ==
  /\ prog \in Chosen
  /\ PcInv
  /\ sub \in {"test", "wait", "load", "store"} /\ (sub # "test" => pc \in Reaping)
  /\ k \in 1..MaxLines + 1
  /\ status \in {"running", "usage", "failed", "undefined", "ended"}
  /\ status = "ended" => pc = "return"
SetupTypes ==
  /\ handles \subseteq {"USR1", "USR2", "CHLD", "ALRM"} /\ Q \in Int /\ q_ticks \in Int
DataTypes ==
  /\ lines \in 0..MaxLines /\ pcount \in 0..MaxLines /\ active_procs \in Int /\ tmp \in Int
  /\ pcb_arr \in [Pids -> Pcb]
  /\ ready_queue \in Seq(Pids) /\ destroyed \in BOOLEAN /\ current_process \in 0..MaxLines
KernelTypes ==
  /\ armed \in BOOLEAN /\ pending \subseteq {"CHLD", "ALRM"}
  /\ child \in [Pids -> ChildRec]

-----------------------------------------------------------------------------
(* The inductive invariant: the parts that carry the argument. *)

\* A handler blocks its own signal, so there is one frame of a kind; main's call is
\* the outermost frame.
FramesInv ==
  /\ frames \in Seq(Frame)
  /\ \A i, j \in 1..Len(frames) : frames[i].kind = frames[j].kind => i = j
  /\ \A i \in 1..Len(frames) : frames[i].kind = "call" => i = 1
  /\ \A i \in 1..Len(frames) : frames[i].kind = "CHLD" <=> frames[i].at \in {"waitpid", "mark"}
  /\ \A i \in 1..Len(frames) : frames[i].at = "resume" => frames[i].sig # "none"
  /\ \A i \in 1..Len(frames) : frames[i].at = "show" => prog \in {"v4", "old_v4", "test_v4"}

\* The SIGCHLD handler, the SIGALRM handler and main's call of it, wherever they are
\* on the stack.
NoFrame == [kind |-> "none", at |-> "none", pid |-> 0, left |-> 0, sig |-> "none", decoded |-> TRUE]
FrameIn(fs, kind) ==
  IF \E i \in 1..Len(fs) : fs[i].kind = kind
  THEN fs[CHOOSE i \in 1..Len(fs) : fs[i].kind = kind] ELSE NoFrame
chld == FrameIn(frames, "CHLD")
alrm == FrameIn(frames, "ALRM")
call == FrameIn(frames, "call")

\* uspsv1 and uspsv2 have no handler of SIGCHLD or SIGALRM, and no timer.
QuietInv == prog \in V1s \union V2s =>
   handles \subseteq {"USR1"} /\ pending = {} /\ ~armed /\ frames = <<>>

\* Pids are given in order, and entry i of the table is that of child i.  uspsv3 and
\* uspsv4 leave the fork loop with one child and pcount = 0.
Forked == NextPid - 1
CountInv ==
  /\ Forked \in 0..MaxLines
  /\ \A p \in Pids : child[p].st = "none" => child[p] = NoChild
  /\ \A p \in Pids : child[p].st # "none" <=> p <= Forked
  /\ Forked + lines <= MaxLines
  /\ pc \in SetupLabels => Forked = 0
  /\ prog \notin V3s => pcount = IF pc \in {"record", "bump"} THEN Forked - 1 ELSE Forked
  /\ prog \in V3s => /\ pcount = 0 /\ Forked <= 1
                     /\ pc = "read" => Forked = 0
                     /\ pc \in {"record", "enqueue", "leave"} => Forked = 1
  /\ pc \in {"record", "bump"} => Forked >= 1
  /\ \A i \in Pids : i <= Forked /\ (pc = "record" => i < Forked) => pcb_arr[i].pid = i

\* The quantum a clamped program computes.
QuantumInv ==
  prog \in V3s => /\ q_ticks \in 0..50
                  /\ pc = "ticks" => Q \in 20..1000

\* The two reapers.  Left children are not reaped, Marks reaped and not yet counted
\* by the SIGCHLD handler.  In the wait loop the count covers both.
Marks == IF chld.at = "mark" THEN 1 ELSE 0
Left == Cardinality(Unreaped)
Afterwards == {"close1", "timer", "dispatch", "pause", "close2", "destroy", "usr1", "stop", "cont", "reap2", "close3", "return"}
Reaped == \/ prog \in Lates /\ pc \in Afterwards
          \/ prog \in V1s \union V2s /\ pc \in {"close1", "return"}
ReapInv ==
  /\ active_procs <= MaxLines /\ tmp \in -MaxLines..MaxLines
  /\ active_procs >= Left + Marks - Forked
  /\ sub \in {"wait", "load"} => active_procs >= Left + Marks - Forked + 1
  /\ sub = "store" => tmp >= Left + Marks - Forked + 1
  /\ Reaped => Unreaped = {}
  /\ prog \in V2s /\ pc \in {"usr1", "stop", "cont"} => active_procs = pcount
  /\ pc \in Reaping /\ Unreaped # {} =>
       /\ sub \in {"test", "wait"} => Left + Marks <= active_procs
       /\ sub = "load" => Left + Marks <= active_procs - 1
       /\ sub = "store" => Left + Marks <= tmp - 1

\* The scheduler.  Its one process is current_process or on the queue, and once more
\* on the queue for each run of the handler between requeue and drop (Twice).  So a
\* handler that interrupts main's call leaves current_process set where the call
\* goes on to use it.
UsePcs == {"alive", "spend", "spent", "preempt", "requeue", "show", "drop",
           "test", "refill", "choose", "clear", "resume"}
Twice(f) == IF f.at \in {"show", "drop"} THEN 1 ELSE 0
Queued == prog \in V3s /\ Forked = 1 /\ pc \notin {"record", "enqueue"}
PostDestroy == {"usr1", "stop", "cont", "return", "reap2", "close3"}
SchedInv ==
  /\ alrm.at \in UsePcs => current_process # 0
  /\ alrm.at = "next" => current_process = 0
  /\ alrm.at = "none" /\ call.at \in UsePcs => current_process # 0
  /\ ~destroyed => Len(ready_queue) + (IF current_process = 0 THEN 0 ELSE 1)
                     = (IF Queued THEN 1 ELSE 0) + Twice(alrm) + Twice(call)
  /\ destroyed => call.at = "none" /\ pc \in PostDestroy /\ prog \notin V1s \union V2s
  /\ ~Queued => current_process = 0 /\ ready_queue = <<>> /\ alrm.at \notin UsePcs /\ call.at \notin UsePcs
  /\ Queued => pcb_arr[1].alive /\ current_process \in {0, 1} /\ \A i \in 1..Len(ready_queue) : ready_queue[i] = 1
  /\ Len(ready_queue) <= 2
  /\ prog \in V3s /\ pc = "enqueue" => pcb_arr[1].alive

\* The gate.  A gated child has seen SIGUSR1 when it runs.  main's round sends it
\* once.  The entry's flag says that it is still to be sent, and a handler that runs on
\* the timer's signal sends it only when it took the flag itself; main's call may have
\* tested the flag before such a handler took it.
Unsent(p) == ~child[p].usr1 /\ ~child[p].seen
Carries(f) == f.at = "resume" /\ f.sig = "USR1"
V3Gate ==
  /\ pc \in SetupLabels \union {"read", "record"} =>
       \A p \in Pids : Unsent(p) /\ ~pcb_arr[p].send_usr1
  /\ 1 \in Pids /\ (pcb_arr[1].send_usr1 \/ Carries(alrm)) => Unsent(1)
  /\ 1 \in Pids /\ alrm.at = "clear" => pcb_arr[1].send_usr1
  /\ 1 \in Pids /\ pcb_arr[1].send_usr1 => ~Carries(alrm) /\ ~Carries(call)
V2Gate ==
  \A p \in Pids : pc \in SetupLabels \union {"read", "record", "bump", "count"} \/ (pc = "usr1" /\ p >= k) => Unsent(p)
GateInv ==
  prog \in V3s \union {"v2"} =>
    /\ \A p \in Pids : child[p].st \in {"runs", "zombie", "reaped"} => child[p].seen
    /\ prog = "v2" => V2Gate
    /\ prog \in V3s => V3Gate

Inv ==
  /\ MainTypes /\ SetupTypes /\ DataTypes /\ KernelTypes
  /\ FramesInv /\ QuietInv /\ CountInv /\ QuantumInv /\ ReapInv /\ SchedInv /\ GateInv

-----------------------------------------------------------------------------
(* The text of the programs. *)

\* The statement after one that occurs once.
LEMMA Follows ==
  ASSUME NEW M, NEW n \in Nat, Len(M) = n, \A i, j \in 1..n - 1 : M[i] = M[j] => i = j,
         NEW i \in 1..n - 1
  PROVE  After(M, M[i]) = M[i + 1]
<1>1. (CHOOSE j \in 1..Len(M) - 1 : M[j] = M[i]) = i
  OBVIOUS
<1> QED BY <1>1 DEF After

\* A concatenation, by its elements.
LEMMA Joined ==
  ASSUME NEW S, NEW s \in Seq(S), NEW t \in Seq(S), NEW u \in Seq(S), Len(u) = Len(s) + Len(t),
         \A i \in 1..Len(s) : u[i] = s[i], \A i \in 1..Len(t) : u[Len(s) + i] = t[i]
  PROVE  s \o t = u
<1>1. Len(s \o t) = Len(u) /\ s \o t \in Seq(S)
  BY ConcatProperties
<1>2. ASSUME NEW i \in 1..Len(s) + Len(t) PROVE (s \o t)[i] = u[i]
  <2>1. CASE i <= Len(s)
    BY <2>1, ConcatProperties
  <2>2. CASE ~(i <= Len(s))
    <3>1. i - Len(s) \in 1..Len(t) /\ u[Len(s) + (i - Len(s))] = t[i - Len(s)] /\ Len(s) + (i - Len(s)) = i
      BY <2>2
    <3>2. (s \o t)[i] = t[i - Len(s)]
      BY <2>2, ConcatProperties
    <3> QED BY <3>1, <3>2
  <2> QED BY <2>1, <2>2
<1> QED BY <1>1, <1>2, SeqEqual

\* What the texts of the programs amount to: setup \o body.
V1Main == <<"options", "open", "quantum", "read", "record", "bump", "count", "reap1",
            "close1", "return">>

V2Main == <<"options", "quantum", "open", "sigusr1", "read", "record", "bump", "count",
            "usr1", "stop", "cont", "reap1", "close1", "return">>

V3Main == <<"options", "quantum", "open", "sigusr1", "sigusr2", "sigchld", "sigalrm",
            "clamp", "ticks", "create", "read", "record", "enqueue", "leave", "bump",
            "count", "timer", "dispatch", "pause", "close1", "destroy", "usr1", "stop",
            "cont", "return">>

LateMain == <<"options", "quantum", "open", "sigusr1", "sigusr2", "sigchld", "sigalrm",
              "ticks", "create", "read", "record", "bump", "count", "reap1", "close1",
              "timer", "dispatch", "pause", "close2", "destroy", "usr1", "stop", "cont",
              "reap2", "close3", "return">>

Words == {"options", "quantum", "open", "sigusr1", "sigusr2", "sigchld", "sigalrm",
           "clamp", "ticks", "create", "read", "record", "enqueue", "leave", "bump",
           "count", "timer", "dispatch", "pause", "close1", "destroy", "usr1", "stop",
           "cont", "return", "reap1", "close2", "reap2", "close3"}

\* The order of the statements of each text.
LEMMA V1Flow ==
  /\ After(V1Main, "options") = "open"
  /\ After(V1Main, "open") = "quantum"
  /\ After(V1Main, "quantum") = "read"
  /\ After(V1Main, "read") = "record"
  /\ After(V1Main, "record") = "bump"
  /\ After(V1Main, "bump") = "count"
  /\ After(V1Main, "count") = "reap1"
  /\ After(V1Main, "reap1") = "close1"
  /\ After(V1Main, "close1") = "return"
<1>1. \A i, j \in 1..10 - 1 : V1Main[i] = V1Main[j] => i = j
  BY DEF V1Main
<1>2. \A i \in 1..10 - 1 : After(V1Main, V1Main[i]) = V1Main[i + 1]
  BY <1>1, Follows DEF V1Main
<1> QED BY <1>2 DEF V1Main

LEMMA V2Flow ==
  /\ After(V2Main, "options") = "quantum"
  /\ After(V2Main, "quantum") = "open"
  /\ After(V2Main, "open") = "sigusr1"
  /\ After(V2Main, "sigusr1") = "read"
  /\ After(V2Main, "read") = "record"
  /\ After(V2Main, "record") = "bump"
  /\ After(V2Main, "bump") = "count"
  /\ After(V2Main, "count") = "usr1"
  /\ After(V2Main, "usr1") = "stop"
  /\ After(V2Main, "stop") = "cont"
  /\ After(V2Main, "cont") = "reap1"
  /\ After(V2Main, "reap1") = "close1"
  /\ After(V2Main, "close1") = "return"
<1>1. \A i, j \in 1..14 - 1 : V2Main[i] = V2Main[j] => i = j
  BY DEF V2Main
<1>2. \A i \in 1..14 - 1 : After(V2Main, V2Main[i]) = V2Main[i + 1]
  BY <1>1, Follows DEF V2Main
<1> QED BY <1>2 DEF V2Main

LEMMA V3Flow ==
  /\ After(V3Main, "options") = "quantum"
  /\ After(V3Main, "quantum") = "open"
  /\ After(V3Main, "open") = "sigusr1"
  /\ After(V3Main, "sigusr1") = "sigusr2"
  /\ After(V3Main, "sigusr2") = "sigchld"
  /\ After(V3Main, "sigchld") = "sigalrm"
  /\ After(V3Main, "sigalrm") = "clamp"
  /\ After(V3Main, "clamp") = "ticks"
  /\ After(V3Main, "ticks") = "create"
  /\ After(V3Main, "create") = "read"
  /\ After(V3Main, "read") = "record"
  /\ After(V3Main, "record") = "enqueue"
  /\ After(V3Main, "enqueue") = "leave"
  /\ After(V3Main, "leave") = "bump"
  /\ After(V3Main, "bump") = "count"
  /\ After(V3Main, "count") = "timer"
  /\ After(V3Main, "timer") = "dispatch"
  /\ After(V3Main, "dispatch") = "pause"
  /\ After(V3Main, "pause") = "close1"
  /\ After(V3Main, "close1") = "destroy"
  /\ After(V3Main, "destroy") = "usr1"
  /\ After(V3Main, "usr1") = "stop"
  /\ After(V3Main, "stop") = "cont"
  /\ After(V3Main, "cont") = "return"
<1>1. \A i, j \in 1..25 - 1 : V3Main[i] = V3Main[j] => i = j
  BY DEF V3Main
<1>2. \A i \in 1..25 - 1 : After(V3Main, V3Main[i]) = V3Main[i + 1]
  BY <1>1, Follows DEF V3Main
<1> QED BY <1>2 DEF V3Main

LEMMA LateFlow ==
  /\ After(LateMain, "options") = "quantum"
  /\ After(LateMain, "quantum") = "open"
  /\ After(LateMain, "open") = "sigusr1"
  /\ After(LateMain, "sigusr1") = "sigusr2"
  /\ After(LateMain, "sigusr2") = "sigchld"
  /\ After(LateMain, "sigchld") = "sigalrm"
  /\ After(LateMain, "sigalrm") = "ticks"
  /\ After(LateMain, "ticks") = "create"
  /\ After(LateMain, "create") = "read"
  /\ After(LateMain, "read") = "record"
  /\ After(LateMain, "record") = "bump"
  /\ After(LateMain, "bump") = "count"
  /\ After(LateMain, "count") = "reap1"
  /\ After(LateMain, "reap1") = "close1"
  /\ After(LateMain, "close1") = "timer"
  /\ After(LateMain, "timer") = "dispatch"
  /\ After(LateMain, "dispatch") = "pause"
  /\ After(LateMain, "pause") = "close2"
  /\ After(LateMain, "close2") = "destroy"
  /\ After(LateMain, "destroy") = "usr1"
  /\ After(LateMain, "usr1") = "stop"
  /\ After(LateMain, "stop") = "cont"
  /\ After(LateMain, "cont") = "reap2"
  /\ After(LateMain, "reap2") = "close3"
  /\ After(LateMain, "close3") = "return"
<1>1. \A i, j \in 1..26 - 1 : LateMain[i] = LateMain[j] => i = j
  BY DEF LateMain
<1>2. \A i \in 1..26 - 1 : After(LateMain, LateMain[i]) = LateMain[i + 1]
  BY <1>1, Follows DEF LateMain
<1> QED BY <1>2 DEF LateMain

\* The same of the SIGALRM handlers.
LEMMA SilentFlow ==
  /\ After(Silent, "tick") = "alive"
  /\ After(Silent, "alive") = "spend"
  /\ After(Silent, "spend") = "spent"
  /\ After(Silent, "spent") = "preempt"
  /\ After(Silent, "preempt") = "requeue"
  /\ After(Silent, "requeue") = "drop"
  /\ After(Silent, "drop") = "next"
  /\ After(Silent, "next") = "test"
  /\ After(Silent, "test") = "refill"
  /\ After(Silent, "refill") = "choose"
  /\ After(Silent, "choose") = "clear"
  /\ After(Silent, "clear") = "resume"
<1>1. \A i, j \in 1..13 - 1 : Silent[i] = Silent[j] => i = j
  BY DEF Silent
<1>2. \A i \in 1..13 - 1 : After(Silent, Silent[i]) = Silent[i + 1]
  BY <1>1, Follows DEF Silent
<1> QED BY <1>2 DEF Silent

LEMMA ShowingFlow ==
  /\ After(Showing, "tick") = "alive"
  /\ After(Showing, "alive") = "spend"
  /\ After(Showing, "spend") = "spent"
  /\ After(Showing, "spent") = "preempt"
  /\ After(Showing, "preempt") = "requeue"
  /\ After(Showing, "requeue") = "show"
  /\ After(Showing, "show") = "drop"
  /\ After(Showing, "drop") = "next"
  /\ After(Showing, "next") = "test"
  /\ After(Showing, "test") = "refill"
  /\ After(Showing, "refill") = "choose"
  /\ After(Showing, "choose") = "clear"
  /\ After(Showing, "clear") = "resume"
<1>1. \A i, j \in 1..14 - 1 : Showing[i] = Showing[j] => i = j
  BY DEF Showing
<1>2. \A i \in 1..14 - 1 : After(Showing, Showing[i]) = Showing[i + 1]
  BY <1>1, Follows DEF Showing
<1> QED BY <1>2 DEF Showing

\* The texts of the programs are these sequences.
LEMMA V1Flat ==
  /\ V1Setup \o V1Body = V1Main
  /\ OldV1Setup \o OldV1Body = V1Main
<1>1. V1Setup \in Seq(Words) /\ V1Body \in Seq(Words)
  BY DEF V1Setup, V1Body, Words
<1>2. V1Main \in Seq(Words) /\ Len(V1Main) = Len(V1Setup) + Len(V1Body)
  BY DEF V1Main, V1Setup, V1Body, Words
<1>3. \A i \in 1..Len(V1Setup) : V1Main[i] = V1Setup[i]
  BY DEF V1Setup, V1Main
<1>4. \A i \in 1..Len(V1Body) : V1Main[Len(V1Setup) + i] = V1Body[i]
  BY DEF V1Setup, V1Body, V1Main
<1>5. V1Setup \o V1Body = V1Main
  BY <1>1, <1>2, <1>3, <1>4, Joined
<1>6. OldV1Setup = V1Setup /\ OldV1Body = V1Body
  BY DEF V1Setup, V1Body, OldV1Setup, OldV1Body
<1> QED BY <1>5, <1>6

LEMMA V2Flat ==
  /\ V2Setup \o V2Body = V2Main
  /\ OldV2Setup \o OldV2Body = V2Main
  /\ TestV2Setup \o TestV2Body = V2Main
<1>1. V2Setup \in Seq(Words) /\ V2Body \in Seq(Words)
  BY DEF V2Setup, V2Body, Words
<1>2. V2Main \in Seq(Words) /\ Len(V2Main) = Len(V2Setup) + Len(V2Body)
  BY DEF V2Main, V2Setup, V2Body, Words
<1>3. \A i \in 1..Len(V2Setup) : V2Main[i] = V2Setup[i]
  BY DEF V2Setup, V2Main
<1>4. \A i \in 1..Len(V2Body) : V2Main[Len(V2Setup) + i] = V2Body[i]
  BY DEF V2Setup, V2Body, V2Main
<1>5. V2Setup \o V2Body = V2Main
  BY <1>1, <1>2, <1>3, <1>4, Joined
<1>6. OldV2Setup = V2Setup /\ OldV2Body = V2Body /\ TestV2Setup = V2Setup /\ TestV2Body = V2Body
  BY DEF V2Setup, V2Body, OldV2Setup, OldV2Body, TestV2Setup, TestV2Body
<1> QED BY <1>5, <1>6

LEMMA V3Flat ==
  /\ V3Setup \o V3Body = V3Main
  /\ V4Setup \o V4Body = V3Main
<1>1. V3Setup \in Seq(Words) /\ V3Body \in Seq(Words)
  BY DEF V3Setup, V3Body, Words
<1>2. V3Main \in Seq(Words) /\ Len(V3Main) = Len(V3Setup) + Len(V3Body)
  BY DEF V3Main, V3Setup, V3Body, Words
<1>3. \A i \in 1..Len(V3Setup) : V3Main[i] = V3Setup[i]
  BY DEF V3Setup, V3Main
<1>4. \A i \in 1..Len(V3Body) : V3Main[Len(V3Setup) + i] = V3Body[i]
  BY DEF V3Setup, V3Body, V3Main
<1>5. V3Setup \o V3Body = V3Main
  BY <1>1, <1>2, <1>3, <1>4, Joined
<1>6. V4Setup = V3Setup /\ V4Body = V3Body
  BY DEF V3Setup, V3Body, V4Setup, V4Body
<1> QED BY <1>5, <1>6

LEMMA LateFlat ==
  /\ OldV3Setup \o LateBody = LateMain
  /\ OldV3Setup \o OldV3Body = LateMain
  /\ OldV4Setup \o OldV4Body = LateMain
  /\ TestV3Setup \o TestV3Body = LateMain
  /\ TestV4Setup \o TestV4Body = LateMain
<1>1. OldV3Setup \in Seq(Words) /\ LateBody \in Seq(Words)
  BY DEF OldV3Setup, LateBody, Words
<1>2. LateMain \in Seq(Words) /\ Len(LateMain) = Len(OldV3Setup) + Len(LateBody)
  BY DEF LateMain, OldV3Setup, LateBody, Words
<1>3. \A i \in 1..Len(OldV3Setup) : LateMain[i] = OldV3Setup[i]
  BY DEF OldV3Setup, LateMain
<1>4. \A i \in 1..Len(LateBody) : LateMain[Len(OldV3Setup) + i] = LateBody[i]
  BY DEF OldV3Setup, LateBody, LateMain
<1>5. OldV3Setup \o LateBody = LateMain
  BY <1>1, <1>2, <1>3, <1>4, Joined
<1>6. OldV3Setup = OldV3Setup /\ OldV4Setup = OldV3Setup /\ TestV3Setup = OldV3Setup /\ TestV4Setup = OldV3Setup
  BY DEF OldV3Setup, OldV4Setup, TestV3Setup, TestV4Setup
<1>7. OldV3Body = LateBody /\ OldV4Body = LateBody /\ TestV3Body = LateBody /\ TestV4Body = LateBody
  BY DEF OldV3Body, OldV4Body, TestV3Body, TestV4Body
<1> QED BY <1>5, <1>6, <1>7

\* What the text of a program is made of.
LEMMA TextOf ==
  ASSUME prog \in ProgramNames
  PROVE  /\ prog \in V1s => text.main = V1Main
         /\ prog \in V2s => text.main = V2Main
         /\ prog \in V3s => text.main = V3Main
         /\ prog \in Lates => text.main = LateMain
         /\ text.gated <=> prog \in V3s \union {"v2"}
         /\ prog \in {"v3", "old_v3", "test_v3"} => text.onalarm = Silent
         /\ prog \in {"v4", "old_v4", "test_v4"} => text.onalarm = Showing
<1>1. /\ prog \in V1s => text.main = V1Main
      /\ prog \in V2s => text.main = V2Main
      /\ prog \in V3s => text.main = V3Main
      /\ prog \in Lates => text.main = LateMain
  BY V1Flat, V2Flat, V3Flat, LateFlat DEF text, Programs, ProgramNames, Text, V1s, V2s, V3s, Lates
<1>2. text.gated <=> prog \in V3s \union {"v2"}
  BY DEF text, Programs, ProgramNames, Text, V3s
<1>3. prog \in {"v3", "old_v3", "test_v3"} => text.onalarm = Silent
  BY DEF text, Programs, ProgramNames, Text, OldV3OnAlarm, TestV3OnAlarm, V3OnAlarm
<1>4. prog \in {"v4", "old_v4", "test_v4"} => text.onalarm = Showing
  BY DEF text, Programs, ProgramNames, Text, OldV4OnAlarm, TestV4OnAlarm, V4OnAlarm
<1> QED BY <1>1, <1>2, <1>3, <1>4

\* Every program is of one of the four kinds.
LEMMA Classes == ProgramNames = V1s \union V2s \union V3s \union Lates
BY DEF ProgramNames, V1s, V2s, V3s, Lates

\* From a statement before the fork loop main goes on to another, or to the loop.
LEMMA SetupFlow ==
  ASSUME prog \in ProgramNames, PcInv, pc \in SetupLabels
  PROVE  /\ prog \in V1s => After(text.main, pc) \in V1Labels
         /\ prog \in V2s => After(text.main, pc) \in V2Labels
         /\ prog \in V3s => After(text.main, pc) \in V3Labels
         /\ prog \in Lates => After(text.main, pc) \in LateLabels
         /\ After(text.main, pc) \in SetupLabels \union {"read"}
         /\ prog \in V3s => (After(text.main, pc) = "ticks" <=> pc = "clamp")
<1>1. CASE prog \in V1s
  <2>1. prog \notin V3s /\ prog \notin V2s /\ prog \notin Lates
    BY <1>1 DEF V1s, V2s, V3s, Lates
  <2>2. pc \in {"options", "open", "quantum"}
    BY <1>1 DEF PcInv, V1Labels, SetupLabels
  <2>3. After(text.main, pc) \in {"open", "quantum", "read"}
    BY <1>1, <2>2, TextOf, V1Flow
  <2> QED BY <1>1, <2>1, <2>3 DEF V1Labels, SetupLabels
<1>2. CASE prog \in V2s
  <2>1. prog \notin V3s /\ prog \notin V1s /\ prog \notin Lates
    BY <1>2 DEF V1s, V2s, V3s, Lates
  <2>2. pc \in {"options", "quantum", "open", "sigusr1"}
    BY <1>2 DEF PcInv, V2Labels, SetupLabels
  <2>3. After(text.main, pc) \in {"quantum", "open", "sigusr1", "read"}
    BY <1>2, <2>2, TextOf, V2Flow
  <2> QED BY <1>2, <2>1, <2>3 DEF V2Labels, SetupLabels
<1>3. CASE prog \in V3s
  <2>1. prog \notin V2s /\ prog \notin V1s /\ prog \notin Lates
    BY <1>3 DEF V1s, V2s, V3s, Lates
  <2> QED BY <1>3, <2>1, TextOf, V3Flow DEF PcInv, V3Labels, SetupLabels
<1>4. CASE prog \in Lates
  <2>1. prog \notin V2s /\ prog \notin V1s /\ prog \notin V3s
    BY <1>4 DEF V1s, V2s, V3s, Lates
  <2>2. pc \in {"options", "quantum", "open", "sigusr1", "sigusr2", "sigchld", "sigalrm", "ticks", "create"}
    BY <1>4 DEF PcInv, LateLabels, SetupLabels
  <2>3. After(text.main, pc) \in {"quantum", "open", "sigusr1", "sigusr2", "sigchld", "sigalrm", "ticks", "create", "read"}
    BY <1>4, <2>2, TextOf, LateFlow
  <2> QED BY <1>4, <2>1, <2>3 DEF LateLabels, SetupLabels
<1> QED BY <1>1, <1>2, <1>3, <1>4, Classes

\* Where main goes on to after the loop, and in it.
LEMMA MainFlow ==
  ASSUME prog \in ProgramNames
  PROVE  /\ After(text.main, "read") = "record"
         /\ prog \in V3s => After(text.main, "record") = "enqueue" /\ After(text.main, "enqueue") = "leave"
         /\ prog \notin V3s => After(text.main, "record") = "bump"
         /\ prog \in V1s \union Lates => After(text.main, "count") = "reap1"
         /\ prog \in V2s => After(text.main, "count") = "usr1" /\ After(text.main, "cont") = "reap1"
         /\ prog \in V3s => After(text.main, "count") = "timer" /\ After(text.main, "pause") = "close1"
                            /\ After(text.main, "close1") = "destroy" /\ After(text.main, "cont") = "return"
         /\ prog \notin V3s => After(text.main, "reap1") = "close1"
         /\ prog \in V1s \union V2s => After(text.main, "close1") = "return"
         /\ prog \in Lates => /\ After(text.main, "close1") = "timer" /\ After(text.main, "pause") = "close2"
                              /\ After(text.main, "close2") = "destroy" /\ After(text.main, "cont") = "reap2"
                              /\ After(text.main, "reap2") = "close3" /\ After(text.main, "close3") = "return"
         /\ prog \in V3s \union Lates => /\ After(text.main, "timer") = "dispatch"
                                         /\ After(text.main, "dispatch") = "pause"
                                         /\ After(text.main, "destroy") = "usr1"
         /\ prog \notin V1s => After(text.main, "usr1") = "stop" /\ After(text.main, "stop") = "cont"
<1>1. CASE prog \in V1s
  <2>1. prog \notin V3s /\ prog \notin V2s /\ prog \notin Lates
    BY <1>1 DEF V1s, V2s, V3s, Lates
  <2> QED BY <1>1, <2>1, TextOf, V1Flow
<1>2. CASE prog \in V2s
  <2>1. prog \notin V3s /\ prog \notin V1s /\ prog \notin Lates
    BY <1>2 DEF V1s, V2s, V3s, Lates
  <2> QED BY <1>2, <2>1, TextOf, V2Flow
<1>3. CASE prog \in V3s
  <2>1. prog \notin V2s /\ prog \notin V1s /\ prog \notin Lates
    BY <1>3 DEF V1s, V2s, V3s, Lates
  <2> QED BY <1>3, <2>1, TextOf, V3Flow
<1>4. CASE prog \in Lates
  <2>1. prog \notin V2s /\ prog \notin V1s /\ prog \notin V3s
    BY <1>4 DEF V1s, V2s, V3s, Lates
  <2> QED BY <1>4, <2>1, TextOf, LateFlow
<1> QED BY <1>1, <1>2, <1>3, <1>4, Classes

\* Which programs enqueue, clamp the quantum and close twice.
LEMMA StatementsOf ==
  ASSUME prog \in ProgramNames
  PROVE  /\ "enqueue" \in Statements <=> prog \in V3s
         /\ "clamp" \in Statements <=> prog \in V3s
         /\ "close2" \in Statements <=> prog \in Lates
<1>1. CASE prog \in V1s
  <2>1. prog \notin V3s /\ prog \notin V2s /\ prog \notin Lates
    BY <1>1 DEF V1s, V2s, V3s, Lates
  <2>2. Len(V1Main) = 10 /\ \A i \in 1..10 : V1Main[i] \notin {"enqueue", "clamp", "close2"}
    BY DEF V1Main
  <2> QED BY <1>1, <2>1, <2>2, TextOf DEF Statements
<1>2. CASE prog \in V2s
  <2>1. prog \notin V3s /\ prog \notin V1s /\ prog \notin Lates
    BY <1>2 DEF V1s, V2s, V3s, Lates
  <2>2. Len(V2Main) = 14 /\ \A i \in 1..14 : V2Main[i] \notin {"enqueue", "clamp", "close2"}
    BY DEF V2Main
  <2> QED BY <1>2, <2>1, <2>2, TextOf DEF Statements
<1>3. CASE prog \in V3s
  <2>1. prog \notin V2s /\ prog \notin V1s /\ prog \notin Lates
    BY <1>3 DEF V1s, V2s, V3s, Lates
  <2>2. Len(V3Main) = 25 /\ V3Main[13] = "enqueue" /\ V3Main[8] = "clamp"
        /\ \A i \in 1..25 : V3Main[i] # "close2"
    BY DEF V3Main
  <2>3. Len(text.main) = 25 /\ text.main = V3Main
    BY <1>3, <2>2, TextOf
  <2> HIDE DEF V3Main
  <2> QED BY <1>3, <2>1, <2>2, <2>3 DEF Statements
<1>4. CASE prog \in Lates
  <2>1. prog \notin V2s /\ prog \notin V1s /\ prog \notin V3s
    BY <1>4 DEF V1s, V2s, V3s, Lates
  <2>2. Len(LateMain) = 26 /\ LateMain[19] = "close2"
        /\ \A i \in 1..26 : LateMain[i] \notin {"enqueue", "clamp"}
    BY DEF LateMain
  <2>3. Len(text.main) = 26 /\ text.main = LateMain
    BY <1>4, <2>2, TextOf
  <2> HIDE DEF LateMain
  <2> QED BY <1>4, <2>1, <2>2, <2>3 DEF Statements
<1> QED BY <1>1, <1>2, <1>3, <1>4, Classes

\* Where the SIGALRM handler goes on to.
LEMMA AlarmFlow ==
  ASSUME prog \in V3s \union Lates
  PROVE  /\ After(text.onalarm, "tick") = "alive" /\ After(text.onalarm, "alive") = "spend"
         /\ After(text.onalarm, "spend") = "spent" /\ After(text.onalarm, "spent") = "preempt"
         /\ After(text.onalarm, "preempt") = "requeue"
         /\ After(text.onalarm, "requeue") \in {"show", "drop"}
         /\ After(text.onalarm, "requeue") = "show" => prog \in {"v4", "old_v4", "test_v4"}
         /\ prog \in {"v4", "old_v4", "test_v4"} => After(text.onalarm, "show") = "drop"
         /\ After(text.onalarm, "next") = "test" /\ After(text.onalarm, "test") = "refill"
         /\ After(text.onalarm, "refill") = "choose" /\ After(text.onalarm, "choose") = "clear"
<1>1. prog \in ProgramNames /\ (prog \in {"v4", "old_v4", "test_v4"} \/ prog \in {"v3", "old_v3", "test_v3"})
  BY DEF V3s, Lates, ProgramNames
<1>2. CASE prog \in {"v4", "old_v4", "test_v4"}
  BY <1>1, <1>2, TextOf, ShowingFlow
<1>3. CASE prog \in {"v3", "old_v3", "test_v3"}
  <2>1. prog \notin {"v4", "old_v4", "test_v4"}
    BY <1>3
  <2> QED BY <1>1, <1>3, <2>1, TextOf, SilentFlow
<1> QED BY <1>1, <1>2, <1>3

\* The programs that wait: all but uspsv3 and uspsv4 at the top of P1.
LEMMA WaitersAre == ASSUME prog \in ProgramNames PROVE prog \in Waiters <=> prog \notin V3s
<1>1. prog \in Waiters <=> \E i \in 1..Len(text.main) : text.main[i] \in Reaping
  BY DEF Waiters, text
<1>2. CASE prog \in V1s
  <2>1. Len(V1Main) = 10 /\ V1Main[8] \in Reaping
    BY DEF V1Main, Reaping
  <2> QED BY <1>1, <1>2, <2>1, TextOf DEF V1s, V3s
<1>3. CASE prog \in V2s
  <2>1. Len(V2Main) = 14 /\ V2Main[12] \in Reaping
    BY DEF V2Main, Reaping
  <2> QED BY <1>1, <1>3, <2>1, TextOf DEF V2s, V3s
<1>4. CASE prog \in V3s
  <2>1. Len(V3Main) = 25 /\ \A i \in 1..25 : V3Main[i] \notin Reaping
    BY DEF V3Main, Reaping
  <2> QED BY <1>1, <1>4, <2>1, TextOf
<1>5. CASE prog \in Lates
  <2>1. Len(LateMain) = 26 /\ LateMain[14] \in Reaping
    BY DEF LateMain, Reaping
  <2>2. prog \notin V3s /\ Len(text.main) = 26 /\ text.main[14] \in Reaping
    BY <1>5, <2>1, TextOf DEF Lates, V3s
  <2> QED BY <1>1, <2>2
<1> QED BY <1>2, <1>3, <1>4, <1>5, Classes

-----------------------------------------------------------------------------
(* The stack of frames. *)

\* One frame of a kind, and what a step does to the innermost one.
Unique(fs) == \A i, j \in 1..Len(fs) : fs[i].kind = fs[j].kind => i = j

Put(fs, g) == [fs EXCEPT ![Len(fs)] = g]
Dropped(fs) == SubSeq(fs, 1, Len(fs) - 1)
Added(fs, g) == Append(fs, g)

\* The frame of a kind.
LEMMA FrameFound ==
  ASSUME NEW fs, Unique(fs), NEW i \in 1..Len(fs), NEW kind, fs[i].kind = kind
  PROVE  FrameIn(fs, kind) = fs[i]
<1>1. \A j \in 1..Len(fs) : fs[j].kind = kind <=> j = i
  BY DEF Unique
<1>2. (CHOOSE j \in 1..Len(fs) : fs[j].kind = kind) = i
  BY <1>1
<1> QED BY <1>2 DEF FrameIn

\* The frame of a kind in a stack with the same frames of it.
LEMMA FrameKept ==
  ASSUME NEW fs, NEW gs, NEW kind, Unique(fs),
         \A i \in 1..Len(fs) : fs[i].kind = kind => i \in 1..Len(gs) /\ gs[i] = fs[i],
         \A i \in 1..Len(gs) : gs[i].kind = kind => i \in 1..Len(fs) /\ gs[i] = fs[i]
  PROVE  FrameIn(gs, kind) = FrameIn(fs, kind)
<1>1. CASE \E i \in 1..Len(fs) : fs[i].kind = kind
  <2>1. PICK i \in 1..Len(fs) : fs[i].kind = kind
    BY <1>1
  <2>2. \A j \in 1..Len(fs) : fs[j].kind = kind <=> j = i
    BY <2>1 DEF Unique
  <2>3. \A j \in 1..Len(gs) : gs[j].kind = kind <=> j = i
    BY <2>1, <2>2
  <2>4. (CHOOSE j \in 1..Len(fs) : fs[j].kind = kind) = i /\ (CHOOSE j \in 1..Len(gs) : gs[j].kind = kind) = i
    BY <2>1, <2>2, <2>3
  <2>5. i \in 1..Len(gs) /\ gs[i].kind = kind /\ gs[i] = fs[i]
    BY <2>1
  <2> QED BY <2>1, <2>4, <2>5 DEF FrameIn
<1>2. CASE ~\E i \in 1..Len(fs) : fs[i].kind = kind
  BY <1>2 DEF FrameIn
<1> QED BY <1>1, <1>2

\* The innermost handler goes on.
LEMMA FrameReplaced ==
  ASSUME NEW S, NEW fs \in Seq(S), Unique(fs), fs # <<>>, NEW g \in S, g.kind = fs[Len(fs)].kind,
         NEW gs, gs = Put(fs, g)
  PROVE  /\ gs \in Seq(S) /\ Len(gs) = Len(fs) /\ gs[Len(fs)] = g
         /\ \A i \in 1..Len(fs) : i # Len(fs) => gs[i] = fs[i]
         /\ Unique(gs)
         /\ FrameIn(fs, g.kind) = fs[Len(fs)] /\ FrameIn(gs, g.kind) = g
         /\ \A kind : kind # g.kind => FrameIn(gs, kind) = FrameIn(fs, kind)
<1> USE DEF Put
<1>1. Len(fs) \in Nat /\ Len(fs) > 0
  BY EmptySeq
<1>2. gs \in Seq(S) /\ Len(gs) = Len(fs) /\ gs[Len(fs)] = g
  BY <1>1
<1>3. \A i \in 1..Len(fs) : i # Len(fs) => gs[i] = fs[i]
  BY <1>1
<1>4. \A i \in 1..Len(fs) : gs[i].kind = fs[i].kind
  BY <1>2, <1>3
<1>5. Unique(gs)
  BY <1>2, <1>4 DEF Unique
<1>6. FrameIn(fs, g.kind) = fs[Len(fs)]
  BY <1>1, FrameFound
<1>7. FrameIn(gs, g.kind) = g
  <2>1. Len(gs) \in 1..Len(gs) /\ gs[Len(gs)].kind = g.kind /\ gs[Len(gs)] = g
    BY <1>1, <1>2
  <2> QED BY <1>5, <2>1, FrameFound
<1>8. ASSUME NEW kind, kind # g.kind PROVE FrameIn(gs, kind) = FrameIn(fs, kind)
  <2>1. \A i \in 1..Len(fs) : fs[i].kind = kind => i \in 1..Len(gs) /\ gs[i] = fs[i]
    BY <1>2, <1>3, <1>8
  <2>2. \A i \in 1..Len(gs) : gs[i].kind = kind => i \in 1..Len(fs) /\ gs[i] = fs[i]
    BY <1>2, <1>3, <1>8
  <2> QED BY <2>1, <2>2, FrameKept
<1> QED BY <1>2, <1>3, <1>5, <1>6, <1>7, <1>8

\* The innermost handler ends.
LEMMA FramePopped ==
  ASSUME NEW S, NEW fs \in Seq(S), Unique(fs), fs # <<>>,
         NEW gs, gs = Dropped(fs)
  PROVE  /\ gs \in Seq(S) /\ Len(gs) = Len(fs) - 1
         /\ \A i \in 1..Len(gs) : i \in 1..Len(fs) /\ gs[i] = fs[i]
         /\ Unique(gs)
         /\ FrameIn(fs, fs[Len(fs)].kind) = fs[Len(fs)] /\ FrameIn(gs, fs[Len(fs)].kind) = NoFrame
         /\ \A kind : kind # fs[Len(fs)].kind => FrameIn(gs, kind) = FrameIn(fs, kind)
<1> USE DEF Dropped
<1>1. Len(fs) \in Nat /\ Len(fs) > 0
  BY EmptySeq
<1>2. gs \in Seq(S) /\ Len(gs) = Len(fs) - 1 /\ \A i \in 1..Len(fs) - 1 : gs[i] = fs[i]
  <2>1. PICK n \in Nat : n = Len(fs) - 1
    BY <1>1
  <2>2. gs \in Seq(S) /\ Len(gs) = n
    <3>1. \A i \in 1..n : fs[i] \in S
      BY <1>1, <2>1
    <3>2. SubSeq(fs, 1, n) \in Seq(S) /\ Len(SubSeq(fs, 1, n)) = IF 1 <= n THEN n - 1 + 1 ELSE 0
      BY <3>1, SubSeqProperties
    <3> QED BY <2>1, <3>2
  <2>3. \A i \in 1..Len(fs) - 1 : gs[i] = fs[i]
    BY <1>1
  <2> QED BY <2>1, <2>2, <2>3
<1>3. Unique(gs)
  BY <1>1, <1>2 DEF Unique
<1>4. FrameIn(fs, fs[Len(fs)].kind) = fs[Len(fs)]
  BY <1>1, FrameFound
<1>5. \A i \in 1..Len(gs) : gs[i].kind # fs[Len(fs)].kind
  BY <1>1, <1>2 DEF Unique
<1>6. FrameIn(gs, fs[Len(fs)].kind) = NoFrame
  BY <1>5 DEF FrameIn
<1>7. ASSUME NEW kind, kind # fs[Len(fs)].kind PROVE FrameIn(gs, kind) = FrameIn(fs, kind)
  <2>1. \A i \in 1..Len(fs) : fs[i].kind = kind => i \in 1..Len(gs) /\ gs[i] = fs[i]
    BY <1>1, <1>2, <1>7
  <2>2. \A i \in 1..Len(gs) : gs[i].kind = kind => i \in 1..Len(fs) /\ gs[i] = fs[i]
    BY <1>1, <1>2
  <2> QED BY <2>1, <2>2, FrameKept
<1> QED BY <1>1, <1>2, <1>3, <1>4, <1>6, <1>7

\* A handler starts.
LEMMA FramePushed ==
  ASSUME NEW S, NEW fs \in Seq(S), Unique(fs), NEW g \in S, \A i \in 1..Len(fs) : fs[i].kind # g.kind,
         NEW gs, gs = Added(fs, g)
  PROVE  /\ gs \in Seq(S) /\ Len(gs) = Len(fs) + 1 /\ gs[Len(gs)] = g
         /\ \A i \in 1..Len(fs) : gs[i] = fs[i]
         /\ Unique(gs)
         /\ FrameIn(fs, g.kind) = NoFrame /\ FrameIn(gs, g.kind) = g
         /\ \A kind : kind # g.kind => FrameIn(gs, kind) = FrameIn(fs, kind)
<1> USE DEF Added
<1>1. Len(fs) \in Nat
  OBVIOUS
<1>2. gs \in Seq(S) /\ Len(gs) = Len(fs) + 1 /\ gs[Len(gs)] = g /\ \A i \in 1..Len(fs) : gs[i] = fs[i]
  BY AppendProperties
<1>3. Unique(gs)
  <2> SUFFICES ASSUME NEW i \in 1..Len(gs), NEW j \in 1..Len(gs), gs[i].kind = gs[j].kind PROVE i = j
    BY DEF Unique
  <2>1. CASE i \in 1..Len(fs) /\ j \in 1..Len(fs)
    BY <2>1, <1>2 DEF Unique
  <2>2. CASE i \in 1..Len(fs) /\ j \notin 1..Len(fs)
    <3>1. j = Len(gs)
      BY <1>1, <1>2, <2>2
    <3> QED BY <1>2, <2>2, <3>1
  <2>3. CASE i \notin 1..Len(fs) /\ j \in 1..Len(fs)
    <3>1. i = Len(gs)
      BY <1>1, <1>2, <2>3
    <3> QED BY <1>2, <2>3, <3>1
  <2>4. CASE i \notin 1..Len(fs) /\ j \notin 1..Len(fs)
    BY <1>1, <1>2, <2>4
  <2> QED BY <2>1, <2>2, <2>3, <2>4
<1>4. FrameIn(fs, g.kind) = NoFrame
  BY DEF FrameIn
<1>5. FrameIn(gs, g.kind) = g
  <2>1. Len(gs) \in 1..Len(gs) /\ gs[Len(gs)].kind = g.kind /\ gs[Len(gs)] = g
    BY <1>1, <1>2
  <2> QED BY <1>3, <2>1, FrameFound
<1>6. ASSUME NEW kind, kind # g.kind PROVE FrameIn(gs, kind) = FrameIn(fs, kind)
  <2>1. \A i \in 1..Len(fs) : fs[i].kind = kind => i \in 1..Len(gs) /\ gs[i] = fs[i]
    BY <1>1, <1>2
  <2>2. ASSUME NEW i \in 1..Len(gs), gs[i].kind = kind PROVE i \in 1..Len(fs) /\ gs[i] = fs[i]
    <3>1. i # Len(gs)
      BY <1>2, <1>6, <2>2
    <3> QED BY <1>1, <1>2, <3>1
  <2> QED BY <2>1, <2>2, FrameKept
<1> QED BY <1>2, <1>3, <1>4, <1>5, <1>6

LEMMA NoFrames == \A kind : FrameIn(<<>>, kind) = NoFrame
<1>1. Len(<<>>) = 0
  OBVIOUS
<1> QED BY <1>1 DEF FrameIn

LEMMA OneFrame == ASSUME NEW g PROVE FrameIn(<<g>>, g.kind) = g /\ \A kind : kind # g.kind => FrameIn(<<g>>, kind) = NoFrame
<1>1. Len(<<g>>) = 1 /\ <<g>>[1] = g
  OBVIOUS
<1>2. Unique(<<g>>)
  BY <1>1 DEF Unique
<1>3. FrameIn(<<g>>, g.kind) = <<g>>[1]
  <2>1. 1 \in 1..Len(<<g>>) /\ <<g>>[1].kind = g.kind
    BY <1>1
  <2> QED BY <1>2, <2>1, FrameFound
<1>4. \A kind : kind # g.kind => FrameIn(<<g>>, kind) = NoFrame
  BY <1>1 DEF FrameIn
<1> QED BY <1>1, <1>3, <1>4

\* What a step of the innermost handler means for the frame of each kind.
FrameStep(g) ==
  /\ top.kind = "CHLD" => chld = top /\ chld' = g /\ alrm' = alrm /\ call' = call
  /\ top.kind = "ALRM" => alrm = top /\ alrm' = g /\ chld' = chld /\ call' = call
  /\ top.kind = "call" => /\ call = top /\ call' = g /\ chld' = chld /\ alrm' = alrm
                          /\ alrm = NoFrame /\ chld = NoFrame

\* The innermost frame.
LEMMA TopFacts ==
  ASSUME FramesInv, frames # <<>>
  PROVE  /\ Len(frames) \in Nat \ {0} /\ top = frames[Len(frames)] /\ top \in Frame
         /\ top.kind \in {"CHLD", "ALRM", "call"} /\ Unique(frames)
         /\ top.kind = "CHLD" <=> top.at \in {"waitpid", "mark"}
         /\ top.at = "resume" => top.sig # "none"
         /\ top.at = "show" => prog \in {"v4", "old_v4", "test_v4"}
         /\ top.kind = "call" => Len(frames) = 1
<1>1. frames \in Seq(Frame) /\ Len(frames) \in Nat \ {0} /\ top = frames[Len(frames)]
  BY EmptySeq DEF FramesInv, top
<1>2. top \in Frame
  BY <1>1
<1>3. top.kind \in {"CHLD", "ALRM", "call"}
  BY <1>2 DEF Frame
<1>4. Unique(frames)
  BY DEF FramesInv, Unique
<1>5. Len(frames) \in 1..Len(frames)
  BY <1>1
<1>6. top.kind = "CHLD" <=> top.at \in {"waitpid", "mark"}
  BY <1>5 DEF FramesInv, top
<1>7. top.at = "show" => prog \in {"v4", "old_v4", "test_v4"}
  BY <1>5 DEF FramesInv, top
<1>9. top.at = "resume" => top.sig # "none"
  BY <1>5 DEF FramesInv, top
<1>8. top.kind = "call" => Len(frames) = 1
  BY <1>5 DEF FramesInv, top
<1> QED BY <1>1, <1>2, <1>3, <1>4, <1>6, <1>7, <1>8, <1>9

\* While main's call is on top no handler runs.
LEMMA CallAlone ==
  ASSUME FramesInv, frames # <<>>, top.kind = "call"
  PROVE  alrm = NoFrame /\ chld = NoFrame
<1>1. Len(frames) = 1 /\ top = frames[Len(frames)]
  BY TopFacts
<1>2. \A i \in 1..Len(frames) : frames[i].kind = "call"
  BY <1>1
<1> QED BY <1>2 DEF alrm, chld, FrameIn

\* The innermost frame is the one of its kind.
LEMMA TopIs ==
  ASSUME FramesInv, frames # <<>>
  PROVE  /\ top.kind = "ALRM" => alrm = top
         /\ top.kind = "call" => call = top
<1>1. Unique(frames) /\ Len(frames) \in 1..Len(frames) /\ top = frames[Len(frames)]
  BY TopFacts
<1>2. FrameIn(frames, top.kind) = top
  BY <1>1, FrameFound
<1> QED BY <1>2 DEF alrm, call

\* The innermost handler goes on.
LEMMA Stepped ==
  ASSUME FramesInv, frames # <<>>, NEW g \in Frame, g.kind = top.kind,
         g.kind = "CHLD" <=> g.at \in {"waitpid", "mark"},
         g.at = "resume" => g.sig # "none",
         g.at = "show" => prog \in {"v4", "old_v4", "test_v4"},
         frames' = [frames EXCEPT ![Len(frames)] = g], prog' = prog
  PROVE  FramesInv' /\ FrameStep(g)
<1>1. frames \in Seq(Frame) /\ Unique(frames) /\ g.kind = frames[Len(frames)].kind /\ top = frames[Len(frames)]
      /\ frames' = Put(frames, g)
  BY TopFacts DEF FramesInv, Put
<1>2. /\ frames' \in Seq(Frame) /\ Len(frames') = Len(frames) /\ frames'[Len(frames)] = g
      /\ \A i \in 1..Len(frames) : i # Len(frames) => frames'[i] = frames[i]
      /\ Unique(frames')
      /\ FrameIn(frames, g.kind) = top /\ FrameIn(frames', g.kind) = g
      /\ \A kind : kind # g.kind => FrameIn(frames', kind) = FrameIn(frames, kind)
  <2>1. /\ frames' \in Seq(Frame) /\ Len(frames') = Len(frames) /\ frames'[Len(frames)] = g
        /\ \A i \in 1..Len(frames) : i # Len(frames) => frames'[i] = frames[i]
        /\ Unique(frames')
        /\ FrameIn(frames, g.kind) = frames[Len(frames)] /\ FrameIn(frames', g.kind) = g
        /\ \A kind : kind # g.kind => FrameIn(frames', kind) = FrameIn(frames, kind)
    <3> HIDE DEF top
    <3>1. g \in Frame
      OBVIOUS
    <3> QED BY ONLY <1>1, <3>1, frames # <<>>, FrameReplaced
  <2> QED BY <1>1, <2>1
<1>3. \A i \in 1..Len(frames) : frames'[i].kind = "call" => i = 1
  BY <1>2, TopFacts DEF FramesInv
<1>4. \A i \in 1..Len(frames) : frames'[i].kind = "CHLD" <=> frames'[i].at \in {"waitpid", "mark"}
  BY <1>2, TopFacts DEF FramesInv
<1>5. \A i \in 1..Len(frames) : frames'[i].at = "show" => prog' \in {"v4", "old_v4", "test_v4"}
  BY <1>2, TopFacts DEF FramesInv
<1>8. \A i \in 1..Len(frames) : frames'[i].at = "resume" => frames'[i].sig # "none"
  BY <1>2, TopFacts DEF FramesInv
<1>6. FramesInv'
  BY <1>2, <1>3, <1>4, <1>5, <1>8 DEF FramesInv, Unique
<1>7. FrameStep(g)
  <2>1. top.kind = "call" => alrm = NoFrame /\ chld = NoFrame
    BY CallAlone
  <2> QED BY <1>2, <2>1 DEF FrameStep, chld, alrm, call
<1> QED BY <1>6, <1>7

\* The innermost handler ends.
LEMMA Popped ==
  ASSUME FramesInv, frames # <<>>, Done, prog' = prog
  PROVE  FramesInv' /\ FrameStep(NoFrame)
<1>1. frames \in Seq(Frame) /\ Unique(frames) /\ top = frames[Len(frames)] /\ frames' = Dropped(frames)
  BY TopFacts DEF FramesInv, Done, Dropped
<1>2. /\ frames' \in Seq(Frame) /\ Len(frames') = Len(frames) - 1
      /\ \A i \in 1..Len(frames') : i \in 1..Len(frames) /\ frames'[i] = frames[i]
      /\ Unique(frames')
      /\ FrameIn(frames, top.kind) = top /\ FrameIn(frames', top.kind) = NoFrame
      /\ \A kind : kind # top.kind => FrameIn(frames', kind) = FrameIn(frames, kind)
  <2> HIDE DEF top
  <2> QED BY <1>1, FramePopped
<1>3. FramesInv'
  BY <1>2 DEF FramesInv, Unique
<1>4. FrameStep(NoFrame)
  <2>1. top.kind = "call" => alrm = NoFrame /\ chld = NoFrame
    BY CallAlone
  <2> QED BY <1>2, <2>1 DEF FrameStep, chld, alrm, call
<1> QED BY <1>3, <1>4

\* A signal is delivered.
LEMMA Pushed ==
  ASSUME FramesInv, NEW sig \in {"CHLD", "ALRM"}, Deliver(sig)
  PROVE  /\ FramesInv'
         /\ sig = "CHLD" => chld = NoFrame /\ chld'.at = "waitpid" /\ alrm' = alrm /\ call' = call
         /\ sig = "ALRM" => alrm = NoFrame /\ alrm'.at = "tick" /\ alrm'.sig = "none" /\ chld' = chld /\ call' = call
<1>1. PICK decoded \in BOOLEAN : frames' = Append(frames, [kind |-> sig, at |-> IF sig = "ALRM" THEN "tick" ELSE "waitpid",
                                                          pid |-> 0, left |-> 0, sig |-> "none", decoded |-> decoded])
  BY DEF Deliver
<1>2. PICK g : g = [kind |-> sig, at |-> IF sig = "ALRM" THEN "tick" ELSE "waitpid",
                    pid |-> 0, left |-> 0, sig |-> "none", decoded |-> decoded]
  OBVIOUS
<1>3. g \in Frame /\ g.kind = sig /\ g.at = (IF sig = "ALRM" THEN "tick" ELSE "waitpid") /\ g.sig = "none"
  BY <1>2, UspsAssumption DEF Frame, AlarmLabels
<1>4. frames \in Seq(Frame) /\ Unique(frames) /\ frames' = Added(frames, g) /\ prog' = prog
      /\ \A i \in 1..Len(frames) : frames[i].kind # g.kind
  BY <1>1, <1>2, <1>3 DEF FramesInv, Unique, Deliver, setupvars, Added
<1>5. /\ frames' \in Seq(Frame) /\ Len(frames') = Len(frames) + 1 /\ frames'[Len(frames')] = g
      /\ \A i \in 1..Len(frames) : frames'[i] = frames[i]
      /\ Unique(frames')
      /\ FrameIn(frames, g.kind) = NoFrame /\ FrameIn(frames', g.kind) = g
      /\ \A kind : kind # g.kind => FrameIn(frames', kind) = FrameIn(frames, kind)
  BY <1>3, <1>4, FramePushed
<1>6. \A i \in 1..Len(frames') : (i \in 1..Len(frames) /\ frames'[i] = frames[i]) \/ frames'[i] = g
  BY <1>4, <1>5
<1>7. FramesInv'
  BY <1>3, <1>4, <1>5, <1>6 DEF FramesInv, Unique
<1> QED BY <1>3, <1>5, <1>7 DEF chld, alrm, call

\* Main runs.
LEMMA Idle ==
  ASSUME frames = <<>>
  PROVE  chld = NoFrame /\ alrm = NoFrame /\ call = NoFrame
BY NoFrames DEF chld, alrm, call

\* Main calls the SIGALRM handler.
LEMMA Called ==
  ASSUME Dispatch
  PROVE  /\ FramesInv' /\ chld' = NoFrame /\ alrm' = NoFrame /\ call'.at = "tick" /\ call'.sig = "none"
         /\ chld = NoFrame /\ alrm = NoFrame /\ call = NoFrame
<1>1. frames = <<>> /\ frames' = <<Call>>
  BY DEF Dispatch, MainAt
<1>2. Call.kind = "call" /\ Call.at = "tick" /\ Call \in Frame /\ Call.sig = "none"
  BY UspsAssumption DEF Call, Frame, AlarmLabels
<1> HIDE DEF Call
<1>3. Len(frames') = 1 /\ frames'[1] = Call /\ frames' \in Seq(Frame)
  BY <1>1, <1>2
<1>4. FramesInv'
  BY <1>2, <1>3 DEF FramesInv
<1>5. FrameIn(frames', "call") = Call /\ FrameIn(frames', "CHLD") = NoFrame /\ FrameIn(frames', "ALRM") = NoFrame
  BY <1>1, <1>2, OneFrame
<1> QED BY <1>1, <1>2, <1>4, <1>5, Idle DEF chld, alrm, call

\* The step to another statement of the handler.
LEMMA SteppedTo ==
  ASSUME FramesInv, frames # <<>>, NEW l \in AlarmLabels \union {"waitpid", "mark"}, StepTo(l),
         top.kind = "CHLD" <=> l \in {"waitpid", "mark"},
         l # "resume", l = "show" => prog \in {"v4", "old_v4", "test_v4"}, prog' = prog
  PROVE  \E g : /\ g = [top EXCEPT !.at = l] /\ g.at = l /\ g.sig = top.sig /\ g.pid = top.pid
                /\ FramesInv' /\ FrameStep(g)
<1>1. PICK g : g = [top EXCEPT !.at = l]
  OBVIOUS
<1>2. g \in Frame /\ g.kind = top.kind /\ g.at = l /\ g.sig = top.sig /\ g.pid = top.pid
  BY <1>1, TopFacts DEF Frame
<1>3. frames' = [frames EXCEPT ![Len(frames)] = g]
  BY <1>1 DEF StepTo, top
<1> QED BY <1>1, <1>2, <1>3, Stepped

-----------------------------------------------------------------------------
(* The children. *)

\* The children a program may still reap; what a step other than a fork and a
\* reaping keeps of a child.
Living == {"forked", "runs", "zombie"}
Kept(c, d) ==
  /\ d.st = "none" <=> c.st = "none"
  /\ c.st = "none" => d = c
  /\ d.st \in Living <=> c.st \in Living
SameChildren == \A p \in Pids : Kept(child[p], child'[p])

LEMMA UnreapedIs == Unreaped = {p \in Pids : child[p].st \in Living}
BY DEF Unreaped, Alive, Living

\* Left counts the children not yet reaped.
LEMMA FiniteSets ==
  /\ IsFiniteSet(Pids)
  /\ IsFiniteSet(Unreaped) /\ Left \in Nat /\ (Left = 0 <=> Unreaped = {})
<1>1. IsFiniteSet(Pids)
  BY UspsAssumption, FS_Interval DEF Pids
<1>2. IsFiniteSet(Unreaped)
  BY <1>1, FS_Subset DEF Unreaped
<1> QED BY <1>1, <1>2, FS_CardinalityType, FS_EmptySet DEF Left

\* The counts depend on what is kept of a child only.
LEMMA SameCounts ==
  ASSUME SameChildren
  PROVE  NextPid' = NextPid /\ Forked' = Forked /\ Unreaped' = Unreaped /\ Left' = Left
<1>1. {p \in Pids : child'[p].st # "none"} = {p \in Pids : child[p].st # "none"}
  BY DEF SameChildren, Kept
<1>2. {p \in Pids : child'[p].st \in Living} = {p \in Pids : child[p].st \in Living}
  BY DEF SameChildren, Kept
<1>3. Unreaped' = {p \in Pids : child'[p].st \in Living}
  BY DEF Unreaped, Alive, Living
<1>4. Unreaped' = Unreaped
  BY <1>2, <1>3, UnreapedIs
<1>5. NextPid' = NextPid
  BY <1>1 DEF NextPid
<1> QED BY <1>4, <1>5 DEF Forked, Left

\* A signal keeps it.
LEMMA SignalledKept ==
  ASSUME NEW c \in ChildRec, NEW sig \in {"USR1", "STOP", "CONT", "KILL"}
  PROVE  Signalled(c, sig) \in ChildRec /\ Kept(c, Signalled(c, sig))
<1>1. CASE c.st \notin {"forked", "runs"}
  BY <1>1 DEF Signalled, Kept
<1>2. CASE c.st \in {"forked", "runs"} /\ sig # "KILL"
  BY <1>2 DEF Signalled, Kept, ChildRec, ChildStates, Living
<1>3. CASE c.st \in {"forked", "runs"} /\ sig = "KILL"
  BY <1>3 DEF Signalled, Kept, ChildRec, ChildStates, Living
<1> QED BY <1>1, <1>2, <1>3

\* kill.
LEMMA Killed ==
  ASSUME KernelTypes, NEW p, NEW sig \in {"USR1", "STOP", "CONT"}, Kill(p, sig)
  PROVE  /\ child' \in [Pids -> ChildRec] /\ SameChildren
         /\ \A q \in Pids : child'[q] = IF q = p THEN Signalled(child[q], sig) ELSE child[q]
<1>1. child \in [Pids -> ChildRec]
  BY DEF KernelTypes
<1>2. \A q \in Pids : child'[q] = IF q = p THEN Signalled(child[q], sig) ELSE child[q]
  BY <1>1 DEF Kill
<1>3. \A q \in Pids : child'[q] \in ChildRec /\ Kept(child[q], child'[q])
  BY <1>1, <1>2, SignalledKept DEF Kept
<1>4. child' \in [Pids -> ChildRec]
  BY <1>1, <1>3 DEF Kill
<1> QED BY <1>2, <1>3, <1>4 DEF SameChildren

\* A step that changes no child.
LEMMA Unchanged ==
  ASSUME KernelTypes, child' = child
  PROVE  child' \in [Pids -> ChildRec] /\ SameChildren
BY DEF KernelTypes, SameChildren, Kept

\* One step of a child.
LEMMA ChildMoved ==
  ASSUME KernelTypes, NEW p \in Pids, Child(p), CountInv
  PROVE  /\ child' \in [Pids -> ChildRec] /\ SameChildren
         /\ \A q \in Pids : q # p => child'[q] = child[q]
         /\ child[p].st \in {"forked", "runs"}
         /\ \/ child[p].usr1 /\ child'[p] = [child[p] EXCEPT !.usr1 = FALSE, !.seen = TRUE]
            \/ child[p].usr1 /\ child[p].st = "runs"
               /\ child'[p] = [child[p] EXCEPT !.st = "zombie", !.usr1 = FALSE, !.died = "USR1"]
            \/ (text.gated => child[p].seen) /\ child'[p] = [child[p] EXCEPT !.st = "runs"] /\ child[p].st = "forked"
            \/ (text.gated => child[p].seen) /\ child'[p] = [child[p] EXCEPT !.st = "zombie", !.usr1 = FALSE, !.died = "exec"]
            \/ child[p].st = "runs" /\ child'[p] = [child[p] EXCEPT !.st = "zombie", !.usr1 = FALSE, !.died = "exit"]
         /\ pending' = pending \/ ("CHLD" \in handles /\ pending' = pending \union {"CHLD"})
<1>1. child \in [Pids -> ChildRec] /\ child[p] \in ChildRec
  BY DEF KernelTypes
<1>2. ASSUME NEW c \in ChildRec, child' = [child EXCEPT ![p] = c], Kept(child[p], c)
      PROVE  child' \in [Pids -> ChildRec] /\ SameChildren /\ (\A q \in Pids : q # p => child'[q] = child[q]) /\ child'[p] = c
  BY <1>1, <1>2 DEF SameChildren, Kept
<1>3. CASE TakeUsr1(p)
  <2>1. CASE child[p].st = "forked" /\ child' = [child EXCEPT ![p].usr1 = FALSE, ![p].seen = TRUE] /\ pending' = pending
    <3>1. PICK c : c = [child[p] EXCEPT !.usr1 = FALSE, !.seen = TRUE]
      OBVIOUS
    <3>2. c \in ChildRec /\ Kept(child[p], c)
      BY <1>1, <2>1, <3>1 DEF ChildRec, Kept, Living
    <3>3. child' = [child EXCEPT ![p] = c]
      BY <1>1, <2>1, <3>1
    <3> QED BY <1>2, <1>3, <2>1, <3>1, <3>2, <3>3 DEF TakeUsr1
  <2>2. CASE child[p].st = "runs" /\ Dies(p, "USR1")
    <3>1. PICK c : c = [child[p] EXCEPT !.st = "zombie", !.usr1 = FALSE, !.died = "USR1"]
      OBVIOUS
    <3>2. c \in ChildRec /\ Kept(child[p], c)
      BY <1>1, <2>2, <3>1 DEF ChildRec, Kept, Living, ChildStates
    <3>3. child' = [child EXCEPT ![p] = c]
      BY <1>1, <2>2, <3>1 DEF Dies
    <3>4. pending' = pending \/ ("CHLD" \in handles /\ pending' = pending \union {"CHLD"})
      BY <2>2 DEF Dies, Raise
    <3> QED BY <1>2, <1>3, <2>2, <3>1, <3>2, <3>3, <3>4 DEF TakeUsr1
  <2> QED BY <1>3, <2>1, <2>2 DEF TakeUsr1
<1>4. CASE Exec(p)
  <2>1. CASE child' = [child EXCEPT ![p].st = "runs"] /\ pending' = pending
    <3>1. PICK c : c = [child[p] EXCEPT !.st = "runs"]
      OBVIOUS
    <3>2. c \in ChildRec /\ Kept(child[p], c)
      BY <1>1, <1>4, <3>1 DEF ChildRec, Kept, Living, ChildStates, Exec
    <3>3. child' = [child EXCEPT ![p] = c]
      BY <1>1, <2>1, <3>1
    <3> QED BY <1>2, <1>4, <2>1, <3>1, <3>2, <3>3 DEF Exec
  <2>2. CASE Dies(p, "exec")
    <3>1. PICK c : c = [child[p] EXCEPT !.st = "zombie", !.usr1 = FALSE, !.died = "exec"]
      OBVIOUS
    <3>2. c \in ChildRec /\ Kept(child[p], c)
      BY <1>1, <1>4, <3>1 DEF ChildRec, Kept, Living, ChildStates, Exec
    <3>3. child' = [child EXCEPT ![p] = c]
      BY <1>1, <2>2, <3>1 DEF Dies
    <3>4. pending' = pending \/ ("CHLD" \in handles /\ pending' = pending \union {"CHLD"})
      BY <2>2 DEF Dies, Raise
    <3> QED BY <1>2, <1>4, <2>2, <3>1, <3>2, <3>3, <3>4 DEF Exec
  <2> QED BY <1>4, <2>1, <2>2 DEF Exec
<1>5. CASE Exit(p)
  <2>1. PICK c : c = [child[p] EXCEPT !.st = "zombie", !.usr1 = FALSE, !.died = "exit"]
    OBVIOUS
  <2>2. c \in ChildRec /\ Kept(child[p], c)
    BY <1>1, <1>5, <2>1 DEF ChildRec, Kept, Living, ChildStates, Exit
  <2>3. child' = [child EXCEPT ![p] = c]
    BY <1>1, <1>5, <2>1 DEF Dies, Exit
  <2>4. pending' = pending \/ ("CHLD" \in handles /\ pending' = pending \union {"CHLD"})
    BY <1>5 DEF Dies, Raise, Exit
  <2> QED BY <1>2, <1>5, <2>1, <2>2, <2>3, <2>4 DEF Exit
<1> QED BY <1>3, <1>4, <1>5 DEF Child

\* A child is reaped.
ReapedOne(p) == child' = [child EXCEPT ![p].st = "reaped"]
\* A reaping.
LEMMA OneReaped ==
  ASSUME KernelTypes, NEW p \in Pids, child[p].st = "zombie", ReapedOne(p)
  PROVE  /\ child' \in [Pids -> ChildRec]
         /\ child'[p] = [child[p] EXCEPT !.st = "reaped"] /\ \A q \in Pids : q # p => child'[q] = child[q]
         /\ NextPid' = NextPid /\ Forked' = Forked
         /\ Unreaped' = Unreaped \ {p} /\ Left' = Left - 1
<1>1. child \in [Pids -> ChildRec] /\ child[p] \in ChildRec
  BY DEF KernelTypes
<1>2. child'[p] = [child[p] EXCEPT !.st = "reaped"] /\ \A q \in Pids : q # p => child'[q] = child[q]
  BY <1>1 DEF ReapedOne
<1>3. child' \in [Pids -> ChildRec]
  <2>1. [child[p] EXCEPT !.st = "reaped"] \in ChildRec
    BY <1>1 DEF ChildRec, ChildStates
  <2> QED BY <1>1, <1>2, <2>1 DEF ReapedOne
<1>4. child'[p].st = "reaped"
  BY <1>1, <1>2 DEF ChildRec
<1>5. {q \in Pids : child'[q].st # "none"} = {q \in Pids : child[q].st # "none"}
  BY <1>2, <1>4
<1>6. NextPid' = NextPid /\ Forked' = Forked
  BY <1>5 DEF NextPid, Forked
<1>7. Unreaped' = Unreaped \ {p} /\ p \in Unreaped
  <2>1. \A q \in Pids : q \in Unreaped' <=> q \in Unreaped /\ q # p
    BY <1>2, <1>4 DEF Unreaped, Alive
  <2>2. Unreaped \subseteq Pids /\ Unreaped' \subseteq Pids /\ p \in Unreaped
    BY DEF Unreaped
  <2> QED BY <2>1, <2>2
<1>8. Left' = Left - 1
  BY <1>7, FiniteSets, FS_RemoveElement DEF Left
<1> QED BY <1>2, <1>3, <1>6, <1>7, <1>8

\* A child is forked.
ForkedOne(p) == child' = [child EXCEPT ![p].st = "forked"]
\* A fork: the next pid.
LEMMA OneForked ==
  ASSUME KernelTypes, CountInv, Forked < MaxLines, ForkedOne(NextPid)
  PROVE  /\ child' \in [Pids -> ChildRec] /\ NextPid = Forked + 1 /\ NextPid \in Pids
         /\ child'[NextPid] = [NoChild EXCEPT !.st = "forked"]
         /\ \A q \in Pids : q # NextPid => child'[q] = child[q]
         /\ Forked' = Forked + 1 /\ Left' = Left + 1 /\ Unreaped' # {}
         /\ \A q \in Pids : child'[q].st # "none" <=> q <= Forked + 1
<1>1. child \in [Pids -> ChildRec] /\ Forked \in Nat /\ NextPid = Forked + 1
  <2>1. NextPid - 1 \in Nat /\ NextPid \in Int
    <3>1. IsFiniteSet({p \in Pids : child[p].st # "none"})
      BY FiniteSets, FS_Subset
    <3> QED BY <3>1, FS_CardinalityType DEF NextPid
  <2> QED BY <2>1 DEF KernelTypes, Forked
<1>2. NextPid \in Pids
  BY <1>1, UspsAssumption DEF Pids
<1>3. child[NextPid] = NoChild
  BY <1>1, <1>2 DEF CountInv
<1>4. child'[NextPid] = [NoChild EXCEPT !.st = "forked"] /\ \A q \in Pids : q # NextPid => child'[q] = child[q]
  BY <1>1, <1>2, <1>3 DEF ForkedOne
<1>5. child' \in [Pids -> ChildRec]
  <2>1. [NoChild EXCEPT !.st = "forked"] \in ChildRec
    BY DEF ChildRec, NoChild, ChildStates
  <2> QED BY <1>1, <1>2, <1>4, <2>1 DEF ForkedOne
<1>6. child'[NextPid].st = "forked"
  BY <1>4 DEF NoChild
<1>7. \A q \in Pids : child'[q].st # "none" <=> q <= Forked + 1
  <2>1. \A q \in Pids : q # NextPid => (child'[q].st # "none" <=> q <= Forked)
    BY <1>4 DEF CountInv
  <2>2. \A q \in Pids : q # NextPid => (q <= Forked <=> q <= Forked + 1)
    BY <1>1 DEF Pids
  <2> QED BY <1>1, <1>6, <2>1, <2>2
<1>8. Forked' = Forked + 1
  <2>1. {q \in Pids : child'[q].st # "none"} = 1..Forked + 1
    BY <1>1, <1>2, <1>7, UspsAssumption DEF Pids
  <2>2. Cardinality(1..Forked + 1) = Forked + 1
    BY <1>1, FS_Interval
  <2>3. NextPid' = Cardinality({q \in Pids : child'[q].st # "none"}) + 1
    BY DEF NextPid
  <2>4. Cardinality({q \in Pids : child'[q].st # "none"}) = Forked + 1
    BY <2>1, <2>2
  <2>5. NextPid' = Forked + 1 + 1
    BY <2>3, <2>4
  <2>6. Forked' = NextPid' - 1
    BY DEF Forked
  <2> QED BY <1>1, <2>5, <2>6
<1>9. Unreaped' = Unreaped \union {NextPid} /\ NextPid \notin Unreaped
  <2>1. \A q \in Pids : q \in Unreaped' <=> q \in Unreaped \/ q = NextPid
    BY <1>4, <1>6 DEF Unreaped, Alive
  <2>2. Unreaped \subseteq Pids /\ Unreaped' \subseteq Pids /\ NextPid \notin Unreaped
    BY <1>3 DEF Unreaped, Alive, NoChild
  <2> QED BY <1>2, <2>1, <2>2
<1>10. Left' = Left + 1
  BY <1>9, FiniteSets, FS_AddElement DEF Left
<1> QED BY <1>1, <1>2, <1>4, <1>5, <1>7, <1>8, <1>9, <1>10

\* Children not yet reaped were forked.
LEMMA LeftBound == ASSUME CountInv PROVE Left <= Forked /\ Left \in Nat /\ Forked \in 0..MaxLines
<1>1. Forked \in 0..MaxLines
  BY DEF CountInv
<1>2. Unreaped \subseteq 1..Forked
  BY <1>1, UspsAssumption DEF CountInv, Unreaped, Alive, Pids
<1>3. IsFiniteSet(1..Forked) /\ Cardinality(1..Forked) = Forked
  BY <1>1, UspsAssumption, FS_Interval
<1>4. Left <= Forked
  BY <1>2, <1>3, FS_Subset DEF Left
<1> QED BY <1>1, <1>4, FiniteSets

-----------------------------------------------------------------------------
(* What a step keeps, and where main is. *)

\* main stays within the statements of its program.
LEMMA Onward ==
  ASSUME prog \in ProgramNames, PcInv, pc \notin {"return", "leave", "bump"}
  PROVE  /\ prog \in V1s => After(text.main, pc) \in V1Labels
         /\ prog \in V2s => After(text.main, pc) \in V2Labels
         /\ prog \in V3s => After(text.main, pc) \in V3Labels
         /\ prog \in Lates => After(text.main, pc) \in LateLabels
<1>1. CASE prog \in V1s
  <2>1. prog \notin V3s /\ prog \notin V2s /\ prog \notin Lates
    BY <1>1 DEF V1s, V2s, V3s, Lates
  <2>2. After(V1Main, pc) \in V1Labels
    BY <1>1, V1Flow DEF PcInv, V1Labels
  <2> QED BY <1>1, <2>1, <2>2, TextOf
<1>2. CASE prog \in V2s
  <2>1. prog \notin V3s /\ prog \notin V1s /\ prog \notin Lates
    BY <1>2 DEF V1s, V2s, V3s, Lates
  <2>2. After(V2Main, pc) \in V2Labels
    BY <1>2, V2Flow DEF PcInv, V2Labels
  <2> QED BY <1>2, <2>1, <2>2, TextOf
<1>3. CASE prog \in V3s
  <2>1. prog \notin V2s /\ prog \notin V1s /\ prog \notin Lates
    BY <1>3 DEF V1s, V2s, V3s, Lates
  <2>2. After(V3Main, pc) \in V3Labels
    BY <1>3, V3Flow DEF PcInv, V3Labels
  <2> QED BY <1>3, <2>1, <2>2, TextOf
<1>4. CASE prog \in Lates
  <2>1. prog \notin V2s /\ prog \notin V1s /\ prog \notin V3s
    BY <1>4 DEF V1s, V2s, V3s, Lates
  <2>2. After(LateMain, pc) \in LateLabels
    BY <1>4, LateFlow DEF PcInv, LateLabels
  <2> QED BY <1>4, <2>1, <2>2, TextOf
<1> QED BY <1>1, <1>2, <1>3, <1>4, Classes

\* main does not come back to the statements before the fork loop.
LEMMA PastSetup ==
  ASSUME prog \in ProgramNames, PcInv, pc \notin SetupLabels, pc \notin {"return", "leave", "bump"}
  PROVE  After(text.main, pc) \notin SetupLabels
<1>1. CASE prog \in V1s
  <2>1. After(V1Main, pc) \notin SetupLabels
    BY <1>1, V1Flow DEF PcInv, V1Labels, SetupLabels
  <2> QED BY <1>1, <2>1, TextOf
<1>2. CASE prog \in V2s
  <2>1. After(V2Main, pc) \notin SetupLabels
    BY <1>2, V2Flow DEF PcInv, V2Labels, SetupLabels
  <2> QED BY <1>2, <2>1, TextOf
<1>3. CASE prog \in V3s
  <2>1. After(V3Main, pc) \notin SetupLabels
    BY <1>3, V3Flow DEF PcInv, V3Labels, SetupLabels
  <2> QED BY <1>3, <2>1, TextOf
<1>4. CASE prog \in Lates
  <2>1. After(LateMain, pc) \notin SetupLabels
    BY <1>4, LateFlow DEF PcInv, LateLabels, SetupLabels
  <2> QED BY <1>4, <2>1, TextOf
<1> QED BY <1>1, <1>2, <1>3, <1>4, Classes

\* What a step of main keeps.
LEMMA MainKeeps ==
  ASSUME Main
  PROVE  /\ status = "running" /\ frames = <<>> /\ prog' = prog /\ pending' = pending
         /\ current_process' = current_process
         /\ pc # "dispatch" => frames' = <<>>
<1> USE DEF MainAt, ReapAt, setupvars, procvars, schedvars, kernelvars
<1>1. CASE Options
  BY <1>1 DEF Options
<1>2. CASE Quantum
  BY <1>2 DEF Quantum
<1>3. CASE Open
  BY <1>3 DEF Open
<1>4. CASE Establish
  BY <1>4 DEF Establish
<1>5. CASE Clamp
  BY <1>5 DEF Clamp
<1>6. CASE Ticks
  BY <1>6 DEF Ticks
<1>7. CASE CreateQueue
  BY <1>7 DEF CreateQueue
<1>8. CASE ReadAndFork
  BY <1>8 DEF ReadAndFork
<1>9. CASE Record
  BY <1>9 DEF Record
<1>10. CASE Enqueue
  BY <1>10 DEF Enqueue
<1>11. CASE Leave
  BY <1>11 DEF Leave
<1>12. CASE Bump
  BY <1>12 DEF Bump
<1>13. CASE Count
  BY <1>13 DEF Count
<1>14. CASE ReapTest
  BY <1>14 DEF ReapTest
<1>15. CASE ReapWait
  BY <1>15 DEF ReapWait
<1>16. CASE ReapLoad
  BY <1>16 DEF ReapLoad
<1>17. CASE ReapStore
  BY <1>17 DEF ReapStore
<1>18. CASE Close
  BY <1>18 DEF Close
<1>19. CASE SetTimer
  BY <1>19 DEF SetTimer
<1>20. CASE Dispatch
  BY <1>20 DEF Dispatch
<1>21. CASE Pause
  BY <1>21 DEF Pause
<1>22. CASE Destroy
  BY <1>22 DEF Destroy
<1>23. CASE Round
  BY <1>23 DEF Round
<1>24. CASE Return
  BY <1>24 DEF Return
<1> QED BY <1>1, <1>2, <1>3, <1>4, <1>5, <1>6, <1>7, <1>8, <1>9, <1>10, <1>11, <1>12, <1>13, <1>14, <1>15,
          <1>16, <1>17, <1>18, <1>19, <1>20, <1>21, <1>22, <1>23, <1>24 DEF Main

\* What a step of a handler keeps.
LEMMA HandlerKeeps ==
  ASSUME Handler
  PROVE  /\ status = "running" /\ frames # <<>> /\ status' \in {"running", "undefined"}
         /\ prog' = prog /\ handles' = handles /\ Q' = Q /\ q_ticks' = q_ticks
         /\ pc' = pc /\ sub' = sub /\ tmp' = tmp /\ k' = k /\ lines' = lines /\ pcount' = pcount
         /\ armed' = armed /\ pending' = pending /\ destroyed' = destroyed
         /\ top.kind \in {"CHLD", "ALRM", "call"}
<1> USE DEF HandlerAt, Scheduling, KeepRest, setupvars, procvars, schedvars, kernelvars, mainvars
<1>1. CASE Reap
  BY <1>1 DEF Reap
<1>2. CASE Mark
  BY <1>2 DEF Mark
<1>3. CASE Tick
  BY <1>3 DEF Tick
<1>4. CASE Preempt
  BY <1>4 DEF Preempt
<1>5. CASE Show
  BY <1>5 DEF Show
<1>6. CASE Drop
  BY <1>6 DEF Drop
<1>7. CASE NextReady
  BY <1>7 DEF NextReady, QueueStatus
<1>8. CASE TestAlive
  BY <1>8 DEF TestAlive
<1>9. CASE Choose
  BY <1>9 DEF Choose
<1>10. CASE Resume
  BY <1>10 DEF Resume
<1>11. CASE TickAlive
  BY <1>11 DEF TickAlive
<1>12. CASE Spend
  BY <1>12 DEF Spend
<1>13. CASE Spent
  BY <1>13 DEF Spent
<1>14. CASE Requeue
  BY <1>14 DEF Requeue, QueueStatus
<1>15. CASE Refill
  BY <1>15 DEF Refill
<1>16. CASE Clear
  BY <1>16 DEF Clear, ClearTo
<1> QED BY <1>1, <1>2, <1>3, <1>4, <1>5, <1>6, <1>7, <1>8,
          <1>9, <1>10, <1>11, <1>12, <1>13, <1>14, <1>15, <1>16 DEF Handler

\* What everybody else's steps keep.
LEMMA OthersKeep ==
  ASSUME TimerFires \/ (\E sig \in {"CHLD", "ALRM"} : Deliver(sig)) \/ (\E p \in Pids : Child(p)) \/ vars' = vars
  PROVE  UNCHANGED <<mainvars, setupvars, procvars, active_procs, schedvars, armed>>
<1> USE DEF mainvars, setupvars, procvars, schedvars, kernelvars, ChildOnly
<1>1. CASE TimerFires
  BY <1>1 DEF TimerFires
<1>2. CASE \E sig \in {"CHLD", "ALRM"} : Deliver(sig)
  BY <1>2 DEF Deliver
<1>3. CASE \E p \in Pids : Child(p)
  BY <1>3 DEF Child, TakeUsr1, Exec, Exit
<1>4. CASE vars' = vars
  BY <1>4 DEF vars
<1> QED BY <1>1, <1>2, <1>3, <1>4

\* Who takes a step.
LEMMA Kinds ==
  ASSUME [Next]_vars
  PROVE  \/ Main \/ Handler
         \/ TimerFires \/ (\E sig \in {"CHLD", "ALRM"} : Deliver(sig)) \/ (\E p \in Pids : Child(p)) \/ vars' = vars
BY DEF Next, Thread, Over

\* Where main may go: types of what it keeps of its place.
LEMMA MainTypesStep == ASSUME Inv, [Next]_vars PROVE MainTypes'
<1> USE DEF MainAt
<1>1. prog \in ProgramNames /\ MainTypes /\ PcInv /\ pcount \in 0..MaxLines /\ MaxLines \in Nat
  BY UspsAssumption DEF Inv, MainTypes, DataTypes
<1>2. ASSUME pc \notin {"return", "leave", "bump"}, Advance, prog' = prog PROVE MainTypes'
  <2>1. pc' = After(text.main, pc) /\ sub' = "test" /\ k' = 1 /\ status' = status /\ status # "ended"
    BY <1>1, <1>2 DEF Advance, Goto, MainTypes
  <2>2. PcInv'
    BY <1>1, <1>2, <2>1, Onward DEF PcInv
  <2> QED BY <1>1, <1>2, <2>1, <2>2 DEF MainTypes
<1>3. ASSUME NEW l, Goto(l), prog' = prog, status = "running", l \in {"read", "count"} \/ (prog \in V3s /\ l = "close1") \/ (prog \in Lates /\ l = "close2") PROVE MainTypes'
  <2>1. pc' = l /\ sub' = "test" /\ k' = 1 /\ status' = status
    BY <1>3 DEF Goto
  <2>2. PcInv'
    <3>1. prog \in V3s => prog \notin V1s /\ prog \notin V2s /\ prog \notin Lates
      BY DEF V1s, V2s, V3s, Lates
    <3>2. prog \in Lates => prog \notin V1s /\ prog \notin V2s /\ prog \notin V3s
      BY DEF V1s, V2s, V3s, Lates
    <3> QED BY <1>3, <2>1, <3>1, <3>2 DEF PcInv, V1Labels, V2Labels, V3Labels, LateLabels
  <2> QED BY <1>1, <1>3, <2>1, <2>2 DEF MainTypes
<1>4. ASSUME pc' = pc, sub' = sub, k' = k, prog' = prog, status' \in {"usage", "failed", "undefined"} \/ status' = status PROVE MainTypes'
  BY <1>1, <1>4 DEF MainTypes, PcInv
<1>5. CASE Main
  <2>0. prog' = prog /\ status = "running"
    BY <1>5, MainKeeps
  <2>1. CASE Options \/ Quantum \/ Open \/ Establish \/ CreateQueue
    BY <2>1, <2>0, <1>2, <1>4 DEF Options, Quantum, Open, Establish, CreateQueue, End, SignalOf
  <2>2. CASE Clamp \/ Ticks \/ Record \/ Enqueue \/ Count \/ Close \/ Dispatch \/ Pause \/ Destroy
    BY <2>2, <2>0, <1>2 DEF Clamp, Ticks, Record, Enqueue, Count, Close, Dispatch, Pause, Destroy
  <2>3. CASE ReadAndFork
    <3>1. CASE Goto("count")
      BY <2>0, <1>3, <3>1
    <3>2. CASE Advance
      BY <2>0, <2>3, <3>2, <1>2 DEF ReadAndFork
    <3> QED BY <2>3, <3>1, <3>2 DEF ReadAndFork
  <2>4. CASE Leave \/ Bump
    BY <2>0, <2>4, <1>3 DEF Leave, Bump
  <2>5. CASE ReapTest \/ ReapWait \/ ReapLoad \/ ReapStore
    <3>1. pc \in Reaping
      BY <2>5 DEF ReapTest, ReapWait, ReapLoad, ReapStore, ReapAt
    <3>2. CASE Advance
      BY <2>0, <3>1, <3>2, <1>2 DEF Reaping
    <3>3. CASE pc' = pc /\ k' = k /\ status' = status /\ sub' \in {"test", "wait", "load", "store"}
      BY <1>1, <2>0, <3>1, <3>3 DEF MainTypes, PcInv
    <3> QED BY <2>5, <3>2, <3>3 DEF ReapTest, ReapWait, ReapLoad, ReapStore, Sub
  <2>6. CASE SetTimer
    <3>1. pc = "timer" /\ (prog \in V3s \/ prog \in Lates)
      BY <1>1, <2>6, Classes DEF SetTimer, PcInv, V1Labels, V2Labels
    <3>2. prog \in V3s => prog \notin Lates
      BY DEF V3s, Lates
    <3>3. CASE Advance
      BY <2>0, <3>1, <3>3, <1>2
    <3>4. CASE Goto(IF "close2" \in Statements THEN "close2" ELSE "close1")
      BY <1>1, <2>0, <3>1, <3>2, <3>4, <1>3, StatementsOf
    <3> QED BY <2>6, <3>3, <3>4 DEF SetTimer
  <2>7. CASE Round
    <3>1. pc \in {"usr1", "stop", "cont"} /\ sub = sub
      BY <2>7 DEF Round, SignalSent
    <3>2. CASE Advance
      BY <2>0, <3>1, <3>2, <1>2
    <3>3. CASE k <= pcount /\ k' = k + 1 /\ UNCHANGED <<pc, sub, tmp, status>>
      BY <1>1, <2>0, <3>1, <3>3 DEF MainTypes, PcInv
    <3> QED BY <2>7, <3>2, <3>3 DEF Round
  <2>8. CASE Return
    BY <1>1, <2>0, <2>8 DEF Return, End, MainTypes, PcInv
  <2> QED BY <1>5, <2>1, <2>2, <2>3, <2>4, <2>5, <2>6, <2>7, <2>8 DEF Main
<1>6. CASE Handler
  BY <1>4, <1>6, HandlerKeeps
<1>7. CASE TimerFires \/ (\E sig \in {"CHLD", "ALRM"} : Deliver(sig)) \/ (\E p \in Pids : Child(p)) \/ vars' = vars
  BY <1>4, <1>7, OthersKeep DEF mainvars, setupvars
<1> QED BY <1>5, <1>6, <1>7, Kinds

-----------------------------------------------------------------------------
(* The quantum. *)

\* The parts of the invariant, and the kinds of programs.
LEMMA Known ==
  ASSUME Inv
  PROVE  /\ MainTypes /\ SetupTypes /\ DataTypes /\ KernelTypes
         /\ FramesInv /\ QuietInv /\ CountInv /\ QuantumInv /\ ReapInv /\ SchedInv /\ GateInv
         /\ prog \in ProgramNames /\ PcInv /\ MaxLines \in Nat
         /\ prog \in V1s \union V2s \/ prog \in V3s \/ prog \in Lates
         /\ prog \in V1s \union V2s => prog \notin V3s /\ prog \notin Lates
         /\ prog \in V3s => prog \notin V1s /\ prog \notin V2s /\ prog \notin Lates
         /\ prog \in Lates => prog \notin V1s /\ prog \notin V2s /\ prog \notin V3s
<1>1. /\ MainTypes /\ SetupTypes /\ DataTypes /\ KernelTypes
      /\ FramesInv /\ QuietInv /\ CountInv /\ QuantumInv /\ ReapInv /\ SchedInv /\ GateInv
  BY DEF Inv
<1>2. prog \in ProgramNames /\ PcInv /\ MaxLines \in Nat
  BY <1>1, UspsAssumption DEF MainTypes
<1>3. prog \in V1s \union V2s \/ prog \in V3s \/ prog \in Lates
  BY <1>2, Classes
<1> QED BY <1>1, <1>2, <1>3 DEF V1s, V2s, V3s, Lates

\* MIN_Q and MAX_Q.
LEMMA Clamping == ASSUME NEW q \in Int PROVE Clamped(q) \in 20..1000
BY DEF Clamped

\* At most 50 ticks in a clamped quantum.
LEMMA Rounding ==
  ASSUME NEW q \in Int
  PROVE  /\ Rounded(q) \in Int /\ Truncated(Rounded(q), 20) \in Int
         /\ q \in 20..1000 => Truncated(Rounded(q), 20) \in 0..50
<1>1. ASSUME NEW a \in Int PROVE Truncated(a, 20) \in Int
  BY DEF Truncated
<1>2. Rounded(q) \in Int
  BY <1>1 DEF Rounded
<1>3. ASSUME q \in 20..1000 PROVE Truncated(Rounded(q), 20) \in 0..50
  <2>1. PICK d : d = (q + 1) \div 20
    OBVIOUS
  <2>2. d \in 0..50
    BY <2>1, <1>3
  <2>3. Rounded(q) = 20 * d
    BY <2>1, <1>3 DEF Rounded, Truncated
  <2>4. Truncated(20 * d, 20) = d
    BY <2>2 DEF Truncated
  <2> QED BY <2>2, <2>3, <2>4
<1> QED BY <1>1, <1>2, <1>3

\* Signals main has a handler for, the quantum and the ticks.
LEMMA SetupStep == ASSUME Inv, [Next]_vars PROVE SetupTypes' /\ QuantumInv'
<1>0. /\ SetupTypes /\ QuantumInv /\ prog \in ProgramNames /\ PcInv
      /\ prog \in V3s => prog \notin V1s /\ prog \notin V2s /\ prog \notin Lates
  BY Known
<1> USE DEF MainAt
<1>1. ASSUME handles' = handles, Q' = Q, q_ticks' = q_ticks, prog' = prog, prog \in V3s /\ pc' = "ticks" => pc = "ticks"
      PROVE SetupTypes' /\ QuantumInv'
  BY <1>0, <1>1 DEF SetupTypes, QuantumInv
<1>2. ASSUME Main PROVE SetupTypes' /\ QuantumInv'
  <2>0. prog' = prog
    BY <1>2, MainKeeps
  <2>1. ASSUME NEW l, MainAt(l), l \in SetupLabels \ {"clamp"}, Advance
        PROVE  prog \in V3s => pc' # "ticks"
    BY <1>0, <2>1, SetupFlow DEF Advance, Goto
  <2>2. CASE Options
    <3>1. Q' \in Int /\ handles' = handles /\ q_ticks' = q_ticks
      BY <1>0, <2>2, UspsAssumption DEF Options, SetupTypes, setupvars
    <3>2. prog \in V3s => pc' # "ticks"
      BY <2>2, <2>1 DEF Options, SetupLabels, End
    <3> QED BY <1>0, <2>0, <3>1, <3>2 DEF SetupTypes, QuantumInv
  <2>3. CASE Establish
    <3>1. handles' \subseteq {"USR1", "USR2", "CHLD", "ALRM"} /\ Q' = Q /\ q_ticks' = q_ticks
      <4>1. \A l \in DOMAIN SignalOf : SignalOf[l] \in {"USR1", "USR2", "CHLD", "ALRM"}
        BY DEF SignalOf
      <4>2. Q' = Q /\ q_ticks' = q_ticks /\ (handles' = handles \/ \E l \in DOMAIN SignalOf : handles' = handles \union {SignalOf[l]})
        BY <2>3 DEF Establish
      <4> QED BY <1>0, <4>1, <4>2 DEF SetupTypes
    <3>2. prog \in V3s => pc' # "ticks"
      <4>1. PICK l \in DOMAIN SignalOf : MainAt(l) /\ (Advance \/ End("failed"))
        BY <2>3 DEF Establish
      <4>2. l \in SetupLabels \ {"clamp"} /\ l # "ticks"
        BY DEF SignalOf, SetupLabels
      <4> QED BY <4>1, <4>2, <2>1 DEF End
    <3> QED BY <1>0, <2>0, <3>1, <3>2 DEF SetupTypes, QuantumInv
  <2>4. CASE Clamp
    <3>1. handles' = handles /\ q_ticks' = q_ticks /\ Q' \in 20..1000
      BY <1>0, <2>4, Clamping DEF Clamp, SetupTypes
    <3> QED BY <1>0, <2>0, <3>1 DEF SetupTypes, QuantumInv
  <2>5. CASE Ticks
    <3>1. handles' = handles /\ Q' = Rounded(Q) /\ q_ticks' = Truncated(Rounded(Q), 20) /\ pc = "ticks"
      BY <2>5 DEF Ticks
    <3>2. Q' \in Int /\ q_ticks' \in Int /\ (prog \in V3s => q_ticks' \in 0..50)
      BY <1>0, <3>1, Rounding DEF SetupTypes, QuantumInv
    <3>3. prog \in V3s => pc' # "ticks"
      BY <2>5, <2>1 DEF Ticks, SetupLabels
    <3> QED BY <1>0, <2>0, <3>1, <3>2, <3>3 DEF SetupTypes, QuantumInv
  <2>6. CASE Quantum \/ Open \/ CreateQueue
    BY <2>6, <2>1, <2>0, <1>1 DEF Quantum, Open, CreateQueue, SetupLabels, setupvars, End
  <2>7. CASE ReadAndFork \/ Record \/ Enqueue \/ Count \/ Leave \/ Bump \/ Dispatch \/ Pause \/ Destroy \/ Close
    <3>1. PICK l \in {"read", "record", "enqueue", "count", "leave", "bump", "dispatch", "pause", "destroy", "close1", "close2", "close3"} :
             MainAt(l) /\ (Advance \/ (Goto("read") \/ Goto("count")))
      BY <2>7 DEF ReadAndFork, Record, Enqueue, Count, Leave, Bump, Dispatch, Pause, Destroy, Close
    <3>2. prog \in V3s => pc' # "ticks"
      <4>1. CASE l \in {"leave", "bump"} \/ ~Advance
        BY <2>7, <3>1, <4>1 DEF Goto, Leave, Bump, ReadAndFork, Record, Enqueue, Count, Dispatch, Pause, Destroy, Close
      <4>2. CASE l \notin {"leave", "bump"} /\ Advance
        BY <1>0, <3>1, <4>2, PastSetup DEF Advance, Goto, SetupLabels
      <4> QED BY <4>1, <4>2
    <3>3. UNCHANGED setupvars
      BY <2>7 DEF ReadAndFork, Record, Enqueue, Count, Leave, Bump, Dispatch, Pause, Destroy, Close
    <3> QED BY <1>1, <3>2, <3>3 DEF setupvars
  <2>8. CASE ReapTest \/ ReapWait \/ ReapLoad \/ ReapStore
    <3>1. prog \notin V3s
      BY <1>0, <2>8 DEF ReapTest, ReapWait, ReapLoad, ReapStore, ReapAt, Reaping, PcInv, V3Labels
    <3>2. UNCHANGED setupvars
      BY <2>8 DEF ReapTest, ReapWait, ReapLoad, ReapStore
    <3> QED BY <1>1, <3>1, <3>2 DEF setupvars
  <2>9. CASE SetTimer
    <3>1. pc = "timer" /\ (Advance \/ pc' \in {"close1", "close2"}) /\ UNCHANGED setupvars
      BY <2>9 DEF SetTimer, Goto
    <3>2. prog \in V3s => pc' # "ticks"
      BY <1>0, <3>1, MainFlow DEF Advance, Goto
    <3> QED BY <1>1, <3>1, <3>2 DEF setupvars
  <2>10. CASE Round
    <3>1. pc \in {"usr1", "stop", "cont"} /\ (Advance \/ pc' = pc) /\ UNCHANGED setupvars
      BY <2>10 DEF Round, SignalSent
    <3>2. prog \in V3s => pc' # "ticks"
      BY <1>0, <3>1, MainFlow DEF Advance, Goto
    <3> QED BY <1>1, <3>1, <3>2 DEF setupvars
  <2>11. CASE Return
    BY <2>11, <2>0, <1>1 DEF Return, End, setupvars
  <2> QED BY <1>2, <2>2, <2>3, <2>4, <2>5, <2>6, <2>7, <2>8, <2>9, <2>10, <2>11 DEF Main
<1>3. CASE Handler
  BY <1>1, <1>3, HandlerKeeps
<1>4. CASE TimerFires \/ (\E sig \in {"CHLD", "ALRM"} : Deliver(sig)) \/ (\E p \in Pids : Child(p)) \/ vars' = vars
  BY <1>1, <1>4, OthersKeep DEF setupvars, mainvars
<1> QED BY <1>2, <1>3, <1>4, Kinds

-----------------------------------------------------------------------------
(* What each step of a handler does to the frames. *)

\* The alarm handler on top goes from l to m; what it is to send was r and is s.
Moves(l, r, m, s) ==
  /\ chld' = chld
  /\ \/ /\ alrm.at = l /\ alrm.sig = r /\ alrm'.at = m /\ alrm'.sig = s
        /\ call' = call
     \/ /\ alrm = NoFrame /\ alrm' = NoFrame
        /\ call.at = l /\ call.sig = r /\ call'.at = m /\ call'.sig = s

\* Only a program with handlers has a frame.
LEMMA Handling ==
  ASSUME Inv, frames # <<>>
  PROVE  prog \in V3s \union Lates
BY Known DEF QuietInv

\* A step of the innermost frame, when it is the alarm handler's.
LEMMA MovedOn ==
  ASSUME FramesInv, frames # <<>>, top.kind \in {"ALRM", "call"}, NEW g, FrameStep(g)
  PROVE  Moves(top.at, top.sig, g.at, g.sig)
<1>1. CASE top.kind = "ALRM"
  BY <1>1 DEF FrameStep, Moves
<1>2. CASE top.kind = "call"
  BY <1>2 DEF FrameStep, Moves
<1> QED BY <1>1, <1>2

\* The handler jumps.
LEMMA MovesTo ==
  ASSUME Inv, NEW l \in AlarmLabels, Scheduling(l), NEW m \in AlarmLabels \ {"resume"}, StepTo(m), prog' = prog,
         m = "show" => prog \in {"v4", "old_v4", "test_v4"}
  PROVE  FramesInv' /\ Moves(l, top.sig, m, top.sig)
<1>1. FramesInv /\ frames # <<>> /\ top.kind \in {"ALRM", "call"} /\ top.at = l
  BY Known DEF Scheduling, HandlerAt
<1>2. m \in AlarmLabels \union {"waitpid", "mark"} /\ m # "resume" /\ (top.kind = "CHLD" <=> m \in {"waitpid", "mark"})
  BY <1>1 DEF AlarmLabels
<1>3. PICK g : g.at = m /\ g.sig = top.sig /\ FramesInv' /\ FrameStep(g)
  BY <1>1, <1>2, SteppedTo
<1> QED BY <1>1, <1>3, MovedOn

\* The handler returns.
LEMMA MovesOut ==
  ASSUME Inv, NEW l \in AlarmLabels, Scheduling(l), Done, prog' = prog
  PROVE  FramesInv' /\ Moves(l, top.sig, "none", "none")
<1>1. FramesInv /\ frames # <<>> /\ top.kind \in {"ALRM", "call"} /\ top.at = l
  BY Known DEF Scheduling, HandlerAt
<1>2. FramesInv' /\ FrameStep(NoFrame)
  BY <1>1, Popped
<1>3. NoFrame.at = "none" /\ NoFrame.sig = "none"
  BY DEF NoFrame
<1> QED BY <1>1, <1>2, <1>3, MovedOn

\* The handler goes on in the order of its text.
Onto(l, m) ==
  \/ l = "tick" /\ m = "alive"
  \/ l = "alive" /\ m = "spend"
  \/ l = "spent" /\ m = "preempt"
  \/ l = "preempt" /\ m = "requeue"
  \/ l = "requeue" /\ m \in {"show", "drop"}
  \/ l = "show" /\ m = "drop"
  \/ l = "next" /\ m = "test"
  \/ l = "test" /\ m = "refill"
  \/ l = "refill" /\ m = "choose"
  \/ l = "choose" /\ m = "clear"
LEMMA FollowsTo ==
  ASSUME Inv, NEW l \in {"tick", "alive", "spent", "preempt", "requeue", "show", "next", "test", "refill", "choose"},
         Scheduling(l), Follow, prog' = prog
  PROVE  FramesInv' /\ \E m : Onto(l, m) /\ Moves(l, top.sig, m, top.sig)
<1>1. FramesInv /\ frames # <<>> /\ top.at = l /\ l \in AlarmLabels
  BY Known DEF Scheduling, HandlerAt, AlarmLabels
<1>2. prog \in V3s \union Lates /\ (l = "show" => prog \in {"v4", "old_v4", "test_v4"})
  BY <1>1, Handling, TopFacts
<1>3. PICK m \in AlarmLabels \ {"resume"} :
        StepTo(m) /\ (m = "show" => prog \in {"v4", "old_v4", "test_v4"}) /\ Onto(l, m)
  BY <1>1, <1>2, AlarmFlow DEF Follow, AlarmLabels, Onto
<1>4. FramesInv' /\ Moves(l, top.sig, m, top.sig)
  BY <1>1, <1>3, MovesTo
<1> QED BY <1>3, <1>4

\* The frame of the handler is written.
LEMMA MovesWith ==
  ASSUME Inv, NEW l \in AlarmLabels, Scheduling(l), NEW g \in Frame, g.kind = top.kind, g.at \in AlarmLabels \ {"show"},
         g.at = "resume" => g.sig # "none", frames' = [frames EXCEPT ![Len(frames)] = g], prog' = prog
  PROVE  FramesInv' /\ Moves(l, top.sig, g.at, g.sig)
<1>1. FramesInv /\ frames # <<>> /\ top.kind \in {"ALRM", "call"} /\ top.at = l
  BY Known DEF Scheduling, HandlerAt
<1>2. g.kind # "CHLD" /\ g.at \notin {"waitpid", "mark"} /\ g.at # "show"
  BY <1>1 DEF AlarmLabels
<1>3. FramesInv' /\ FrameStep(g)
  BY <1>1, <1>2, Stepped
<1> QED BY <1>1, <1>3, MovedOn

\* The process a statement of the handler uses.
LEMMA CurrentIs ==
  ASSUME Inv, NEW l \in UsePcs, Scheduling(l)
  PROVE  current_process \in Pids /\ current \in Pcb
<1>1. FramesInv /\ SchedInv /\ DataTypes /\ frames # <<>> /\ top.kind \in {"ALRM", "call"} /\ top.at = l
  BY Known DEF Scheduling, HandlerAt
<1>2. alrm.at = l \/ (alrm = NoFrame /\ call.at = l)
  BY <1>1, TopIs, CallAlone
<1>3. current_process # 0
  BY <1>1, <1>2 DEF SchedInv, NoFrame
<1> QED BY <1>1, <1>3 DEF DataTypes, Pids, current

\* Each step of the SIGALRM handler.
LEMMA TickFrames ==
  ASSUME Inv, Tick
  PROVE  /\ FramesInv'
         /\ \E r : \/ current_process # 0 /\ Moves("tick", r, "alive", r)
                   \/ current_process = 0 /\ Moves("tick", r, "next", r)
<1>1. Scheduling("tick") /\ prog' = prog
  BY DEF Tick, KeepRest, setupvars
<1>2. CASE current_process # 0
  <2>1. Follow
    BY <1>2 DEF Tick
  <2> QED BY <1>1, <1>2, <2>1, FollowsTo DEF Onto
<1>3. CASE current_process = 0
  <2>1. StepTo("next")
    BY <1>3 DEF Tick
  <2> QED BY <1>1, <1>3, <2>1, MovesTo DEF AlarmLabels
<1> QED BY <1>2, <1>3

LEMMA TickAliveFrames ==
  ASSUME Inv, TickAlive
  PROVE  /\ FramesInv'
         /\ \E r : \/ pcb_arr[current_process].alive /\ Moves("alive", r, "spend", r)
                   \/ ~pcb_arr[current_process].alive /\ Moves("alive", r, "drop", r)
<1>1. Scheduling("alive") /\ prog' = prog
  BY DEF TickAlive, KeepRest, setupvars
<1>2. CASE current.alive
  <2>1. Follow
    BY <1>2 DEF TickAlive
  <2> QED BY <1>1, <1>2, <2>1, FollowsTo DEF Onto, current
<1>3. CASE ~current.alive
  <2>1. StepTo("drop")
    BY <1>3 DEF TickAlive
  <2> QED BY <1>1, <1>3, <2>1, MovesTo DEF AlarmLabels, current
<1> QED BY <1>2, <1>3

LEMMA SpendFrames ==
  ASSUME Inv, Spend
  PROVE  FramesInv' /\ \E r : Moves("spend", r, "spent", r)
<1>1. Scheduling("spend") /\ FramesInv /\ frames # <<>> /\ prog' = prog
  BY Known DEF Spend, Scheduling, HandlerAt, KeepRest, setupvars
<1>2. current.ticks \in Int
  BY <1>1, CurrentIs DEF UsePcs, Pcb
<1>3. PICK g : g = [top EXCEPT !.at = "spent", !.left = current.ticks]
  OBVIOUS
<1>4. g \in Frame /\ g.kind = top.kind /\ g.at = "spent" /\ g.sig = top.sig
  BY <1>1, <1>2, <1>3, TopFacts DEF Frame, AlarmLabels
<1>5. frames' = [frames EXCEPT ![Len(frames)] = g]
  <2>1. frames \in Seq(Frame) /\ Len(frames) \in 1..Len(frames)
    BY <1>1, TopFacts DEF FramesInv
  <2>2. frames' = [frames EXCEPT ![Len(frames)].at = "spent", ![Len(frames)].left = current.ticks]
    BY DEF Spend
  <2> QED BY <1>3, <2>1, <2>2 DEF top
<1>6. FramesInv' /\ Moves("spend", top.sig, g.at, g.sig)
  BY <1>1, <1>4, <1>5, MovesWith DEF AlarmLabels
<1> QED BY <1>4, <1>6

LEMMA SpentFrames ==
  ASSUME Inv, Spent
  PROVE  FramesInv' /\ \E r : Moves("spent", r, "none", "none") \/ Moves("spent", r, "preempt", r)
<1>1. Scheduling("spent") /\ prog' = prog
  BY DEF Spent, KeepRest, setupvars
<1>2. CASE Done
  BY <1>1, <1>2, MovesOut DEF AlarmLabels
<1>3. CASE Follow
  BY <1>1, <1>3, FollowsTo DEF Onto
<1> QED BY <1>2, <1>3 DEF Spent

LEMMA PreemptFrames ==
  ASSUME Inv, Preempt
  PROVE  FramesInv' /\ \E r : Moves("preempt", r, "requeue", r)
<1>1. Scheduling("preempt") /\ prog' = prog /\ Follow
  BY DEF Preempt, KeepRest, setupvars
<1> QED BY <1>1, FollowsTo DEF Onto

LEMMA RequeueFrames ==
  ASSUME Inv, Requeue
  PROVE  FramesInv' /\ \E r : Moves("requeue", r, "show", r) \/ Moves("requeue", r, "drop", r)
<1>1. Scheduling("requeue") /\ prog' = prog /\ Follow
  BY DEF Requeue, KeepRest, setupvars
<1> QED BY <1>1, FollowsTo DEF Onto

LEMMA ShowFrames ==
  ASSUME Inv, Show
  PROVE  FramesInv' /\ \E r : Moves("show", r, "drop", r)
<1>1. Scheduling("show") /\ prog' = prog /\ Follow
  BY DEF Show, KeepRest, setupvars
<1> QED BY <1>1, FollowsTo DEF Onto

LEMMA DropFrames ==
  ASSUME Inv, Drop
  PROVE  FramesInv' /\ \E r : Moves("drop", r, "next", r)
<1>1. Scheduling("drop") /\ prog' = prog /\ StepTo("next")
  BY DEF Drop, KeepRest, setupvars
<1> QED BY <1>1, MovesTo DEF AlarmLabels

LEMMA NextFrames ==
  ASSUME Inv, NextReady
  PROVE  /\ FramesInv'
         /\ \E r : \/ (destroyed \/ ready_queue = <<>>) /\ Moves("next", r, "none", "none")
                   \/ ~(destroyed \/ ready_queue = <<>>) /\ Moves("next", r, "test", r)
<1>1. Scheduling("next") /\ prog' = prog
  BY DEF NextReady, KeepRest, setupvars
<1>2. CASE destroyed \/ ready_queue = <<>>
  <2>1. Done
    BY <1>2 DEF NextReady
  <2> QED BY <1>1, <1>2, <2>1, MovesOut DEF AlarmLabels
<1>3. CASE ~(destroyed \/ ready_queue = <<>>)
  <2>1. Follow
    BY <1>3 DEF NextReady
  <2> QED BY <1>1, <1>3, <2>1, FollowsTo DEF Onto
<1> QED BY <1>2, <1>3

LEMMA TestFrames ==
  ASSUME Inv, TestAlive
  PROVE  /\ FramesInv'
         /\ \E r : \/ pcb_arr[current_process].alive /\ Moves("test", r, "refill", r)
                   \/ ~pcb_arr[current_process].alive /\ Moves("test", r, "next", r)
<1>1. Scheduling("test") /\ prog' = prog
  BY DEF TestAlive, KeepRest, setupvars
<1>2. CASE current.alive
  <2>1. Follow
    BY <1>2 DEF TestAlive
  <2> QED BY <1>1, <1>2, <2>1, FollowsTo DEF Onto, current
<1>3. CASE ~current.alive
  <2>1. StepTo("next")
    BY <1>3 DEF TestAlive
  <2> QED BY <1>1, <1>3, <2>1, MovesTo DEF AlarmLabels, current
<1> QED BY <1>2, <1>3

LEMMA RefillFrames ==
  ASSUME Inv, Refill
  PROVE  FramesInv' /\ \E r : Moves("refill", r, "choose", r)
<1>1. Scheduling("refill") /\ prog' = prog /\ Follow
  BY DEF Refill, KeepRest, setupvars
<1> QED BY <1>1, FollowsTo DEF Onto

\* Choosing what to send, and taking the flag.
LEMMA ToResume ==
  ASSUME Inv, NEW l \in AlarmLabels, Scheduling(l), NEW s \in {"USR1", "CONT"}, prog' = prog,
         frames' = [frames EXCEPT ![Len(frames)].at = "resume", ![Len(frames)].sig = s]
  PROVE  FramesInv' /\ Moves(l, top.sig, "resume", s)
<1>1. FramesInv /\ frames # <<>>
  BY Known DEF Scheduling, HandlerAt
<1>2. PICK g : g = [top EXCEPT !.at = "resume", !.sig = s]
  OBVIOUS
<1>3. g \in Frame /\ g.kind = top.kind /\ g.at = "resume" /\ g.sig = s
  BY <1>1, <1>2, TopFacts DEF Frame, AlarmLabels
<1>4. frames' = [frames EXCEPT ![Len(frames)] = g]
  <2>1. frames \in Seq(Frame) /\ Len(frames) \in 1..Len(frames)
    BY <1>1, TopFacts DEF FramesInv
  <2> QED BY <1>2, <2>1 DEF top
<1>5. FramesInv' /\ Moves(l, top.sig, g.at, g.sig)
  BY <1>3, <1>4, MovesWith DEF AlarmLabels
<1> QED BY <1>3, <1>5

LEMMA ChooseFrames ==
  ASSUME Inv, Choose
  PROVE  /\ FramesInv'
         /\ \E r : \/ pcb_arr[current_process].send_usr1 /\ Moves("choose", r, "clear", r)
                   \/ ~pcb_arr[current_process].send_usr1 /\ Moves("choose", r, "resume", "CONT")
<1>1. Scheduling("choose") /\ prog' = prog
  BY DEF Choose, KeepRest, setupvars
<1>2. CASE current.send_usr1
  <2>1. Follow
    BY <1>2 DEF Choose
  <2> QED BY <1>1, <1>2, <2>1, FollowsTo DEF Onto, current
<1>3. CASE ~current.send_usr1
  <2>1. frames' = [frames EXCEPT ![Len(frames)].at = "resume", ![Len(frames)].sig = "CONT"]
    BY <1>3 DEF Choose
  <2> QED BY <1>1, <1>3, <2>1, ToResume DEF AlarmLabels, current
<1> QED BY <1>2, <1>3

LEMMA ClearFrames ==
  ASSUME Inv, Clear
  PROVE  FramesInv' /\ \E r : Moves("clear", r, "resume", "USR1")
<1>1. /\ Scheduling("clear") /\ prog' = prog
      /\ frames' = [frames EXCEPT ![Len(frames)].at = "resume", ![Len(frames)].sig = "USR1"]
  BY DEF Clear, ClearTo, KeepRest, setupvars
<1> QED BY <1>1, ToResume DEF AlarmLabels

LEMMA ResumeFrames ==
  ASSUME Inv, Resume
  PROVE  FramesInv' /\ Moves("resume", top.sig, "none", "none") /\ top.sig \in {"USR1", "CONT"}
<1>1. Scheduling("resume") /\ prog' = prog /\ Done
  BY DEF Resume, KeepRest, setupvars
<1>2. top \in Frame /\ top.sig # "none"
  BY <1>1, Known, TopFacts DEF Scheduling, HandlerAt
<1>3. top.sig \in {"USR1", "CONT"}
  BY <1>2 DEF Frame
<1> QED BY <1>1, <1>3, MovesOut DEF AlarmLabels

\* The steps of the SIGCHLD handler.
LEMMA ReapFrames ==
  ASSUME Inv, Reap
  PROVE  /\ FramesInv' /\ alrm' = alrm /\ call' = call /\ chld.at = "waitpid"
         /\ \/ chld'.at = "mark" /\ \E p \in Pids : child[p].st = "zombie" /\ ReapedOne(p)
            \/ chld' = NoFrame /\ child' = child
<1>1. FramesInv /\ frames # <<>> /\ top.kind = "CHLD" /\ top.at = "waitpid" /\ prog' = prog
  BY Known DEF Reap, HandlerAt, KeepRest, setupvars
<1>2. CASE \E p \in Pids : child[p].st = "zombie"
  <2>1. PICK p \in Pids : /\ child[p].st = "zombie" /\ child' = [child EXCEPT ![p].st = "reaped"]
                          /\ frames' = [frames EXCEPT ![Len(frames)].at = "mark", ![Len(frames)].pid = p]
    BY <1>2 DEF Reap
  <2>2. PICK g : g = [top EXCEPT !.at = "mark", !.pid = p]
    OBVIOUS
  <2>3. top \in Frame /\ frames \in Seq(Frame) /\ Len(frames) \in 1..Len(frames)
    BY <1>1, TopFacts DEF FramesInv
  <2>4. g \in Frame /\ g.kind = top.kind /\ g.at = "mark"
    <3>1. p \in 0..MaxLines
      BY UspsAssumption DEF Pids
    <3> QED BY <2>2, <2>3, <3>1 DEF Frame
  <2>5. frames' = [frames EXCEPT ![Len(frames)] = g]
    BY <2>1, <2>2, <2>3 DEF top
  <2>6. FramesInv' /\ FrameStep(g)
    BY <1>1, <2>4, <2>5, Stepped
  <2> QED BY <1>1, <2>1, <2>4, <2>6 DEF FrameStep, ReapedOne
<1>3. CASE ~\E p \in Pids : child[p].st = "zombie"
  <2>1. Done /\ child' = child
    BY <1>3 DEF Reap
  <2> QED BY <1>1, <2>1, Popped DEF FrameStep
<1> QED BY <1>2, <1>3

LEMMA MarkFrames ==
  ASSUME Inv, Mark
  PROVE  FramesInv' /\ alrm' = alrm /\ call' = call /\ chld.at = "mark" /\ chld'.at = "waitpid" /\ chld = top
<1>1. FramesInv /\ frames # <<>> /\ top.kind = "CHLD" /\ top.at = "mark" /\ prog' = prog /\ StepTo("waitpid")
  BY Known DEF Mark, HandlerAt, KeepRest, setupvars
<1>2. PICK g : g.at = "waitpid" /\ FramesInv' /\ FrameStep(g)
  BY <1>1, SteppedTo
<1> QED BY <1>1, <1>2 DEF FrameStep

\* main runs below no handler, and dispatch alone leaves a frame.
LEMMA MainFrames ==
  ASSUME Inv, Main
  PROVE  /\ FramesInv'
         /\ chld = NoFrame /\ alrm = NoFrame /\ call = NoFrame /\ chld' = NoFrame /\ alrm' = NoFrame
         /\ \/ pc = "dispatch" /\ call'.at = "tick" /\ call'.sig = "none"
            \/ pc # "dispatch" /\ call' = NoFrame
<1>1. frames = <<>> /\ prog' = prog
  BY MainKeeps
<1>2. CASE pc = "dispatch"
  <2>1. Dispatch
    BY <1>2 DEF Main, Options, Quantum, Open, Establish, Clamp, Ticks, CreateQueue, ReadAndFork, Record,
         Enqueue, Leave, Bump, Count, ReapTest, ReapWait, ReapLoad, ReapStore, ReapAt, Reaping, Close, SetTimer, Pause,
         Destroy, Round, Return, MainAt, SignalOf, SignalSent
  <2> QED BY <1>2, <2>1, Called
<1>3. CASE pc # "dispatch"
  <2>1. frames' = <<>>
    BY <1>3, MainKeeps
  <2>2. FramesInv'
    BY <2>1 DEF FramesInv
  <2>3. chld' = NoFrame /\ alrm' = NoFrame /\ call' = NoFrame
    BY <2>1, NoFrames DEF chld, alrm, call
  <2> QED BY <1>1, <1>3, <2>2, <2>3, Idle
<1> QED BY <1>2, <1>3

\* A step that leaves the stack alone.
LEMMA FramesSame ==
  ASSUME Inv, frames' = frames, prog' = prog
  PROVE  FramesInv' /\ chld' = chld /\ alrm' = alrm /\ call' = call
<1>1. FramesInv
  BY Known
<1> QED BY <1>1 DEF FramesInv, chld, alrm, call

\* One frame of a kind: every step keeps it.
LEMMA FramesStep == ASSUME Inv, [Next]_vars PROVE FramesInv'
<1>1. CASE Main
  BY <1>1, MainFrames
<1>2. CASE Handler
  BY <1>2, TickFrames, TickAliveFrames, SpendFrames, SpentFrames, PreemptFrames, RequeueFrames, ShowFrames,
     DropFrames, NextFrames, TestFrames, RefillFrames, ChooseFrames, ClearFrames,
     ResumeFrames, ReapFrames, MarkFrames DEF Handler
<1>3. CASE \E sig \in {"CHLD", "ALRM"} : Deliver(sig)
  BY <1>3, Known, Pushed
<1>4. CASE TimerFires \/ (\E p \in Pids : Child(p)) \/ vars' = vars
  <2>1. frames' = frames /\ prog' = prog
    BY <1>4 DEF TimerFires, Child, TakeUsr1, Exec, Exit, ChildOnly, vars, setupvars, kernelvars
  <2> QED BY <2>1, FramesSame
<1> QED BY <1>1, <1>2, <1>3, <1>4, Kinds

-----------------------------------------------------------------------------
(* The children, step by step. *)

\* Every step but a fork and a reaping keeps who was forked and who was not reaped.
LEMMA ChildrenStep ==
  ASSUME Inv, [Next]_vars
  PROVE  /\ child' \in [Pids -> ChildRec]
         /\ ~ReadAndFork /\ ~ReapWait /\ ~Reap => SameChildren
<1>0. KernelTypes /\ CountInv /\ FramesInv
  BY Known
<1>1. CASE child' = child
  BY <1>0, <1>1, Unchanged
<1>2. CASE Main
  <2>1. CASE ReadAndFork /\ child' # child
    <3>1. ForkedOne(NextPid) /\ lines > 0
      BY <2>1 DEF ReadAndFork, ForkedOne
    <3>2. Forked < MaxLines
      BY <1>0, <3>1, Known, LeftBound DEF CountInv, DataTypes
    <3> QED BY <1>0, <2>1, <3>1, <3>2, OneForked
  <2>2. CASE ReapWait /\ child' # child
    <3>1. PICK p \in Pids : child[p].st = "zombie" /\ ReapedOne(p)
      BY <2>2 DEF ReapWait, ReapedOne
    <3> QED BY <1>0, <2>2, <3>1, OneReaped
  <2>3. CASE SetTimer /\ child' # child
    <3>1. child' = [p \in Pids |-> IF \E i \in 1..pcount : pcb_arr[i].pid = p
                                   THEN Signalled(child[p], "KILL") ELSE child[p]]
      BY <2>3 DEF SetTimer
    <3>2. \A p \in Pids : Signalled(child[p], "KILL") \in ChildRec /\ Kept(child[p], Signalled(child[p], "KILL"))
      BY <1>0, SignalledKept DEF KernelTypes
    <3>3. \A p \in Pids : child[p] \in ChildRec /\ Kept(child[p], child[p])
      BY <1>0 DEF KernelTypes, Kept
    <3> QED BY <3>1, <3>2, <3>3 DEF SameChildren
  <2>4. CASE Round /\ child' # child
    <3>1. PICK l \in DOMAIN SignalSent : Kill(pcb_arr[k].pid, SignalSent[l])
      BY <2>4 DEF Round
    <3>2. SignalSent[l] \in {"USR1", "STOP", "CONT"}
      BY DEF SignalSent
    <3> QED BY <1>0, <3>1, <3>2, Killed
  <2> QED BY <1>1, <1>2, <2>1, <2>2, <2>3, <2>4 DEF Main, Options, Quantum, Open, Establish, Clamp, Ticks, CreateQueue, Record,
        Enqueue, Leave, Bump, Count, ReapTest, ReapLoad, ReapStore, Close, Dispatch, Pause, Destroy, Return, kernelvars
<1>3. CASE Handler
  <2>1. CASE Reap
    BY <1>0, <1>1, <2>1, ReapFrames, OneReaped
  <2>2. CASE Preempt
    <3>1. Kill(current.pid, "STOP")
      BY <2>2 DEF Preempt
    <3> QED BY <1>0, <3>1, Killed
  <2>3. CASE Resume
    <3>1. Kill(current.pid, top.sig) /\ top.sig \in {"USR1", "STOP", "CONT"}
      BY <2>3, ResumeFrames DEF Resume
    <3> QED BY <1>0, <3>1, Killed
  <2> QED BY <1>1, <1>3, <2>1, <2>2, <2>3 DEF Handler, Mark, Tick, TickAlive, Spend,
        Spent, Requeue, Show, Drop, NextReady, TestAlive, Refill, Choose, Clear, ClearTo
<1>4. CASE \E p \in Pids : Child(p)
  BY <1>0, <1>4, ChildMoved
<1>5. CASE TimerFires \/ (\E sig \in {"CHLD", "ALRM"} : Deliver(sig)) \/ vars' = vars
  BY <1>1, <1>5 DEF TimerFires, Deliver, vars, kernelvars
<1> QED BY <1>2, <1>3, <1>4, <1>5, Kinds

-----------------------------------------------------------------------------
(* The process table, step by step. *)

Tabled == pcb_arr' \in [Pids -> Pcb]

\* Each step that writes to the table.
LEMMA RecordTable ==
  ASSUME Inv, Record
  PROVE  /\ Tabled /\ pcount + 1 \in Pids /\ pcount + 1 = Forked /\ pc = "record"
         /\ pcb_arr'[pcount + 1].pid = Forked
         /\ prog \in V3s => pcb_arr'[pcount + 1].alive
         /\ prog \notin V3s => pcb_arr'[pcount + 1].send_usr1 = pcb_arr[pcount + 1].send_usr1
         /\ \A i \in Pids : i # pcount + 1 => pcb_arr'[i] = pcb_arr[i]
<1>0. CountInv /\ DataTypes /\ prog \in ProgramNames /\ MaxLines \in Nat /\ pc = "record"
  BY Known DEF Record, MainAt
<1>1. pcount + 1 = Forked /\ Forked \in 1..MaxLines /\ Forked = NextPid - 1
  BY <1>0, UspsAssumption DEF CountInv, DataTypes, Forked
<1>2. pcount + 1 \in Pids
  BY <1>1, UspsAssumption DEF Pids
<1>3. PICK n : n = pcount + 1
  OBVIOUS
<1>4. "enqueue" \in Statements <=> prog \in V3s
  BY <1>0, StatementsOf
<1>5. pcb_arr \in [Pids -> Pcb] /\ n \in Pids /\ pcb_arr[n] \in Pcb
  BY <1>0, <1>2, <1>3 DEF DataTypes
<1>6. PICK e : e = IF prog \in V3s THEN [pcb_arr[n] EXCEPT !.pid = Forked, !.alive = TRUE, !.send_usr1 = TRUE]
                   ELSE [pcb_arr[n] EXCEPT !.pid = Forked]
  OBVIOUS
<1>7. /\ e \in Pcb /\ e.pid = Forked
      /\ prog \in V3s => e.alive
      /\ prog \notin V3s => e.send_usr1 = pcb_arr[n].send_usr1
  <2>1. Forked \in 0..MaxLines
    BY <1>0, <1>1
  <2> QED BY <1>5, <1>6, <2>1 DEF Pcb
<1>8. pcb_arr' = [pcb_arr EXCEPT ![n] = e]
  <2>1. pcb_arr' = [pcb_arr EXCEPT ![n] =
                      IF "enqueue" \in Statements THEN [[pcb_arr[n] EXCEPT !.pid = Forked] EXCEPT !.alive = TRUE, !.send_usr1 = TRUE]
                      ELSE [pcb_arr[n] EXCEPT !.pid = Forked]]
    BY <1>1, <1>3 DEF Record
  <2>2. [[pcb_arr[n] EXCEPT !.pid = Forked] EXCEPT !.alive = TRUE, !.send_usr1 = TRUE]
          = [pcb_arr[n] EXCEPT !.pid = Forked, !.alive = TRUE, !.send_usr1 = TRUE]
    BY <1>5 DEF Pcb
  <2> QED BY <1>4, <1>6, <2>1, <2>2
<1>9. Tabled /\ pcb_arr'[n] = e /\ \A i \in Pids : i # n => pcb_arr'[i] = pcb_arr[i]
  BY <1>5, <1>7, <1>8 DEF Tabled
<1> QED BY <1>0, <1>1, <1>2, <1>3, <1>7, <1>9

\* The steps of the handlers keep the pids; only Mark and Clear change more than the ticks.
LEMMA TickTable ==
  ASSUME Inv, Spent \/ Refill
  PROVE  /\ Tabled
         /\ \A i \in Pids : /\ pcb_arr'[i].pid = pcb_arr[i].pid /\ pcb_arr'[i].alive = pcb_arr[i].alive
                            /\ pcb_arr'[i].send_usr1 = pcb_arr[i].send_usr1
<1>0. pcb_arr \in [Pids -> Pcb] /\ q_ticks \in Int
  BY Known DEF DataTypes, SetupTypes
<1>2. ASSUME NEW n, NEW t \in Int, pcb_arr' = [pcb_arr EXCEPT ![n].ticks = t]
      PROVE  /\ Tabled
             /\ \A i \in Pids : /\ pcb_arr'[i].pid = pcb_arr[i].pid /\ pcb_arr'[i].alive = pcb_arr[i].alive
                                /\ pcb_arr'[i].send_usr1 = pcb_arr[i].send_usr1
  <2>1. \A i \in Pids : pcb_arr'[i] = IF i = n THEN [pcb_arr[i] EXCEPT !.ticks = t] ELSE pcb_arr[i]
    BY <1>0, <1>2
  <2>2. \A i \in Pids : [pcb_arr[i] EXCEPT !.ticks = t] \in Pcb
    BY <1>0 DEF Pcb
  <2>3. \A i \in Pids : pcb_arr'[i] \in Pcb
    BY <1>0, <2>1, <2>2
  <2>4. Tabled
    BY <1>0, <1>2, <2>3 DEF Tabled
  <2>5. \A i \in Pids : pcb_arr[i] \in Pcb
    BY <1>0
  <2> QED BY <2>1, <2>4, <2>5 DEF Pcb
<1>3. CASE Spent
  <2>1. FramesInv /\ frames # <<>>
    BY <1>3, Known DEF Spent, Scheduling, HandlerAt
  <2>2. PICK t \in Int : t = top.left - 1
    BY <2>1, TopFacts DEF Frame
  <2>3. pcb_arr' = [pcb_arr EXCEPT ![current_process].ticks = t]
    BY <1>3, <2>2 DEF Spent
  <2> QED BY <1>2, <2>3
<1>4. CASE Refill
  <2>1. pcb_arr' = [pcb_arr EXCEPT ![current_process].ticks = q_ticks]
    BY <1>4 DEF Refill
  <2> QED BY <1>0, <1>2, <2>1
<1> QED BY <1>3, <1>4

LEMMA MarkTable ==
  ASSUME Inv, Mark
  PROVE  /\ Tabled
         /\ \A i \in Pids : pcb_arr'[i].pid = pcb_arr[i].pid /\ pcb_arr'[i].send_usr1 = pcb_arr[i].send_usr1
         /\ prog \in V3s => pcb_arr' = pcb_arr
<1>0. pcb_arr \in [Pids -> Pcb] /\ pcount \in Nat /\ (prog \in V3s => pcount = 0)
  BY Known DEF DataTypes, CountInv
<1>1. CASE pcb_arr' = pcb_arr
  BY <1>0, <1>1 DEF Tabled
<1>2. CASE pcb_arr' # pcb_arr
  <2>1. PICK n : n = pid_search(top.pid)
    OBVIOUS
  <2>2. n # 0 /\ pcb_arr' = [pcb_arr EXCEPT ![n].alive = FALSE]
    BY <1>2, <2>1 DEF Mark
  <2>3. prog \notin V3s
    <3>1. CASE prog \in V3s
      <4>1. 1..pcount = {}
        BY <1>0, <3>1
      <4>2. pid_search(top.pid) = 0
        BY <4>1 DEF pid_search
      <4> QED BY <2>1, <2>2, <4>2
    <3> QED BY <3>1
  <2>4. \A i \in Pids : pcb_arr'[i] = IF i = n THEN [pcb_arr[i] EXCEPT !.alive = FALSE] ELSE pcb_arr[i]
    BY <1>0, <2>2
  <2>5. \A i \in Pids : [pcb_arr[i] EXCEPT !.alive = FALSE] \in Pcb
    BY <1>0 DEF Pcb
  <2>6. \A i \in Pids : pcb_arr'[i] \in Pcb /\ pcb_arr[i] \in Pcb
    BY <1>0, <2>4, <2>5
  <2>7. Tabled
    BY <1>0, <2>2, <2>6 DEF Tabled
  <2> QED BY <2>3, <2>4, <2>6, <2>7 DEF Pcb
<1> QED BY <1>1, <1>2

LEMMA ClearTable ==
  ASSUME Inv, Clear
  PROVE  /\ Tabled
         /\ \A i \in Pids : pcb_arr'[i].pid = pcb_arr[i].pid /\ pcb_arr'[i].alive = pcb_arr[i].alive
         /\ \A i \in Pids : pcb_arr'[i].send_usr1 = (i # current_process /\ pcb_arr[i].send_usr1)
<1>0. pcb_arr \in [Pids -> Pcb]
  BY Known DEF DataTypes
<1>1. pcb_arr' = [pcb_arr EXCEPT ![current_process].send_usr1 = FALSE]
  BY DEF Clear, ClearTo
<1>2. \A i \in Pids : pcb_arr'[i] = IF i = current_process THEN [pcb_arr[i] EXCEPT !.send_usr1 = FALSE] ELSE pcb_arr[i]
  BY <1>0, <1>1
<1>3. \A i \in Pids : [pcb_arr[i] EXCEPT !.send_usr1 = FALSE] \in Pcb
  BY <1>0 DEF Pcb
<1>4. \A i \in Pids : pcb_arr'[i] \in Pcb /\ pcb_arr[i] \in Pcb
  BY <1>0, <1>2, <1>3
<1>5. Tabled
  BY <1>0, <1>1, <1>4 DEF Tabled
<1> QED BY <1>2, <1>4, <1>5 DEF Pcb

\* No other step writes to it.
LEMMA TableKept ==
  ASSUME Inv, [Next]_vars, ~Record, ~Spent, ~Refill, ~Mark, ~Clear
  PROVE  pcb_arr' = pcb_arr
<1>1. CASE Main
  BY <1>1 DEF Main, Options, Quantum, Open, Establish, Clamp, Ticks, CreateQueue, ReadAndFork,
        Enqueue, Leave, Bump, Count, ReapTest, ReapWait, ReapLoad, ReapStore, Close, SetTimer, Dispatch, Pause, Destroy, Round,
        Return, procvars
<1>2. CASE Handler
  BY <1>2 DEF Handler, Reap, Tick, TickAlive, Spend, Preempt, Requeue, Show, Drop, NextReady, TestAlive, Choose, Resume
<1>3. CASE TimerFires \/ (\E sig \in {"CHLD", "ALRM"} : Deliver(sig)) \/ (\E p \in Pids : Child(p)) \/ vars' = vars
  BY <1>3, OthersKeep DEF procvars
<1> QED BY <1>1, <1>2, <1>3, Kinds

\* The table keeps its type.
LEMMA TableStep ==
  ASSUME Inv, [Next]_vars
  PROVE  Tabled
<1>1. pcb_arr \in [Pids -> Pcb]
  BY Known DEF DataTypes
<1> QED BY <1>1, RecordTable, TickTable, MarkTable, ClearTable, TableKept DEF Tabled

-----------------------------------------------------------------------------
(* Types of the data. *)

\* The kernel's state keeps its type; programs without handlers have no signals.
LEMMA KernelStep == ASSUME Inv, [Next]_vars PROVE KernelTypes' /\ QuietInv'
<1>0. /\ KernelTypes /\ QuietInv /\ PcInv /\ prog \in ProgramNames /\ child' \in [Pids -> ChildRec]
      /\ prog \in V1s \union V2s => prog \notin V3s /\ prog \notin Lates
  BY Known, ChildrenStep
<1>1. ASSUME armed' \in BOOLEAN, pending' \subseteq {"CHLD", "ALRM"}, prog' = prog,
             prog \in V1s \union V2s => handles' \subseteq {"USR1"} /\ pending' = {} /\ ~armed' /\ frames' = <<>>
      PROVE  KernelTypes' /\ QuietInv'
  BY <1>0, <1>1 DEF KernelTypes, QuietInv
<1>2. ASSUME Main PROVE KernelTypes' /\ QuietInv'
  <2>0. prog' = prog /\ pending' = pending /\ frames = <<>> /\ (pc # "dispatch" => frames' = <<>>)
    BY <1>2, MainKeeps
  <2>1. prog \in V1s \union V2s => pc \notin {"dispatch", "timer", "sigusr2", "sigchld", "sigalrm"}
    BY <1>0 DEF PcInv, V1Labels, V2Labels, V1s, V2s
  <2>2. CASE Establish
    <3>1. armed' = armed
      BY <2>2 DEF Establish, kernelvars
    <3>2. prog \in V1s \union V2s => handles' \subseteq {"USR1"}
      <4>1. PICK l \in DOMAIN SignalOf : pc = l /\ (handles' = handles \/ handles' = handles \union {SignalOf[l]})
        BY <2>2 DEF Establish, MainAt
      <4>2. prog \in V1s \union V2s => l = "sigusr1" /\ SignalOf[l] = "USR1"
        BY <2>1, <4>1 DEF SignalOf
      <4> QED BY <1>0, <4>1, <4>2 DEF QuietInv
    <3> QED BY <1>0, <1>1, <2>0, <2>1, <3>1, <3>2 DEF KernelTypes, QuietInv
  <2>3. CASE SetTimer
    <3>1. pc = "timer" /\ armed' \in BOOLEAN /\ handles' = handles
      BY <1>0, <2>3 DEF SetTimer, MainAt, setupvars, KernelTypes
    <3> QED BY <1>0, <1>1, <2>0, <2>1, <3>1 DEF KernelTypes, QuietInv
  <2>4. CASE Return
    <3>1. armed' = FALSE /\ handles' = handles
      BY <2>4 DEF Return, setupvars
    <3> QED BY <1>0, <1>1, <2>0, <2>1, <3>1 DEF KernelTypes, QuietInv
  <2>5. CASE ~Establish /\ ~SetTimer /\ ~Return
    <3>1. armed' = armed /\ handles' = handles
      BY <1>2, <2>5 DEF Main, Options, Quantum, Open, Clamp, Ticks, CreateQueue, ReadAndFork, Record,
        Enqueue, Leave, Bump, Count, ReapTest, ReapWait, ReapLoad, ReapStore, Close, Dispatch, Pause, Destroy, Round,
        setupvars, kernelvars
    <3> QED BY <1>0, <1>1, <2>0, <2>1, <3>1 DEF KernelTypes, QuietInv
  <2> QED BY <2>2, <2>3, <2>4, <2>5
<1>3. CASE Handler
  <2>1. prog \notin V1s \union V2s /\ armed' = armed /\ pending' = pending /\ prog' = prog
    BY <1>0, <1>3, HandlerKeeps, Handling
  <2> QED BY <1>0, <1>1, <2>1 DEF KernelTypes
<1>4. CASE TimerFires
  <2>1. armed' = armed /\ pending' = pending \union {"ALRM"} /\ prog' = prog /\ armed
    BY <1>4 DEF TimerFires, setupvars
  <2> QED BY <1>0, <1>1, <2>1 DEF KernelTypes, QuietInv
<1>5. ASSUME NEW sig \in {"CHLD", "ALRM"}, Deliver(sig) PROVE KernelTypes' /\ QuietInv'
  <2>1. armed' = armed /\ pending' = pending \ {sig} /\ prog' = prog /\ sig \in pending
    BY <1>5 DEF Deliver, setupvars
  <2> QED BY <1>0, <1>1, <2>1 DEF KernelTypes, QuietInv
<1>6. ASSUME NEW p \in Pids, Child(p) PROVE KernelTypes' /\ QuietInv'
  <2>1. pending' = pending \/ ("CHLD" \in handles /\ pending' = pending \union {"CHLD"})
    BY <1>6, ChildMoved, Known
  <2>2. UNCHANGED <<armed, frames, handles, prog>>
    BY <1>6 DEF Child, TakeUsr1, Exec, Exit, ChildOnly, setupvars
  <2> QED BY <1>0, <1>1, <2>1, <2>2 DEF KernelTypes, QuietInv
<1>7. CASE vars' = vars
  <2>1. UNCHANGED <<armed, pending, frames, handles, prog>>
    BY <1>7 DEF vars, setupvars, kernelvars
  <2> QED BY <1>0, <1>1, <2>1 DEF KernelTypes, QuietInv
<1> QED BY <1>2, <1>3, <1>4, <1>5, <1>6, <1>7, Kinds

\* The data of main and the handlers keeps its type.
LEMMA DataStep == ASSUME Inv, [Next]_vars PROVE DataTypes'
<1>0. DataTypes /\ CountInv /\ SchedInv /\ MaxLines \in Nat /\ Tabled /\ prog \in ProgramNames /\ PcInv
  BY Known, TableStep
<1>1. lines' \in 0..MaxLines /\ pcount' \in 0..MaxLines /\ active_procs' \in Int /\ tmp' \in Int
  <2>1. CASE Main
    <3>1. lines' \in 0..MaxLines
      <4>1. lines' = lines \/ (lines > 0 /\ lines' = lines - 1)
        BY <2>1 DEF Main, Options, Quantum, Open, Establish, Clamp, Ticks, CreateQueue, ReadAndFork, Record,
          Enqueue, Leave, Bump, Count, ReapTest, ReapWait, ReapLoad, ReapStore, Close, SetTimer, Dispatch, Pause, Destroy, Round,
          Return, procvars
      <4> QED BY <1>0, <4>1 DEF DataTypes
    <3>2. pcount' \in 0..MaxLines
      <4>1. CASE Bump
        <5>1. pc = "bump" /\ pcount' = pcount + 1
          BY <4>1 DEF Bump, MainAt
        <5>2. prog \notin V3s
          BY <1>0, <5>1 DEF PcInv, V3Labels
        <5> QED BY <1>0, <5>1, <5>2 DEF CountInv, DataTypes
      <4>2. CASE ~Bump
        BY <1>0, <2>1, <4>2 DEF Main, Options, Quantum, Open, Establish, Clamp, Ticks, CreateQueue, ReadAndFork, Record,
          Enqueue, Leave, Count, ReapTest, ReapWait, ReapLoad, ReapStore, Close, SetTimer, Dispatch, Pause, Destroy, Round,
          Return, procvars, DataTypes
      <4> QED BY <4>1, <4>2
    <3>3. active_procs' \in Int
      <4>1. active_procs' = active_procs \/ active_procs' = pcount \/ active_procs' = tmp - 1
        BY <2>1 DEF Main, Options, Quantum, Open, Establish, Clamp, Ticks, CreateQueue, ReadAndFork, Record,
          Enqueue, Leave, Bump, Count, ReapTest, ReapWait, ReapLoad, ReapStore, Close, SetTimer, Dispatch, Pause, Destroy, Round,
          Return
      <4> QED BY <1>0, <4>1 DEF DataTypes
    <3>4. tmp' = tmp \/ tmp' = active_procs
      BY <2>1 DEF Main, Options, Quantum, Open, Establish, Clamp, Ticks, CreateQueue, ReadAndFork, Record,
        Enqueue, Leave, Bump, Count, ReapTest, ReapWait, ReapLoad, ReapStore, Close, SetTimer, Dispatch, Pause, Destroy, Round,
        Return, Advance, Goto, End, Sub
    <3> QED BY <1>0, <3>1, <3>2, <3>3, <3>4 DEF DataTypes
  <2>2. CASE Handler
    <3>1. lines' = lines /\ pcount' = pcount /\ tmp' = tmp
      BY <2>2, HandlerKeeps
    <3>2. active_procs' \in Int
      BY <1>0, <2>2 DEF Handler, Reap, Mark, Tick, TickAlive, Spend, Spent, Preempt, Requeue, Show, Drop,
           NextReady, TestAlive, Refill, Choose, Clear, ClearTo, Resume, DataTypes
    <3> QED BY <1>0, <3>1, <3>2 DEF DataTypes
  <2>3. CASE TimerFires \/ (\E sig \in {"CHLD", "ALRM"} : Deliver(sig)) \/ (\E p \in Pids : Child(p)) \/ vars' = vars
    BY <1>0, <2>3, OthersKeep DEF procvars, mainvars, DataTypes
  <2> QED BY <2>1, <2>2, <2>3, Kinds
<1>2. ready_queue' \in Seq(Pids) /\ destroyed' \in BOOLEAN /\ current_process' \in 0..MaxLines
  <2>1. CASE Main
    <3>1. CASE Enqueue
      <4>1. pc = "enqueue" /\ ready_queue' = Append(ready_queue, pcount + 1) /\ UNCHANGED <<destroyed, current_process>>
        BY <3>1 DEF Enqueue, MainAt
      <4>2. prog \in V3s
        BY <1>0, <4>1, Classes DEF PcInv, V1Labels, V2Labels, LateLabels
      <4>3. pcount + 1 \in Pids
        BY <1>0, <4>1, <4>2 DEF CountInv, Pids
      <4> QED BY <1>0, <4>1, <4>3 DEF DataTypes
    <3>2. CASE Destroy
      BY <1>0, <3>2 DEF Destroy, DataTypes
    <3>3. CASE ~Enqueue /\ ~Destroy
      BY <1>0, <2>1, <3>3 DEF Main, Options, Quantum, Open, Establish, Clamp, Ticks, CreateQueue, ReadAndFork, Record,
        Leave, Bump, Count, ReapTest, ReapWait, ReapLoad, ReapStore, Close, SetTimer, Dispatch, Pause, Round,
        Return, schedvars, DataTypes
    <3> QED BY <3>1, <3>2, <3>3
  <2>2. CASE Handler
    <3>1. CASE Requeue
      <4>1. Scheduling("requeue")
        BY <3>1 DEF Requeue
      <4>2. current_process \in Pids
        BY <4>1, CurrentIs DEF UsePcs
      <4>4. (ready_queue' = ready_queue \/ ready_queue' = Append(ready_queue, current_process)) /\ UNCHANGED <<destroyed, current_process>>
        BY <3>1 DEF Requeue
      <4> QED BY <1>0, <4>2, <4>4 DEF DataTypes
    <3>2. CASE NextReady
      <4>1. destroyed' = destroyed
        BY <3>2 DEF NextReady
      <4>2. CASE ready_queue' = ready_queue /\ current_process' = current_process
        BY <1>0, <4>1, <4>2 DEF DataTypes
      <4>3. CASE ready_queue # <<>> /\ current_process' = Head(ready_queue) /\ ready_queue' = Tail(ready_queue)
        <5>1. Head(ready_queue) \in Pids /\ Tail(ready_queue) \in Seq(Pids)
          BY <1>0, <4>3, HeadTailProperties DEF DataTypes
        <5> QED BY <1>0, <4>1, <4>3, <5>1 DEF DataTypes, Pids
      <4> QED BY <3>2, <4>2, <4>3 DEF NextReady
    <3>3. CASE ~Requeue /\ ~NextReady
      BY <1>0, <2>2, <3>3 DEF Handler, Reap, Mark, Tick, TickAlive, Spend, Spent, Preempt, Show, Drop,
           TestAlive, Refill, Choose, Clear, ClearTo, Resume, DataTypes, schedvars
    <3> QED BY <3>1, <3>2, <3>3
  <2>3. CASE TimerFires \/ (\E sig \in {"CHLD", "ALRM"} : Deliver(sig)) \/ (\E p \in Pids : Child(p)) \/ vars' = vars
    BY <1>0, <2>3, OthersKeep DEF schedvars, DataTypes
  <2> QED BY <2>1, <2>2, <2>3, Kinds
<1> QED BY <1>0, <1>1, <1>2 DEF DataTypes, Tabled

-----------------------------------------------------------------------------
(* The numbering of children and entries. *)

\* The fork loop.
Building == {"read", "record", "enqueue", "leave", "bump"}

\* main does not come back to the fork loop.
LEMMA PastBuilding ==
  ASSUME prog \in ProgramNames, PcInv, pc \notin SetupLabels \union Building \union {"return"}
  PROVE  After(text.main, pc) \notin SetupLabels \union Building
<1>1. CASE prog \in V1s
  <2>1. After(V1Main, pc) \notin SetupLabels \union Building
    BY <1>1, V1Flow DEF PcInv, V1Labels, SetupLabels, Building
  <2> QED BY <1>1, <2>1, TextOf
<1>2. CASE prog \in V2s
  <2>1. After(V2Main, pc) \notin SetupLabels \union Building
    BY <1>2, V2Flow DEF PcInv, V2Labels, SetupLabels, Building
  <2> QED BY <1>2, <2>1, TextOf
<1>3. CASE prog \in V3s
  <2>1. After(V3Main, pc) \notin SetupLabels \union Building
    BY <1>3, V3Flow DEF PcInv, V3Labels, SetupLabels, Building
  <2> QED BY <1>3, <2>1, TextOf
<1>4. CASE prog \in Lates
  <2>1. After(LateMain, pc) \notin SetupLabels \union Building
    BY <1>4, LateFlow DEF PcInv, LateLabels, SetupLabels, Building
  <2> QED BY <1>4, <2>1, TextOf
<1> QED BY <1>1, <1>2, <1>3, <1>4, Classes

\* main past the fork loop stays there.
LEMMA Beyond ==
  ASSUME Inv, Main, pc \notin SetupLabels \union Building
  PROVE  pc' \notin SetupLabels \union Building /\ pcount' = pcount /\ lines' = lines /\ UNCHANGED <<Q, q_ticks>>
<1>0. prog \in ProgramNames /\ PcInv
  BY Known
<1>1. pc' = pc \/ pc' \in {"close1", "close2"} \/ (pc # "return" /\ pc' = After(text.main, pc))
  <2>1. /\ ~Options /\ ~Quantum /\ ~Open /\ ~Establish /\ ~Clamp /\ ~Ticks /\ ~CreateQueue
        /\ ~ReadAndFork /\ ~Record /\ ~Enqueue /\ ~Leave /\ ~Bump
    BY DEF Options, Quantum, Open, Establish, Clamp, Ticks, CreateQueue, ReadAndFork, Record,
        Enqueue, Leave, Bump, MainAt, SetupLabels, Building, SignalOf
  <2>2. CASE Count \/ ReapTest \/ ReapWait \/ ReapLoad \/ ReapStore \/ Close \/ SetTimer
    BY <2>2 DEF Count, ReapTest, ReapWait, ReapLoad, ReapStore, Close, SetTimer, ReapAt, Reaping, MainAt, Sub, Advance, Goto
  <2>3. CASE Dispatch \/ Pause \/ Destroy \/ Round \/ Return
    BY <2>3 DEF Dispatch, Pause, Destroy, Round, Return, MainAt, Advance, Goto, End, SignalSent
  <2> QED BY <2>1, <2>2, <2>3 DEF Main
<1>2. pcount' = pcount /\ lines' = lines /\ UNCHANGED <<Q, q_ticks>>
  BY DEF Main, Options, Quantum, Open, Establish, Clamp, Ticks, CreateQueue, ReadAndFork, Record,
        Enqueue, Leave, Bump, Count, ReapTest, ReapWait, ReapLoad, ReapStore, Close, SetTimer, Dispatch, Pause, Destroy, Round,
        Return, MainAt, SetupLabels, Building, SignalOf, procvars, setupvars
<1>3. {"close1", "close2"} \intersect (SetupLabels \union Building) = {}
  BY DEF SetupLabels, Building
<1> QED BY <1>0, <1>1, <1>2, <1>3, PastBuilding

\* The numbering of children and entries: every step keeps it.
LEMMA CountStep == ASSUME Inv, [Next]_vars PROVE CountInv'
<1>0. /\ CountInv /\ DataTypes /\ KernelTypes /\ PcInv /\ prog \in ProgramNames /\ MaxLines \in Nat
      /\ lines \in Nat /\ Forked \in 0..MaxLines
  BY Known DEF CountInv, DataTypes
<1>1. ASSUME SameChildren, lines' \in Nat, lines' <= lines, prog' = prog, pcount' = pcount,
             pc' \in SetupLabels => Forked = 0,
             prog \notin V3s => (pc' \in {"record", "bump"} <=> pc \in {"record", "bump"}),
             prog \in V3s => (pc' = "read" => Forked = 0) /\ (pc' \in {"record", "enqueue", "leave"} => Forked = 1),
             pc' \in {"record", "bump"} => Forked >= 1,
             \A i \in Pids : i <= Forked /\ (pc' = "record" => i < Forked) => pcb_arr'[i].pid = i
      PROVE  CountInv'
  <2>1. Forked' = Forked
    BY <1>1, SameCounts
  <2>2. \A p \in Pids : child'[p].st = "none" => child'[p] = NoChild
    BY <1>0, <1>1 DEF SameChildren, Kept, CountInv
  <2>3. \A p \in Pids : child'[p].st # "none" <=> p <= Forked
    BY <1>0, <1>1 DEF SameChildren, Kept, CountInv
  <2>4. Forked + lines' <= MaxLines
    BY <1>0, <1>1 DEF CountInv
  <2>5. prog' \notin V3s => pcount' = IF pc' \in {"record", "bump"} THEN Forked - 1 ELSE Forked
    BY <1>0, <1>1 DEF CountInv
  <2>6. prog' \in V3s => pcount' = 0 /\ Forked <= 1
    BY <1>0, <1>1 DEF CountInv
  <2> HIDE DEF Forked
  <2> QED BY <1>0, <1>1, <2>1, <2>2, <2>3, <2>4, <2>5, <2>6 DEF CountInv
<1>2. ASSUME SameChildren, lines' = lines, prog' = prog, pcount' = pcount, pc' = pc,
             \A i \in Pids : pcb_arr'[i].pid = pcb_arr[i].pid
      PROVE  CountInv'
  BY <1>0, <1>1, <1>2 DEF CountInv
<1>3. CASE Main /\ pc \notin SetupLabels \union Building
  <2>1. /\ pc' \notin SetupLabels \union Building /\ pcount' = pcount /\ lines' = lines /\ prog' = prog
    BY <1>3, Beyond, MainKeeps
  <2>2. ~ReadAndFork /\ ~Record
    BY <1>3 DEF ReadAndFork, Record, MainAt, Building
  <2>3. CASE ~ReapWait
    <3>1. SameChildren /\ pcb_arr' = pcb_arr
      <4>1. ~Reap /\ ~Spent /\ ~Refill /\ ~Mark /\ ~Clear
        BY <1>3, MainKeeps DEF Reap, Spent, Refill, Mark, Clear, ClearTo, Scheduling, HandlerAt
      <4> QED BY <2>2, <2>3, <4>1, ChildrenStep, TableKept
    <3>2. /\ pc' \notin {"read", "record", "bump", "enqueue", "leave"} /\ pc \notin {"read", "record", "bump", "enqueue", "leave"}
      BY <1>3, <2>1 DEF Building
    <3> QED BY <1>0, <1>1, <2>1, <3>1, <3>2 DEF CountInv
  <2>4. CASE ReapWait
    <3>1. CASE child' = child
      <4>1. SameChildren
        BY <1>0, <3>1, Unchanged
      <4>2. pc' = pc /\ pcb_arr' = pcb_arr
        BY <2>4 DEF ReapWait, Sub, procvars
      <4> QED BY <1>2, <2>1, <4>1, <4>2
    <3>2. CASE child' # child
      <4>1. PICK p \in Pids : child[p].st = "zombie" /\ ReapedOne(p)
        BY <2>4, <3>2 DEF ReapWait, ReapedOne
      <4>2. /\ child'[p] = [child[p] EXCEPT !.st = "reaped"] /\ \A q \in Pids : q # p => child'[q] = child[q]
            /\ Forked' = Forked
        BY <1>0, <4>1, OneReaped
      <4>3. child'[p].st = "reaped"
        BY <1>0, <4>2 DEF KernelTypes, ChildRec
      <4>4. pc' = pc /\ pcb_arr' = pcb_arr
        BY <2>4 DEF ReapWait, Sub, procvars
      <4>5. \A q \in Pids : /\ child'[q].st = "none" => child'[q] = NoChild
                            /\ child'[q].st # "none" <=> q <= Forked
        <5>1. \A q \in Pids : /\ child[q].st = "none" => child[q] = NoChild
                              /\ child[q].st # "none" <=> q <= Forked
          BY <1>0 DEF CountInv
        <5> HIDE DEF Forked
        <5> QED BY <4>1, <4>2, <4>3, <5>1
      <4> HIDE DEF Forked
      <4> QED BY <1>0, <2>1, <4>2, <4>4, <4>5 DEF CountInv
    <3> QED BY <3>1, <3>2
  <2> QED BY <2>3, <2>4
<1>4. CASE Main /\ pc \in SetupLabels
  <2>1. Forked = 0 /\ prog' = prog
    BY <1>0, <1>4, MainKeeps DEF CountInv
  <2>2. ~ReadAndFork /\ ~ReapWait /\ ~Reap /\ ~Record /\ ~Spent /\ ~Refill /\ ~Mark /\ ~Clear
    <3>1. ~Reap /\ ~Spent /\ ~Refill /\ ~Mark /\ ~Clear
      BY <1>4, MainKeeps DEF Reap, Spent, Refill, Mark, Clear, ClearTo, Scheduling, HandlerAt
    <3> QED BY <1>4, <3>1 DEF ReadAndFork, ReapWait, Record, ReapAt, Reaping, MainAt, SetupLabels
  <2>3. SameChildren /\ pcb_arr' = pcb_arr
    BY <2>2, ChildrenStep, TableKept
  <2>4. pcount' = pcount /\ lines' = lines /\ (pc' = pc \/ pc' = After(text.main, pc))
    BY <1>4 DEF Main, Options, Quantum, Open, Establish, Clamp, Ticks, CreateQueue, ReadAndFork, Record,
        Enqueue, Leave, Bump, Count, ReapTest, ReapWait, ReapLoad, ReapStore, ReapAt, Reaping, Close, SetTimer, Dispatch, Pause, Destroy, Round,
        Return, MainAt, SetupLabels, procvars, Advance, Goto, End, SignalSent
  <2>5. pc' \in SetupLabels \union {"read"}
    BY <1>0, <1>4, <2>4, SetupFlow
  <2>6. \A i \in Pids : ~(i <= Forked)
    BY <2>1 DEF Pids
  <2>7. pc' \notin {"record", "bump", "enqueue", "leave"} /\ pc \notin {"record", "bump", "enqueue", "leave"}
    BY <1>4, <2>5 DEF SetupLabels
  <2> QED BY <1>0, <1>1, <2>1, <2>3, <2>4, <2>6, <2>7
<1>5. CASE ReadAndFork
  <2>1. pc = "read" /\ prog' = prog /\ pcount' = pcount /\ pcb_arr' = pcb_arr /\ lines' \in Nat /\ lines' <= lines
    BY <1>0, <1>5 DEF ReadAndFork, MainAt, setupvars
  <2>2. CASE child' = child
    <3>2. pc' = "count"
      <4>1. CASE lines > 0 /\ lines' = lines - 1 /\ child' = [child EXCEPT ![NextPid].st = "forked"]
        <5>1. Forked < MaxLines
          BY <1>0, <4>1 DEF CountInv
        <5>2. ForkedOne(NextPid)
          BY <4>1 DEF ForkedOne
        <5>3. Forked' = Forked + 1
          BY <1>0, <5>1, <5>2, OneForked
        <5>4. Forked' = Forked
          BY <1>0, <2>2, Unchanged, SameCounts
        <5> QED BY <1>0, <5>3, <5>4
      <4> QED BY <1>5, <4>1 DEF ReadAndFork, Goto
    <3>3. SameChildren
      BY <1>0, <2>2, Unchanged
    <3>4. "count" \notin SetupLabels
      BY DEF SetupLabels
    <3> QED BY <1>0, <1>1, <2>1, <3>2, <3>3, <3>4 DEF CountInv
  <2>3. CASE child' # child
    <3>1. lines > 0 /\ lines' = lines - 1 /\ ForkedOne(NextPid) /\ Advance
      BY <1>5, <2>3 DEF ReadAndFork, ForkedOne
    <3>2. Forked < MaxLines
      BY <1>0, <3>1 DEF CountInv
    <3>3. /\ NextPid = Forked + 1 /\ NextPid \in Pids
          /\ child'[NextPid] = [NoChild EXCEPT !.st = "forked"]
          /\ \A q \in Pids : q # NextPid => child'[q] = child[q]
          /\ Forked' = Forked + 1
          /\ \A q \in Pids : child'[q].st # "none" <=> q <= Forked + 1
      BY <1>0, <3>1, <3>2, OneForked
    <3>4. pc' = "record"
      BY <1>0, <2>1, <3>1, MainFlow DEF Advance, Goto
    <3>5. \A q \in Pids : child'[q].st = "none" => child'[q] = NoChild
      <4>1. child'[NextPid].st # "none"
        BY <3>3 DEF NoChild
      <4> QED BY <1>0, <3>3, <4>1 DEF CountInv
    <3>6. \A i \in Pids : i < Forked + 1 => pcb_arr'[i].pid = i
      BY <1>0, <2>1 DEF CountInv, Pids
    <3>7. Forked + 1 + lines' <= MaxLines
      BY <1>0, <3>1 DEF CountInv
    <3>8. prog \notin V3s => pcount' = Forked
      BY <1>0, <2>1 DEF CountInv
    <3>9. prog \in V3s => pcount' = 0 /\ Forked = 0
      BY <1>0, <2>1 DEF CountInv
    <3>10. "record" \notin SetupLabels
      BY DEF SetupLabels
    <3> HIDE DEF Forked
    <3> QED BY <1>0, <2>1, <3>2, <3>3, <3>4, <3>5, <3>6, <3>7, <3>8, <3>9, <3>10 DEF CountInv
  <2> QED BY <2>2, <2>3
<1>6. CASE Record
  <2>1. /\ pc = "record" /\ pcount + 1 = Forked /\ pcb_arr'[pcount + 1].pid = Forked
        /\ \A i \in Pids : i # pcount + 1 => pcb_arr'[i] = pcb_arr[i]
    BY <1>6, RecordTable
  <2>2. prog' = prog /\ pcount' = pcount /\ lines' = lines /\ child' = child /\ pc' = After(text.main, pc)
    BY <1>6 DEF Record, setupvars, kernelvars, Advance, Goto
  <2>3. (prog \in V3s => pc' = "enqueue") /\ (prog \notin V3s => pc' = "bump")
    BY <1>0, <2>1, <2>2, MainFlow
  <2>4. SameChildren
    BY <1>0, <2>2, Unchanged
  <2>5. \A i \in Pids : i <= Forked => pcb_arr'[i].pid = i
    BY <1>0, <2>1 DEF CountInv, Pids
  <2>6. pc' \notin SetupLabels
    BY <2>3 DEF SetupLabels
  <2> QED BY <1>0, <1>1, <2>1, <2>2, <2>3, <2>4, <2>5, <2>6 DEF CountInv
<1>7. CASE Enqueue \/ Leave
  <2>1. /\ prog' = prog /\ pcount' = pcount /\ lines' = lines /\ child' = child /\ pcb_arr' = pcb_arr
        /\ \/ pc = "enqueue" /\ pc' = After(text.main, pc)
           \/ pc = "leave" /\ pc' = "count"
    BY <1>7 DEF Enqueue, Leave, setupvars, procvars, kernelvars, Advance, Goto, MainAt
  <2>2. prog \in V3s
    BY <1>0, <2>1, Classes DEF PcInv, V1Labels, V2Labels, LateLabels
  <2>3. pc = "enqueue" => pc' = "leave"
    BY <1>0, <2>1, <2>2, MainFlow
  <2>4. SameChildren
    BY <1>0, <2>1, Unchanged
  <2>5. pc' \in {"leave", "count"} /\ pc' \notin SetupLabels
    BY <2>1, <2>3 DEF SetupLabels
  <2> QED BY <1>0, <1>1, <2>1, <2>2, <2>4, <2>5 DEF CountInv
<1>8. CASE Bump
  <2>1. /\ prog' = prog /\ pcount' = pcount + 1 /\ lines' = lines /\ child' = child /\ pcb_arr' = pcb_arr
        /\ pc = "bump" /\ pc' = "read"
    BY <1>8 DEF Bump, setupvars, kernelvars, Goto, MainAt
  <2>2. prog \notin V3s
    BY <1>0, <2>1 DEF PcInv, V3Labels
  <2>3. SameChildren
    BY <1>0, <2>1, Unchanged
  <2>4. Forked' = Forked
    BY <2>3, SameCounts
  <2>5. "read" \notin SetupLabels
    BY DEF SetupLabels
  <2>6. pcount' = Forked
    BY <1>0, <2>1, <2>2 DEF CountInv
  <2> HIDE DEF Forked
  <2> QED BY <1>0, <2>1, <2>2, <2>4, <2>5, <2>6 DEF CountInv
<1>9. CASE Handler
  <2>1. prog' = prog /\ pc' = pc /\ pcount' = pcount /\ lines' = lines
    BY <1>9, HandlerKeeps
  <2>2. \A i \in Pids : pcb_arr'[i].pid = pcb_arr[i].pid
    <3>1. ~Record
      BY <1>9, HandlerKeeps DEF Record, MainAt
    <3> QED BY <3>1, TickTable, MarkTable, ClearTable, TableKept
  <2>3. CASE Reap /\ child' # child
    <3>1. PICK p \in Pids : child[p].st = "zombie" /\ ReapedOne(p)
      BY <2>3, ReapFrames
    <3>2. /\ child'[p] = [child[p] EXCEPT !.st = "reaped"] /\ \A q \in Pids : q # p => child'[q] = child[q]
          /\ Forked' = Forked
      BY <1>0, <3>1, OneReaped
    <3>3. child'[p].st = "reaped"
      BY <1>0, <3>2 DEF KernelTypes, ChildRec
    <3>4. \A q \in Pids : /\ child'[q].st = "none" => child'[q] = NoChild
                          /\ child'[q].st # "none" <=> q <= Forked
      <4>1. \A q \in Pids : /\ child[q].st = "none" => child[q] = NoChild
                            /\ child[q].st # "none" <=> q <= Forked
        BY <1>0 DEF CountInv
      <4> HIDE DEF Forked
      <4> QED BY <3>1, <3>2, <3>3, <4>1
    <3> HIDE DEF Forked
    <3> QED BY <1>0, <2>1, <2>2, <3>2, <3>4 DEF CountInv
  <2>4. CASE ~Reap \/ child' = child
    <3>1. ~ReadAndFork /\ ~ReapWait
      BY <1>9, HandlerKeeps DEF ReadAndFork, ReapWait, ReapAt, MainAt
    <3>2. SameChildren
      BY <1>0, <2>4, <3>1, ChildrenStep, Unchanged
    <3> QED BY <1>2, <2>1, <2>2, <3>2
  <2> QED BY <2>3, <2>4
<1>10. CASE TimerFires \/ (\E sig \in {"CHLD", "ALRM"} : Deliver(sig)) \/ (\E p \in Pids : Child(p)) \/ vars' = vars
  <2>1. prog' = prog /\ pc' = pc /\ pcount' = pcount /\ lines' = lines /\ pcb_arr' = pcb_arr
    BY <1>10, OthersKeep DEF mainvars, setupvars, procvars
  <2>2. SameChildren
    <3>1. CASE child' = child
      BY <1>0, <3>1, Unchanged
    <3>2. CASE \E p \in Pids : Child(p)
      BY <1>0, <3>2, ChildMoved
    <3> QED BY <1>10, <3>1, <3>2 DEF TimerFires, Deliver, vars, kernelvars
  <2> QED BY <1>2, <2>1, <2>2
<1>11. CASE Main
  <2>1. CASE pc \in Building
    BY <1>11, <2>1, <1>5, <1>6, <1>7, <1>8 DEF Main, Options, Quantum, Open, Establish, Clamp, Ticks, CreateQueue,
        Count, ReapTest, ReapWait, ReapLoad, ReapStore, ReapAt, Reaping, Close, SetTimer, Dispatch, Pause, Destroy, Round,
        Return, MainAt, Building, SignalSent, SignalOf
  <2> QED BY <1>3, <1>4, <1>11, <2>1
<1> QED BY <1>9, <1>10, <1>11, Kinds

-----------------------------------------------------------------------------
(* Two reapers. *)

\* What the wait loop needs to know of the counts.
LEMMA ReapFacts ==
  ASSUME Inv
  PROVE  /\ Left \in Nat /\ Forked \in 0..MaxLines /\ Left <= Forked /\ Marks \in {0, 1}
         /\ active_procs \in Int /\ tmp \in Int /\ pcount \in 0..MaxLines /\ MaxLines \in Nat
         /\ (Left = 0 <=> Unreaped = {})
         /\ (chld = NoFrame => Marks = 0)
         /\ active_procs <= MaxLines /\ tmp \in -MaxLines..MaxLines
         /\ active_procs >= Left + Marks - Forked
         /\ active_procs >= -MaxLines
<1>1. CountInv /\ DataTypes /\ ReapInv /\ MaxLines \in Nat
  BY Known
<1>2. Left \in Nat /\ Forked \in 0..MaxLines /\ Left <= Forked
  BY <1>1, LeftBound
<1>3. Marks \in {0, 1} /\ (chld = NoFrame => Marks = 0)
  BY DEF Marks, NoFrame
<1>4. Left = 0 <=> Unreaped = {}
  BY FiniteSets
<1>5. active_procs <= MaxLines /\ tmp \in -MaxLines..MaxLines /\ active_procs >= Left + Marks - Forked
  BY <1>1 DEF ReapInv
<1>6. active_procs \in Int /\ tmp \in Int /\ pcount \in 0..MaxLines
  BY <1>1 DEF DataTypes
<1> HIDE DEF Forked, Left, Marks
<1>7. active_procs >= -MaxLines
  BY <1>1, <1>2, <1>3, <1>5, <1>6
<1> QED BY <1>1, <1>2, <1>3, <1>4, <1>5, <1>6, <1>7

\* A step of main that moves no child and no count.
LEMMA ReapMainMoves ==
  ASSUME Inv, Main, SameChildren, active_procs' = active_procs, tmp' = tmp, sub' = "test", pcount' = pcount,
         Reaped' => Unreaped = {},
         prog \in V2s /\ pc' \in {"usr1", "stop", "cont"} => active_procs = pcount,
         pc' \in Reaping /\ Unreaped # {} => Left <= active_procs
  PROVE  ReapInv'
<1>1. chld = NoFrame /\ chld' = NoFrame /\ prog' = prog
  BY MainFrames, MainKeeps
<1>2. Marks = 0 /\ Marks' = 0
  BY <1>1 DEF Marks, NoFrame
<1>3. Unreaped' = Unreaped /\ Left' = Left /\ Forked' = Forked
  BY SameCounts
<1> HIDE DEF Forked, Left, Marks, Unreaped, Reaped
<1> QED BY <1>1, <1>2, <1>3, ReapFacts DEF ReapInv

\* A step that moves neither main, a child nor a count.
LEMMA ReapStays ==
  ASSUME Inv, SameChildren, active_procs' = active_procs, tmp' = tmp, sub' = sub, pcount' = pcount, pc' = pc, prog' = prog,
         Marks' = Marks
  PROVE  ReapInv'
<1>1. Unreaped' = Unreaped /\ Left' = Left /\ Forked' = Forked
  BY SameCounts
<1>2. Reaped' = Reaped
  BY DEF Reaped
<1>3. ReapInv
  BY Known
<1> HIDE DEF Forked, Left, Marks, Unreaped, Reaped
<1> QED BY <1>1, <1>2, <1>3 DEF ReapInv

\* Two reapers, one count: every step keeps it covering.
LEMMA ReapStep == ASSUME Inv, [Next]_vars PROVE ReapInv'
<1>0. /\ ReapInv /\ CountInv /\ KernelTypes /\ MainTypes /\ PcInv /\ prog \in ProgramNames
      /\ prog \in V1s \union V2s \/ prog \in V3s \/ prog \in Lates
      /\ prog \in V1s \union V2s => prog \notin V3s /\ prog \notin Lates
      /\ prog \in V3s => prog \notin V1s /\ prog \notin V2s /\ prog \notin Lates
      /\ prog \in Lates => prog \notin V1s /\ prog \notin V2s /\ prog \notin V3s
  BY Known
<1>1. MainTypes' /\ PcInv'
  BY MainTypesStep DEF MainTypes
<1>2. ASSUME Main, ~ReadAndFork, ~ReapWait PROVE SameChildren /\ prog' = prog
  <2>1. ~Reap
    BY <1>2, MainKeeps DEF Reap, HandlerAt
  <2> QED BY <1>2, <2>1, ChildrenStep, MainKeeps
\* main before the wait loop
<1>3. CASE Main /\ pc \in SetupLabels
  <2>1. ~ReadAndFork /\ ~ReapWait /\ active_procs' = active_procs /\ tmp' = tmp /\ pcount' = pcount
        /\ (pc' = pc \/ pc' = After(text.main, pc))
    BY <1>3 DEF Main, Options, Quantum, Open, Establish, Clamp, Ticks, CreateQueue, ReadAndFork, Record,
        Enqueue, Leave, Bump, Count, ReapTest, ReapWait, ReapLoad, ReapStore, ReapAt, Reaping, Close, SetTimer, Dispatch, Pause, Destroy, Round,
        Return, MainAt, SetupLabels, procvars, Advance, Goto, End, SignalSent
  <2>2. pc' \in SetupLabels \union {"read"}
    BY <1>0, <1>3, <2>1, SetupFlow
  <2>3. pc' \notin Reaping /\ ~Reaped' /\ pc' \notin {"usr1", "stop", "cont"} /\ sub' = "test"
    BY <1>1, <2>2 DEF Reaping, Reaped, Afterwards, SetupLabels, MainTypes
  <2> QED BY <1>2, <1>3, <2>1, <2>3, ReapMainMoves
<1>4. CASE Record \/ Enqueue \/ Leave \/ (ReadAndFork /\ child' = child)
  <2>1. Main /\ active_procs' = active_procs /\ tmp' = tmp /\ pcount' = pcount /\ child' = child /\ sub' = "test"
        /\ pc \in {"record", "enqueue", "leave", "read"}
        /\ pc' \in {"count", After(text.main, pc)} /\ (pc = "leave" => pc' = "count")
    BY <1>4 DEF Main, ReadAndFork, Record, Enqueue, Leave, MainAt, procvars, kernelvars, Advance, Goto
  <2>2. SameChildren
    BY <1>0, <2>1, Unchanged
  <2>3. pc' \in {"count", "record", "bump", "enqueue", "leave"}
    BY <1>0, <2>1, MainFlow, Classes DEF PcInv, V1Labels, V2Labels, LateLabels
  <2>4. pc' \notin Reaping /\ ~Reaped' /\ pc' \notin {"usr1", "stop", "cont"}
    BY <2>3 DEF Reaping, Reaped, Afterwards
  <2> QED BY <2>1, <2>2, <2>4, ReapMainMoves
<1>5. CASE Bump
  <2>1. Main /\ active_procs' = active_procs /\ tmp' = tmp /\ child' = child /\ sub' = "test" /\ pc' = "read" /\ prog' = prog
    BY <1>5 DEF Main, Bump, kernelvars, setupvars, Goto
  <2>2. Unreaped' = Unreaped /\ Left' = Left /\ Forked' = Forked
    BY <1>0, <2>1, Unchanged, SameCounts
  <2>3. chld = NoFrame /\ chld' = NoFrame
    BY <2>1, MainFrames
  <2>4. Marks = 0 /\ Marks' = 0
    BY <2>3 DEF Marks, NoFrame
  <2>5. pc' \notin Reaping /\ ~Reaped' /\ pc' \notin {"usr1", "stop", "cont"}
    BY <2>1 DEF Reaping, Reaped, Afterwards
  <2> HIDE DEF Forked, Left, Marks, Unreaped, Reaped
  <2> QED BY <2>1, <2>2, <2>4, <2>5, ReapFacts DEF ReapInv
<1>6. CASE ReadAndFork /\ child' # child
  <2>1. lines > 0 /\ ForkedOne(NextPid) /\ Advance /\ pc = "read"
    BY <1>6 DEF ReadAndFork, ForkedOne, MainAt
  <2>2. Forked < MaxLines
    BY <1>0, <2>1, ReapFacts, Known DEF CountInv, DataTypes
  <2>3. Forked' = Forked + 1 /\ Left' = Left + 1
    BY <1>0, <2>1, <2>2, OneForked
  <2>4. pc' = "record" /\ sub' = "test" /\ tmp' = tmp /\ active_procs' = active_procs
    BY <1>0, <1>6, <2>1, MainFlow DEF Advance, Goto, ReadAndFork
  <2>5. chld = NoFrame /\ chld' = NoFrame
    BY <1>6, MainFrames DEF Main
  <2>6. Marks = 0 /\ Marks' = 0
    BY <2>5 DEF Marks, NoFrame
  <2>7. pc' \notin Reaping /\ ~Reaped' /\ pc' \notin {"usr1", "stop", "cont"}
    BY <2>4 DEF Reaping, Reaped, Afterwards
  <2> HIDE DEF Forked, Left, Marks, Unreaped, Reaped
  <2> QED BY <2>3, <2>4, <2>6, <2>7, ReapFacts DEF ReapInv
<1>7. CASE Count
  <2>1. Main /\ pc = "count" /\ active_procs' = pcount /\ tmp' = tmp /\ child' = child /\ pc' = After(text.main, pc)
        /\ sub' = "test" /\ prog' = prog /\ pcount' = pcount
    BY <1>7 DEF Main, Count, MainAt, kernelvars, procvars, setupvars, Advance, Goto
  <2>2. Unreaped' = Unreaped /\ Left' = Left /\ Forked' = Forked
    BY <1>0, <2>1, Unchanged, SameCounts
  <2>3. chld = NoFrame /\ chld' = NoFrame
    BY <2>1, MainFrames
  <2>4. Marks = 0 /\ Marks' = 0
    BY <2>3 DEF Marks, NoFrame
  <2>5. /\ prog \in V1s \union Lates => pc' = "reap1"
        /\ prog \in V2s => pc' = "usr1"
        /\ prog \in V3s => pc' = "timer"
    BY <1>0, <2>1, MainFlow
  <2>6. ~Reaped'
    BY <1>0, <2>1, <2>5 DEF Reaped, Afterwards
  <2>7. prog \notin V3s => pcount = Forked
    BY <1>0, <2>1 DEF CountInv
  <2>8. prog \in V3s => pc' \notin Reaping
    BY <2>5 DEF Reaping
  <2> HIDE DEF Forked, Left, Marks, Unreaped, Reaped
  <2> QED BY <1>0, <2>1, <2>2, <2>4, <2>6, <2>7, <2>8, ReapFacts DEF ReapInv
\* the wait loop
<1>8. ASSUME pc \in Reaping PROVE prog \notin V3s
  BY <1>0, <1>8 DEF Reaping, PcInv, V3Labels
<1>9. CASE ReapTest
  <2>1. Main /\ pc \in Reaping /\ sub = "test" /\ tmp' = tmp /\ active_procs' = active_procs /\ child' = child /\ prog' = prog
        /\ pcount' = pcount
    BY <1>9 DEF Main, ReapTest, ReapAt, kernelvars, procvars, setupvars, Sub, Advance, Goto
  <2>2. SameChildren
    BY <1>0, <2>1, Unchanged
  <2>3. chld = NoFrame /\ chld' = NoFrame
    BY <2>1, MainFrames
  <2>4. Marks = 0 /\ Marks' = 0
    BY <2>3 DEF Marks, NoFrame
  <2>5. CASE active_procs > 0
    <3>1. sub' = "wait" /\ pc' = pc
      BY <1>9, <2>5 DEF ReapTest, Sub
    <3>2. Unreaped' = Unreaped /\ Left' = Left /\ Forked' = Forked
      BY <2>2, SameCounts
    <3>3. Reaped' = Reaped
      BY <2>1, <3>1 DEF Reaped
    <3> HIDE DEF Forked, Left, Marks, Unreaped, Reaped
    <3> QED BY <1>0, <2>1, <2>4, <2>5, <3>1, <3>2, <3>3, ReapFacts DEF ReapInv
  <2>6. CASE ~(active_procs > 0)
    <3>1. sub' = "test" /\ pc' = After(text.main, pc)
      BY <1>9, <2>6 DEF ReapTest, Advance, Goto
    <3>2. Unreaped = {}
      <4> HIDE DEF Forked, Left, Marks, Unreaped, Reaped
      <4> QED BY <1>0, <2>1, <2>4, <2>6, ReapFacts DEF ReapInv
    <3>3. pc' \in {"close1", "close3"}
      <4>1. pc = "reap2" => prog \in Lates
        BY <1>0 DEF PcInv, V1Labels, V2Labels, V3Labels
      <4> QED BY <1>0, <1>8, <2>1, <3>1, <4>1, MainFlow DEF Reaping
    <3> QED BY <2>1, <2>2, <3>1, <3>2, <3>3, ReapMainMoves
  <2> QED BY <2>5, <2>6
<1>10. CASE ReapWait
  <2>1. Main /\ pc \in Reaping /\ sub = "wait" /\ sub' = "load" /\ tmp' = tmp /\ active_procs' = active_procs /\ pc' = pc
        /\ prog' = prog /\ pcount' = pcount
    BY <1>10 DEF Main, ReapWait, ReapAt, procvars, setupvars, Sub
  <2>2. chld = NoFrame /\ chld' = NoFrame
    BY <2>1, MainFrames
  <2>3. Marks = 0 /\ Marks' = 0
    BY <2>2 DEF Marks, NoFrame
  <2>4. CASE Unreaped = {} /\ child' = child
    <3>1. Unreaped' = Unreaped /\ Left' = Left /\ Forked' = Forked
      BY <1>0, <2>4, Unchanged, SameCounts
    <3>2. Reaped' = Reaped
      BY <2>1 DEF Reaped
    <3> HIDE DEF Forked, Left, Marks, Unreaped, Reaped
    <3> QED BY <1>0, <2>1, <2>3, <2>4, <3>1, <3>2, ReapFacts DEF ReapInv
  <2>5. CASE \E p \in Pids : child[p].st = "zombie" /\ ReapedOne(p)
    <3>1. PICK p \in Pids : child[p].st = "zombie" /\ ReapedOne(p)
      BY <2>5
    <3>2. Unreaped' = Unreaped \ {p} /\ Left' = Left - 1 /\ Forked' = Forked
      BY <1>0, <3>1, OneReaped
    <3>3. Reaped' = Reaped /\ p \in Unreaped
      BY <2>1, <3>1 DEF Reaped, Unreaped
    <3> HIDE DEF Forked, Left, Marks, Unreaped, Reaped
    <3> QED BY <1>0, <2>1, <2>3, <3>2, <3>3, ReapFacts DEF ReapInv
  <2> QED BY <1>10, <2>4, <2>5 DEF ReapWait, ReapedOne
<1>11. CASE ReapLoad \/ ReapStore
  <2>1. Main /\ pc \in Reaping /\ child' = child /\ pc' = pc /\ prog' = prog /\ pcount' = pcount
        /\ \/ sub = "load" /\ sub' = "store" /\ tmp' = active_procs /\ active_procs' = active_procs
           \/ sub = "store" /\ sub' = "test" /\ tmp' = tmp /\ active_procs' = tmp - 1
    BY <1>11 DEF Main, ReapLoad, ReapStore, ReapAt, kernelvars, procvars, setupvars, Sub
  <2>2. chld = NoFrame /\ chld' = NoFrame
    BY <2>1, MainFrames
  <2>3. Marks = 0 /\ Marks' = 0
    BY <2>2 DEF Marks, NoFrame
  <2>4. Unreaped' = Unreaped /\ Left' = Left /\ Forked' = Forked
    BY <1>0, <2>1, Unchanged, SameCounts
  <2>5. Reaped' = Reaped /\ pc \notin {"usr1", "stop", "cont"}
    BY <2>1 DEF Reaped, Reaping
  <2> HIDE DEF Forked, Left, Marks, Unreaped, Reaped
  <2> QED BY <1>0, <2>1, <2>3, <2>4, <2>5, ReapFacts DEF ReapInv
\* main after the wait loop
<1>12. CASE Close \/ SetTimer \/ Dispatch \/ Pause \/ Destroy \/ Round \/ Return
  <2>1. /\ Main /\ tmp' = tmp /\ active_procs' = active_procs /\ pcount' = pcount /\ prog' = prog /\ SameChildren
        /\ pc \in Afterwards /\ pc \notin Reaping
    <3>1. Main /\ ~ReadAndFork /\ ~ReapWait /\ pc \in Afterwards /\ pc \notin Reaping
      BY <1>12 DEF Main, Close, SetTimer, Dispatch, Pause, Destroy, Round, Return, MainAt, ReadAndFork, ReapWait, ReapAt, Reaping,
         Afterwards, SignalSent
    <3>2. tmp' = tmp /\ active_procs' = active_procs /\ pcount' = pcount
      BY <1>12 DEF Close, SetTimer, Dispatch, Pause, Destroy, Round, Return, procvars, Advance, Goto, End
    <3> QED BY <1>2, <3>1, <3>2
  <2>2. sub = "test"
    BY <1>0, <2>1 DEF MainTypes
  <2>3. CASE prog \in Lates
    <3>1. Unreaped = {}
      BY <1>0, <2>1, <2>3 DEF ReapInv, Reaped
    <3>2. sub' = "test"
      BY <1>12, <2>2 DEF Close, SetTimer, Dispatch, Pause, Destroy, Round, Return, Advance, Goto, End
    <3> QED BY <1>0, <2>1, <2>3, <3>1, <3>2, ReapMainMoves
  <2>4. CASE prog \in V3s
    <3>1. pc' \notin Reaping /\ sub' = "test"
      BY <1>1, <2>1, <2>4 DEF PcInv, V3Labels, Reaping, MainTypes
    <3>2. ~Reaped'
      BY <1>0, <2>1, <2>4 DEF Reaped
    <3> QED BY <1>0, <2>1, <2>4, <3>1, <3>2, ReapMainMoves
  <2>5. CASE prog \in V1s \union V2s
    <3>1. pc \in {"close1", "return", "usr1", "stop", "cont"} /\ (prog \in V1s => pc \in {"close1", "return"})
      BY <1>0, <2>1, <2>5 DEF PcInv, V1Labels, V2Labels, Afterwards, V1s, V2s
    <3>2. CASE pc \in {"close1", "return"}
      <4>1. Unreaped = {}
        BY <1>0, <2>5, <3>2 DEF ReapInv, Reaped
      <4>2. sub' = "test" /\ (pc' = pc \/ (pc = "close1" /\ pc' = After(text.main, pc)))
        BY <1>12, <2>2, <3>2 DEF Close, SetTimer, Dispatch, Pause, Destroy, Round, Return, Advance, Goto, End, MainAt, SignalSent
      <4>3. pc' \in {"close1", "return"}
        BY <1>0, <2>5, <3>2, <4>2, MainFlow
      <4> QED BY <2>1, <4>1, <4>2, <4>3, ReapMainMoves
    <3>3. CASE pc \in {"usr1", "stop", "cont"}
      <4>1. prog \in V2s /\ active_procs = pcount
        BY <1>0, <2>5, <3>1, <3>3 DEF ReapInv
      <4>2. sub' = "test" /\ (pc' = pc \/ pc' = After(text.main, pc))
        BY <1>12, <2>2, <3>3 DEF Close, SetTimer, Dispatch, Pause, Destroy, Round, Return, Advance, Goto, End, MainAt, SignalSent
      <4>3. pc' \in {"usr1", "stop", "cont", "reap1"}
        BY <1>0, <3>3, <4>1, <4>2, MainFlow
      <4>4. pcount = Forked
        BY <1>0, <3>3, <4>1 DEF CountInv
      <4>5. ~Reaped'
        BY <1>0, <2>1, <4>1, <4>3 DEF Reaped
      <4> HIDE DEF Forked, Left
      <4> QED BY <2>1, <4>1, <4>2, <4>3, <4>4, <4>5, ReapFacts, ReapMainMoves
    <3> QED BY <3>1, <3>2, <3>3
  <2> QED BY <1>0, <2>3, <2>4, <2>5
<1>13. CASE Main
  <2>1. CASE Options \/ Quantum \/ Open \/ Establish \/ Clamp \/ Ticks \/ CreateQueue
    <3>1. pc \in SetupLabels
      BY <2>1 DEF Options, Quantum, Open, Establish, Clamp, Ticks, CreateQueue, MainAt, SetupLabels, SignalOf
    <3> QED BY <1>3, <1>13, <3>1
  <2> QED BY <1>4, <1>5, <1>6, <1>7, <1>9, <1>10, <1>11, <1>12, <1>13, <2>1 DEF Main
\* the SIGCHLD handler, and everybody else
<1>14. CASE Reap /\ child' # child
  <2>1. /\ pc' = pc /\ sub' = sub /\ tmp' = tmp /\ prog' = prog /\ pcount' = pcount /\ active_procs' = active_procs
        /\ prog \notin V2s
    <3>1. Handler
      BY <1>14 DEF Handler
    <3> QED BY <1>0, <1>14, <3>1, HandlerKeeps, Handling DEF Reap
  <2>2. chld.at = "waitpid" /\ chld'.at = "mark"
    BY <1>14, ReapFrames
  <2>3. Marks = 0 /\ Marks' = 1
    BY <2>2 DEF Marks
  <2>4. PICK p \in Pids : child[p].st = "zombie" /\ ReapedOne(p)
    BY <1>14, ReapFrames
  <2>5. Unreaped' = Unreaped \ {p} /\ Left' = Left - 1 /\ Forked' = Forked
    BY <1>0, <2>4, OneReaped
  <2>6. Reaped' = Reaped /\ p \in Unreaped
    BY <2>1, <2>4 DEF Reaped, Unreaped
  <2> HIDE DEF Forked, Left, Marks, Unreaped, Reaped
  <2> QED BY <1>0, <2>1, <2>3, <2>5, <2>6, ReapFacts DEF ReapInv
<1>15. CASE Mark
  <2>1. /\ pc' = pc /\ sub' = sub /\ tmp' = tmp /\ prog' = prog /\ pcount' = pcount /\ active_procs' \in {active_procs, active_procs - 1}
        /\ prog \notin V2s /\ child' = child
    <3>1. Handler
      BY <1>15 DEF Handler
    <3> QED BY <1>0, <1>15, <3>1, HandlerKeeps, Handling DEF Mark
  <2>2. chld.at = "mark" /\ chld'.at = "waitpid"
    BY <1>15, MarkFrames
  <2>3. Marks = 1 /\ Marks' = 0
    BY <2>2 DEF Marks
  <2>4. Unreaped' = Unreaped /\ Left' = Left /\ Forked' = Forked
    BY <1>0, <2>1, Unchanged, SameCounts
  <2>5. Reaped' = Reaped
    BY <2>1 DEF Reaped
  <2> HIDE DEF Forked, Left, Marks, Unreaped, Reaped
  <2> QED BY <1>0, <2>1, <2>3, <2>4, <2>5, ReapFacts DEF ReapInv
<1>16. CASE Handler /\ ~Mark /\ (~Reap \/ child' = child)
  <2>1. pc' = pc /\ sub' = sub /\ tmp' = tmp /\ prog' = prog /\ pcount' = pcount
    BY <1>16, HandlerKeeps
  <2>2. active_procs' = active_procs
    BY <1>16 DEF Handler, Reap, Tick, TickAlive, Spend, Spent, Preempt, Requeue, Show, Drop, NextReady,
       TestAlive, Refill, Choose, Clear, ClearTo, Resume
  <2>3. SameChildren
    <3>1. ~ReadAndFork /\ ~ReapWait
      BY <1>16, HandlerKeeps DEF ReadAndFork, ReapWait, ReapAt, MainAt
    <3> QED BY <1>0, <1>16, <3>1, ChildrenStep, Unchanged
  <2>4. Marks' = Marks
    <3>1. CASE Reap
      <4>1. chld.at = "waitpid" /\ (chld' = NoFrame \/ chld'.at = "mark")
        BY <3>1, ReapFrames
      <4>2. chld'.at # "mark"
        <5>1. CASE \E p \in Pids : child[p].st = "zombie" /\ ReapedOne(p)
          <6>1. PICK p \in Pids : child[p].st = "zombie" /\ ReapedOne(p)
            BY <5>1
          <6>2. child'[p] = [child[p] EXCEPT !.st = "reaped"] /\ child[p] \in ChildRec
            BY <1>0, <6>1, OneReaped DEF KernelTypes
          <6>3. child'[p] # child[p]
            BY <6>1, <6>2 DEF ChildRec
          <6> QED BY <1>16, <3>1, <6>3
        <5>2. CASE ~\E p \in Pids : child[p].st = "zombie" /\ ReapedOne(p)
          <6>1. chld' = NoFrame
            BY <3>1, <5>2, ReapFrames
          <6> QED BY <6>1 DEF NoFrame
        <5> QED BY <5>1, <5>2
      <4> QED BY <4>1, <4>2 DEF Marks, NoFrame
    <3>2. CASE ~Reap
      <4>1. chld' = chld
        BY <1>16, <3>2, TickFrames, TickAliveFrames, SpendFrames, SpentFrames, PreemptFrames, RequeueFrames, ShowFrames,
           DropFrames, NextFrames, TestFrames, RefillFrames, ChooseFrames, ClearFrames, ResumeFrames
          DEF Handler, Moves
      <4> QED BY <4>1 DEF Marks
    <3> QED BY <3>1, <3>2
  <2> QED BY <2>1, <2>2, <2>3, <2>4, ReapStays
<1>17. CASE TimerFires \/ (\E sig \in {"CHLD", "ALRM"} : Deliver(sig)) \/ (\E p \in Pids : Child(p)) \/ vars' = vars
  <2>1. /\ pc' = pc /\ sub' = sub /\ tmp' = tmp /\ prog' = prog /\ pcount' = pcount /\ active_procs' = active_procs
    BY <1>17, OthersKeep DEF mainvars, setupvars, procvars
  <2>2. SameChildren
    <3>1. CASE child' = child
      BY <1>0, <3>1, Unchanged
    <3>2. CASE \E p \in Pids : Child(p)
      BY <1>0, <3>2, ChildMoved
    <3> QED BY <1>17, <3>1, <3>2 DEF TimerFires, Deliver, vars, kernelvars
  <2>3. Marks' = Marks
    <3>1. CASE frames' = frames
      <4>1. chld' = chld
        BY <2>1, <3>1, FramesSame
      <4> QED BY <4>1 DEF Marks
    <3>2. ASSUME NEW sig \in {"CHLD", "ALRM"}, Deliver(sig) PROVE Marks' = Marks
      BY <3>2, Pushed, Known DEF Marks, NoFrame
    <3> QED BY <1>17, <3>1, <3>2 DEF TimerFires, Child, TakeUsr1, Exec, Exit, ChildOnly, vars, kernelvars
  <2> QED BY <2>1, <2>2, <2>3, ReapStays
<1> QED BY <1>13, <1>14, <1>15, <1>16, <1>17, Kinds

-----------------------------------------------------------------------------
(* The scheduler. *)

\* Once its child is enqueued, a program with a ready queue keeps it there.
LEMMA QueuedMain ==
  ASSUME Inv, Main
  PROVE  /\ Enqueue => ~Queued /\ Queued' /\ prog \in V3s
         /\ ~Enqueue => Queued' = Queued
<1>0. /\ CountInv /\ KernelTypes /\ MainTypes /\ PcInv /\ prog \in ProgramNames /\ prog' = prog
      /\ ~Reap /\ [Next]_vars
  BY Known, MainKeeps DEF Reap, HandlerAt, Next, Thread
<1>1. CASE prog \notin V3s
  <2>1. ~Enqueue
    BY <1>0, <1>1, Classes DEF Enqueue, MainAt, PcInv, V1Labels, V2Labels, LateLabels
  <2> QED BY <1>0, <1>1, <2>1 DEF Queued
<1>2. CASE prog \in V3s /\ (pc \in SetupLabels \/ (pc = "read" /\ child' = child))
  <2>1. Forked = 0 /\ ~ReapWait /\ ~Enqueue /\ (pc \in SetupLabels => ~ReadAndFork)
    BY <1>0, <1>2 DEF CountInv, ReapWait, ReapAt, Reaping, Enqueue, ReadAndFork, MainAt, SetupLabels
  <2>2. Forked' = Forked
    BY <1>0, <1>2, <2>1, ChildrenStep, SameCounts, Unchanged
  <2> HIDE DEF Forked
  <2> QED BY <2>1, <2>2 DEF Queued
<1>3. CASE prog \in V3s /\ pc = "read" /\ child' # child
  <2>1. ReadAndFork
    BY <1>3 DEF Main, Options, Quantum, Open, Establish, Clamp, Ticks, CreateQueue, Record,
        Enqueue, Leave, Bump, Count, ReapTest, ReapWait, ReapLoad, ReapStore, ReapAt, Reaping, Close, SetTimer, Dispatch, Pause, Destroy,
        Round, Return, MainAt, SignalOf, SignalSent
  <2>2. pc' = "record" /\ Forked = 0 /\ ~Enqueue
    BY <1>0, <1>3, <2>1, MainFlow DEF ReadAndFork, Advance, Goto, CountInv, Enqueue, MainAt
  <2> HIDE DEF Forked
  <2> QED BY <2>2 DEF Queued
<1>4. CASE prog \in V3s /\ pc \in {"record", "enqueue", "leave"}
  <2>1. /\ pc = "record" => ~Enqueue /\ Record
        /\ pc = "leave" => ~Enqueue /\ Leave
        /\ pc = "enqueue" => Enqueue
    BY <1>4 DEF Main, Options, Quantum, Open, Establish, Clamp, Ticks, CreateQueue, ReadAndFork, Record,
        Enqueue, Leave, Bump, Count, ReapTest, ReapWait, ReapLoad, ReapStore, ReapAt, Reaping, Close, SetTimer, Dispatch, Pause, Destroy,
        Round, Return, MainAt, SignalOf, SignalSent
  <2>2. /\ pc = "record" => pc' = "enqueue"
        /\ pc = "enqueue" => pc' = "leave"
        /\ pc = "leave" => pc' = "count"
        /\ child' = child
    BY <1>0, <1>4, <2>1, MainFlow DEF Record, Enqueue, Leave, Advance, Goto, kernelvars
  <2>3. Forked' = Forked /\ Forked = 1
    BY <1>0, <1>4, <2>2, Unchanged, SameCounts DEF CountInv
  <2> HIDE DEF Forked
  <2> QED BY <1>0, <1>4, <2>1, <2>2, <2>3 DEF Queued
<1>5. CASE prog \in V3s /\ pc \notin SetupLabels \union Building
  <2>1. pc' \notin SetupLabels \union Building
    BY <1>5, Beyond
  <2>2. ~ReadAndFork /\ ~ReapWait /\ ~Enqueue
    BY <1>0, <1>5 DEF ReadAndFork, ReapWait, ReapAt, Reaping, MainAt, Enqueue, Building, PcInv, V3Labels
  <2>3. Forked' = Forked
    BY <1>0, <2>2, ChildrenStep, SameCounts
  <2> HIDE DEF Forked
  <2> QED BY <1>0, <1>5, <2>1, <2>2, <2>3 DEF Queued, Building
<1> QED BY <1>0, <1>1, <1>2, <1>3, <1>4, <1>5 DEF Building, PcInv, V3Labels

\* Nobody but main moves main, and no handler forks or reaps a child out of the count.
LEMMA QueuedOther ==
  ASSUME Inv, [Next]_vars, ~Main
  PROVE  /\ Queued' = Queued /\ prog' = prog /\ pc' = pc /\ destroyed' = destroyed
<1>0. CountInv /\ KernelTypes
  BY Known
<1>1. prog' = prog /\ pc' = pc /\ destroyed' = destroyed
  BY Kinds, HandlerKeeps, OthersKeep DEF mainvars, setupvars, schedvars
<1>2. ~ReadAndFork /\ ~ReapWait
  BY DEF Main
<1>3. Forked' = Forked
  <2>1. CASE Reap
    BY <1>0, <2>1, ReapFrames, OneReaped, Unchanged, SameCounts
  <2>2. CASE ~Reap
    BY <1>2, <2>2, ChildrenStep, SameCounts
  <2> QED BY <2>1, <2>2
<1> HIDE DEF Forked
<1> QED BY <1>1, <1>3 DEF Queued

\* In those programs nothing clears the alive flag of the entry once it is set.
LEMMA AliveKept ==
  ASSUME Inv, [Next]_vars, prog \in V3s, ~Record
  PROVE  \A i \in Pids : pcb_arr'[i].alive = pcb_arr[i].alive
BY TableKept, TickTable, MarkTable, ClearTable

\* The facts the steps of the alarm's handler need.
LEMMA SchedFacts ==
  ASSUME Inv
  PROVE  /\ ready_queue \in Seq(Pids) /\ Len(ready_queue) \in Nat
         /\ (Len(ready_queue) = 0 <=> ready_queue = <<>>)
         /\ current_process \in 0..MaxLines /\ MaxLines \in Nat
         /\ SchedInv
         /\ Queued => prog \in V3s /\ 1 \in Pids
<1>1. DataTypes /\ CountInv /\ SchedInv /\ MaxLines \in Nat
  BY Known
<1>2. ready_queue \in Seq(Pids) /\ current_process \in 0..MaxLines
  BY <1>1 DEF DataTypes
<1>3. Len(ready_queue) \in Nat /\ (Len(ready_queue) = 0 <=> ready_queue = <<>>)
  BY <1>2, EmptySeq
<1>4. Queued => prog \in V3s /\ 1 \in Pids
  BY <1>1 DEF Queued, CountInv, Pids
<1> QED BY <1>1, <1>2, <1>3, <1>4

\* The alarm's handler moves: what its step must do to the queue and the process.
LEMMA SchedMoves ==
  ASSUME Inv, Handler, ~Mark, ~Reap,
         NEW r, NEW s, NEW l \in AlarmLabels, NEW m \in AlarmLabels \union {"none"}, Moves(l, r, m, s),
         ready_queue' \in Seq(Pids), current_process' \in 0..MaxLines,
         l \in UsePcs => current_process # 0 /\ Queued,
         m \in UsePcs => current_process' # 0 /\ Queued,
         m = "next" => current_process' = 0,
         m = "none" => current_process' # 0 \/ destroyed \/ ~Queued,
         ~destroyed =>
           Len(ready_queue') + (IF current_process' = 0 THEN 0 ELSE 1) + (IF l \in {"show", "drop"} THEN 1 ELSE 0)
             = Len(ready_queue) + (IF current_process = 0 THEN 0 ELSE 1) + (IF m \in {"show", "drop"} THEN 1 ELSE 0),
         destroyed => ready_queue' = ready_queue,
         Queued => current_process' \in {0, 1} /\ \A i \in 1..Len(ready_queue') : ready_queue'[i] = 1,
         ~Queued => current_process' = 0 /\ ready_queue' = <<>>
  PROVE  SchedInv'
<1>0. /\ NoFrame.at = "none" /\ "none" \notin UsePcs \union {"next", "show", "drop"} /\ "none" \notin AlarmLabels
      /\ \A x \in {"show", "drop"} : x \in UsePcs
  BY DEF NoFrame, UsePcs, AlarmLabels
<1>1. [Next]_vars /\ ~Main /\ ~Record
  BY HandlerKeeps, MainKeeps DEF Next, Thread, Main
<1>2. Queued' = Queued /\ prog' = prog /\ pc' = pc /\ destroyed' = destroyed
  BY <1>1, QueuedOther
<1>3. /\ (Queued => pcb_arr'[1].alive = pcb_arr[1].alive)
      /\ (prog \in V3s /\ pc = "enqueue" => pcb_arr'[1].alive = pcb_arr[1].alive)
  <2>1. prog \in V3s /\ pc = "enqueue" => 1 \in Pids
    BY Known DEF CountInv, Pids
  <2> QED BY <1>1, <2>1, AliveKept, SchedFacts
<1>4. Len(ready_queue') \in Nat
  OBVIOUS
<1> HIDE DEF Queued
<1>5. CASE /\ alrm.at = l /\ alrm'.at = m /\ call' = call
  <2>1. /\ alrm'.at \in UsePcs => current_process' # 0
        /\ alrm'.at = "next" => current_process' = 0
        /\ alrm'.at = "none" /\ call'.at \in UsePcs => current_process' # 0
    BY <1>0, <1>5, SchedFacts DEF SchedInv
  <2>2. ~destroyed => Len(ready_queue') + (IF current_process' = 0 THEN 0 ELSE 1)
                        = (IF Queued THEN 1 ELSE 0) + Twice(alrm') + Twice(call')
    <3>1. Twice(alrm) = (IF l \in {"show", "drop"} THEN 1 ELSE 0) /\ Twice(alrm') = (IF m \in {"show", "drop"} THEN 1 ELSE 0) /\ Twice(call') = Twice(call)
      BY <1>0, <1>5 DEF Twice
    <3>2. ~destroyed => Len(ready_queue) + (IF current_process = 0 THEN 0 ELSE 1)
                          = (IF Queued THEN 1 ELSE 0) + Twice(alrm) + Twice(call)
      BY SchedFacts DEF SchedInv
    <3>3. Twice(alrm) \in 0..1 /\ Twice(call) \in 0..1 /\ Twice(alrm') \in 0..1 /\ Twice(call') \in 0..1
      BY DEF Twice
    <3>4. Len(ready_queue) \in Nat
      BY SchedFacts
    <3>5. ASSUME ~destroyed
          PROVE  Len(ready_queue') + (IF current_process' = 0 THEN 0 ELSE 1) + (IF l \in {"show", "drop"} THEN 1 ELSE 0)
                   = Len(ready_queue) + (IF current_process = 0 THEN 0 ELSE 1) + (IF m \in {"show", "drop"} THEN 1 ELSE 0)
      BY <3>5
    <3>6. PICK c \in 0..1, d \in 0..1, q \in 0..1, x \in 0..1, y \in 0..1 :
            /\ c = (IF current_process = 0 THEN 0 ELSE 1) /\ d = (IF current_process' = 0 THEN 0 ELSE 1)
            /\ q = (IF Queued THEN 1 ELSE 0)
            /\ x = (IF l \in {"show", "drop"} THEN 1 ELSE 0) /\ y = (IF m \in {"show", "drop"} THEN 1 ELSE 0)
      OBVIOUS
    <3>7. PICK ta \in 0..1, tb \in 0..1, tc \in 0..1, td \in 0..1, n \in Nat, o \in Nat :
            /\ ta = Twice(alrm) /\ tb = Twice(call) /\ tc = Twice(alrm') /\ td = Twice(call')
            /\ n = Len(ready_queue) /\ o = Len(ready_queue')
      BY <1>4, <3>3, <3>4
    <3> HIDE DEF Twice
    <3>8. ~destroyed => o + d + x = n + c + y
      BY ONLY <3>5, <3>6, <3>7
    <3>9. ~destroyed => n + c = q + ta + tb
      BY ONLY <3>2, <3>6, <3>7
    <3>10. ta = x /\ tc = y /\ td = tb
      BY ONLY <3>1, <3>6, <3>7
    <3>11. ~destroyed => o + d = q + tc + td
      BY <3>8, <3>9, <3>10
    <3> QED BY ONLY <3>6, <3>7, <3>11
  <2>3. destroyed => call'.at = "none"
    BY <1>5, SchedFacts DEF SchedInv
  <2>4. Len(ready_queue') <= 2
    <3>1. CASE destroyed
      BY <3>1, SchedFacts DEF SchedInv
    <3>2. CASE ~destroyed /\ current_process' # 0
      BY <1>4, <2>2, <3>2 DEF Twice
    <3>3. CASE ~destroyed /\ current_process' = 0
      <4>1. Twice(alrm') = 0
        BY <1>0, <2>1, <3>3 DEF Twice
      <4> QED BY <1>4, <2>2, <3>3, <4>1 DEF Twice
    <3> QED BY <3>1, <3>2, <3>3
  <2>5. ~Queued => alrm'.at \notin UsePcs /\ call'.at \notin UsePcs
    BY <1>0, <1>5, SchedFacts DEF SchedInv
  <2> QED BY <1>2, <1>3, <2>1, <2>2, <2>3, <2>4, <2>5, SchedFacts DEF SchedInv
<1>6. CASE /\ alrm = NoFrame /\ alrm' = NoFrame /\ call.at = l /\ call'.at = m
  <2>1. /\ alrm'.at \in UsePcs => current_process' # 0
        /\ alrm'.at = "next" => current_process' = 0
        /\ alrm'.at = "none" /\ call'.at \in UsePcs => current_process' # 0
    BY <1>0, <1>6
  <2>2. ~destroyed => Len(ready_queue') + (IF current_process' = 0 THEN 0 ELSE 1)
                        = (IF Queued THEN 1 ELSE 0) + Twice(alrm') + Twice(call')
    <3>1. Twice(call) = (IF l \in {"show", "drop"} THEN 1 ELSE 0) /\ Twice(call') = (IF m \in {"show", "drop"} THEN 1 ELSE 0) /\ Twice(alrm) = 0 /\ Twice(alrm') = 0
      BY <1>0, <1>6 DEF Twice
    <3>2. ~destroyed => Len(ready_queue) + (IF current_process = 0 THEN 0 ELSE 1)
                          = (IF Queued THEN 1 ELSE 0) + Twice(alrm) + Twice(call)
      BY SchedFacts DEF SchedInv
    <3>3. Twice(alrm) \in 0..1 /\ Twice(call) \in 0..1 /\ Twice(alrm') \in 0..1 /\ Twice(call') \in 0..1
      BY DEF Twice
    <3>4. Len(ready_queue) \in Nat
      BY SchedFacts
    <3>5. ASSUME ~destroyed
          PROVE  Len(ready_queue') + (IF current_process' = 0 THEN 0 ELSE 1) + (IF l \in {"show", "drop"} THEN 1 ELSE 0)
                   = Len(ready_queue) + (IF current_process = 0 THEN 0 ELSE 1) + (IF m \in {"show", "drop"} THEN 1 ELSE 0)
      BY <3>5
    <3>6. PICK c \in 0..1, d \in 0..1, q \in 0..1, x \in 0..1, y \in 0..1 :
            /\ c = (IF current_process = 0 THEN 0 ELSE 1) /\ d = (IF current_process' = 0 THEN 0 ELSE 1)
            /\ q = (IF Queued THEN 1 ELSE 0)
            /\ x = (IF l \in {"show", "drop"} THEN 1 ELSE 0) /\ y = (IF m \in {"show", "drop"} THEN 1 ELSE 0)
      OBVIOUS
    <3>7. PICK ta \in 0..1, tb \in 0..1, tc \in 0..1, td \in 0..1, n \in Nat, o \in Nat :
            /\ ta = Twice(alrm) /\ tb = Twice(call) /\ tc = Twice(alrm') /\ td = Twice(call')
            /\ n = Len(ready_queue) /\ o = Len(ready_queue')
      BY <1>4, <3>3, <3>4
    <3> HIDE DEF Twice
    <3>8. ~destroyed => o + d + x = n + c + y
      BY ONLY <3>5, <3>6, <3>7
    <3>9. ~destroyed => n + c = q + ta + tb
      BY ONLY <3>2, <3>6, <3>7
    <3>10. tb = x /\ td = y /\ ta = 0 /\ tc = 0
      BY ONLY <3>1, <3>6, <3>7
    <3>11. ~destroyed => o + d = q + tc + td
      BY <3>8, <3>9, <3>10
    <3> QED BY ONLY <3>6, <3>7, <3>11
  <2>3. ~destroyed
    BY <1>0, <1>6, SchedFacts DEF SchedInv
  <2>4. Len(ready_queue') <= 2
    BY <1>0, <1>4, <1>6, <2>2, <2>3 DEF Twice
  <2>5. ~Queued => alrm'.at \notin UsePcs /\ call'.at \notin UsePcs
    BY <1>0, <1>6
  <2> QED BY <1>2, <1>3, <2>1, <2>2, <2>3, <2>4, <2>5, SchedFacts DEF SchedInv
<1> QED BY <1>5, <1>6 DEF Moves

\* A step that leaves the queue and the frames of the alarm's handler alone.
LEMMA SchedStays ==
  ASSUME Inv, UNCHANGED <<ready_queue, destroyed, current_process>>, alrm' = alrm, call' = call,
         Queued' = Queued, prog' = prog, destroyed => pc' \in PostDestroy,
         Queued => pcb_arr'[1].alive, prog \in V3s /\ pc' = "enqueue" => pcb_arr'[1].alive
  PROVE  SchedInv'
<1> HIDE DEF Queued
<1> QED BY SchedFacts DEF SchedInv, Twice

\* The process where a step of the alarm's handler starts.
LEMMA SchedAt ==
  ASSUME Inv, NEW r, NEW s, NEW l \in AlarmLabels, NEW m, Moves(l, r, m, s)
  PROVE  /\ l \in UsePcs => current_process # 0
         /\ current_process # 0 => Queued /\ current_process = 1 /\ pcb_arr[1].alive
         /\ l = "next" /\ ~destroyed /\ ready_queue = <<>> => current_process # 0 \/ ~Queued
         /\ l = "next" /\ ~destroyed /\ ready_queue # <<>> => current_process = 0 /\ Queued /\ ready_queue[1] = 1
<1>0. NoFrame.at = "none" /\ "none" \notin AlarmLabels
  BY DEF NoFrame, AlarmLabels
<1> HIDE DEF Queued
<1>1. l \in UsePcs => current_process # 0
  BY <1>0, SchedFacts DEF SchedInv, Moves
<1>2. current_process # 0 => Queued /\ current_process = 1 /\ pcb_arr[1].alive
  BY SchedFacts DEF SchedInv
<1>3. ASSUME l = "next", ~destroyed
      PROVE  \/ alrm.at = "next" /\ current_process = 0 /\ Twice(alrm) = 0
             \/ alrm = NoFrame /\ call.at = "next" /\ Twice(alrm) = 0 /\ Twice(call) = 0
  <2>1. CASE alrm.at = "next"
    BY <2>1, SchedFacts DEF SchedInv, Twice
  <2>2. CASE alrm = NoFrame /\ call.at = "next"
    BY <1>0, <2>2 DEF Twice
  <2> QED BY <1>3, <2>1, <2>2 DEF Moves
<1>4. ASSUME l = "next", ~destroyed, ready_queue = <<>>, current_process = 0, Queued PROVE FALSE
  <2>1. 0 + 0 = 1 + Twice(alrm) + Twice(call)
    BY <1>4, SchedFacts DEF SchedInv
  <2>2. Twice(alrm) \in 0..1 /\ Twice(call) \in 0..1
    BY DEF Twice
  <2> HIDE DEF Twice
  <2> QED BY <2>1, <2>2
<1>5. ASSUME l = "next", ~destroyed, ready_queue # <<>> PROVE Queued /\ ready_queue[1] = 1 /\ current_process = 0
  <2>1. Queued /\ ready_queue[1] = 1
    BY <1>5, SchedFacts DEF SchedInv
  <2>2. CASE current_process # 0
    <3>1. PICK n \in Nat : n = Len(ready_queue) /\ n # 0
      BY <1>5, SchedFacts
    <3>2. Twice(alrm) = 0 /\ Twice(call) = 0
      BY <1>3, <1>5, <2>2
    <3>3. n + 1 = 1 + Twice(alrm) + Twice(call)
      BY <1>5, <2>1, <2>2, <3>1, SchedFacts DEF SchedInv
    <3> HIDE DEF Twice
    <3> QED BY <3>1, <3>2, <3>3
  <2> QED BY <2>1, <2>2
<1> QED BY <1>1, <1>2, <1>4, <1>5

\* Each step of a handler.
LEMMA SchedHandler == ASSUME Inv, Handler PROVE SchedInv'
<1>0. /\ ready_queue \in Seq(Pids) /\ current_process \in 0..MaxLines /\ MaxLines \in Nat
      /\ Queued => /\ current_process \in {0, 1} /\ 1 \in Pids
                   /\ \A i \in 1..Len(ready_queue) : ready_queue[i] = 1
      /\ ~Queued => current_process = 0 /\ ready_queue = <<>>
      /\ Len(ready_queue) \in Nat
  <2> HIDE DEF Queued
  <2> QED BY SchedFacts DEF SchedInv
<1>1. [Next]_vars /\ ~Main /\ ~Record
  BY HandlerKeeps, MainKeeps DEF Next, Thread, Main
<1> HIDE DEF Queued
<1>2. CASE Reap \/ Mark
  <2>1. alrm' = alrm /\ call' = call /\ UNCHANGED <<ready_queue, destroyed, current_process>>
    BY <1>2, ReapFrames, MarkFrames DEF Reap, Mark, schedvars
  <2>2. Queued' = Queued /\ prog' = prog /\ pc' = pc
    BY <1>1, QueuedOther
  <2>3. prog \in V3s => pcb_arr' = pcb_arr
    BY <1>2, MarkTable DEF Reap
  <2>4. Queued => prog \in V3s
    BY SchedFacts
  <2> QED BY <2>1, <2>2, <2>3, <2>4, SchedFacts, SchedStays DEF SchedInv
<1>3. ASSUME ~Mark, ~Reap, NEW r, NEW s, NEW l \in AlarmLabels, NEW m \in AlarmLabels \union {"none"}, Moves(l, r, m, s),
             UNCHANGED <<ready_queue, current_process>>,
             l \in {"show", "drop"} <=> m \in {"show", "drop"},
             m \in UsePcs => current_process # 0,
             m = "next" => current_process = 0,
             m = "none" => current_process # 0 \/ destroyed \/ ~Queued
      PROVE  SchedInv'
  <2>1. /\ l \in UsePcs => current_process # 0 /\ Queued
        /\ m \in UsePcs => current_process # 0 /\ Queued
    BY <1>0, <1>3, SchedAt
  <2>2. ~destroyed =>
           Len(ready_queue') + (IF current_process' = 0 THEN 0 ELSE 1) + (IF l \in {"show", "drop"} THEN 1 ELSE 0)
             = Len(ready_queue) + (IF current_process = 0 THEN 0 ELSE 1) + (IF m \in {"show", "drop"} THEN 1 ELSE 0)
    BY <1>0, <1>3
  <2> QED BY <1>0, <1>3, <2>1, <2>2, SchedMoves
<1>4. CASE Tick
  <2>1. UNCHANGED <<ready_queue, current_process>> /\ ~Mark /\ ~Reap
    BY <1>4 DEF Tick, schedvars, Mark, Reap, Scheduling, HandlerAt
  <2>2. PICK r : \/ current_process # 0 /\ Moves("tick", r, "alive", r)
                 \/ current_process = 0 /\ Moves("tick", r, "next", r)
    BY <1>4, TickFrames
  <2>3. {"tick", "alive", "next"} \subseteq AlarmLabels /\ "next" \notin UsePcs
    BY DEF AlarmLabels, UsePcs
  <2> QED BY <1>3, <2>1, <2>2, <2>3
<1>12. CASE TickAlive
  <2>1. UNCHANGED <<ready_queue, current_process>> /\ ~Mark /\ ~Reap
    BY <1>12 DEF TickAlive, schedvars, Mark, Reap, Scheduling, HandlerAt
  <2>2. PICK r : \/ pcb_arr[current_process].alive /\ Moves("alive", r, "spend", r)
                 \/ ~pcb_arr[current_process].alive /\ Moves("alive", r, "drop", r)
    BY <1>12, TickAliveFrames
  <2>3. {"alive", "spend"} \subseteq AlarmLabels /\ "alive" \in UsePcs
    BY DEF AlarmLabels, UsePcs
  <2>4. current_process # 0 /\ ~(~pcb_arr[current_process].alive /\ Moves("alive", r, "drop", r))
    BY <2>2, <2>3, SchedAt
  <2> QED BY <1>3, <2>1, <2>2, <2>3, <2>4
<1>5. CASE TestAlive
  <2>1. UNCHANGED <<ready_queue, current_process>> /\ ~Mark /\ ~Reap
    BY <1>5 DEF TestAlive, schedvars, Mark, Reap, Scheduling, HandlerAt
  <2>2. PICK r : \/ pcb_arr[current_process].alive /\ Moves("test", r, "refill", r)
                 \/ ~pcb_arr[current_process].alive /\ Moves("test", r, "next", r)
    BY <1>5, TestFrames
  <2>3. {"test", "refill"} \subseteq AlarmLabels /\ "test" \in UsePcs
    BY DEF AlarmLabels, UsePcs
  <2>4. current_process # 0 /\ ~(~pcb_arr[current_process].alive /\ Moves("test", r, "next", r))
    BY <2>2, <2>3, SchedAt
  <2> QED BY <1>3, <2>1, <2>2, <2>3, <2>4
<1>13. CASE Spend
  <2>1. UNCHANGED <<ready_queue, current_process>> /\ ~Mark /\ ~Reap
    BY <1>13 DEF Spend, schedvars, Mark, Reap, Scheduling, HandlerAt
  <2>2. PICK r, s : Moves("spend", r, "spent", s)
    BY <1>13, SpendFrames
  <2>3. {"spend", "spent"} \subseteq AlarmLabels /\ "spend" \in UsePcs /\ "none" \notin UsePcs
    BY DEF AlarmLabels, UsePcs
  <2>4. current_process # 0
    BY <2>2, <2>3, SchedAt
  <2> QED BY <1>3, <2>1, <2>2, <2>3, <2>4
<1>14. CASE Spent
  <2>1. UNCHANGED <<ready_queue, current_process>> /\ ~Mark /\ ~Reap
    BY <1>14 DEF Spent, schedvars, Mark, Reap, Scheduling, HandlerAt
  <2>2. PICK r, s : Moves("spent", r, "none", s) \/ Moves("spent", r, "preempt", s)
    BY <1>14, SpentFrames
  <2>3. {"spent", "preempt"} \subseteq AlarmLabels /\ "spent" \in UsePcs /\ "none" \notin UsePcs
    BY DEF AlarmLabels, UsePcs
  <2>4. current_process # 0
    BY <2>2, <2>3, SchedAt
  <2> QED BY <1>3, <2>1, <2>2, <2>3, <2>4
<1>15. CASE Preempt
  <2>1. UNCHANGED <<ready_queue, current_process>> /\ ~Mark /\ ~Reap
    BY <1>15 DEF Preempt, schedvars, Mark, Reap, Scheduling, HandlerAt
  <2>2. PICK r, s : Moves("preempt", r, "requeue", s)
    BY <1>15, PreemptFrames
  <2>3. {"preempt", "requeue"} \subseteq AlarmLabels /\ "preempt" \in UsePcs /\ "none" \notin UsePcs
    BY DEF AlarmLabels, UsePcs
  <2>4. current_process # 0
    BY <2>2, <2>3, SchedAt
  <2> QED BY <1>3, <2>1, <2>2, <2>3, <2>4
<1>16. CASE Refill
  <2>1. UNCHANGED <<ready_queue, current_process>> /\ ~Mark /\ ~Reap
    BY <1>16 DEF Refill, schedvars, Mark, Reap, Scheduling, HandlerAt
  <2>2. PICK r, s : Moves("refill", r, "choose", s)
    BY <1>16, RefillFrames
  <2>3. {"refill", "choose"} \subseteq AlarmLabels /\ "refill" \in UsePcs /\ "none" \notin UsePcs
    BY DEF AlarmLabels, UsePcs
  <2>4. current_process # 0
    BY <2>2, <2>3, SchedAt
  <2> QED BY <1>3, <2>1, <2>2, <2>3, <2>4
<1>6. CASE Choose
  <2>1. UNCHANGED <<ready_queue, current_process>> /\ ~Mark /\ ~Reap
    BY <1>6 DEF Choose, schedvars, Mark, Reap, Scheduling, HandlerAt
  <2>2. PICK r, s : Moves("choose", r, "clear", s) \/ Moves("choose", r, "resume", s)
    BY <1>6, ChooseFrames
  <2>3. {"choose", "clear", "resume"} \subseteq AlarmLabels /\ "choose" \in UsePcs /\ "none" \notin UsePcs
    BY DEF AlarmLabels, UsePcs
  <2>4. current_process # 0
    BY <2>2, <2>3, SchedAt
  <2> QED BY <1>3, <2>1, <2>2, <2>3, <2>4
<1>17. CASE Clear
  <2>1. UNCHANGED <<ready_queue, current_process>> /\ ~Mark /\ ~Reap
    BY <1>17 DEF Clear, ClearTo, schedvars, Mark, Reap, Scheduling, HandlerAt
  <2>2. PICK r, s : Moves("clear", r, "resume", s)
    BY <1>17, ClearFrames
  <2>3. {"clear", "resume"} \subseteq AlarmLabels /\ "clear" \in UsePcs /\ "none" \notin UsePcs
    BY DEF AlarmLabels, UsePcs
  <2>4. current_process # 0
    BY <2>2, <2>3, SchedAt
  <2> QED BY <1>3, <2>1, <2>2, <2>3, <2>4
<1>7. CASE Resume
  <2>1. UNCHANGED <<ready_queue, current_process>> /\ ~Mark /\ ~Reap
    BY <1>7 DEF Resume, schedvars, Mark, Reap, Scheduling, HandlerAt
  <2>2. PICK r, s : Moves("resume", r, "none", s)
    BY <1>7, ResumeFrames
  <2>3. {"resume"} \subseteq AlarmLabels /\ "resume" \in UsePcs /\ "none" \notin UsePcs
    BY DEF AlarmLabels, UsePcs
  <2>4. current_process # 0
    BY <2>2, <2>3, SchedAt
  <2> QED BY <1>3, <2>1, <2>2, <2>3, <2>4
<1>8. CASE Show
  <2>1. UNCHANGED <<ready_queue, current_process>> /\ ~Mark /\ ~Reap
    BY <1>8 DEF Show, schedvars, Mark, Reap, Scheduling, HandlerAt
  <2>2. PICK r, s : Moves("show", r, "drop", s)
    BY <1>8, ShowFrames
  <2>3. {"show", "drop"} \subseteq AlarmLabels /\ "show" \in UsePcs /\ "none" \notin UsePcs
    BY DEF AlarmLabels, UsePcs
  <2>4. current_process # 0
    BY <2>2, <2>3, SchedAt
  <2> QED BY <1>3, <2>1, <2>2, <2>3, <2>4
<1>9. CASE Requeue
  <2>1. ~Mark /\ ~Reap /\ current_process' = current_process
    BY <1>9 DEF Requeue, Mark, Reap, Scheduling, HandlerAt
  <2>2. PICK r : Moves("requeue", r, "show", r) \/ Moves("requeue", r, "drop", r)
    BY <1>9, RequeueFrames
  <2>7. PICK m \in {"show", "drop"} : Moves("requeue", r, m, r)
    BY <2>2
  <2>3. "requeue" \in AlarmLabels /\ m \in AlarmLabels /\ m \in UsePcs /\ "requeue" \in UsePcs
    BY DEF AlarmLabels, UsePcs
  <2>4. current_process = 1 /\ Queued /\ 1 \in Pids
    BY <1>0, <2>7, <2>3, SchedAt
  <2>5. CASE destroyed
    <3>1. ready_queue' = ready_queue
      BY <1>9, <2>5 DEF Requeue
    <3> QED BY <1>0, <1>9, <2>1, <2>7, <2>3, <2>4, <2>5, <3>1, SchedMoves
  <2>6. CASE ~destroyed
    <3>1. ready_queue' = Append(ready_queue, 1)
      BY <1>9, <2>4, <2>6 DEF Requeue
    <3>2. /\ ready_queue' \in Seq(Pids) /\ Len(ready_queue') = Len(ready_queue) + 1
          /\ ready_queue'[Len(ready_queue) + 1] = 1 /\ \A i \in 1..Len(ready_queue) : ready_queue'[i] = ready_queue[i]
      BY <1>0, <2>4, <3>1, AppendProperties
    <3>3. \A i \in 1..Len(ready_queue') : ready_queue'[i] = 1
      <4>1. \A i \in 1..Len(ready_queue') : i \in 1..Len(ready_queue) \/ i = Len(ready_queue) + 1
        BY <1>0, <3>2
      <4> QED BY <1>0, <2>4, <3>2, <4>1
    <3>4. Len(ready_queue') + (IF current_process' = 0 THEN 0 ELSE 1) + (IF "requeue" \in {"show", "drop"} THEN 1 ELSE 0)
             = Len(ready_queue) + (IF current_process = 0 THEN 0 ELSE 1) + (IF m \in {"show", "drop"} THEN 1 ELSE 0)
      BY <1>0, <2>1, <2>7, <2>4, <3>2
    <3> QED BY <1>0, <1>9, <2>1, <2>7, <2>3, <2>4, <2>6, <3>2, <3>3, <3>4, SchedMoves
  <2> QED BY <2>5, <2>6
<1>10. CASE Drop
  <2>1. ~Mark /\ ~Reap /\ ready_queue' = ready_queue /\ current_process' = 0
    BY <1>10 DEF Drop, Mark, Reap, Scheduling, HandlerAt
  <2>2. PICK r : Moves("drop", r, "next", r)
    BY <1>10, DropFrames
  <2>3. "drop" \in AlarmLabels /\ "next" \in AlarmLabels /\ "drop" \in UsePcs /\ "next" \notin UsePcs
    BY DEF AlarmLabels, UsePcs
  <2>4. current_process # 0 /\ Queued
    BY <1>0, <2>2, <2>3, SchedAt
  <2>5. Len(ready_queue') + (IF current_process' = 0 THEN 0 ELSE 1) + (IF "drop" \in {"show", "drop"} THEN 1 ELSE 0)
           = Len(ready_queue) + (IF current_process = 0 THEN 0 ELSE 1) + (IF "next" \in {"show", "drop"} THEN 1 ELSE 0)
    BY <1>0, <2>1, <2>4
  <2> QED BY <1>0, <1>10, <2>1, <2>2, <2>3, <2>4, <2>5, SchedMoves
<1>11. CASE NextReady
  <2>1. ~Mark /\ ~Reap
    BY <1>11 DEF NextReady, Mark, Reap, Scheduling, HandlerAt
  <2>2. PICK r : \/ (destroyed \/ ready_queue = <<>>) /\ Moves("next", r, "none", "none")
                 \/ ~destroyed /\ ready_queue # <<>> /\ Moves("next", r, "test", r)
    BY <1>11, NextFrames
  <2>3. "next" \in AlarmLabels /\ "test" \in AlarmLabels /\ "next" \notin UsePcs /\ "none" \notin UsePcs
    BY DEF AlarmLabels, UsePcs
  <2>4. CASE (destroyed \/ ready_queue = <<>>) /\ Moves("next", r, "none", "none")
    <3>1. UNCHANGED <<ready_queue, current_process>>
      BY <1>11, <2>4 DEF NextReady
    <3>2. current_process # 0 \/ destroyed \/ ~Queued
      BY <2>3, <2>4, SchedAt
    <3> QED BY <1>3, <2>1, <2>3, <2>4, <3>1, <3>2
  <2>5. CASE ~destroyed /\ ready_queue # <<>> /\ Moves("next", r, "test", r)
    <3>1. current_process = 0 /\ Queued /\ ready_queue[1] = 1
      BY <2>3, <2>5, SchedAt
    <3>2. current_process' = Head(ready_queue) /\ ready_queue' = Tail(ready_queue)
      BY <1>11, <2>5 DEF NextReady
    <3>3. /\ ready_queue' \in Seq(Pids) /\ Len(ready_queue') = Len(ready_queue) - 1
          /\ \A i \in 1..Len(ready_queue') : ready_queue'[i] = ready_queue[i + 1]
          /\ current_process' = ready_queue[1]
      BY <1>0, <2>5, <3>2, HeadTailProperties
    <3>4. \A i \in 1..Len(ready_queue') : ready_queue'[i] = 1
      <4>1. \A i \in 1..Len(ready_queue') : i + 1 \in 1..Len(ready_queue)
        BY <1>0, <3>3
      <4> QED BY <1>0, <3>1, <3>3, <4>1
    <3>5. Len(ready_queue') + (IF current_process' = 0 THEN 0 ELSE 1) + (IF "next" \in {"show", "drop"} THEN 1 ELSE 0)
             = Len(ready_queue) + (IF current_process = 0 THEN 0 ELSE 1) + (IF "test" \in {"show", "drop"} THEN 1 ELSE 0)
      BY <1>0, <3>1, <3>3
    <3>6. current_process' \in 0..MaxLines
      BY <1>0, <3>1, <3>3 DEF Pids
    <3> QED BY <1>0, <1>11, <2>1, <2>3, <2>5, <3>1, <3>3, <3>4, <3>5, <3>6, SchedMoves
  <2> QED BY <2>2, <2>4, <2>5
<1> QED BY <1>2, <1>4, <1>5, <1>6, <1>7, <1>8, <1>9, <1>10, <1>11, <1>12, <1>13, <1>14, <1>15, <1>16, <1>17 DEF Handler

\* main comes to the statement that enqueues from the one before it only.
LEMMA ToEnqueue == ASSUME Inv, Main, prog \in V3s, pc' = "enqueue" PROVE Record
<1>0. prog \in ProgramNames /\ PcInv /\ pc # "bump"
  BY Known DEF PcInv, V3Labels
<1>1. CASE pc \in SetupLabels
  <2>1. pc' = pc \/ pc' = After(text.main, pc)
    BY <1>1 DEF Main, Options, Quantum, Open, Establish, Clamp, Ticks, CreateQueue, ReadAndFork, Record,
        Enqueue, Leave, Bump, Count, ReapTest, ReapWait, ReapLoad, ReapStore, ReapAt, Reaping, Close, SetTimer, Dispatch, Pause, Destroy, Round,
        Return, MainAt, SetupLabels, Advance, Goto, End, SignalSent
  <2>2. pc' \in SetupLabels \union {"read"}
    BY <1>0, <1>1, <2>1, SetupFlow
  <2> QED BY <2>2 DEF SetupLabels
<1>2. CASE pc \in {"read", "enqueue", "leave"}
  <2>1. pc' \in {"count", After(text.main, pc)} /\ (pc = "leave" => pc' = "count")
    BY <1>2 DEF Main, Options, Quantum, Open, Establish, Clamp, Ticks, CreateQueue, ReadAndFork, Record,
        Enqueue, Leave, Bump, Count, ReapTest, ReapWait, ReapLoad, ReapStore, ReapAt, Reaping, Close, SetTimer, Dispatch, Pause, Destroy, Round,
        Return, MainAt, SetupLabels, Advance, Goto, SignalOf, SignalSent
  <2>2. pc' \in {"count", "record", "leave"}
    BY <1>0, <1>2, <2>1, MainFlow
  <2> QED BY <2>2
<1>3. CASE pc = "record"
  BY <1>3 DEF Main, Options, Quantum, Open, Establish, Clamp, Ticks, CreateQueue, ReadAndFork,
        Enqueue, Leave, Bump, Count, ReapTest, ReapWait, ReapLoad, ReapStore, ReapAt, Reaping, Close, SetTimer, Dispatch, Pause, Destroy, Round,
        Return, MainAt, SignalOf, SignalSent
<1>4. CASE pc \notin SetupLabels \union Building
  <2>1. pc' \notin SetupLabels \union Building
    BY <1>4, Beyond
  <2> QED BY <2>1 DEF Building
<1> QED BY <1>0, <1>1, <1>2, <1>3, <1>4 DEF Building

\* After the queue was destroyed main only signals, waits and returns.
LEMMA AfterDestroy ==
  ASSUME Inv, Main, destroyed \/ Destroy
  PROVE  pc' \in PostDestroy /\ prog \notin V1s \union V2s /\ pc # "dispatch" /\ ~Enqueue
<1>0. /\ prog \in ProgramNames /\ PcInv
      /\ prog \in V3s => prog \notin V1s /\ prog \notin V2s /\ prog \notin Lates
      /\ prog \in Lates => prog \notin V1s /\ prog \notin V2s /\ prog \notin V3s
      /\ prog \in V1s \union V2s => prog \notin V3s /\ prog \notin Lates
  BY Known
<1>1. CASE Destroy
  <2>1. pc = "destroy" /\ pc' = After(text.main, pc)
    BY <1>1 DEF Destroy, MainAt, Advance, Goto
  <2>2. prog \notin V1s \union V2s
    BY <1>0, <2>1 DEF PcInv, V1Labels, V2Labels
  <2>3. pc' = "usr1"
    BY <1>0, <2>1, <2>2, Classes, MainFlow
  <2> QED BY <2>1, <2>2, <2>3 DEF PostDestroy, Enqueue, MainAt
<1>2. CASE destroyed
  <2>1. pc \in PostDestroy /\ prog \in V3s \union Lates
    BY <1>0, <1>2, SchedFacts, Classes DEF SchedInv
  <2>2. pc # "dispatch" /\ ~Enqueue
    BY <2>1 DEF PostDestroy, Enqueue, MainAt
  <2>3. pc' = pc \/ (pc # "return" /\ pc' = After(text.main, pc))
    BY <2>1 DEF Main, Options, Quantum, Open, Establish, Clamp, Ticks, CreateQueue, ReadAndFork, Record,
        Enqueue, Leave, Bump, Count, ReapTest, ReapWait, ReapLoad, ReapStore, ReapAt, Reaping, Sub, Close, SetTimer, Dispatch, Pause, Destroy, Round,
        Return, MainAt, PostDestroy, Advance, Goto, End, SignalOf, SignalSent
  <2>4. prog \in V3s => pc \in {"usr1", "stop", "cont", "return"}
    BY <1>0, <2>1 DEF PostDestroy, PcInv, V3Labels
  <2>5. pc' \in PostDestroy
    BY <1>0, <2>1, <2>3, <2>4, MainFlow DEF PostDestroy
  <2> QED BY <1>0, <2>1, <2>2, <2>5
<1> QED BY <1>1, <1>2

\* A step of main.
LEMMA SchedMain == ASSUME Inv, Main PROVE SchedInv'
<1>0. /\ prog' = prog /\ current_process' = current_process /\ [Next]_vars
      /\ Queued' => prog \in V3s
  BY MainKeeps DEF Next, Thread, Queued
<1>1. /\ Enqueue => ~Queued /\ Queued' /\ prog \in V3s
      /\ ~Enqueue => Queued' = Queued
  BY QueuedMain
<1>2. /\ chld = NoFrame /\ alrm = NoFrame /\ call = NoFrame /\ alrm' = NoFrame
      /\ call' = NoFrame \/ call'.at = "tick"
      /\ call' = NoFrame \/ pc = "dispatch"
  BY MainFrames
<1>3. /\ Twice(alrm) = 0 /\ Twice(call) = 0 /\ Twice(alrm') = 0 /\ Twice(call') = 0
      /\ alrm'.at \notin UsePcs \union {"next"} /\ call'.at \notin UsePcs
  BY <1>2 DEF Twice, NoFrame, UsePcs
<1>4. /\ destroyed' = destroyed \/ (Destroy /\ destroyed')
      /\ ~Enqueue => ready_queue' = ready_queue
  BY DEF Main, Options, Quantum, Open, Establish, Clamp, Ticks, CreateQueue, ReadAndFork, Record,
        Enqueue, Leave, Bump, Count, ReapTest, ReapWait, ReapLoad, ReapStore, Close, SetTimer, Dispatch, Pause, Destroy, Round,
        Return, schedvars
<1>5. destroyed' => call'.at = "none" /\ pc' \in PostDestroy /\ prog' \notin V1s \union V2s
  <2> SUFFICES ASSUME destroyed' PROVE call'.at = "none" /\ pc' \in PostDestroy /\ prog' \notin V1s \union V2s
    OBVIOUS
  <2>1. destroyed \/ Destroy
    BY <1>4
  <2>2. pc' \in PostDestroy /\ prog \notin V1s \union V2s /\ pc # "dispatch"
    BY <2>1, AfterDestroy
  <2> QED BY <1>0, <1>2, <2>2 DEF NoFrame
<1>6. prog \in V3s /\ pc' = "enqueue" => pcb_arr'[1].alive
  <2> SUFFICES ASSUME prog \in V3s, pc' = "enqueue" PROVE pcb_arr'[1].alive
    OBVIOUS
  <2>1. Record
    BY ToEnqueue
  <2>2. pcount = 0
    BY Known DEF CountInv
  <2> QED BY <2>1, <2>2, RecordTable
<1> HIDE DEF Queued, Twice
<1>7. CASE Enqueue
  <2>1. pc = "enqueue" /\ pcount = 0 /\ ready_queue' = Append(ready_queue, pcount + 1) /\ pcb_arr' = pcb_arr
    BY <1>1, <1>7, Known DEF Enqueue, MainAt, CountInv, procvars
  <2>2. ready_queue = <<>> /\ current_process = 0 /\ pcb_arr[1].alive
    BY <1>1, <1>7, <2>1, SchedFacts DEF SchedInv
  <2>3. ready_queue' = <<1>>
    BY <2>1, <2>2
  <2>4. Len(ready_queue') = 1 /\ \A i \in 1..Len(ready_queue') : ready_queue'[i] = 1
    BY <2>3
  <2>5. Queued'
    BY <1>1, <1>7
  <2> HIDE DEF alrm, call
  <2> QED BY <1>0, <1>3, <1>5, <1>6, <2>1, <2>2, <2>4, <2>5 DEF SchedInv
<1>8. CASE ~Enqueue
  <2>1. Queued => pcb_arr'[1].alive
    <3> SUFFICES ASSUME Queued PROVE pcb_arr'[1].alive
      OBVIOUS
    <3>1. ~Record
      BY DEF Queued, Record, MainAt
    <3> QED BY <1>0, <3>1, AliveKept, SchedFacts DEF SchedInv
  <2>2. ~destroyed' => ~destroyed
    BY <1>4
  <2>3. PICK n \in Nat : n = Len(ready_queue)
    BY SchedFacts
  <2>4. /\ n <= 2
        /\ ~destroyed => n + (IF current_process = 0 THEN 0 ELSE 1) = (IF Queued THEN 1 ELSE 0)
    BY <1>3, <2>3, SchedFacts DEF SchedInv
  <2>5. /\ ~Queued => current_process = 0 /\ ready_queue = <<>>
        /\ Queued => current_process \in {0, 1} /\ \A i \in 1..Len(ready_queue) : ready_queue[i] = 1
    BY SchedFacts DEF SchedInv
  <2>6. Len(ready_queue') = n /\ Queued' = Queued /\ ready_queue' = ready_queue
    BY <1>1, <1>4, <1>8, <2>3
  <2>7. ~destroyed' => Len(ready_queue') + (IF current_process' = 0 THEN 0 ELSE 1)
                     = (IF Queued' THEN 1 ELSE 0) + Twice(alrm') + Twice(call')
    BY <1>0, <1>3, <2>2, <2>4, <2>6
  <2> HIDE DEF alrm, call
  <2> QED BY <1>0, <1>3, <1>5, <1>6, <2>1, <2>4, <2>5, <2>6, <2>7 DEF SchedInv
<1> QED BY <1>7, <1>8

\* The queue and current_process: every step keeps the balance.
LEMMA SchedStep == ASSUME Inv, [Next]_vars PROVE SchedInv'
<1>1. CASE Main
  BY <1>1, SchedMain
<1>2. CASE Handler
  BY <1>2, SchedHandler
<1>3. CASE TimerFires \/ (\E sig \in {"CHLD", "ALRM"} : Deliver(sig)) \/ (\E p \in Pids : Child(p)) \/ vars' = vars
  <2>0. UNCHANGED <<pc, prog, pcb_arr, ready_queue, destroyed, current_process>>
    BY <1>3, OthersKeep DEF mainvars, setupvars, procvars, schedvars
  <2>1. CASE Main \/ Handler
    BY <1>1, <1>2, <2>1
  <2>2. CASE ~Main /\ ~Handler
    <3>1. Queued' = Queued
      BY <2>2, QueuedOther
    <3>2. CASE frames' = frames
      <4>1. alrm' = alrm /\ call' = call
        BY <2>0, <3>2, FramesSame
      <4> HIDE DEF Queued
      <4> QED BY <2>0, <3>1, <4>1, SchedFacts, SchedStays DEF SchedInv
    <3>3. ASSUME NEW sig \in {"CHLD", "ALRM"}, Deliver(sig) PROVE SchedInv'
      <4>1. \/ alrm' = alrm /\ call' = call
            \/ alrm = NoFrame /\ alrm'.at = "tick" /\ call' = call
        BY <3>3, Known, Pushed
      <4> HIDE DEF Queued
      <4>2. CASE alrm' = alrm /\ call' = call
        BY <2>0, <3>1, <4>2, SchedFacts, SchedStays DEF SchedInv
      <4>3. CASE alrm = NoFrame /\ alrm'.at = "tick" /\ call' = call
        <5>1. /\ alrm'.at \notin UsePcs \union {"next", "none"} /\ Twice(alrm') = 0 /\ Twice(alrm) = 0
              /\ Twice(call') = Twice(call)
          BY <4>3 DEF UsePcs, Twice, NoFrame
        <5> HIDE DEF Twice
        <5> QED BY <2>0, <3>1, <4>3, <5>1, SchedFacts DEF SchedInv
      <4> QED BY <4>1, <4>2, <4>3
    <3> QED BY <1>3, <3>2, <3>3 DEF TimerFires, Child, TakeUsr1, Exec, Exit, ChildOnly, vars, kernelvars
  <2> QED BY <2>1, <2>2
<1> QED BY <1>1, <1>2, <1>3, Kinds

-----------------------------------------------------------------------------
(* The gate. *)

\* The gate of one child, and the statements before it is opened.
Gate(c) == c.st \in {"runs", "zombie", "reaped"} => c.seen
Shut(c) == ~c.usr1 /\ ~c.seen
V2Closed == SetupLabels \union {"read", "record", "bump", "count"}
V3Closed == SetupLabels \union {"read", "record"}

\* GateInv, child by child.
LEMMA GateKnown ==
  ASSUME Inv, prog \in V3s \union {"v2"}
  PROVE  /\ \A p \in Pids : child[p] \in ChildRec /\ Gate(child[p])
         /\ prog = "v2" => V2Gate
         /\ prog \in V3s => V3Gate
         /\ text.gated /\ prog # "v1"
<1>1. GateInv /\ KernelTypes /\ prog \in ProgramNames
  BY Known
<1>2. text.gated /\ prog # "v1"
  BY <1>1, TextOf DEF V3s
<1> QED BY <1>1, <1>2 DEF GateInv, KernelTypes, Gate

\* GateInv after a step, from its parts.
LEMMA GateIs ==
  ASSUME \A p \in Pids : Gate(child'[p]), (prog = "v2" => V2Gate)', (prog \in V3s => V3Gate)'
  PROVE  GateInv'
BY DEF GateInv, Gate

\* Only SIGUSR1 opens the gate.
LEMMA SignalledGate ==
  ASSUME NEW c \in ChildRec, Gate(c), NEW sig \in {"USR1", "STOP", "CONT"}
  PROVE  Gate(Signalled(c, sig)) /\ (sig # "USR1" => (Shut(c) => Shut(Signalled(c, sig))))
<1>1. CASE c.st \notin {"forked", "runs"}
  BY <1>1 DEF Signalled
<1>2. CASE c.st \in {"forked", "runs"} /\ sig = "USR1"
  <2>1. Signalled(c, sig) = [c EXCEPT !.usr1 = TRUE]
    BY <1>2 DEF Signalled
  <2> QED BY <1>2, <2>1 DEF ChildRec, Gate, Shut
<1>3. CASE c.st \in {"forked", "runs"} /\ sig = "STOP"
  <2>1. Signalled(c, sig) = [c EXCEPT !.stopped = TRUE]
    BY <1>3 DEF Signalled
  <2> QED BY <1>3, <2>1 DEF ChildRec, Gate, Shut
<1>4. CASE c.st \in {"forked", "runs"} /\ sig = "CONT"
  <2>1. Signalled(c, sig) = [c EXCEPT !.stopped = FALSE]
    BY <1>4 DEF Signalled
  <2> QED BY <1>4, <2>1 DEF ChildRec, Gate, Shut
<1> QED BY <1>1, <1>2, <1>3, <1>4

\* A step that opens no gate and makes nobody carry SIGUSR1.
LEMMA GateStays ==
  ASSUME Inv, prog' = prog,
         prog \in V3s \union {"v2"} => \A p \in Pids : Gate(child'[p]) /\ (Shut(child[p]) => Shut(child'[p])),
         prog \in V3s => \A p \in Pids : pcb_arr'[p].send_usr1 = pcb_arr[p].send_usr1,
         prog \in V3s => /\ Carries(alrm') => Carries(alrm)
                         /\ Carries(call') => Carries(call)
                         /\ alrm'.at = "clear" => alrm.at = "clear",
         prog = "v2" => (pc' \in V2Closed => pc \in V2Closed) /\ (pc' = "usr1" => pc \in V2Closed \/ (pc = "usr1" /\ k' = k)),
         prog \in V3s => (pc' \in V3Closed => pc \in V3Closed)
  PROVE  GateInv'
<1> SUFFICES ASSUME prog \in V3s \union {"v2"} PROVE GateInv'
  BY DEF GateInv
<1>1. ASSUME prog = "v2" PROVE V2Gate'
  <2>1. V2Gate
    BY <1>1, GateKnown
  <2> QED BY <1>1, <2>1 DEF V2Gate, V2Closed, Shut, Unsent
<1>2. ASSUME prog \in V3s PROVE V3Gate'
  <2>1. V3Gate
    BY <1>2, GateKnown
  <2> HIDE DEF alrm, call, Carries
  <2> QED BY <1>2, <2>1 DEF V3Gate, V3Closed, Shut, Unsent
<1> QED BY <1>1, <1>2, GateIs

\* Every command waits at the gate until SIGUSR1 came.
LEMMA GateChild == ASSUME Inv, NEW p \in Pids, Child(p) PROVE GateInv'
<1>0. KernelTypes /\ CountInv
  BY Known
<1>1. UNCHANGED <<prog, pc, k, pcb_arr, frames>>
  BY DEF Child, TakeUsr1, Exec, Exit, ChildOnly, mainvars, setupvars, procvars
<1>2. alrm' = alrm /\ call' = call
  BY <1>1, FramesSame
<1> SUFFICES ASSUME prog \in V3s \union {"v2"} PROVE GateInv'
  BY <1>1 DEF GateInv
<1>3. Gate(child[p]) /\ child[p] \in ChildRec /\ text.gated
  BY GateKnown
<1>4. /\ \A q \in Pids : q # p => child'[q] = child[q]
      /\ \/ child[p].usr1 /\ child'[p] = [child[p] EXCEPT !.usr1 = FALSE, !.seen = TRUE]
         \/ child[p].usr1 /\ child[p].st = "runs"
            /\ child'[p] = [child[p] EXCEPT !.st = "zombie", !.usr1 = FALSE, !.died = "USR1"]
         \/ (text.gated => child[p].seen) /\ child'[p] = [child[p] EXCEPT !.st = "runs"] /\ child[p].st = "forked"
         \/ (text.gated => child[p].seen) /\ child'[p] = [child[p] EXCEPT !.st = "zombie", !.usr1 = FALSE, !.died = "exec"]
         \/ child[p].st = "runs" /\ child'[p] = [child[p] EXCEPT !.st = "zombie", !.usr1 = FALSE, !.died = "exit"]
  BY <1>0, ChildMoved
<1>5. CASE child[p].usr1 /\ child'[p] = [child[p] EXCEPT !.usr1 = FALSE, !.seen = TRUE]
  <2>1. Gate(child'[p]) /\ ~Shut(child[p])
    BY <1>3, <1>5 DEF Gate, Shut, ChildRec
  <2> QED BY <1>1, <1>2, <1>4, <2>1, GateKnown, GateStays
<1>6. CASE child[p].st = "runs" /\ child'[p] = [child[p] EXCEPT !.st = "zombie", !.usr1 = FALSE, !.died = "USR1"]
  <2>1. Gate(child'[p]) /\ ~Shut(child[p])
    BY <1>3, <1>6 DEF Gate, Shut, ChildRec
  <2> QED BY <1>1, <1>2, <1>4, <2>1, GateKnown, GateStays
<1>7. CASE child[p].seen /\ child'[p] = [child[p] EXCEPT !.st = "runs"]
  <2>1. Gate(child'[p]) /\ ~Shut(child[p])
    BY <1>3, <1>7 DEF Gate, Shut, ChildRec
  <2> QED BY <1>1, <1>2, <1>4, <2>1, GateKnown, GateStays
<1>8. CASE child[p].seen /\ child'[p] = [child[p] EXCEPT !.st = "zombie", !.usr1 = FALSE, !.died = "exec"]
  <2>1. Gate(child'[p]) /\ ~Shut(child[p])
    BY <1>3, <1>8 DEF Gate, Shut, ChildRec
  <2> QED BY <1>1, <1>2, <1>4, <2>1, GateKnown, GateStays
<1>9. CASE child[p].st = "runs" /\ child'[p] = [child[p] EXCEPT !.st = "zombie", !.usr1 = FALSE, !.died = "exit"]
  <2>1. Gate(child'[p]) /\ ~Shut(child[p])
    BY <1>3, <1>9 DEF Gate, Shut, ChildRec
  <2> QED BY <1>1, <1>2, <1>4, <2>1, GateKnown, GateStays
<1> QED BY <1>3, <1>4, <1>5, <1>6, <1>7, <1>8, <1>9

\* A reaping opens no gate.
LEMMA ReapedGate ==
  ASSUME Inv, prog \in V3s \union {"v2"}, NEW p \in Pids, child[p].st = "zombie", ReapedOne(p)
  PROVE  \A q \in Pids : Gate(child'[q]) /\ (Shut(child[q]) => Shut(child'[q]))
<1>1. child'[p] = [child[p] EXCEPT !.st = "reaped"] /\ \A q \in Pids : q # p => child'[q] = child[q]
  BY Known, OneReaped
<1>2. Gate(child'[p]) /\ (Shut(child[p]) => Shut(child'[p]))
  BY <1>1, GateKnown DEF Gate, Shut, ChildRec
<1> QED BY <1>1, <1>2, GateKnown

\* Each step of a handler: Clear takes the flag, Resume sends what it stands for.
LEMMA GateHandler == ASSUME Inv, Handler PROVE GateInv'
<1>0. /\ KernelTypes /\ frames # <<>> /\ prog' = prog /\ pc' = pc /\ k' = k
      /\ prog \in V3s \union Lates
      /\ [Next]_vars /\ ~Record
  BY Known, HandlerKeeps, Handling, MainKeeps DEF Next, Thread, Record, MainAt
<1> SUFFICES ASSUME prog \in V3s PROVE GateInv'
  <2>1. prog = "v2" => prog \notin V3s /\ prog \notin Lates
    BY DEF V3s, Lates
  <2> QED BY <1>0, <2>1 DEF GateInv
<1>1. V3Gate /\ \A p \in Pids : child[p] \in ChildRec /\ Gate(child[p])
  BY GateKnown
<1>2. prog # "v2"
  BY DEF V3s
<1>3. CASE Reap
  <2>1. alrm' = alrm /\ call' = call
    BY <1>3, ReapFrames
  <2>2. pcb_arr' = pcb_arr
    BY <1>3 DEF Reap
  <2>3. CASE child' = child
    BY <1>0, <1>1, <1>2, <2>1, <2>2, <2>3, GateStays
  <2>4. CASE \E p \in Pids : child[p].st = "zombie" /\ ReapedOne(p)
    BY <1>0, <1>2, <2>1, <2>2, <2>4, ReapedGate, GateStays
  <2> QED BY <1>3, <2>3, <2>4, ReapFrames
<1>4. CASE Mark
  <2>1. alrm' = alrm /\ call' = call
    BY <1>4, MarkFrames
  <2>2. pcb_arr' = pcb_arr /\ child' = child
    BY <1>4, MarkTable DEF Mark
  <2> QED BY <1>0, <1>1, <1>2, <2>1, <2>2, GateStays
<1>5. ASSUME NEW r, NEW s, NEW l, NEW m \in (AlarmLabels \ {"clear", "resume"}) \union {"none"}, Moves(l, r, m, s)
      PROVE  /\ Carries(alrm') => Carries(alrm)
             /\ Carries(call') => Carries(call)
             /\ alrm'.at # "clear"
  <2>1. "none" # "resume" /\ NoFrame.at # "resume" /\ "none" # "clear" /\ NoFrame.at # "clear"
    BY DEF NoFrame
  <2> QED BY <1>5, <2>1 DEF Moves, Carries
<1>6. CASE Tick \/ TickAlive \/ Spend \/ Spent \/ TestAlive \/ Refill
  <2>1. child' = child /\ \A i \in Pids : pcb_arr'[i].send_usr1 = pcb_arr[i].send_usr1
    BY <1>6, TickTable DEF Tick, TickAlive, Spend, Spent, TestAlive, Refill
  <2>2. /\ Carries(alrm') => Carries(alrm)
        /\ Carries(call') => Carries(call)
        /\ alrm'.at # "clear"
    <3>1. {"alive", "spend", "spent", "preempt", "next", "drop", "refill", "choose", "none"}
            \subseteq (AlarmLabels \ {"clear", "resume"}) \union {"none"}
      BY DEF AlarmLabels
    <3>2. PICK m, l, r, s : m \in (AlarmLabels \ {"clear", "resume"}) \union {"none"} /\ Moves(l, r, m, s)
      BY <1>6, <3>1, TickFrames, TickAliveFrames, SpendFrames, SpentFrames, TestFrames, RefillFrames
    <3> HIDE DEF alrm, call
    <3> QED BY <1>5, <3>2
  <2> QED BY <1>0, <1>1, <1>2, <2>1, <2>2, GateStays
<1>7. CASE Show \/ Drop \/ NextReady \/ Preempt \/ Requeue
  <2>1. pcb_arr' = pcb_arr
    BY <1>7 DEF Show, Drop, NextReady, Preempt, Requeue
  <2>2. /\ Carries(alrm') => Carries(alrm)
        /\ Carries(call') => Carries(call)
        /\ alrm'.at # "clear"
    <3>1. {"drop", "next", "test", "show", "requeue", "none"} \subseteq (AlarmLabels \ {"clear", "resume"}) \union {"none"}
      BY DEF AlarmLabels
    <3>2. PICK m, l, r, s : m \in (AlarmLabels \ {"clear", "resume"}) \union {"none"} /\ Moves(l, r, m, s)
      BY <1>7, <3>1, ShowFrames, DropFrames, NextFrames, PreemptFrames, RequeueFrames
    <3> HIDE DEF alrm, call
    <3> QED BY <1>5, <3>2
  <2>3. \A p \in Pids : Gate(child'[p]) /\ (Shut(child[p]) => Shut(child'[p]))
    <3>1. CASE child' = child
      BY <1>1, <3>1
    <3>2. CASE Preempt
      <4>1. Kill(current.pid, "STOP")
        BY <3>2 DEF Preempt
      <4>2. \A q \in Pids : child'[q] = IF q = current.pid THEN Signalled(child[q], "STOP") ELSE child[q]
        BY <1>0, <4>1, Killed
      <4> QED BY <1>1, <4>2, SignalledGate
    <3> QED BY <1>7, <3>1, <3>2 DEF Show, Drop, NextReady, Requeue
  <2> QED BY <1>0, <1>2, <2>1, <2>2, <2>3, GateStays
<1>8. ASSUME NEW r, NEW s, NEW l \in {"choose", "clear", "resume"}, NEW m, Moves(l, r, m, s)
      PROVE  current_process = 1 /\ Queued /\ 1 \in Pids /\ pc \notin V3Closed /\ pcb_arr[1].pid = 1
  <2>1. l \in UsePcs /\ l \in AlarmLabels
    BY DEF UsePcs, AlarmLabels
  <2>2. current_process = 1 /\ Queued
    BY <1>8, <2>1, SchedAt
  <2>3. CountInv /\ 1 \in Pids /\ Forked = 1 /\ pc # "record"
    BY <2>2, Known, SchedFacts DEF Queued
  <2>4. pc \notin V3Closed /\ pcb_arr[1].pid = 1
    <3> HIDE DEF Forked
    <3> QED BY <2>3 DEF CountInv, V3Closed
  <2> QED BY <2>2, <2>3, <2>4
<1>9. CASE Choose
  <2>1. child' = child /\ pcb_arr' = pcb_arr
    BY <1>9 DEF Choose
  <2>2. PICK r : \/ pcb_arr[current_process].send_usr1 /\ Moves("choose", r, "clear", r)
                 \/ ~pcb_arr[current_process].send_usr1 /\ Moves("choose", r, "resume", "CONT")
    BY <1>9, ChooseFrames
  <2>3. CASE pcb_arr[current_process].send_usr1 /\ Moves("choose", r, "clear", r)
    <3>1. current_process = 1 /\ 1 \in Pids /\ pc \notin V3Closed
      BY <1>8, <2>3
    <3>2. (Carries(alrm') => Carries(alrm)) /\ (Carries(call') => Carries(call))
      BY <2>3 DEF Moves, Carries, NoFrame
    <3>3. V3Gate'
      <4> HIDE DEF alrm, call, Carries
      <4> QED BY <1>0, <1>1, <2>1, <2>3, <3>1, <3>2 DEF V3Gate, V3Closed, Unsent
    <3> QED BY <1>0, <1>1, <1>2, <2>1, <3>3, GateIs
  <2>4. CASE Moves("choose", r, "resume", "CONT")
    <3>1. /\ Carries(alrm') => Carries(alrm)
          /\ Carries(call') => Carries(call)
          /\ alrm'.at # "clear"
      BY <2>4 DEF Moves, Carries, NoFrame
    <3> QED BY <1>0, <1>1, <1>2, <2>1, <3>1, GateStays
  <2> QED BY <2>2, <2>3, <2>4
<1>10. CASE Clear
  <2>1. PICK r : Moves("clear", r, "resume", "USR1")
    BY <1>10, ClearFrames
  <2>2. current_process = 1 /\ 1 \in Pids /\ pc \notin V3Closed
    BY <1>8, <2>1
  <2>3. child' = child /\ ~pcb_arr'[1].send_usr1
    BY <1>10, <2>2, ClearTable DEF Clear, ClearTo
  <2>4. alrm'.at # "clear" /\ (alrm.at = "clear" \/ ~Carries(alrm'))
    BY <2>1 DEF Moves, Carries, NoFrame
  <2>5. Carries(alrm') => Unsent(1)
    <3> HIDE DEF alrm, call, Carries
    <3> QED BY <1>1, <2>2, <2>4 DEF V3Gate
  <2>6. V3Gate'
    <3> HIDE DEF alrm, call, Carries
    <3> QED BY <1>0, <2>2, <2>3, <2>4, <2>5 DEF V3Gate, V3Closed, Unsent
  <2> QED BY <1>0, <1>1, <1>2, <2>3, <2>6, GateIs
<1>11. CASE Resume
  <2>1. Moves("resume", top.sig, "none", "none") /\ top.sig \in {"USR1", "CONT"}
    BY <1>11, ResumeFrames
  <2>2. PICK r \in {"USR1", "CONT"} : r = top.sig
    BY <2>1
  <2>3. Moves("resume", r, "none", "none")
    BY <2>1, <2>2
  <2>4. current_process = 1 /\ 1 \in Pids /\ pc \notin V3Closed /\ pcb_arr[1].pid = 1
    BY <1>8, <2>3
  <2>5. pcb_arr' = pcb_arr /\ Kill(1, r)
    BY <1>11, <2>2, <2>4 DEF Resume, current
  <2>6. \A q \in Pids : child'[q] = IF q = 1 THEN Signalled(child[q], r) ELSE child[q]
    BY <1>0, <2>5, Killed
  <2>7. /\ ~Carries(alrm') /\ alrm'.at # "clear"
        /\ Carries(call') => Carries(call)
        /\ r = "USR1" => Carries(alrm) \/ Carries(call)
    BY <2>3 DEF Moves, Carries, NoFrame
  <2> HIDE DEF alrm, call, Carries
  <2>8. r = "USR1" => ~pcb_arr[1].send_usr1
    BY <1>1, <2>4, <2>7 DEF V3Gate
  <2>9. \A p \in Pids : Gate(child'[p])
    BY <1>1, <2>4, <2>6, SignalledGate
  <2>10. CASE r = "USR1"
    <3>1. V3Gate'
      BY <1>0, <2>4, <2>5, <2>7, <2>8, <2>10 DEF V3Gate, V3Closed
    <3> QED BY <1>0, <1>2, <2>9, <3>1, GateIs
  <2>11. CASE r = "CONT"
    <3>1. \A p \in Pids : Shut(child[p]) => Shut(child'[p])
      BY <1>1, <2>4, <2>6, <2>11, SignalledGate
    <3> QED BY <1>0, <1>2, <2>5, <2>7, <2>9, <3>1, GateStays
  <2> QED BY <2>10, <2>11
<1> QED BY <1>3, <1>4, <1>6, <1>7, <1>9, <1>10, <1>11 DEF Handler

\* Where main may be while the gate is shut.
LEMMA GatePlace ==
  ASSUME Inv, Main
  PROVE  /\ prog = "v2" => /\ pc' \in V2Closed => pc \in V2Closed
                           /\ pc' = "usr1" => pc \in V2Closed \/ pc = "usr1"
         /\ prog \in V3s => (pc' \in V3Closed => pc \in V3Closed)
<1>0. prog \in ProgramNames /\ PcInv
  BY Known
<1>1. CASE pc \in SetupLabels
  BY <1>1 DEF V2Closed, V3Closed
<1>2. CASE pc \in {"enqueue", "leave"}
  <2>1. pc' \in {"leave", "count"} /\ prog # "v2"
    <3>1. prog # "v2"
      BY <1>0, <1>2 DEF PcInv, V2s, V2Labels
    <3>2. pc = "enqueue" => prog \in V3s
      BY <1>0, <1>2, Classes DEF PcInv, V1Labels, V2Labels, LateLabels
    <3>3. CASE pc = "enqueue"
      <4>1. Enqueue
        BY <3>3 DEF Main, Options, Quantum, Open, Establish, Clamp, Ticks, CreateQueue, ReadAndFork, Record,
          Leave, Bump, Count, ReapTest, ReapWait, ReapLoad, ReapStore, ReapAt, Reaping, Close, SetTimer, Dispatch, Pause, Destroy, Round,
          Return, MainAt, SignalOf, SignalSent
      <4> QED BY <1>0, <3>1, <3>2, <3>3, <4>1, MainFlow DEF Enqueue, Advance, Goto
    <3>4. CASE pc = "leave"
      <4>1. Leave
        BY <3>4 DEF Main, Options, Quantum, Open, Establish, Clamp, Ticks, CreateQueue, ReadAndFork, Record,
          Enqueue, Bump, Count, ReapTest, ReapWait, ReapLoad, ReapStore, ReapAt, Reaping, Close, SetTimer, Dispatch, Pause, Destroy, Round,
          Return, MainAt, SignalOf, SignalSent
      <4> QED BY <3>1, <4>1 DEF Leave, Goto
    <3> QED BY <1>2, <3>3, <3>4
  <2>2. {"leave", "count"} \intersect V3Closed = {}
    BY DEF V3Closed, SetupLabels
  <2> QED BY <2>1, <2>2
<1>3. CASE pc = "record"
  <2>1. pc' = After(text.main, pc)
    BY <1>3 DEF Main, Options, Quantum, Open, Establish, Clamp, Ticks, CreateQueue, ReadAndFork, Record,
      Enqueue, Leave, Bump, Count, ReapTest, ReapWait, ReapLoad, ReapStore, ReapAt, Reaping, Close, SetTimer, Dispatch, Pause, Destroy, Round,
      Return, MainAt, SignalOf, SignalSent, Advance, Goto
  <2>2. prog = "v2" => pc \in V2Closed
    BY <1>3 DEF V2Closed
  <2>3. prog \in V3s => pc \in V3Closed
    BY <1>3 DEF V3Closed
  <2> QED BY <2>2, <2>3
<1>4. CASE pc \in {"read", "bump", "count"}
  <2>1. prog \in V3s => pc # "bump"
    BY <1>0 DEF PcInv, V3Labels
  <2>2. pc \in V2Closed /\ (pc = "read" => pc \in V3Closed)
    BY <1>4 DEF V2Closed, V3Closed
  <2>3. prog \in V3s /\ pc = "count" => pc' \notin V3Closed
    <3> SUFFICES ASSUME prog \in V3s, pc = "count" PROVE pc' \notin V3Closed
      OBVIOUS
    <3>1. pc' \notin SetupLabels \union Building
      BY Beyond DEF SetupLabels, Building
    <3> QED BY <3>1 DEF V3Closed, Building
  <2> QED BY <1>4, <2>1, <2>2, <2>3
<1>5. CASE pc \notin SetupLabels \union Building \union {"count"}
  <2>1. pc' \notin SetupLabels \union Building
    BY <1>5, Beyond
  <2>2. prog = "v2" => pc' # "count" /\ (pc' = "usr1" => pc = "usr1")
    <3> SUFFICES ASSUME prog = "v2" PROVE pc' # "count" /\ (pc' = "usr1" => pc = "usr1")
      OBVIOUS
    <3>1. prog \in V2s /\ prog \notin V1s /\ prog \notin V3s
      BY DEF V1s, V2s, V3s
    <3>2. pc \in {"usr1", "stop", "cont", "reap1", "close1", "return"}
      BY <1>0, <1>5, <3>1 DEF PcInv, V2Labels, SetupLabels, Building
    <3>3. pc' = pc \/ (pc # "return" /\ pc' = After(text.main, pc))
      BY <3>2 DEF Main, Options, Quantum, Open, Establish, Clamp, Ticks, CreateQueue, ReadAndFork, Record,
        Enqueue, Leave, Bump, Count, ReapTest, ReapWait, ReapLoad, ReapStore, ReapAt, Reaping, Sub, Close, SetTimer, Dispatch, Pause, Destroy,
        Round, Return, MainAt, Advance, Goto, End, SignalOf, SignalSent
    <3> QED BY <1>0, <3>1, <3>2, <3>3, MainFlow
  <2> QED BY <2>1, <2>2 DEF V2Closed, V3Closed, Building
<1> QED BY <1>1, <1>2, <1>3, <1>4, <1>5 DEF Building

\* A round of signals: in uspsv2 entry k is the child of pid k.
LEMMA GateRound == ASSUME Inv, Round PROVE GateInv'
<1>0. /\ Main /\ CountInv /\ KernelTypes /\ MainTypes /\ DataTypes /\ MaxLines \in Nat /\ prog \in ProgramNames /\ PcInv
      /\ prog' = prog /\ pcb_arr' = pcb_arr
      /\ prog = "v2" => prog \in V2s /\ prog \notin V3s /\ prog \notin V1s
  BY Known, MainKeeps DEF Main, Round, procvars, V1s, V2s, V3s
<1>1. /\ alrm = NoFrame /\ call = NoFrame /\ alrm' = NoFrame /\ (call' = NoFrame \/ call'.at = "tick")
      /\ ~Carries(alrm) /\ ~Carries(call) /\ ~Carries(alrm') /\ ~Carries(call') /\ alrm'.at # "clear"
  BY <1>0, MainFrames DEF NoFrame, Carries
<1> HIDE DEF alrm, call
<1>2. CASE child' = child /\ ~(k <= pcount /\ prog = "v2")
  <2>1. prog = "v2" => pc' # "usr1"
    <3> SUFFICES ASSUME prog = "v2" PROVE pc' # "usr1"
      OBVIOUS
    <3>1. pc \in {"usr1", "stop", "cont"} /\ pc' = After(text.main, pc)
      BY <1>0, <1>2 DEF Round, SignalSent, MainAt, Advance, Goto, MainTypes, DataTypes
    <3> QED BY <1>0, <3>1, MainFlow
  <2> QED BY <1>0, <1>1, <1>2, <2>1, GatePlace, GateKnown, GateStays
<1>3. CASE prog \in V3s
  <2>1. pcount = 0 /\ k \in 1..MaxLines + 1
    BY <1>0, <1>3 DEF CountInv, MainTypes
  <2>2. child' = child
    BY <2>1 DEF Round
  <2>3. prog # "v2"
    BY <1>0, <1>3
  <2> QED BY <1>2, <2>2, <2>3
<1>4. CASE prog = "v2" /\ k <= pcount
  <2>1. PICK l \in DOMAIN SignalSent : MainAt(l) /\ Kill(pcb_arr[k].pid, SignalSent[l]) /\ k' = k + 1 /\ pc' = pc
    BY <1>4 DEF Round
  <2>2. pc = l /\ l \in {"usr1", "stop", "cont"} /\ SignalSent[l] \in {"USR1", "STOP", "CONT"}
        /\ (SignalSent[l] = "USR1" => pc = "usr1") /\ (pc = "usr1" => SignalSent[l] = "USR1")
    BY <2>1 DEF MainAt, SignalSent
  <2>3. k \in Pids /\ pcb_arr[k].pid = k
    <3>1. pcount = Forked
      BY <1>0, <1>4, <2>2 DEF CountInv
    <3>2. k \in Pids
      BY <1>0, <1>4 DEF MainTypes, DataTypes, Pids
    <3> HIDE DEF Forked
    <3> QED BY <1>0, <1>4, <2>2, <3>1, <3>2 DEF CountInv
  <2>4. \A q \in Pids : child'[q] = IF q = k THEN Signalled(child[q], SignalSent[l]) ELSE child[q]
    BY <1>0, <2>1, <2>2, <2>3, Killed
  <2>5. V2Gate
    BY <1>4, GateKnown
  <2>7. \A q \in Pids : Gate(child'[q])
    BY <1>4, <2>2, <2>3, <2>4, GateKnown, SignalledGate
  <2>8. V2Gate'
    <3>1. pc \notin V2Closed
      BY <2>2 DEF V2Closed, SetupLabels
    <3>2. ASSUME NEW p \in Pids, pc' \in V2Closed \/ (pc' = "usr1" /\ p >= k') PROVE Unsent(p)'
      <4>1. pc = "usr1" /\ p >= k + 1 /\ p # k /\ p >= k
        BY <1>0, <2>1, <2>3, <3>1, <3>2 DEF MainTypes, Pids
      <4>2. Unsent(p) /\ child'[p] = child[p]
        BY <2>4, <2>5, <4>1 DEF V2Gate
      <4> QED BY <4>2 DEF Unsent
    <3> QED BY <3>2 DEF V2Gate, V2Closed
  <2> QED BY <1>0, <1>4, <2>7, <2>8, GateIs
<1>5. CASE prog \notin V3s \union {"v2"}
  BY <1>0, <1>5 DEF GateInv
<1>6. CASE prog = "v2" /\ ~(k <= pcount)
  <2>1. child' = child
    BY <1>6 DEF Round
  <2> QED BY <1>2, <1>6, <2>1
<1> QED BY <1>3, <1>4, <1>5, <1>6

\* A fork makes a child with the gate shut.
LEMMA GateFork == ASSUME Inv, ReadAndFork, child' # child PROVE GateInv'
<1>0. /\ Main /\ CountInv /\ KernelTypes /\ DataTypes /\ MaxLines \in Nat /\ prog \in ProgramNames
      /\ prog' = prog /\ pcb_arr' = pcb_arr /\ pc = "read"
  BY Known, MainKeeps DEF Main, ReadAndFork, MainAt
<1>1. /\ ~Carries(alrm') /\ ~Carries(call') /\ alrm'.at # "clear"
  BY <1>0, MainFrames DEF NoFrame, Carries
<1> SUFFICES ASSUME prog \in V3s \union {"v2"} PROVE GateInv'
  BY <1>0 DEF GateInv
<1>2. lines > 0 /\ ForkedOne(NextPid) /\ pc' = "record"
  BY <1>0, MainFlow DEF ReadAndFork, ForkedOne, Advance, Goto
<1>3. Forked < MaxLines
  BY <1>0, <1>2, LeftBound DEF CountInv, DataTypes
<1>4. PICK n \in Pids : /\ child'[n] = [NoChild EXCEPT !.st = "forked"]
                        /\ \A q \in Pids : q # n => child'[q] = child[q]
  BY <1>0, <1>2, <1>3, OneForked
<1>5. Gate(child'[n]) /\ Shut(child'[n])
  BY <1>4 DEF NoChild, Gate, Shut
<1>6. \A p \in Pids : Shut(child[p])
  <2>1. pc \in V2Closed /\ pc \in V3Closed
    BY <1>0 DEF V2Closed, V3Closed
  <2> QED BY <2>1, GateKnown DEF V2Gate, V3Gate, V2Closed, V3Closed, Shut, Unsent
<1>7. \A p \in Pids : Gate(child'[p]) /\ Shut(child'[p])
  BY <1>4, <1>5, <1>6, GateKnown
<1>8. prog = "v2" => V2Gate'
  BY <1>7 DEF V2Gate, Unsent, Shut
<1>9. prog \in V3s => V3Gate'
  <2> SUFFICES ASSUME prog \in V3s PROVE V3Gate'
    OBVIOUS
  <2>1. \A p \in Pids : ~pcb_arr[p].send_usr1
    BY <1>0, GateKnown DEF V3Gate
  <2> HIDE DEF alrm, call, Carries
  <2> QED BY <1>0, <1>1, <1>7, <2>1 DEF V3Gate, Unsent, Shut
<1> QED BY <1>0, <1>7, <1>8, <1>9, GateIs

\* The entry of a new child may ask for one SIGUSR1.
LEMMA GateRecord == ASSUME Inv, Record PROVE GateInv'
<1>0. /\ Main /\ KernelTypes /\ DataTypes /\ MaxLines \in Nat /\ prog \in ProgramNames
      /\ prog' = prog /\ child' = child /\ pc = "record"
  BY Known, MainKeeps DEF Main, Record, kernelvars, MainAt
<1>1. /\ ~Carries(alrm') /\ ~Carries(call') /\ alrm'.at # "clear"
  BY <1>0, MainFrames DEF NoFrame, Carries
<1> SUFFICES ASSUME prog \in V3s \union {"v2"} PROVE GateInv'
  BY <1>0 DEF GateInv
<1>2. \A p \in Pids : Gate(child'[p]) /\ Shut(child'[p])
  <2>1. pc \in V2Closed /\ pc \in V3Closed
    BY <1>0 DEF V2Closed, V3Closed
  <2> QED BY <1>0, <2>1, GateKnown DEF V2Gate, V3Gate, V2Closed, V3Closed, Shut, Unsent
<1>3. prog = "v2" => V2Gate'
  BY <1>2 DEF V2Gate, Unsent, Shut
<1>4. prog \in V3s => V3Gate'
  <2> SUFFICES ASSUME prog \in V3s PROVE V3Gate'
    OBVIOUS
  <2>1. pc' = "enqueue"
    BY <1>0, MainFlow DEF Record, Advance, Goto
  <2>2. pc' \notin SetupLabels \union {"read", "record"}
    BY <2>1 DEF SetupLabels
  <2> HIDE DEF alrm, call, Carries
  <2> QED BY <1>1, <1>2, <2>2 DEF V3Gate, Unsent, Shut
<1> QED BY <1>0, <1>2, <1>3, <1>4, GateIs

\* A step of main.
LEMMA GateMain == ASSUME Inv, Main PROVE GateInv'
<1>0. /\ KernelTypes /\ CountInv /\ PcInv /\ prog' = prog /\ frames = <<>> /\ [Next]_vars
  BY Known, MainKeeps DEF Next, Thread
<1> SUFFICES ASSUME prog \in V3s \union {"v2"}, ~Round, ~Record, ~(ReadAndFork /\ child' # child) PROVE GateInv'
  BY <1>0, GateRound, GateFork, GateRecord DEF GateInv
<1>1. pcb_arr' = pcb_arr
  BY <1>0, TableKept DEF Spent, Refill, Mark, Clear, ClearTo, Scheduling, HandlerAt
<1>2. /\ ~Carries(alrm') /\ ~Carries(call') /\ alrm'.at # "clear"
  BY MainFrames DEF NoFrame, Carries
<1>3. prog = "v2" => prog \in V2s
  BY DEF V2s
<1>4. \A p \in Pids : Gate(child'[p]) /\ (Shut(child[p]) => Shut(child'[p]))
  <2>1. CASE child' = child
    BY <2>1, GateKnown
  <2>2. CASE ReapWait /\ child' # child
    <3>1. PICK p \in Pids : child[p].st = "zombie" /\ ReapedOne(p)
      BY <2>2 DEF ReapWait, ReapedOne
    <3> QED BY <3>1, ReapedGate
  <2>3. CASE SetTimer /\ child' # child
    <3>1. pc = "timer" /\ child' = [p \in Pids |-> IF \E i \in 1..pcount : pcb_arr[i].pid = p
                                                   THEN Signalled(child[p], "KILL") ELSE child[p]]
      BY <2>3 DEF SetTimer, MainAt
    <3>2. prog \in V3s
      BY <1>0, <1>3, <3>1 DEF PcInv, V2Labels
    <3>3. pcount = 0
      BY <1>0, <3>2 DEF CountInv
    <3>4. \A p \in Pids : child'[p] = child[p]
      BY <3>1, <3>3
    <3> QED BY <3>4, GateKnown
  <2> QED BY <2>1, <2>2, <2>3 DEF Main, Options, Quantum, Open, Establish, Clamp, Ticks, CreateQueue,
        Enqueue, Leave, Bump, Count, ReapTest, ReapLoad, ReapStore, Close, Dispatch, Pause, Destroy, Return, kernelvars
<1>5. prog = "v2" /\ pc' = "usr1" => pc \in V2Closed
  <2> SUFFICES ASSUME prog = "v2", pc' = "usr1", pc = "usr1" PROVE FALSE
    BY GatePlace
  <2> QED BY DEF Main, Options, Quantum, Open, Establish, Clamp, Ticks, CreateQueue, ReadAndFork, Record,
        Enqueue, Leave, Bump, Count, ReapTest, ReapWait, ReapLoad, ReapStore, ReapAt, Reaping, Close, SetTimer, Dispatch, Pause, Destroy,
        Return, MainAt, SignalOf
<1> HIDE DEF alrm, call, Carries
<1> QED BY <1>0, <1>1, <1>2, <1>4, <1>5, GatePlace, GateStays

\* The gate: every step keeps it.
LEMMA GateStep == ASSUME Inv, [Next]_vars PROVE GateInv'
<1>1. CASE Main
  BY <1>1, GateMain
<1>2. CASE Handler
  BY <1>2, GateHandler
<1>3. CASE \E p \in Pids : Child(p)
  BY <1>3, GateChild
<1>4. CASE TimerFires \/ vars' = vars
  <2>1. UNCHANGED <<prog, pc, k, pcb_arr, frames, child>>
    BY <1>4 DEF TimerFires, vars, mainvars, setupvars, procvars, kernelvars
  <2>2. alrm' = alrm /\ call' = call
    BY <2>1, FramesSame
  <2> QED BY <2>1, <2>2, GateKnown, GateStays
<1>5. ASSUME NEW sig \in {"CHLD", "ALRM"}, Deliver(sig) PROVE GateInv'
  <2>1. UNCHANGED <<prog, pc, k, pcb_arr, child>>
    BY <1>5 DEF Deliver, mainvars, setupvars, procvars
  <2>2. /\ Carries(alrm') => Carries(alrm)
        /\ Carries(call') => Carries(call)
        /\ alrm'.at = "clear" => alrm.at = "clear"
    BY <1>5, Known, Pushed DEF Carries
  <2> HIDE DEF alrm, call, Carries
  <2> QED BY <2>1, <2>2, GateKnown, GateStays
<1> QED BY <1>1, <1>2, <1>3, <1>4, <1>5, Kinds

-----------------------------------------------------------------------------
(* The theorems. *)

\* The first state.
LEMMA InitInv == ASSUME Init PROVE Inv
<1>0. /\ prog \in ProgramNames /\ pc = "options" /\ MaxLines \in Nat /\ Pids \subseteq Nat
      /\ prog \in Chosen
  BY UspsAssumption DEF Init, Pids
<1>1. chld = NoFrame /\ alrm = NoFrame /\ call = NoFrame
  BY Idle DEF Init
<1>2. pc \in SetupLabels /\ pc \notin Reaping /\ pc \notin Afterwards
  BY <1>0 DEF SetupLabels, Reaping, Afterwards
<1>3. Forked = 0 /\ Unreaped = {} /\ Left = 0
  <2>1. \A p \in Pids : child[p] = NoChild /\ NoChild.st = "none"
    BY DEF Init, NoChild
  <2>2. {p \in Pids : child[p].st # "none"} = {} /\ Unreaped = {}
    BY <2>1 DEF Unreaped, Alive
  <2>3. Cardinality({}) = 0
    BY FS_EmptySet
  <2>4. NextPid = 1 /\ Left = 0
    BY <2>2, <2>3 DEF NextPid, Left
  <2> HIDE DEF NextPid, Left
  <2> QED BY <2>2, <2>4 DEF Forked
<1>4. MainTypes
  <2>1. PcInv
    BY <1>0 DEF PcInv, V1Labels, V2Labels, V3Labels, LateLabels
  <2> QED BY <1>0, <2>1 DEF Init, MainTypes
<1>5. SetupTypes /\ QuietInv /\ QuantumInv
  BY DEF Init, SetupTypes, QuietInv, QuantumInv
<1>6. DataTypes
  <2>1. NoPcb \in Pcb
    BY <1>0 DEF NoPcb, Pcb
  <2>2. pcb_arr \in [Pids -> Pcb]
    BY <2>1 DEF Init
  <2>3. /\ lines \in 0..MaxLines /\ pcount \in 0..MaxLines /\ active_procs \in Int /\ tmp \in Int
        /\ current_process \in 0..MaxLines
    BY <1>0 DEF Init
  <2>5. destroyed \in BOOLEAN
    BY DEF Init
  <2>4. ready_queue \in Seq(Pids)
    BY EmptySeq DEF Init
  <2> QED BY <2>2, <2>3, <2>4, <2>5 DEF DataTypes
<1>7. KernelTypes
  <2>1. NoChild \in ChildRec
    BY DEF NoChild, ChildRec, ChildStates
  <2> QED BY <2>1 DEF Init, KernelTypes
<1>8. FramesInv
  <2>1. frames = <<>> /\ Len(frames) = 0
    BY DEF Init
  <2> QED BY <2>1 DEF FramesInv
<1>9. CountInv
  <2>1. lines \in 0..MaxLines /\ pcount = 0 /\ \A p \in Pids : child[p] = NoChild
    BY DEF Init
  <2>2. NoChild.st = "none"
    BY DEF NoChild
  <2> HIDE DEF Forked
  <2> QED BY <1>0, <1>2, <1>3, <2>1, <2>2 DEF CountInv, Pids, SetupLabels
<1>10. ReapInv
  <2>1. Marks = 0
    BY <1>1 DEF Marks, NoFrame
  <2>2. ~Reaped /\ sub = "test" /\ active_procs = 0 /\ tmp = 0
    BY <1>2, <1>0 DEF Reaped, Init
  <2> HIDE DEF Forked, Left, Marks, Unreaped, Reaped
  <2> QED BY <1>0, <1>2, <1>3, <2>1, <2>2 DEF ReapInv
<1>11. SchedInv
  <2>1. ~Queued
    <3> HIDE DEF Forked
    <3> QED BY <1>3 DEF Queued
  <2>2. Twice(alrm) = 0 /\ Twice(call) = 0 /\ alrm.at = "none" /\ call.at = "none" /\ "none" \notin UsePcs
    BY <1>1 DEF Twice, NoFrame, UsePcs
  <2>3. ready_queue = <<>> /\ Len(ready_queue) = 0 /\ ~destroyed /\ current_process = 0
    BY DEF Init
  <2> HIDE DEF Queued, alrm, call, Twice
  <2> QED BY <1>0, <2>1, <2>2, <2>3 DEF SchedInv
<1>12. GateInv
  <2>1. \A p \in Pids : child[p] = NoChild /\ pcb_arr[p] = NoPcb
    BY DEF Init
  <2>2. \A p \in Pids : Gate(child[p]) /\ Unsent(p) /\ ~pcb_arr[p].send_usr1
    BY <2>1 DEF NoChild, NoPcb, Gate, Unsent
  <2>3. ~Carries(alrm) /\ ~Carries(call) /\ alrm.at # "clear"
    BY <1>1 DEF Carries, NoFrame
  <2> HIDE DEF Unsent, alrm, call, Carries
  <2> QED BY <2>2, <2>3 DEF GateInv, Gate, V2Gate, V3Gate
<1> QED BY <1>4, <1>5, <1>6, <1>7, <1>8, <1>9, <1>10, <1>11, <1>12 DEF Inv

\* The invariant is inductive.
LEMMA InvStep == ASSUME Inv, [Next]_vars PROVE Inv'
BY MainTypesStep, SetupStep, DataStep, KernelStep, FramesStep, CountStep, ReapStep, SchedStep, GateStep DEF Inv

\* Every state of every run satisfies the inductive invariant.
THEOREM Invariance == Spec => []Inv
<1>1. Init => Inv
  BY InitInv
<1>2. Inv /\ [Next]_vars => Inv'
  BY InvStep
<1> QED BY <1>1, <1>2, PTL DEF Spec

\* Types, from the invariant.
LEMMA InvTypeOK == ASSUME Inv PROVE TypeOK
<1>1. MainTypes /\ SetupTypes /\ DataTypes /\ KernelTypes /\ FramesInv /\ QuantumInv /\ prog \in ProgramNames /\ MaxLines \in Nat
  BY Known
<1>2. active_procs \in -MaxLines..MaxLines /\ tmp \in -MaxLines..MaxLines
  BY <1>1, ReapFacts
<1>3. Len(ready_queue) <= 2 /\ ready_queue \in Seq(Pids) /\ current_process \in 0..MaxLines
  BY SchedFacts DEF SchedInv
<1>4. Len(frames) <= 3
  <2>1. frames \in Seq(Frame) /\ Len(frames) \in Nat
    BY <1>1 DEF FramesInv
  <2>2. \A i \in 1..Len(frames) : frames[i].kind \in {"CHLD", "ALRM", "call"}
    <3>1. \A i \in 1..Len(frames) : frames[i] \in Frame
      BY <2>1
    <3> QED BY <3>1 DEF Frame
  <2>3. \A i, j \in 1..Len(frames) : frames[i].kind = frames[j].kind => i = j
    BY <1>1 DEF FramesInv
  <2>4. ~(Len(frames) >= 4)
    <3> SUFFICES ASSUME Len(frames) >= 4 PROVE FALSE
      OBVIOUS
    <3>1. 1 \in 1..Len(frames) /\ 2 \in 1..Len(frames) /\ 3 \in 1..Len(frames) /\ 4 \in 1..Len(frames)
      BY <2>1
    <3> QED BY <2>2, <2>3, <3>1
  <2> QED BY <2>1, <2>4
<1>5. q_ticks \in Int /\ ("clamp" \in Statements => q_ticks \in 0..50)
  BY <1>1, StatementsOf DEF SetupTypes, QuantumInv
<1>6. \A p \in Pids : child[p].st \in ChildStates
  BY <1>1 DEF KernelTypes, ChildRec
<1>7. prog \in Chosen /\ k \in 1..MaxLines + 1 /\ status \in {"running", "usage", "failed", "undefined", "ended"}
  BY <1>1 DEF MainTypes
<1>8. lines \in 0..MaxLines /\ pcount \in 0..MaxLines
  BY <1>1 DEF DataTypes
<1> QED BY <1>2, <1>3, <1>4, <1>5, <1>6, <1>7, <1>8 DEF TypeOK

\* Types and bounds hold in every state: active_procs, decremented by main and by
\* the SIGCHLD handler without a lock, stays within the number of lines either way.
THEOREM TypeCorrect == Spec => []TypeOK
<1>1. Inv => TypeOK
  BY InvTypeOK
<1> QED BY <1>1, Invariance, PTL

\* What is left when main has returned, from the invariant.
LEMMA InvWaits == ASSUME Inv PROVE WaitsForEveryChild
<1> SUFFICES ASSUME status = "ended", prog \in Waiters PROVE Unreaped = {}
  BY DEF WaitsForEveryChild
<1>1. MainTypes /\ ReapInv /\ prog \in ProgramNames
  BY Known
<1>2. pc = "return" /\ prog \notin V3s
  BY <1>1, WaitersAre DEF MainTypes
<1>3. Reaped
  BY <1>1, <1>2, Classes DEF Reaped, Afterwards
<1> QED BY <1>1, <1>3 DEF ReapInv

\* main returns only when every child it forked was reaped, whoever reaped it.
THEOREM WaitsForEvery == Spec => []WaitsForEveryChild
<1>1. Inv => WaitsForEveryChild
  BY InvWaits
<1> QED BY <1>1, Invariance, PTL

\* Owed is Left + Marks.
LEMMA InvCountCovers == ASSUME Inv PROVE CountCoversChildren
<1> SUFFICES ASSUME pc \in Reaping, Unreaped # {}
    PROVE  Owed <= CASE sub = "load" -> active_procs - 1 [] sub = "store" -> tmp - 1 [] OTHER -> active_procs
  BY DEF CountCoversChildren
<1>1. FramesInv /\ MainTypes /\ ReapInv
  BY Known
<1>2. Cardinality({i \in 1..Len(frames) : frames[i].at = "mark"}) = Marks
  <2>1. CASE \E i \in 1..Len(frames) : frames[i].at = "mark"
    <3>1. PICK i \in 1..Len(frames) : frames[i].at = "mark"
      BY <2>1
    <3>2. \A j \in 1..Len(frames) : frames[j].at = "mark" => frames[j].kind = "CHLD"
      BY <1>1 DEF FramesInv
    <3>3. \A j \in 1..Len(frames) : frames[j].at = "mark" => j = i
      BY <1>1, <3>1, <3>2 DEF FramesInv
    <3>4. {j \in 1..Len(frames) : frames[j].at = "mark"} = {i}
      BY <3>1, <3>3
    <3>5. chld = frames[i]
      BY <1>1, <3>1, <3>2, FrameFound DEF FramesInv, Unique, chld
    <3>6. Cardinality({i}) = 1
      BY FS_Singleton
    <3> QED BY <3>1, <3>4, <3>5, <3>6 DEF Marks
  <2>2. CASE ~\E i \in 1..Len(frames) : frames[i].at = "mark"
    <3>1. {j \in 1..Len(frames) : frames[j].at = "mark"} = {}
      BY <2>2
    <3>2. chld.at # "mark"
      <4>1. CASE \E i \in 1..Len(frames) : frames[i].kind = "CHLD"
        <5>1. PICK i \in 1..Len(frames) : frames[i].kind = "CHLD"
          BY <4>1
        <5>2. chld = frames[i]
          BY <1>1, <5>1, FrameFound DEF FramesInv, Unique, chld
        <5> QED BY <2>2, <5>2
      <4>2. CASE ~\E i \in 1..Len(frames) : frames[i].kind = "CHLD"
        BY <4>2 DEF chld, FrameIn, NoFrame
      <4> QED BY <4>1, <4>2
    <3>3. Cardinality({}) = 0
      BY FS_EmptySet
    <3> QED BY <3>1, <3>2, <3>3 DEF Marks
  <2> QED BY <2>1, <2>2
<1>3. Owed = Left + Marks
  BY <1>2 DEF Owed, Left
<1> HIDE DEF Owed, Left, Marks, Unreaped
<1>4. CASE sub = "load"
  BY <1>1, <1>3, <1>4 DEF ReapInv
<1>5. CASE sub = "store"
  BY <1>1, <1>3, <1>5 DEF ReapInv
<1>6. CASE sub \in {"test", "wait"}
  BY <1>1, <1>3, <1>6 DEF ReapInv
<1> QED BY <1>1, <1>4, <1>5, <1>6 DEF MainTypes

\* In the wait loop, active_procs (or what main has loaded of it) covers the children
\* that are left, whatever decrement of the handler main's store overwrites.
THEOREM CountCovers == Spec => []CountCoversChildren
<1>1. Inv => CountCoversChildren
  BY InvCountCovers
<1> QED BY <1>1, Invariance, PTL

\* Who SIGUSR1 is sent to, from the invariant.
LEMMA InvOpens ==
  ASSUME Inv, NEW p \in Pids, text.gated, SendsUsr1(p), frames # <<>> => top.kind = "ALRM"
  PROVE  AtGate(p)
<1>0. /\ prog \in V3s \union {"v2"} /\ CountInv /\ DataTypes /\ MainTypes /\ FramesInv /\ QuietInv
      /\ child[p] \in ChildRec /\ Gate(child[p]) /\ (prog = "v2" => prog \in V2s /\ prog \notin V3s)
  <2>1. prog \in V3s \union {"v2"}
    BY Known, TextOf
  <2> QED BY <2>1, Known, GateKnown DEF V2s, V3s
<1>1. ASSUME Unsent(p), p <= Forked PROVE AtGate(p)
  <2>1. child[p].st # "none"
    BY <1>0, <1>1 DEF CountInv
  <2> QED BY <1>0, <1>1, <2>1 DEF AtGate, Unsent, Gate, ChildRec, ChildStates
<1>2. CASE Round /\ pc = "usr1" /\ k <= pcount /\ pcb_arr[k].pid = p
  <2>1. prog = "v2"
    BY <1>0, <1>2 DEF CountInv, MainTypes
  <2>2. pcount = Forked /\ k \in Pids
    BY <1>0, <1>2, <2>1, UspsAssumption DEF CountInv, MainTypes, DataTypes, Pids
  <2> HIDE DEF Forked
  <2>3. p = k /\ p <= Forked
    BY <1>0, <1>2, <2>2 DEF CountInv
  <2>4. Unsent(p)
    BY <1>2, <2>1, <2>2, <2>3, <1>0, GateKnown DEF V2Gate, MainTypes
  <2> QED BY <1>1, <2>3, <2>4
<1>3. CASE Resume /\ top.sig = "USR1" /\ current.pid = p
  <2>1. frames # <<>> /\ top.kind = "ALRM" /\ top.at = "resume"
    BY <1>3 DEF Resume, Scheduling, HandlerAt
  <2>2. Carries(alrm)
    BY <1>0, <1>3, <2>1, TopIs DEF Carries
  <2>3. prog \in V3s
    BY <1>0, <2>1 DEF QuietInv
  <2>4. Moves("resume", top.sig, "none", "none")
    BY <1>3, ResumeFrames
  <2>5. "resume" \in UsePcs /\ "resume" \in AlarmLabels
    BY DEF UsePcs, AlarmLabels
  <2>6. current_process = 1 /\ Queued
    BY <2>4, <2>5, SchedAt
  <2>7. 1 \in Pids /\ Forked = 1 /\ pc # "record"
    BY <2>6, SchedFacts DEF Queued
  <2> HIDE DEF Forked
  <2>8. p = 1 /\ p <= Forked
    BY <1>0, <1>3, <2>6, <2>7 DEF CountInv, current
  <2>9. Unsent(p)
    <3> HIDE DEF alrm, call, Carries
    <3> QED BY <2>2, <2>3, <2>7, <2>8, GateKnown DEF V3Gate
  <2> QED BY <1>1, <2>8, <2>9
<1> QED BY <1>2, <1>3 DEF SendsUsr1

\* The gate of a child is opened once, by main's round or by a run of the handler on
\* the timer's signal, wherever in main's own call of the handler that run comes.
THEOREM OpenedOnce == Spec => GateOpenedOnce
<1>1. Inv /\ [Next]_vars =>
        [\A p \in Pids : text.gated /\ SendsUsr1(p) /\ (frames # <<>> => top.kind = "ALRM") => AtGate(p)]_vars
  BY InvOpens
<1> QED BY <1>1, Invariance, PTL DEF Spec, GateOpenedOnce

\* No command of uspsv2 runs while main still forks.
THEOREM StartTogether == Spec => []CommandsStartTogether
<1>1. ASSUME Inv PROVE CommandsStartTogether
  <2> SUFFICES ASSUME prog = "v2", pc \in {"read", "record", "bump", "count"}, NEW p \in Pids
      PROVE  child[p].st \in {"none", "forked"}
    BY DEF CommandsStartTogether
  <2>1. child[p] \in ChildRec /\ Gate(child[p]) /\ Unsent(p)
    BY <1>1, GateKnown DEF V2Gate
  <2> QED BY <2>1 DEF ChildRec, ChildStates, Gate, Unsent
<1>2. Inv => CommandsStartTogether
  BY <1>1
<1> QED BY <1>2, Invariance, PTL

\* The SIGALRM handler never uses a NULL current_process, although it interrupts
\* main's call of itself between any two of its statements.
THEOREM NoNull == Spec => []NoNullProcess
<1>1. ASSUME Inv PROVE NoNullProcess
  <2> SUFFICES ASSUME frames # <<>>, top.kind \in {"ALRM", "call"},
                      top.at \notin {"tick", "drop", "next"}
      PROVE  current_process # 0
    BY DEF NoNullProcess
  <2>1. FramesInv /\ Unique(frames) /\ Len(frames) \in 1..Len(frames) /\ top = frames[Len(frames)]
    BY <1>1, Known, TopFacts
  <2>2. top.at \in UsePcs
    <3>1. top \in Frame /\ top.at \notin {"waitpid", "mark"}
      BY <2>1, TopFacts
    <3> QED BY <3>1 DEF Frame, AlarmLabels, UsePcs
  <2>3. CASE top.kind = "ALRM"
    <3>1. alrm = top
      BY <2>1, <2>3, FrameFound DEF alrm
    <3> HIDE DEF top, alrm
    <3> QED BY <1>1, <2>2, <3>1, SchedFacts DEF SchedInv
  <2>4. CASE top.kind = "call"
    <3>1. call = top /\ alrm.at = "none"
      BY <2>1, <2>4, FrameFound, CallAlone DEF call, NoFrame
    <3> HIDE DEF top, alrm, call
    <3> QED BY <1>1, <2>2, <3>1, SchedFacts DEF SchedInv
  <2> QED BY <2>3, <2>4
<1>2. Inv => NoNullProcess
  BY <1>1
<1> QED BY <1>2, Invariance, PTL
===============================================================================
