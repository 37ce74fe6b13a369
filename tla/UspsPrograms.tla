---------------------------- MODULE UspsPrograms ----------------------------
(***************************************************************************)
(* The scheduler programs of Projects/P1, each as the sequence of          *)
(* statements its main executes and the statements of its two handlers.    *)
(* A statement is a label; Usps gives each label its effect.  The programs *)
(* differ in which statements they have and in their order, and that is    *)
(* all a record below says:                                                *)
(*   setup, body - main, up to and from the loop that forks a child per    *)
(*                 line of the workload                                    *)
(*   onalarm     - the SIGALRM handler, <<>> in a program without one      *)
(*   onchild     - the SIGCHLD handler: how it looks a pid up ("search"    *)
(*                 compares every entry, "first" only the first one) and   *)
(*                 whether it decodes the status of the child ("status")   *)
(*                 or a variable it never set ("unset")                    *)
(*   gated       - a child waits for SIGUSR1 before it execs               *)
(*   interval    - the timer value passed to setitimer is "set" or "unset" *)
(***************************************************************************)
EXTENDS Integers, Sequences

NoHandler == [search |-> "none", decodes |-> "none"]

\* The SIGALRM handlers: stop and queue the current process once its ticks are spent,
\* in some programs show it, drop it, and select the next one.
Silent == <<"tick", "alive", "spend", "spent", "preempt", "requeue", "drop", "next",
            "test", "refill", "choose", "clear", "resume">>
Showing == <<"tick", "alive", "spend", "spent", "preempt", "requeue", "show", "drop", "next",
             "test", "refill", "choose", "clear", "resume">>

\* uspsv1: fork every command, wait for as many children.
V1Setup == <<"options", "open", "quantum">>
V1Body == <<"read", "record", "bump", "count", "reap1", "close1", "return">>

OldV1Setup == <<"options", "open", "quantum">>
OldV1Body == <<"read", "record", "bump", "count", "reap1", "close1", "return">>

\* uspsv2: the children wait at a gate, main opens it with SIGUSR1 and sends
\* every child SIGSTOP and SIGCONT, then waits.
(* Mutants: the stopping signal sent last; the gate opened in the fork loop. *)
V2BodyStopsLast == <<"read", "record", "bump", "count", "usr1", "cont", "stop", "reap1", "close1", "return">>
V2BodyOpensEarly == <<"read", "record", "usr1", "bump", "count", "stop", "cont", "reap1", "close1", "return">>
V2Setup == <<"options", "quantum", "open", "sigusr1">>
V2Body == <<"read", "record", "bump", "count", "usr1", "stop", "cont", "reap1", "close1", "return">>

OldV2Setup == <<"options", "quantum", "open", "sigusr1">>
OldV2Body == <<"read", "record", "bump", "count", "usr1", "stop", "cont", "reap1", "close1", "return">>

TestV2Setup == <<"options", "quantum", "open", "sigusr1">>
TestV2Body == <<"read", "record", "bump", "count", "usr1", "stop", "cont", "reap1", "close1", "return">>

\* uspsv3 and uspsv4 at the top of P1: a ready queue, a timer and two handlers.
\* "leave" is the break that ends the parent's branch; "bump" is never reached.
V3Setup == <<"options", "quantum", "open", "sigusr1", "sigusr2", "sigchld", "sigalrm",
             "clamp", "ticks", "create">>
V3Body == <<"read", "record", "enqueue", "leave", "bump", "count", "timer", "dispatch", "pause",
            "close1", "destroy", "usr1", "stop", "cont", "return">>
V3OnAlarm == Silent
V3OnChild == [search |-> "all", decodes |-> "status"]

V4Setup == <<"options", "quantum", "open", "sigusr1", "sigusr2", "sigchld", "sigalrm",
             "clamp", "ticks", "create">>
V4Body == <<"read", "record", "enqueue", "leave", "bump", "count", "timer", "dispatch", "pause",
            "close1", "destroy", "usr1", "stop", "cont", "return">>
V4OnAlarm == Showing
V4OnChild == [search |-> "all", decodes |-> "status"]

\* uspsv3 and uspsv4 of directories v4 and test: every command is forked, no
\* child is gated, marked alive or put on the queue, and main first waits for
\* every child and then starts the timer.
LateBody == <<"read", "record", "bump", "count", "reap1", "close1", "timer", "dispatch", "pause",
              "close2", "destroy", "usr1", "stop", "cont", "reap2", "close3", "return">>

OldV3Setup == <<"options", "quantum", "open", "sigusr1", "sigusr2", "sigchld", "sigalrm", "ticks", "create">>
OldV3Body == LateBody
OldV3OnAlarm == Silent
OldV3OnChild == [search |-> "first", decodes |-> "unset"]

OldV4Setup == <<"options", "quantum", "open", "sigusr1", "sigusr2", "sigchld", "sigalrm", "ticks", "create">>
OldV4Body == LateBody
OldV4OnAlarm == Showing
OldV4OnChild == [search |-> "first", decodes |-> "unset"]

TestV3Setup == <<"options", "quantum", "open", "sigusr1", "sigusr2", "sigchld", "sigalrm", "ticks", "create">>
TestV3Body == LateBody
TestV3OnAlarm == Silent
TestV3OnChild == [search |-> "first", decodes |-> "unset"]

TestV4Setup == <<"options", "quantum", "open", "sigusr1", "sigusr2", "sigchld", "sigalrm", "ticks", "create">>
TestV4Body == LateBody
TestV4OnAlarm == Showing
TestV4OnChild == [search |-> "first", decodes |-> "unset"]

ProgramNames == {"v1", "old_v1", "v2", "old_v2", "test_v2", "v3", "v4",
                 "old_v3", "old_v4", "test_v3", "test_v4"}

Text(setup, body, onalarm, onchild, gated, interval) ==
  [main |-> setup \o body, onalarm |-> onalarm, onchild |-> onchild,
   gated |-> gated, interval |-> interval]

Programs ==
  [p \in ProgramNames |->
     CASE p = "v1"      -> Text(V1Setup, V1Body, <<>>, NoHandler, FALSE, "none")
       [] p = "old_v1"  -> Text(OldV1Setup, OldV1Body, <<>>, NoHandler, FALSE, "none")
       [] p = "v2"      -> Text(V2Setup, V2Body, <<>>, NoHandler, TRUE, "none")
       [] p = "old_v2"  -> Text(OldV2Setup, OldV2Body, <<>>, NoHandler, FALSE, "none")
       [] p = "test_v2" -> Text(TestV2Setup, TestV2Body, <<>>, NoHandler, FALSE, "none")
       [] p = "v3"      -> Text(V3Setup, V3Body, V3OnAlarm, V3OnChild, TRUE, "set")
       [] p = "v4"      -> Text(V4Setup, V4Body, V4OnAlarm, V4OnChild, TRUE, "set")
       [] p = "old_v3"  -> Text(OldV3Setup, OldV3Body, OldV3OnAlarm, OldV3OnChild, FALSE, "set")
       [] p = "old_v4"  -> Text(OldV4Setup, OldV4Body, OldV4OnAlarm, OldV4OnChild, FALSE, "set")
       [] p = "test_v3" -> Text(TestV3Setup, TestV3Body, TestV3OnAlarm, TestV3OnChild, FALSE, "unset")
       [] OTHER         -> Text(TestV4Setup, TestV4Body, TestV4OnAlarm, TestV4OnChild, FALSE, "unset")]

\* Where control goes after statement l of a text.
After(text, l) == text[1 + CHOOSE i \in 1..Len(text) - 1 : text[i] = l]
=============================================================================
