----------------------------- MODULE Execution -----------------------------
(***************************************************************************)
(* One execution of the server under test after another: afl-fuzz's        *)
(* run_target and send_over_network, the fork server compiled into the     *)
(* server (afl-llvm-rt.o.c, afl-as.h), the server's process, the interval  *)
(* timer whose handler kills it, and the stop signal.                      *)
(*                                                                         *)
(* A process that ended stays a zombie until its parent waits for it: the  *)
(* fork server, or afl-fuzz itself when there is none.                     *)
(***************************************************************************)
EXTENDS Integers, Sequences

CONSTANTS
    MaxRuns,       \* runs of one campaign (a bound)
    MaxSent        \* messages of a seed (a bound)

VARIABLES
    conf,          \* [mode, net, terminate, reduce]: how afl-fuzz was started
    at,            \* where afl-fuzz is
    fs,            \* where the fork server is
    stopped,       \* the fork server's child_stopped
    child,         \* the server's process
    death,         \* how it ended
    killer,        \* who sent it SIGKILL
    termPending,   \* a SIGTERM it has not handled
    childPid,      \* afl-fuzz's child_pid: -1, 0 or the server's
    ctl, st,       \* what the two pipes hold
    status,        \* the wait status afl-fuzz has read
    timer,         \* ITIMER_REAL is armed
    timedOut,      \* child_timed_out
    prevTimedOut,  \* prev_timed_out
    stopSoon, verdict, runs,
    messagesSent, responses   \* messages_sent; response_bytes (or NoBytes)

serverVars == <<stopped, child, death, killer, termPending>>
answerVars == <<messagesSent, responses>>
executionVars == <<conf, at, fs, serverVars, childPid, ctl, st, status, timer, timedOut,
                   prevTimedOut, stopSoon, verdict, runs, answerVars>>

HasForkServer == conf.mode # "dumb"
NoBytes == <<"null">>
NoStatus == "0"

ExecutionInit(c) ==
    /\ conf = c
    /\ at = IF c.mode = "dumb" THEN "idle" ELSE "off"
    /\ fs = "none" /\ stopped = FALSE
    /\ child = "none" /\ death = NoStatus /\ killer = "none" /\ termPending = FALSE
    /\ childPid = -1 /\ ctl = <<>> /\ st = <<>> /\ status = NoStatus
    /\ timer = FALSE /\ timedOut = FALSE /\ prevTimedOut = FALSE
    /\ stopSoon = FALSE /\ verdict = "none" /\ runs = 0
    /\ messagesSent = 0 /\ responses = NoBytes

-----------------------------------------------------------------------------
\* init_forkserver: the process is started and its greeting awaited.
InitForkserver ==
    /\ at = "off" /\ fs = "none"
    /\ at' = "hello" /\ fs' = "hello" /\ timer' = TRUE
    /\ UNCHANGED <<conf, serverVars, childPid, ctl, st, status, timedOut, prevTimedOut,
                   stopSoon, verdict, runs, answerVars>>

HelloRead ==
    /\ at = "hello"
    /\ \/ st # <<>> /\ at' = "idle" /\ st' = Tail(st)
       \/ st = <<>> /\ fs = "dead" /\ at' = "fatal" /\ st' = st
    /\ timer' = FALSE
    /\ UNCHANGED <<conf, fs, serverVars, childPid, ctl, status, timedOut, prevTimedOut,
                   stopSoon, verdict, runs, answerVars>>

-----------------------------------------------------------------------------
(* run_target. *)

\* A pipe to or from a dead fork server: the run is given up after a stop.
Broken == at' = (IF stopSoon THEN "idle" ELSE "fatal")

BirthOf(next) ==
    /\ child' = "running" /\ death' = NoStatus /\ killer' = "none" /\ termPending' = FALSE
    /\ stopped' = next

StartRun ==
    /\ at = "idle" /\ ~stopSoon /\ runs < MaxRuns
    /\ runs' = runs + 1 /\ timedOut' = FALSE /\ verdict' = "none" /\ status' = NoStatus
    /\ IF HasForkServer
       THEN /\ IF fs = "dead" THEN Broken /\ ctl' = ctl
               ELSE at' = "pid" /\ ctl' = Append(ctl, prevTimedOut)
            /\ UNCHANGED <<serverVars, childPid>>
       ELSE at' = "arm" /\ childPid' = 1 /\ BirthOf(FALSE) /\ ctl' = ctl
    /\ UNCHANGED <<conf, fs, st, timer, prevTimedOut, stopSoon, answerVars>>

PidRead ==
    /\ at = "pid"
    /\ \/ st # <<>> /\ at' = "arm" /\ childPid' = 1 /\ st' = Tail(st)
       \/ st = <<>> /\ fs = "dead" /\ Broken /\ UNCHANGED <<childPid, st>>
    /\ UNCHANGED <<conf, fs, serverVars, ctl, status, timer, timedOut, prevTimedOut,
                   stopSoon, verdict, runs, answerVars>>

\* Mutant: the timer is armed after the messages were exchanged only.
ArmTimerLater ==
    /\ at = "arm" /\ timer' = ~conf.net
    /\ at' = IF conf.net THEN "connect" ELSE "status"
    /\ UNCHANGED <<conf, fs, serverVars, childPid, ctl, st, status, timedOut, prevTimedOut,
                   stopSoon, verdict, runs, answerVars>>

ArmTimer ==
    /\ at = "arm" /\ timer' = TRUE
    /\ at' = IF conf.net THEN "connect" ELSE "status"
    /\ UNCHANGED <<conf, fs, serverVars, childPid, ctl, st, status, timedOut, prevTimedOut,
                   stopSoon, verdict, runs, answerVars>>

\* send_over_network: the response buffers are cleared; the connection, or
\* the first read from it, may fail.
Connect ==
    /\ at = "connect"
    /\ \/ at' = "status" /\ messagesSent' = messagesSent      \* refused 1000 times
       \/ child = "running" /\ at' = "last" /\ messagesSent' = messagesSent
       \/ child = "running" /\ at' = "send" /\ messagesSent' = 0
    /\ responses' = NoBytes
    /\ UNCHANGED <<conf, fs, serverVars, childPid, ctl, st, status, timer, timedOut,
                   prevTimedOut, stopSoon, verdict, runs>>

Accumulated == IF responses = NoBytes THEN <<>> ELSE responses

\* One message is sent and, unless either fails, answered.
SendMessage ==
    /\ at = "send" /\ messagesSent < MaxSent
    /\ messagesSent' = messagesSent + 1
    /\ \/ at' = "send" /\ child = "running" /\ responses' = Append(Accumulated, "size")
       \/ at' = "last" /\ responses' = Append(Accumulated, "unset")
    /\ UNCHANGED <<conf, fs, serverVars, childPid, ctl, st, status, timer, timedOut,
                   prevTimedOut, stopSoon, verdict, runs>>

AllSent ==
    /\ at = "send" /\ messagesSent > 0 /\ at' = "last"
    /\ UNCHANGED <<conf, fs, serverVars, childPid, ctl, st, status, timer, timedOut,
                   prevTimedOut, stopSoon, verdict, runs, answerVars>>

WithLast(bytes, n) == IF n > 0 /\ bytes # NoBytes THEN [bytes EXCEPT ![n] = "size"] ELSE bytes

\* HANDLE_RESPONSES: the last read; then, unless the server looks dead and
\* -F was given, a SIGTERM (-K) and the wait for the process to be gone.
HandleResponses ==
    /\ at = "last"
    /\ responses' = WithLast(responses, messagesSent)
    /\ \/ conf.reduce /\ at' = "status" /\ termPending' = termPending
       \/ /\ at' = "gone"
          /\ termPending' = (termPending \/ (conf.terminate /\ child \in {"running", "stopped"}))
    /\ UNCHANGED <<conf, fs, stopped, child, death, killer, childPid, ctl, st, status, timer,
                   timedOut, prevTimedOut, stopSoon, verdict, runs, messagesSent>>

\* while (1) kill(child_pid, 0): a zombie still counts as a process.
SeenGone ==
    /\ at = "gone" /\ child = "none" /\ at' = "status"
    /\ UNCHANGED <<conf, fs, serverVars, childPid, ctl, st, status, timer, timedOut,
                   prevTimedOut, stopSoon, verdict, runs, answerVars>>

\* The status comes from the fork server, or from waitpid.
StatusRead ==
    /\ at = "status"
    /\ \/ /\ HasForkServer /\ st # <<>>
          /\ status' = Head(st) /\ st' = Tail(st) /\ at' = "disarm"
          /\ childPid' = IF status' = "stopped" THEN childPid ELSE 0
          /\ UNCHANGED child
       \/ /\ HasForkServer /\ st = <<>> /\ fs = "dead"
          /\ Broken /\ UNCHANGED <<status, st, childPid, child>>
       \/ /\ ~HasForkServer /\ child = "zombie"
          /\ status' = death /\ child' = "none" /\ at' = "disarm" /\ childPid' = 0
          /\ UNCHANGED st
    /\ UNCHANGED <<conf, fs, stopped, death, killer, termPending, ctl, timer, timedOut,
                   prevTimedOut, stopSoon, verdict, runs, answerVars>>

Disarm ==
    /\ at = "disarm" /\ at' = "judge" /\ timer' = FALSE
    /\ UNCHANGED <<conf, fs, serverVars, childPid, ctl, st, status, timedOut, prevTimedOut,
                   stopSoon, verdict, runs, answerVars>>

VerdictOf(s, late) ==
    CASE s \in {"kill", "term", "crash"} /\ ~stopSoon ->
            (IF late /\ s = "kill" THEN "tmout" ELSE IF s = "term" THEN "none" ELSE "crash")
      [] s = "execfail" -> "error"
      [] OTHER -> "none"

\* Mutant: the fork server is never told that the child was killed.
JudgeSilently ==
    /\ at = "judge" /\ at' = "idle"
    /\ verdict' = VerdictOf(status, timedOut)
    /\ UNCHANGED <<conf, fs, serverVars, childPid, ctl, st, status, timer, timedOut,
                   prevTimedOut, stopSoon, runs, answerVars>>

Judge ==
    /\ at = "judge" /\ at' = "idle"
    /\ prevTimedOut' = timedOut
    /\ verdict' = VerdictOf(status, timedOut)
    /\ UNCHANGED <<conf, fs, serverVars, childPid, ctl, st, status, timer, timedOut,
                   stopSoon, runs, answerVars>>

-----------------------------------------------------------------------------
(* The fork server. *)

FsUnchanged == UNCHANGED <<conf, at, childPid, status, timer, timedOut, prevTimedOut,
                           stopSoon, verdict, runs, answerVars>>

PhoneHome ==
    /\ fs = "hello" /\ fs' = "wait" /\ st' = Append(st, "hello")
    /\ UNCHANGED <<serverVars, ctl>> /\ FsUnchanged

\* A child that is still stopped and was not killed goes on; otherwise the
\* dead one is written off and a new one is forked.
NextChild ==
    /\ fs = "wait" /\ ctl # <<>>
    /\ ctl' = Tail(ctl)
    /\ IF stopped /\ ~Head(ctl)
       THEN /\ child' = IF child = "stopped" THEN "running" ELSE child
            /\ stopped' = FALSE /\ UNCHANGED <<death, killer, termPending>>
       ELSE /\ stopped => child = "zombie"     \* waitpid() returns
            /\ BirthOf(FALSE)
    /\ st' = Append(st, "pid") /\ fs' = "waitpid"
    /\ FsUnchanged

Relay ==
    /\ fs = "waitpid" /\ fs' = "wait"
    /\ \/ /\ child = "zombie" /\ child' = "none" /\ st' = Append(st, death) /\ stopped' = FALSE
       \/ /\ child = "stopped" /\ child' = child /\ st' = Append(st, "stopped") /\ stopped' = TRUE
    /\ UNCHANGED <<death, killer, termPending, ctl>> /\ FsUnchanged

-----------------------------------------------------------------------------
(* The server's process, the timer and the signals. *)

Others == UNCHANGED <<conf, at, fs, stopped, childPid, ctl, st, status, timer, timedOut,
                      prevTimedOut, stopSoon, verdict, runs, answerVars>>

ChildEnds ==
    /\ child = "running" /\ child' = "zombie"
    /\ death' \in {"exit", "crash"} \cup (IF termPending THEN {"term"} ELSE {})
                  \cup (IF HasForkServer THEN {} ELSE {"execfail"})
    /\ UNCHANGED <<killer, termPending>> /\ Others

\* __AFL_LOOP: a persistent server stops itself after each round.
ChildStops ==
    /\ conf.mode = "persistent" /\ child = "running" /\ child' = "stopped"
    /\ UNCHANGED <<death, killer, termPending>> /\ Others

\* An ended process whose fork server was killed is waited for by init.
OrphanReaped ==
    /\ HasForkServer /\ fs = "dead" /\ child = "zombie" /\ child' = "none"
    /\ UNCHANGED <<death, killer, termPending>> /\ Others

KilledBy(who) ==
    IF child \in {"running", "stopped"}
    THEN child' = "zombie" /\ death' = "kill" /\ killer' = who
    ELSE UNCHANGED <<child, death, killer>>

handle_timeout ==
    /\ timer /\ timer' = FALSE
    /\ IF childPid = 1
       THEN timedOut' = TRUE /\ KilledBy("timer") /\ fs' = fs
       ELSE /\ UNCHANGED <<child, death, killer>>
            /\ IF childPid = -1 /\ HasForkServer
               THEN timedOut' = TRUE /\ fs' = "dead" ELSE UNCHANGED <<timedOut, fs>>
    /\ UNCHANGED <<conf, at, stopped, termPending, childPid, ctl, st, status, prevTimedOut,
                   stopSoon, verdict, runs, answerVars>>

handle_stop_sig ==
    /\ ~stopSoon /\ at # "fatal" /\ stopSoon' = TRUE
    /\ IF childPid = 1 THEN KilledBy("stop") ELSE UNCHANGED <<child, death, killer>>
    /\ fs' = IF HasForkServer /\ fs # "none" THEN "dead" ELSE fs
    /\ UNCHANGED <<conf, at, stopped, termPending, childPid, ctl, st, status, timer, timedOut,
                   prevTimedOut, verdict, runs, answerVars>>

-----------------------------------------------------------------------------
FuzzerStep ==
    \/ InitForkserver \/ HelloRead \/ PidRead \/ ArmTimer \/ Connect \/ SendMessage
    \/ AllSent \/ HandleResponses \/ SeenGone \/ StatusRead \/ Disarm \/ Judge

ForkServerStep == PhoneHome \/ NextChild \/ Relay

ExecutionNext ==
    \/ StartRun \/ FuzzerStep \/ ForkServerStep \/ OrphanReaped
    \/ ChildEnds \/ ChildStops \/ handle_timeout \/ handle_stop_sig

\* afl-fuzz and the fork server are scheduled, the armed timer expires and
\* init waits for orphans. The server itself need not ever end.
ExecutionFairness ==
    /\ WF_executionVars(FuzzerStep) /\ WF_executionVars(ForkServerStep)
    /\ WF_executionVars(handle_timeout) /\ WF_executionVars(OrphanReaped)

Configurations ==
    [mode: {"forkserver", "persistent", "dumb"}, net: BOOLEAN, terminate: BOOLEAN, reduce: BOOLEAN]

ExecutionSafe == (\E c \in Configurations : ExecutionInit(c)) /\ [][ExecutionNext]_executionVars

ExecutionSpec == ExecutionSafe /\ ExecutionFairness

-----------------------------------------------------------------------------
\* What run_target reports is what happened to the process of this run: a
\* timeout is one its own timer killed, a crash is one that crashed by
\* itself, and no such end of a run that was not stopped goes unreported. A
\* timer that fires after a persistent server has stopped itself must not be
\* taken for a crash of the next run.
VerdictTruthful ==
    at = "idle" /\ runs > 0 /\ ~stopSoon =>
        /\ verdict = "tmout" <=> (status = "kill" /\ killer = "timer" /\ child = "none")
        /\ verdict = "crash" <=> (death = "crash" /\ child = "none")

\* update_region_annotations reads response_bytes[i] of every message sent:
\* where the array exists, every entry of it was written.
AnnotationsReadable ==
    at \in {"status", "gone", "idle"} /\ responses # NoBytes =>
        responses = [i \in 1..messagesSent |-> "size"]

\* run_target reports a timeout or a crash exactly when the process of this run
\* ended so, and the responses that update_region_annotations reads were written.
RunsAccounted == VerdictTruthful /\ AnnotationsReadable

\* A run of a server with a fork server that forks for each run ends,
\* whatever the server does: its timer kills it, the fork server waits for
\* it, and send_over_network sees it gone.
RunEnds ==
    conf.mode = "forkserver" \/ (conf.mode # "forkserver" /\ ~conf.net)
        => (at \notin {"idle", "fatal"}) ~> (at \in {"idle", "fatal"})
=============================================================================
