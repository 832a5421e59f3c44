----------------------------- MODULE Lifecycle ------------------------------
(* A run of gg once a node is chosen: the goroutine that listens             *)
(* (proxy/proxy.go, ListenAndServe), the one that starts and traces the      *)
(* program (tracer/tracer.go, New), the caller (cmd/cmd.go, Run) and the one *)
(* that waits for signals, together with the program and one connection of   *)
(* it (TCPRelay).  The program is the process that gg starts and a process   *)
(* that one forks, which is traced as well.  What the tracer does with a     *)
(* call is in Tracer; here a traced process runs only while trace() resumes  *)
(* it.                                                                       *)
EXTENDS TCPRelay, Integers

CONSTANTS Codes,        \* the exit codes the program may end with
          None          \* a nil error

ASSUME CodesAssumption ==
  /\ Codes \subseteq 0..255
  /\ None \notin {"listen", "start", "trace", "canceled"}

VARIABLES
  serve,      \* the goroutine of ListenAndServe
  listener,   \* p.listener: "none", "open" or "closed"
  main,       \* the caller: within New, within Wait, or how gg ended
  tracing,    \* the goroutine of New that starts the program and calls trace
  closed,     \* t.closed is closed
  exitCode,   \* t.exitCode
  exitErr,    \* t.exitErr
  cancelled,  \* ctx is cancelled
  program,    \* the process that gg started
  status,     \* WaitStatus.ExitStatus() of that process when it has ended
  child       \* a process it forked

lifeVars == <<serve, listener, main, tracing, closed, exitCode, exitErr,
              cancelled, program, status, child>>
vars == <<relayVars, lifeVars>>

Ends == {"exited", "fatal", "newFailed", "crashed", "signalled"}

Over == main \in Ends

Gone == program \in {"ended", "killed"}

Alive == program \in {"running", "detached"}

\* A signal leaves ExitStatus() at -1.
Statuses == Codes \cup {-1}

Init ==
  /\ RelayInit
  /\ serve = "tcp"
  /\ listener = "none"
  /\ main = "sleeping"
  /\ tracing = "none"
  /\ closed = FALSE
  /\ exitCode = 0
  /\ exitErr = None
  /\ cancelled = FALSE
  /\ program = "none"
  /\ status = 0
  /\ child = "none"

TypeOK ==
  /\ RelayTypeOK
  /\ serve \in {"tcp", "udp", "serving", "failed", "closing", "over"}
  /\ listener \in {"none", "open", "closed"}
  /\ main \in {"sleeping", "starting", "waiting"} \cup Ends
  /\ tracing \in {"none", "start", "startFailed", "attach", "trace", "returned",
                  "closing", "over"}
  /\ closed \in BOOLEAN
  /\ exitCode \in Statuses \cup {0, 1}
  /\ exitErr \in {None, "listen", "start", "trace", "canceled"}
  /\ cancelled \in BOOLEAN
  /\ program \in {"none", "running", "detached", "ended", "killed"}
  /\ status \in Statuses \cup {0}
  /\ child \in {"none", "running", "ended"}

\* The process of gg ends, and with it every goroutine and connection.
GGEnds(how) ==
  /\ main' = how
  /\ Cut

\* Every goroutine stops where it is, which needs no remembering.
Stopped ==
  /\ serve' = "over"
  /\ listener' = "closed"
  /\ tracing' = "over"
  /\ closed' = FALSE
  /\ exitCode' = 0
  /\ exitErr' = None
  /\ cancelled' = FALSE
  /\ UNCHANGED <<program, status, child>>

\* A panic.
Crash == GGEnds("crashed") /\ Stopped

\* close(t.closed); closing a closed channel panics.
CloseClosed ==
  /\ ~closed
  /\ closed' = TRUE

-----------------------------------------------------------------------------
\* The goroutine of ListenAndServe

ListenTCP ==
  /\ serve = "tcp"
  /\ \E ok \in BOOLEAN :
       /\ serve' = IF ok THEN "udp" ELSE "failed"
       /\ listener' = IF ok THEN "open" ELSE "none"
  /\ UNCHANGED <<relayVars, main, tracing, closed, exitCode, exitErr, cancelled,
                 program, status, child>>

\* On an error ListenAndServe returns and closes the TCP listener.
ListenUDP ==
  /\ serve = "udp"
  /\ \E ok \in BOOLEAN :
       /\ serve' = IF ok THEN "serving" ELSE "failed"
       /\ listener' = IF ok THEN listener ELSE "closed"
  /\ UNCHANGED <<relayVars, main, tracing, closed, exitCode, exitErr, cancelled,
                 program, status, child>>

\* Who reads the code without the error would exit with 1 all the same, so the
\* two assignments are one step.
ServeFails ==
  /\ \/ /\ serve = "failed"
        /\ serve' = "closing"
        /\ exitCode' = 1
        /\ exitErr' = "listen"
        /\ UNCHANGED closed
     \/ /\ serve = "closing"
        /\ serve' = "over"
        /\ CloseClosed
        /\ UNCHANGED <<exitCode, exitErr>>
  /\ UNCHANGED <<relayVars, listener, main, tracing, cancelled, program, status, child>>

\* Accept fails, since the listener is closed or gg is out of descriptors, and
\* a goroutine of handleTCP is started without a connection.
AcceptsNil ==
  /\ listener # "none"
  /\ Crash

-----------------------------------------------------------------------------
\* The goroutine that starts and traces the program

Done == tracing \notin {"none", "start"}

StartProcess ==
  /\ tracing = "start"
  /\ \/ tracing' = "attach" /\ program' = "running"
     \/ tracing' = "startFailed" /\ UNCHANGED program
  /\ UNCHANGED <<relayVars, serve, listener, main, closed, exitCode, exitErr,
                 cancelled, status, child>>

\* done is closed before exitErr is set.
StartFails ==
  /\ tracing = "startFailed"
  /\ tracing' = "over"
  /\ exitErr' = "start"
  /\ UNCHANGED <<relayVars, serve, listener, main, closed, exitCode, cancelled,
                 program, status, child>>

\* Faulty variant: the code is stored only together with an error.
TraceReturns_OnError(code, err) ==
  /\ tracing' = "returned"
  /\ exitCode' = IF err = None THEN exitCode ELSE code
  /\ exitErr' = err
  /\ UNCHANGED closed

\* trace() returns, and its result is stored.
TraceReturns(code, err) ==
  /\ tracing' = "returned"
  /\ exitCode' = code
  /\ exitErr' = err
  /\ UNCHANGED closed

Attach ==
  /\ tracing = "attach"
  /\ \/ tracing' = "trace" /\ UNCHANGED <<exitCode, exitErr, closed>>
     \/ TraceReturns(0, "trace")
  /\ UNCHANGED <<relayVars, serve, listener, main, cancelled, program, status, child>>

\* Wait4 reports the end of the program, and ctx is not cancelled by then.
SeeExit ==
  /\ tracing = "trace"
  /\ Gone
  /\ ~cancelled
  /\ TraceReturns(status, None)
  /\ UNCHANGED <<relayVars, serve, listener, main, cancelled, program, status, child>>

\* ctx is looked at before and after Wait4, which waits for a traced process.
\* PtraceDetach lets the started process go if it is stopped at that moment.
SeeCancel ==
  /\ tracing = "trace"
  /\ cancelled
  /\ TraceReturns(1, "canceled")
  /\ \/ UNCHANGED program
     \/ program = "running" /\ program' = "detached"
  /\ UNCHANGED <<relayVars, serve, listener, main, cancelled, status, child>>

\* A process that ends, or is killed, closes its sockets; with data unread the
\* kernel resets the connection.
ClosesSockets ==
  /\ IF Connected("up") /\ source["up"] = "open"
     THEN \E how \in {"shut", "reset"} : source' = [source EXCEPT !["up"] = how]
     ELSE UNCHANGED source
  /\ UNCHANGED <<phase, sent, copier, buf, got, failed, told, halfClose>>

\* Nothing closes a socket that another process has inherited.
Leaves(other) ==
  \/ ClosesSockets
  \/ other /\ UNCHANGED relayVars

\* Faulty variant: an error of trace() leaves the program alone.
Kill_Never ==
  /\ tracing = "returned"
  /\ tracing' = "closing"
  /\ UNCHANGED <<relayVars, program, serve, listener, main, closed, exitCode,
                 exitErr, cancelled, status, child>>

\* After an error the started process is killed, and no other.
Kill ==
  /\ tracing = "returned"
  /\ tracing' = "closing"
  /\ IF exitErr # None /\ Alive
     THEN program' = "killed" /\ Leaves(child = "running")
     ELSE UNCHANGED <<program, relayVars>>
  /\ UNCHANGED <<serve, listener, main, closed, exitCode, exitErr, cancelled,
                 status, child>>

\* Faulty variant: closed is closed only after an error.
TraceCloses_OnError ==
  /\ tracing = "closing"
  /\ tracing' = "over"
  /\ IF exitErr = None THEN UNCHANGED closed ELSE CloseClosed
  /\ UNCHANGED <<relayVars, serve, listener, main, exitCode, exitErr, cancelled,
                 program, status, child>>

TraceCloses ==
  /\ tracing = "closing"
  /\ tracing' = "over"
  /\ CloseClosed
  /\ UNCHANGED <<relayVars, serve, listener, main, exitCode, exitErr, cancelled,
                 program, status, child>>

\* The second of the two goroutines to close t.closed.
ClosesTwice ==
  /\ closed
  /\ serve = "closing" \/ tracing = "closing"
  /\ Crash

-----------------------------------------------------------------------------
\* The caller

\* The 100 ms given to the listeners are over.
Wake ==
  /\ main = "sleeping"
  /\ main' = "starting"
  /\ tracing' = "start"
  /\ UNCHANGED <<relayVars, serve, listener, closed, exitCode, exitErr,
                 cancelled, program, status, child>>

NewReturns ==
  /\ main = "starting"
  /\ Done
  /\ IF exitErr = None
     THEN main' = "waiting" /\ UNCHANGED relayVars
     ELSE GGEnds("newFailed")
  /\ UNCHANGED <<serve, listener, tracing, closed, exitCode, exitErr, cancelled,
                 program, status, child>>

\* os.Exit(code), or logrus.Fatal for any error but context.Canceled.
WaitReturns ==
  /\ main = "waiting"
  /\ closed
  /\ GGEnds(IF exitErr \in {None, "canceled"} THEN "exited" ELSE "fatal")
  /\ UNCHANGED <<serve, listener, tracing, closed, exitCode, exitErr, cancelled,
                 program, status, child>>

\* A signal cancels ctx once New has returned; before that it ends gg.
Signal ==
  \/ /\ main = "waiting"
     /\ ~cancelled
     /\ cancelled' = TRUE
     /\ UNCHANGED <<relayVars, serve, listener, main, tracing, closed, exitCode,
                    exitErr, program, status, child>>
  \/ /\ main \in {"sleeping", "starting"}
     /\ GGEnds("signalled")
     /\ Stopped

-----------------------------------------------------------------------------
\* The program, whose processes stop at every system call until trace() resumes
\* them.  The goroutine of trace() has locked its thread, which ends with it, and
\* the kernel lets a process go whose tracer has ended: untraced.

Traced == tracing = "trace" /\ (program = "running" \/ child = "running")

Resumed == tracing \in {"trace", "over"}

ProgramRuns == program = "detached" \/ (program = "running" /\ Resumed)

ChildRuns == child = "running" /\ Resumed

Connect ==
  /\ Traced
  /\ listener = "open"
  /\ Accept
  /\ UNCHANGED lifeVars

UseConnection ==
  /\ ProgramRuns \/ ChildRuns
  /\ Send("up") \/ Shut("up")
  /\ UNCHANGED lifeVars

\* TCPPort and UDPPort dereference a listener that is not there yet, or that
\* could not be opened.
NoPort ==
  /\ Traced
  /\ serve # "serving"
  /\ Crash

\* The options of ptrace make the kernel trace whatever a traced process forks.
Fork ==
  /\ tracing = "trace" /\ program = "running"
  /\ child = "none"
  /\ child' = "running"
  /\ UNCHANGED <<relayVars, serve, listener, main, tracing, closed, exitCode,
                 exitErr, cancelled, program, status>>

ProgramEnds ==
  /\ Alive
  /\ \/ ProgramRuns /\ status' \in Codes
     \/ status' = -1
  /\ program' = "ended"
  /\ Leaves(child = "running")
  /\ UNCHANGED <<serve, listener, main, tracing, closed, exitCode, exitErr,
                 cancelled, child>>

\* trace() only forgets the sockets of a process that it has not started.
ChildEnds ==
  /\ child = "running"
  /\ child' = "ended"
  /\ Leaves(Alive)
  /\ UNCHANGED <<serve, listener, main, tracing, closed, exitCode, exitErr,
                 cancelled, program, status>>

\* The node and the network.
Remote ==
  /\ Send("down") \/ Shut("down") \/ \E d \in Dir : Reset(d)
  /\ UNCHANGED lifeVars

Relay ==
  /\ Handle
  /\ UNCHANGED lifeVars

-----------------------------------------------------------------------------
Tracing == StartProcess \/ StartFails \/ Attach \/ SeeExit \/ Kill \/ TraceCloses
           \/ ClosesTwice

Caller == Wake \/ NewReturns \/ WaitReturns

Program == Connect \/ UseConnection \/ NoPort \/ Fork \/ ProgramEnds \/ ChildEnds

Next ==
  /\ ~Over
  /\ \/ ListenTCP \/ ListenUDP \/ ServeFails \/ AcceptsNil
     \/ Tracing \/ SeeCancel
     \/ Caller \/ Signal
     \/ Program \/ Remote \/ Relay

Spec == Init /\ [][Next]_vars

\* Every goroutine that can go on does.  The program does what it likes, and
\* Wait4 returns for certain only when the started process has ended.
Fairness ==
  /\ WF_vars(~Over /\ Tracing)
  /\ WF_vars(~Over /\ Gone /\ SeeCancel)
  /\ WF_vars(~Over /\ Caller)
  /\ RelayFairness

FairSpec == Spec /\ Fairness

-----------------------------------------------------------------------------
Listening == serve \in {"tcp", "udp", "serving"}

\* When gg ends by os.Exit(code), the code is the program's own status, or 1
\* after a signal; unless listening has failed meanwhile, which stores a code
\* of its own.  It is about what is stored before and after closed is closed
\* by one goroutine and read by another (tracer/tracer.go:53-59, 83-89).
ExitStatusPassedOn ==
  main = "exited" /\ Listening =>
    \/ program = "ended" /\ exitErr = None /\ exitCode = status
    \/ cancelled /\ exitErr = "canceled" /\ exitCode = 1

\* Before the tracer's thread ends, and with it the tracing of every process, the
\* process gg started is gone, whichever way trace() returned and although
\* PtraceDetach may have let it run; and so it is when Wait makes gg end, unless
\* listening has failed (tracer/tracer.go:86, 133, 144).  It is about that
\* process: one it forked is neither waited for nor killed and may run on.
ProcessNotLeft ==
  \/ tracing = "over" /\ main \notin {"crashed", "signalled"}
  \/ main \in {"exited", "fatal"} /\ Listening
  => ~Alive

\* When the program has ended, or could not be started and New learns of it,
\* gg ends too: nobody waits for a channel that nobody closes.
RunEnds ==
  (Gone \/ (tracing # "none" /\ main # "waiting" /\ exitErr # None)) ~> Over

\* README_en.md:7, "Just prefix any command with `gg` to redirect its traffic
\* through a modern proxy": what the program sent on a connection that did not
\* fail is passed on before gg ends with it.
TrafficDelivered ==
  main = "exited" /\ ~cancelled /\ phase = "cut" /\ ~failed["up"]
    /\ source \in [Dir -> {"open", "shut"}]
    => Len(got["up"]) = sent["up"]
=============================================================================
