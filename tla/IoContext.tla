------------------------------ MODULE IoContext ------------------------------
(***************************************************************************)
(* The thread behind each UDP client (boost-support socket/io_context.cpp, *)
(* utility/thread.h) and the client that starts and stops it               *)
(* (client/udp/udp_client.cpp).                                            *)
(*                                                                         *)
(* The thread holds mutex_ except while it sleeps, wakes up or runs the    *)
(* context.  Initialize and DeInitialize take mutex_; the destructor does  *)
(* not.  exit_request_ and running_ are atomics, so each of the thread's   *)
(* reads of them is a step.                                                *)
(*                                                                         *)
(* Asio is external: run() executes the handlers that are due and returns  *)
(* when the context is stopped or has no work left; restart() clears       *)
(* stopped.  The work is an open socket's receive: it ends when the socket *)
(* is closed, but a receive that had completed by then is still due.       *)
(***************************************************************************)
\* The two UDP clients of the discovery channel, each with its own context.
Clients == {"broadcast", "unicast"}

VARIABLES
    thread,        \* where each context's thread is
    exit_request,  \* exit_request_
    running,       \* running_
    stopped,       \* the context has been stopped
    work,          \* a receive is waiting
    due,           \* a completed receive's handler is due
    missed         \* (history) the destructor's notification found the thread
                   \* between its predicate and its sleep

ioVars == <<thread, exit_request, running, stopped, work, due, missed>>
flagVars == <<exit_request, running, stopped, work, due, missed>>

Locations == {"none", "lock", "loop", "test", "predicate", "block", "asleep", "woken",
              "check", "restart", "run", "handler", "ended"}

HoldsMutex(c) == thread[c] \in {"loop", "test", "predicate", "block", "check"}

IoTypeOK ==
    /\ thread \in [Clients -> Locations]
    /\ \A flag \in {exit_request, running, stopped, work, due, missed} :
          flag \in [Clients -> BOOLEAN]

IoInit ==
    /\ thread = [c \in Clients |-> "none"]
    /\ exit_request = [c \in Clients |-> FALSE]
    /\ running = [c \in Clients |-> FALSE]
    /\ stopped = [c \in Clients |-> FALSE]
    /\ work = [c \in Clients |-> FALSE]
    /\ due = [c \in Clients |-> FALSE]
    /\ missed = [c \in Clients |-> FALSE]

-----------------------------------------------------------------------------
(* The calling threads *)

\* Both clients of a channel are constructed one after the other.
Construct ==
    /\ thread' = [c \in Clients |-> "lock"]
    /\ UNCHANGED flagVars

notified(c) == [thread EXCEPT ![c] = IF @ = "asleep" THEN "woken" ELSE @]

IoInitialize(c) ==
    /\ ~HoldsMutex(c)
    /\ running' = [running EXCEPT ![c] = TRUE]
    /\ thread' = notified(c)
    /\ UNCHANGED <<exit_request, stopped, work, due, missed>>

\* UdpSocket::Open, which may fail, and the first receive.
Open(c) ==
    /\ \E opened \in BOOLEAN : work' = [work EXCEPT ![c] = opened]
    /\ UNCHANGED <<thread, exit_request, running, stopped, due, missed>>

\* UdpSocket::Close; the aborted receives only log.
Close(c) ==
    /\ work' = [work EXCEPT ![c] = FALSE]
    /\ UNCHANGED <<thread, exit_request, running, stopped, due, missed>>

IoDeInitialize(c) ==
    /\ ~HoldsMutex(c)
    /\ running' = [running EXCEPT ![c] = FALSE]
    /\ stopped' = [stopped EXCEPT ![c] = TRUE]
    /\ thread' = notified(c)
    /\ UNCHANGED <<exit_request, work, due, missed>>

\* The destructor's three stores and calls; no mutex.
RequestExit(c) ==
    /\ exit_request' = [exit_request EXCEPT ![c] = TRUE]
    /\ UNCHANGED <<thread, running, stopped, work, due, missed>>

StopRunning(c) ==
    /\ running' = [running EXCEPT ![c] = FALSE]
    /\ UNCHANGED <<thread, exit_request, stopped, work, due, missed>>

\* Mutant of NotifyExit: nobody is notified.
ExitUnnotified(c) == UNCHANGED ioVars

NotifyExit(c) ==
    /\ thread' = notified(c)
    /\ missed' = [missed EXCEPT ![c] = thread[c] = "block"]
    /\ UNCHANGED <<exit_request, running, stopped, work, due>>

Joined(c) == thread[c] = "ended"

-----------------------------------------------------------------------------
(* The context's thread *)

Goto(c, location) == thread' = [thread EXCEPT ![c] = location]

Lock(c) ==
    /\ thread[c] = "lock"
    /\ Goto(c, "loop")
    /\ UNCHANGED flagVars

\* while (!exit_request_); the loop's end releases the mutex.
Loop(c) ==
    /\ thread[c] = "loop"
    /\ Goto(c, IF exit_request[c] THEN "ended" ELSE "test")
    /\ UNCHANGED flagVars

\* if (!running_)
Test(c) ==
    /\ thread[c] = "test"
    /\ Goto(c, IF running[c] THEN "check" ELSE "predicate")
    /\ UNCHANGED flagVars

\* The condition variable's predicate; the sleep that follows is a step of its
\* own, which releases the mutex.
Predicate(c) ==
    /\ thread[c] = "predicate"
    /\ Goto(c, IF exit_request[c] \/ running[c] THEN "check" ELSE "block")
    /\ UNCHANGED flagVars

Block(c) ==
    /\ thread[c] = "block"
    /\ Goto(c, "asleep")
    /\ UNCHANGED flagVars

Wake(c) ==
    /\ thread[c] = "woken"
    /\ Goto(c, "predicate")
    /\ UNCHANGED flagVars

\* A condition variable may wake up without a notification; nothing makes it.
SpuriousWake(c) ==
    /\ thread[c] = "asleep"
    /\ Goto(c, "woken")
    /\ UNCHANGED flagVars

\* if (!exit_request_), if (running_), and unlock
Check(c) ==
    /\ thread[c] = "check"
    /\ Goto(c, IF ~exit_request[c] /\ running[c] THEN "restart" ELSE "loop")
    /\ UNCHANGED flagVars

\* restart() also takes back a stop() that has come in between.
Restart(c) ==
    /\ thread[c] = "restart"
    /\ Goto(c, "run")
    /\ stopped' = [stopped EXCEPT ![c] = FALSE]
    /\ UNCHANGED <<exit_request, running, work, due, missed>>

RunHandler(c) ==
    /\ thread[c] = "run"
    /\ ~stopped[c]
    /\ due[c]
    /\ Goto(c, "handler")
    /\ due' = [due EXCEPT ![c] = FALSE]
    /\ UNCHANGED <<exit_request, running, stopped, work, missed>>

HandlerReturns(c) ==
    /\ thread[c] = "handler"
    /\ Goto(c, "run")
    /\ UNCHANGED flagVars

RunReturns(c) ==
    /\ thread[c] = "run"
    /\ stopped[c] \/ (~work[c] /\ ~due[c])
    /\ Goto(c, "lock")
    /\ UNCHANGED flagVars

ThreadStep(c) ==
    \/ Lock(c) \/ Loop(c) \/ Test(c) \/ Predicate(c) \/ Block(c) \/ Wake(c)
    \/ Check(c) \/ Restart(c) \/ RunHandler(c) \/ HandlerReturns(c) \/ RunReturns(c)

\* The network (external): a datagram completes the receive.
Receive(c) ==
    /\ work[c]
    /\ ~due[c]
    /\ due' = [due EXCEPT ![c] = TRUE]
    /\ UNCHANGED <<thread, exit_request, running, stopped, work, missed>>
=============================================================================
