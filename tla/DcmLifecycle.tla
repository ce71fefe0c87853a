---------------------------- MODULE DcmLifecycle ----------------------------
(***************************************************************************)
(* The life of a DiagClient: Initialize, the conversations it hands out,   *)
(* DeInitialize and its destruction (diagnostic_client.cpp,                *)
(* dcm_client.cpp, diagnostic_manager.cpp, conversation_manager.cpp).      *)
(*                                                                         *)
(* The application's thread makes the calls.  DcmClientMain starts the     *)
(* vehicle discovery, waits for the exit request and shuts everything      *)
(* down.  The threads of the two UDP clients are IoContext's.  Of a        *)
(* conversation's connection this module keeps whether its reader runs and *)
(* whether its socket is connected; TcpConnection has the rest.            *)
(*                                                                         *)
(* The application keeps to the documented order: one Initialize, one      *)
(* Startup per conversation, and no other call after DeInitialize.         *)
(***************************************************************************)
EXTENDS IoContext

CONSTANT Conversations  \* the names of the configured conversations

VARIABLES
    app,             \* where the application's thread is
    main,            \* where DcmClientMain is
    client,          \* the UDP client that thread, or the destructor, works on
    exit_requested,  \* DiagnosticManager's exit_requested_
    vd_activity,     \* the vehicle discovery conversation's activity_status_
    conversation_map,\* per name, the activity_status_ of its conversation, if any
    reader,          \* per name, the connection's reader thread
    socket,          \* per name, the connection's socket
    terminated       \* std::terminate has been called

dcmVars == <<app, main, client, exit_requested, vd_activity, conversation_map, reader,
             socket, terminated>>
vars == <<ioVars, dcmVars>>

conversationVars == <<conversation_map, reader, socket>>

Destroying == {"close", "exit", "running", "notify", "join", "destroyed"}

\* The variables have their types, and a conversation that says it is active has
\* had its reader thread started: Shutdown is called for it and joins the thread.
LifecycleTypeOK ==
    /\ IoTypeOK
    /\ app \in {"new", "idle", "failed", "shutdown", "deinit", "out", "blocked"} \cup Destroying
    /\ main \in {"none", "context", "open", "wait", "close", "deinit", "conversations",
                 "stop", "ended"}
    /\ client \in Clients
    /\ exit_requested \in BOOLEAN
    /\ vd_activity \in {"kInactive", "kActive"}
    /\ conversation_map \in [Conversations -> {"none", "kInactive", "kActive"}]
    /\ reader \in [Conversations -> {"none", "running", "exiting", "ended"}]
    /\ socket \in [Conversations -> {"open", "connected", "reset", "closed"}]
    /\ terminated \in BOOLEAN
    /\ \A n \in Conversations : conversation_map[n] = "kActive" => reader[n] # "none"

\* Every configured name has an entry, without a conversation yet.
StoreConversationConfig == conversation_map = [n \in Conversations |-> "none"]

Init ==
    /\ IoInit
    /\ app = "new"
    /\ main = "none"
    /\ client = "broadcast"
    /\ exit_requested = FALSE
    /\ vd_activity = "kInactive"
    /\ StoreConversationConfig
    /\ reader = [n \in Conversations |-> "none"]
    /\ socket = [n \in Conversations |-> "closed"]
    /\ terminated = FALSE

-----------------------------------------------------------------------------
(* The application's thread *)

\* The DCMClient's constructor creates the discovery conversation and with it
\* the UDP clients and their threads; then DcmClientMain is started.
InitializeOk ==
    /\ app = "new"
    /\ app' = "idle"
    /\ main' = "context"
    /\ Construct
    /\ UNCHANGED <<client, exit_requested, vd_activity, conversationVars, terminated>>

\* The configuration cannot be read: there is no DCMClient.
InitializeFailed ==
    /\ app = "new"
    /\ app' = "failed"
    /\ UNCHANGED <<ioVars, main, client, exit_requested, vd_activity, conversationVars, terminated>>

\* Without a DCMClient, or with a name that is not configured, the process is
\* terminated on purpose.
GetDiagnosticClientConversationTerminates ==
    /\ app \in {"new", "failed", "idle"}
    /\ terminated' = TRUE
    /\ UNCHANGED <<ioVars, app, main, client, exit_requested, vd_activity, conversationVars>>

\* Every call creates a conversation, which replaces an earlier one of that
\* name.  The destruction of one that is active joins a reader thread that
\* nobody has asked to end.
GetDiagnosticClientConversation(n) ==
    /\ app = "idle"
    /\ conversation_map' = [conversation_map EXCEPT ![n] = "kInactive"]
    /\ IF reader[n] = "running"
       THEN app' = "blocked" /\ UNCHANGED <<reader, socket>>
       ELSE /\ reader' = [reader EXCEPT ![n] = "none"]
            /\ socket' = [socket EXCEPT ![n] = "closed"]
            /\ UNCHANGED app
    /\ UNCHANGED <<ioVars, main, client, exit_requested, vd_activity, terminated>>

\* Mutant of Startup: the connection is not started.
StartupWithoutConnection(n) ==
    /\ app = "idle"
    /\ conversation_map[n] = "kInactive"
    /\ reader[n] = "none"
    /\ conversation_map' = [conversation_map EXCEPT ![n] = "kActive"]
    /\ UNCHANGED <<ioVars, app, main, client, exit_requested, vd_activity, reader, socket,
                   terminated>>

Startup(n) ==
    /\ app = "idle"
    /\ conversation_map[n] = "kInactive"
    /\ reader[n] = "none"
    /\ conversation_map' = [conversation_map EXCEPT ![n] = "kActive"]
    /\ reader' = [reader EXCEPT ![n] = "running"]
    /\ \E opened \in {"open", "closed"} : socket' = [socket EXCEPT ![n] = opened]
    /\ UNCHANGED <<ioVars, app, main, client, exit_requested, vd_activity, terminated>>

\* A disconnect needs no action of its own: it shuts the connection down without
\* closing the socket, which a Close finds connected all the same until the server
\* has ended its side too (PeerResets); its handlers are in DoipTcpChannel.
ConnectToDiagServer(n) ==
    /\ app = "idle"
    /\ conversation_map[n] = "kActive"
    /\ socket[n] \in {"open", "closed"}
    /\ socket' = [socket EXCEPT ![n] = "connected"]
    /\ UNCHANGED <<ioVars, app, main, client, exit_requested, vd_activity, conversation_map,
                   reader, terminated>>

\* Connection::Stop up to the join: TcpSocket::Close throws in a noexcept
\* function unless the socket is connected; then the reader is told to end.
StopConnection(n) ==
    \/ /\ socket[n] = "connected"
       /\ socket' = [socket EXCEPT ![n] = "closed"]
       /\ reader' = [reader EXCEPT ![n] = "exiting"]
       /\ UNCHANGED terminated
    \/ /\ socket[n] # "connected"
       /\ terminated' = TRUE
       /\ UNCHANGED <<socket, reader>>

\* The reader has been joined.
Stopped(n) ==
    /\ reader[n] = "ended"
    /\ conversation_map[n] = "kActive"
    /\ conversation_map' = [conversation_map EXCEPT ![n] = "kInactive"]
    /\ UNCHANGED <<reader, socket, terminated>>

\* Nothing happens if the conversation is not active.
Shutdown(n) ==
    /\ app = "idle"
    /\ conversation_map[n] = "kActive"
    /\ app' = "shutdown"
    /\ StopConnection(n)
    /\ UNCHANGED <<ioVars, main, client, exit_requested, vd_activity, conversation_map>>

ShutdownReturns(n) ==
    /\ app = "shutdown"
    /\ Stopped(n)
    /\ app' = "idle"
    /\ UNCHANGED <<ioVars, main, client, exit_requested, vd_activity>>

\* Mutant of DeInitialize: nobody tells DcmClientMain.
DeInitializeUnsignalled ==
    /\ app = "idle"
    /\ app' = "deinit"
    /\ UNCHANGED <<ioVars, main, client, exit_requested, vd_activity, conversationVars, terminated>>

\* SignalShutdown, under the mutex that DcmClientMain's wait holds.
DeInitialize ==
    /\ app = "idle"
    /\ app' = "deinit"
    /\ exit_requested' = TRUE
    /\ UNCHANGED <<ioVars, main, client, vd_activity, conversationVars, terminated>>

DeInitializeReturns ==
    /\ app = "deinit"
    /\ main = "ended"
    /\ app' = "out"
    /\ UNCHANGED <<ioVars, main, client, exit_requested, vd_activity, conversationVars, terminated>>

-----------------------------------------------------------------------------
(* DcmClientMain *)

\* The clients are started in this order, stopped in this order, and destroyed
\* in the opposite one.
AdvanceTo(again, done) ==
    /\ main' = IF client = "broadcast" THEN again ELSE done
    /\ client' = IF client = "broadcast" THEN "unicast" ELSE
                 IF done = "conversations" THEN client ELSE "broadcast"

InitializeContext ==
    /\ main = "context"
    /\ IoInitialize(client)
    /\ main' = "open"
    /\ UNCHANGED <<app, client, exit_requested, vd_activity, conversationVars, terminated>>

OpenClient ==
    /\ main = "open"
    /\ Open(client)
    /\ AdvanceTo("context", "wait")
    /\ vd_activity' = IF client = "unicast" THEN "kActive" ELSE vd_activity
    /\ UNCHANGED <<app, exit_requested, conversationVars, terminated>>

\* Main's wait, and Shutdown: the discovery first.
ExitRequested ==
    /\ main = "wait"
    /\ exit_requested
    /\ vd_activity = "kActive"
    /\ main' = "close"
    /\ UNCHANGED <<ioVars, app, client, exit_requested, vd_activity, conversationVars, terminated>>

\* Mutant of CloseClient: the socket is left open.
ClientLeftOpen ==
    /\ main = "close"
    /\ main' = "deinit"
    /\ UNCHANGED <<ioVars, app, client, exit_requested, vd_activity, conversationVars, terminated>>

CloseClient ==
    /\ main = "close"
    /\ Close(client)
    /\ main' = "deinit"
    /\ UNCHANGED <<app, client, exit_requested, vd_activity, conversationVars, terminated>>

DeInitializeContext ==
    /\ main = "deinit"
    /\ IoDeInitialize(client)
    /\ AdvanceTo("close", "conversations")
    /\ vd_activity' = IF client = "unicast" THEN "kInactive" ELSE vd_activity
    /\ UNCHANGED <<app, exit_requested, conversationVars, terminated>>

\* ConversationManager::Shutdown: a conversation that is still active.
ForceShutdown(n) ==
    /\ main = "conversations"
    /\ conversation_map[n] = "kActive"
    /\ main' = "stop"
    /\ StopConnection(n)
    /\ UNCHANGED <<ioVars, app, client, exit_requested, vd_activity, conversation_map>>

ForceShutdownReturns(n) ==
    /\ main = "stop"
    /\ Stopped(n)
    /\ main' = "conversations"
    /\ UNCHANGED <<ioVars, app, client, exit_requested, vd_activity>>

\* Mutant of MainEnds: the active conversations are left to the application.
MainEndsEarly ==
    /\ main = "conversations"
    /\ main' = "ended"
    /\ UNCHANGED <<ioVars, app, client, exit_requested, vd_activity, conversationVars, terminated>>

MainEnds ==
    /\ main = "conversations"
    /\ \A n \in Conversations : conversation_map[n] # "kActive"
    /\ main' = "ended"
    /\ UNCHANGED <<ioVars, app, client, exit_requested, vd_activity, conversationVars, terminated>>

-----------------------------------------------------------------------------
(* Destruction *)

\* Without a DCMClient there is nothing to destroy.  Without DeInitialize the
\* destructor joins a DcmClientMain that nobody has asked to end.
Destroy ==
    /\ \/ app \in {"new", "failed"} /\ app' = "destroyed"
       \/ app = "idle" /\ app' = "blocked"
       \/ app = "out" /\ app' = "close"
    /\ UNCHANGED <<ioVars, main, client, exit_requested, vd_activity, conversationVars, terminated>>

\* A UDP client's destructor: the socket, then the context.
DestroyStep ==
    /\ \/ app = "close" /\ Close(client) /\ app' = "exit"
       \/ app = "exit" /\ RequestExit(client) /\ app' = "running"
       \/ app = "running" /\ StopRunning(client) /\ app' = "notify"
       \/ app = "notify" /\ NotifyExit(client) /\ app' = "join"
    /\ UNCHANGED <<main, client, exit_requested, vd_activity, conversationVars, terminated>>

ClientDestroyed ==
    /\ app = "join"
    /\ Joined(client)
    /\ app' = IF client = "unicast" THEN "close" ELSE "destroyed"
    /\ client' = "broadcast"
    /\ UNCHANGED <<ioVars, main, exit_requested, vd_activity, conversationVars, terminated>>

-----------------------------------------------------------------------------
(* Other threads and the network *)

ContextStep(c) ==
    /\ ThreadStep(c)
    /\ UNCHANGED dcmVars

ContextDisturbed(c) ==
    /\ SpuriousWake(c) \/ Receive(c)
    /\ UNCHANGED dcmVars

ReaderEnds(n) ==
    /\ reader[n] = "exiting"
    /\ reader' = [reader EXCEPT ![n] = "ended"]
    /\ UNCHANGED <<ioVars, app, main, client, exit_requested, vd_activity, conversation_map,
                   socket, terminated>>

\* The server resets the connection.
PeerResets(n) ==
    /\ socket[n] = "connected"
    /\ socket' = [socket EXCEPT ![n] = "reset"]
    /\ UNCHANGED <<ioVars, app, main, client, exit_requested, vd_activity, conversation_map,
                   reader, terminated>>

MainStep ==
    \/ InitializeContext \/ OpenClient \/ ExitRequested \/ CloseClient \/ DeInitializeContext
    \/ MainEnds
    \/ \E n \in Conversations : ForceShutdown(n) \/ ForceShutdownReturns(n)

AppStep ==
    \/ DeInitializeReturns \/ DestroyStep \/ ClientDestroyed
    \/ \E n \in Conversations : ShutdownReturns(n)

AppCalls ==
    \/ InitializeOk \/ InitializeFailed \/ GetDiagnosticClientConversationTerminates
    \/ DeInitialize \/ Destroy
    \/ \E n \in Conversations :
          GetDiagnosticClientConversation(n) \/ Startup(n) \/ ConnectToDiagServer(n) \/ Shutdown(n)

Next ==
    /\ ~terminated
    /\ \/ MainStep \/ AppStep \/ AppCalls
       \/ \E c \in Clients : ContextStep(c) \/ ContextDisturbed(c)
       \/ \E n \in Conversations : ReaderEnds(n) \/ PeerResets(n)

\* Threads that can go on do.  DcmClientMain gets a mutex that is released
\* again and again (strong fairness): the context's thread, which has no work
\* while its socket is closed, takes it in a loop.
Fairness ==
    /\ SF_vars(~terminated /\ MainStep)
    /\ WF_vars(~terminated /\ AppStep)
    /\ \A c \in Clients : WF_vars(~terminated /\ ContextStep(c))
    /\ \A n \in Conversations : WF_vars(~terminated /\ ReaderEnds(n))

Spec == Init /\ [][Next]_vars /\ Fairness

-----------------------------------------------------------------------------
(* Properties *)

\* Once DcmClientMain has ended, whenever the exit request came and whatever
\* the conversations were doing then, no conversation is active, no reader
\* thread is left, the sockets are closed and no context is to be run: what
\* DCMClient::Shutdown is for.
DeInitializeLeavesNothing ==
    main = "ended" =>
        /\ \A n \in Conversations :
              /\ conversation_map[n] # "kActive"
              /\ reader[n] \in {"none", "ended"}
              /\ socket[n] \notin {"connected", "reset"}
        /\ vd_activity = "kInactive"
        /\ \A c \in Clients : ~running[c] /\ ~work[c]

\* DeInitialize returns, even when it comes before DcmClientMain has started,
\* unless forcing a conversation down terminates the process.
DeInitializeEnds == (app = "deinit") ~> (app = "out" \/ terminated)

\* A client that is stopped and not destroyed uses no processor time: each
\* context's thread goes to sleep, even one whose restart() takes the stop()
\* back, because its socket has been closed before.
StoppedContextSleeps ==
    \A c \in Clients : (app = "out") ~> (thread[c] \in {"asleep", "ended"})

\* The destruction of a de-initialized client ends, unless the notification of
\* an IoContext's destructor, which does not hold the mutex, comes between the
\* thread's look at the flags and its sleep.
DestructionEnds ==
    (app = "close") ~> (app = "destroyed" \/ \E c \in Clients : missed[c])
=============================================================================
