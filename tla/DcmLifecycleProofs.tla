-------------------------- MODULE DcmLifecycleProofs --------------------------
(***************************************************************************)
(* Proofs about the life of a client, for any set of configured            *)
(* conversations: its types, and that DCMClient::Shutdown leaves nothing   *)
(* behind.                                                                 *)
(*                                                                         *)
(* The argument.  DcmClientMain goes past its wait only when the           *)
(* application is in DeInitialize or later (Phases), so the two threads    *)
(* never shut conversations down at the same time, and at most one reader  *)
(* is leaving (OneLeaves).  A conversation that is not active has no       *)
(* reader and no connection, unless the application blocked for good while *)
(* it replaced one (Inactive), which keeps DcmClientMain waiting.  The two *)
(* contexts are stopped one after the other (Contexts).                    *)
(***************************************************************************)
EXTENDS DcmLifecycle, TLAPS

-----------------------------------------------------------------------------
(* The inductive invariant *)

ShuttingDown == {"close", "deinit", "conversations", "stop", "ended"}

\* How far the application's thread and DcmClientMain can be apart.
Phases ==
    /\ main \in ShuttingDown => exit_requested
    /\ exit_requested => app \in {"deinit", "out"} \cup Destroying
    /\ app \in {"out"} \cup (Destroying \ {"destroyed"}) => main = "ended"
    /\ app \in {"new", "failed"} => main = "none"
    /\ app = "destroyed" => main \in {"none", "ended"}

\* n's reader has been told to end and has not been joined.
Leaving(n) == reader[n] = "exiting" \/ (reader[n] = "ended" /\ conversation_map[n] = "kActive")

OneLeaves ==
    /\ \A n \in Conversations : Leaving(n) => app = "shutdown" \/ main = "stop"
    /\ \A m, n \in Conversations : Leaving(m) /\ Leaving(n) => m = n

\* A conversation that is not active, and one that is.
Inactive ==
    \A n \in Conversations :
        /\ reader[n] \in {"exiting", "ended"} => socket[n] = "closed"
        /\ app # "blocked" /\ conversation_map[n] # "kActive" =>
              reader[n] \in {"none", "ended"} /\ socket[n] = "closed"
        /\ main = "ended" => conversation_map[n] # "kActive"

\* Which contexts are stopped already.
Contexts ==
    /\ main = "wait" => client = "broadcast"
    /\ main = "deinit" => ~work[client]
    /\ main \in {"close", "deinit"} /\ client = "unicast" =>
          ~work["broadcast"] /\ ~running["broadcast"]
    /\ main \in {"conversations", "stop", "ended"} =>
          vd_activity = "kInactive" /\ \A c \in Clients : ~work[c] /\ ~running[c]

LifecycleInv ==
    /\ LifecycleTypeOK
    /\ Phases
    /\ OneLeaves
    /\ Inactive
    /\ Contexts

-----------------------------------------------------------------------------
(* The contexts *)

\* The types of the contexts' flags, one by one.
FlagsOK ==
    /\ thread \in [Clients -> Locations]
    /\ exit_request \in [Clients -> BOOLEAN]
    /\ running \in [Clients -> BOOLEAN]
    /\ stopped \in [Clients -> BOOLEAN]
    /\ work \in [Clients -> BOOLEAN]
    /\ due \in [Clients -> BOOLEAN]
    /\ missed \in [Clients -> BOOLEAN]

\* They are what IoTypeOK says, before and after a step.
LEMMA FlagTypes == (IoTypeOK <=> FlagsOK) /\ (IoTypeOK' <=> FlagsOK')
<1>1. IoTypeOK <=> FlagsOK
  BY Zenon DEF IoTypeOK, FlagsOK
<1>2. IoTypeOK' <=> FlagsOK'
  BY Zenon DEF IoTypeOK, FlagsOK
<1> QED
  BY <1>1, <1>2

\* What the other threads may do to the contexts.
ClientStep(c) ==
    \/ IoInitialize(c) \/ Open(c) \/ Close(c) \/ IoDeInitialize(c)
    \/ RequestExit(c) \/ StopRunning(c) \/ NotifyExit(c)

\* A step of a client or of a context's thread keeps the flags in their types.
LEMMA IoTypesKept ==
  ASSUME IoTypeOK, NEW c \in Clients,
         ClientStep(c) \/ ThreadStep(c) \/ SpuriousWake(c) \/ Receive(c)
  PROVE  IoTypeOK'
<1> SUFFICES ASSUME FlagsOK PROVE FlagsOK'
  BY FlagTypes
<1> USE DEF FlagsOK
<1>1. notified(c) \in [Clients -> Locations]
  BY DEF notified, Locations
<1>2. ASSUME NEW location \in Locations, Goto(c, location) PROVE thread' \in [Clients -> Locations]
  BY <1>2 DEF Goto
<1>3. ASSUME NEW f \in [Clients -> BOOLEAN], NEW b \in BOOLEAN
      PROVE  [f EXCEPT ![c] = b] \in [Clients -> BOOLEAN]
  OBVIOUS
<1>4. CASE IoInitialize(c) \/ IoDeInitialize(c)
  BY <1>1, <1>3, <1>4 DEF IoInitialize, IoDeInitialize
<1>5. CASE Open(c) \/ Close(c) \/ RequestExit(c) \/ StopRunning(c)
  BY <1>3, <1>5 DEF Open, Close, RequestExit, StopRunning
<1>6. CASE NotifyExit(c)
  <2> DEFINE blocked == thread[c] = "block"
  <2>1. blocked \in BOOLEAN /\ missed' = [missed EXCEPT ![c] = blocked]
    BY <1>6 DEF NotifyExit
  <2> HIDE DEF blocked
  <2> QED
    BY <1>1, <1>3, <1>6, <2>1 DEF NotifyExit
<1>7. CASE Lock(c) \/ Loop(c) \/ Test(c) \/ Predicate(c) \/ Block(c) \/ Wake(c) \/ SpuriousWake(c)
  BY <1>2, <1>7
     DEF Lock, Loop, Test, Predicate, Block, Wake, SpuriousWake, flagVars, Locations
<1>8. CASE \/ Check(c) \/ Restart(c) \/ RunHandler(c) \/ HandlerReturns(c) \/ RunReturns(c)
           \/ Receive(c)
  BY <1>2, <1>3, <1>8
     DEF Check, Restart, RunHandler, HandlerReturns, RunReturns, Receive, flagVars, Locations
<1> QED
  BY <1>4, <1>5, <1>6, <1>7, <1>8 DEF ClientStep, ThreadStep

\* That is all a step of the specification does to the contexts.
LEMMA IoSteps ==
  ASSUME LifecycleTypeOK, [Next]_vars
  PROVE  \/ UNCHANGED ioVars
         \/ Construct
         \/ \E c \in Clients : ClientStep(c) \/ ThreadStep(c) \/ SpuriousWake(c) \/ Receive(c)
<1>1. CASE MainStep
  BY <1>1
     DEF MainStep, InitializeContext, OpenClient, ExitRequested, CloseClient, DeInitializeContext,
         MainEnds, ForceShutdown, ForceShutdownReturns, ClientStep, LifecycleTypeOK
<1>2. CASE AppStep
  BY <1>2
     DEF AppStep, DeInitializeReturns, DestroyStep, ClientDestroyed, ShutdownReturns, ClientStep,
         LifecycleTypeOK
<1>3. CASE AppCalls
  BY <1>3
     DEF AppCalls, InitializeOk, InitializeFailed, GetDiagnosticClientConversationTerminates,
         DeInitialize, Destroy, GetDiagnosticClientConversation, Startup, ConnectToDiagServer,
         Shutdown
<1>4. CASE \E c \in Clients : ContextStep(c) \/ ContextDisturbed(c)
  BY <1>4 DEF ContextStep, ContextDisturbed
<1>5. CASE \E n \in Conversations : ReaderEnds(n) \/ PeerResets(n)
  BY <1>5 DEF ReaderEnds, PeerResets
<1> QED
  BY <1>1, <1>2, <1>3, <1>4, <1>5 DEF Next, vars

\* A step keeps the contexts' variables in their types.
LEMMA ContextTypes == LifecycleTypeOK /\ [Next]_vars => IoTypeOK'
<1> SUFFICES ASSUME LifecycleTypeOK, [Next]_vars PROVE IoTypeOK'
  OBVIOUS
<1>1. IoTypeOK
  BY DEF LifecycleTypeOK
<1>2. CASE UNCHANGED ioVars
  BY <1>1, <1>2, FlagTypes DEF ioVars, FlagsOK
<1>3. CASE Construct
  BY <1>1, <1>3, FlagTypes DEF Construct, flagVars, FlagsOK, Locations
<1> QED
  BY <1>1, <1>2, <1>3, IoSteps, IoTypesKept

-----------------------------------------------------------------------------
(* The steps of the threads *)

\* A step keeps all variables in their types.
LEMMA TypesKept == LifecycleTypeOK /\ [Next]_vars => LifecycleTypeOK'
<1> SUFFICES ASSUME LifecycleTypeOK, [Next]_vars PROVE LifecycleTypeOK'
  OBVIOUS
<1>1. IoTypeOK'
  BY ContextTypes
<1> USE DEF LifecycleTypeOK, conversationVars
<1>2. CASE UNCHANGED dcmVars
  BY <1>1, <1>2 DEF dcmVars
<1>3. CASE \/ InitializeContext \/ OpenClient \/ ExitRequested \/ CloseClient \/ DeInitializeContext
           \/ MainEnds
  BY <1>1, <1>3
     DEF InitializeContext, OpenClient, ExitRequested, CloseClient, DeInitializeContext, MainEnds,
         AdvanceTo, Clients
<1>4. ASSUME NEW n \in Conversations, ForceShutdown(n) \/ Shutdown(n) PROVE LifecycleTypeOK'
  BY <1>1, <1>4 DEF ForceShutdown, Shutdown, StopConnection
<1>5. ASSUME NEW n \in Conversations, ForceShutdownReturns(n) \/ ShutdownReturns(n)
      PROVE  LifecycleTypeOK'
  BY <1>1, <1>5 DEF ForceShutdownReturns, ShutdownReturns, Stopped
<1>6. CASE DeInitializeReturns \/ DestroyStep \/ ClientDestroyed
  BY <1>1, <1>6 DEF DeInitializeReturns, DestroyStep, ClientDestroyed, Destroying, Clients
<1>7. CASE \/ InitializeOk \/ InitializeFailed \/ GetDiagnosticClientConversationTerminates
           \/ DeInitialize \/ Destroy
  BY <1>1, <1>7, ZenonT(60)
     DEF InitializeOk, InitializeFailed, GetDiagnosticClientConversationTerminates, DeInitialize,
         Destroy, Destroying
<1>8. ASSUME NEW n \in Conversations,
             GetDiagnosticClientConversation(n) \/ Startup(n) \/ ConnectToDiagServer(n)
      PROVE  LifecycleTypeOK'
  BY <1>1, <1>8 DEF GetDiagnosticClientConversation, Startup, ConnectToDiagServer
<1>9. ASSUME NEW n \in Conversations, ReaderEnds(n) \/ PeerResets(n) PROVE LifecycleTypeOK'
  BY <1>1, <1>9 DEF ReaderEnds, PeerResets
<1> QED
  BY <1>2, <1>3, <1>4, <1>5, <1>6, <1>7, <1>8, <1>9
     DEF Next, vars, MainStep, AppStep, AppCalls, ContextStep, ContextDisturbed

\* A step keeps the two threads' phases together.
LEMMA PhasesKept == LifecycleTypeOK /\ Phases /\ [Next]_vars => Phases'
<1> SUFFICES ASSUME LifecycleTypeOK, Phases, [Next]_vars PROVE Phases'
  OBVIOUS
<1> USE DEF Phases, ShuttingDown, Destroying
<1>1. CASE UNCHANGED <<app, main, exit_requested>>
  BY <1>1
<1>2. CASE \/ InitializeContext \/ OpenClient \/ ExitRequested \/ CloseClient \/ DeInitializeContext
           \/ MainEnds
  BY <1>2
     DEF InitializeContext, OpenClient, ExitRequested, CloseClient, DeInitializeContext, MainEnds,
         AdvanceTo
<1>3. ASSUME NEW n \in Conversations, ForceShutdown(n) \/ ForceShutdownReturns(n) PROVE Phases'
  BY <1>3 DEF ForceShutdown, ForceShutdownReturns
<1>4. ASSUME NEW n \in Conversations, Shutdown(n) \/ ShutdownReturns(n) PROVE Phases'
  BY <1>4 DEF Shutdown, ShutdownReturns
<1>5. CASE DeInitializeReturns \/ DestroyStep \/ ClientDestroyed
  BY <1>5 DEF DeInitializeReturns, DestroyStep, ClientDestroyed
<1>6. CASE \/ InitializeOk \/ InitializeFailed \/ GetDiagnosticClientConversationTerminates
           \/ DeInitialize \/ Destroy
  BY <1>6
     DEF InitializeOk, InitializeFailed, GetDiagnosticClientConversationTerminates, DeInitialize,
         Destroy
<1>7. ASSUME NEW n \in Conversations,
             GetDiagnosticClientConversation(n) \/ Startup(n) \/ ConnectToDiagServer(n)
      PROVE  Phases'
  BY <1>7 DEF GetDiagnosticClientConversation, Startup, ConnectToDiagServer
<1>8. ASSUME NEW n \in Conversations, ReaderEnds(n) \/ PeerResets(n) PROVE Phases'
  BY <1>8 DEF ReaderEnds, PeerResets
<1> QED
  BY <1>1, <1>2, <1>3, <1>4, <1>5, <1>6, <1>7, <1>8
     DEF Next, vars, dcmVars, MainStep, AppStep, AppCalls, ContextStep, ContextDisturbed

\* A step keeps at most one reader leaving, and a conversation that is not active
\* without a reader and without a connection.
LEMMA ConversationsKept ==
  LifecycleTypeOK /\ Phases /\ OneLeaves /\ Inactive /\ [Next]_vars => OneLeaves' /\ Inactive'
<1> SUFFICES ASSUME LifecycleTypeOK, Phases, OneLeaves, Inactive, [Next]_vars
             PROVE  OneLeaves' /\ Inactive'
  OBVIOUS
<1> USE DEF OneLeaves, Inactive, Leaving
<1>1. /\ conversation_map \in [Conversations -> {"none", "kInactive", "kActive"}]
      /\ reader \in [Conversations -> {"none", "running", "exiting", "ended"}]
      /\ socket \in [Conversations -> {"open", "connected", "reset", "closed"}]
  BY DEF LifecycleTypeOK
<1>2. app = "idle" => main \notin ShuttingDown /\ \A n \in Conversations : ~Leaving(n)
  BY DEF Phases, Destroying, ShuttingDown
<1>3. main \in {"conversations", "stop"} => app \notin {"idle", "shutdown", "blocked"}
  BY DEF Phases, Destroying, ShuttingDown
<1>4. ASSUME UNCHANGED conversationVars, app' # "blocked" => app # "blocked",
             app = "shutdown" => app' = "shutdown", main = "stop" => main' = "stop",
             main' = "ended" => \A n \in Conversations : conversation_map[n] # "kActive"
      PROVE  OneLeaves' /\ Inactive'
  BY <1>4 DEF conversationVars
<1>5. CASE \/ InitializeContext \/ OpenClient \/ ExitRequested \/ CloseClient \/ DeInitializeContext
           \/ MainEnds
  BY <1>4, <1>5
     DEF InitializeContext, OpenClient, ExitRequested, CloseClient, DeInitializeContext, MainEnds,
         AdvanceTo
<1>6. CASE DeInitializeReturns \/ DestroyStep \/ ClientDestroyed
  BY <1>4, <1>6 DEF DeInitializeReturns, DestroyStep, ClientDestroyed
<1>7. CASE \/ InitializeOk \/ InitializeFailed \/ GetDiagnosticClientConversationTerminates
           \/ DeInitialize \/ Destroy
  BY <1>4, <1>7, <1>2
     DEF InitializeOk, InitializeFailed, GetDiagnosticClientConversationTerminates, DeInitialize,
         Destroy, Phases
<1>8. ASSUME NEW n \in Conversations, ForceShutdown(n) PROVE OneLeaves' /\ Inactive'
  BY <1>1, <1>3, <1>8 DEF ForceShutdown, StopConnection
<1>9. ASSUME NEW n \in Conversations, ForceShutdownReturns(n) PROVE OneLeaves' /\ Inactive'
  BY <1>1, <1>3, <1>9 DEF ForceShutdownReturns, Stopped
<1>10. ASSUME NEW n \in Conversations, Shutdown(n) PROVE OneLeaves' /\ Inactive'
  BY <1>1, <1>2, <1>10 DEF Shutdown, StopConnection, ShuttingDown
<1>11. ASSUME NEW n \in Conversations, ShutdownReturns(n) PROVE OneLeaves' /\ Inactive'
  BY <1>1, <1>3, <1>11 DEF ShutdownReturns, Stopped
<1>12. ASSUME NEW n \in Conversations, GetDiagnosticClientConversation(n)
       PROVE  OneLeaves' /\ Inactive'
  BY <1>1, <1>2, <1>12 DEF GetDiagnosticClientConversation
<1>13. ASSUME NEW n \in Conversations, Startup(n) PROVE OneLeaves' /\ Inactive'
  BY <1>1, <1>2, <1>13 DEF Startup, ShuttingDown
<1>14. ASSUME NEW n \in Conversations, ConnectToDiagServer(n) PROVE OneLeaves' /\ Inactive'
  BY <1>1, <1>2, <1>14 DEF ConnectToDiagServer
<1>15. ASSUME NEW n \in Conversations, ReaderEnds(n) PROVE OneLeaves' /\ Inactive'
  BY <1>1, <1>15 DEF ReaderEnds
<1>16. ASSUME NEW n \in Conversations, PeerResets(n) PROVE OneLeaves' /\ Inactive'
  BY <1>1, <1>16 DEF PeerResets
<1>17. CASE UNCHANGED dcmVars
  BY <1>4, <1>17 DEF dcmVars, conversationVars
<1> QED
  BY <1>5, <1>6, <1>7, <1>8, <1>9, <1>10, <1>11, <1>12, <1>13, <1>14, <1>15, <1>16, <1>17
     DEF Next, vars, MainStep, AppStep, AppCalls, ContextStep, ContextDisturbed

\* A step keeps the contexts stopped that DcmClientMain has stopped.
LEMMA ContextsKept == LifecycleTypeOK /\ Phases /\ Contexts /\ [Next]_vars => Contexts'
<1> SUFFICES ASSUME LifecycleTypeOK, Phases, Contexts, [Next]_vars PROVE Contexts'
  OBVIOUS
<1>1. FlagsOK /\ client \in Clients
  BY FlagTypes DEF LifecycleTypeOK
<1> USE DEF Contexts
<1>2. ASSUME UNCHANGED <<main, client, vd_activity>>,
             \A c \in Clients : (work'[c] => work[c]) /\ (running'[c] => running[c])
      PROVE  Contexts'
  BY <1>1, <1>2 DEF Clients
<1>3. CASE InitializeContext
  BY <1>3 DEF InitializeContext
<1>4. CASE OpenClient
  BY <1>4 DEF OpenClient, AdvanceTo
<1>5. CASE ExitRequested
  BY <1>5 DEF ExitRequested
<1>6. CASE CloseClient
  BY <1>1, <1>6 DEF CloseClient, Close, Clients, FlagsOK
<1>7. CASE DeInitializeContext
  BY <1>1, <1>7 DEF DeInitializeContext, IoDeInitialize, AdvanceTo, Clients, FlagsOK
<1>8. CASE MainEnds \/ \E n \in Conversations : ForceShutdown(n) \/ ForceShutdownReturns(n)
  BY <1>8 DEF MainEnds, ForceShutdown, ForceShutdownReturns, ioVars
<1>9. CASE AppStep
  <2>1. CASE DeInitializeReturns \/ \E n \in Conversations : ShutdownReturns(n)
    BY <1>2, <2>1 DEF DeInitializeReturns, ShutdownReturns, ioVars
  <2>2. CASE DestroyStep
    BY <1>1, <1>2, <2>2
       DEF DestroyStep, Close, RequestExit, StopRunning, NotifyExit, FlagsOK
  <2>3. CASE ClientDestroyed
    BY <2>3 DEF ClientDestroyed, Phases, Destroying, ioVars
  <2> QED
    BY <1>9, <2>1, <2>2, <2>3 DEF AppStep
<1>10. CASE AppCalls
  <2>1. CASE InitializeOk
    BY <2>1 DEF InitializeOk
  <2>2. CASE AppCalls /\ ~InitializeOk
    BY <1>2, <2>2
       DEF AppCalls, InitializeFailed, GetDiagnosticClientConversationTerminates, DeInitialize,
           Destroy, GetDiagnosticClientConversation, Startup, ConnectToDiagServer, Shutdown, ioVars
  <2> QED
    BY <1>10, <2>1, <2>2
<1>11. ASSUME NEW c \in Clients, ContextStep(c) \/ ContextDisturbed(c) PROVE Contexts'
  BY <1>2, <1>11
     DEF ContextStep, ContextDisturbed, ThreadStep, Lock, Loop, Test, Predicate, Block, Wake, Check,
         Restart, RunHandler, HandlerReturns, RunReturns, SpuriousWake, Receive, flagVars, dcmVars
<1>12. CASE UNCHANGED vars \/ \E n \in Conversations : ReaderEnds(n) \/ PeerResets(n)
  BY <1>2, <1>12 DEF vars, ReaderEnds, PeerResets, ioVars, dcmVars
<1> QED
  BY <1>3, <1>4, <1>5, <1>6, <1>7, <1>8, <1>9, <1>10, <1>11, <1>12 DEF Next, MainStep

-----------------------------------------------------------------------------
(* The theorems *)

\* LifecycleInv is an invariant of the client's life, for any conversations.
THEOREM LifecycleInvariant == Spec => []LifecycleInv
<1>1. Init => LifecycleInv
  <2> SUFFICES ASSUME Init PROVE LifecycleInv
    OBVIOUS
  <2>1. IoTypeOK
    BY FlagTypes DEF Init, IoInit, FlagsOK, Locations
  <2>2. LifecycleTypeOK
    BY <2>1 DEF Init, StoreConversationConfig, LifecycleTypeOK, Clients
  <2>3. Phases /\ OneLeaves /\ Inactive /\ Contexts
    BY DEF Init, StoreConversationConfig, Phases, ShuttingDown, Destroying, OneLeaves, Leaving,
           Inactive, Contexts
  <2> QED
    BY <2>2, <2>3 DEF LifecycleInv
<1>2. LifecycleInv /\ [Next]_vars => LifecycleInv'
  BY TypesKept, PhasesKept, ConversationsKept, ContextsKept DEF LifecycleInv
<1> QED
  BY <1>1, <1>2, PTL DEF Spec

\* The variables of the client's life keep their types.
THEOREM LifecycleTypeCorrect == Spec => []LifecycleTypeOK
<1>1. LifecycleInv => LifecycleTypeOK
  BY DEF LifecycleInv
<1> QED
  BY <1>1, LifecycleInvariant, PTL

\* Once DcmClientMain has ended, however many conversations there are and whatever
\* they were doing when the exit request came, DCMClient::Shutdown has left no
\* active conversation, no reader, no connection and no running context.
THEOREM NothingIsLeft == Spec => []DeInitializeLeavesNothing
<1>1. LifecycleInv => DeInitializeLeavesNothing
  <2> SUFFICES ASSUME LifecycleInv, main = "ended" PROVE DeInitializeLeavesNothing
    BY DEF DeInitializeLeavesNothing
  <2>1. app \notin {"blocked", "shutdown"}
    BY DEF LifecycleInv, Phases, ShuttingDown, Destroying
  <2>2. ASSUME NEW n \in Conversations
        PROVE  /\ conversation_map[n] # "kActive"
               /\ reader[n] \in {"none", "ended"}
               /\ socket[n] \notin {"connected", "reset"}
    BY <2>1, <2>2 DEF LifecycleInv, Inactive
  <2> QED
    BY <2>2 DEF LifecycleInv, Contexts, DeInitializeLeavesNothing
<1> QED
  BY <1>1, LifecycleInvariant, PTL
===============================================================================
