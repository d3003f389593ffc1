---------------------------- MODULE ConnectionTest ----------------------------
(***************************************************************************)
(* The PS3 matchmaking sample, src/exercises/networking/ConnectionTest.cpp. *)
(*                                                                         *)
(* Application's constructor builds System, Manager and MatchMaker through *)
(* Using<T>, which runs each Initialize in that order; main then calls     *)
(* Application::Update until it returns false.  Manager::Initialize polls  *)
(* for the local user ten times, pumping the NP manager callback between   *)
(* tries.  MatchMaker::Initialize starts the matching context              *)
(* asynchronously and only then registers context_event_cb and             *)
(* request_event_cb.  The server list is filled by the context's Start     *)
(* event; TryGetServerInfo issues a request and records its id with an     *)
(* Updater pointing at the Application's Server; request_event_cb finds    *)
(* the id, erases it and writes READY or ERROR through the Updater.        *)
(*                                                                         *)
(* Library callbacks are steps of their own, interleaved between the       *)
(* program's steps.  Server data is abstracted to whether the server's     *)
(* status is AVAILABLE, the server id list to its length, request ids to   *)
(* a small set the library draws fresh ids from.                           *)
(***************************************************************************)
EXTENDS Naturals, Sequences, SequencesExt, FiniteSets

CONSTANTS
  ReqIds,        \* SceNpMatching2RequestId values the library hands out
  ServerCounts,  \* lengths sceNpMatching2GetServerIdListLocal may report
  Indices,       \* the index argument callers pass to TryGetServerInfo
  MaxTries       \* Manager::Initialize's `sec`: tries for the local user

ASSUME ServerCounts \subseteq Nat /\ Indices \subseteq Int /\ MaxTries \in Nat

VARIABLES
  phase,         \* where the program is: "manager_init", "mm_init",
                 \* "mm_register", "loop", "exited" (main's loop is over),
                 \* then "mm_final", "manager_final", "done" as
                 \* ~Application finalizes its components
  tries,         \* the loop counter i of Manager::Initialize
  online,        \* Manager::m_online, written by manager_cb
  managerUser,   \* Manager::m_local was filled by TryGetLocalUser
  mmUser,        \* MatchMaker::m_local was filled by TryGetLocalUser
  registered,    \* context_event_cb / request_event_cb are registered
  ctxPending,    \* the context Start event is still to be delivered
  servers,       \* m_servers.size
  requestQueue,  \* MatchMaker::m_request_queue
  updaterQueue,  \* MatchMaker::m_updater_queue (targets: the Server)
  inflight,      \* requests the library has yet to answer
  lastIndex,     \* the index TryGetServerInfo last read m_servers.data at
  appState,      \* Application::state
  serverState,   \* Application::server.state (Status)
  available      \* server.info.server.status == ..._AVAILABLE

vars == <<phase, tries, online, managerUser, mmUser, registered, ctxPending,
          servers, requestQueue, updaterQueue, inflight, lastIndex, appState,
          serverState, available>>

\* Status's enumeration
StatusValues == {"NONE", "WAITING", "ABORTED", "READY", "ERROR"}

\* Application's enumeration
AppStates == {"START", "RUNNING", "SEARCHING", "STOP"}

\* TryGetLocalUser succeeds exactly when manager_cb has reported ONLINE
TryGetLocalUser == online

\* one pass of Manager::Initialize's for loop: break on success, otherwise
\* pump callbacks (manager_cb is its own step) and sleep
ManagerInitTry ==
  /\ phase = "manager_init"
  /\ tries < MaxTries
  /\ IF TryGetLocalUser
       THEN managerUser' = TRUE /\ phase' = "mm_init" /\ UNCHANGED tries
       ELSE tries' = tries + 1 /\ UNCHANGED <<managerUser, phase>>
  /\ UNCHANGED <<online, mmUser, registered, ctxPending, servers, requestQueue,
                 updaterQueue, inflight, lastIndex, appState, serverState,
                 available>>

\* the loop ran out of tries: ASSERTF(res == 1) is compiled out of release
\* builds, so Initialize goes on to create the lookup context
ManagerInitGiveUp ==
  /\ phase = "manager_init"
  /\ tries = MaxTries
  /\ phase' = "mm_init"
  /\ UNCHANGED <<tries, online, managerUser, mmUser, registered, ctxPending,
                 servers, requestQueue, updaterQueue, inflight, lastIndex,
                 appState, serverState, available>>

\* manager_cb, run by cellSysutilCheckCallback: OFFLINE and ONLINE set
\* m_online, other statuses leave it alone
ManagerCallback ==
  /\ phase \in {"manager_init", "loop"}
  /\ \E status \in {"OFFLINE", "ONLINE"} : online' = (status = "ONLINE")
  /\ online' # online
  /\ UNCHANGED <<phase, tries, managerUser, mmUser, registered, ctxPending,
                 servers, requestQueue, updaterQueue, inflight, lastIndex,
                 appState, serverState, available>>

\* MatchMaker::Initialize up to sceNpMatching2ContextStartAsync: the local
\* user (ASSERTF compiled out), the context, the asynchronous start
MatchMakerStart ==
  /\ phase = "mm_init"
  /\ mmUser' = TryGetLocalUser
  /\ ctxPending' = TRUE
  /\ phase' = "mm_register"
  /\ UNCHANGED <<tries, online, managerUser, registered, servers, requestQueue,
                 updaterQueue, inflight, lastIndex, appState, serverState,
                 available>>

\* the rest of MatchMaker::Initialize: register the callbacks; then the
\* Application constructor returns and main's loop begins
MatchMakerRegister ==
  /\ phase = "mm_register"
  /\ registered' = TRUE
  /\ phase' = "loop"
  /\ appState' = "START"
  /\ UNCHANGED <<tries, online, managerUser, mmUser, ctxPending, servers,
                 requestQueue, updaterQueue, inflight, lastIndex, serverState,
                 available>>

\* mutant: a failed count query (res < 0) is taken as the list length
SetupServerIdList_negative == \E count \in ServerCounts \cup {-1} : servers' = count

\* setup_server_id_list: ask for the count, reallocate, fill
SetupServerIdList == \E count \in ServerCounts : servers' = count

\* the library delivers the context's Start event (or its failure); it
\* reaches context_event_cb only if the callback is registered by then
ContextEvent ==
  /\ ctxPending
  /\ ctxPending' = FALSE
  /\ \E error \in BOOLEAN, byAction \in BOOLEAN :
       IF registered /\ ~error /\ byAction
         THEN SetupServerIdList
         ELSE UNCHANGED servers
  /\ UNCHANGED <<phase, tries, online, managerUser, mmUser, registered,
                 requestQueue, updaterQueue, inflight, lastIndex, appState,
                 serverState, available>>

\* rand() % m_servers.size
RandomIndex(size) == 0 .. size - 1

\* TryGetServerInfo's index: out-of-range arguments are replaced by a
\* random one
ChosenIndices(index, size) ==
  IF index < 0 \/ index > size THEN RandomIndex(size) ELSE {index}

\* MatchMaker::TryGetServerInfo(server, index): when the list is usable,
\* read the id and issue the request.  If sceNpMatching2GetServerInfo
\* fails, the ASSERTF is compiled out of release builds: `id` is left
\* uninitialised (any value), the library has nothing outstanding, and
\* the id and an Updater(&server) are queued all the same
TryGetServerInfo(index) ==
  /\ servers > 0 /\ servers < 255
  /\ lastIndex' \in ChosenIndices(index, servers)
  /\ \E id \in ReqIds :
       /\ \/ id \notin inflight /\ inflight' = inflight \cup {id}
          \/ UNCHANGED inflight
       /\ requestQueue' = Append(requestQueue, id)
       /\ updaterQueue' = Append(updaterQueue, "server")

\* Application::Update, state START
UpdateStart ==
  /\ appState = "START"
  /\ appState' = "SEARCHING"
  /\ serverState' = "NONE"
  /\ UNCHANGED <<inflight, requestQueue, updaterQueue, lastIndex, phase>>

\* mutant: SEARCHING issues the request but forgets to move to RUNNING
UpdateSearching_stays ==
  /\ appState = "SEARCHING"
  /\ IF serverState = "NONE"
       THEN \E index \in Indices :
              \/ TryGetServerInfo(index) /\ UNCHANGED appState
              \/ ~(servers > 0 /\ servers < 255)
                 /\ UNCHANGED <<appState, inflight, requestQueue, updaterQueue,
                                lastIndex>>
       ELSE UNCHANGED <<appState, inflight, requestQueue, updaterQueue,
                        lastIndex>>
  /\ UNCHANGED <<serverState, phase>>

\* state SEARCHING: `server.state == WAITING;` is a comparison, not an
\* assignment, so server.state stays NONE
UpdateSearching ==
  /\ appState = "SEARCHING"
  /\ IF serverState = "NONE"
       THEN \E index \in Indices :
              \/ TryGetServerInfo(index) /\ appState' = "RUNNING"
              \/ ~(servers > 0 /\ servers < 255)
                 /\ UNCHANGED <<appState, inflight, requestQueue, updaterQueue,
                                lastIndex>>
       ELSE UNCHANGED <<appState, inflight, requestQueue, updaterQueue,
                        lastIndex>>
  /\ UNCHANGED <<serverState, phase>>

\* mutant: RUNNING acts on the server's status without waiting for READY
UpdateRunning_unguarded ==
  /\ appState = "RUNNING"
  /\ IF available
       THEN appState' = "STOP" /\ UNCHANGED serverState
       ELSE appState' = "SEARCHING" /\ serverState' = "NONE"
  /\ UNCHANGED <<inflight, requestQueue, updaterQueue, lastIndex, phase>>

\* state RUNNING: only READY is acted on
UpdateRunning ==
  /\ appState = "RUNNING"
  /\ IF serverState = "READY"
       THEN IF available
              THEN appState' = "STOP" /\ UNCHANGED serverState
              ELSE appState' = "SEARCHING" /\ serverState' = "NONE"
       ELSE UNCHANGED <<appState, serverState>>
  /\ UNCHANGED <<inflight, requestQueue, updaterQueue, lastIndex, phase>>

\* state STOP: Update returns false and main's loop ends
UpdateStop ==
  /\ appState = "STOP"
  /\ serverState' = "NONE"
  /\ phase' = "exited"
  /\ UNCHANGED <<appState, inflight, requestQueue, updaterQueue, lastIndex>>

\* Application::Update: System::Update pumps callbacks (their own steps),
\* then the switch on state
Update ==
  /\ phase = "loop"
  /\ \/ UpdateStart
     \/ UpdateSearching
     \/ UpdateRunning
     \/ UpdateStop
  /\ UNCHANGED <<tries, online, managerUser, mmUser, registered, ctxPending,
                 servers, available>>

\* mutant: the answer is applied but the queue entries are not erased
RequestEvent_no_erase ==
  /\ registered
  /\ \E id \in inflight, error \in BOOLEAN, avail \in BOOLEAN :
       LET at == SelectInSeq(requestQueue, LAMBDA r : r = id) IN
       /\ at # 0
       /\ inflight' = inflight \ {id}
       /\ UNCHANGED <<requestQueue, updaterQueue>>
       /\ IF error
            THEN serverState' = "ERROR" /\ UNCHANGED available
            ELSE serverState' = "READY" /\ available' = avail
  /\ UNCHANGED <<phase, tries, online, managerUser, mmUser, registered,
                 ctxPending, servers, lastIndex, appState>>

\* mutant: the error path returns without calling updater(ERROR)
RequestEvent_error_silent ==
  /\ registered
  /\ \E id \in inflight, error \in BOOLEAN, avail \in BOOLEAN :
       LET at == SelectInSeq(requestQueue, LAMBDA r : r = id) IN
       /\ at # 0
       /\ inflight' = inflight \ {id}
       /\ requestQueue' = RemoveAt(requestQueue, at)
       /\ updaterQueue' = RemoveAt(updaterQueue, at)
       /\ IF error
            THEN UNCHANGED <<serverState, available>>
            ELSE serverState' = "READY" /\ available' = avail
  /\ UNCHANGED <<phase, tries, online, managerUser, mmUser, registered,
                 ctxPending, servers, lastIndex, appState>>

\* request_event_cb for request id: find it, erase both queue entries,
\* then write ERROR, or copy the event data and write READY
RequestEvent ==
  /\ registered
  /\ \E id \in inflight, error \in BOOLEAN, avail \in BOOLEAN :
       LET at == SelectInSeq(requestQueue, LAMBDA r : r = id) IN
       /\ at # 0
       /\ inflight' = inflight \ {id}
       /\ requestQueue' = RemoveAt(requestQueue, at)
       /\ updaterQueue' = RemoveAt(updaterQueue, at)
       /\ IF error
            THEN serverState' = "ERROR" /\ UNCHANGED available
            ELSE serverState' = "READY" /\ available' = avail
  /\ UNCHANGED <<phase, tries, online, managerUser, mmUser, registered,
                 ctxPending, servers, lastIndex, appState>>

\* ~Application: members go in reverse order of declaration, so `server`
\* first, then ~Using<MatchMaker>: Finalize stops the context and
\* terminates matching2 (no context or request callback runs after it,
\* and the library drops what it had outstanding); the delete that
\* follows frees members nothing reads again
MatchMakerFinalize ==
  /\ phase = "exited"
  /\ phase' = "mm_final"
  /\ registered' = FALSE /\ ctxPending' = FALSE /\ inflight' = {}
  /\ UNCHANGED <<tries, online, managerUser, mmUser, servers, requestQueue,
                 updaterQueue, lastIndex, appState, serverState, available>>

\* ~Using<Manager>: Finalize destroys the lookup context and unregisters
\* manager_cb, then the delete
ManagerFinalize ==
  /\ phase = "mm_final"
  /\ phase' = "manager_final"
  /\ UNCHANGED <<tries, online, managerUser, mmUser, registered, ctxPending,
                 servers, requestQueue, updaterQueue, inflight, lastIndex,
                 appState, serverState, available>>

\* ~Using<System>: Finalize unregisters the sysutil callback and unloads
\* the network modules; main returns
SystemFinalize ==
  /\ phase = "manager_final"
  /\ phase' = "done"
  /\ UNCHANGED <<tries, online, managerUser, mmUser, registered, ctxPending,
                 servers, requestQueue, updaterQueue, inflight, lastIndex,
                 appState, serverState, available>>

Init ==
  /\ phase = "manager_init"
  /\ tries = 0
  /\ online = FALSE
  /\ managerUser = FALSE
  /\ mmUser = FALSE
  /\ registered = FALSE
  /\ ctxPending = FALSE
  /\ servers = 0
  /\ requestQueue = << >>
  /\ updaterQueue = << >>
  /\ inflight = {}
  /\ lastIndex = -1
  /\ appState = "START"
  /\ serverState = "NONE"
  /\ available = FALSE

Next ==
  \/ ManagerInitTry
  \/ ManagerInitGiveUp
  \/ ManagerCallback
  \/ MatchMakerStart
  \/ MatchMakerRegister
  \/ ContextEvent
  \/ Update
  \/ RequestEvent
  \/ MatchMakerFinalize
  \/ ManagerFinalize
  \/ SystemFinalize

\* main calls Update in a loop; the library answers every request (the
\* 20 s request timeout turns a silent one into an error event) and
\* delivers the context's start result (10 s start timeout)
Fairness ==
  /\ WF_vars(ManagerInitTry) /\ WF_vars(ManagerInitGiveUp)
  /\ WF_vars(MatchMakerStart) /\ WF_vars(MatchMakerRegister)
  /\ WF_vars(Update) /\ WF_vars(RequestEvent) /\ WF_vars(ContextEvent)

Spec == Init /\ [][Next]_vars /\ Fairness

-----------------------------------------------------------------------------
(* Properties *)

TypeOK ==
  /\ phase \in {"manager_init", "mm_init", "mm_register", "loop", "exited",
                "mm_final", "manager_final", "done"}
  /\ tries \in 0 .. MaxTries
  /\ online \in BOOLEAN /\ managerUser \in BOOLEAN /\ mmUser \in BOOLEAN
  /\ registered \in BOOLEAN /\ ctxPending \in BOOLEAN
  /\ servers \in ServerCounts \cup {0}
  /\ requestQueue \in Seq(ReqIds) /\ Len(requestQueue) <= Cardinality(ReqIds)
  /\ updaterQueue \in Seq({"server"})
  /\ inflight \subseteq ReqIds
  /\ lastIndex \in Int
  /\ appState \in AppStates /\ serverState \in StatusValues
  /\ available \in BOOLEAN

\* Application::Update never has two server-info requests outstanding for
\* its one Server object: a second Updater(&server) would let an older
\* answer overwrite a newer one
AtMostOneRequest == Len(requestQueue) <= 1

\* While Application is RUNNING, server.state is NONE exactly as long as its
\* request is still queued in MatchMaker: request_event_cb's answer, error
\* or not, is what RUNNING sees, and nothing else writes it meanwhile
ResponseRecorded ==
  appState = "RUNNING" => ((requestQueue = << >>) = (serverState # "NONE"))

\* ~Application destroys `server` before ~Using<MatchMaker> stops
\* matchmaking (members go in reverse order of declaration): when main's
\* loop ends, no Updater(&server) is left in m_updater_queue and the
\* library has no request outstanding whose answer would write through it
NoUpdaterOutlivesServer ==
  phase = "exited" => (updaterQueue = << >> /\ inflight = {})

\* Once Application::Update has issued a request and entered RUNNING, it
\* leaves RUNNING: request_event_cb always answers, with READY or ERROR
RunningSettles == appState = "RUNNING" ~> appState # "RUNNING"

\* Application::Update does not stay SEARCHING forever: the context's start
\* fills the server list that TryGetServerInfo needs
SearchingSettles == appState = "SEARCHING" ~> appState # "SEARCHING"

-----------------------------------------------------------------------------
(* Refinement of the abstract search ServerSearch *)

\* Application::state as the search sees it
AppView ==
  CASE appState = "START"     -> "starting"
    [] appState = "SEARCHING" -> "searching"
    [] appState = "RUNNING"   -> "querying"
    [] appState = "STOP"      -> "found"

\* server.state and server.info.server.status as an answer
AnswerView ==
  CASE serverState = "READY" /\ available  -> "available"
    [] serverState = "READY" /\ ~available -> "unavailable"
    [] serverState = "ERROR"                -> "error"
    [] OTHER                                -> "none"

Search == INSTANCE ServerSearch WITH app <- AppView, answer <- AnswerView

\* Application, MatchMaker and the library together implement the abstract
\* search: Update puts one query in flight at a time, request_event_cb
\* gives it exactly one answer that nothing overwrites, RUNNING moves on
\* only once that answer is there and STOP only on an available server.
\* Only the safety part is implemented: a failed GetServerInfo, or an
\* ERROR answer, leaves a query that the program never moves past
SearchRefinement == Search!SafetySpec

=============================================================================
