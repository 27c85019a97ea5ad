------------------------------ MODULE Sessions ------------------------------
(***************************************************************************)
(* Inter-process calls: ports, sessions, and the requests that travel over *)
(* them (src/core/hle/kernel: client_port, server_port, client_session,    *)
(* server_session, hle_ipc, and the calls of svc.cpp that use them).       *)
(*                                                                         *)
(* A session has a client end and a server end.  The server end is an      *)
(* object counted by references; its destructor runs inside whichever call *)
(* drops the last one, so it is a conjunct (Destructors) of every action   *)
(* here that can drop one.  Kernel routines run to completion on one host  *)
(* thread: a call is one step.  Scheduling is abstracted: a thread that is *)
(* ready may make the next call, and where WakeupAllWaitingThreads takes   *)
(* the waiting thread of best priority, any waiting thread may be it.      *)
(***************************************************************************)
EXTENDS Naturals, FiniteSets, SequencesExt

CONSTANTS
    Thread,
    Session,            \* bound: the sessions that can exist at a time
    Port,
    HlePort,            \* the ports served by an HLE handler
    MaxSessions,        \* max_sessions of each port
    NULL

ASSUME SessionsAssumption ==
    /\ HlePort \subseteq Port
    /\ MaxSessions \in [Port -> Nat]
    /\ NULL \notin Thread \cup Session \cup Port
    /\ Port \cap Session = {}

VARIABLES
    \* class Thread
    status, wait_objects,
    wakeup_events,      \* threads with a wakeup scheduled in CoreTiming
    context,            \* the session in the HLERequestContext of a sleeper
    \* class Session: which ends exist, and the port
    client, server, port_of,
    server_handle,      \* sessions whose server end the guest has a handle to
    \* class ServerSession
    hle_handler, pending_requesting_threads, currently_handling,
    \* classes ServerPort and ClientPort
    pending_sessions, active_sessions,
    \* history: threads whose request was dropped by the closing of an end
    abandoned

threadVars == <<status, wait_objects, wakeup_events, context>>
sessionVars == <<client, server, port_of, server_handle, hle_handler,
                 pending_requesting_threads, currently_handling>>
portVars == <<pending_sessions, active_sessions>>
vars == <<threadVars, sessionVars, portVars, abandoned>>

Init ==
    /\ status = [t \in Thread |-> "Ready"]
    /\ wait_objects = [t \in Thread |-> {}]
    /\ wakeup_events = {}
    /\ context = [t \in Thread |-> NULL]
    /\ client = {} /\ server = {} /\ server_handle = {}
    /\ port_of = [s \in Session |-> NULL]
    /\ hle_handler = {}
    /\ pending_requesting_threads = [s \in Session |-> <<>>]
    /\ currently_handling = [s \in Session |-> NULL]
    /\ pending_sessions = [p \in Port |-> <<>>]
    /\ active_sessions = [p \in Port |-> 0]
    /\ abandoned = {}

-----------------------------------------------------------------------------
Waiters(object) == {t \in Thread : object \in wait_objects[t]}

\* ServerSession::ShouldWait, for the given client end, requests and handling
SessionShouldWait(open, requests, handling) ==
    open /\ (requests = <<>> \/ handling # NULL)

RequestsAt(requests, handling, s) ==
    Range(requests[s]) \cup ({handling[s]} \ {NULL})

\* What keeps a ServerSession alive once the step is over: a handle, the
\* port's queue, the handler's list, a waiting thread, a sleeper's context.
Referenced(s) ==
    \/ s \in server_handle' \cup hle_handler'
    \/ \E p \in Port : s \in Range(pending_sessions'[p])
    \/ \E t \in Thread : s \in wait_objects'[t] \/ context'[t] = s

\* ServerSession::~ServerSession for every server end the step leaves without
\* a reference; the other arguments are the fields as the step has set them.
Destructors(servers, ports, requests, handling, active, dropped) ==
    LET dead == {s \in servers : ~Referenced(s)} IN
    /\ server' = servers \ dead
    /\ active_sessions' = [p \in Port |->
            active[p] - Cardinality({s \in dead : ports[s] = p})]
    /\ pending_requesting_threads' = [s \in Session |->
            IF s \in dead THEN <<>> ELSE requests[s]]
    /\ currently_handling' = [s \in Session |->
            IF s \in dead THEN NULL ELSE handling[s]]
    /\ abandoned' = abandoned \cup dropped
            \cup UNION {RequestsAt(requests, handling, s) : s \in dead}
    /\ port_of' = [s \in Session |->
            IF s \in server' \cup client' THEN ports[s] ELSE NULL]

\* No request is touched by the step, except by a destructor.
Settle(servers, ports, active) ==
    Destructors(servers, ports, pending_requesting_threads, currently_handling,
                active, {})

-----------------------------------------------------------------------------
\* Every call below is made by the running thread t, which goes on to wait for
\* `objects` or for nothing, and resumes the threads of W.  SwitchContext has
\* cancelled t's wakeup event when it made t the running thread; until then
\* the event of a thread that was resumed may still be pending.
CallsAndWaits(t, next, objects, W) ==
    /\ status[t] = "Ready"
    /\ status' = [u \in Thread |->
            IF u = t THEN next ELSE IF u \in W THEN "Ready" ELSE status[u]]
    /\ wait_objects' = [u \in Thread |->
            IF u = t THEN objects ELSE IF u \in W THEN {} ELSE wait_objects[u]]

Calls(t, next, W) == CallsAndWaits(t, next, {}, W)

\* Mutant: the context switch leaves the wakeup event of the thread pending.
PlainKeepsEvent(t) == UNCHANGED <<wakeup_events, context>>

Plain(t) == wakeup_events' = wakeup_events \ {t} /\ UNCHANGED context

\* Mutant: one session more than the port has room for.
ConnectOneMore(p, s, room) ==
    /\ active_sessions[p] <= MaxSessions[p]
    /\ s \notin client \cup server
    /\ client' = IF room THEN client \cup {s} ELSE client
    /\ hle_handler' = IF p \in HlePort /\ room
                      THEN hle_handler \cup {s} ELSE hle_handler
    /\ pending_sessions' = IF p \in HlePort THEN pending_sessions
                           ELSE [pending_sessions EXCEPT ![p] = Append(@, s)]
    /\ UNCHANGED server_handle
    /\ Settle(server \cup {s}, [port_of EXCEPT ![s] = p],
              [active_sessions EXCEPT ![p] = @ + 1])

\* ClientPort::Connect and the creation of the client's handle.  Where the
\* handle table has no room the new client end is destroyed at once, and a
\* handler that was told of the client is told that it left.  A full port
\* returns ERR_MAX_CONNECTIONS_REACHED.
Connect(p, s, room) ==
    /\ active_sessions[p] < MaxSessions[p]
    /\ s \notin client \cup server
    /\ client' = IF room THEN client \cup {s} ELSE client
    /\ hle_handler' = IF p \in HlePort /\ room
                      THEN hle_handler \cup {s} ELSE hle_handler
    /\ pending_sessions' = IF p \in HlePort THEN pending_sessions
                           ELSE [pending_sessions EXCEPT ![p] = Append(@, s)]
    /\ UNCHANGED server_handle
    /\ Settle(server \cup {s}, [port_of EXCEPT ![s] = p],
              [active_sessions EXCEPT ![p] = @ + 1])

\* Mutant: Connect wakes nobody.
WokenByNone(p) == {}

\* The threads Connect wakes: all that wait for the port.
WokenByConnect(p) == IF p \in HlePort THEN {} ELSE Waiters(p)

\* svcConnectToPort, svcCreateSessionToPort
ConnectToPort(t, p, s, room) ==
    /\ Calls(t, "Ready", WokenByConnect(p))
    /\ Plain(t)
    /\ Connect(p, s, room)

\* svcCreateSession.  If the client's handle cannot be created the server's
\* stays; if the server's cannot, both ends are destroyed.
CreateSession(t, s, room) ==
    /\ s \notin client \cup server
    /\ Calls(t, "Ready", {})
    /\ Plain(t)
    /\ server_handle' = server_handle \cup {s}
    /\ client' = IF room THEN client \cup {s} ELSE client
    /\ UNCHANGED <<hle_handler, pending_sessions>>
    /\ Settle(server \cup {s}, port_of, active_sessions)

\* svcAcceptSession: ServerPort::Accept and the creation of the handle.
AcceptSession(t, p, room) ==
    /\ pending_sessions[p] # <<>>
    /\ Calls(t, "Ready", {})
    /\ Plain(t)
    /\ pending_sessions' = [pending_sessions EXCEPT ![p] = Front(@)]
    /\ server_handle' = IF room THEN server_handle \cup {Last(pending_sessions[p])}
                        ELSE server_handle
    /\ UNCHANGED <<client, hle_handler>>
    /\ Settle(server, port_of, active_sessions)

\* svcCloseHandle of a server end; threads that wait for it keep it alive.
CloseServer(t, s) ==
    /\ s \in server_handle
    /\ Calls(t, "Ready", {})
    /\ Plain(t)
    /\ server_handle' = server_handle \ {s}
    /\ UNCHANGED <<client, hle_handler, pending_sessions>>
    /\ Settle(server, port_of, active_sessions)

\* svcCloseHandle of a client end: ClientSession::~ClientSession.
CloseClient(t, s) ==
    /\ s \in client
    /\ Calls(t, "Ready", Waiters(s))
    /\ Plain(t)
    /\ client' = client \ {s}
    /\ hle_handler' = hle_handler \ {s}
    /\ UNCHANGED <<server_handle, pending_sessions>>
    /\ Destructors(server, port_of,
                   [pending_requesting_threads EXCEPT ![s] = <<>>],
                   [currently_handling EXCEPT ![s] = NULL],
                   active_sessions,
                   RequestsAt(pending_requesting_threads, currently_handling, s))

-----------------------------------------------------------------------------
\* Mutant: the request is queued, and no thread is woken up for it.
SendSyncRequestQuietly(t, s) ==
    /\ s \in client \cap (server \ hle_handler)
    /\ Plain(t)
    /\ UNCHANGED <<client, server_handle, hle_handler, pending_sessions>>
    /\ Calls(t, "WaitIPC", {})
    /\ Destructors(server, port_of,
                   [pending_requesting_threads EXCEPT ![s] = Append(@, t)],
                   currently_handling, active_sessions, {})

\* Mutant: a request that finds no thread waiting for it is not queued.
SendSyncRequestLost(t, s) ==
    /\ s \in client \cap (server \ hle_handler)
    /\ Plain(t)
    /\ UNCHANGED <<client, server_handle, hle_handler, pending_sessions>>
    /\ \/ /\ currently_handling[s] = NULL
          /\ \E w \in Waiters(s) : Calls(t, "WaitIPC", {w})
          /\ Destructors(server, port_of, pending_requesting_threads,
                         [currently_handling EXCEPT ![s] = t], active_sessions, {})
       \/ /\ currently_handling[s] # NULL \/ Waiters(s) = {}
          /\ Calls(t, "WaitIPC", {})
          /\ Settle(server, port_of, active_sessions)

\* svcSendSyncRequest to a session without an HLE handler.  A session whose
\* server end is gone returns ERR_SESSION_CLOSED_BY_REMOTE.
SendSyncRequest(t, s) ==
    /\ s \in client \cap (server \ hle_handler)
    /\ Plain(t)
    /\ UNCHANGED <<client, server_handle, hle_handler, pending_sessions>>
    /\ \/ /\ currently_handling[s] = NULL
          /\ \E w \in Waiters(s) : Calls(t, "WaitIPC", {w})
          /\ Destructors(server, port_of, pending_requesting_threads,
                         [currently_handling EXCEPT ![s] = t], active_sessions, {})
       \/ /\ currently_handling[s] # NULL \/ Waiters(s) = {}
          /\ Calls(t, "WaitIPC", {})
          /\ Destructors(server, port_of,
                         [pending_requesting_threads EXCEPT ![s] = Append(@, t)],
                         currently_handling, active_sessions, {})

\* svcSendSyncRequest to a session with an HLE handler that answers at once:
\* the caller sleeps for the time a request takes.
SendToHle(t, s) ==
    /\ s \in client \cap hle_handler
    /\ Calls(t, "WaitIPC", {})
    /\ wakeup_events' = wakeup_events \cup {t}
    /\ UNCHANGED <<context, sessionVars, portVars, abandoned>>

\* The handler calls SleepClientThread instead, with or without a timeout.
SleepClientThread(t, s, timeout) ==
    /\ s \in client \cap hle_handler
    /\ Calls(t, "WaitHleEvent", {})
    /\ wakeup_events' = IF timeout THEN wakeup_events \cup {t} ELSE wakeup_events \ {t}
    /\ context' = [context EXCEPT ![t] = s]
    /\ UNCHANGED <<sessionVars, portVars, abandoned>>

\* Waiting for a port, or for a session whose client end is closed, takes
\* nothing; a thread that waits for an open session takes its last request.
Acquirable(object, handling) ==
    IF object \in Port THEN pending_sessions[object] # <<>>
    ELSE ~SessionShouldWait(object \in client, pending_requesting_threads[object],
                            handling[object])

\* svcReplyAndReceive: reply to the request being handled at `target`, unless
\* that is NULL, then wait for one of `objects`, in whatever order the caller
\* lists them.  A reply to a session that handles no request fails.
ReplyAndReceive(t, objects, target) ==
    LET request_thread == IF target = NULL THEN {} ELSE {currently_handling[target]}
        handling == IF target = NULL THEN currently_handling
                    ELSE [currently_handling EXCEPT ![target] = NULL]
    IN
    /\ objects \subseteq (Port \ HlePort) \cup server_handle
    /\ target = NULL \/ (target \in server_handle \cap client
                         /\ currently_handling[target] # NULL)
    /\ Plain(t)
    /\ UNCHANGED <<client, server_handle, hle_handler, pending_sessions>>
    /\ \/ /\ \/ target # NULL /\ objects = {}
             \/ \E o \in objects : Acquirable(o, handling) /\ o \notin client
          /\ Calls(t, "Ready", request_thread)
          /\ Destructors(server, port_of, pending_requesting_threads, handling,
                         active_sessions, {})
       \/ \E o \in objects \cap client :
          /\ Acquirable(o, handling)
          /\ Calls(t, "Ready", request_thread)
          /\ Destructors(server, port_of,
                [pending_requesting_threads EXCEPT ![o] = Front(@)],
                [handling EXCEPT ![o] = Last(pending_requesting_threads[o])],
                active_sessions, {})
       \/ /\ objects # {} /\ \A o \in objects : ~Acquirable(o, handling)
          /\ CallsAndWaits(t, "WaitSynchAny", objects, request_thread)
          /\ Destructors(server, port_of, pending_requesting_threads, handling,
                         active_sessions, {})

-----------------------------------------------------------------------------
\* Thread t resumes without having called anything; the callback that held
\* the request's context is destroyed.
Resumes(t) ==
    /\ status' = [status EXCEPT ![t] = "Ready"]
    /\ context' = [context EXCEPT ![t] = NULL]
    /\ UNCHANGED <<wait_objects, client, server_handle, hle_handler, pending_sessions>>
    /\ Settle(server, port_of, active_sessions)

\* ThreadWakeupCallback.  The callback of ReplyAndReceive asserts that it is
\* not called for a timeout.
ThreadWakeupCallback(t) ==
    /\ t \in wakeup_events
    /\ status[t] # "WaitSynchAny"
    /\ wakeup_events' = wakeup_events \ {t}
    /\ Resumes(t)

\* Mutant: the event resumes its thread from a later wait as well.
SignalPauseEventLate(t) ==
    /\ status[t] \in {"WaitHleEvent", "WaitIPC"}
    /\ UNCHANGED wakeup_events
    /\ Resumes(t)

\* The service signals the event SleepClientThread returned to it.
SignalPauseEvent(t) ==
    /\ status[t] = "WaitHleEvent"
    /\ UNCHANGED wakeup_events
    /\ Resumes(t)

SystemCall(t) ==
    \/ \E p \in Port, s \in Session, room \in BOOLEAN : ConnectToPort(t, p, s, room)
    \/ \E s \in Session, room \in BOOLEAN : CreateSession(t, s, room)
    \/ \E p \in Port, room \in BOOLEAN : AcceptSession(t, p, room)
    \/ \E s \in Session : CloseServer(t, s)
    \/ \E s \in Session : CloseClient(t, s)
    \/ \E s \in Session : SendSyncRequest(t, s)
    \/ \E s \in Session : SendToHle(t, s)
    \/ \E s \in Session, timeout \in BOOLEAN : SleepClientThread(t, s, timeout)
    \/ \E objects \in SUBSET (Port \cup Session), target \in Session \cup {NULL} :
            ReplyAndReceive(t, objects, target)

Next ==
    \E t \in Thread :
        SystemCall(t) \/ ThreadWakeupCallback(t) \/ SignalPauseEvent(t)

Spec == Init /\ [][Next]_vars

-----------------------------------------------------------------------------
\* Types: the guest's handles and the handlers' lists name server ends that
\* exist, a handler serves only clients that are still there, and no count of
\* a port goes below zero.
TypeOK ==
    /\ status \in [Thread -> {"Ready", "WaitIPC", "WaitSynchAny", "WaitHleEvent"}]
    /\ wait_objects \in [Thread -> SUBSET (Port \cup Session)]
    /\ wakeup_events \subseteq Thread
    /\ context \in [Thread -> Session \cup {NULL}]
    /\ client \subseteq Session /\ server \subseteq Session
    /\ server_handle \subseteq server /\ hle_handler \subseteq server \cap client
    /\ port_of \in [Session -> Port \cup {NULL}]
    /\ pending_requesting_threads \in [Session -> Seq(Thread)]
    /\ currently_handling \in [Session -> Thread \cup {NULL}]
    /\ pending_sessions \in [Port -> Seq(Session)]
    /\ active_sessions \in [Port -> Nat]
    /\ abandoned \subseteq Thread

\* ClientPort::active_sessions counts the server ends that are alive, so that
\* ConnectionClosed never finds it zero and a port never stays full once its
\* sessions are gone, however they went.
ConnectionsCounted ==
    \A p \in Port :
        /\ active_sessions[p] = Cardinality({s \in server : port_of[s] = p})
        /\ active_sessions[p] <= MaxSessions[p]

\* A thread that waits for the answer to a request is in exactly one place:
\* the queue of one session, or being handled by one, or asleep until a wakeup
\* event, or abandoned because an end of its session was closed.  No thread
\* that goes on is still in such a place, where a reply would resume it again.
RequestsAccounted ==
    \A t \in Thread :
        LET at == {s \in server : t \in Range(pending_requesting_threads[s])}
            handled == {s \in server : currently_handling[s] = t}
            places == Cardinality(at) + Cardinality(handled)
                      + (IF t \in abandoned THEN 1 ELSE 0)
        IN IF status[t] = "WaitIPC"
           THEN IF t \in wakeup_events THEN places = 0 ELSE places = 1
           ELSE places = 0

\* The callback of ReplyAndReceive asserts that it is never called for a
\* timeout, although a thread's wakeup event may outlive the wait it was for.
NoTimeoutInReceive ==
    \A t \in Thread : status[t] = "WaitSynchAny" => t \notin wakeup_events

\* No thread waits for a port that has a connection to accept.
NoConnectionMissed ==
    \A p \in Port : pending_sessions[p] # <<>> => Waiters(p) = {}

\* A thread is left waiting for a session it could acquire only where another
\* thread's reply makes the session available: svcReplyAndReceive frees the
\* session it replies to and wakes nobody.
Stuck(s) == Waiters(s) # {} /\ Acquirable(s, currently_handling)
WakeupMissedOnlyByReply ==
    [][\A s \in Session : ~Stuck(s) /\ Stuck(s)' =>
            currently_handling[s] # NULL /\ currently_handling'[s] = NULL]_vars

\* A reply goes to the thread whose request the session handles: a thread that
\* waits for an answer resumes by that or by the wakeup event of an HLE request.
RepliesReachRequesters ==
    [][\A t \in Thread : status[t] = "WaitIPC" /\ status'[t] = "Ready" =>
            \/ t \in wakeup_events
            \/ \E s \in server \cap client :
                  currently_handling[s] = t /\ currently_handling'[s] # t]_vars
=============================================================================
