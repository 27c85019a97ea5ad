--------------------------- MODULE ServiceManager ---------------------------
(***************************************************************************)
(* The service manager on top of the sessions: processes connect to the    *)
(* named port "srv:" and ask it, over that session, to register a service  *)
(* or for a session to one (src/core/hle/service/sm: srv.cpp, sm.cpp).     *)
(* A client may ask before the service exists and sleep until it does.     *)
(***************************************************************************)
EXTENDS Sessions

CONSTANT Srv            \* the port "srv:"; every other port is a service's

Service == Port \ {Srv}

ASSUME ServiceAssumption ==
    /\ Srv \in HlePort
    /\ \A p \in Service : MaxSessions[p] > 0

VARIABLES
    registered_services,
    get_service_handle_delayed_map,     \* whose pause event is kept for a name
    requested           \* the service a sleeping client's callback connects to

srvVars == <<registered_services, get_service_handle_delayed_map, requested>>
allVars == <<vars, srvVars>>

\* HLE services register when the emulated system boots.
SrvInit ==
    /\ Init
    /\ registered_services = HlePort \ {Srv}
    /\ get_service_handle_delayed_map = [p \in Service |-> NULL]
    /\ requested = [t \in Thread |-> NULL]

\* The session t makes its request over; an HLE handler's reply takes effect
\* when the wakeup event scheduled for the caller fires.
OverSrv(s) == s \in client \cap hle_handler /\ port_of[s] = Srv
Replies(t) == wakeup_events' = wakeup_events \cup {t}

\* SRV::GetServiceHandle for a service that has room for the new session ns.
GetServiceHandle(t, s, p, ns) ==
    /\ OverSrv(s)
    /\ p \in registered_services
    /\ Calls(t, "WaitIPC", WokenByConnect(p))
    /\ Replies(t) /\ UNCHANGED context
    /\ Connect(p, ns, TRUE)
    /\ UNCHANGED srvVars

\* Mutant: the client sleeps with a timeout, after which the map is stale.
GetServiceHandleTimed(t, s, p) ==
    /\ OverSrv(s)
    /\ p \notin registered_services
    /\ SleepClientThread(t, s, TRUE)
    /\ get_service_handle_delayed_map' = [get_service_handle_delayed_map EXCEPT ![p] = t]
    /\ requested' = [requested EXCEPT ![t] = p]
    /\ UNCHANGED registered_services

\* SRV::GetServiceHandle for a service that is not registered, by a client
\* that wants to wait: the map keeps the event of the client that came last.
GetServiceHandleDelayed(t, s, p) ==
    /\ OverSrv(s)
    /\ p \notin registered_services
    /\ SleepClientThread(t, s, FALSE)
    /\ get_service_handle_delayed_map' = [get_service_handle_delayed_map EXCEPT ![p] = t]
    /\ requested' = [requested EXCEPT ![t] = p]
    /\ UNCHANGED registered_services

\* SRV::RegisterService.  Where the map has an event for the name, signalling
\* it runs the sleeping client's callback, which connects to the new port.
RegisterService(t, s, p, ns) ==
    LET waiter == get_service_handle_delayed_map[p] IN
    /\ OverSrv(s)
    /\ p \notin registered_services
    /\ registered_services' = registered_services \cup {p}
    /\ get_service_handle_delayed_map' = [get_service_handle_delayed_map EXCEPT ![p] = NULL]
    /\ Replies(t)
    /\ \/ /\ waiter = NULL
          /\ Calls(t, "WaitIPC", {})
          /\ UNCHANGED <<context, requested, sessionVars, portVars, abandoned>>
       \/ /\ waiter # NULL
          /\ Calls(t, "WaitIPC", {waiter})
          /\ context' = [context EXCEPT ![waiter] = NULL]
          /\ requested' = [requested EXCEPT ![waiter] = NULL]
          /\ Connect(p, ns, TRUE)

\* The calls of the other services and of the kernel.  Only "srv:" is a named
\* port; a service's port is waited for by the process that registered it.
OtherCall(t) ==
    /\ \/ \E s \in Session, room \in BOOLEAN :
            ConnectToPort(t, Srv, s, room) \/ CreateSession(t, s, room)
       \/ \E p \in registered_services, room \in BOOLEAN : AcceptSession(t, p, room)
       \/ \E s \in Session : CloseServer(t, s) \/ CloseClient(t, s)
       \/ \E s \in Session : SendSyncRequest(t, s) \/ SendToHle(t, s)
       \/ \E s \in Session, timeout \in BOOLEAN :
            ~OverSrv(s) /\ SleepClientThread(t, s, timeout)
       \/ \E objects \in SUBSET (registered_services \cup server_handle),
             target \in server_handle \cup {NULL} :
            ReplyAndReceive(t, objects, target)
    /\ UNCHANGED srvVars

SrvNext ==
    \E t \in Thread :
        \/ \E s \in Session, p \in Service, ns \in Session :
            \/ GetServiceHandle(t, s, p, ns)
            \/ GetServiceHandleDelayed(t, s, p)
            \/ RegisterService(t, s, p, ns)
        \/ OtherCall(t)
        \/ (ThreadWakeupCallback(t) /\ UNCHANGED srvVars)
        \/ (requested[t] = NULL /\ SignalPauseEvent(t) /\ UNCHANGED srvVars)

SrvSpec == SrvInit /\ [][SrvNext]_allVars

-----------------------------------------------------------------------------
\* An event the map keeps belongs to a client that still sleeps until that
\* service is registered, and the service is not registered yet: signalling it
\* resumes a client that waits for just this, once.
DelayedMapSound ==
    \A p \in Service :
        get_service_handle_delayed_map[p] # NULL =>
            /\ p \notin registered_services
            /\ status[get_service_handle_delayed_map[p]] = "WaitHleEvent"
            /\ requested[get_service_handle_delayed_map[p]] = p
=============================================================================
