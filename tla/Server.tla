------------------------------- MODULE Server -------------------------------
(***************************************************************************)
(* TftpServer: the requests that become sessions, the registry through     *)
(* which single-port mode finds them again, the limits and the counters.   *)
(*                                                                         *)
(* What a session does inside is in ReadSession and WriteSession; here it  *)
(* transfers some bytes and emits finished() once. Its object lives on     *)
(* until the event loop deletes it, and also when the server is closed.    *)
(***************************************************************************)
EXTENDS Policy, FiniteSets

CONSTANTS
    Keys,                 \* client endpoints, "address:port"
    NoKey,                \* and none
    AddressOf,            \* the address of each
    Sids,                 \* session objects: a bound on the requests accepted
    MaxConnections,       \* m_maxConnections, 0 for no limit
    MaxConnectionsPerIp,  \* m_maxConnectionsPerIp, 0 for no limit
    MaxBytes              \* a bound on what a session transfers

ASSUME ServerAssumption ==
    /\ NoKey \notin Keys
    /\ AddressOf \in [Keys -> Addresses]
    /\ IsFiniteSet(Keys)
    /\ IsFiniteSet(Sids)
    /\ MaxConnections \in Nat
    /\ MaxConnectionsPerIp \in Nat
    /\ MaxBytes \in Nat

VARIABLES
    listening,       \* m_socket is bound
    singlePortMode,  \* m_singlePortMode
    sessions,        \* the session objects
    registry,        \* m_sessions: endpoints to session objects
    activeSessions,  \* m_activeSessions
    transfers,       \* m_transfersSuccess and m_transfersFailure
    historicalBytes  \* m_historicalBytesTransferred

serverVars == <<listening, singlePortMode, sessions, registry, activeSessions,
                transfers, historicalBytes>>

(***************************************************************************)
(* "over": finished() was emitted and deleteLater() called. stale and      *)
(* rival only serve to say what is true of the registry: stale sessions    *)
(* have seen the server closed, and a session with a rival began while     *)
(* another one of the same endpoint was active.                            *)
(***************************************************************************)
Session == [state      : {"unused", "active", "over", "deleted"},
            key        : Keys \cup {NoKey},
            singlePort : BOOLEAN,
            bytes      : 0..MaxBytes,
            stale      : BOOLEAN,
            rival      : BOOLEAN]

InState(states) == {s \in Sids : sessions[s].state \in states}
ActiveSids      == InState({"active"})

ServerTypeOK ==
    /\ listening \in BOOLEAN
    /\ singlePortMode \in BOOLEAN
    /\ sessions \in [Sids -> Session]
    /\ DOMAIN registry \subseteq Keys
    /\ registry \in [DOMAIN registry -> Sids]
    /\ activeSessions \in Nat
    /\ transfers \in [{"success", "failure"} -> Nat]
    /\ historicalBytes \in Nat

NoSessions == [k \in {} |-> CHOOSE s \in Sids : TRUE]

\* Of a session that is not active only its bytes matter.
Inactive(state, bytes) ==
    [state |-> state, key |-> NoKey, singlePort |-> FALSE,
     bytes |-> bytes, stale |-> FALSE, rival |-> FALSE]

ServerInit ==
    /\ listening = FALSE
    /\ singlePortMode \in BOOLEAN
    /\ sessions = [s \in Sids |-> Inactive("unused", 0)]
    /\ registry = NoSessions
    /\ activeSessions = 0
    /\ transfers = [outcome \in {"success", "failure"} |-> 0]
    /\ historicalBytes = 0

\* m_sessions.contains(key)
IsListed(s) ==
    /\ sessions[s].key \in DOMAIN registry
    /\ registry[sessions[s].key] = s

-----------------------------------------------------------------------------
\* Life of the server

\* Mutant: a closed server counts from zero again
CloseAndReset ==
    /\ listening' = FALSE
    /\ registry' = NoSessions
    /\ sessions' = [s \in Sids |->
                        [sessions[s] EXCEPT !.stale = sessions[s].state = "active"]]
    /\ activeSessions' = 0
    /\ UNCHANGED <<singlePortMode, transfers, historicalBytes>>

\* close(): the registry is cleared, the sessions go on.
CloseServer ==
    /\ listening' = FALSE
    /\ registry' = NoSessions
    /\ sessions' = [s \in Sids |->
                        [sessions[s] EXCEPT !.stale = sessions[s].state = "active"]]
    /\ UNCHANGED <<singlePortMode, activeSessions, transfers, historicalBytes>>

\* listen() closes first; then the server listens, unless there is no such
\* directory or the port is taken.
Listen ==
    /\ listening' = TRUE
    /\ registry' = NoSessions
    /\ sessions' = [s \in Sids |->
                        [sessions[s] EXCEPT !.stale = sessions[s].state = "active"]]
    /\ UNCHANGED <<singlePortMode, activeSessions, transfers, historicalBytes>>

SetSinglePortMode ==
    /\ singlePortMode' = ~singlePortMode
    /\ UNCHANGED <<listening, sessions, registry, activeSessions, transfers,
                   historicalBytes>>

-----------------------------------------------------------------------------
\* Requests: onReadyRead() for an endpoint that has no session in the registry

BelowMaxConnections == MaxConnections > 0 => activeSessions < MaxConnections

\* Mutant: the sessions of the endpoint are counted, not those of its address
BelowMaxPerKey(k) ==
    MaxConnectionsPerIp > 0 =>
        Cardinality({l \in DOMAIN registry : l = k}) < MaxConnectionsPerIp

\* The sessions in the registry whose peer has the address are counted.
BelowMaxPerIp(k) ==
    MaxConnectionsPerIp > 0 =>
        Cardinality({l \in DOMAIN registry :
            AddressOf[sessions[registry[l]].key] = AddressOf[k]}) < MaxConnectionsPerIp

\* A request passes the limits and the access rules. It may still be refused
\* (too many requests a second, a file name, the disk); nothing changes then.
Admissible(k, isUpload) ==
    /\ listening
    /\ k \notin DOMAIN registry
    /\ BelowMaxConnections
    /\ BelowMaxPerIp(k)
    /\ IsAllowed(AddressOf[k], isUpload)

NewSession(k) ==
    [state      |-> "active",
     key        |-> k,
     singlePort |-> singlePortMode,
     bytes      |-> 0,
     stale      |-> FALSE,
     rival      |-> \E o \in ActiveSids : sessions[o].key = k]

\* The session is counted and started, and finishes inside start(): no socket,
\* no file, a mode it does not know.
StartFails(k, isUpload, s) ==
    /\ Admissible(k, isUpload)
    /\ s \in InState({"unused"})
    /\ sessions' = [sessions EXCEPT ![s] = Inactive("over", 0)]
    /\ transfers' = [transfers EXCEPT !["failure"] = @ + 1]
    /\ UNCHANGED <<listening, singlePortMode, registry, activeSessions,
                   historicalBytes>>

StartSession(k, isUpload, s) ==
    /\ Admissible(k, isUpload)
    /\ s \in InState({"unused"})
    /\ sessions' = [sessions EXCEPT ![s] = NewSession(k)]
    /\ registry' = IF singlePortMode
                   THEN [l \in DOMAIN registry \cup {k} |->
                            IF l = k THEN s ELSE registry[l]]
                   ELSE registry
    /\ activeSessions' = activeSessions + 1
    /\ UNCHANGED <<listening, singlePortMode, transfers, historicalBytes>>

-----------------------------------------------------------------------------
\* Sessions

\* m_bytesTransferred grows.
Progresses(s) ==
    /\ s \in ActiveSids
    /\ sessions[s].bytes < MaxBytes
    /\ sessions' = [sessions EXCEPT ![s].bytes = @ + 1]
    /\ UNCHANGED <<listening, singlePortMode, registry, activeSessions,
                   transfers, historicalBytes>>

\* Mutant: the entry stays
LeaveEntry(key) == registry

\* Mutant: the registry knows addresses only
RemoveAddress(key) ==
    [k \in {l \in DOMAIN registry : AddressOf[l] # AddressOf[key]} |-> registry[k]]

\* m_sessions.remove(key), whatever session is there
RemoveEntry(key) == [k \in DOMAIN registry \ {key} |-> registry[k]]

\* Mutant: the bytes are lost with the session
FinishesUncounted(s, outcome) ==
    /\ s \in ActiveSids
    /\ sessions' = [sessions EXCEPT ![s] = Inactive("over", @.bytes)]
    /\ activeSessions' = activeSessions - 1
    /\ transfers' = [transfers EXCEPT ![outcome] = @ + 1]
    /\ registry' = RemoveEntry(sessions[s].key)
    /\ UNCHANGED <<listening, singlePortMode, historicalBytes>>

\* The handler of finished(ok, message)
Finishes(s, outcome) ==
    /\ s \in ActiveSids
    /\ sessions' = [sessions EXCEPT ![s] = Inactive("over", @.bytes)]
    /\ activeSessions' = activeSessions - 1
    /\ historicalBytes' = historicalBytes + sessions[s].bytes
    /\ transfers' = [transfers EXCEPT ![outcome] = @ + 1]
    /\ registry' = RemoveEntry(sessions[s].key)
    /\ UNCHANGED <<listening, singlePortMode>>

SessionActs(s) ==
    Progresses(s) \/ \E outcome \in {"success", "failure"} : Finishes(s, outcome)

\* onReadyRead() for an endpoint that is in the registry: its session takes the
\* datagram.
RouteDatagram(k) ==
    /\ listening
    /\ k \in DOMAIN registry
    /\ SessionActs(registry[k])

\* deleteLater() takes effect.
DeleteSession(s) ==
    /\ s \in InState({"over"})
    /\ sessions' = [sessions EXCEPT ![s].state = "deleted"]
    /\ UNCHANGED <<listening, singlePortMode, registry, activeSessions,
                   transfers, historicalBytes>>

\* The bytes that sessions have transferred, one by one: a sum is their number.
BytesOf(S) == {u \in S \X (1..MaxBytes) : u[2] <= sessions[u[1]].bytes}

\* totalBytesTransferred(): findChildren() finds every object there is.
TotalBytesTransferred ==
    historicalBytes + Cardinality(BytesOf(InState({"active", "over"})))
=============================================================================
