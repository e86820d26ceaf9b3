------------------------------- MODULE Service -------------------------------
(***************************************************************************)
(* The server with its metrics exporter: the server stops the exporter     *)
(* whenever it is closed, and the exporter reports the server's counters.  *)
(***************************************************************************)
EXTENDS Server, MetricsExporter

vars == <<serverVars, exporterVars>>

TypeOK == ServerTypeOK /\ ExporterTypeOK

Init == ServerInit /\ ExporterInit

\* close() and listen() stop the exporter.
OwnerActs ==
    \/ (CloseServer \/ Listen) /\ StopMetricsServer
    \/ SetSinglePortMode /\ UNCHANGED exporterVars
    \/ \E ok \in BOOLEAN : StartMetricsServer(ok) /\ UNCHANGED serverVars

ClientActs ==
    /\ \E k \in Keys :
        \/ RouteDatagram(k)
        \/ \E isUpload \in BOOLEAN, s \in Sids :
            StartSession(k, isUpload, s) \/ StartFails(k, isUpload, s)
    /\ UNCHANGED exporterVars

SessionEvent(s) ==
    /\ SessionActs(s) \/ DeleteSession(s)
    /\ UNCHANGED exporterVars

ConnectionEvent(c) ==
    /\ \/ AcceptConnection(c)
       \/ RequestArrives(c)
       \/ DeadlinePasses(c)
       \/ Flushed(c)
       \/ PeerCloses(c)
    /\ UNCHANGED serverVars

Next ==
    \/ OwnerActs
    \/ ClientActs
    \/ \E s \in Sids : SessionEvent(s)
    \/ \E c \in Conns : ConnectionEvent(c)
    \/ DeleteExporter /\ UNCHANGED serverVars

Spec == Init /\ [][Next]_vars

-----------------------------------------------------------------------------
\* Safety

\* activeSessions() is the number of transfers in flight, and every one that
\* ended is counted once, as a success or as a failure: across sessions that
\* fail inside start(), restarts and changes of the mode.
EachTransferCountedOnce ==
    /\ activeSessions = Cardinality(ActiveSids)
    /\ transfers["success"] + transfers["failure"] =
            Cardinality(InState({"over", "deleted"}))

\* The registry leads to a session that runs and is this endpoint's: no
\* datagram is handed to a stranger or to an object that is gone.
RegistryIsSound ==
    \A k \in DOMAIN registry :
        /\ registry[k] \in ActiveSids
        /\ sessions[registry[k]].key = k
        /\ sessions[registry[k]].singlePort
        /\ ~sessions[registry[k]].stale

\* In single-port mode a session hears its client as long as it runs: unless
\* the server was closed, or a session of the same endpoint was active when
\* this one began (its end takes away the entry of this one).
SessionsAreHeard ==
    \A s \in ActiveSids :
        sessions[s].singlePort /\ ~sessions[s].stale /\ ~sessions[s].rival =>
            IsListed(s)

\* No more sessions run than m_maxConnections, those of an earlier listen()
\* included; and in single-port mode no address has more than
\* m_maxConnectionsPerIp, but for sessions of an earlier listen() and those that
\* began beside another one of the same endpoint (which may lose their entries).
\* An exporter keeps no more than kMaxConnections connections.
HeardAt(a) == {s \in ActiveSids : /\ sessions[s].singlePort
                                  /\ ~sessions[s].stale
                                  /\ ~sessions[s].rival
                                  /\ AddressOf[sessions[s].key] = a}

LimitsHold ==
    /\ MaxConnections > 0 => Cardinality(ActiveSids) <= MaxConnections
    /\ MaxConnectionsPerIp > 0 =>
            \A a \in Addresses : Cardinality(HeardAt(a)) <= MaxConnectionsPerIp
    /\ Cardinality(Tracked) <= ConnectionLimit

\* The total counts every byte once, except while an object waits to be
\* deleted whose bytes are counted as history already.
BytesCountedOnce ==
    InState({"over"}) = {} => TotalBytesTransferred = Cardinality(BytesOf(Sids))

\* "Exactly one response is sent per connection": by the deadline or for the
\* request, or because there are too many, and no second one when the deadline
\* passes while the first is still on its way.
OneResponse ==
    \A c \in Conns :
        /\ conns[c].responses <= 1
        /\ conns[c].state \in {"answered", "refused"} => conns[c].responses = 1

-----------------------------------------------------------------------------
\* What the program says, and does not do

\* "Set maximum concurrent connections per IP."
AddressLimitHolds ==
    MaxConnectionsPerIp > 0 =>
        \A a \in Addresses :
            Cardinality({s \in ActiveSids : AddressOf[sessions[s].key] = a})
                <= MaxConnectionsPerIp

\* "TYPE tftp_bytes_transferred_total counter": a counter does not go down.
TotalOnlyGrows == [][TotalBytesTransferred' >= TotalBytesTransferred]_vars
=============================================================================
