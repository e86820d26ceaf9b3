-------------------------- MODULE MetricsExporter --------------------------
(***************************************************************************)
(* MetricsExporter: HTTP connections that each get one response. The       *)
(* response is written, flushed and the connection closed in one go; if    *)
(* the kernel does not take all of it, the connection closes later.        *)
(*                                                                         *)
(* TftpServer starts and stops exporters. A stopped one accepts nothing    *)
(* more, and takes its connections with it when it is deleted.             *)
(***************************************************************************)
EXTENDS Naturals, FiniteSets

CONSTANTS
    Conns,           \* TCP connections
    ConnectionLimit  \* kMaxConnections

ASSUME ExporterAssumption == ConnectionLimit \in Nat \ {0}

VARIABLES
    exporting,  \* m_metricsServer
    conns       \* the sockets: m_connections and those that are not in it

exporterVars == <<exporting, conns>>

(***************************************************************************)
(* A "reading" and an "answered" connection are in m_connections, a        *)
(* "refused" one is not. orphan: its exporter has been stopped. responses  *)
(* counts what sendResponse() wrote since the connection was accepted.     *)
(***************************************************************************)
Connection == [state     : {"closed", "reading", "answered", "refused"},
               orphan    : BOOLEAN,
               responses : Nat]

ExporterTypeOK ==
    /\ exporting \in BOOLEAN
    /\ conns \in [Conns -> Connection]

ExporterInit ==
    /\ exporting = FALSE
    /\ conns = [c \in Conns |->
                    [state |-> "closed", orphan |-> FALSE, responses |-> 0]]

\* m_connections of the exporter that runs
Tracked == {c \in Conns : /\ conns[c].state \in {"reading", "answered"}
                          /\ ~conns[c].orphan}

\* sendResponse(): whether the kernel takes all of it is up to the kernel.
Responded(conn, pending) ==
    {[conn EXCEPT !.responses = @ + 1, !.state = next] : next \in {"closed", pending}}

HasRoom == Cardinality(Tracked) < ConnectionLimit

\* incomingConnection()
AcceptConnection(c) ==
    /\ exporting
    /\ conns[c].state = "closed"
    /\ LET conn == [state |-> "reading", orphan |-> FALSE, responses |-> 0]
       IN  IF HasRoom
           THEN conns' = [conns EXCEPT ![c] = conn]
           ELSE \E refused \in Responded(conn, "refused") :
                    conns' = [conns EXCEPT ![c] = refused]
    /\ UNCHANGED exporting

\* Mutant: "responded" is not looked at
MayAnswerAgain(c) == conns[c].state \in {"reading", "answered"}

\* The connection is in m_connections and has not been answered.
MayAnswer(c) == conns[c].state = "reading"

\* The deadline of a connection passes, or its request is complete or too long.
Answer(c) ==
    /\ MayAnswer(c)
    /\ \E conn \in Responded(conns[c], "answered") :
            conns' = [conns EXCEPT ![c] = conn]
    /\ UNCHANGED exporting

DeadlinePasses(c) == Answer(c)

RequestArrives(c) == Answer(c)

\* The rest of a response has left.
Flushed(c) ==
    /\ conns[c].state \in {"answered", "refused"}
    /\ conns' = [conns EXCEPT ![c].state = "closed"]
    /\ UNCHANGED exporting

PeerCloses(c) ==
    /\ conns[c].state # "closed"
    /\ conns' = [conns EXCEPT ![c].state = "closed"]
    /\ UNCHANGED exporting

\* What stopMetricsServer() does to the connections there are.
Orphaned == [c \in Conns |-> [conns[c] EXCEPT !.orphan = conns[c].state # "closed"]]

\* startMetricsServer() stops the exporter that runs; the new one may find the
\* port taken.
StartMetricsServer(ok) ==
    /\ exporting' = ok
    /\ conns' = Orphaned

StopMetricsServer ==
    /\ exporting' = FALSE
    /\ conns' = Orphaned

\* The stopped exporter is deleted, and its sockets with it.
DeleteExporter ==
    /\ \E c \in Conns : conns[c].orphan
    /\ conns' = [c \in Conns |->
                    IF conns[c].orphan
                    THEN [conns[c] EXCEPT !.state = "closed", !.orphan = FALSE]
                    ELSE conns[c]]
    /\ UNCHANGED exporting
=============================================================================
