--------------------------- MODULE Service_proofs ---------------------------
(***************************************************************************)
(* What the runs check of the server and its exporter, for any number of   *)
(* endpoints, requests, connections and for any limits and access rules.   *)
(***************************************************************************)
EXTENDS Service, FiniteSetTheorems, TLAPS

\* The sessions that have ended
Done == InState({"over", "deleted"})

\* A session that is to be found in the registry is the only active one of its
\* endpoint: a second one would not have begun. This is what keeps its entry,
\* which the end of any session of the endpoint takes away.
NoTwin ==
    \A s, t \in ActiveSids :
        /\ sessions[s].singlePort
        /\ ~sessions[s].stale
        /\ ~sessions[s].rival
        /\ sessions[t].key = sessions[s].key
        => t = s

BelowMax == MaxConnections > 0 => Cardinality(ActiveSids) <= MaxConnections

BelowMaxAt(a) == MaxConnectionsPerIp > 0 => Cardinality(HeardAt(a)) <= MaxConnectionsPerIp

ServerInv ==
    /\ ServerTypeOK
    /\ EachTransferCountedOnce
    /\ RegistryIsSound
    /\ SessionsAreHeard
    /\ NoTwin
    /\ BelowMax
    /\ \A a \in Addresses : BelowMaxAt(a)

ExporterInv ==
    /\ ExporterTypeOK
    /\ OneResponse
    /\ \A c \in Conns : conns[c].state = "reading" => conns[c].responses = 0

\* The bytes of the sessions that have ended are history, each once, whether or
\* not their objects are still there.
BytesInv ==
    /\ historicalBytes = Cardinality(BytesOf(Done))
    /\ \A s \in InState({"unused"}) : sessions[s].bytes = 0

\* The exporter's connections are few.
RoomInv == IsFiniteSet(Tracked) /\ Cardinality(Tracked) <= ConnectionLimit

ServiceInv == ServerInv /\ BytesInv /\ ExporterInv /\ RoomInv

-----------------------------------------------------------------------------
\* Sets of sessions

LEMMA StatesFinite == \A states : IsFiniteSet(InState(states))
<1>1. \A states : InState(states) \in SUBSET Sids
  BY DEF InState
<1>2. QED
  BY <1>1, ServerAssumption, FS_Subset

LEMMA InactiveTypes ==
    ASSUME NEW state \in {"unused", "active", "over", "deleted"},
           NEW bytes \in 0..MaxBytes
    PROVE  /\ Inactive(state, bytes) \in Session
           /\ Inactive(state, bytes).state = state
BY DEF Inactive, Session

(* A session joins a set of them or leaves one. *)
LEMMA OneMore ==
    ASSUME NEW S, NEW x, IsFiniteSet(S), x \notin S
    PROVE  Cardinality(S \cup {x}) = Cardinality(S) + 1
BY FS_AddElement

LEMMA OneLess ==
    ASSUME NEW S, NEW x, IsFiniteSet(S), x \in S
    PROVE  /\ Cardinality(S \ {x}) = Cardinality(S) - 1
           /\ Cardinality(S) \in Nat /\ Cardinality(S) - 1 \in Nat
<1>1. Cardinality(S) \in Nat /\ Cardinality(S \ {x}) \in Nat
  BY FS_RemoveElement, FS_CardinalityType
<1>2. Cardinality(S \ {x}) = Cardinality(S) - 1
  BY FS_RemoveElement
<1>3. QED
  BY <1>1, <1>2

(* Fewer sessions, fewer that are heard. *)
LEMMA FewerHeard ==
    ASSUME NEW a \in Addresses, BelowMaxAt(a), HeardAt(a)' \subseteq HeardAt(a)
    PROVE  BelowMaxAt(a)'
<1>1. IsFiniteSet(HeardAt(a))
  <2>1. HeardAt(a) \in SUBSET ActiveSids
    BY DEF HeardAt
  <2>2. QED
    BY <2>1, StatesFinite, FS_Subset DEF ActiveSids
<1>2. IsFiniteSet(HeardAt(a)') /\ Cardinality(HeardAt(a)') <= Cardinality(HeardAt(a))
  BY <1>1, FS_Subset
<1>3. Cardinality(HeardAt(a)') \in Nat /\ Cardinality(HeardAt(a)) \in Nat
  BY <1>1, <1>2, FS_CardinalityType
<1>4. QED
  BY <1>2, <1>3, ServerAssumption, SMT DEF BelowMaxAt

-----------------------------------------------------------------------------
\* The server: one lemma for each action

LEMMA ServerInitially == ServerInit => ServerInv
<1> SUFFICES ASSUME ServerInit PROVE ServerInv
  OBVIOUS
<1>1. \A s \in Sids : sessions[s] = Inactive("unused", 0)
  BY DEF ServerInit
<1>2. \A s \in Sids : sessions[s].state = "unused" /\ sessions[s] \in Session
  <2>1. 0 \in 0..MaxBytes
    BY ServerAssumption, SMT
  <2>2. QED
    BY <1>1, <2>1, InactiveTypes
<1>3. ActiveSids = {} /\ Done = {}
  BY <1>2 DEF ActiveSids, Done, InState
<1>4. DOMAIN registry = {} /\ registry \in [{} -> Sids]
  BY DEF ServerInit, NoSessions
<1>5. ServerTypeOK
  BY <1>2, <1>4 DEF ServerInit, ServerTypeOK
<1>6. EachTransferCountedOnce /\ BelowMax
  <2>1. Cardinality({}) = 0
    BY FS_EmptySet
  <2>2. Cardinality(ActiveSids) = 0 /\ Cardinality(Done) = 0
    BY <1>3, <2>1
  <2>3. activeSessions = 0 /\ transfers["success"] = 0 /\ transfers["failure"] = 0
    BY DEF ServerInit
  <2>4. BelowMax
    BY <2>2, ServerAssumption, SMT DEF BelowMax
  <2>5. EachTransferCountedOnce
    BY <2>2, <2>3, SMT DEF EachTransferCountedOnce, Done
  <2>6. QED
    BY <2>4, <2>5
<1>7. RegistryIsSound /\ SessionsAreHeard /\ NoTwin
  BY <1>3, <1>4 DEF RegistryIsSound, SessionsAreHeard, NoTwin
<1>8. ASSUME NEW a \in Addresses PROVE BelowMaxAt(a)
  <2>1. HeardAt(a) = {}
    BY <1>3 DEF HeardAt
  <2>2. Cardinality(HeardAt(a)) = 0
    BY <2>1, FS_EmptySet
  <2>3. QED
    BY <2>2, ServerAssumption, SMT DEF BelowMaxAt
<1>9. QED
  BY <1>5, <1>6, <1>7, <1>8 DEF ServerInv

(* close() and listen(): no entries, and every session that runs is stale. *)
LEMMA ClearPreserves == ServerInv /\ (CloseServer \/ Listen) => ServerInv'
<1> SUFFICES ASSUME ServerInv, CloseServer \/ Listen PROVE ServerInv'
  OBVIOUS
<1>1. /\ listening' \in BOOLEAN
      /\ registry' = NoSessions
      /\ sessions' = [s \in Sids |->
                        [sessions[s] EXCEPT !.stale = sessions[s].state = "active"]]
      /\ UNCHANGED <<singlePortMode, activeSessions, transfers, historicalBytes>>
  BY DEF CloseServer, Listen
<1>2. DOMAIN registry' = {} /\ registry' \in [{} -> Sids]
  BY <1>1 DEF NoSessions
<1>3. ASSUME NEW s \in Sids
      PROVE  /\ sessions'[s] \in Session
             /\ sessions'[s].state = sessions[s].state
             /\ sessions'[s].key = sessions[s].key
             /\ sessions'[s].stale = (sessions[s].state = "active")
  <2>1. sessions[s] \in Session
    BY DEF ServerInv, ServerTypeOK
  <2>2. QED
    BY <1>1, <2>1 DEF Session
<1>4. \A states : InState(states)' = InState(states)
  BY <1>3 DEF InState
<1>5. ActiveSids' = ActiveSids /\ Done' = Done
  BY <1>4 DEF ActiveSids, Done
<1>6. ServerTypeOK'
  <2>1. sessions' \in [Sids -> Session]
    BY <1>1, <1>3
  <2>2. QED
    BY <1>1, <1>2, <2>1 DEF ServerInv, ServerTypeOK
<1>7. EachTransferCountedOnce' /\ BelowMax'
  BY <1>1, <1>5 DEF ServerInv, EachTransferCountedOnce, BelowMax, Done
<1>8. RegistryIsSound'
  BY <1>2 DEF RegistryIsSound
<1>9. \A s \in ActiveSids' : sessions'[s].stale
  BY <1>3, <1>5 DEF ActiveSids, InState
<1>10. SessionsAreHeard' /\ NoTwin'
  BY <1>9 DEF SessionsAreHeard, NoTwin
<1>11. ASSUME NEW a \in Addresses PROVE BelowMaxAt(a)'
  <2>1. HeardAt(a)' \subseteq HeardAt(a)
    BY <1>9 DEF HeardAt
  <2>2. QED
    BY <2>1, FewerHeard DEF ServerInv
<1>12. QED
  BY <1>6, <1>7, <1>8, <1>10, <1>11 DEF ServerInv
LEMMA ModePreserves == ServerInv /\ SetSinglePortMode => ServerInv'
<1> SUFFICES ASSUME ServerInv, SetSinglePortMode PROVE ServerInv'
  OBVIOUS
<1>1. UNCHANGED <<listening, sessions, registry, activeSessions, transfers, historicalBytes>>
      /\ singlePortMode' \in BOOLEAN
  BY DEF SetSinglePortMode, ServerInv, ServerTypeOK
<1>2. ServerTypeOK'
  BY <1>1 DEF ServerInv, ServerTypeOK
<1>3. ActiveSids' = ActiveSids
  BY <1>1 DEF ActiveSids, InState
<1>4. \A a \in Addresses : BelowMaxAt(a)'
  <2>1. \A a \in Addresses : HeardAt(a)' = HeardAt(a)
    BY <1>1, <1>3 DEF HeardAt
  <2>2. QED
    BY <2>1 DEF ServerInv, BelowMaxAt
<1>5. EachTransferCountedOnce' /\ BelowMax'
  BY <1>1, <1>3 DEF ServerInv, EachTransferCountedOnce, BelowMax, InState
<1>6. RegistryIsSound' /\ SessionsAreHeard' /\ NoTwin'
  BY <1>1, <1>3 DEF ServerInv, RegistryIsSound, SessionsAreHeard, NoTwin, IsListed
<1>7. QED
  BY <1>2, <1>4, <1>5, <1>6 DEF ServerInv

(* Progress and deletion: no active session and no entry comes or goes. *)
LEMMA QuietPreserves ==
    ASSUME ServerInv, NEW s \in Sids, Progresses(s) \/ DeleteSession(s)
    PROVE  ServerInv'
<1>1. /\ UNCHANGED <<listening, singlePortMode, registry, activeSessions, transfers,
                     historicalBytes>>
      /\ \A t \in Sids : sessions[t] \in Session
  BY DEF Progresses, DeleteSession, ServerInv, ServerTypeOK
<1>2. \/ /\ sessions[s].state = "active" /\ sessions[s].bytes + 1 \in 0..MaxBytes
         /\ sessions' = [sessions EXCEPT ![s].bytes = sessions[s].bytes + 1]
      \/ /\ sessions[s].state = "over"
         /\ sessions' = [sessions EXCEPT ![s].state = "deleted"]
  <2>1. CASE Progresses(s)
    <3>1. sessions[s].state = "active" /\ sessions[s].bytes < MaxBytes
      BY <2>1 DEF Progresses, ActiveSids, InState
    <3>2. sessions[s].bytes \in 0..MaxBytes
      BY <1>1 DEF Session
    <3>3. sessions[s].bytes + 1 \in 0..MaxBytes
      BY <3>1, <3>2, ServerAssumption, SMT
    <3>4. QED
      BY <2>1, <3>1, <3>3 DEF Progresses
  <2>2. CASE DeleteSession(s)
    BY <2>2 DEF DeleteSession, InState
  <2>3. QED
    BY <2>1, <2>2
<1>3. sessions \in [Sids -> Session]
  BY DEF ServerInv, ServerTypeOK
<1>4. sessions' \in [Sids -> Session]
  BY <1>1, <1>2, <1>3 DEF Session
<1>5. ASSUME NEW t \in Sids
      PROVE  /\ sessions'[t].key = sessions[t].key
             /\ sessions'[t].singlePort = sessions[t].singlePort
             /\ sessions'[t].stale = sessions[t].stale
             /\ sessions'[t].rival = sessions[t].rival
             /\ (sessions'[t].state = "active") = (sessions[t].state = "active")
             /\ (sessions'[t].state \in {"over", "deleted"}) =
                    (sessions[t].state \in {"over", "deleted"})
  BY <1>1, <1>2, <1>3 DEF Session
<1>6. ActiveSids' = ActiveSids /\ Done' = Done
  BY <1>5 DEF ActiveSids, Done, InState
<1>7. ActiveSids \subseteq Sids
  BY DEF ActiveSids, InState
<1>8. ServerTypeOK'
  BY <1>1, <1>4 DEF ServerInv, ServerTypeOK
<1>9. EachTransferCountedOnce' /\ BelowMax'
  BY <1>1, <1>6 DEF ServerInv, EachTransferCountedOnce, BelowMax, Done
<1>10. RegistryIsSound'
  BY <1>1, <1>5, <1>6, <1>7 DEF ServerInv, RegistryIsSound
<1>11. SessionsAreHeard' /\ NoTwin'
  BY <1>1, <1>5, <1>6, <1>7 DEF ServerInv, SessionsAreHeard, NoTwin, IsListed
<1>12. ASSUME NEW a \in Addresses PROVE BelowMaxAt(a)'
  <2>1. HeardAt(a)' \subseteq HeardAt(a)
    BY <1>5, <1>6, <1>7 DEF HeardAt
  <2>2. QED
    BY <2>1, FewerHeard DEF ServerInv
<1>13. QED
  BY <1>8, <1>9, <1>10, <1>11, <1>12 DEF ServerInv
(* One more transfer is counted, whatever its outcome. *)
LEMMA OutcomeCounted ==
    ASSUME transfers \in [{"success", "failure"} -> Nat],
           NEW outcome \in {"success", "failure"},
           transfers' = [transfers EXCEPT ![outcome] = @ + 1]
    PROVE  /\ transfers' \in [{"success", "failure"} -> Nat]
           /\ transfers'["success"] + transfers'["failure"] =
                transfers["success"] + transfers["failure"] + 1
<1>1. transfers["success"] \in Nat /\ transfers["failure"] \in Nat
  OBVIOUS
<1>2. CASE outcome = "success"
  <2>1. transfers'["success"] = transfers["success"] + 1
        /\ transfers'["failure"] = transfers["failure"]
    BY <1>2
  <2>2. transfers["success"] + 1 \in Nat
    BY <1>1, SMT
  <2>3. transfers' \in [{"success", "failure"} -> Nat]
    BY <1>2, <2>2
  <2>4. QED
    BY <1>1, <2>1, <2>3, SMT
<1>3. CASE outcome = "failure"
  <2>1. transfers'["failure"] = transfers["failure"] + 1
        /\ transfers'["success"] = transfers["success"]
    BY <1>3
  <2>2. transfers["failure"] + 1 \in Nat
    BY <1>1, SMT
  <2>3. transfers' \in [{"success", "failure"} -> Nat]
    BY <1>3, <2>2
  <2>4. QED
    BY <1>1, <2>1, <2>3, SMT
<1>4. QED
  BY <1>2, <1>3

(* A session that ended is one more of them. *)
LEMMA EndCounted ==
    ASSUME ServerInv, NEW s \in Sids, s \notin Done, Done' = Done \cup {s},
           NEW outcome \in {"success", "failure"},
           transfers' = [transfers EXCEPT ![outcome] = @ + 1]
    PROVE  /\ transfers' \in [{"success", "failure"} -> Nat]
           /\ transfers'["success"] + transfers'["failure"] = Cardinality(Done)'
<1>1. transfers \in [{"success", "failure"} -> Nat]
      /\ transfers["success"] + transfers["failure"] = Cardinality(Done)
  BY DEF ServerInv, ServerTypeOK, EachTransferCountedOnce, Done
<1>2. Cardinality(Done)' = Cardinality(Done) + 1
  <2>1. IsFiniteSet(Done)
    BY StatesFinite DEF Done
  <2>2. QED
    BY <2>1, OneMore
<1>3. QED
  BY <1>1, <1>2, OutcomeCounted

(* The handler of finished(): it takes away the entry of this session, if that
   is what is there, and never that of one that is to be found. *)
LEMMA FinishPreserves ==
    ASSUME ServerInv, NEW s \in Sids, NEW outcome \in {"success", "failure"},
           Finishes(s, outcome)
    PROVE  ServerInv'
<1>1. /\ s \in ActiveSids /\ sessions[s].state = "active"
      /\ sessions \in [Sids -> Session]
      /\ sessions[s].bytes \in 0..MaxBytes
  BY DEF Finishes, ServerInv, ServerTypeOK, ActiveSids, InState, Session
<1>2. sessions' = [sessions EXCEPT ![s] = Inactive("over", sessions[s].bytes)]
  BY DEF Finishes
<1>3. Inactive("over", sessions[s].bytes) \in Session
      /\ Inactive("over", sessions[s].bytes).state = "over"
  BY <1>1, InactiveTypes
<1>4. /\ sessions' \in [Sids -> Session]
      /\ sessions'[s].state = "over"
      /\ \A t \in Sids : t # s => sessions'[t] = sessions[t]
  BY <1>1, <1>2, <1>3
<1>5. ActiveSids' = ActiveSids \ {s} /\ Done' = Done \cup {s} /\ s \notin Done
  BY <1>1, <1>4 DEF ActiveSids, Done, InState
<1>6. /\ DOMAIN registry' = DOMAIN registry \ {sessions[s].key}
      /\ \A k \in DOMAIN registry' : registry'[k] = registry[k]
      /\ registry' = [k \in DOMAIN registry' |-> registry[k]]
  BY DEF Finishes, RemoveEntry
<1>7. activeSessions = Cardinality(ActiveSids) /\ activeSessions' = activeSessions - 1
  BY DEF ServerInv, EachTransferCountedOnce, Finishes
<1>8. /\ Cardinality(ActiveSids) \in Nat
      /\ Cardinality(ActiveSids) - 1 \in Nat
      /\ Cardinality(ActiveSids') = Cardinality(ActiveSids) - 1
  <2>1. IsFiniteSet(ActiveSids)
    BY StatesFinite DEF ActiveSids
  <2>2. QED
    BY <1>1, <1>5, <2>1, OneLess
<1>9. /\ transfers' \in [{"success", "failure"} -> Nat]
      /\ transfers'["success"] + transfers'["failure"] = Cardinality(Done)'
  <2>1. transfers' = [transfers EXCEPT ![outcome] = @ + 1]
    BY DEF Finishes
  <2>2. QED
    BY <1>5, <2>1, EndCounted
<1>10. ServerTypeOK'
  <2>1. historicalBytes' \in Nat
    <3>1. historicalBytes \in Nat /\ sessions[s].bytes \in Nat
      BY <1>1, ServerAssumption, SMT DEF ServerInv, ServerTypeOK
    <3>2. historicalBytes + sessions[s].bytes \in Nat
      BY <3>1, SMT
    <3>3. QED
      BY <3>2 DEF Finishes
  <2>2. activeSessions' \in Nat
    BY <1>7, <1>8
  <2>3. DOMAIN registry' \subseteq Keys /\ registry' \in [DOMAIN registry' -> Sids]
    <3>1. DOMAIN registry \subseteq Keys /\ \A k \in DOMAIN registry : registry[k] \in Sids
      BY DEF ServerInv, ServerTypeOK
    <3>2. QED
      BY <1>6, <3>1
  <2>4. listening' \in BOOLEAN /\ singlePortMode' \in BOOLEAN
    BY DEF ServerInv, ServerTypeOK, Finishes
  <2>5. QED
    BY <1>4, <1>9, <2>1, <2>2, <2>3, <2>4 DEF ServerTypeOK
<1>11. EachTransferCountedOnce'
  BY <1>7, <1>8, <1>9 DEF EachTransferCountedOnce, Done
<1>12. BelowMax'
  <2>1. BelowMax
    BY DEF ServerInv
  <2>2. QED
    BY <1>8, <2>1, ServerAssumption, SMT DEF BelowMax
<1>13. RegistryIsSound'
  <2>1. SUFFICES ASSUME NEW k \in DOMAIN registry'
                 PROVE  /\ registry'[k] \in ActiveSids'
                        /\ sessions'[registry'[k]].key = k
                        /\ sessions'[registry'[k]].singlePort
                        /\ ~sessions'[registry'[k]].stale
    BY DEF RegistryIsSound
  <2>2. k \in DOMAIN registry /\ k # sessions[s].key /\ registry'[k] = registry[k]
    BY <1>6
  <2>3. /\ registry[k] \in ActiveSids
        /\ sessions[registry[k]].key = k
        /\ sessions[registry[k]].singlePort
        /\ ~sessions[registry[k]].stale
    BY <2>2 DEF ServerInv, RegistryIsSound
  <2>4. registry[k] # s /\ registry[k] \in Sids
    BY <2>2, <2>3 DEF ActiveSids, InState
  <2>5. QED
    BY <1>4, <1>5, <2>2, <2>3, <2>4
<1>14. SessionsAreHeard'
  <2>1. SUFFICES ASSUME NEW t \in ActiveSids', sessions'[t].singlePort,
                        ~sessions'[t].stale, ~sessions'[t].rival
                 PROVE  IsListed(t)'
    BY DEF SessionsAreHeard
  <2>2. t \in ActiveSids /\ t # s /\ t \in Sids
    BY <1>5 DEF ActiveSids, InState
  <2>3. sessions'[t] = sessions[t]
    BY <1>4, <2>2
  <2>4. IsListed(t)
    BY <2>1, <2>2, <2>3 DEF ServerInv, SessionsAreHeard
  <2>5. sessions[t].key # sessions[s].key
    BY <1>1, <2>1, <2>2, <2>3 DEF ServerInv, NoTwin
  <2>6. QED
    BY <1>6, <2>3, <2>4, <2>5 DEF IsListed
<1>15. NoTwin'
  BY <1>4, <1>5 DEF ServerInv, NoTwin, ActiveSids, InState
<1>16. ASSUME NEW a \in Addresses PROVE BelowMaxAt(a)'
  <2>1. HeardAt(a)' \subseteq HeardAt(a)
    BY <1>4, <1>5 DEF HeardAt, ActiveSids, InState
  <2>2. QED
    BY <2>1, FewerHeard DEF ServerInv
<1>17. QED
  BY <1>10, <1>11, <1>12, <1>13, <1>14, <1>15, <1>16 DEF ServerInv

(* A session that fails inside start() was never active. *)
LEMMA FailPreserves ==
    ASSUME ServerInv, NEW k \in Keys, NEW isUpload \in BOOLEAN, NEW s \in Sids,
           StartFails(k, isUpload, s)
    PROVE  ServerInv'
<1>1. /\ sessions[s].state = "unused"
      /\ sessions \in [Sids -> Session]
      /\ sessions' = [sessions EXCEPT ![s] = Inactive("over", 0)]
      /\ UNCHANGED <<listening, singlePortMode, registry, activeSessions, historicalBytes>>
  BY DEF StartFails, ServerInv, ServerTypeOK, InState
<1>2. Inactive("over", 0) \in Session /\ Inactive("over", 0).state = "over"
  <2>1. 0 \in 0..MaxBytes
    BY ServerAssumption, SMT
  <2>2. QED
    BY <2>1, InactiveTypes
<1>3. /\ sessions' \in [Sids -> Session]
      /\ sessions'[s].state = "over"
      /\ \A t \in Sids : t # s => sessions'[t] = sessions[t]
  BY <1>1, <1>2
<1>4. ActiveSids' = ActiveSids /\ Done' = Done \cup {s} /\ s \notin Done
      /\ s \notin ActiveSids
  BY <1>1, <1>3 DEF ActiveSids, Done, InState
<1>5. \A t \in ActiveSids : t \in Sids /\ sessions'[t] = sessions[t]
  BY <1>3, <1>4 DEF ActiveSids, InState
<1>6. /\ transfers' \in [{"success", "failure"} -> Nat]
      /\ transfers'["success"] + transfers'["failure"] = Cardinality(Done)'
  <2>1. transfers' = [transfers EXCEPT !["failure"] = @ + 1]
    BY DEF StartFails
  <2>2. QED
    BY <1>4, <2>1, EndCounted
<1>7. ServerTypeOK'
  BY <1>1, <1>3, <1>6 DEF ServerInv, ServerTypeOK
<1>8. EachTransferCountedOnce' /\ BelowMax'
  BY <1>1, <1>4, <1>6 DEF ServerInv, EachTransferCountedOnce, BelowMax, Done
<1>9. RegistryIsSound'
  BY <1>1, <1>4, <1>5 DEF ServerInv, RegistryIsSound
<1>10. SessionsAreHeard' /\ NoTwin'
  BY <1>1, <1>4, <1>5 DEF ServerInv, SessionsAreHeard, NoTwin, IsListed
<1>11. ASSUME NEW a \in Addresses PROVE BelowMaxAt(a)'
  <2>1. HeardAt(a)' \subseteq HeardAt(a)
    BY <1>4, <1>5 DEF HeardAt
  <2>2. QED
    BY <2>1, FewerHeard DEF ServerInv
<1>12. QED
  BY <1>7, <1>8, <1>9, <1>10, <1>11 DEF ServerInv
\* The entries that the limit of an address counts
EntriesAt(a) == {l \in DOMAIN registry : AddressOf[sessions[registry[l]].key] = a}

(* Every session that is heard has an entry of its own, so the entries count
   them all. *)
LEMMA EntriesCountHeard ==
    ASSUME ServerInv, NEW a \in Addresses
    PROVE  /\ Cardinality(HeardAt(a)) \in Nat /\ Cardinality(EntriesAt(a)) \in Nat
           /\ Cardinality(HeardAt(a)) <= Cardinality(EntriesAt(a))
<1> DEFINE f == [t \in HeardAt(a) |-> sessions[t].key]
<1>1. ASSUME NEW t \in HeardAt(a)
      PROVE  sessions[t].key \in EntriesAt(a) /\ registry[sessions[t].key] = t
  <2>1. t \in ActiveSids /\ IsListed(t) /\ AddressOf[sessions[t].key] = a
    BY DEF HeardAt, ServerInv, SessionsAreHeard
  <2>2. QED
    BY <2>1 DEF IsListed, EntriesAt
<1>2. f \in [HeardAt(a) -> EntriesAt(a)]
  BY <1>1
<1>3. IsInjective(f)
  BY <1>1 DEF IsInjective
<1>4. f \in Injection(HeardAt(a), EntriesAt(a))
  BY <1>2, <1>3 DEF Injection
<1>5. IsFiniteSet(EntriesAt(a))
  <2>1. EntriesAt(a) \in SUBSET Keys
    BY DEF EntriesAt, ServerInv, ServerTypeOK
  <2>2. QED
    BY <2>1, ServerAssumption, FS_Subset
<1> HIDE DEF f
<1>6. IsFiniteSet(HeardAt(a)) /\ Cardinality(HeardAt(a)) <= Cardinality(EntriesAt(a))
  BY <1>4, <1>5, FS_Injection
<1>7. QED
  BY <1>5, <1>6, FS_CardinalityType

(* A new session: it is counted, and has an entry of its own. *)
LEMMA StartPreserves ==
    ASSUME ServerInv, NEW k \in Keys, NEW isUpload \in BOOLEAN, NEW s \in Sids,
           StartSession(k, isUpload, s)
    PROVE  ServerInv'
<1>1. /\ sessions[s].state = "unused"
      /\ sessions \in [Sids -> Session]
      /\ sessions' = [sessions EXCEPT ![s] = NewSession(k)]
      /\ k \notin DOMAIN registry
      /\ singlePortMode \in BOOLEAN
      /\ UNCHANGED <<listening, singlePortMode, transfers, historicalBytes>>
  BY DEF StartSession, Admissible, ServerInv, ServerTypeOK, InState
<1>2. /\ NewSession(k) \in Session
      /\ NewSession(k).state = "active"
      /\ NewSession(k).key = k
      /\ NewSession(k).singlePort = singlePortMode
      /\ NewSession(k).stale = FALSE
      /\ NewSession(k).rival = \E o \in ActiveSids : sessions[o].key = k
  <2>1. 0 \in 0..MaxBytes
    BY ServerAssumption, SMT
  <2>2. QED
    BY <1>1, <2>1 DEF NewSession, Session
<1>3. /\ sessions' \in [Sids -> Session]
      /\ sessions'[s] = NewSession(k)
      /\ \A t \in Sids : t # s => sessions'[t] = sessions[t]
  BY <1>1, <1>2
<1>4. ActiveSids' = ActiveSids \cup {s} /\ Done' = Done /\ s \notin ActiveSids
  BY <1>1, <1>2, <1>3 DEF ActiveSids, Done, InState
<1>5. \A t \in ActiveSids : t \in Sids /\ t # s /\ sessions'[t] = sessions[t]
  BY <1>3, <1>4 DEF ActiveSids, InState
<1>6. registry' = IF singlePortMode
                  THEN [l \in DOMAIN registry \cup {k} |-> IF l = k THEN s ELSE registry[l]]
                  ELSE registry
  BY DEF StartSession
<1>7. /\ \A l \in DOMAIN registry : l \in DOMAIN registry' /\ registry'[l] = registry[l]
      /\ \A l \in DOMAIN registry' :
            \/ l \in DOMAIN registry
            \/ l = k /\ registry'[l] = s /\ singlePortMode
      /\ singlePortMode => k \in DOMAIN registry' /\ registry'[k] = s
  BY <1>1, <1>6
<1>8. /\ activeSessions = Cardinality(ActiveSids) /\ activeSessions' = activeSessions + 1
      /\ Cardinality(ActiveSids') = Cardinality(ActiveSids) + 1
      /\ Cardinality(ActiveSids) \in Nat
  <2>1. IsFiniteSet(ActiveSids)
    BY StatesFinite DEF ActiveSids
  <2>2. Cardinality(ActiveSids') = Cardinality(ActiveSids) + 1
    BY <1>4, <2>1, OneMore
  <2>3. QED
    BY <2>1, <2>2, FS_CardinalityType DEF ServerInv, EachTransferCountedOnce, StartSession
<1>9. ServerTypeOK'
  <2>1. activeSessions' \in Nat
    BY <1>8, SMT
  <2>2. DOMAIN registry' \subseteq Keys /\ registry' \in [DOMAIN registry' -> Sids]
    <3>1. DOMAIN registry \subseteq Keys /\ registry \in [DOMAIN registry -> Sids]
      BY DEF ServerInv, ServerTypeOK
    <3>2. CASE singlePortMode
      <4>1. registry' = [l \in DOMAIN registry \cup {k} |-> IF l = k THEN s ELSE registry[l]]
        BY <1>6, <3>2
      <4>2. QED
        BY <3>1, <4>1
    <3>3. CASE ~singlePortMode
      BY <1>6, <3>1, <3>3
    <3>4. QED
      BY <3>2, <3>3
  <2>3. QED
    BY <1>1, <1>3, <2>1, <2>2 DEF ServerInv, ServerTypeOK
<1>10. EachTransferCountedOnce'
  <2>1. transfers' = transfers /\ transfers["success"] + transfers["failure"] = Cardinality(Done)
    BY <1>1 DEF ServerInv, EachTransferCountedOnce, Done
  <2>2. QED
    BY <1>4, <1>8, <2>1 DEF EachTransferCountedOnce, Done
<1>11. BelowMax'
  <2>1. MaxConnections > 0 => activeSessions < MaxConnections
    BY DEF StartSession, Admissible, BelowMaxConnections
  <2>2. QED
    BY <1>8, <2>1, ServerAssumption, SMT DEF BelowMax
<1>12. RegistryIsSound'
  <2>1. SUFFICES ASSUME NEW l \in DOMAIN registry'
                 PROVE  /\ registry'[l] \in ActiveSids'
                        /\ sessions'[registry'[l]].key = l
                        /\ sessions'[registry'[l]].singlePort
                        /\ ~sessions'[registry'[l]].stale
    BY DEF RegistryIsSound
  <2>2. CASE l \in DOMAIN registry
    BY <1>4, <1>5, <1>7, <2>2 DEF ServerInv, RegistryIsSound
  <2>3. CASE l = k /\ registry'[l] = s /\ singlePortMode
    BY <1>2, <1>3, <1>4, <2>3
  <2>4. QED
    BY <1>7, <2>2, <2>3
<1>13. SessionsAreHeard'
  <2>1. SUFFICES ASSUME NEW t \in ActiveSids', sessions'[t].singlePort,
                        ~sessions'[t].stale, ~sessions'[t].rival
                 PROVE  IsListed(t)'
    BY DEF SessionsAreHeard
  <2>2. CASE t = s
    BY <1>2, <1>3, <1>7, <2>1, <2>2 DEF IsListed
  <2>3. CASE t # s
    <3>1. t \in ActiveSids /\ sessions'[t] = sessions[t]
      BY <1>4, <1>5, <2>3
    <3>2. IsListed(t)
      BY <2>1, <3>1 DEF ServerInv, SessionsAreHeard
    <3>3. QED
      BY <1>7, <3>1, <3>2 DEF IsListed
  <2>4. QED
    BY <2>2, <2>3
<1>14. NoTwin'
  <2>1. SUFFICES ASSUME NEW t \in ActiveSids', NEW u \in ActiveSids', sessions'[t].singlePort,
                        ~sessions'[t].stale, ~sessions'[t].rival,
                        sessions'[u].key = sessions'[t].key, u # t
                 PROVE  FALSE
    BY DEF NoTwin
  <2>2. CASE t = s
    <3>1. u \in ActiveSids /\ sessions[u].key = k
      BY <1>2, <1>3, <1>4, <1>5, <2>1, <2>2
    <3>2. QED
      BY <1>2, <1>3, <2>1, <2>2, <3>1
  <2>3. CASE t # s
    <3>1. t \in ActiveSids /\ sessions'[t] = sessions[t] /\ IsListed(t)
      BY <1>4, <1>5, <2>1, <2>3 DEF ServerInv, SessionsAreHeard
    <3>2. sessions[t].key # k
      BY <1>1, <3>1 DEF IsListed
    <3>3. u # s
      BY <1>2, <1>3, <2>1, <3>1, <3>2
    <3>4. u \in ActiveSids /\ sessions'[u] = sessions[u]
      BY <1>4, <1>5, <3>3
    <3>5. QED
      BY <2>1, <3>1, <3>4 DEF ServerInv, NoTwin
  <2>4. QED
    BY <2>2, <2>3
<1>15. ASSUME NEW a \in Addresses PROVE BelowMaxAt(a)'
  <2>1. HeardAt(a)' \subseteq HeardAt(a) \cup {s}
    BY <1>4, <1>5 DEF HeardAt
  <2>2. CASE s \notin HeardAt(a)'
    <3>1. HeardAt(a)' \subseteq HeardAt(a)
      BY <2>1, <2>2
    <3>2. QED
      BY <3>1, FewerHeard DEF ServerInv
  <2>3. CASE s \in HeardAt(a)'
    <3>1. AddressOf[k] = a
      BY <1>2, <1>3, <2>3 DEF HeardAt
    <3>2. MaxConnectionsPerIp > 0 => Cardinality(EntriesAt(a)) < MaxConnectionsPerIp
      BY <3>1 DEF StartSession, Admissible, BelowMaxPerIp, EntriesAt
    <3>3. IsFiniteSet(HeardAt(a)) /\ s \notin HeardAt(a)
      <4>1. HeardAt(a) \in SUBSET ActiveSids
        BY DEF HeardAt
      <4>2. QED
        BY <1>4, <4>1, StatesFinite, FS_Subset DEF ActiveSids
    <3>4. Cardinality(HeardAt(a) \cup {s}) = Cardinality(HeardAt(a)) + 1
          /\ IsFiniteSet(HeardAt(a) \cup {s})
      BY <3>3, FS_AddElement
    <3>5. Cardinality(HeardAt(a)') <= Cardinality(HeardAt(a) \cup {s})
          /\ Cardinality(HeardAt(a)') \in Nat
      <4>1. HeardAt(a)' \in SUBSET (HeardAt(a) \cup {s})
        BY <2>1
      <4>2. IsFiniteSet(HeardAt(a)') /\ Cardinality(HeardAt(a)') <= Cardinality(HeardAt(a) \cup {s})
        BY <3>4, <4>1, FS_Subset
      <4>3. QED
        BY <4>2, FS_CardinalityType
    <3>6. /\ Cardinality(HeardAt(a)) \in Nat /\ Cardinality(EntriesAt(a)) \in Nat
          /\ Cardinality(HeardAt(a)) <= Cardinality(EntriesAt(a))
      BY EntriesCountHeard
    <3>7. MaxConnectionsPerIp > 0 => Cardinality(HeardAt(a)') <= MaxConnectionsPerIp
      BY <3>2, <3>4, <3>5, <3>6, ServerAssumption, SMT
    <3>8. QED
      BY <3>7 DEF BelowMaxAt
  <2>4. QED
    BY <2>2, <2>3
<1>16. QED
  BY <1>9, <1>10, <1>11, <1>12, <1>13, <1>14, <1>15 DEF ServerInv
(* Whatever a session or its client does. *)
LEMMA ActsPreserve ==
    ASSUME ServerInv, NEW s \in Sids, SessionActs(s)
    PROVE  ServerInv'
BY QuietPreserves, FinishPreserves DEF SessionActs

LEMMA ServerStutters ==
    ASSUME ServerInv, UNCHANGED serverVars
    PROVE  ServerInv'
BY DEF ServerInv, serverVars, ServerTypeOK, EachTransferCountedOnce, RegistryIsSound,
       SessionsAreHeard, NoTwin, BelowMax, BelowMaxAt, HeardAt, IsListed, ActiveSids, InState

-----------------------------------------------------------------------------
\* Bytes

LEMMA BytesFinite ==
    ASSUME NEW S, S \subseteq Sids
    PROVE  IsFiniteSet(BytesOf(S)) /\ Cardinality(BytesOf(S)) \in Nat
<1>1. IsFiniteSet(S) /\ IsFiniteSet(1..MaxBytes)
  <2>1. 1 \in Int /\ MaxBytes \in Int
    BY ServerAssumption, SMT
  <2>2. QED
    BY <2>1, ServerAssumption, FS_Interval, FS_Subset
<1>2. IsFiniteSet(S \X (1..MaxBytes))
  BY <1>1, FS_Product
<1>3. BytesOf(S) \in SUBSET (S \X (1..MaxBytes))
  BY DEF BytesOf
<1>4. IsFiniteSet(BytesOf(S))
  BY <1>2, <1>3, FS_Subset
<1>5. QED
  BY <1>4, FS_CardinalityType

(* Each session has as many of them as it counts. *)
LEMMA BytesOfOne ==
    ASSUME NEW s \in Sids, sessions[s].bytes \in 0..MaxBytes
    PROVE  /\ IsFiniteSet(BytesOf({s}))
           /\ Cardinality(BytesOf({s})) = sessions[s].bytes
<1> DEFINE n == sessions[s].bytes
<1>1. n \in Nat /\ n <= MaxBytes /\ 1 \in Int /\ n \in Int /\ MaxBytes \in Nat
  BY ServerAssumption, SMT
<1>2. IsFiniteSet(1..n) /\ Cardinality(1..n) = IF 1 > n THEN 0 ELSE n - 1 + 1
  BY <1>1, FS_Interval
<1>3. Cardinality(1..n) = n
  BY <1>1, <1>2, SMT
<1>4. IsFiniteSet({s}) /\ Cardinality({s}) = 1
  BY FS_Singleton
<1>5. /\ IsFiniteSet({s} \X (1..n))
      /\ Cardinality({s} \X (1..n)) = Cardinality({s}) * Cardinality(1..n)
  BY <1>2, <1>4, FS_Product
<1>6. BytesOf({s}) = {s} \X (1..n)
  <2>1. ASSUME NEW i PROVE (i \in 1..MaxBytes /\ i <= n) <=> i \in 1..n
    BY <1>1, SMT
  <2>2. QED
    BY <2>1 DEF BytesOf
<1>7. Cardinality({s} \X (1..n)) = n
  BY <1>1, <1>3, <1>4, <1>5, SMT
<1>8. QED
  BY <1>5, <1>6, <1>7

(* The bytes of two sets of sessions that have none in common. *)
LEMMA BytesAdd ==
    ASSUME NEW S, NEW T, S \subseteq Sids, T \subseteq Sids, S \cap T = {}
    PROVE  Cardinality(BytesOf(S \cup T)) =
                Cardinality(BytesOf(S)) + Cardinality(BytesOf(T))
<1>1. /\ IsFiniteSet(BytesOf(S)) /\ Cardinality(BytesOf(S)) \in Nat
      /\ IsFiniteSet(BytesOf(T)) /\ Cardinality(BytesOf(T)) \in Nat
  BY BytesFinite
<1>2. BytesOf(S \cup T) = BytesOf(S) \cup BytesOf(T)
  BY DEF BytesOf
<1>3. BytesOf(S) \cap BytesOf(T) = {}
  BY DEF BytesOf
<1>4. Cardinality(BytesOf(S) \cup BytesOf(T)) =
        Cardinality(BytesOf(S)) + Cardinality(BytesOf(T))
            - Cardinality(BytesOf(S) \cap BytesOf(T))
  BY <1>1, FS_Union
<1>5. Cardinality(BytesOf(S) \cap BytesOf(T)) = 0
  BY <1>3, FS_EmptySet
<1>6. Cardinality(BytesOf(S) \cup BytesOf(T)) =
        Cardinality(BytesOf(S)) + Cardinality(BytesOf(T))
  BY <1>1, <1>4, <1>5, SMT
<1>7. QED
  BY <1>2, <1>6

(* A step in which no session ends and none that ended counts on. *)
LEMMA NoneEnds ==
    ASSUME BytesInv, Done' = Done, historicalBytes' = historicalBytes,
           \A s \in Done : sessions'[s].bytes = sessions[s].bytes,
           \A s \in InState({"unused"})' : s \in InState({"unused"})
                                           /\ sessions'[s].bytes = sessions[s].bytes
    PROVE  BytesInv'
<1>1. BytesOf(Done)' = BytesOf(Done)
  BY DEF BytesOf
<1>2. QED
  BY <1>1 DEF BytesInv

(* The handler of finished() adds the bytes of its session. *)
LEMMA FinishBytes ==
    ASSUME ServerInv, BytesInv, NEW s \in Sids, NEW outcome, Finishes(s, outcome)
    PROVE  BytesInv'
<1>1. /\ sessions \in [Sids -> Session]
      /\ sessions[s].state = "active"
      /\ sessions[s].bytes \in 0..MaxBytes
      /\ sessions' = [sessions EXCEPT ![s] = Inactive("over", sessions[s].bytes)]
      /\ historicalBytes' = historicalBytes + sessions[s].bytes
  BY DEF Finishes, ServerInv, ServerTypeOK, ActiveSids, InState, Session
<1>2. /\ sessions'[s].state = "over" /\ sessions'[s].bytes = sessions[s].bytes
      /\ \A t \in Sids : t # s => sessions'[t] = sessions[t]
  BY <1>1 DEF Inactive
<1>3. s \notin Done /\ Done' = Done \cup {s} /\ Done \subseteq Sids
  BY <1>1, <1>2 DEF Done, InState
<1>4. BytesOf(Done)' = BytesOf(Done \cup {s})
  <2>1. \A t \in Done \cup {s} : sessions'[t].bytes = sessions[t].bytes
    BY <1>2, <1>3
  <2>2. QED
    BY <1>3, <2>1 DEF BytesOf
<1>5. Cardinality(BytesOf(Done \cup {s})) = Cardinality(BytesOf(Done)) + sessions[s].bytes
  <2>1. Cardinality(BytesOf({s})) = sessions[s].bytes
    BY <1>1, BytesOfOne
  <2>2. {s} \subseteq Sids /\ Done \cap {s} = {}
    BY <1>3
  <2>3. QED
    BY <1>3, <2>1, <2>2, BytesAdd
<1>6. \A t \in InState({"unused"})' : t \in InState({"unused"})
                                      /\ sessions'[t].bytes = sessions[t].bytes
  BY <1>2 DEF InState
<1>7. QED
  BY <1>1, <1>4, <1>5, <1>6 DEF BytesInv

(* What else a session does leaves history alone. *)
LEMMA ActsBytes ==
    ASSUME ServerInv, BytesInv, NEW s \in Sids, SessionActs(s) \/ DeleteSession(s)
    PROVE  BytesInv'
<1>1. sessions \in [Sids -> Session]
  BY DEF ServerInv, ServerTypeOK
<1>2. CASE Progresses(s)
  <2>1. /\ sessions[s].state = "active"
        /\ sessions' = [sessions EXCEPT ![s].bytes = sessions[s].bytes + 1]
        /\ historicalBytes' = historicalBytes
    BY <1>2 DEF Progresses, ActiveSids, InState
  <2>2. /\ \A t \in Sids : sessions'[t].state = sessions[t].state
        /\ \A t \in Sids : t # s => sessions'[t] = sessions[t]
    BY <1>1, <2>1 DEF Session
  <2>3. Done' = Done /\ s \notin Done /\ Done \subseteq Sids
        /\ InState({"unused"})' = InState({"unused"}) /\ s \notin InState({"unused"})
        /\ InState({"unused"}) \subseteq Sids
    BY <2>1, <2>2 DEF Done, InState
  <2>4. QED
    BY <2>1, <2>2, <2>3, NoneEnds
<1>3. CASE DeleteSession(s)
  <2>1. /\ sessions[s].state = "over"
        /\ sessions' = [sessions EXCEPT ![s].state = "deleted"]
        /\ historicalBytes' = historicalBytes
    BY <1>3 DEF DeleteSession, InState
  <2>2. /\ \A t \in Sids : sessions'[t].bytes = sessions[t].bytes
        /\ \A t \in Sids : t # s => sessions'[t] = sessions[t]
        /\ sessions'[s].state = "deleted"
    BY <1>1, <2>1 DEF Session
  <2>3. Done' = Done /\ Done \subseteq Sids
        /\ InState({"unused"})' = InState({"unused"}) /\ InState({"unused"}) \subseteq Sids
    BY <2>1, <2>2 DEF Done, InState
  <2>4. QED
    BY <2>1, <2>2, <2>3, NoneEnds
<1>4. CASE \E outcome \in {"success", "failure"} : Finishes(s, outcome)
  BY <1>4, FinishBytes
<1>5. QED
  BY <1>2, <1>3, <1>4 DEF SessionActs

(* A session begins with nothing, also one that ends at once. *)
LEMMA BeginBytes ==
    ASSUME ServerInv, BytesInv, NEW k \in Keys, NEW isUpload \in BOOLEAN, NEW s \in Sids,
           StartSession(k, isUpload, s) \/ StartFails(k, isUpload, s)
    PROVE  BytesInv'
<1>1. /\ sessions \in [Sids -> Session]
      /\ sessions[s].state = "unused"
      /\ historicalBytes' = historicalBytes
      /\ MaxBytes \in Nat
  BY ServerAssumption DEF StartSession, StartFails, ServerInv, ServerTypeOK, InState
<1>2. /\ sessions'[s].state \in {"active", "over"} /\ sessions'[s].bytes = 0
      /\ \A t \in Sids : t # s => sessions'[t] = sessions[t]
  BY <1>1 DEF StartSession, StartFails, NewSession, Inactive
<1>3. \A t \in InState({"unused"})' : t \in InState({"unused"})
                                      /\ sessions'[t].bytes = sessions[t].bytes
  BY <1>2 DEF InState
<1>4. Done \subseteq Sids /\ s \notin Done /\ Done' \subseteq Done \cup {s}
      /\ Done \subseteq Done'
  BY <1>1, <1>2 DEF Done, InState
<1>5. BytesOf(Done)' = BytesOf(Done)
  <2>1. \A i \in 1..MaxBytes : ~(i <= sessions'[s].bytes)
    BY <1>1, <1>2, SMT
  <2>2. \A t \in Done : sessions'[t].bytes = sessions[t].bytes
    BY <1>2, <1>4
  <2>3. BytesOf(Done)' \subseteq BytesOf(Done)
    BY <1>4, <2>1, <2>2 DEF BytesOf
  <2>4. BytesOf(Done) \subseteq BytesOf(Done)'
    BY <1>4, <2>2 DEF BytesOf
  <2>5. QED
    BY <2>3, <2>4
<1>6. QED
  BY <1>1, <1>3, <1>5 DEF BytesInv

(* What the owner does leaves all counts alone. *)
LEMMA OwnerBytes ==
    ASSUME ServerInv, BytesInv, CloseServer \/ Listen \/ SetSinglePortMode
    PROVE  BytesInv'
<1>1. /\ historicalBytes' = historicalBytes
      /\ \A s \in Sids : /\ sessions'[s].state = sessions[s].state
                         /\ sessions'[s].bytes = sessions[s].bytes
  BY DEF CloseServer, Listen, SetSinglePortMode, ServerInv, ServerTypeOK, Session
<1>2. Done' = Done /\ Done \subseteq Sids
      /\ InState({"unused"})' = InState({"unused"}) /\ InState({"unused"}) \subseteq Sids
  BY <1>1 DEF Done, InState
<1>3. QED
  BY <1>1, <1>2, NoneEnds

LEMMA BytesStutter ==
    ASSUME BytesInv, UNCHANGED serverVars
    PROVE  BytesInv'
BY DEF BytesInv, serverVars, BytesOf, Done, InState

-----------------------------------------------------------------------------
\* The exporter

\* What is true of each connection
ConnectionInv(c) ==
    /\ conns[c] \in Connection
    /\ conns[c].responses <= 1
    /\ conns[c].state = "reading" => conns[c].responses = 0
    /\ conns[c].state \in {"answered", "refused"} => conns[c].responses = 1

LEMMA ExporterByConnection ==
    ExporterInv <=> /\ exporting \in BOOLEAN
                    /\ conns \in [Conns -> Connection]
                    /\ \A c \in Conns : ConnectionInv(c)
BY DEF ExporterInv, ExporterTypeOK, OneResponse, ConnectionInv

(* A step that gives every connection a value as it may have. *)
LEMMA ExporterStep ==
    ASSUME exporting' \in BOOLEAN,
           conns' = [c \in Conns |-> conns'[c]],
           \A c \in Conns : ConnectionInv(c)'
    PROVE  ExporterInv'
<1>1. conns' \in [Conns -> Connection]
  BY DEF ConnectionInv
<1>2. ExporterInv' <=> /\ exporting' \in BOOLEAN
                       /\ conns' \in [Conns -> Connection]
                       /\ \A c \in Conns : ConnectionInv(c)'
  BY DEF ExporterInv, ExporterTypeOK, OneResponse, ConnectionInv
<1>3. QED
  BY <1>1, <1>2

(* A connection of which the state or the exporter changes, not the count. *)
LEMMA Unanswered ==
    ASSUME NEW c \in Conns, ConnectionInv(c),
           conns'[c] \in Connection,
           conns'[c].responses = conns[c].responses,
           conns'[c].state \in {conns[c].state, "closed"}
    PROVE  ConnectionInv(c)'
BY DEF ConnectionInv

LEMMA Responses ==
    /\ 0 + 1 = 1
    /\ \A next \in {"closed", "answered", "refused"}, orphan \in BOOLEAN :
            [state |-> next, orphan |-> orphan, responses |-> 1] \in Connection
BY DEF Connection

(* A response goes to a connection that had none. *)
LEMMA AnswerPreserves ==
    ASSUME ExporterInv, NEW c \in Conns, Answer(c)
    PROVE  ExporterInv'
<1>1. conns \in [Conns -> Connection] /\ conns[c].state = "reading"
      /\ conns[c] \in Connection /\ conns[c].responses = 0
  BY DEF ExporterInv, ExporterTypeOK, Answer, MayAnswer
<1>2. PICK next \in {"closed", "answered"} :
        conns' = [conns EXCEPT ![c] =
                    [conns[c] EXCEPT !.responses = conns[c].responses + 1, !.state = next]]
  BY DEF Answer, Responded
<1>3. ConnectionInv(c)'
  <2>1. conns'[c] = [conns[c] EXCEPT !.responses = 1, !.state = next]
    BY <1>1, <1>2, Responses
  <2>2. conns'[c] = [state |-> next, orphan |-> conns[c].orphan, responses |-> 1]
        /\ conns[c].orphan \in BOOLEAN
    BY <1>1, <2>1 DEF Connection
  <2>3. conns'[c] \in Connection
    BY <1>2, <2>2, Responses
  <2>4. QED
    BY <2>2, <2>3 DEF ConnectionInv
<1>4. \A d \in Conns : d # c => ConnectionInv(d)'
  BY <1>1, <1>2, ExporterByConnection DEF ConnectionInv
<1>5. conns' = [d \in Conns |-> conns'[d]] /\ exporting' \in BOOLEAN
  BY <1>1, <1>2 DEF Answer, ExporterInv, ExporterTypeOK
<1>6. QED
  BY <1>3, <1>4, <1>5, ExporterStep

LEMMA AcceptPreserves ==
    ASSUME ExporterInv, NEW c \in Conns, AcceptConnection(c)
    PROVE  ExporterInv'
<1> DEFINE conn == [state |-> "reading", orphan |-> FALSE, responses |-> 0]
<1>1. conns \in [Conns -> Connection] /\ exporting' \in BOOLEAN
  BY DEF ExporterInv, ExporterTypeOK, AcceptConnection
<1>2. \/ conns' = [conns EXCEPT ![c] = conn]
      \/ \E next \in {"closed", "refused"} :
            conns' = [conns EXCEPT ![c] =
                        [conn EXCEPT !.responses = conn.responses + 1, !.state = next]]
  BY DEF AcceptConnection, Responded
<1>3. conn \in Connection /\ conn.responses = 0 /\ conn.state = "reading"
  BY DEF Connection
<1>4. ConnectionInv(c)'
  <2>1. CASE conns' = [conns EXCEPT ![c] = conn]
    BY <1>1, <1>3, <2>1 DEF ConnectionInv
  <2>2. CASE \E next \in {"closed", "refused"} :
            conns' = [conns EXCEPT ![c] =
                        [conn EXCEPT !.responses = conn.responses + 1, !.state = next]]
    <3>1. PICK next \in {"closed", "refused"} :
            conns' = [conns EXCEPT ![c] =
                        [conn EXCEPT !.responses = conn.responses + 1, !.state = next]]
      BY <2>2
    <3>2. conns'[c] = [state |-> next, orphan |-> FALSE, responses |-> 1]
      BY <1>1, <3>1, Responses
    <3>3. conns'[c] \in Connection
      BY <3>1, <3>2, Responses
    <3>4. QED
      BY <3>2, <3>3 DEF ConnectionInv
  <2>3. QED
    BY <1>2, <2>1, <2>2
<1>5. \A d \in Conns : d # c => ConnectionInv(d)'
  BY <1>1, <1>2, ExporterByConnection DEF ConnectionInv
<1>6. conns' = [d \in Conns |-> conns'[d]]
  BY <1>1, <1>2
<1>7. QED
  BY <1>1, <1>4, <1>5, <1>6, ExporterStep

(* Connections that close, and the end of exporters. *)
LEMMA ClosePreserves ==
    ASSUME ExporterInv, NEW c \in Conns, Flushed(c) \/ PeerCloses(c)
    PROVE  ExporterInv'
<1>1. /\ conns \in [Conns -> Connection]
      /\ conns' = [conns EXCEPT ![c].state = "closed"]
      /\ exporting' \in BOOLEAN
  BY DEF ExporterInv, ExporterTypeOK, Flushed, PeerCloses
<1>2. ASSUME NEW d \in Conns PROVE ConnectionInv(d)'
  <2>1. /\ conns'[d] \in Connection
        /\ conns'[d].responses = conns[d].responses
        /\ conns'[d].state \in {conns[d].state, "closed"}
    BY <1>1 DEF Connection
  <2>2. QED
    BY <2>1, Unanswered, ExporterByConnection
<1>3. QED
  BY <1>1, <1>2, ExporterStep

LEMMA StopPreserves ==
    ASSUME ExporterInv, StopMetricsServer \/ \E ok \in BOOLEAN : StartMetricsServer(ok)
    PROVE  ExporterInv'
<1>1. /\ conns \in [Conns -> Connection]
      /\ conns' = [c \in Conns |-> [conns[c] EXCEPT !.orphan = conns[c].state # "closed"]]
      /\ exporting' \in BOOLEAN
  BY DEF ExporterInv, ExporterTypeOK, StopMetricsServer, StartMetricsServer, Orphaned
<1>2. ASSUME NEW d \in Conns PROVE ConnectionInv(d)'
  <2>1. /\ conns'[d] \in Connection
        /\ conns'[d].responses = conns[d].responses
        /\ conns'[d].state = conns[d].state
    BY <1>1 DEF Connection
  <2>2. QED
    BY <2>1, Unanswered, ExporterByConnection
<1>3. QED
  BY <1>1, <1>2, ExporterStep

LEMMA DeletePreserves == ExporterInv /\ DeleteExporter => ExporterInv'
<1> SUFFICES ASSUME ExporterInv, DeleteExporter PROVE ExporterInv'
  OBVIOUS
<1>1. /\ conns \in [Conns -> Connection]
      /\ conns' = [c \in Conns |->
                    IF conns[c].orphan
                    THEN [conns[c] EXCEPT !.state = "closed", !.orphan = FALSE]
                    ELSE conns[c]]
      /\ exporting' \in BOOLEAN
  BY DEF ExporterInv, ExporterTypeOK, DeleteExporter
<1>2. ASSUME NEW d \in Conns PROVE ConnectionInv(d)'
  <2>1. /\ conns'[d] \in Connection
        /\ conns'[d].responses = conns[d].responses
        /\ conns'[d].state \in {conns[d].state, "closed"}
    BY <1>1 DEF Connection
  <2>2. QED
    BY <2>1, Unanswered, ExporterByConnection
<1>3. QED
  BY <1>1, <1>2, ExporterStep

LEMMA ExporterStutters ==
    ASSUME ExporterInv, UNCHANGED exporterVars
    PROVE  ExporterInv'
BY DEF ExporterInv, exporterVars, ExporterTypeOK, OneResponse

(* Steps that accept no connection track no other one. *)
LEMMA TracksNoOther ==
    ASSUME ExporterInv, [Next]_vars,
           ~ \E c \in Conns : ConnectionEvent(c) /\ AcceptConnection(c)
    PROVE  Tracked' \subseteq Tracked
<1>1. conns \in [Conns -> Connection]
  BY DEF ExporterInv, ExporterTypeOK
<1>2. CASE UNCHANGED conns
  BY <1>2 DEF Tracked
<1>3. CASE conns' = Orphaned
  <2>1. ASSUME NEW c \in Conns
        PROVE  conns'[c].state = conns[c].state
               /\ conns'[c].orphan = (conns[c].state # "closed")
    BY <1>1, <1>3 DEF Orphaned, Connection
  <2>2. QED
    BY <2>1 DEF Tracked
<1>4. CASE DeleteExporter
  <2>1. ASSUME NEW c \in Conns
        PROVE  conns'[c].state = "closed" \/ conns'[c] = conns[c]
    BY <1>1, <1>4 DEF DeleteExporter, Connection
  <2>2. QED
    BY <2>1 DEF Tracked
<1>5. ASSUME NEW c \in Conns, Answer(c) \/ Flushed(c) \/ PeerCloses(c)
      PROVE  Tracked' \subseteq Tracked
  <2>1. CASE Answer(c)
    <3>1. PICK next \in {"closed", "answered"} :
            conns' = [conns EXCEPT ![c] =
                        [conns[c] EXCEPT !.responses = conns[c].responses + 1, !.state = next]]
      BY <2>1 DEF Answer, Responded
    <3>2. conns[c].state = "reading" /\ conns'[c].orphan = conns[c].orphan
      BY <1>1, <2>1, <3>1 DEF Answer, MayAnswer, Connection
    <3>3. \A d \in Conns : d # c => conns'[d] = conns[d]
      BY <1>1, <3>1
    <3>4. QED
      BY <3>2, <3>3 DEF Tracked
  <2>2. CASE Flushed(c) \/ PeerCloses(c)
    <3>1. conns' = [conns EXCEPT ![c].state = "closed"]
      BY <2>2 DEF Flushed, PeerCloses
    <3>2. QED
      BY <1>1, <3>1 DEF Tracked, Connection
  <2>3. QED
    BY <1>5, <2>1, <2>2
<1>6. CASE OwnerActs
  BY <1>2, <1>3, <1>6 DEF OwnerActs, StopMetricsServer, StartMetricsServer, exporterVars
<1>7. QED
  BY <1>2, <1>4, <1>5, <1>6
  DEF Next, vars, exporterVars, ClientActs, SessionEvent, ConnectionEvent,
      RequestArrives, DeadlinePasses

(* A connection is tracked only while there is room. *)
LEMMA RoomStep ==
    ASSUME ExporterInv, RoomInv, [Next]_vars
    PROVE  RoomInv'
<1>1. CASE Tracked' \subseteq Tracked
  <2>1. Cardinality(Tracked') <= Cardinality(Tracked)
        /\ IsFiniteSet(Tracked') /\ IsFiniteSet(Tracked)
    BY <1>1, FS_Subset DEF RoomInv
  <2>2. Cardinality(Tracked') \in Nat /\ Cardinality(Tracked) \in Nat
    BY <2>1, FS_CardinalityType
  <2>3. QED
    BY <2>1, <2>2, ExporterAssumption, SMT DEF RoomInv
<1>2. ASSUME NEW c \in Conns, AcceptConnection(c)
      PROVE  RoomInv'
  <2>1. conns \in [Conns -> Connection]
    BY DEF ExporterInv, ExporterTypeOK
  <2>2. CASE HasRoom
    <3>1. conns' = [conns EXCEPT ![c] =
                        [state |-> "reading", orphan |-> FALSE, responses |-> 0]]
      BY <1>2, <2>2 DEF AcceptConnection
    <3>2. Tracked' \subseteq Tracked \cup {c}
      BY <2>1, <3>1 DEF Tracked
    <3>3. IsFiniteSet(Tracked \cup {c}) /\ Cardinality(Tracked) \in Nat
          /\ Cardinality(Tracked \cup {c}) <= Cardinality(Tracked) + 1
      <4>1. IsFiniteSet(Tracked) /\ Cardinality(Tracked) \in Nat
        BY FS_CardinalityType DEF RoomInv
      <4>2. IsFiniteSet(Tracked \cup {c})
            /\ \/ Cardinality(Tracked \cup {c}) = Cardinality(Tracked) + 1
               \/ Cardinality(Tracked \cup {c}) = Cardinality(Tracked)
        BY <4>1, FS_AddElement
      <4>3. QED
        BY <4>1, <4>2, SMT
    <3>4. IsFiniteSet(Tracked')
          /\ Cardinality(Tracked') <= Cardinality(Tracked \cup {c})
      BY <3>2, <3>3, FS_Subset
    <3>5. Cardinality(Tracked') \in Nat /\ Cardinality(Tracked \cup {c}) \in Nat
      BY <3>3, <3>4, FS_CardinalityType
    <3>6. QED
      BY <2>2, <3>3, <3>4, <3>5, ExporterAssumption, SMT DEF HasRoom, RoomInv
  <2>3. CASE ~HasRoom
    <3>1. \E next \in {"closed", "refused"} :
            conns' = [conns EXCEPT ![c] =
                        [state |-> next, orphan |-> FALSE, responses |-> 0 + 1]]
      BY <1>2, <2>3 DEF AcceptConnection, Responded
    <3>2. Tracked' \subseteq Tracked
      BY <2>1, <3>1 DEF Tracked
    <3>3. QED
      BY <1>1, <3>2
  <2>4. QED
    BY <2>2, <2>3
<1>3. QED
  BY <1>1, <1>2, TracksNoOther

-----------------------------------------------------------------------------
\* The service

LEMMA ServiceStep == ServiceInv /\ [Next]_vars => ServiceInv'
<1> SUFFICES ASSUME ServiceInv, [Next]_vars
             PROVE  ServerInv' /\ BytesInv' /\ ExporterInv'
  BY RoomStep DEF ServiceInv
<1>1. ServerInv /\ BytesInv /\ ExporterInv
  BY DEF ServiceInv
<1>2. CASE UNCHANGED vars
  BY <1>1, <1>2, ServerStutters, BytesStutter, ExporterStutters DEF vars
<1>3. CASE OwnerActs
  BY <1>1, <1>3, ClearPreserves, ModePreserves, OwnerBytes, StopPreserves,
     ServerStutters, BytesStutter, ExporterStutters DEF OwnerActs
<1>4. CASE ClientActs
  <2>1. ExporterInv'
    BY <1>1, <1>4, ExporterStutters DEF ClientActs
  <2>2. PICK k \in Keys :
            \/ RouteDatagram(k)
            \/ \E isUpload \in BOOLEAN, s \in Sids :
                StartSession(k, isUpload, s) \/ StartFails(k, isUpload, s)
    BY <1>4 DEF ClientActs
  <2>3. CASE RouteDatagram(k)
    <3>1. registry[k] \in Sids
      BY <1>1, <2>3 DEF RouteDatagram, ServerInv, ServerTypeOK
    <3>2. SessionActs(registry[k])
      BY <2>3 DEF RouteDatagram
    <3>3. QED
      BY <1>1, <2>1, <3>1, <3>2, ActsPreserve, ActsBytes
  <2>4. QED
    BY <1>1, <2>1, <2>2, <2>3, StartPreserves, FailPreserves, BeginBytes
<1>5. ASSUME NEW s \in Sids, SessionEvent(s)
      PROVE  ServerInv' /\ BytesInv' /\ ExporterInv'
  BY <1>1, <1>5, ActsPreserve, QuietPreserves, ActsBytes, ExporterStutters
  DEF SessionEvent
<1>6. ASSUME NEW c \in Conns, ConnectionEvent(c)
      PROVE  ServerInv' /\ BytesInv' /\ ExporterInv'
  BY <1>1, <1>6, AcceptPreserves, AnswerPreserves, ClosePreserves, ServerStutters,
     BytesStutter
  DEF ConnectionEvent, RequestArrives, DeadlinePasses
<1>7. CASE DeleteExporter /\ UNCHANGED serverVars
  BY <1>1, <1>7, DeletePreserves, ServerStutters, BytesStutter
<1>8. QED
  BY <1>2, <1>3, <1>4, <1>5, <1>6, <1>7 DEF Next

(* All of the invariant holds in every state. *)
THEOREM ServiceInductive == Spec => []ServiceInv
<1>1. Init => ServiceInv
  <2>1. ASSUME ExporterInit PROVE ExporterInv
    <3>1. exporting = FALSE
          /\ conns = [c \in Conns |-> [state |-> "closed", orphan |-> FALSE, responses |-> 0]]
      BY <2>1 DEF ExporterInit
    <3>2. \A c \in Conns : ConnectionInv(c)
      BY <3>1, SMT DEF ConnectionInv, Connection
    <3>3. conns \in [Conns -> Connection]
      BY <3>1, <3>2 DEF ConnectionInv
    <3>4. QED
      BY <3>1, <3>2, <3>3, ExporterByConnection
  <2>2. ASSUME ServerInit PROVE BytesInv
    <3>1. \A s \in Sids : sessions[s].state = "unused" /\ sessions[s].bytes = 0
      BY <2>2 DEF ServerInit, Inactive
    <3>2. BytesOf(Done) = {}
      BY <3>1 DEF BytesOf, Done, InState
    <3>3. historicalBytes = 0
      BY <2>2 DEF ServerInit
    <3>4. QED
      BY <3>1, <3>2, <3>3, FS_EmptySet DEF BytesInv, InState
  <2>3. ASSUME ExporterInit PROVE RoomInv
    <3>1. Tracked = {}
      BY <2>3 DEF ExporterInit, Tracked
    <3>2. QED
      BY <3>1, FS_EmptySet, ExporterAssumption, SMT DEF RoomInv
  <2>4. QED
    BY <2>1, <2>2, <2>3, ServerInitially DEF Init, ServiceInv
<1>2. ServiceInv /\ [Next]_vars => ServiceInv'
  BY ServiceStep
<1>3. QED
  BY <1>1, <1>2, PTL DEF Spec

(* Type correctness of the server and its exporter. *)
THEOREM ServiceTypeCorrect == Spec => []TypeOK
<1>1. ServiceInv => TypeOK
  BY DEF ServiceInv, ServerInv, ExporterInv, TypeOK
<1>2. QED
  BY <1>1, ServiceInductive, PTL

(* What is reported as the bytes transferred, exactly: every byte, and a second
   time those of the objects that have ended and are not deleted yet. *)
LEMMA ExactTotal ==
    ASSUME ServiceInv
    PROVE  /\ TotalBytesTransferred =
                Cardinality(BytesOf(Sids)) + Cardinality(BytesOf(InState({"over"})))
           /\ Cardinality(BytesOf(Sids)) \in Nat
<1> DEFINE Over   == InState({"over"})
           Unused == InState({"unused"})
<1>1. /\ \A s \in Sids : sessions[s].state \in {"unused", "active", "over", "deleted"}
      /\ MaxBytes \in Nat
  BY ServerAssumption DEF ServiceInv, ServerInv, ServerTypeOK, Session
<1>2. /\ ActiveSids \subseteq Sids /\ Over \subseteq Sids
      /\ Done \subseteq Sids /\ Unused \subseteq Sids
      /\ ActiveSids \cap Over = {} /\ ActiveSids \cap Done = {}
      /\ InState({"active", "over"}) = ActiveSids \cup Over
      /\ Sids = (ActiveSids \cup Done) \cup Unused
      /\ (ActiveSids \cup Done) \cap Unused = {}
  BY <1>1 DEF ActiveSids, Done, InState
<1>3. Cardinality(BytesOf(InState({"active", "over"}))) =
        Cardinality(BytesOf(ActiveSids)) + Cardinality(BytesOf(Over))
  BY <1>2, BytesAdd
<1>4. Cardinality(BytesOf(Sids)) =
        Cardinality(BytesOf(ActiveSids)) + Cardinality(BytesOf(Done))
  <2>1. BytesOf(Sids) = BytesOf(ActiveSids \cup Done)
    <3>1. ASSUME NEW s \in Unused, NEW i \in 1..MaxBytes PROVE ~(i <= sessions[s].bytes)
      <4>1. sessions[s].bytes = 0
        BY DEF ServiceInv, BytesInv
      <4>2. QED
        BY <1>1, <4>1, SMT
    <3>2. QED
      BY <1>2, <3>1 DEF BytesOf
  <2>2. QED
    BY <1>2, <2>1, BytesAdd
<1>5. historicalBytes = Cardinality(BytesOf(Done))
  BY DEF ServiceInv, BytesInv
<1>6. /\ Cardinality(BytesOf(ActiveSids)) \in Nat /\ Cardinality(BytesOf(Over)) \in Nat
      /\ Cardinality(BytesOf(Done)) \in Nat /\ Cardinality(BytesOf(Sids)) \in Nat
  BY <1>2, BytesFinite
<1>7. QED
  BY <1>3, <1>4, <1>5, <1>6, SMT DEF TotalBytesTransferred

(* The total counts every byte once, through failures, restarts and changes of
   the mode, but while an object that has ended waits to be deleted. *)
THEOREM BytesAreCountedOnce == Spec => []BytesCountedOnce
<1>1. ServiceInv => BytesCountedOnce
  <2> SUFFICES ASSUME ServiceInv, InState({"over"}) = {}
               PROVE  TotalBytesTransferred = Cardinality(BytesOf(Sids))
    BY DEF BytesCountedOnce
  <2>1. BytesOf({}) = {}
    BY DEF BytesOf
  <2>2. Cardinality(BytesOf(InState({"over"}))) = 0
    BY <2>1, FS_EmptySet
  <2>3. QED
    BY <2>2, ExactTotal, SMT
<1>2. QED
  BY <1>1, ServiceInductive, PTL

(* activeSessions() and the counters of transfers are what they say, through
   failures, restarts and changes of the mode. *)
THEOREM TransfersCounted == Spec => []EachTransferCountedOnce
<1>1. ServiceInv => EachTransferCountedOnce
  BY DEF ServiceInv, ServerInv
<1>2. QED
  BY <1>1, ServiceInductive, PTL

(* No datagram goes to a session of another endpoint, one that has ended, or one
   of an earlier listen(). *)
THEOREM RegistrySound == Spec => []RegistryIsSound
<1>1. ServiceInv => RegistryIsSound
  BY DEF ServiceInv, ServerInv
<1>2. QED
  BY <1>1, ServiceInductive, PTL

(* A session of single-port mode is not cut off from its client by what other
   sessions do. *)
THEOREM NobodyIsCutOff == Spec => []SessionsAreHeard
<1>1. ServiceInv => SessionsAreHeard
  BY DEF ServiceInv, ServerInv
<1>2. QED
  BY <1>1, ServiceInductive, PTL

(* The limits of sessions and of connections hold, for every limit. *)
THEOREM LimitsAreKept == Spec => []LimitsHold
<1>1. ServiceInv => LimitsHold
  BY DEF ServiceInv, ServerInv, BelowMax, BelowMaxAt, RoomInv, LimitsHold
<1>2. QED
  BY <1>1, ServiceInductive, PTL

(* An HTTP connection gets one response at most, and has got it when it is
   done. *)
THEOREM OneResponseEach == Spec => []OneResponse
<1>1. ServiceInv => OneResponse
  BY DEF ServiceInv, ExporterInv
<1>2. QED
  BY <1>1, ServiceInductive, PTL

-----------------------------------------------------------------------------
\* The access rules

\* Rule j is found to be better than rule i.
Beats(j, i) ==
    \/ SubnetRules[j].prefix > SubnetRules[i].prefix
    \/ SubnetRules[j].prefix = SubnetRules[i].prefix /\ j < i

LEMMA RuleTypes ==
    /\ IsFiniteSet(DOMAIN SubnetRules)
    /\ \A i \in DOMAIN SubnetRules : /\ i \in Nat
                                    /\ SubnetRules[i].prefix \in Nat
                                    /\ SubnetRules[i].level \in AccessLevels
<1>1. /\ Len(SubnetRules) \in Nat /\ DOMAIN SubnetRules = 1..Len(SubnetRules)
      /\ \A i \in 1..Len(SubnetRules) : /\ SubnetRules[i].prefix \in Nat
                                       /\ SubnetRules[i].level \in AccessLevels
  <2> DEFINE Rules == [subnet : SUBSET Addresses, prefix : Nat, level : AccessLevels]
  <2>1. \A rule \in Rules : rule.prefix \in Nat /\ rule.level \in AccessLevels
    OBVIOUS
  <2>2. SubnetRules \in Seq(Rules)
    BY PolicyAssumption
  <2> HIDE DEF Rules
  <2>3. QED
    BY <2>1, <2>2
<1>2. 1 \in Int /\ Len(SubnetRules) \in Int
      /\ \A i \in 1..Len(SubnetRules) : i \in Nat
  BY <1>1, SMT
<1>3. QED
  BY <1>1, <1>2, FS_Interval

(* A rule that matches and that the fewest others beat is beaten by none. *)
LEMMA BestRuleExists ==
    ASSUME NEW address, Matching(address) # {}
    PROVE  \E i \in Matching(address) : IsBestRule(i, address)
<1> DEFINE M           == Matching(address)
           Betters(i)  == {j \in M : Beats(j, i)}
           T           == {Betters(i) : i \in M}
           R           == StrictSubsetOrdering(M)
<1>1. IsFiniteSet(M) /\ M \subseteq DOMAIN SubnetRules
  BY RuleTypes, FS_Subset DEF Matching
<1>2. IsWellFoundedOn(R, FiniteSubsetsOf(M)) /\ FiniteSubsetsOf(M) = SUBSET M
  BY <1>1, FS_StrictSubsetOrderingWellFounded, FS_FiniteSubsetsOfFinite
<1>3. T \subseteq SUBSET M /\ T # {}
  OBVIOUS
<1>4. PICK least \in T : \A other \in T : <<other, least>> \notin R
  <2> HIDE DEF T, R
  <2>1. QED
    BY <1>2, <1>3, WFMin
<1>5. PICK i \in M : least = Betters(i)
  OBVIOUS
<1>6. ASSUME NEW j \in M, Beats(j, i)
      PROVE  FALSE
  <2>1. \A k \in M : k \in Nat /\ SubnetRules[k].prefix \in Nat
    BY <1>1, RuleTypes
  <2>2. ~Beats(j, j)
    BY <2>1, SMT DEF Beats
  <2>3. \A k \in M : Beats(k, j) => Beats(k, i)
    BY <1>6, <2>1, SMT DEF Beats
  <2>4. Betters(j) \subseteq Betters(i) /\ Betters(j) # Betters(i)
    BY <1>6, <2>2, <2>3
  <2>5. <<Betters(j), Betters(i)>> \in R
    BY <2>4 DEF StrictSubsetOrdering
  <2>6. QED
    BY <1>4, <1>5, <2>5
<1>7. ASSUME NEW j \in M
      PROVE  /\ SubnetRules[j].prefix <= SubnetRules[i].prefix
             /\ SubnetRules[j].prefix = SubnetRules[i].prefix => i <= j
  <2>1. /\ i \in Nat /\ SubnetRules[i].prefix \in Nat
        /\ j \in Nat /\ SubnetRules[j].prefix \in Nat
    BY <1>1, RuleTypes
  <2>2. QED
    BY <1>6, <2>1, SMT DEF Beats
<1>8. QED
  BY <1>7 DEF IsBestRule

(* For an address that rules match, one rule decides, alone: the first of those
   with the longest prefix. Its level says what the address may do; the lists
   are not looked at, and a server that is read-only takes no upload. *)
THEOREM OneRuleDecides ==
    ASSUME NEW address, Matching(address) # {}
    PROVE  \E i \in Matching(address) :
            /\ \A j \in DOMAIN SubnetRules : IsBestRule(j, address) <=> j = i
            /\ IsAllowed(address, FALSE) <=> SubnetRules[i].level # "Blocked"
            /\ IsAllowed(address, TRUE) <=>
                    ~ReadOnly /\ SubnetRules[i].level = "ReadWrite"
<1>1. PICK i \in Matching(address) : IsBestRule(i, address)
  BY BestRuleExists
<1>2. Matching(address) \subseteq DOMAIN SubnetRules
  BY DEF Matching
<1>3. ASSUME NEW j \in DOMAIN SubnetRules, IsBestRule(j, address)
      PROVE  j = i
  <2>1. j \in Matching(address)
    BY <1>3 DEF IsBestRule
  <2>2. /\ i \in Nat /\ SubnetRules[i].prefix \in Nat
        /\ j \in Nat /\ SubnetRules[j].prefix \in Nat
    BY <1>2, RuleTypes
  <2>3. /\ SubnetRules[j].prefix <= SubnetRules[i].prefix
        /\ SubnetRules[j].prefix = SubnetRules[i].prefix => i <= j
        /\ SubnetRules[i].prefix <= SubnetRules[j].prefix
        /\ SubnetRules[i].prefix = SubnetRules[j].prefix => j <= i
    BY <1>1, <1>3, <2>1 DEF IsBestRule
  <2>4. QED
    BY <2>2, <2>3, SMT
<1>4. SubnetRules[i].level \in AccessLevels
  BY <1>2, RuleTypes
<1>5. ASSUME NEW isUpload \in BOOLEAN
      PROVE  IsAllowed(address, isUpload) <=>
                /\ ~(isUpload /\ ReadOnly)
                /\ SubnetRules[i].level # "Blocked"
                /\ SubnetRules[i].level = "ReadOnly" => ~isUpload
  BY <1>1, <1>2, <1>3 DEF IsAllowed
<1>6. QED
  BY <1>1, <1>2, <1>3, <1>4, <1>5 DEF AccessLevels
=============================================================================
