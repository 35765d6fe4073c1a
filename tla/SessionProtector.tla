-------------------------- MODULE SessionProtector --------------------------
(***************************************************************************)
(* agents/sessionProtector.ts: two maps, the sessions by token and the     *)
(* tokens by user, kept in step by four operations.  No route calls them   *)
(* yet; a caller may call them in any order.  A Set is in insertion order, *)
(* which matters only for which of several equally old sessions a full one *)
(* gives up; the model leaves that open.                                   *)
(***************************************************************************)
EXTENDS Clock, FiniteSets

CONSTANTS
    Jtis,
    OwnerOf,        \* the user a token was signed for
    Prints,         \* fingerprints of requests
    MaxSessions,    \* MAX_CONCURRENT_SESSIONS
    Inactive,       \* SESSION_INACTIVE_TIMEOUT_MS
    Rate,           \* requests per unit of time that a session may make
    MaxRequests,    \* bound on the requests of a session
    NoSession

\* SessionFingerprint.
SessionDoc == [fp : Prints, createdAt : Nat, lastSeen : Nat, requests : Nat, suspicious : BOOLEAN]

ASSUME SessionAssumption ==
    /\ IsFiniteSet(Jtis)
    /\ MaxSessions \in Nat \ {0}
    /\ NoSession \notin SessionDoc

VARIABLES
    sessions,       \* token -> SessionFingerprint
    userSessions    \* user -> tokens

sessionVars == <<sessions, userSessions>>

SessionUsers == {OwnerOf[j] : j \in Jtis}

SessionInit ==
    /\ sessions = [j \in Jtis |-> NoSession]
    /\ userSessions = [u \in SessionUsers |-> {}]

Known(j) == sessions[j] # NoSession

Live(u) == {j \in userSessions[u] : Known(j)}

\* The oldest sessions of a full set, one of which is given up.
Oldest(L) == {j \in L : \A k \in L : sessions[j].createdAt <= sessions[k].createdAt}

Evictable(L) == IF Cardinality(L) >= MaxSessions THEN {{j} : j \in Oldest(L)} ELSE {{}}

registerSession(j, f) ==
    \E out \in Evictable(Live(OwnerOf[j])) :
        /\ sessions' = [i \in Jtis |->
                          CASE i = j -> [fp |-> f, createdAt |-> now, lastSeen |-> now,
                                         requests |-> 0, suspicious |-> FALSE]
                            [] i # j /\ i \in out -> NoSession
                            [] OTHER -> sessions[i]]
        /\ userSessions' = [userSessions EXCEPT ![OwnerOf[j]] = (Live(OwnerOf[j]) \ out) \cup {j}]
        /\ UNCHANGED now

\* A request of a session: the wrong fingerprint or a high rate marks it.
validateSession(j, f) ==
    LET s == sessions[j]
        age == now - s.createdAt
        odd == f # s.fp \/ (age > 0 /\ s.requests + 1 > Rate * age)
    IN  /\ Known(j)
        /\ s.requests < MaxRequests
        /\ sessions' = [sessions EXCEPT ![j].lastSeen = now,
                                        ![j].requests = @ + 1,
                                        ![j].suspicious = @ \/ odd]
        /\ UNCHANGED <<now, userSessions>>

\* Logout.
removeSession(j) ==
    /\ Known(j)
    /\ sessions' = [sessions EXCEPT ![j] = NoSession]
    /\ userSessions' = [userSessions EXCEPT ![OwnerOf[j]] = @ \ {j}]
    /\ UNCHANGED now

\* Mutant: the interval forgets the tokens of the user.
CleanSessionsOnly ==
    /\ sessions' = [j \in Jtis |->
                      IF Known(j) /\ sessions[j].lastSeen < now - Inactive THEN NoSession
                                                                           ELSE sessions[j]]
    /\ UNCHANGED <<now, userSessions>>

\* The interval.
CleanSessions ==
    LET idle == {j \in Jtis : Known(j) /\ sessions[j].lastSeen < now - Inactive}
    IN  /\ sessions' = [j \in Jtis |-> IF j \in idle THEN NoSession ELSE sessions[j]]
        /\ userSessions' = [u \in SessionUsers |-> userSessions[u] \ idle]
        /\ UNCHANGED now

SessionNext ==
    \/ \E j \in Jtis :
          \/ removeSession(j)
          \/ \E f \in Prints : registerSession(j, f) \/ validateSession(j, f)
    \/ CleanSessions
    \/ Tick /\ UNCHANGED sessionVars

-----------------------------------------------------------------------------
(* Properties *)

\* The two maps describe the same sessions, and no user has more than
\* MaxSessions of them, whatever the order of logins, evictions, logouts and
\* cleanups (sessionProtector.ts:45-101, 161-170, 191-201).
SessionTablesAgree ==
    \A u \in SessionUsers :
        /\ userSessions[u] = {j \in Jtis : OwnerOf[j] = u /\ Known(j)}
        /\ Cardinality(userSessions[u]) <= MaxSessions
=============================================================================
