------------------------------- MODULE Parts -------------------------------
(***************************************************************************)
(* The small components together.  They share nothing but the clock, so a  *)
(* behaviour of all of them is one behaviour of each; the specification    *)
(* lets one of them, the active part, take the steps of a behaviour.       *)
(***************************************************************************)
EXTENDS SessionProtector, ThreatIntelligence, UserAgents, RateLimits,
        Presence, Startup, ClientSession

VARIABLE active

partVars == <<sessionVars, threatVars, agentVars, limitVars, presenceVars, startVars, clientVars>>
vars == <<now, partVars, active>>

Init ==
    /\ active \in {"sessions", "threats", "agents", "limits", "presence", "startup", "client"}
    /\ ClockInit
    /\ SessionInit /\ ThreatInit /\ AgentInit /\ LimitInit
    /\ PresenceInit /\ StartInit /\ ClientInit

Sessions ==
    /\ active = "sessions" /\ SessionNext
    /\ UNCHANGED <<active, threatVars, agentVars, limitVars, presenceVars, startVars, clientVars>>

Threats ==
    /\ active = "threats" /\ ThreatNext
    /\ UNCHANGED <<active, sessionVars, agentVars, limitVars, presenceVars, startVars, clientVars>>

Agents ==
    /\ active = "agents" /\ AgentNext
    /\ UNCHANGED <<active, sessionVars, threatVars, limitVars, presenceVars, startVars, clientVars>>

Limits ==
    /\ active = "limits" /\ LimitNext
    /\ UNCHANGED <<active, sessionVars, threatVars, agentVars, presenceVars, startVars, clientVars>>

Presences ==
    /\ active = "presence" /\ PresenceNext
    /\ UNCHANGED <<active, sessionVars, threatVars, agentVars, limitVars, startVars, clientVars>>

Starts ==
    /\ active = "startup" /\ StartNext
    /\ UNCHANGED <<now, active, sessionVars, threatVars, agentVars, limitVars, presenceVars, clientVars>>

Clients ==
    /\ active = "client" /\ ClientNext
    /\ UNCHANGED <<now, active, sessionVars, threatVars, agentVars, limitVars, presenceVars, startVars>>

Next == Sessions \/ Threats \/ Agents \/ Limits \/ Presences \/ Starts \/ Clients

Spec == Init /\ [][Next]_vars

\* An interval of a part fires again and again.
Interval(part, A) ==
    /\ active = part /\ A
    /\ UNCHANGED <<active, sessionVars, limitVars, presenceVars, startVars, clientVars>>
    /\ part = "threats" => UNCHANGED agentVars
    /\ part = "agents" => UNCHANGED threatVars

\* Time passes and the intervals of the two parts with liveness fire; nothing
\* is assumed of those who call them.
FairSpec ==
    /\ Spec
    /\ WF_vars(Interval("threats", DecayThreats))
    /\ WF_vars(Interval("agents", CleanAnomaly))
    /\ WF_vars(Interval("agents", CleanBehavior))
    /\ WF_vars(Interval("agents", CleanCrypto))
    /\ WF_vars(Interval("agents", CleanPhantom))
    /\ WF_vars(Tick /\ UNCHANGED <<active, partVars>>)
=============================================================================
