------------------------- MODULE ThreatIntelligence -------------------------
(***************************************************************************)
(* agents/threatIntelligence.ts: a reputation for every target.  No other  *)
(* part calls it yet; a caller may report and ask in any order.            *)
(***************************************************************************)
EXTENDS Clock, Sequences, FiniteSetsExt, SequencesExt

CONSTANTS
    Targets,
    Severities,   \* subset of 1..10
    Hour,         \* QUARANTINE_DURATION_MS, and the age of the large decay
    Minor,        \* the age of the small decay
    KeptSignals,  \* 50
    MaxReports,   \* bound on the signals
    NoRecord

VARIABLES
    threats,      \* threatDatabase
    reports       \* signals reported so far

threatVars == <<threats, reports>>

ThreatInit == threats = [t \in Targets |-> NoRecord] /\ reports = 0

\* Weights in tenths: the full weight falls to a tenth over an hour.
Weight(s) == Max({1, 10 - (10 * (now - s.at)) \div Hour})

\* Math.round of the weighted mean of the severities, times ten.
ScoreOf(signals) ==
    LET sum == FoldSeq(LAMBDA s, a : a + 10 * s.severity * Weight(s), 0, signals)
        weight == Max({10, FoldSeq(LAMBDA s, a : a + Weight(s), 0, signals)})
    IN  Min({100, (2 * sum + weight) \div (2 * weight)})

ActionOf(score) ==
    CASE score >= 80 -> "quarantine"
      [] score >= 60 /\ score < 80 -> "block"
      [] score >= 40 /\ score < 60 -> "throttle"
      [] score >= 20 /\ score < 40 -> "warn"
      [] OTHER -> "allow"

NewRecord == [score |-> 0, signals |-> <<>>, action |-> "allow", updated |-> now, until |-> 0]

LastOf(q, n) == IF Len(q) > n THEN SubSeq(q, Len(q) - n + 1, Len(q)) ELSE q

\* A quarantine is set by its own action only, and kept by a milder one.
reportThreatSignal(t, sev) ==
    LET old == IF threats[t] = NoRecord THEN NewRecord ELSE threats[t]
        signals == LastOf(Append(old.signals, [severity |-> sev, at |-> now]), KeptSignals)
        score == ScoreOf(signals)
        action == ActionOf(score)
    IN  /\ reports < MaxReports
        /\ now + Hour < MaxTime
        /\ reports' = reports + 1
        /\ threats' = [threats EXCEPT ![t] =
                         [score |-> score, signals |-> signals, action |-> action, updated |-> now,
                          until |-> IF action = "quarantine" THEN now + Hour ELSE old.until]]
        /\ UNCHANGED now

Quarantined(t) == threats[t].until # 0 /\ now < threats[t].until

\* The answer of checkThreatStatus.
Refused(t) ==
    /\ threats[t] # NoRecord
    /\ IF threats[t].until # 0 THEN Quarantined(t)
                               ELSE threats[t].action \in {"block", "quarantine"}

\* Its effect: a quarantine that is over is lifted, with its action.
checkThreatStatus(t) ==
    /\ threats[t] # NoRecord
    /\ threats[t].until # 0 /\ ~Quarantined(t)
    /\ threats' = [threats EXCEPT ![t].until = 0,
                                  ![t].score = Max({0, @ - 30}),
                                  ![t].action = "allow"]
    /\ UNCHANGED <<now, reports>>

\* Mutant: a record is never dropped.
DecayedKept(r) == [r EXCEPT !.score = Max({0, @ - 10})]

\* The interval: scores fall, the last action stays until the record goes.
Decayed(r) ==
    LET age == now - r.updated
        score == Max({0, r.score - (IF age > Hour THEN 10 ELSE IF age > Minor THEN 2 ELSE 0)})
    IN  IF age > Hour /\ score = 0 /\ r.until = 0 THEN NoRecord ELSE [r EXCEPT !.score = score]

DecayThreats ==
    /\ threats' = [t \in Targets |-> IF threats[t] = NoRecord THEN NoRecord ELSE Decayed(threats[t])]
    /\ UNCHANGED <<now, reports>>

ThreatNext ==
    \/ \E t \in Targets :
          \/ checkThreatStatus(t)
          \/ \E sev \in Severities : reportThreatSignal(t, sev)
    \/ DecayThreats
    \/ Tick /\ UNCHANGED threatVars

-----------------------------------------------------------------------------
(* Properties *)

\* A target that is refused is admitted again in time, without being asked
\* about: its quarantine ends, or its score falls until its record is dropped
\* (threatIntelligence.ts:124-157, 202-217).
ThreatsReleased == \A t \in Targets : Refused(t) ~> ~Refused(t)
=============================================================================
