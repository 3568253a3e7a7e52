------------------------------ MODULE RiskPolicy -------------------------------
(***************************************************************************)
(* The risk policy, version 1.0 (internal/risk/policy.go): the score of a  *)
(* service from its port, its TLS and the criticality of its asset.  The   *)
(* reasons are written in one order, so that they are a set here.          *)
(***************************************************************************)
EXTENDS Integers

Datastores  == {3306, 5432, 6379, 27017, 9200}
RemoteAdmin == {22, 3389, 23}
Cleartext   == {21, 80, 23}

DeprecatedVersions == {"TLS 1.0", "TLS 1.1", "TLSv1.0", "TLSv1.1", "SSLv3"}

NoTLS == ""

DeprecatedTLS(r)  == r.tls \in DeprecatedVersions
UntrustedCert(r)  == r.tls # NoTLS /\ ~r.verified

\* Criticality is read without regard to case.
Tier0(criticality) == criticality \in {"tier-0", "Tier-0"}
Tier1(criticality) == criticality \in {"tier-1", "Tier-1"}

Reasons(r, criticality) ==
    {reason \in {"exposed_datastore", "exposed_remote_admin", "cleartext_protocol",
                 "deprecated_tls", "untrusted_cert",
                 "critical_asset_tier0", "high_asset_tier1"} :
        \/ reason = "exposed_datastore"    /\ r.port \in Datastores
        \/ reason = "exposed_remote_admin" /\ r.port \in RemoteAdmin
        \/ reason = "cleartext_protocol"   /\ r.port \in Cleartext
        \/ reason = "deprecated_tls"       /\ DeprecatedTLS(r)
        \/ reason = "untrusted_cert"       /\ UntrustedCert(r)
        \/ reason = "critical_asset_tier0" /\ Tier0(criticality)
        \/ reason = "high_asset_tier1"     /\ Tier1(criticality)}

Points(condition, n) == IF condition THEN n ELSE 0

RawScore(r, criticality) ==
    Points(r.port \in Datastores, 40) + Points(r.port \in RemoteAdmin, 35)
        + Points(r.port \in Cleartext, 15)
        + Points(DeprecatedTLS(r), 30) + Points(UntrustedCert(r), 20)
        + Points(Tier0(criticality), 20) + Points(Tier1(criticality), 10)

Severity(score) ==
    IF score = 0 THEN "informational"
    ELSE IF score < 30 THEN "low"
    ELSE IF score < 60 THEN "medium"
    ELSE IF score < 85 THEN "high"
    ELSE "critical"

Bounded(score) == IF score > 100 THEN 100 ELSE score

\* Mutation: a closed service is assessed like an open one.
EvaluateRisk_NoGate(eventType, r, criticality) ==
    [score    |-> Bounded(RawScore(r, criticality)),
     severity |-> Severity(Bounded(RawScore(r, criticality))),
     reasons  |-> Reasons(r, criticality)]

EvaluateRisk(eventType, r, criticality) ==
    IF eventType = "service.closed"
    THEN [score |-> 0, severity |-> "informational", reasons |-> {}]
    ELSE [score    |-> Bounded(RawScore(r, criticality)),
          severity |-> Severity(Bounded(RawScore(r, criticality))),
          reasons  |-> Reasons(r, criticality)]

-----------------------------------------------------------------------------
Severities == {"informational", "low", "medium", "high", "critical"}

Rank(severity) ==
    IF severity = "informational" THEN 0
    ELSE IF severity = "low" THEN 1
    ELSE IF severity = "medium" THEN 2
    ELSE IF severity = "high" THEN 3
    ELSE 4

TierRank(criticality) == IF Tier0(criticality) THEN 2 ELSE IF Tier1(criticality) THEN 1 ELSE 0

\* The second service is exposed in every way the first is, at least as much.
NoBetter(r, criticality, s, t) ==
    /\ s.port = r.port
    /\ DeprecatedTLS(r) => DeprecatedTLS(s)
    /\ UntrustedCert(r) => UntrustedCert(s)
    /\ TierRank(criticality) <= TierRank(t)
=============================================================================
