---------------------------- MODULE TrustService ----------------------------
(***************************************************************************)
(* eidas-trust lookups and the eidas-qualify engine.  The services of all  *)
(* supplied lists, in list / provider / service order, are one sequence of *)
(*   [kind, status, start, keys, history, qualifiers]                      *)
(* where keys are the SPKIs of the service certificates and history is a   *)
(* sequence of [status, start, keys].  A status is an abbreviated URI.     *)
(***************************************************************************)
EXTENDS Integers, Sequences

CONSTANT NoTime   \* a starting time is absent

ActiveStatuses == {"granted", "undersupervision", "recognised"}

FirstOf(S) == CHOOSE i \in S : \A j \in S : i <= j

\* The oldest entry that had begun is taken instead of the latest.
Bad_status_at(svc, at) ==
  LET begun == {i \in DOMAIN svc.history :
                  svc.history[i].start # NoTime /\ at >= svc.history[i].start} IN
  IF (svc.start # NoTime /\ at >= svc.start) \/ begun = {} THEN svc.status
  ELSE svc.history[CHOOSE i \in begun :
                     \A j \in begun : svc.history[i].start <= svc.history[j].start].status

\* The status in force at a time: the current one from its start on, else the
\* latest entry of the history that had begun (the first of several that began
\* together), else the current one again.
status_at(svc, at) ==
  LET begun == {i \in DOMAIN svc.history :
                  svc.history[i].start # NoTime /\ at >= svc.history[i].start}
      latest == {i \in begun : \A j \in begun : svc.history[i].start >= svc.history[j].start} IN
  IF (svc.start # NoTime /\ at >= svc.start) \/ begun = {} THEN svc.status
  ELSE svc.history[FirstOf(latest)].status

\* Only the present certificates of a service are looked at.
Bad_Lists(svc, key) == key \in svc.keys

\* A service lists a key by a present or a former certificate.
Lists(svc, key) ==
  key \in svc.keys \/ \E i \in DOMAIN svc.history : key \in svc.history[i].keys

\* Index of the service found for a chain: the certificates from the signer
\* up, and for each the services in order.
Listed(services, chain) == {i \in DOMAIN chain : \E s \in DOMAIN services : Lists(services[s], chain[i].spki)}
qualification_for(services, chain) ==
  LET key == chain[FirstOf(Listed(services, chain))].spki IN
  services[FirstOf({s \in DOMAIN services : Lists(services[s], key)})]

\* An inactive service leaves the baseline in place.
Bad_qualify_signer(services, chain, qcSscd, at, baseline) ==
  IF Listed(services, chain) = {} THEN baseline
  ELSE LET svc == qualification_for(services, chain) IN
    CASE svc.kind # "CA/QC" -> baseline
      [] svc.kind = "CA/QC" /\ "NoQSCD" \in svc.qualifiers -> "AdESqc"
      [] svc.kind = "CA/QC" /\ "NoQSCD" \notin svc.qualifiers /\ ("WithQSCD" \in svc.qualifiers \/ qcSscd) -> "QES"
      [] OTHER -> "AdESqc"

\* The qualification of a signer; qcSscd: its certificate asserts QcSSCD.
qualify_signer(services, chain, qcSscd, at, baseline) ==
  IF Listed(services, chain) = {} THEN baseline
  ELSE LET svc == qualification_for(services, chain) IN
    IF status_at(svc, at) \notin ActiveStatuses THEN "NotAdES"
    ELSE IF svc.kind # "CA/QC" THEN baseline
    ELSE IF "NoQSCD" \notin svc.qualifiers /\ ("WithQSCD" \in svc.qualifiers \/ qcSscd) THEN "QES"
    ELSE "AdESqc"
=============================================================================
