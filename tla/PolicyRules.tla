----------------------------- MODULE PolicyRules -----------------------------
(***************************************************************************)
(* What an algorithm policy promises its caller, independent of how it     *)
(* stores its rules: per algorithm the last word of permit / forbid, and   *)
(* the sunset scheduled since the algorithm was last permitted.            *)
(***************************************************************************)
EXTENDS Integers

CONSTANTS AlgorithmIds, Instant, NoSunset

VARIABLES rule, floors

Rule == [verdict : {"default", "permit", "forbid"}, sunset : Instant \cup {NoSunset}]

RulesInit == rule = [a \in AlgorithmIds |-> [verdict |-> "default", sunset |-> NoSunset]]

Permit(a) ==
  /\ rule' = [rule EXCEPT ![a] = [verdict |-> "permit", sunset |-> NoSunset]]
  /\ UNCHANGED floors

Forbid(a) ==
  /\ rule' = [rule EXCEPT ![a] = [verdict |-> "forbid", sunset |-> rule[a].sunset]]
  /\ UNCHANGED floors

Sunset(a, t) ==
  /\ rule' = [rule EXCEPT ![a] = [verdict |-> rule[a].verdict, sunset |-> t]]
  /\ UNCHANGED floors

SetFloors == UNCHANGED rule

RulesNext ==
  \/ \E a \in AlgorithmIds : Permit(a) \/ Forbid(a)
  \/ \E a \in AlgorithmIds, t \in Instant : Sunset(a, t)
  \/ SetFloors

RulesSpec == RulesInit /\ [][RulesNext]_<<rule, floors>>

\* The decision the rules call for; fallback is the verdict of the minimum
\* strengths, which decide when no rule does.
Decision(a, at, fallback) ==
  LET r == rule[a] IN
  CASE r.verdict = "forbid" -> "Reject"
    [] r.verdict # "forbid" /\ r.sunset # NoSunset /\ at >= r.sunset -> "Sunset"
    [] r.verdict = "permit" /\ ~(r.sunset # NoSunset /\ at >= r.sunset) -> "Accept"
    [] OTHER -> fallback
=============================================================================
