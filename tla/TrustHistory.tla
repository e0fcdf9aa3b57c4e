---------------------------- MODULE TrustHistory ----------------------------
(***************************************************************************)
(* The trusted lists over time, and what the qualification engine makes of *)
(* the edition at hand.  A scheme operator publishes editions: the status, *)
(* certificates, type or qualifiers of a service change, and its former    *)
(* period goes to its history, of which the engine looks at status, start  *)
(* and certificates only.  Each verification reads one edition and asks    *)
(* for the status at some earlier time (TrustService, status_at): the log  *)
(* kept here is what that answer should say.                               *)
(*                                                                         *)
(* The operator is outside the program: its actions are what TS 119 612    *)
(* lets it do, and what eidas-trust's model of a list can hold.            *)
(***************************************************************************)
EXTENDS TrustService, FiniteSets, SequencesExt

CONSTANTS
  MaxTime,      \* bound of the operator's clock
  MaxChanges,   \* bound on the editions
  Statuses,     \* statuses the operator gives
  Keys,         \* SPKIs of service certificates
  Terms,        \* [kind, qualifiers] the operator may put a service under
  FirstEdition, \* the services of the first edition, histories newest first
  Chains        \* chains of [spki] verified against the lists

ASSUME BoundAssumption == MaxTime \in Nat /\ MaxChanges \in Nat

\* The periods of the first edition have begun, its histories are newest first.
ASSUME EditionAssumption ==
  /\ NoTime \notin Int
  /\ \A chain \in Chains : chain \in Seq(Range(chain))
  /\ FirstEdition \in Seq(Range(FirstEdition))
  /\ \A svc \in Range(FirstEdition) :
       /\ DOMAIN svc = {"kind", "status", "start", "keys", "history", "qualifiers"}
       /\ svc.start \in Int /\ svc.start <= 1
       /\ svc.history \in Seq(Range(svc.history))
       /\ \A i \in DOMAIN svc.history :
            /\ svc.history[i].start \in Int /\ svc.history[i].start <= svc.start
            /\ \A j \in DOMAIN svc.history : i <= j => svc.history[j].start <= svc.history[i].start

VARIABLES
  now,       \* the operator's clock
  services,  \* the services of the present edition, as the program parses them
  log        \* for each service every [status, start, keys] given, oldest first

vars == <<now, services, log>>

Changes == FoldLeft(+, 0, [s \in DOMAIN log |-> Len(log[s]) - Len(FirstEdition[s].history) - 1])

Former(svc) == [status |-> svc.status, start |-> svc.start, keys |-> svc.keys]

----------------------------------------------------------------------------
\* The first edition is out at time 1.
Init ==
  /\ now = 1
  /\ services = FirstEdition
  /\ log = [s \in DOMAIN FirstEdition |->
              Append(Reverse(FirstEdition[s].history), Former(FirstEdition[s]))]

Tick == now < MaxTime /\ now' = now + 1 /\ UNCHANGED <<services, log>>

TermsOf(svc) == [kind |-> svc.kind, qualifiers |-> svc.qualifiers]

\* A new status, certificates or terms from now on.  Histories are listed
\* newest first; one kept in another order has no two periods that begin
\* together.
Publish(s, status, keys, terms, newestFirst) ==
  LET svc == services[s]
      old == Former(svc) IN
  /\ Changes < MaxChanges
  /\ status # svc.status \/ keys # svc.keys \/ terms # TermsOf(svc)
  /\ newestFirst \/ \A i \in DOMAIN svc.history : svc.history[i].start # svc.start
  /\ services' = [services EXCEPT ![s] =
       [svc EXCEPT !.kind = terms.kind, !.qualifiers = terms.qualifiers,
                   !.status = status, !.start = now, !.keys = keys,
                   !.history = IF newestFirst THEN <<old>> \o @ ELSE Append(@, old)]]
  /\ log' = [log EXCEPT ![s] = Append(@, [status |-> status, start |-> now, keys |-> keys])]
  /\ UNCHANGED now

Next ==
  \/ Tick
  \/ \E s \in DOMAIN services, status \in Statuses, keys \in SUBSET Keys \ {{}},
        terms \in Terms, newestFirst \in BOOLEAN : Publish(s, status, keys, terms, newestFirst)

Spec == Init /\ [][Next]_vars

----------------------------------------------------------------------------
Qualification(edition, chain, at) == qualify_signer(edition, chain, FALSE, at, "AdES")

\* The status the operator had in force at a time: the last one to begin.
InForce(s, at) ==
  LET begun == {n \in DOMAIN log[s] : log[s][n].start <= at} IN
  log[s][CHOOSE n \in begun : \A m \in begun : m <= n].status

Began(s, at) == log[s][1].start <= at

\* Services that ever had the key.
Holders(key) == {s \in DOMAIN log : \E n \in DOMAIN log[s] : key \in log[s][n].keys}

\* model.rs:87-110.  However often a service changed, more than once at one
\* time included, and whatever the order of its history, status_at gives the
\* status that was in force, at every time since the service began.
StatusFollowsLog ==
  \A s \in DOMAIN services : \A at \in 0..MaxTime :
    Began(s, at) => status_at(services[s], at) = InForce(s, at)

\* The certificates of the chain that some service ever held, and the first
\* service that held the first of them.
Held(chain) == {i \in DOMAIN chain : Holders(chain[i].spki) # {}}
FirstService(chain) == FirstOf(Holders(chain[FirstOf(Held(chain))].spki))

\* engine.rs:46-105.  A signer is qualified only by a service that held a key
\* of its chain, issues qualified certificates and was active at the time asked
\* for; it is refused exactly if the first service that held a key was not.
QualifiedByAnActiveService ==
  \A chain \in Chains, at \in 0..MaxTime :
    LET q == Qualification(services, chain, at)
        first == FirstService(chain) IN
    IF Held(chain) = {} THEN q = "AdES"
    ELSE /\ Began(first, at) => (q = "NotAdES" <=> InForce(first, at) \notin ActiveStatuses)
         /\ q \in {"AdESqc", "QES"} => services[first].kind = "CA/QC"

\* A time that every service had begun by, and that has passed, and a chain
\* none of whose keys gets a new holder.
PastOf(chain, at) ==
  /\ at < now
  /\ \A i \in DOMAIN chain : Holders(chain[i].spki)' = Holders(chain[i].spki)
  /\ \A s \in DOMAIN services : Began(s, at)

\* The service that answers for the chain stays under its terms.
SameTerms(chain) ==
  \A s \in DOMAIN services :
    (Held(chain) # {} /\ s = FirstService(chain)) => TermsOf(services[s])' = TermsOf(services[s])

KeepsThePast ==
  \A chain \in Chains, at \in 0..MaxTime :
    LET before == Qualification(services, chain, at)
        after == Qualification(services', chain, at) IN
    PastOf(chain, at) => /\ after = "NotAdES" <=> before = "NotAdES"
                         /\ SameTerms(chain) => after = before

\* qualify.rs:56-61, engine.rs:46-120.  Unless a service takes over a key of the
\* chain that it never had, a later edition refuses no signer for the past that
\* was not refused then, and clears none: rollovers, withdrawals and changes of
\* terms count from their start on.  The verdict is the same as before if the
\* service that answers keeps its type and qualifiers, which are read from the
\* edition at hand (engine.rs:89-90,113).
PastIsStable == [][services' # services => KeepsThePast]_vars
=============================================================================
