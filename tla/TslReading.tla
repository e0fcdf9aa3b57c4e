----------------------------- MODULE TslReading ------------------------------
(***************************************************************************)
(* TrustHistory's editions as the program gets them: a relying party loads *)
(* the edition of the moment, as XML the operator writes, over a transfer  *)
(* that may end early, and parse_trusted_list makes of it the services     *)
(* which TrustHistory lets the qualification engine see.                   *)
(*                                                                         *)
(* The document is external: what TS 119 612 has a list look like, with    *)
(* the elements that could be mistaken for others.                         *)
(***************************************************************************)
EXTENDS TrustHistory

CONSTANTS
  Layouts,     \* [together, unreadable]: providers, a certificate that does not decode
  MaxLoaded    \* bound: editions with more changes are not loaded

VARIABLES input, stack, data, result, whole   \* whole: layout and completeness of what was loaded

P == INSTANCE TslParser WITH Decodable <- Keys

reading == <<input, stack, data, result, whole>>

----------------------------------------------------------------------------
(* The document of an edition.                                             *)

Event(kind, name, val) == [kind |-> kind, name |-> name, val |-> val]
Element(name, content) == <<Event("start", name, <<>>)>> \o content \o <<Event("end", name, <<>>)>>
Leaf(name, text) == Element(name, <<Event("text", "", text)>>)

Certificate(key) == Element("DigitalId", Leaf("X509Certificate", <<key>>))
Certificates(keys) == FlattenSeq([n \in DOMAIN SetToSeq(keys) |-> Certificate(SetToSeq(keys)[n])])
Identity(keys, others) == Element("ServiceDigitalIdentity", Certificates(keys) \o others)
Qualifiers(uris) ==
  FlattenSeq([n \in DOMAIN SetToSeq(uris) |-> <<Event("empty", "Qualifier", SetToSeq(uris)[n])>>])

\* An extension that is critical to others names a provider once more.
TakenOverBy == Element("Extension", Element("TakenOverBy", Leaf("TSPName", <<"taker">>)))

Period(p, others) ==
  Leaf("ServiceTypeIdentifier", <<p.kind>>) \o Element("ServiceName", Leaf("Name", <<"name">>))
    \o Identity(p.keys, others) \o Leaf("ServiceStatus", <<p.status>>)
    \o Leaf("StatusStartingTime", <<"time", p.start>>)

Unreadable(layout, place) == IF layout.unreadable = place THEN Certificate("garbage") ELSE <<>>

\* What type a former period names is read and looked at by nobody: the
\* present one stands for it.
ServiceDocument(svc, layout) ==
  LET entry(n) ==
        LET h == svc.history[n]
            former == [kind |-> svc.kind, status |-> h.status, start |-> h.start, keys |-> h.keys] IN
        Element("ServiceHistoryInstance", Period(former, <<>>)) IN
  Element("TSPService",
    Element("ServiceInformation",
      Period(svc, Unreadable(layout, "identity"))
        \o Element("ServiceInformationExtensions", Qualifiers(svc.qualifiers) \o TakenOverBy))
      \o Element("ServiceHistory", FlattenSeq([n \in DOMAIN svc.history |-> entry(n)])))

Provider(svcs, layout) ==
  Element("TrustServiceProvider",
    Element("TSPInformation", Element("TSPName", Leaf("Name", <<"name">>)))
      \o Element("TSPServices", FlattenSeq([n \in DOMAIN svcs |-> ServiceDocument(svcs[n], layout)])))

Scheme(layout) ==
  Element("SchemeInformation",
    Element("SchemeTypeCommunityRules", Leaf("URI", <<"EU">>) \o Leaf("URI", <<"other">>))
      \o Leaf("SchemeTerritory", <<"home">>)
      \o Element("PointersToOtherTSL",
           Leaf("SchemeTerritory", <<"abroad">>) \o Identity({}, Unreadable(layout, "pointer")))
      \o Element("NextUpdate", Leaf("dateTime", <<"time", MaxTime>>)))

\* An XML declaration, then one provider for all services or one for each.
Document(edition, layout) ==
  <<Event("other", "", <<>>)>> \o Element("TrustServiceStatusList",
    Scheme(layout)
      \o Element("TrustServiceProviderList",
           IF layout.together THEN Provider(edition, layout)
           ELSE FlattenSeq([n \in DOMAIN edition |-> Provider(<<edition[n]>>, layout)]))
      \o Element("Signature", <<>>))

----------------------------------------------------------------------------
ReadingInit == Init /\ P!Idle /\ whole = [layout |-> CHOOSE l \in Layouts : TRUE, complete |-> TRUE]

Operate == result = "none" /\ stack = <<>> /\ Next /\ UNCHANGED reading

Load(layout) ==
  /\ result = "none" /\ stack = <<>> /\ Changes <= MaxLoaded
  /\ P!parse_trusted_list(Document(services, layout))
  /\ whole' = [layout |-> layout, complete |-> TRUE]
  /\ UNCHANGED vars

Read == P!Parse /\ UNCHANGED <<vars, whole>>

\* The transfer ends between two events, in a text or in a tag.
Ending(event) ==
  {<<>>} \cup IF event.kind = "text" THEN {<<Event("text", "", <<"cut">>)>>}
              ELSE {<<Event("broken", "", <<>>)>>}
Cut ==
  /\ P!Running /\ input # <<>> /\ whole.complete
  /\ \E ending \in Ending(Head(input)) : input' = ending
  /\ whole' = [whole EXCEPT !.complete = FALSE]
  /\ UNCHANGED <<vars, stack, data, result>>

ReadingNext == Operate \/ (\E layout \in Layouts : Load(layout)) \/ Read \/ Cut

\* A transfer need not end early, nor anything be published; a call runs on.
ReadingSpec == ReadingInit /\ [][ReadingNext]_<<vars, reading>> /\ WF_<<vars, reading>>(Read)

----------------------------------------------------------------------------
\* What the engine sees of the list: services in list / provider / order.
EntrySeen(h) == [status |-> h.status, start |-> h.start, keys |-> h.keys]
ServiceSeen(svc) == [svc EXCEPT !.history = [n \in DOMAIN @ |-> EntrySeen(@[n])]]
Seen == FlattenSeq(data.providers)
SeenServices == [n \in DOMAIN Seen |-> ServiceSeen(Seen[n])]

\* The first edition says of its services what the engine can see, and what a
\* document can: keys of certificates that decode, one element after another.
ASSUME DocumentAssumption ==
  /\ IsFiniteSet(Keys) /\ "garbage" \notin Keys
  /\ \A svc \in Range(FirstEdition) :
       /\ svc = ServiceSeen(svc) /\ svc.keys \subseteq Keys /\ IsFiniteSet(svc.qualifiers)
       /\ \A i \in DOMAIN svc.history : svc.history[i].keys \subseteq Keys
  /\ \A terms \in Terms : IsFiniteSet(terms.qualifiers)

\* parse.rs:357-366.  No text that is empty or cut off decodes.
ASSUME TextAssumption == "" \notin Keys /\ "cut" \notin Keys

\* parse.rs:18-50.  A list that arrives whole is read as published, whatever
\* stands beside what is read: no service, period, certificate or qualifier is
\* lost, doubled or put with another, and lists pointed to leave no trace.  It
\* is refused exactly if a certificate of a service does not decode.
PublishedIsRead ==
  (result # "none" /\ whole.complete) =>
    IF whole.layout.unreadable = "identity" /\ services # <<>> THEN result = "Err"
    ELSE /\ result = "Ok"
         /\ SeenServices = services
         /\ data.territory = <<"home">> /\ data.next_update = MaxTime

\* parse.rs:34,420-475 (Eof breaks every loop).  A list cut short may be read
\* without an error.  Then all its services but the last are as published, and
\* of the last the periods but one; and a signer whose chain has one key that
\* a list knows, held by one service, is qualified now only if it is by the
\* whole list, and for the same unless qualifiers of the service were lost.
TruncationIsConfined ==
  (result = "Ok" /\ ~whole.complete) =>
    /\ Len(Seen) <= Len(services)
    /\ \A n \in 1..(Len(Seen) - 1) : SeenServices[n] = services[n]
    /\ Seen # <<>> =>
         LET last == SeenServices[Len(Seen)]
             svc == services[Len(Seen)] IN
         /\ last.keys \subseteq svc.keys
         /\ Len(last.history) <= Len(svc.history)
         /\ \A n \in 1..(Len(last.history) - 1) : last.history[n] = svc.history[n]
         /\ last.history # <<>> => Last(last.history).keys \subseteq svc.history[Len(last.history)].keys
    /\ \A chain \in Chains :
         LET known == {i \in DOMAIN chain : Holders(chain[i].spki) # {}} IN
         (Cardinality(known) = 1 /\ \A i \in known : Cardinality(Holders(chain[i].spki)) = 1) =>
           LET seen == Qualification(SeenServices, chain, now)
               full == Qualification(services, chain, now) IN
           seen \in {"AdESqc", "QES"} =>
             /\ full \in {"AdESqc", "QES"}
             /\ full = seen \/ \E n \in DOMAIN Seen : SeenServices[n].qualifiers # services[n].qualifiers

\* However the input ends, the call does.
ParseReturns == (stack # <<>>) ~> (stack = <<>>)
=============================================================================
