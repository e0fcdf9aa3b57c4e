--------------------------- MODULE MCTrustHistory ---------------------------
(* Two services: a qualified CA with key k1, withdrawn until 1, and one that *)
(* may take its keys over, is of another type and starts with k2.  A signer  *)
(* chains up through k1 or k2, through both, or through an unlisted key.     *)
(* The second service begins at 1: at 0 nothing was in force, and the code   *)
(* answers anyway.  Either may be put under the terms of the other.          *)
EXTENDS TslReading

Service(kind, keys, start, history_, qualifiers) ==
  [kind |-> kind, status |-> "granted", start |-> start, keys |-> keys,
   history |-> history_, qualifiers |-> qualifiers]

MCFirstEdition ==
  <<Service("CA/QC", {"k1"}, 1, <<[status |-> "withdrawn", start |-> 0, keys |-> {"k1"}]>>,
            {"ForESig", "WithQSCD"}),
    Service("TSA/QTST", {"k2"}, 1, <<>>, {"ForESig"})>>
MCStatuses == {"granted", "withdrawn"}
MCKeys == {"k1", "k2"}
MCTerms == {[kind |-> "CA/QC", qualifiers |-> {"ForESig", "WithQSCD"}],
            [kind |-> "TSA/QTST", qualifiers |-> {"ForESig"}]}

Up(keys) == <<[spki |-> "signer"]>> \o [n \in DOMAIN keys |-> [spki |-> keys[n]]]
MCChains == {Up(<<"k1">>), Up(<<"k2">>), Up(<<"k1", "k2">>), Up(<<"k2", "k1">>), Up(<<"other">>)}

\* Services of one provider, a certificate that does not decode at a pointer; or
\* each of a provider of its own, and such a certificate in a service.
Layout(together, unreadable) == [together |-> together, unreadable |-> unreadable]
MCLayouts == {Layout(TRUE, "pointer"), Layout(FALSE, "identity")}
=============================================================================
