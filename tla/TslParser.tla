------------------------------ MODULE TslParser ------------------------------
(***************************************************************************)
(* parse_trusted_list of eidas-trust: an XML reader's events go to the     *)
(* innermost of a pile of functions, each of which reads until the end tag *)
(* of its element and calls others for the elements it knows.              *)
(*                                                                         *)
(* An event is [kind, name, val].  kind is "start", "end", "empty", "text" *)
(* or "other", or "broken" for what the reader cannot read: a tag cut off  *)
(* in the middle.  val is the text as a tuple, or an attribute.  Only      *)
(* what qualification reads is kept of a service, under the names of       *)
(* TrustService.                                                           *)
(***************************************************************************)
EXTENDS Integers, Sequences, SequencesExt

CONSTANTS
  NoTime,     \* an absent or unreadable time
  Decodable   \* the certificates that decode, by their SPKI

VARIABLES
  input,   \* the events not yet read
  stack,   \* the functions called, each [fn, closing, depth]
  data,    \* their local variables; no function is in the pile twice
  result   \* "none", "Ok" or "Err"

----------------------------------------------------------------------------
(* Which function is called for which element, the variables being d.      *)

Calls ==
  [list |-> [SchemeInformation |-> "scheme", TrustServiceProviderList |-> "providers"],
   scheme |-> [SchemeTerritory |-> "text", SchemeType |-> "inside", SchemeTypeCommunityRules |-> "inside",
               TSLSequenceNumber |-> "text", ListIssueDateTime |-> "text", NextUpdate |-> "inside"],
   providers |-> [TrustServiceProvider |-> "provider"],
   provider |-> [TSPInformation |-> "tspInformation", TSPServices |-> "services"],
   tspInformation |-> [TSPName |-> "firstName", TSPTradeName |-> "firstName", TSPAddress |-> "country"],
   services |-> [TSPService |-> "service"],
   service |-> [ServiceInformation |-> "information", ServiceHistory |-> "history"],
   information |-> [ServiceTypeIdentifier |-> "text", ServiceName |-> "firstName", ServiceStatus |-> "text",
                    StatusStartingTime |-> "text", ServiceDigitalIdentity |-> "identity",
                    ServiceInformationExtensions |-> "qualifiers"],
   history |-> [ServiceHistoryInstance |-> "instance"],
   instance |-> [ServiceTypeIdentifier |-> "text", ServiceStatus |-> "text", StatusStartingTime |-> "text",
                 ServiceDigitalIdentity |-> "identity", ServiceInformationExtensions |-> "qualifiers"],
   identity |-> [X509Certificate |-> "text"],
   firstName |-> [Name |-> "text"],
   country |-> [CountryName |-> "text"]]

Known(fn, name) == fn \in DOMAIN Calls /\ name \in DOMAIN Calls[fn]

\* The territory of a list pointed to is taken for the list's own.
Bad_Skipping == {"provider", "tspInformation", "service", "information", "instance"}

\* These skip the elements they do not know; the others look into them.
Skipping == {"scheme", "provider", "tspInformation", "service", "information", "instance"}
Counting == {"skip", "inside"}

\* The type of the scheme and the first name are read once.
HasIt(d, fn, name) ==
  \/ fn = "scheme" /\ Calls[fn][name] = "inside" /\ name # "NextUpdate" /\ d.scheme_type # <<>>
  \/ fn \in {"firstName", "country"} /\ d.found # <<>>

Callee(d, fn, name) ==
  CASE Known(fn, name) /\ ~HasIt(d, fn, name) -> Calls[fn][name]
    [] ~Known(fn, name) /\ fn \in Skipping -> "skip"
    [] OTHER -> "none"

----------------------------------------------------------------------------
(* Their variables.                                                        *)

EmptyService ==
  [kind |-> "", status |-> "", start |-> NoTime, keys |-> {}, history |-> <<>>, qualifiers |-> {}]
EmptyEntry == [kind |-> "", status |-> "", start |-> NoTime, keys |-> {}, qualifiers |-> {}]
NoData ==
  [territory |-> <<>>, scheme_type |-> <<>>, next_update |-> NoTime, providers |-> <<>>,
   tsp |-> <<>>, svc |-> EmptyService, entry |-> EmptyEntry,
   certs |-> {}, quals |-> {}, found |-> <<>>, text |-> <<>>]

\* The certificates of one identity are added to those of the one before.
Bad_Fresh(d, fn) ==
  CASE fn \in {"text", "inside"} -> [d EXCEPT !.text = <<>>]
    [] fn \in {"firstName", "country"} -> [d EXCEPT !.found = <<>>]
    [] fn = "instance" -> [d EXCEPT !.entry = EmptyEntry]
    [] fn = "qualifiers" -> [d EXCEPT !.quals = {}]
    [] fn = "service" -> [d EXCEPT !.svc = EmptyService]
    [] fn = "provider" -> [d EXCEPT !.tsp = <<>>]
    [] OTHER -> d

\* As a function is called.
Fresh(d, fn) ==
  CASE fn \in {"text", "inside"} -> [d EXCEPT !.text = <<>>]
    [] fn \in {"firstName", "country"} -> [d EXCEPT !.found = <<>>]
    [] fn = "identity" -> [d EXCEPT !.certs = {}]
    [] fn = "qualifiers" -> [d EXCEPT !.quals = {}]
    [] fn = "instance" -> [d EXCEPT !.entry = EmptyEntry]
    [] fn = "service" -> [d EXCEPT !.svc = EmptyService]
    [] fn = "provider" -> [d EXCEPT !.tsp = <<>>]
    [] OTHER -> d

parse_datetime(text) == IF text # <<>> /\ text[1] = "time" THEN text[2] ELSE NoTime
Uri(text) == IF text = <<>> THEN "" ELSE text[1]

\* An element of ServiceInformation or ServiceHistoryInstance has been read.
Filled(d, r, closing) ==
  CASE closing = "ServiceTypeIdentifier" -> [r EXCEPT !.kind = Uri(d.text)]
    [] closing = "ServiceStatus" -> [r EXCEPT !.status = Uri(d.text)]
    [] closing = "StatusStartingTime" -> [r EXCEPT !.start = parse_datetime(d.text)]
    [] closing = "ServiceDigitalIdentity" -> [r EXCEPT !.keys = @ \cup d.certs]
    [] closing = "ServiceInformationExtensions" -> [r EXCEPT !.qualifiers = @ \cup d.quals]
    [] OTHER -> r

\* As function fn returns from the element called closing to its caller.
Returned(d, fn, closing, caller) ==
  CASE caller = "scheme" /\ closing = "SchemeTerritory" -> [d EXCEPT !.territory = d.text]
    [] caller = "scheme" /\ closing \in {"SchemeType", "SchemeTypeCommunityRules"} ->
         [d EXCEPT !.scheme_type = <<Uri(d.text)>>]
    [] caller = "scheme" /\ closing = "NextUpdate" -> [d EXCEPT !.next_update = parse_datetime(d.text)]
    [] caller \in {"firstName", "country"} -> [d EXCEPT !.found = <<Uri(d.text)>>]
    [] caller = "information" -> [d EXCEPT !.svc = Filled(d, @, closing)]
    [] caller = "instance" -> [d EXCEPT !.entry = Filled(d, @, closing)]
    [] caller = "identity" -> [d EXCEPT !.certs = @ \cup {Uri(d.text)}]
    [] fn = "instance" -> [d EXCEPT !.svc.history = Append(@, d.entry)]
    [] fn = "service" -> [d EXCEPT !.tsp = Append(@, d.svc)]
    [] fn = "provider" -> [d EXCEPT !.providers = Append(@, d.tsp)]
    [] OTHER -> d

----------------------------------------------------------------------------
(* The reader's events.                                                    *)

Top == Last(stack)
Running == stack # <<>>
Next1(kinds) == Running /\ input # <<>> /\ Head(input).kind \in kinds /\ input' = Tail(input)
Deeper(by) == [stack EXCEPT ![Len(stack)].depth = @ + by]

Idle == input = <<>> /\ stack = <<>> /\ data = NoData /\ result = "none"

parse_trusted_list(events) ==
  /\ ~Running
  /\ input' = events /\ stack' = <<[fn |-> "list", closing |-> "", depth |-> 1]>>
  /\ data' = NoData /\ result' = "none"

Error == stack' = <<>> /\ data' = NoData /\ result' = "Err"

\* A certificate that does not decode ends the whole call.
Return ==
  LET caller == IF Len(stack) = 1 THEN "" ELSE stack[Len(stack) - 1].fn IN
  IF caller = "identity" /\ Uri(data.text) \notin Decodable THEN Error
  ELSE /\ stack' = Front(stack) /\ data' = Returned(data, Top.fn, Top.closing, caller)
       /\ result' = IF caller = "" THEN "Ok" ELSE result

Qualifiers(e) == IF Top.fn = "qualifiers" /\ e.name = "Qualifier" THEN {e.val} ELSE {}

ReadStart ==
  LET e == Head(input) IN
  /\ Next1({"start"})
  /\ IF Top.fn \in Counting THEN stack' = Deeper(1) /\ UNCHANGED data
     ELSE IF Callee(data, Top.fn, e.name) # "none"
       THEN /\ stack' = Append(stack, [fn |-> Callee(data, Top.fn, e.name), closing |-> e.name, depth |-> 1])
            /\ data' = Fresh(data, Callee(data, Top.fn, e.name))
     ELSE UNCHANGED stack /\ data' = [data EXCEPT !.quals = @ \cup Qualifiers(e)]
  /\ UNCHANGED result

ReadEmpty ==
  /\ Next1({"empty"})
  /\ data' = [data EXCEPT !.quals = @ \cup Qualifiers(Head(input))]
  /\ UNCHANGED <<stack, result>>

\* skip_element counts, read_text_inside counts and compares names, the others
\* take the next end tag of their name for their own.
ReadEnd ==
  /\ Next1({"end"})
  /\ IF Top.fn \in Counting
       THEN IF Top.depth = 1 /\ (Top.fn = "inside" => Head(input).name = Top.closing) THEN Return
            ELSE stack' = Deeper(-1) /\ UNCHANGED <<data, result>>
     ELSE IF Top.closing = Head(input).name THEN Return
     ELSE UNCHANGED <<stack, data, result>>

ReadText ==
  /\ Next1({"text"})
  /\ data' = IF Top.fn \in {"text", "inside"} THEN [data EXCEPT !.text = @ \o Head(input).val] ELSE data
  /\ UNCHANGED <<stack, result>>

ReadOther == Next1({"other"}) /\ UNCHANGED <<stack, data, result>>

\* read_text_inside swallows the error, and its caller takes an empty text.
ReadBroken ==
  /\ Next1({"broken"})
  /\ IF Top.fn # "inside" THEN Error
     ELSE /\ stack' = Front(stack)
          /\ data' = [data EXCEPT
               !.scheme_type = IF Top.closing = "NextUpdate" THEN @ ELSE <<"">>,
               !.next_update = IF Top.closing = "NextUpdate" THEN NoTime ELSE @]
          /\ UNCHANGED result

\* The loop of skip_element does not watch for the end of the input.
Bad_ReadEof ==
  /\ Running /\ input = <<>>
  /\ IF Top.fn = "skip" THEN UNCHANGED <<stack, data, result>> ELSE Return
  /\ UNCHANGED input

\* The end of the input ends every element that is open, one after the other,
\* and what has been read of each counts.
ReadEof == Running /\ input = <<>> /\ Return /\ UNCHANGED input

Parse ==
  \/ ReadStart \/ ReadEmpty \/ ReadEnd \/ ReadText \/ ReadOther \/ ReadBroken \/ ReadEof

----------------------------------------------------------------------------
(* Of any document, also one no operator would write.                      *)

\* parse.rs:18-533.  However deep the elements of a document are nested, the
\* functions call each other to a depth of nine at most, and none is called
\* while it runs: that is why `data` may hold their variables side by side.
RecursionIsBounded ==
  /\ Len(stack) <= 9
  /\ \A i, j \in DOMAIN stack : i # j => stack[i].fn # stack[j].fn

\* parse.rs:449-460, 520-529.  The unsigned counts of open elements never get
\* below one while the loop that counts them runs, so no end tag makes them
\* wrap round.  read_text_inside owes this to the XML reader alone.
CountsStayPositive == \A i \in DOMAIN stack : stack[i].depth >= 1

\* parse.rs:18-533.  Every step of the call takes an event or closes an
\* element at the end of the input, so it takes no more steps than there are
\* events and functions called.
ParseAdvances ==
  [][Parse => \/ input # <<>> /\ input' = Tail(input)
              \/ input' = input /\ Len(stack') < Len(stack)]_<<input, stack, data, result>>
=============================================================================
