----------------------------- MODULE MCPdfScan -----------------------------
(* A PDF with two signature dictionaries and one with a keyword in running  *)
(* text between them, every combination of byte ranges from a set of right, *)
(* wrong, huge and degenerate ones; and contents with zero bytes within the  *)
(* CMS and at its end.                                                      *)
EXTENDS PdfScan

TwoDictionaries == <<"K", "x", "<", "b", "0", ">", "x", "K", "x", "<", "b", "0", ">", "x">>
ZeroWithin == <<"K", "x", "<", "b", "0", "b", "0", ">", "x", "x", "x">>
TextBetween == <<"K", "x", "<", "b", ">", "K", "x", "x", "<", "b", ">", "K", "x", "<", "x", ">">>

Ranges == {<<>>, <<0, 2, 6, 8>>, <<0, 9, 13, 1>>, <<0, 2, 14, 0>>, <<17, 3, 6, 8>>, <<0, 2, 6, 17>>,
           <<0, 6, 6, 8>>, <<7, 2, 13, 1>>, <<0, 3, 6, 1>>}
Filters == {"none", "ETSI.CAdES.detached", "adbe.x509.rsa_sha1"}
Results == {<<"Err">>, <<>>, <<"TotalPassed">>, <<"TotalPassed", "TotalFailedSub">>}

file(t, r, fs, cs) ==
  LET keys == {o \in 0..(Len(t) - 1) : t[o + 1] = "K"} IN
  [text |-> t, ranges |-> r, filter |-> fs, cms |-> cs, derEnd |-> [o \in keys |-> o + 4]]

\* Ranges at will, with a CMS that passes; results at will, with right ranges.
MCFiles ==
  {file(TwoDictionaries, [o \in {0, 7} |-> IF o = 0 THEN r ELSE q],
        [o \in {0, 7} |-> "none"], [o \in {0, 7} |-> <<"TotalPassed">>]) : r \in Ranges, q \in Ranges}
    \cup {file(TwoDictionaries, [o \in {0, 7} |-> IF o = 0 THEN <<0, 2, 6, 8>> ELSE <<0, 9, 13, 1>>], fs, cs) :
            fs \in [{0, 7} -> Filters], cs \in [{0, 7} -> Results]}
    \cup {file(TextBetween, [o \in {0, 5, 11} |-> IF o = 0 THEN <<0, 2, 5, 8>> ELSE IF o = 5 THEN r ELSE q],
                [o \in {0, 5, 11} |-> "none"], [o \in {0, 5, 11} |-> <<"TotalPassed">>]) :
            r \in {<<>>, <<0, 8, 11, 5>>, <<0, 2, 5, 1>>}, q \in {<<>>, <<0, 13, 16, 0>>, <<0, 8, 11, 5>>}}
    \cup {[file(ZeroWithin, [o \in {0} |-> <<0, 2, 8, 3>>], [o \in {0} |-> "none"], [o \in {0} |-> <<"TotalPassed">>])
            EXCEPT !.derEnd = [o \in {0} |-> der]] : der \in {6, 7}}

=============================================================================
