---------------------------- MODULE MCAsicVerify ----------------------------
(* Containers with a mimetype, two signatures and two data files among other *)
(* entries; and containers with bad entries.  A signature file is no CMS at  *)
(* all, or has a number of SignerInfos each of which passes or fails for     *)
(* each of the data files.  What a directory holds is never read.            *)
EXTENDS AsicVerify

entry(k) == [kind |-> k, opens |-> TRUE, readable |-> TRUE, utf8 |-> TRUE]
Ordinary == <<entry("mimetype"), entry("data"), entry("meta"), entry("signature"), entry("data"), entry("signature")>>

Statuses == {"TotalPassed", "TotalFailedSub"}
PerSignature ==
  {[d \in {2, 5} |-> <<"Err">>]} \cup UNION {[{2, 5} -> [1..n -> Statuses]] : n \in 0..2}
Verdicts(v4, v6) == [p \in {4, 6} \X {2, 5} |-> IF p[1] = 4 THEN v4[p[2]] ELSE v6[p[2]]]

AllPass(es) == [p \in (DOMAIN es) \X (DOMAIN es) |-> <<"TotalPassed">>]
Broken ==
  {[Ordinary EXCEPT ![1].utf8 = FALSE], <<entry("data"), entry("meta")>>, <<entry("signature"), entry("dir")>>}
    \cup {[Ordinary EXCEPT ![e].readable = FALSE] : e \in DOMAIN Ordinary}
    \cup {Append(Ordinary, [entry("dir") EXCEPT !.opens = x, !.readable = FALSE]) : x \in BOOLEAN}

MCContainers ==
  {[entries |-> Ordinary, verdict |-> Verdicts(x, y)] : x \in PerSignature, y \in PerSignature}
    \cup {[entries |-> es, verdict |-> AllPass(es)] : es \in Broken}
=============================================================================
