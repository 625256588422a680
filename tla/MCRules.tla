------------------------------- MODULE MCRules -------------------------------
(***************************************************************************)
(* The rules of the harness that need no concurrency to go wrong, on small *)
(* inputs: what a configuration amounts to (HarnessConfig), how databases  *)
(* are named, described and recognised (ResourceIdentity), and how         *)
(* templates are identified (TemplateIdentity).  The three share no state; *)
(* a behaviour is one of one of them, chosen by `part`, so that the states *)
(* add up and do not multiply.                                             *)
(***************************************************************************)
EXTENDS HarnessConfig, ResourceIdentity, TemplateIdentity, TLC

\* Configuration: values around every limit.
MCPermits == {0, 1, 2, 3, 11, 12, 40, 41}
MCDurations == {0, 1, 2, 3, 5, 40, 41, 42}
MCSettings == {<<-1, 0, 0>>, <<0, 0, 0>>, <<3, 0, 3>>, <<3, 1, 4>>, <<3, 4, -1>>, <<4, 0, 0>>,
               <<11, 1, 3>>, <<11, 0, 0>>, <<30, 1, 1>>, <<60, 0, 3>>}
MCImages == {<<>>, <<"word">>, <<"word", "blank">>,
             <<"word", ":", "word">>,
             <<"word", ":", "word", "/", "word">>,
             <<"word", ":", "word", "/", "word", ":", "word">>,
             <<"word", "@", "word">>, <<"word", ":", "word", "@", "word">>,
             <<"word", ":", "word", "/", "word", "@", "word", ":", "word">>,
             <<":", "word">>, <<"word", ":">>, <<"word", "@">>, <<"@", "word">>}

\* Names: projects whose names extend one another, suffixes of either length,
\* fingerprints that begin alike, and names of strangers that come close.
MCFingerprint == {"f1", "f2", "f3"}
MCShortHex == [f1 |-> <<"a", "7">>, f2 |-> <<"a", "7">>, f3 |-> <<"7", "7">>]
MCProject == {<<"a">>, <<"a", "_", "test">>, <<"a", "_", "template">>}
MCTestSuffix == {<<"a", "a", "7">>}
MCForeignNames == {<<"pgh", "_", "a", "_", "test", "_", "a", "7">>,
                   <<"pgh", "_", "a", "_", "test", "_", "a", "_", "7">>,
                   <<"pgh", "_", "a", "_", "template", "_", "a", "a", "7">>,
                   <<"pgh", "_", "a", "_", "test">>}

\* Fingerprints: byte strings that read alike when their ends are not marked.
MCDomain == {<<>>, <<"1">>}
MCLabel == {<<>>, <<"0">>}
MCContent == {<<>>, <<"0">>, <<"1", "0">>}

VARIABLE part

rulesVars == <<part, vars, namesVars, printsVars>>

ASSUME NamesAssumption == IdentityAssumption

RulesInit ==
    /\ part \in {"configuration", "names", "fingerprints"}
    /\ Init /\ NamesInit /\ PrintsInit
    /\ part # "configuration" => environment = [url |-> Unset, image |-> Unset]

RulesNext ==
    /\ UNCHANGED part
    /\ \/ part = "configuration" /\ Next /\ UNCHANGED <<namesVars, printsVars>>
       \/ part = "names" /\ NamesNext /\ UNCHANGED <<vars, printsVars>>
       \/ part = "fingerprints" /\ PrintsNext /\ UNCHANGED <<vars, namesVars>>

RulesSpec == RulesInit /\ [][RulesNext]_rulesVars

=============================================================================
