------------------------------ MODULE MCServer ------------------------------
(***************************************************************************)
(* Two request threads, a document whose id contains the separator of      *)
(* another's chunk ids, texts of none to three chunks, parameters the      *)
(* chunker has to clamp, queries whose reserve is within the budget and    *)
(* above it, and more bullets than the reserve covers.                     *)
(***************************************************************************)
EXTENDS Server, TLC

MCDocuments == {<<"a">>, <<"a", "#", "0">>}
MCTexts == {<<>>, <<"u">>, <<"x", "y", "z">>}
MCDecimal(i) == <<ToString(i)>>
MCConfigs == {[window |-> 2, overlap |-> 1, retrieve_k |-> 2, token_budget |-> 6],
              [window |-> 0, overlap |-> 3, retrieve_k |-> 3, token_budget |-> 7]}
MCRequests ==
    [kind : {"ingest"}, doc : {<<"a">>}, text : MCTexts]
    \cup [kind : {"ingest"}, doc : {<<"a", "#", "0">>}, text : {<<"u">>}]
    \cup [kind : {"remove"}, doc : MCDocuments]
    \cup [kind : {"retrieve"}, k : {1}]
    \cup [kind : {"prompt"}, tokens : {1, 7}]
    \cup [kind : {"stats"}]
    \cup [kind : {"insert"}, id : {1}, vector : {0, 1}]
    \cup [kind : {"delete"}, id : {1}]
    \cup [kind : {"search"}, vector : {0, 1}, k : {1}]
=============================================================================
