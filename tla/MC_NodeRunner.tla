--------------------------- MODULE MC_NodeRunner ---------------------------
(* Two tests, on one machine and on two; a merge request whose commit is   *)
(* built from source, and a job by hand with packages of a repository.     *)
EXTENDS NodeRunner
TheSuites == {<< <<"a", "b">> >>, << <<"a">>, <<"b">> >>}
TheJobs == {[gitlab |-> TRUE, copr |-> FALSE], [gitlab |-> FALSE, copr |-> TRUE]}
=============================================================================
