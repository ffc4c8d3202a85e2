---------------------------- MODULE MCUringHttp ----------------------------
(* UringHttp for TLC: the clients and what they ask for. *)
EXTENDS UringHttp

CONSTANTS c1, c2
TwoClients == {c1, c2}
OneClient == {c1}

\* Two files over one connection, and whatever is answered another way.
MixedPlans ==
    [c \in TwoClients |->
        IF c = c1 THEN {<<"file", "file">>}
        ELSE {<<"empty">>, <<"missing">>, <<"malformed">>}]
FilePlans == [c \in OneClient |-> {<<"file", "file">>}]

=============================================================================
