------------------------------ MODULE MCHttpd ------------------------------
(* Httpd for TLC: the requests of each run. *)
EXTENDS Httpd, TLC

R(m, t, l, s) == [method |-> m, target |-> t, length |-> l, script |-> s]

ConnSymmetry == Permutations(Conns)

\* One of every kind, good and bad.
AllRequests ==
    {R("OTHER", "file", -1, "reader"), R("GET", "missing", -1, "reader"),
     R("GET", "unreadable", -1, "reader"), R("GET", "file", -1, "reader"),
     R("POST", "script", -1, "reader"), R("POST", "script", 2, "talker"),
     R("POST", "noexec", 1, "reader"), R("GET", "script", -1, "reader"),
     R("POST", "script", 2, "reader"), R("POST", "script", 1, "eof"),
     R("POST", "script", 2, "quitter")}

\* What the server is made for: files, and scripts that read their body.
GoodRequests ==
    {R("GET", "missing", -1, "reader"), R("GET", "file", -1, "reader"),
     R("GET", "script", -1, "reader"), R("POST", "script", 2, "reader"),
     R("POST", "script", 0, "reader"), R("GET", "noexec", -1, "reader")}

=============================================================================
