--------------------------- MODULE MCLifecycleStore ---------------------------
(* Two scopes, two scans, two services; observations that differ in nothing
   but the order of their names, in the operating system hint, and in the
   content. *)
EXTENDS LifecycleStore

CONSTANTS s1, s2, a, b

MCServices == {s1, s2}
MCContents == {"http", "ssh"}
MCOSHints  == {"linux", "windows"}
MCNames    == {a, b}

Observed(content, os, names) ==
    [content |-> content, os |-> os, sans |-> names]

MCObservations == {Observed("http", "linux", <<a, b>>),
                   Observed("http", "linux", <<b, a, b>>),
                   Observed("http", "windows", <<a, b>>)}
=============================================================================
