--------------------------- MODULE MCRuleManager ----------------------------
(* Small instances of RuleManager. *)
EXTENDS RuleManager, TLC

CONSTANTS x, y

MCLetters == {x, y, Star, Space}

\* 5.0.0.0 as the code keeps it.
MCIPs == {5}
MCPorts == {443}
MCAppNames == <<"Unknown", "HTTPS", "YouTube">>

\* A plain name, a suffix pattern, a bare star, a star that is no wildcard, a
\* name with spaces around its first word, the empty name.
MCNames == {<<x, y>>, <<Star, y>>, <<Star>>, <<y, Star>>,
            <<Space, x, Space, Star>>, << >>}

Query(ip, port, app, host) == [ip |-> ip, port |-> port, app |-> app, host |-> host]
MCQueries == {Query(5, 443, 1, <<x, y>>), Query(7, 80, 0, << >>),
              Query(7, 80, 2, <<y, Star>>)}

\* No file; a file written by hand, with a comment, an address of one octet, an
\* unknown type and application, a repeated pattern, a port that does not fit
\* 16 bits and one that is no number.
Handmade ==
  <<<<"#", << >>>>, <<"IP", <<5>>>>, <<"APP", "Quake">>,
    <<"DOMAIN", <<Star, y>>>>, <<"DOMAIN", <<Star, y>>>>, <<"HOST", <<x>>>>,
    <<"PORT", <<65536 + 443>>>>, <<"PORT", << >>>>, <<"DOMAIN", <<x>>>>>>
MCFiles == {{}, {Handmade}}

Symmetry == Permutations(Admins)
=============================================================================
