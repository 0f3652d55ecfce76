--------------------------- MODULE MCHTTPProvider ---------------------------
(* Instances of HTTPProvider for TLC.  0 and 65535 are ports that            *)
(* configurePort ignores; Exchanged has two ports that change places.        *)
EXTENDS HTTPProvider

Conf(http, https, cert) == [http |-> http, https |-> https, cert |-> cert]

Configurations ==
  {Conf(80, 443, FALSE), Conf(81, 443, FALSE), Conf(81, 444, TRUE),
   Conf(0, 443, TRUE), Conf(80, 65535, TRUE)}

Exchanged == {Conf(80, 443, TRUE), Conf(443, 80, TRUE)}
=============================================================================
