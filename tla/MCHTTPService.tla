---------------------------- MODULE MCHTTPService ----------------------------
(* Instances of HTTPService for TLC.  The second configuration changes a     *)
(* port and the certificate together; the third has an invalid port: with it *)
(* nothing is served at first, and after the others their port goes on.      *)
EXTENDS HTTPService

CONSTANTS u1, a1, a2, c1

Conf(http, https, cert) == [http |-> http, https |-> https, cert |-> cert]

Configurations ==
  {Conf(80, 443, Nil), Conf(81, 443, c1), Conf(NoPort, 443, Nil)}

AnyState == ServerState
=============================================================================
