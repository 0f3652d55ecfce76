---------------------------- MODULE MCHTTPServer ----------------------------
(* Instances of HTTPServer for TLC: the states that hooks ask for, always   *)
(* with something to serve, since Service.changed stops the service if not.  *)
EXTENDS HTTPServer

CONSTANTS u1, u2, a1, a2, c1, c2, bad

Req(http, https, cert, arg, rels) ==
  [http |-> http, https |-> https, cert |-> cert, arg |-> arg,
   rels |-> [f \in Fields |-> rels]]

(* One change of each kind: of the relation's value, which may not be there  *)
(* yet, of the argument, of either port and of the certificate; a bad        *)
(* certificate, and one port for both listeners.                             *)
OneFieldRequests ==
  {Req(80, NoPort, Nil, a1, u1), Req(80, NoPort, Nil, a1, u2),
   Req(80, 443, c1, a2, u1), Req(80, 443, bad, a2, u1),
   Req(443, 443, c1, a1, u1), Req(80, NoPort, Nil, a1, Nil)}

FewRequests ==
  {Req(80, NoPort, Nil, a1, u1), Req(80, 443, c1, a1, u2)}
=============================================================================
