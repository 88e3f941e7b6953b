---------------------------- MODULE MCHttpServer ----------------------------
(* HttpServer on two starts, one of which serves browsers behind a PIN. *)
EXTENDS HttpServer, TLC

CONSTANTS c1, c2, p1, p2

MCFrom == c1 :> p1 @@ c2 :> p2
MCCert == c1 :> "valid" @@ c2 :> "invalid"
MCConfig ==
  <<[routes |-> {"v2", "internal", "remote"}, tls |-> TRUE, upload |-> TRUE, pin |-> {}],
   [routes |-> {"v2", "web"}, tls |-> FALSE, upload |-> FALSE, pin |-> {"web"}]>>
=============================================================================
