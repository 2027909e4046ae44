---------------------------- MODULE MCHttpServer ----------------------------
(* A server of two slots; descriptors below and above the listener's, one  *)
(* more than there are slots, so that they are reused in every order.      *)
EXTENDS HttpServer

MCFds == {2, 4, 5}

=============================================================================
