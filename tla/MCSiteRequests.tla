--------------------------- MODULE MCSiteRequests ---------------------------
(* Two connections, three requests, a template and an article that somebody  *)
(* saves once with an error.                                                 *)
EXTENDS SiteRequests

MCMalformed == {<<"a", 2>>}
=============================================================================
