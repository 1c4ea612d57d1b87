-------------------------- MODULE MCHttpConnection --------------------------
EXTENDS HttpConnection

Get(target, lead, keep, len) ==
  [method |-> "GET", target |-> target, lead |-> lead, body |-> 0, keep |-> keep, len |-> len]

Post(target, body) ==
  [method |-> "POST", target |-> target, lead |-> 0, body |-> body, keep |-> TRUE, len |-> 0]

SomeKinds ==
  {Get("page", 1, TRUE, 0), Get("page", 0, FALSE, 0), Post("page", 2), Post("file", 1),
   Get("file", 0, TRUE, 2), Get("refused", 0, TRUE, 0), Get("bodiless", 0, TRUE, 0),
   Get("unknown", 1, TRUE, 0)}
=============================================================================
