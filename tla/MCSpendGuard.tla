---------------------------- MODULE MCSpendGuard ----------------------------
\* Two requests of one account for one code on one instance race a forced one of
\* that account on another; or the owner, an anonymous one and a forced one do.
EXTENDS SpendGuard, TLC

Req(c, a, i, g, f) == [code |-> c, account |-> a, at |-> i, god |-> g, force |-> f]

MCMixes ==
  { <<Req("x", "A", "i", FALSE, FALSE), Req("x", "A", "i", FALSE, FALSE),
      Req("x", "A", "j", FALSE, TRUE)>>,
    <<Req("x", "A", "i", TRUE, FALSE), Req("x", None, "i", FALSE, FALSE),
      Req("x", "A", "j", FALSE, TRUE)>> }
MCRequests == 1..3
=============================================================================
