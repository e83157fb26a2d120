-------------------------------- MODULE MCAuth --------------------------------
(* A finite instance of Auth for TLC. *)
EXTENDS Auth, TLC

CONSTANTS c1, c2, c3, s1, s2, i0, i1, i2, o0

Login(s, i) == [kind |-> "login", state |-> s, identity |-> i]
Refresh     == [kind |-> "refresh"]
Logout      == [kind |-> "logout"]

\* Two first logins of one identity or of two of the same name, with two states or
\* with one, or a returning user; refreshes and logouts of whatever token is there.
SomeWants ==
  (c1 :> {Login(s1, i1), Refresh})
    @@ (c2 :> {Login(s1, i1), Login(s2, i1), Login(s2, i2), Logout})
    @@ (c3 :> {Login(s2, i0), Refresh, Logout})

\* i1 and i2 have the same nickname.
TwoNames == (i0 :> "lee") @@ (i1 :> "kim") @@ (i2 :> "kim")

OldUser == (o0 :> i0)
=============================================================================
