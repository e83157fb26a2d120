------------------------- MODULE MCRecipientConsents -------------------------
(* A finite instance of RecipientConsents for TLC. *)
EXTENDS RecipientConsents, TLC

CONSTANTS c1, c2, c3, r1, r2, r3, s1, s2, u1, u2

Written(lead, number) == [lead |-> lead, zero |-> FALSE, long |-> TRUE, number |-> number]

Create(phone, shop)  == [kind |-> "create", phone |-> phone, shop |-> shop, user |-> None]
Update(r, patch)     == [kind |-> "update", of |-> r, patch |-> patch]
Deactivate(r)        == [kind |-> "deactivate", of |-> r]
Grant(r, source)     == [kind |-> "grant", of |-> r, type |-> "sms_marketing", source |-> source]
Revoke(r)            == [kind |-> "revoke", of |-> r, type |-> "sms_marketing"]

\* r1 and r2 may swap their numbers; r3 is another tenant's.
SomeWants ==
  (c1 :> {Update(r1, [phone |-> Written("0", "B")]), Update(r1, [active |-> FALSE]),
          Create(Written("0", "C"), s1), Grant(r1, "web"), [kind |-> "shop"]})
    @@ (c2 :> {Update(r2, [phone |-> Written("+82", "A"), user |-> u1]), Revoke(r1),
               Update(r1, [active |-> TRUE, shop |-> s1]), Update(r1, [shop |-> s2]),
               Create(Written("82", "C"), c1), Create(Written("other", "C"), None)})
    @@ (c3 :> {Update(r2, [phone |-> Written("0", "C")]), Deactivate(r1), Revoke(r1), Revoke(r3),
               Grant(r1, "paper"), Create([Written("+82", "A") EXCEPT !.zero = TRUE], None)})

Callers == (c1 :> u1) @@ (c2 :> u1) @@ (c3 :> u1)
Users   == (u1 :> "t1") @@ (u2 :> "t2")
Shops   == (s1 :> "t1") @@ (s2 :> "t2")

Recipient(t, number) ==
  [tenant |-> t, phone |-> <<FALSE, number>>, shop |-> None, user |-> None, active |-> TRUE]

Recipients ==
  (r1 :> Recipient("t1", "A")) @@ (r2 :> Recipient("t1", "B")) @@ (r3 :> Recipient("t2", "B"))

Consents ==
  { <<>>, (<<r1, "sms_marketing">> :> [tenant |-> "t1", source |-> "call", revoked |-> None]) }
=============================================================================
