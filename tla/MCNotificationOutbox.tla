------------------------ MODULE MCNotificationOutbox ------------------------
(* Finite instances of NotificationOutbox for TLC. *)
EXTENDS NotificationOutbox, TLC

Alimtalk(approved, renders, body) ==
  [channel |-> "kakao_alimtalk", purpose |-> "transactional",
   approved |-> approved, renders |-> renders, fallback |-> body]

Approved   == Alimtalk(TRUE, TRUE, TRUE)
Draft      == Alimtalk(FALSE, TRUE, TRUE)
Misspelled == Alimtalk(TRUE, FALSE, TRUE)
Promotion  == [Approved EXCEPT !.purpose = "marketing"]

RendersOrNot == {Approved, Misspelled}
Differing    == {Approved, Draft, Misspelled, Promotion}

Symmetric == Permutations(Recipients)
=============================================================================
