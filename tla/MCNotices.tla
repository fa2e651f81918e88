------------------------------ MODULE MCNotices ------------------------------
(***************************************************************************)
(* Two of everything that may meet another of its kind.                    *)
(***************************************************************************)
EXTENDS Notices

CONSTANTS i1, i2,     \* mails, payees or events
          c1, c2      \* passes

Items == {i1, i2}
Processes == {c1, c2}

MailsAre(k1, k2) == [m \in Items |-> IF m = i1 THEN k1 ELSE k2]

\* A mail of a payee that the owner approves, or that turns out not to be from
\* it.
Unapproved == MailsAre("unknown", "unknown")
Approved == MailsAre("payable", "unknown")
Disowned == MailsAre("tampered", "unknown")

\* A mail of a payee whose grant is used up, or whose account is replaced.
Granted == MailsAre("unknown", "payable")
UsedUp == MailsAre("unknown", "held")
Replaced == MailsAre("unknown", "changed")

\* Two mails of one invoice, the second after the first or with it.
Both == MailsAre("payable", "payable")

Books == {Unapproved, Approved, Disowned, Granted, UsedUp, Replaced, Both}
Changes == [b \in Books |-> CASE b = Unapproved -> {Approved, Disowned}
                             [] b = Granted -> {UsedUp, Replaced}
                             [] OTHER -> {}]
Batches == [b \in Books |-> CASE b = Both -> {{i1}, Items}
                             [] b \in {Granted, UsedUp, Replaced} -> {{}, {i2}}
                             [] OTHER -> {{}, {i1}}]

\* A payment and a waiting invoice.
Kinds == [e \in Items |-> IF e = i1 THEN "paid" ELSE "waiting"]

\* Two days of two hours, eight and nine; the digest is sent at nine.
Day == [t \in 0..LastTick |-> t \div 2]
Hour == [t \in 0..LastTick |-> IF t % 2 = 0 THEN 8 ELSE 9]

=============================================================================
