--------------------------- MODULE MCReceivables ---------------------------
(***************************************************************************)
(* Small instances of the receivables: one customer, one or two invoices,  *)
(* the clerks and what each of them does.                                  *)
(***************************************************************************)
EXTENDS Receivables, TLC

Line(b, n) == [batch |-> b, n |-> n]

Invoicing(method, lines, price, units, vat, discount) ==
    [method |-> method, lines |-> lines, price |-> price,
     subtotal |-> price * units, vat |-> vat, discount |-> discount]

\* Three units from two batches; the discount does not divide by three.
Discounted == Invoicing("cash", <<Line(1, 2), Line(2, 1)>>, 2, 3, 0, 2)

Plain == Invoicing("cash", <<Line(1, 2)>>, 1, 2, 0, 0)
OnAccount == Invoicing("credit", <<Line(2, 1)>>, 1, 1, 0, 0)

\* The same product typed twice, both times from the batch that expires first.
TypedTwice == Invoicing("cash", <<Line(1, 1), Line(1, 1)>>, 1, 2, 0, 0)

\* The invoices at the start, and what may be posted later.
OneDiscounted == <<Discounted>>
OnePlain == <<Plain>>
PlainAndNext == <<Plain, None>>

Documents == {Discounted, Plain, OnAccount, TypedTwice}
Issued == {Plain, OnAccount}

CONSTANTS clerk1, clerk2

\* What each clerk does.
Duty1(ops) == clerk1 :> ops
Duties2(ops1, ops2) == clerk1 :> ops1 @@ clerk2 :> ops2

OneClerk == Duty1(Operation \ {"invoice", "receipt"})

Returning == Duties2({"return", "cancel", "collect"}, {"return", "cancel"})

\* One desk sells, collects, pays out and undoes; another takes back and receives.
OneDesk == Duties2({"invoice", "collect", "resolve", "refund", "cancel"}, {"return", "receipt"})

\* One clerk who collects and takes back, time and again.
Returns == Duty1({"collect", "return"})
=============================================================================
