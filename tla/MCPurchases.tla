----------------------------- MODULE MCPurchases -----------------------------
(* Instances of Purchases for TLC. *)
EXTENDS Purchases, TLC

CONSTANTS u1, u2, a1, a2, a3, play, web, shop, x1, p1, i1, i2

Sold(a, n) == [app |-> a, application |-> n, product |-> p1, coins |-> 1]
OneRegistry == {{Sold(a1, play)}}
\* Processes configured for another app, before this one was known, with it,
\* after it moved to another application, and after the application moved to
\* another app.
ChangingRegistries ==
  {{Sold(a3, shop)}, {Sold(a1, play)}, {Sold(a1, web)}, {Sold(a2, play)}}
AppRemoved == {{Sold(a3, shop)}, {Sold(a1, play)}}

Bought(a) == [txn |-> x1, app |-> a, application |-> play, product |-> p1, owner |-> u1]
OneFact == {Bought(a1)}
EitherApp == {Bought(a1), Bought(a2)}

Webhook(i, a, k) == [id |-> <<"webhook", i>>, app |-> a, txn |-> x1, product |-> p1,
                     owner |-> u1, kind |-> k, sound |-> TRUE]
Misattributed == [Webhook(i1, a1, "purchase") EXCEPT !.owner = u2]
\* A purchase and its refund, the purchase with a second id, the refund under a
\* reused id, and a purchase claimed for somebody else.
WebhooksOfOne == {Webhook(i1, a1, "purchase"), Webhook(i2, a1, "purchase"),
                  Webhook(i2, a1, "refund"), Misattributed}
WebhooksOfBoth == {Webhook(i1, a1, "purchase"), Webhook(i2, a1, "refund"),
                   Webhook(i1, a2, "purchase")}
PurchaseAndRefund == {Webhook(i1, a1, "purchase"), Webhook(i2, a1, "refund")}

Sandbox == [debug |-> FALSE, hosted |-> TRUE, webhook |-> TRUE, mode |-> "revenuecat_sandbox"]
Local == [debug |-> TRUE, hosted |-> FALSE, webhook |-> FALSE, mode |-> "test"]

Interchangeable == Permutations(Calls)
=============================================================================
