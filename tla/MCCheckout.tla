----------------------------- MODULE MCCheckout -----------------------------
(* A small instance of Checkout for TLC.                                   *)
EXTENDS Checkout, TLC

CONSTANTS anita, bimal, first, retry, second, other, k1, k2, a1, a2, b1, welcome

\* Anita's checkout, its retry, and a second attempt under a key of its own;
\* Bimal's has no key.
MCCustomerOf == first :> anita @@ retry :> anita @@ second :> anita @@ other :> bimal
MCKeyOf == first :> k1 @@ retry :> k1 @@ second :> k2 @@ other :> NoKey

\* One redemption in all, for a first order, wanted by both customers.
MCCouponOf == first :> NoCoupon @@ retry :> NoCoupon @@ second :> welcome @@ other :> welcome
MCLimit == welcome :> 1

MCAddedBy == a1 :> anita @@ a2 :> anita @@ b1 :> bimal

=============================================================================
