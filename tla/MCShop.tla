------------------------------- MODULE MCShop -------------------------------
(* For TLC: the catalogue as administrators change it, checkout and cart,  *)
(* and the storefront.  The four share no state, so that every interleaving*)
(* of them is one of each: a behaviour of this instance exercises one,     *)
(* which TLC chooses at the start.                                         *)
EXTENDS CategoryTree, ProductVariants, CheckoutCart, Storefront

VARIABLE part   \* what is exercised

shopVars == <<categoryVars, variantVars, checkoutVars, storefrontVars, part>>

Init ==
    /\ part \in {"categories", "variants", "checkout", "storefront"}
    /\ CategoryInit /\ VariantInit /\ CheckoutInit /\ StorefrontInit

Next ==
    /\ UNCHANGED part
    /\ \/ /\ part = "categories" /\ CategoryNext
          /\ UNCHANGED <<variantVars, checkoutVars, storefrontVars>>
       \/ /\ part = "variants" /\ VariantNext
          /\ UNCHANGED <<categoryVars, checkoutVars, storefrontVars>>
       \/ /\ part = "checkout" /\ CheckoutNext
          /\ UNCHANGED <<categoryVars, variantVars, storefrontVars>>
       \/ /\ part = "storefront" /\ StorefrontNext
          /\ UNCHANGED <<categoryVars, variantVars, checkoutVars>>

Spec == Init /\ [][Next]_shopVars

(* The type invariants of the parts.                                       *)
ShopTypeOK == CategoryTypeOK /\ VariantTypeOK /\ CheckoutTypeOK /\ StorefrontTypeOK
=============================================================================
