----------------------------- MODULE MCQuoteDesk -----------------------------
(* A small instance of QuoteDesk for TLC. *)
EXTENDS QuoteDesk, TLC

CONSTANTS c1, c2, k1, k2, none, gone, blank, t1, t2, a1, a2, idle,
          g1, g2, text, usd, vnd

mcIds == 1..4
mcBrands == 1..2
mcSizes == {g1, g2, text}
mcUnitOf == (g1 :> "SOLID") @@ (g2 :> "SOLID") @@ (text :> blank)
mcAmountOf == (g1 :> 1) @@ (g2 :> 2) @@ (text :> 0)

Item(code, cas, brand, size, base, manual) ==
    [code |-> code, cas |-> cas, brand |-> brand, size |-> size,
     preparation |-> "NEAT", base |-> base, manual |-> manual]

\* One substance in two brands and sizes, and its code.
Plain ==
    [products |-> (1 :> Item(c1, k1, 1, g1, 3, blank)) @@
                  (2 :> Item(c2, k1, 2, g1, 2, blank)) @@
                  (3 :> Item(c1, k1, 1, g2, 1, blank)) @@ (4 :> gone),
     priority |-> {}, banned |-> {}, currency |-> (1 :> usd) @@ (2 :> vnd),
     rate |-> (usd :> 2) @@ (vnd :> 1)]

\* The first tier has no price.
Unpriced == [Plain EXCEPT !.currency[1] = blank]

\* Twins, exceptions, a brand without a currency and a code with two substances.
Tangled ==
    [products |-> (1 :> Item(c1, k1, 1, g1, 3, "ALLOW")) @@
                  (2 :> Item(c1, k1, 1, g1, 4, "BLOCK")) @@
                  (3 :> Item(c1, k2, 2, text, 1, "LOST")) @@
                  (4 :> Item(c2, none, 2, g2, 5, blank)),
     priority |-> {1}, banned |-> {k1}, currency |-> (1 :> usd) @@ (2 :> blank),
     rate |-> (usd :> 2) @@ (vnd :> 1)]

\* More hits than a row may have.
Crowded ==
    [products |-> (1 :> Item(c1, k1, 1, g1, 3, blank)) @@
                  (2 :> Item(c1, k1, 2, g1, 2, blank)) @@
                  (3 :> Item(c1, k1, 1, g2, 1, blank)) @@
                  (4 :> Item(c1, k1, 2, text, 5, blank)),
     priority |-> {2}, banned |-> {}, currency |-> (1 :> vnd) @@ (2 :> vnd),
     rate |-> (usd :> 0) @@ (vnd :> 1)]

mcMenu == [i \in mcIds |->
              IF i = 2 THEN {Item(c1, k1, 1, g1, 3, blank)}
              ELSE IF i = 4 THEN {Item(c1, k2, 2, g1, 0, blank)} ELSE {}]

Free == [brands |-> {1, 2}, keys |-> Keys, open |-> TRUE]
Narrow == [brands |-> {1}, keys |-> Keys \ {"SEARCH_BY_CAS"}, open |-> TRUE]
Priceless == [brands |-> {1, 2}, keys |-> Keys \ {"VIEW_PRICE"}, open |-> TRUE]

mcRoles == {Free, Narrow, [Priceless EXCEPT !.open = FALSE]}

NoPolicy == [mode |-> "NONE", tiers |-> <<>>]
Tiers == [mode |-> "PRIORITY_FALLBACK", tiers |-> <<{1}, {2}>>]
Allow(b) == [mode |-> "ALLOWLIST_ONLY", tiers |-> <<{b}>>]
Best == [mode |-> "ALL_AVAILABLE", tiers |-> <<>>]
Overlap == [mode |-> "PRIORITY_FALLBACK", tiers |-> <<{1}, {1, 2}>>]

Ask(code, cas, equivalent, policy) ==
    [code |-> code, cas |-> cas, equivalent |-> equivalent, override |-> policy]

Ask2(rows, strategy, policy, brands, sizes, unit, mode) ==
    [rows |-> rows, strategy |-> strategy, policy |-> policy, brands |-> brands,
     sizes |-> sizes, unit |-> unit, preparation |-> "ANY", mode |-> mode]

Any0(rows, strategy, policy) == Ask2(rows, strategy, policy, {}, {}, "ANY", "ANY")

ByHand == Any0(<<Ask(c1, blank, FALSE, NoPolicy)>>, "MANUAL", NoPolicy)

mcEdits == {ByHand}

Cheapest == Any0(<<Ask(c1, blank, FALSE, NoPolicy)>>, "LOWEST_OVERALL", NoPolicy)
ByTier == Any0(<<Ask(blank, k1, FALSE, NoPolicy)>>, "LOWEST_OVERALL", Tiers)
PerBrand == Any0(<<Ask(c2, blank, TRUE, Allow(2)), Ask(c1, k1, TRUE, NoPolicy)>>,
                 "LOWEST_PER_BRAND", Best)
Smallest == Ask2(<<Ask(blank, k1, FALSE, NoPolicy), Ask(c2, k2, FALSE, NoPolicy)>>,
                 "LOWEST_PER_BRAND", NoPolicy, {1}, {}, "ANY", "MIN")
Largest == Ask2(<<Ask(c1, k1, TRUE, NoPolicy)>>, "LOWEST_OVERALL", Tiers,
                {}, {}, "SOLID", "MAX")
Exactly == Ask2(<<Ask(c1, k1, FALSE, NoPolicy)>>, "LOWEST_OVERALL", NoPolicy,
                {}, {text}, "ANY", "ANY")
Vague == Any0(<<Ask(blank, blank, FALSE, NoPolicy), Ask(c1, blank, TRUE, NoPolicy)>>,
              "LOWEST_OVERALL", NoPolicy)
Refused == Any0(<<Ask(c1, blank, FALSE, NoPolicy)>>, "LOWEST_OVERALL", Overlap)

Start(catalogue, who, role, q) ==
    [db |-> catalogue, user |-> who, team |-> role, query |-> q]

mcStarts == {Start(Plain, "staff", Free, ByHand),
             Start(Plain, "staff", Free, ByTier),
             Start(Unpriced, "staff", Free, ByTier),
             Start(Plain, "staff", Free, PerBrand),
             Start(Plain, "staff", Narrow, Cheapest),
             Start(Plain, "staff", Free, Smallest),
             Start(Plain, "staff", Narrow, Largest),
             Start(Plain, "admin", Priceless, Cheapest),
             Start(Tangled, "staff", Free, Cheapest),
             Start(Tangled, "staff", Free, ByTier),
             Start(Tangled, "admin", Priceless, Exactly),
             Start(Tangled, "staff", Free, Vague),
             Start(Crowded, "staff", Free, PerBrand),
             Start(Crowded, "staff", Free, Largest),
             Start(Crowded, "staff", Narrow, Refused)}

mcChoices == {[theirs |-> FALSE, template |-> none], [theirs |-> TRUE, template |-> none],
              [theirs |-> FALSE, template |-> t2]}

mcPosts == {{1, 2}}
==============================================================================
