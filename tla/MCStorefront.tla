---------------------------- MODULE MCStorefront ----------------------------
EXTENDS Storefront

Cfg(e, el, px, p, f, r) ==
    [enabled |-> e, eligible |-> el, pixels |-> px,
     shown |-> [pl \in Placements |-> IF pl = "PRODUCT_PAGE" THEN p ELSE f], replace |-> r]

\* Both placements; a mobile one and a desktop one; not for this product; switched off.
MCConfigs == {Cfg(TRUE, TRUE, TRUE, Viewports, {}, {"ADD_TO_CART"}),
              Cfg(TRUE, TRUE, FALSE, {"mobile"}, {"desktop"}, {"BUY_NOW"}),
              Cfg(TRUE, FALSE, TRUE, Viewports, Viewports, {}),
              Cfg(FALSE, TRUE, FALSE, Viewports, Viewports, {})}

Tag(p, c, en) == [provider |-> p, requireConsent |-> c, enabled |-> en, names |-> EventNames,
                  gtm |-> FALSE, label |-> TRUE]

\* A tag that waits for consent, one with a list of events, two of a provider that
\* cannot address them, one behind Tag Manager.
MCTags == <<Tag("META", TRUE, {}),
            Tag("PINTEREST", FALSE, {"PAGE_VIEW"}),
            Tag("PINTEREST", TRUE, {}),
            Tag("TIKTOK", FALSE, {"PURCHASE"}),
            [Tag("GOOGLE_ADS", FALSE, {"PURCHASE"}) EXCEPT !.gtm = TRUE]>>
=============================================================================
