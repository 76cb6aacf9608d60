-------------------------- MODULE StorefrontButtons --------------------------
(***************************************************************************)
(* The loader of the theme extension (codflow.js): the shop's config from  *)
(* sessionStorage and from the API, the COD buttons it puts on the page,   *)
(* and the theme's own buy buttons it hides for them.                      *)
(*                                                                         *)
(* One browser tab, which may load the page again; the merchant edits the  *)
(* settings meanwhile. An element carries what the code tests: whether it  *)
(* is in the document, and for a slot whether it holds a button and is     *)
(* hidden. A product page; one button per placement.                       *)
(***************************************************************************)
EXTENDS Naturals, FiniteSets

CONSTANTS
    Configs,    \* what the API may answer: see IsConfig
    NoConfig,   \* null
    MaxActs     \* bound on what the merchant and the shopper do

Placements == {"PRODUCT_PAGE", "FLOATING"}
Viewports == {"mobile", "desktop"}
NativeButtons == {"ADD_TO_CART", "BUY_NOW"}

\* What of the API's answer the loader looks at. "shown" gives for a placement
\* the viewports its button is switched on for, none when it has no button. Two
\* answers have the same version exactly when they are equal.
IsConfig(c) ==
    c \in [enabled : BOOLEAN, eligible : BOOLEAN, pixels : BOOLEAN,
           shown : [Placements -> SUBSET Viewports], replace : SUBSET NativeButtons]

ASSUME ButtonsAssumption ==
    /\ \A c \in Configs : IsConfig(c)
    /\ NoConfig \notin Configs
    /\ MaxActs \in Nat

VARIABLES
    server,     \* the config the API would compute now
    cached,     \* the entry in sessionStorage
    config,     \* state.config
    http,       \* the answer the browser's HTTP cache may still give
    fetch,      \* the request in flight: who waits for it and what it will answer
    page,       \* [booted, observing, pixels, open, dirty] of this page view
    dom,        \* the elements on the page
    view,       \* what happened in this page view: [opened, lost, events]
    acts

bvars == <<server, cached, config, http, fetch, page, dom, view, acts>>

NoFetch == [for |-> "nobody", answer |-> NoConfig]
BlankPage == [booted |-> FALSE, observing |-> FALSE, pixels |-> FALSE, open |-> FALSE,
              dirty |-> FALSE]
BlankDom(slot, viewport) ==
    [slot |-> slot, slotButton |-> FALSE, slotHidden |-> FALSE, auto |-> FALSE,
     floating |-> FALSE, nativeHidden |-> {}, viewport |-> viewport]
BlankView == [opened |-> FALSE, lost |-> FALSE, events |-> {}]

ButtonsTypeOK ==
    /\ server \in Configs
    /\ {cached, config, http} \subseteq Configs \cup {NoConfig}
    /\ fetch \in [for : {"nobody", "boot", "revalidate"}, answer : Configs \cup {NoConfig}]
    /\ page \in [booted : BOOLEAN, observing : BOOLEAN, pixels : BOOLEAN, open : BOOLEAN,
                 dirty : BOOLEAN]
    /\ dom \in [slot : BOOLEAN, slotButton : BOOLEAN, slotHidden : BOOLEAN, auto : BOOLEAN,
                floating : BOOLEAN, nativeHidden : SUBSET NativeButtons,
                viewport : Viewports]
    /\ view \in [opened : BOOLEAN, lost : BOOLEAN,
                 events : SUBSET {"form_view", "button_click", "form_start"}]
    /\ acts \in 0..MaxActs

\* What happens from outside, a bounded number of times.
Act == acts < MaxActs /\ acts' = acts + 1

-----------------------------------------------------------------------------
(* Rendering. Every operator returns the document after its function. *)

\* buttonForPlacement and isVisibleForViewport
isVisible(c, d, placement) == d.viewport \in c.shown[placement]

\* Some element matches SELECTORS.button, hidden or not.
HasButton(d) == (d.slot /\ d.slotButton) \/ d.auto \/ d.floating

\* A slot that already holds its button is left as it is, hidden or not.
renderSlots(c, d) ==
    IF ~d.slot THEN d
    ELSE IF ~isVisible(c, d, "PRODUCT_PAGE") THEN [d EXCEPT !.slotHidden = TRUE]
    ELSE IF d.slotButton THEN d
    ELSE [d EXCEPT !.slotHidden = FALSE, !.slotButton = TRUE]

\* The merchant's own placement wins, and an automatic button goes when it appears.
autoPlaceProductButton(c, d) ==
    [d EXCEPT !.auto = isVisible(c, d, "PRODUCT_PAGE") /\ ~(d.slot /\ d.slotButton)]

renderInjected(c, d) == [d EXCEPT !.floating = isVisible(c, d, "FLOATING")]

\* The theme's buttons are hidden once a COD button is in the document; nothing
\* shows them again.
applyNativeButtonPolicy(c, d) ==
    IF HasButton(d) THEN [d EXCEPT !.nativeHidden = @ \cup c.replace] ELSE d

RenderedDom(c, d) ==
    applyNativeButtonPolicy(c, renderInjected(c, autoPlaceProductButton(c, renderSlots(c, d))))

Renders(c) == c # NoConfig /\ c.enabled /\ c.eligible

\* Mutants: a revalidation is applied under an open form; the fresh answer is only cached.
MayReplace(fresh) == fresh # config
NeverReplace(fresh) == FALSE

\* render(): with COD off only what was appended to the body is taken away.
render(c) ==
    LET d == IF Renders(c) THEN RenderedDom(c, dom) ELSE [dom EXCEPT !.floating = FALSE]
    IN /\ dom' = d
       /\ view' = IF Renders(c) /\ HasButton(d)
                  THEN [view EXCEPT !.events = @ \cup {"form_view"}] ELSE view

-----------------------------------------------------------------------------
(* The page's life. *)

\* What boot does once loadConfig resolves.
Started(c) ==
    IF c = NoConfig \/ ~c.enabled
    THEN /\ page' = [page EXCEPT !.booted = TRUE]
         /\ UNCHANGED <<dom, view>>
    ELSE /\ page' = [page EXCEPT !.booted = TRUE, !.observing = TRUE, !.pixels = c.pixels]
         /\ render(c)

\* boot with an entry in sessionStorage: rendered at once, asked about in the
\* background.
BootFromCache ==
    /\ ~page.booted /\ fetch = NoFetch /\ cached # NoConfig
    /\ config' = cached
    /\ Started(cached)
    /\ fetch' = [for |-> "revalidate", answer |-> NoConfig]
    /\ UNCHANGED <<server, cached, http, acts>>

\* boot without one: nothing is rendered before the API answers.
BootFromApi ==
    /\ ~page.booted /\ fetch = NoFetch /\ cached = NoConfig
    /\ fetch' = [for |-> "boot", answer |-> NoConfig]
    /\ UNCHANGED <<server, cached, config, http, page, dom, view, acts>>

\* The API reads the settings, and its answer may be used again: for a minute
\* without asking, for ten more while the browser asks in the background
\* (Cache-Control). The request is answered by the API or by that copy.
Serve ==
    /\ fetch.for # "nobody" /\ fetch.answer = NoConfig
    /\ \/ fetch' = [fetch EXCEPT !.answer = server] /\ http' = server
       \/ /\ http # NoConfig
          /\ fetch' = [fetch EXCEPT !.answer = http]
          /\ http' \in {http, server}
    /\ UNCHANGED <<server, cached, config, page, dom, view, acts>>

\* loadConfig's own request is answered.
Loaded ==
    /\ fetch.for = "boot" /\ fetch.answer # NoConfig
    /\ cached' = fetch.answer
    /\ config' = fetch.answer
    /\ Started(fetch.answer)
    /\ fetch' = NoFetch
    /\ UNCHANGED <<server, http, acts>>

\* An answer of another version replaces the config, but not under an open form.
Replaces(fresh) == fresh # config /\ ~page.open

\* revalidateConfig: the answer is always kept for the next page.
revalidateConfig ==
    /\ fetch.for = "revalidate" /\ fetch.answer # NoConfig
    /\ cached' = fetch.answer
    /\ fetch' = NoFetch
    /\ IF Replaces(fetch.answer)
       THEN config' = fetch.answer /\ render(fetch.answer)
       ELSE UNCHANGED <<config, dom, view>>
    /\ UNCHANGED <<server, http, page, acts>>

\* requestJson rejects: an error, a timeout, or a body that is not JSON. A page
\* without a cached config then stays without COD.
Reject ==
    /\ fetch.for # "nobody"
    /\ Act
    /\ fetch' = NoFetch
    /\ page' = [page EXCEPT !.booted = TRUE]
    /\ view' = [view EXCEPT !.lost = TRUE]
    /\ UNCHANGED <<server, cached, config, http, dom>>

-----------------------------------------------------------------------------
(* What the shopper, the theme and the merchant do. *)

\* openDialog, from a click on a button that shows.
openDialog ==
    /\ Act
    /\ ~page.open
    /\ dom.auto \/ dom.floating \/ (dom.slot /\ dom.slotButton /\ ~dom.slotHidden)
    /\ page' = [page EXCEPT !.open = TRUE]
    /\ view' = [view EXCEPT !.opened = TRUE, !.events = @ \cup {"button_click", "form_start"}]
    /\ UNCHANGED <<server, cached, config, http, fetch, dom>>

closeDialog ==
    /\ page.open
    /\ page' = [page EXCEPT !.open = FALSE]
    /\ UNCHANGED <<server, cached, config, http, fetch, dom, view, acts>>

\* The viewport crosses the breakpoint, or the theme loads or unloads the section
\* that holds the slot. Each only asks for a render, debounced.
Resize ==
    /\ Act
    /\ page' = [page EXCEPT !.dirty = page.observing]
    /\ dom' = [dom EXCEPT !.viewport = CHOOSE v \in Viewports : v # dom.viewport]
    /\ UNCHANGED <<server, cached, config, http, fetch, view>>

SectionChanges ==
    /\ Act
    /\ page' = [page EXCEPT !.dirty = page.observing]
    /\ dom' = [dom EXCEPT !.slot = ~@, !.slotButton = FALSE, !.slotHidden = FALSE]
    /\ UNCHANGED <<server, cached, config, http, fetch, view>>

rerender ==
    /\ page.dirty
    /\ page' = [page EXCEPT !.dirty = FALSE]
    /\ render(config)
    /\ UNCHANGED <<server, cached, config, http, fetch, acts>>

EditSettings ==
    /\ Act
    /\ \E c \in Configs \ {server} : server' = c
    /\ UNCHANGED <<cached, config, http, fetch, page, dom, view>>

\* The shopper loads the page again: only sessionStorage survives.
Reload ==
    /\ Act
    /\ config' = NoConfig /\ fetch' = NoFetch
    /\ page' = BlankPage
    /\ dom' = BlankDom(dom.slot, dom.viewport)
    /\ view' = BlankView
    /\ UNCHANGED <<server, cached, http>>

\* The browser's copy of the last answer has aged.
ExpireHttp ==
    /\ http # NoConfig
    /\ Act
    /\ http' = NoConfig
    /\ UNCHANGED <<server, cached, config, fetch, page, dom, view>>

\* CACHE_TTL_MS has passed.
ExpireCache ==
    /\ cached # NoConfig /\ ~page.booted /\ fetch = NoFetch
    /\ Act
    /\ cached' = NoConfig
    /\ UNCHANGED <<server, config, http, fetch, page, dom, view>>

ButtonsInit ==
    /\ server \in Configs
    /\ cached = NoConfig /\ config = NoConfig /\ http = NoConfig /\ fetch = NoFetch
    /\ page = BlankPage
    /\ dom \in {BlankDom(slot, v) : slot \in BOOLEAN, v \in Viewports}
    /\ view = BlankView /\ acts = 0

ButtonsNext ==
    \/ BootFromCache \/ BootFromApi \/ Serve \/ Loaded \/ revalidateConfig \/ Reject
    \/ openDialog \/ closeDialog \/ Resize \/ SectionChanges \/ rerender
    \/ EditSettings \/ Reload \/ ExpireHttp \/ ExpireCache

\* What happens by itself: the page's own code runs, requests are answered, and a
\* debounced render comes.
ButtonsProgress ==
    BootFromCache \/ BootFromApi \/ Serve \/ Loaded \/ revalidateConfig \/ rerender

ButtonsFairness == WF_bvars(ButtonsProgress)

ButtonsSpec == ButtonsInit /\ [][ButtonsNext]_bvars /\ ButtonsFairness

-----------------------------------------------------------------------------
(* What makes the loader correct. *)

\* A shopper's totals do not change while they have the form open: the config the
\* form was built from stays, whatever the API answers (revalidateConfig).
ConfigStaysWhileOpen == [][page.open /\ page'.open => config' = config]_bvars

\* The page was left: this is a page view that has not begun.
Left == ~page.booted /\ fetch = NoFetch

\* A page view that asks for the settings c ends up with them, although a copy of
\* older ones is shown first, unless the form was opened, the request failed, or the
\* settings changed again or the page was left.
AskedIsSeen(c) ==
    (server = c /\ fetch.for # "nobody" /\ fetch.answer = NoConfig)
        ~> (config = c \/ server # c \/ view.opened \/ view.lost \/ Left)

\* That is so once the browser no longer has an older answer of the API
\* (revalidateConfig).
ChangeIsSeen ==
    \A c \in Configs :
        (server = c /\ http \in {c, NoConfig} /\ fetch.for # "nobody" /\ fetch.answer = NoConfig)
            ~> (config = c \/ server # c \/ view.opened \/ view.lost \/ Left)
=============================================================================
