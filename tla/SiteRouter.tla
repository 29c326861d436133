------------------------------ MODULE SiteRouter ------------------------------
(***************************************************************************)
(* Navigation between the pages of the site without reloading it: the      *)
(* Router (app/scripts/helper/router.js), what its animations leave hidden *)
(* (page-animation.js) and the first rendering of the page (elements.js).  *)
(*                                                                         *)
(* A navigation writes router.state, which every transition in flight      *)
(* reads again after each of its promises: a click or the back button      *)
(* while a page is changing is the hard case.  A transition is a record    *)
(* with the values that its closures have captured.                        *)
(*                                                                         *)
(* An animation leaves its element as its last keyframe says (fill:        *)
(* 'forwards'), and of two the one that starts last wins: an element is    *)
(* hidden or shown from the start of the animation.                        *)
(***************************************************************************)
EXTENDS Naturals, FiniteSets, Sequences

CONSTANTS Pages,            \* pages.js: the keys of template.pages
          Subpages,         \* the subpages of each page: a set of names
          DefaultSubpage,   \* pages.js: defaultSubpage of each page
          SectionOf,        \* the section of the document that shows a subpage
          Links,            \* links with data-ajax-link: a URL and data-transition
          First,            \* the page the browser has loaded
          MaxNavigations,   \* BOUND: clicks and uses of the history
          MaxFailures       \* BOUND: imports that do not load

SubpageNames == UNION {Subpages[p] : p \in Pages}
Sections     == {SectionOf[s] : s \in SubpageNames}
Transitions  == {"slide", "ripple", "hero"}

(* What the router knows of a URL: its page and its subpage.               *)
Urls == {u \in [page : Pages, subpage : SubpageNames] :
           u.subpage \in Subpages[u.page]}

None == "none"

(* The parts of the page around its sections; "ripple" stands for the ink  *)
(* that covers the masthead.                                               *)
Frame == {"meta", "corner", "footer", "nav", "ripple"}

ASSUME SiteAssumption ==
  /\ Subpages \in [Pages -> SUBSET STRING]
  /\ DefaultSubpage \in [Pages -> SubpageNames]
  /\ \A p \in Pages : DefaultSubpage[p] \in Subpages[p]
  /\ Sections \cap (Frame \cup {None}) = {}
  /\ First \in Pages
  /\ Links \subseteq [url : Urls, transition : Transitions]
  /\ MaxNavigations \in Nat /\ MaxFailures \in Nat

VARIABLES
  history,    \* the browser's: entries and the one the address bar shows
  start, current, end,    \* Router.prototype.state
  templates,  \* pages whose templates are in the document
  rendered,   \* page that the container templates refer to, and how often
              \*   the content has been stamped
  active,     \* the section of the content that is displayed
  header,     \* page that the title, the body's id and the masthead say
  hidden,     \* sections and parts of the frame at opacity 0
  loaded,     \* pages whose load handler is in force
  transitionDone,   \* template.pageTransitionDone
  runs,       \* transitions in flight
  stuck,      \* transitions whose import has not loaded
  navigations,
  swapped     \* a navigation has come at one of the three moments below

state == <<start, current, end>>
view  == <<templates, rendered, active, header, hidden, loaded>>
vars  == <<history, state, view, transitionDone, runs, stuck, navigations,
           swapped>>

Url(p, s) == [page |-> p, subpage |-> s]

Location == history.entries[history.at]

(***************************************************************************)
(* Animations                                                              *)
(***************************************************************************)
(* What each animation takes out of sight or brings back.                   *)
sectionSlideOut(section) == {section}
contentSlideOut(section) == sectionSlideOut(section) \cup {"meta", "corner", "footer"}
navSlideOut == {"nav"}
pageCardTakeoverOut(section) ==
  {section} \cup navSlideOut \cup {"ripple", "footer", "meta"}

sectionSlideIn(section) == {section}
contentSlideIn(section) == sectionSlideIn(section) \cup {"corner", "footer"}
navSlideIn == {"nav"}
pageSlideIn(section) == contentSlideIn(section) \cup {"meta"}
pageCardTakeoverIn(section) == pageSlideIn(section) \cup navSlideIn

(* section is None when the document has no section for the subpage.        *)
pageFirstRender(section, displayed) ==
  (IF section = None THEN contentSlideIn(displayed) ELSE sectionSlideIn(section))
    \cup {"meta"}

(* What is hidden once an animation plays.                                  *)
playPageSlideOut(section)    == hidden \cup contentSlideOut(section)
playPageSlideIn(section)     == (hidden \ pageSlideIn(section)) \cup {"ripple"}
playSectionSlideOut(section) == hidden \cup sectionSlideOut(section) \cup {"footer"}
playSectionSlideIn(section)  == hidden \ (sectionSlideIn(section) \cup {"footer"})

playMastheadRippleTransition(section) ==
  (hidden \ {"ripple"}) \cup contentSlideOut(section)

playHeroTransitionStart(section) == hidden \cup pageCardTakeoverOut(section)
playHeroTransitionEnd(section)   == hidden \ pageCardTakeoverIn(section)

pageExitTransitions(transition, section) ==
  CASE transition = "slide"  -> playPageSlideOut(section)
    [] transition = "ripple" -> playMastheadRippleTransition(section)
    [] transition = "hero"   -> playHeroTransitionStart(section)

(* MUTANT: every page slides in, a hero's too.                              *)
pageEnterTransitions_Slides(transition, section) == playPageSlideIn(section)

pageEnterTransitions(transition, section) ==
  IF transition = "hero" THEN playHeroTransitionEnd(section)
  ELSE playPageSlideIn(section)

(***************************************************************************)
(* updateUIstate: state is what the router's state will be.  The section   *)
(* of a subpage that the content does not have is left as it is.  What is  *)
(* bound to selectedPage and selectedSubpage (the marks of the menu and    *)
(* the tabs) is left out, with the reset of the latter at                  *)
(* router.js:260-261, which sets it to undefined, as startPage is a name:  *)
(* the router does not read them, and content that is stamped anew has a   *)
(* section chosen by the rest of this operator a frame later.              *)
(***************************************************************************)
ContentSections == {SectionOf[s] : s \in Subpages[rendered.page]}

UpdateUI(new) ==
  /\ current' = new
  /\ header' = IF new.page # start.page THEN new.page ELSE header
  /\ active' = IF SectionOf[new.subpage] \in ContentSections
               THEN SectionOf[new.subpage] ELSE active
  /\ history' = IF new # Location
                THEN [entries |-> Append(SubSeq(history.entries, 1, history.at),
                                         new),
                      at |-> history.at + 1]
                ELSE history

(***************************************************************************)
(* navigate and the transitions it starts                                  *)
(***************************************************************************)
(* The closure of a transition: page is the page it leaves, then the one it  *)
(* imports; section is the one it slides in, of the content stamped then.   *)
Run(kind, transition, section) ==
  [kind |-> kind, phase |-> "exit", transition |-> transition,
   page |-> current.page, section |-> section, stamp |-> rendered.stamp,
   id |-> navigations + 1]

(* The moments at which a navigation changes what a transition is about to  *)
(* do but not what it has done: the templates are swapped, or the old       *)
(* subpage has been told to slide out; and those at which the content is not *)
(* that of the state's page, since the import that has loaded was of another *)
(* one: a click on a link to this page is not a change of pages.            *)
Swapping == \/ \E r \in runs : r.phase = "render"
                                \/ (r.kind = "subpage" /\ r.phase = "exit")
            \/ rendered.page # current.page

runPageTransition(transition) ==
  /\ transitionDone' = FALSE
  /\ hidden' = pageExitTransitions(transition, active)
  /\ runs' = runs \cup {Run("page", transition, active)}

runSubpageTransition(url) ==
  /\ UNCHANGED transitionDone
  /\ IF {SectionOf[current.subpage], SectionOf[url.subpage]}
          \subseteq ContentSections
     THEN /\ hidden' = playSectionSlideOut(SectionOf[current.subpage])
          /\ runs' = runs \cup {Run("subpage", "slide", SectionOf[url.subpage])}
     ELSE UNCHANGED <<hidden, runs>>

(* MUTANT: the state is copied only when a transition has finished.         *)
navigate_KeepsStart(url, transition) ==
  /\ navigations < MaxNavigations
  /\ navigations' = navigations + 1
  /\ start' = IF runs = {} THEN current ELSE start
  /\ end' = url
  /\ swapped' = (swapped \/ Swapping)
  /\ IF url.page # current.page THEN runPageTransition(transition)
     ELSE IF url.subpage # current.subpage THEN runSubpageTransition(url)
     ELSE UNCHANGED <<hidden, runs, transitionDone>>
  /\ UNCHANGED <<current, templates, rendered, active, header, loaded, stuck>>

navigate(url, transition) ==
  /\ navigations < MaxNavigations
  /\ navigations' = navigations + 1
  /\ start' = current
  /\ end' = url
  /\ swapped' = (swapped \/ Swapping)
  /\ IF url.page # current.page THEN runPageTransition(transition)
     ELSE IF url.subpage # current.subpage THEN runSubpageTransition(url)
     ELSE UNCHANGED <<hidden, runs, transitionDone>>
  /\ UNCHANGED <<current, templates, rendered, active, header, loaded, stuck>>

(* A click on a link with data-ajax-link.                                   *)
onClick(link) ==
  /\ navigate(link.url, link.transition)
  /\ UNCHANGED history

(* The back and the forward button: the address bar has changed already.    *)
PopState(at) ==
  /\ at \in 1 .. Len(history.entries) /\ at # history.at
  /\ history' = [history EXCEPT !.at = at]
  /\ navigate(history.entries[at], "slide")

(***************************************************************************)
(* The steps of a transition                                               *)
(***************************************************************************)
Becomes(r, next) == runs' = (runs \ {r}) \cup {next}

(* The exit sequence has finished: the unload handler of the page that the  *)
(* transition leaves, and the import of the page that state.end names now.  *)
importPage(r) ==
  /\ r.kind = "page" /\ r.phase = "exit"
  /\ loaded' = loaded \ {r.page}
  /\ Becomes(r, [r EXCEPT !.phase = "import", !.page = end.page])
  /\ UNCHANGED <<history, state, templates, rendered, active, header, hidden,
                 transitionDone, stuck, navigations, swapped>>

(* The promise of an import that does not load is never settled.            *)
ImportFails(r) ==
  /\ r.kind = "page" /\ r.phase = "import"
  /\ Cardinality(stuck) < MaxFailures
  /\ runs' = runs \ {r}
  /\ stuck' = stuck \cup {r}
  /\ UNCHANGED <<history, state, view, transitionDone, navigations, swapped>>

(* Content is stamped again only when the reference changes; stylesheets    *)
(* hide what has not been slid in.                                          *)
renderTemplates(page) ==
  IF page \in templates' /\ page # rendered.page
  THEN /\ rendered' = [page |-> page, stamp |-> rendered.stamp + 1]
       /\ active' = SectionOf[DefaultSubpage[page]]
       /\ hidden' = (hidden \ Sections) \cup {SectionOf[s] : s \in Subpages[page]}
  ELSE UNCHANGED <<rendered, active, hidden>>

(* The import has loaded: the load handler and the templates are those of   *)
(* the page that state.end names now, the new templates those of the import.*)
ImportLoads(r) ==
  /\ r.kind = "page" /\ r.phase = "import"
  /\ templates' = templates \cup {r.page}
  /\ loaded' = loaded \cup {end.page}
  /\ renderTemplates(end.page)
  /\ Becomes(r, [r EXCEPT !.phase = "render"])
  /\ UNCHANGED <<history, state, header, transitionDone, stuck, navigations,
                 swapped>>

(* A frame later the references have settled: the state, the UI, and the    *)
(* entry sequence begins.                                                   *)
EnterPage(r) ==
  /\ r.kind = "page" /\ r.phase = "render"
  /\ UpdateUI(end)
  /\ hidden' = pageEnterTransitions(r.transition, active')
  /\ Becomes(r, [r EXCEPT !.phase = "enter"])
  /\ UNCHANGED <<start, end, templates, rendered, loaded, transitionDone, stuck,
                 navigations, swapped>>

(* MUTANT: nothing happens if the content has been stamped again.           *)
EnterSubpage_SameContent(r) ==
  /\ r.kind = "subpage" /\ r.phase = "exit"
  /\ r.stamp = rendered.stamp
  /\ UpdateUI(end)
  /\ hidden' = playSectionSlideIn(r.section)
  /\ Becomes(r, [r EXCEPT !.phase = "enter"])
  /\ UNCHANGED <<start, end, templates, rendered, loaded, transitionDone, stuck,
                 navigations, swapped>>

(* The old subpage has slid out; the new one is the one found at the start. *)
EnterSubpage(r) ==
  /\ r.kind = "subpage" /\ r.phase = "exit"
  /\ UpdateUI(end)
  /\ hidden' = IF r.stamp = rendered.stamp THEN playSectionSlideIn(r.section)
               ELSE hidden \ {"footer"}
  /\ Becomes(r, [r EXCEPT !.phase = "enter"])
  /\ UNCHANGED <<start, end, templates, rendered, loaded, transitionDone, stuck,
                 navigations, swapped>>

(* updateElements: the logo's animation has finished, the page that the     *)
(* browser has loaded is shown, at the subpage its URL asks for.            *)
FirstRender(r) ==
  LET section == SectionOf[Location.subpage]
      found   == section \in ContentSections
  IN  /\ r.kind = "first" /\ r.phase = "exit"
      /\ active' = IF found THEN section ELSE active
      /\ hidden' = hidden \ pageFirstRender(IF found THEN section ELSE None, active)
      /\ Becomes(r, [r EXCEPT !.phase = "enter"])
      /\ UNCHANGED <<history, state, templates, rendered, header, loaded,
                     transitionDone, stuck, navigations, swapped>>

(* page-transition-done, for the transitions that say so.                   *)
Done(r) ==
  /\ r.phase = "enter"
  /\ runs' = runs \ {r}
  /\ transitionDone' = (r.kind # "subpage" \/ transitionDone)
  /\ UNCHANGED <<history, state, view, stuck, navigations, swapped>>

-----------------------------------------------------------------------------
FirstRun == [kind |-> "first", phase |-> "exit", transition |-> "slide",
             page |-> First, section |-> SectionOf[DefaultSubpage[First]],
             stamp |-> 0, id |-> 0]

Init ==
  /\ \E s \in Subpages[First] :
       /\ history = [entries |-> <<Url(First, s)>>, at |-> 1]
       /\ start = Url(First, s) /\ current = start /\ end = start
  /\ templates = {First}
  /\ rendered = [page |-> First, stamp |-> 0]
  /\ active = SectionOf[DefaultSubpage[First]]
  /\ header = First
  /\ hidden = {SectionOf[s] : s \in Subpages[First]} \cup {"meta", "ripple"}
  /\ loaded = {First}
  /\ transitionDone = FALSE
  /\ runs = {FirstRun}
  /\ stuck = {}
  /\ navigations = 0
  /\ swapped = FALSE

Navigate == \/ \E link \in Links : onClick(link)
            \/ \E i \in 1 .. Len(history.entries) : PopState(i)

Proceed(r) == \/ importPage(r) \/ ImportLoads(r) \/ ImportFails(r)
              \/ EnterPage(r) \/ EnterSubpage(r) \/ FirstRender(r) \/ Done(r)

Next == Navigate \/ \E r \in runs : Proceed(r)

(* Animations finish, and imports load or fail.                             *)
Spec == Init /\ [][Next]_vars /\ WF_vars(\E r \in runs : Proceed(r))

-----------------------------------------------------------------------------
TypeOK ==
  /\ history \in [entries : Seq(Urls), at : Nat]
  /\ history.at \in 1 .. Len(history.entries)
  /\ {start, current, end} \subseteq Urls
  /\ templates \cup loaded \cup {header} \subseteq Pages
  /\ rendered \in [page : Pages, stamp : Nat]
  /\ active \in Sections
  /\ hidden \subseteq Sections \cup Frame
  /\ {transitionDone, swapped} \subseteq BOOLEAN
  /\ runs \cup stuck \subseteq
       [kind : {"first", "page", "subpage"},
        phase : {"exit", "import", "render", "enter"},
        transition : Transitions, page : Pages, section : Sections,
        stamp : Nat, id : Nat]
  /\ navigations \in Nat

Pending == {r \in runs : r.kind # "first" /\ r.phase # "enter"}

(* Whatever the user clicks while pages are changing, the router ends where *)
(* the last navigation went: unless a transition that will set it is still  *)
(* to come (or has died with its import), the page of the router's state    *)
(* is the last one asked for and the one in the address bar.  The title,    *)
(* the body and the masthead, which updateUIstate leaves alone when         *)
(* state.start has the same page, are never those of another page.          *)
PageConverges ==
  /\ header = current.page
  /\ Pending \cup stuck = {} => current.page = end.page /\ current.page = Location.page

(* When no transition is in flight, none has died and no navigation has     *)
(* fallen into one of the moments of Swapping, the content is the page of   *)
(* the URL at its subpage, nothing that an exit sequence has hidden has     *)
(* stayed hidden, only that page's handlers are in force and the tabs can   *)
(* be used.                                                                 *)
AtRest ==
  runs = {} /\ stuck = {} /\ ~swapped =>
    /\ current = Location
    /\ rendered.page = current.page
    /\ active = SectionOf[current.subpage]
    /\ hidden \cap ({active} \cup Frame) = {"ripple"}
    /\ loaded = {current.page}
    /\ transitionDone

(* A transition always comes to an end, or its import never loads.          *)
TransitionsEnd == \A n \in 0 .. MaxNavigations :
  (\E r \in runs : r.id = n) ~> ~(\E r \in runs : r.id = n)
===============================================================================
