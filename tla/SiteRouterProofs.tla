--------------------------- MODULE SiteRouterProofs ---------------------------
(***************************************************************************)
(* Proofs about SiteRouter, for any pages, links and number of clicks: the *)
(* router ends where the last navigation went, and the page is in order    *)
(* when nothing runs, unless a navigation fell into one of the moments of  *)
(* Swapping.                                                               *)
(***************************************************************************)
EXTENDS SiteRouter, TLAPS

(***************************************************************************)
(* The state of the router.  Whoever asks for another page starts a        *)
(* transition, and the last one that is pending sets the state to end.     *)
(***************************************************************************)
StateInv ==
  /\ \A r \in runs : r.kind # "page" => r.phase \in {"exit", "enter"}
  /\ current \in {start, end}
  /\ header = current.page
  /\ Pending \cup stuck = {} =>
       current.page = end.page /\ current.page = Location.page

-----------------------------------------------------------------------------
(* The page at rest: what is not in order yet is left to a transition       *)

PageRuns(phase) == {r \in runs : r.kind = "page" /\ r.phase = phase}

(* The logo's animation still plays.                                        *)
FirstWaits == \E r \in runs : r.kind = "first" /\ r.phase = "exit"

(* Without a pending transition there is nowhere else to go.                *)
Settled == Pending = {} => current = end /\ end = Location

(* A load handler in force is that of end's page, which the state has or is *)
(* about to have, or it is to be unloaded; and the one of end's page will   *)
(* be loaded.                                                               *)
HandlersInv ==
  /\ \A p \in loaded :
       \/ \E r \in PageRuns("exit") : r.page = p
       \/ p = end.page /\ (current.page = p \/ PageRuns("render") # {})
  /\ \/ end.page \in loaded
     \/ PageRuns("exit") \cup PageRuns("import") # {}

(* The content is end's page, unless an import is to come that has its      *)
(* templates, or has any and finds them in the document.                    *)
ContentInv ==
  \/ rendered.page = end.page
  \/ PageRuns("exit") # {}
  \/ \E r \in PageRuns("import") : r.page = end.page \/ end.page \in templates

(* A subpage that slides out does so for the one that end names, in the     *)
(* content there is.                                                        *)
SubpageInv ==
  \A r \in runs : r.kind = "subpage" /\ r.phase = "exit" =>
    /\ current.page = end.page /\ rendered.page = end.page
    /\ r.stamp = rendered.stamp /\ r.section = SectionOf[end.subpage]

SectionInv ==
  Pending = {} /\ ~FirstWaits =>
    active = SectionOf[current.subpage] /\ active \notin hidden

(* What the entry sequence of a transition brings back.                     *)
Brings(r) ==
  IF r.kind = "subpage" THEN {"footer"}
  ELSE {"meta", "corner", "footer"}
         \cup (IF r.transition = "hero" THEN {"nav"} ELSE {})

(* What is hidden has somebody who brings it back, and the ink somebody who *)
(* takes it away.                                                           *)
FrameInv ==
  /\ \A x \in hidden \cap (Frame \ {"ripple"}) :
       \/ x = "meta" /\ FirstWaits
       \/ \E r \in Pending : x \in Brings(r)
  /\ \/ "ripple" \in hidden
     \/ \E r \in Pending : r.kind = "page" /\ r.transition # "hero"

TabsInv == transitionDone \/ \E r \in runs : r.kind # "subpage"

Undisturbed == ~swapped /\ stuck = {}

Orderly == /\ Settled /\ HandlersInv /\ ContentInv /\ SubpageInv
           /\ SectionInv /\ FrameInv /\ TabsInv

Inv == TypeOK /\ StateInv /\ (Undisturbed => Orderly)

-----------------------------------------------------------------------------
(* Types                                                                    *)

RunType == [kind : {"first", "page", "subpage"},
            phase : {"exit", "import", "render", "enter"},
            transition : Transitions, page : Pages, section : Sections,
            stamp : Nat, id : Nat]

(* A URL has a page, one of its subpages, and so a section.                 *)
LEMMA UrlType ==
  ASSUME NEW u \in Urls
  PROVE  /\ u.page \in Pages /\ u.subpage \in SubpageNames
         /\ u.subpage \in Subpages[u.page]
         /\ SectionOf[u.subpage] \in Sections
BY DEF Urls, Sections

LEMMA DefaultType ==
  ASSUME NEW p \in Pages
  PROVE  /\ DefaultSubpage[p] \in Subpages[p]
         /\ SectionOf[DefaultSubpage[p]] \in Sections
         /\ {SectionOf[s] : s \in Subpages[p]} \subseteq Sections
BY SiteAssumption DEF Sections, SubpageNames

(* What TypeOK says of the parts that the steps read.                       *)
LEMMA Parts ==
  ASSUME TypeOK
  PROVE  /\ {start, current, end, Location} \subseteq Urls
         /\ rendered \in [page : Pages, stamp : Nat]
         /\ runs \cup stuck \subseteq RunType
         /\ \A i \in 1 .. Len(history.entries) : history.entries[i] \in Urls
         /\ active \in Sections /\ ContentSections \subseteq Sections
<1>1. rendered \in [page : Pages, stamp : Nat] /\ rendered.page \in Pages
  BY DEF TypeOK
<1>2. ContentSections \subseteq Sections
  BY <1>1, DefaultType DEF ContentSections
<1>3. \A i \in 1 .. Len(history.entries) : history.entries[i] \in Urls
  BY DEF TypeOK
<1> QED  BY <1>1, <1>2, <1>3 DEF TypeOK, RunType, Location

(* The history has a new entry, after the one that is shown, or not.        *)
LEMMA UpdateType ==
  ASSUME TypeOK, NEW new \in Urls, UpdateUI(new)
  PROVE  /\ history' \in [entries : Seq(Urls), at : Nat]
         /\ history'.at \in 1 .. Len(history'.entries)
         /\ Location' = new
         /\ current' = new /\ header' \in Pages /\ active' \in Sections
<1>1. current' = new /\ header' \in Pages /\ active' \in Sections
  BY UrlType DEF UpdateUI, TypeOK
<1>2. CASE new = Location
  BY <1>1, <1>2 DEF UpdateUI, TypeOK, Location
<1>3. CASE new # Location
  <2> DEFINE old == SubSeq(history.entries, 1, history.at)
  <2>1. /\ history.entries \in Seq(Urls) /\ history.at \in Nat
        /\ history.at \in 1 .. Len(history.entries)
    BY DEF TypeOK
  <2>2. old \in Seq(Urls) /\ Len(old) = history.at
    BY <2>1
  <2>3. history' = [entries |-> Append(old, new), at |-> history.at + 1]
    BY <1>3 DEF UpdateUI
  <2>4. /\ Append(old, new) \in Seq(Urls)
        /\ Len(Append(old, new)) = history.at + 1
        /\ Append(old, new)[history.at + 1] = new
    BY <2>1, <2>2
  <2> QED  BY <1>1, <2>1, <2>3, <2>4 DEF Location
<1> QED  BY <1>2, <1>3

LEMMA TypeInit == Init => TypeOK
<1> SUFFICES ASSUME Init PROVE TypeOK
  OBVIOUS
<1>1. PICK s \in Subpages[First] :
        /\ history = [entries |-> <<Url(First, s)>>, at |-> 1]
        /\ start = Url(First, s) /\ current = start /\ end = start
  BY DEF Init
<1>2. First \in Pages /\ s \in SubpageNames
  BY SiteAssumption DEF SubpageNames
<1>3. Url(First, s) \in Urls
  BY <1>2 DEF Url, Urls
<1>4. FirstRun \in RunType
  BY <1>2, DefaultType DEF FirstRun, RunType, Transitions
<1>5. /\ SectionOf[DefaultSubpage[First]] \in Sections
      /\ {SectionOf[x] : x \in Subpages[First]} \subseteq Sections
  BY <1>2, DefaultType
<1>6. /\ history \in [entries : Seq(Urls), at : Nat]
      /\ history.at \in 1 .. Len(history.entries)
  BY <1>1, <1>3
<1> QED
  BY <1>1, <1>2, <1>3, <1>4, <1>5, <1>6 DEF Init, TypeOK, RunType, Frame

(* A new transition.                                                        *)
LEMMA RunsType ==
  ASSUME TypeOK, NEW kind \in {"page", "subpage"},
         NEW transition \in Transitions, NEW section \in Sections
  PROVE  Run(kind, transition, section) \in RunType
BY UrlType DEF TypeOK, Run, RunType

(* What an animation hides or shows are sections and parts of the frame.    *)
LEMMA HiddenType ==
  ASSUME TypeOK, NEW x \in Sections, NEW transition \in Transitions
  PROVE  /\ pageExitTransitions(transition, x) \subseteq Sections \cup Frame
         /\ pageEnterTransitions(transition, x) \subseteq Sections \cup Frame
         /\ playSectionSlideOut(x) \subseteq Sections \cup Frame
         /\ playSectionSlideIn(x) \subseteq Sections \cup Frame
BY DEF TypeOK, Transitions, Frame, pageExitTransitions, pageEnterTransitions,
       playPageSlideOut, playPageSlideIn, playSectionSlideOut,
       playSectionSlideIn, playMastheadRippleTransition,
       playHeroTransitionStart,
       playHeroTransitionEnd, sectionSlideOut, contentSlideOut, navSlideOut,
       pageCardTakeoverOut

LEMMA NavigateType ==
  ASSUME TypeOK, NEW url \in Urls, NEW transition \in Transitions,
         navigate(url, transition),
         history' \in [entries : Seq(Urls), at : Nat],
         history'.at \in 1 .. Len(history'.entries)
  PROVE  TypeOK'
<1>0. /\ {start, current, end}' \subseteq Urls /\ swapped' \in BOOLEAN
      /\ navigations' \in Nat
      /\ UNCHANGED <<templates, rendered, active, header, loaded, stuck>>
  BY DEF navigate, TypeOK
<1>1. CASE url.page # current.page
  <2>1. /\ transitionDone' = FALSE
        /\ hidden' = pageExitTransitions(transition, active)
        /\ runs' = runs \cup {Run("page", transition, active)}
    BY <1>1 DEF navigate, runPageTransition
  <2>2. /\ Run("page", transition, active) \in RunType
        /\ hidden' \subseteq Sections \cup Frame
    BY <2>1, RunsType, HiddenType DEF TypeOK
  <2>3. runs' \cup stuck \subseteq RunType
    BY <2>1, <2>2, Parts
  <2> QED  BY <1>0, <2>1, <2>2, <2>3 DEF TypeOK, RunType
<1>2. CASE runSubpageTransition(url)
  <2>1. /\ SectionOf[current.subpage] \in Sections
        /\ SectionOf[url.subpage] \in Sections
    BY Parts, UrlType
  <2>2. /\ Run("subpage", "slide", SectionOf[url.subpage]) \in RunType
        /\ playSectionSlideOut(SectionOf[current.subpage])
              \subseteq Sections \cup Frame
    BY <2>1, RunsType, HiddenType DEF Transitions
  <2>3. /\ runs' \cup stuck \subseteq RunType
        /\ hidden' \subseteq Sections \cup Frame
    BY <1>2, <2>2 DEF runSubpageTransition, TypeOK, RunType
  <2>4. transitionDone' = transitionDone
    BY <1>2 DEF runSubpageTransition
  <2> QED  BY <1>0, <2>3, <2>4 DEF TypeOK, RunType
<1>3. CASE UNCHANGED <<hidden, runs, transitionDone>>
  BY <1>0, <1>3 DEF TypeOK
<1> QED  BY <1>1, <1>2, <1>3 DEF navigate

LEMMA TypeNext == TypeOK /\ [Next]_vars => TypeOK'
<1> SUFFICES ASSUME TypeOK, [Next]_vars PROVE TypeOK'
  OBVIOUS
<1>1. ASSUME NEW link \in Links, onClick(link) PROVE TypeOK'
  <2>1. link.url \in Urls /\ link.transition \in Transitions
    BY SiteAssumption
  <2> QED  BY <1>1, <2>1, NavigateType DEF onClick, TypeOK
<1>2. ASSUME NEW i \in 1 .. Len(history.entries), PopState(i) PROVE TypeOK'
  <2>1. history.entries[i] \in Urls /\ "slide" \in Transitions
    BY Parts DEF Transitions
  <2>2. /\ history' \in [entries : Seq(Urls), at : Nat]
        /\ history'.at \in 1 .. Len(history'.entries)
    BY <1>2 DEF PopState, TypeOK
  <2> QED  BY <1>2, <2>1, <2>2, NavigateType DEF PopState
<1>3. ASSUME NEW r \in runs, Proceed(r) PROVE TypeOK'
  <2>0. r \in RunType /\ end \in Urls /\ end.page \in Pages
    BY Parts, UrlType
  <2>1. ASSUME NEW new \in RunType, Becomes(r, new), stuck' = stuck
        PROVE  (runs \cup stuck)' \subseteq RunType
    BY <2>1, Parts DEF Becomes
  <2>2. \A ph \in {"exit", "import", "render", "enter"}, p \in Pages :
          /\ [r EXCEPT !.phase = ph] \in RunType
          /\ [r EXCEPT !.phase = ph, !.page = p] \in RunType
    BY <2>0 DEF RunType
  <2>3. CASE importPage(r)
    <3>1. (runs \cup stuck)' \subseteq RunType
      BY <2>0, <2>1, <2>2, <2>3 DEF importPage
    <3> QED  BY <2>3, <3>1 DEF importPage, TypeOK, state, RunType
  <2>4. CASE ImportFails(r)
    <3>1. (runs \cup stuck)' \subseteq RunType
      BY <2>0, <2>4, Parts DEF ImportFails
    <3> QED  BY <2>4, <3>1 DEF ImportFails, TypeOK, state, view, RunType
  <2>5. CASE ImportLoads(r)
    <3>1. (runs \cup stuck)' \subseteq RunType
      BY <2>0, <2>1, <2>2, <2>5 DEF ImportLoads
    <3>2. /\ rendered' \in [page : Pages, stamp : Nat] /\ active' \in Sections
          /\ hidden' \subseteq Sections \cup Frame
      BY <2>0, <2>5, DefaultType DEF ImportLoads, renderTemplates, TypeOK
    <3>3. r.page \in Pages
      BY <2>0 DEF RunType
    <3> QED
      BY <2>0, <2>5, <3>1, <3>2, <3>3 DEF ImportLoads, TypeOK, state, RunType
  <2>6. CASE EnterPage(r)
    <3>1. (runs \cup stuck)' \subseteq RunType
      BY <2>0, <2>1, <2>2, <2>6 DEF EnterPage
    <3>2. /\ history' \in [entries : Seq(Urls), at : Nat]
          /\ history'.at \in 1 .. Len(history'.entries)
          /\ current' = end /\ header' \in Pages /\ active' \in Sections
      BY <2>0, <2>6, UpdateType DEF EnterPage
    <3>3. hidden' \subseteq Sections \cup Frame
      BY <2>0, <2>6, <3>2, HiddenType DEF EnterPage, RunType
    <3> QED  BY <2>0, <2>6, <3>1, <3>2, <3>3 DEF EnterPage, TypeOK, RunType
  <2>7. CASE EnterSubpage(r)
    <3>1. (runs \cup stuck)' \subseteq RunType
      BY <2>0, <2>1, <2>2, <2>7 DEF EnterSubpage
    <3>2. /\ history' \in [entries : Seq(Urls), at : Nat]
          /\ history'.at \in 1 .. Len(history'.entries)
          /\ current' = end /\ header' \in Pages /\ active' \in Sections
      BY <2>0, <2>7, UpdateType DEF EnterSubpage
    <3>3. hidden' \subseteq Sections \cup Frame
      BY <2>7 DEF EnterSubpage, playSectionSlideIn, TypeOK
    <3> QED  BY <2>0, <2>7, <3>1, <3>2, <3>3 DEF EnterSubpage, TypeOK, RunType
  <2>8. CASE FirstRender(r)
    <3>1. (runs \cup stuck)' \subseteq RunType
      BY <2>0, <2>1, <2>2, <2>8 DEF FirstRender
    <3>2. active' \in Sections /\ hidden' \subseteq Sections \cup Frame
      BY <2>8, Parts, UrlType DEF FirstRender, TypeOK
    <3> QED  BY <2>8, <3>1, <3>2 DEF FirstRender, TypeOK, state, RunType
  <2>9. CASE Done(r)
    BY <2>9 DEF Done, TypeOK, state, view
  <2> QED
    BY <1>3, <2>3, <2>4, <2>5, <2>6, <2>7, <2>8, <2>9 DEF Proceed
<1>4. CASE UNCHANGED vars
  BY <1>4 DEF vars, state, view, TypeOK
<1> QED  BY <1>1, <1>2, <1>3, <1>4 DEF Next, Navigate

-----------------------------------------------------------------------------
(* The state of the router                                                  *)

(* A navigation asks for a page that the state has, or starts a transition. *)
LEMMA NavigateState ==
  ASSUME TypeOK, StateInv, NEW url \in Urls, NEW transition \in Transitions,
         navigate(url, transition), Location' \in {Location, url}
  PROVE  StateInv'
<1>1. /\ start' = current /\ end' = url
      /\ UNCHANGED <<current, header, stuck>>
  BY DEF navigate
<1>2. CASE url.page # current.page
  <2>1. runs' = runs \cup {Run("page", transition, active)}
    BY <1>2 DEF navigate, runPageTransition
  <2>2. Run("page", transition, active) \in Pending'
    BY <2>1 DEF Pending, Run
  <2> QED  BY <1>1, <2>1, <2>2 DEF StateInv, Run
<1>3. CASE url.page = current.page
  <2>1. \/ runs' = runs
        \/ \E x : runs' = runs \cup {Run("subpage", "slide", x)}
    BY <1>3 DEF navigate, runSubpageTransition
  <2>2. Pending \subseteq Pending'
    BY <2>1 DEF Pending
  <2>3. \A r \in runs' : r.kind # "page" => r.phase \in {"exit", "enter"}
    BY <2>1 DEF StateInv, Run
  <2> QED  BY <1>1, <1>3, <2>2, <2>3 DEF StateInv
<1> QED  BY <1>2, <1>3

(* A transition that enters sets the state to end, and the title with it.   *)
LEMMA EnterState ==
  ASSUME TypeOK, StateInv, NEW r \in runs, EnterPage(r) \/ EnterSubpage(r)
  PROVE  StateInv'
<1>1. UpdateUI(end) /\ UNCHANGED <<start, end, stuck>>
  BY DEF EnterPage, EnterSubpage
<1>2. current' = end /\ Location' = end
  BY <1>1, Parts, UpdateType
<1>3. header' = end.page
  BY <1>1 DEF UpdateUI, StateInv
<1>4. \A q \in runs' : q.kind # "page" => q.phase \in {"exit", "enter"}
  <2>1. runs' = (runs \ {r}) \cup {[r EXCEPT !.phase = "enter"]}
    BY DEF EnterPage, EnterSubpage, Becomes
  <2>2. [r EXCEPT !.phase = "enter"].phase = "enter"
    BY Parts DEF RunType
  <2> QED  BY <2>1, <2>2 DEF StateInv
<1> QED  BY <1>1, <1>2, <1>3, <1>4 DEF StateInv

(* Other steps leave the state alone, and one that was to set it still is,  *)
(* or it has died.                                                          *)
LEMMA QuietState ==
  ASSUME StateInv, UNCHANGED <<history, start, current, end, header>>,
         \A r \in runs' : r.kind # "page" => r.phase \in {"exit", "enter"},
         (Pending \cup stuck)' = {} => Pending \cup stuck = {}
  PROVE  StateInv'
BY DEF StateInv, Location

(* What a transition becomes is still pending, or has not been.             *)
LEMMA NextRun ==
  ASSUME NEW r \in RunType, NEW ph \in {"exit", "import", "render", "enter"},
         NEW p \in Pages
  PROVE  /\ LET new == [r EXCEPT !.phase = ph]
            IN  /\ new.kind = r.kind /\ new.phase = ph /\ new.page = r.page
                /\ new.transition = r.transition /\ new.stamp = r.stamp
                /\ new.section = r.section
         /\ LET new == [r EXCEPT !.phase = ph, !.page = p]
            IN  /\ new.kind = r.kind /\ new.phase = ph /\ new.page = p
                /\ new.transition = r.transition
BY DEF RunType

LEMMA StateNext == TypeOK /\ StateInv /\ [Next]_vars => StateInv'
<1> SUFFICES ASSUME TypeOK, StateInv, [Next]_vars PROVE StateInv'
  OBVIOUS
<1>1. ASSUME NEW link \in Links, onClick(link) PROVE StateInv'
  <2>1. link.url \in Urls /\ link.transition \in Transitions
    BY SiteAssumption
  <2>2. Location' = Location
    BY <1>1 DEF onClick, Location
  <2> QED  BY <1>1, <2>1, <2>2, NavigateState DEF onClick
<1>2. ASSUME NEW i \in 1 .. Len(history.entries), PopState(i) PROVE StateInv'
  <2>1. history.entries[i] \in Urls /\ "slide" \in Transitions
    BY Parts DEF Transitions
  <2>2. Location' = history.entries[i]
    BY <1>2 DEF PopState, Location, TypeOK
  <2> QED  BY <1>2, <2>1, <2>2, NavigateState DEF PopState
<1>3. ASSUME NEW r \in runs, Proceed(r) PROVE StateInv'
  <2>0. r \in RunType /\ end.page \in Pages
    BY Parts, UrlType
  <2>1. CASE importPage(r)
    <3> DEFINE new == [r EXCEPT !.phase = "import", !.page = end.page]
    <3>1. new.kind = "page" /\ new.phase = "import"
      BY <2>0, <2>1, NextRun DEF importPage
    <3>2. runs' = (runs \ {r}) \cup {new}
      BY <2>1 DEF importPage, Becomes
    <3> HIDE DEF new
    <3>3. new \in Pending'
      BY <3>1, <3>2 DEF Pending
    <3>4. \A q \in runs' : q.kind # "page" => q.phase \in {"exit", "enter"}
      BY <3>1, <3>2 DEF StateInv
    <3> QED  BY <2>1, <3>3, <3>4, QuietState DEF importPage, state
  <2>2. CASE ImportFails(r)
    BY <2>2, QuietState DEF ImportFails, state, view, StateInv
  <2>3. CASE ImportLoads(r)
    <3> DEFINE new == [r EXCEPT !.phase = "render"]
    <3>1. new.kind = "page" /\ new.phase = "render"
      BY <2>0, <2>3, NextRun DEF ImportLoads
    <3>2. runs' = (runs \ {r}) \cup {new}
      BY <2>3 DEF ImportLoads, Becomes
    <3> HIDE DEF new
    <3>3. new \in Pending'
      BY <3>1, <3>2 DEF Pending
    <3>4. \A q \in runs' : q.kind # "page" => q.phase \in {"exit", "enter"}
      BY <3>1, <3>2 DEF StateInv
    <3> QED  BY <2>3, <3>3, <3>4, QuietState DEF ImportLoads, state
  <2>4. CASE EnterPage(r) \/ EnterSubpage(r)
    BY <2>4, EnterState
  <2>5. CASE FirstRender(r)
    <3> DEFINE new == [r EXCEPT !.phase = "enter"]
    <3>1. new.kind = "first" /\ new.phase = "enter"
      BY <2>0, <2>5, NextRun DEF FirstRender
    <3>2. runs' = (runs \ {r}) \cup {new} /\ r.kind = "first"
      BY <2>5 DEF FirstRender, Becomes
    <3> HIDE DEF new
    <3>3. Pending \subseteq Pending'
      BY <3>2 DEF Pending
    <3>4. \A q \in runs' : q.kind # "page" => q.phase \in {"exit", "enter"}
      BY <3>1, <3>2 DEF StateInv
    <3> QED  BY <2>5, <3>3, <3>4, QuietState DEF FirstRender, state
  <2>6. CASE Done(r)
    <3>1. Pending \subseteq Pending'
      BY <2>6 DEF Done, Pending
    <3> QED  BY <2>6, <3>1, QuietState DEF Done, state, view, StateInv
  <2> QED  BY <1>3, <2>1, <2>2, <2>3, <2>4, <2>5, <2>6 DEF Proceed
<1>4. CASE UNCHANGED vars
  BY <1>4, QuietState DEF vars, state, view, StateInv, Pending
<1> QED  BY <1>1, <1>2, <1>3, <1>4 DEF Next, Navigate

-----------------------------------------------------------------------------
(* The page at rest: navigation                                             *)

(* Without a page or a subpage under way nothing is pending.                *)
LEMMA NothingPending ==
  ASSUME TypeOK, StateInv,
         PageRuns("exit") \cup PageRuns("import") \cup PageRuns("render") = {},
         \A r \in runs : ~(r.kind = "subpage" /\ r.phase = "exit")
  PROVE  Pending = {}
<1> SUFFICES ASSUME NEW r \in Pending PROVE FALSE
  OBVIOUS
<1>1. r \in runs /\ r \in RunType /\ r.kind # "first" /\ r.phase # "enter"
  BY Parts DEF Pending
<1> QED  BY <1>1 DEF StateInv, PageRuns, RunType

(* What each exit sequence hides, its own entry sequence brings back.       *)
LEMMA ExitBrings ==
  ASSUME TypeOK, NEW transition \in Transitions, NEW r,
         r.kind = "page", r.transition = transition
  PROVE  /\ \A x \in Frame \ {"ripple"} :
              x \in pageExitTransitions(transition, active) =>
                x \in hidden \/ x \in Brings(r)
         /\ \/ transition # "hero"
            \/ "ripple" \in pageExitTransitions(transition, active)
BY SiteAssumption
   DEF TypeOK, Transitions, Frame, Brings, pageExitTransitions,
       playPageSlideOut, playMastheadRippleTransition, playHeroTransitionStart,
       sectionSlideOut, contentSlideOut, navSlideOut, pageCardTakeoverOut

(* A click leaves to the transition it starts what it brings into disorder. *)
LEMMA NavigateOrderly ==
  ASSUME TypeOK, StateInv, Orderly, Undisturbed',
         NEW url \in Urls, NEW transition \in Transitions,
         navigate(url, transition), Location' \in {Location, url}
  PROVE  Orderly'
<1>1. /\ ~swapped /\ ~Swapping
      /\ end' = url
      /\ UNCHANGED <<current, rendered, templates, active, loaded, stuck>>
  BY DEF navigate, Undisturbed
<1>2. /\ rendered.page = current.page
      /\ \A r \in runs : ~(r.kind = "subpage" /\ r.phase = "exit")
      /\ PageRuns("render") = {}
  BY <1>1 DEF Swapping, PageRuns
<1>3. ASSUME runs \subseteq runs'
      PROVE  /\ Pending \subseteq Pending'
             /\ \A ph : PageRuns(ph) \subseteq PageRuns(ph)'
             /\ FirstWaits => FirstWaits'
             /\ TabsInv /\ transitionDone' = transitionDone => TabsInv'
  BY <1>3 DEF Pending, PageRuns, FirstWaits, TabsInv
<1>4. CASE url.page # current.page
  <2> DEFINE new == Run("page", transition, active)
  <2>1. /\ runs' = runs \cup {new}
        /\ hidden' = pageExitTransitions(transition, active)
    BY <1>4 DEF navigate, runPageTransition
  <2>2. /\ new.kind = "page" /\ new.phase = "exit"
        /\ new.page = current.page /\ new.transition = transition
    BY DEF Run
  <2> HIDE DEF new
  <2>3. new \in Pending' /\ new \in PageRuns("exit")' /\ new \in runs'
    BY <2>1, <2>2 DEF Pending, PageRuns
  <2>4. Settled' /\ SectionInv'
    BY <2>3 DEF Settled, SectionInv
  <2>5. HandlersInv'
    BY <1>1, <1>2, <1>3, <2>1, <2>2, <2>3 DEF Orderly, HandlersInv
  <2>6. ContentInv' /\ TabsInv'
    BY <2>2, <2>3 DEF ContentInv, TabsInv
  <2>7. SubpageInv'
    BY <1>2, <2>1, <2>2 DEF SubpageInv
  <2>8. FrameInv'
    <3>1. ASSUME NEW x \in hidden' \cap (Frame \ {"ripple"})
          PROVE  \/ x = "meta" /\ FirstWaits'
                 \/ \E r \in Pending' : x \in Brings(r)
      <4>1. x \in hidden \/ x \in Brings(new)
        BY <2>1, <2>2, ExitBrings
      <4> QED  BY <1>3, <2>1, <2>3, <4>1 DEF Orderly, FrameInv
    <3>2. \/ "ripple" \in hidden'
          \/ \E r \in Pending' : r.kind = "page" /\ r.transition # "hero"
      BY <2>1, <2>2, <2>3, ExitBrings
    <3> QED  BY <3>1, <3>2 DEF FrameInv
  <2> QED  BY <2>4, <2>5, <2>6, <2>7, <2>8 DEF Orderly
<1>5. ASSUME url.page = current.page
      PROVE  HandlersInv' \/ ~(runs \subseteq runs')
  <2> SUFFICES ASSUME runs \subseteq runs' PROVE HandlersInv'
    OBVIOUS
  <2>1. ASSUME PageRuns("exit") \cup PageRuns("import") = {}
        PROVE  end.page = current.page
    BY <1>2, <2>1, NothingPending DEF Orderly, Settled
  <2> QED  BY <1>1, <1>2, <1>3, <1>5, <2>1 DEF Orderly, HandlersInv
<1>6. CASE url.page = current.page /\ url.subpage # current.subpage
  <2> DEFINE old  == SectionOf[current.subpage]
             next == SectionOf[url.subpage]
             new  == Run("subpage", "slide", next)
  <2>1. {old, next} \subseteq ContentSections
    BY <1>2, <1>6, Parts, UrlType DEF ContentSections
  <2>2. /\ runs' = runs \cup {new} /\ hidden' = playSectionSlideOut(old)
        /\ transitionDone' = transitionDone
    BY <1>6, <2>1 DEF navigate, runSubpageTransition
  <2>3. /\ new.kind = "subpage" /\ new.phase = "exit"
        /\ new.section = next /\ new.stamp = rendered.stamp
    BY DEF Run
  <2>4. old \notin Frame
    BY <2>1, Parts, SiteAssumption
  <2> HIDE DEF new, old
  <2>5. new \in Pending'
    BY <2>2, <2>3 DEF Pending
  <2>6. Settled' /\ SectionInv'
    BY <2>5 DEF Settled, SectionInv
  <2>7. ContentInv'
    BY <1>1, <1>2, <1>6 DEF ContentInv
  <2>8. SubpageInv'
    BY <1>1, <1>2, <1>6, <2>2, <2>3 DEF SubpageInv
  <2>9. FrameInv'
    <3>1. hidden' = hidden \cup {old, "footer"}
      BY <2>2 DEF playSectionSlideOut, sectionSlideOut
    <3>2. "footer" \in Brings(new)
      BY <2>3 DEF Brings
    <3> QED  BY <1>3, <2>2, <2>4, <2>5, <3>1, <3>2 DEF Orderly, FrameInv
  <2> QED
    BY <1>3, <1>5, <1>6, <2>2, <2>6, <2>7, <2>8, <2>9 DEF Orderly
<1>7. CASE url.page = current.page /\ url.subpage = current.subpage
  <2>1. UNCHANGED <<runs, hidden, transitionDone>>
    BY <1>7 DEF navigate
  <2>2. url = current
    BY <1>7, Parts DEF Urls
  <2>3. Pending' = Pending /\ FirstWaits' = FirstWaits
    BY <2>1 DEF Pending, FirstWaits
  <2>4. Settled'
    BY <1>1, <2>2, <2>3 DEF Orderly, Settled
  <2>5. ContentInv' /\ SubpageInv'
    BY <1>1, <1>2, <1>7, <2>1 DEF ContentInv, SubpageInv
  <2>6. SectionInv' /\ FrameInv' /\ TabsInv'
    BY <1>1, <2>1, <2>3 DEF Orderly, SectionInv, FrameInv, TabsInv
  <2> QED  BY <1>5, <1>7, <2>1, <2>4, <2>5, <2>6 DEF Orderly
<1> QED  BY <1>4, <1>6, <1>7

-----------------------------------------------------------------------------
(* The page at rest: the steps of a transition                              *)

(* A step between exit and entry leaves the transition pending.             *)
LEMMA StillPending ==
  ASSUME NEW r \in runs, NEW new, r.kind = "page", r.phase # "enter",
         new.kind = "page", new.phase # "enter",
         new.transition = r.transition, Becomes(r, new)
  PROVE  /\ new \in Pending'
         /\ \A q \in Pending : q \in Pending' \/ q = r
         /\ \A x : (\E q \in Pending : x \in Brings(q)) =>
              \E q \in Pending' : x \in Brings(q)
         /\ (\E q \in Pending : q.kind = "page" /\ q.transition # "hero") =>
              \E q \in Pending' : q.kind = "page" /\ q.transition # "hero"
         /\ FirstWaits => FirstWaits'
         /\ TabsInv /\ transitionDone' = transitionDone => TabsInv'
         /\ \A q \in runs' : q.kind = "subpage" => q \in runs
         /\ \A ph : r.phase # ph => PageRuns(ph) \subseteq PageRuns(ph)'
         /\ new \in PageRuns(new.phase)'
<1>1. /\ runs' = (runs \ {r}) \cup {new}
      /\ Brings(new) = Brings(r)
  BY DEF Becomes, Brings
<1>2. new \in Pending' /\ \A q \in Pending : q \in Pending' \/ q = r
  BY <1>1 DEF Pending
<1>3. FirstWaits => FirstWaits'
  BY <1>1 DEF FirstWaits
<1>4. TabsInv /\ transitionDone' = transitionDone => TabsInv'
  BY <1>1 DEF TabsInv
<1>5. \A ph : r.phase # ph => PageRuns(ph) \subseteq PageRuns(ph)'
  BY <1>1 DEF PageRuns
<1>6. new \in PageRuns(new.phase)'
  BY <1>1 DEF PageRuns
<1> QED  BY <1>1, <1>2, <1>3, <1>4, <1>5, <1>6

LEMMA ImportOrderly ==
  ASSUME TypeOK, Orderly, NEW r \in runs, importPage(r)
  PROVE  Orderly'
<1> DEFINE new == [r EXCEPT !.phase = "import", !.page = end.page]
<1>1. /\ new.kind = "page" /\ new.phase = "import" /\ new.page = end.page
      /\ new.transition = r.transition
      /\ r.kind = "page" /\ r.phase = "exit"
  BY Parts, UrlType, NextRun DEF importPage
<1>2. /\ Becomes(r, new) /\ loaded' = loaded \ {r.page}
      /\ UNCHANGED <<history, start, current, end, templates, rendered, active,
                     hidden, transitionDone>>
  BY DEF importPage, state
<1> HIDE DEF new
<1>3. Settled' /\ SectionInv'
  BY <1>1, <1>2, StillPending DEF Settled, SectionInv
<1>4. HandlersInv'
  <2>1. new \in PageRuns("import")'
    BY <1>1, <1>2, StillPending
  <2>2. \A q \in PageRuns("exit") : q # r => q \in PageRuns("exit")'
    BY <1>2 DEF Becomes, PageRuns
  <2>3. PageRuns("render") \subseteq PageRuns("render")'
    BY <1>1, <1>2, StillPending
  <2> QED  BY <1>2, <2>1, <2>2, <2>3 DEF Orderly, HandlersInv
<1>5. ContentInv'
  BY <1>1, <1>2, StillPending DEF ContentInv
<1>6. SubpageInv'
  BY <1>1, <1>2, StillPending DEF Orderly, SubpageInv
<1>7. FrameInv' /\ TabsInv'
  BY <1>1, <1>2, StillPending DEF Orderly, FrameInv
<1> QED  BY <1>3, <1>4, <1>5, <1>6, <1>7 DEF Orderly

LEMMA LoadOrderly ==
  ASSUME TypeOK, Orderly, NEW r \in runs, ImportLoads(r)
  PROVE  Orderly'
<1> DEFINE new == [r EXCEPT !.phase = "render"]
<1>1. /\ new.kind = "page" /\ new.phase = "render"
      /\ new.transition = r.transition
      /\ r.kind = "page" /\ r.phase = "import"
  BY Parts, UrlType, NextRun DEF ImportLoads
<1>2. /\ Becomes(r, new) /\ loaded' = loaded \cup {end.page}
      /\ templates' = templates \cup {r.page} /\ renderTemplates(end.page)
      /\ UNCHANGED <<history, start, current, end, transitionDone>>
  BY DEF ImportLoads, state
<1> HIDE DEF new
<1>3. Settled' /\ SectionInv'
  BY <1>1, <1>2, StillPending DEF Settled, SectionInv
<1>4. HandlersInv'
  <2>1. new \in PageRuns("render")'
    BY <1>1, <1>2, StillPending
  <2>2. PageRuns("exit") \subseteq PageRuns("exit")'
    BY <1>1, <1>2, StillPending
  <2> QED  BY <1>2, <2>1, <2>2 DEF Orderly, HandlersInv
<1>5. ContentInv'
  <2>1. CASE end.page \in templates'
    <3>1. rendered'.page = end.page
      BY <1>2, <2>1, Parts DEF renderTemplates
    <3> QED  BY <1>2, <3>1 DEF ContentInv
  <2>2. CASE end.page \notin templates'
    <3>1. rendered' = rendered
      BY <1>2, <2>2 DEF renderTemplates
    <3>2. r.page # end.page /\ end.page \notin templates
      BY <1>2, <2>2
    <3>3. PageRuns("exit") \subseteq PageRuns("exit")'
      BY <1>1, <1>2, StillPending
    <3>4. \A q \in PageRuns("import") : q # r => q \in PageRuns("import")'
      BY <1>2 DEF Becomes, PageRuns
    <3> QED  BY <1>2, <3>1, <3>2, <3>3, <3>4 DEF Orderly, ContentInv
  <2> QED  BY <2>1, <2>2
<1>6. SubpageInv'
  <2> SUFFICES ASSUME NEW q \in runs', q.kind = "subpage", q.phase = "exit"
               PROVE  /\ current'.page = end'.page /\ rendered'.page = end'.page
                      /\ q.stamp = rendered'.stamp
                      /\ q.section = SectionOf[end'.subpage]
    BY DEF SubpageInv
  <2>1. q \in runs
    BY <1>1, <1>2, StillPending
  <2>2. /\ current.page = end.page /\ rendered.page = end.page
        /\ q.stamp = rendered.stamp /\ q.section = SectionOf[end.subpage]
    BY <2>1 DEF Orderly, SubpageInv
  <2>3. rendered' = rendered
    BY <1>2, <2>2 DEF renderTemplates
  <2> QED  BY <1>2, <2>2, <2>3
<1>7. FrameInv'
  <2>1. hidden' \cap Frame = hidden \cap Frame
    <3>1. Sections \cap Frame = {}
      BY SiteAssumption
    <3>2. {SectionOf[s] : s \in Subpages[end.page]} \subseteq Sections
      BY Parts, UrlType, DefaultType
    <3> QED  BY <1>2, <3>1, <3>2 DEF renderTemplates
  <2>2. "ripple" \in Frame
    BY DEF Frame
  <2> QED  BY <1>1, <1>2, <2>1, <2>2, StillPending DEF Orderly, FrameInv
<1>8. TabsInv'
  BY <1>1, <1>2, StillPending DEF Orderly
<1> QED  BY <1>3, <1>4, <1>5, <1>6, <1>7, <1>8 DEF Orderly

(* A transition that enters is not pending any more; the others still are.  *)
LEMMA NoLongerPending ==
  ASSUME TypeOK, NEW r \in runs, NEW new, r.kind # "first", r.phase # "enter",
         new.kind = r.kind, new.phase = "enter", Becomes(r, new)
  PROVE  /\ Pending' = Pending \ {r}
         /\ FirstWaits' = FirstWaits
         /\ TabsInv /\ transitionDone' = transitionDone => TabsInv'
         /\ \A q \in runs' : q.phase = "exit" => q \in runs
         /\ \A ph : r.phase # ph /\ ph # "enter" =>
              PageRuns(ph)' = PageRuns(ph)
<1>1. runs' = (runs \ {r}) \cup {new}
  BY DEF Becomes
<1>2. Pending' = Pending \ {r}
  BY <1>1 DEF Pending
<1>3. FirstWaits' = FirstWaits
  BY <1>1 DEF FirstWaits
<1>4. TabsInv /\ transitionDone' = transitionDone => TabsInv'
  BY <1>1 DEF TabsInv
<1>5. \A q \in runs' : q.phase = "exit" => q \in runs
  BY <1>1
<1>6. \A ph : r.phase # ph /\ ph # "enter" => PageRuns(ph)' = PageRuns(ph)
  BY <1>1 DEF PageRuns
<1> QED  BY <1>2, <1>3, <1>4, <1>5, <1>6

(* What an entry sequence brings back it brings back, and it shows the      *)
(* section and takes the ink away.                                          *)
LEMMA EntryBrings ==
  ASSUME NEW r \in RunType, r.kind = "page", NEW x \in Sections,
         hidden' = pageEnterTransitions(r.transition, x)
  PROVE  /\ x \notin hidden'
         /\ hidden' \cap (Frame \ {"ripple"}) \subseteq hidden \ Brings(r)
         /\ IF r.transition = "hero"
            THEN "ripple" \in hidden => "ripple" \in hidden'
            ELSE "ripple" \in hidden'
<1>1. x \notin Frame
  BY SiteAssumption
<1>2. CASE r.transition = "hero"
  BY <1>1, <1>2 DEF pageEnterTransitions, playHeroTransitionEnd, Brings, Frame,
       pageCardTakeoverIn, pageSlideIn, contentSlideIn, sectionSlideIn,
       navSlideIn
<1>3. CASE r.transition # "hero"
  BY <1>1, <1>3 DEF pageEnterTransitions, playPageSlideIn, Brings, Frame,
       pageSlideIn, contentSlideIn, sectionSlideIn
<1> QED  BY <1>2, <1>3

LEMMA EnterPageOrderly ==
  ASSUME TypeOK, StateInv, Orderly, NEW r \in runs, EnterPage(r)
  PROVE  Orderly'
<1> DEFINE new == [r EXCEPT !.phase = "enter"]
<1>0. r \in RunType /\ end \in Urls
  BY Parts
<1>1. /\ new.kind = "page" /\ new.phase = "enter"
      /\ r.kind = "page" /\ r.phase = "render"
  BY <1>0, UrlType, NextRun DEF EnterPage
<1>2. /\ Becomes(r, new) /\ UpdateUI(end)
      /\ hidden' = pageEnterTransitions(r.transition, active')
      /\ UNCHANGED <<start, end, templates, rendered, loaded, transitionDone>>
  BY DEF EnterPage
<1> HIDE DEF new
<1>3. current' = end /\ Location' = end /\ active' \in Sections
  BY <1>0, <1>2, UpdateType
<1>4. /\ Pending' = Pending \ {r} /\ FirstWaits' = FirstWaits /\ TabsInv'
      /\ \A q \in runs' : q.phase = "exit" => q \in runs
      /\ PageRuns("exit")' = PageRuns("exit")
      /\ PageRuns("import")' = PageRuns("import")
  BY <1>1, <1>2, NoLongerPending DEF Orderly
<1>5. Settled'
  BY <1>2, <1>3 DEF Settled
<1>6. HandlersInv'
  BY <1>2, <1>3, <1>4 DEF Orderly, HandlersInv
<1>7. ContentInv'
  BY <1>2, <1>4 DEF Orderly, ContentInv
<1>8. SubpageInv'
  BY <1>2, <1>3, <1>4 DEF Orderly, SubpageInv
<1>9. SectionInv'
  <2> SUFFICES ASSUME Pending' = {}
               PROVE  active' = SectionOf[end.subpage] /\ active' \notin hidden'
    BY <1>3 DEF SectionInv
  <2>1. PageRuns("exit") \cup PageRuns("import") = {}
    <3>1. (PageRuns("exit") \cup PageRuns("import")) \subseteq Pending'
      BY <1>4 DEF PageRuns, Pending
    <3> QED  BY <3>1
  <2>2. rendered.page = end.page
    BY <2>1 DEF Orderly, ContentInv
  <2>3. active' = SectionOf[end.subpage]
    BY <1>0, <1>2, <2>2, UrlType DEF UpdateUI, ContentSections
  <2> QED  BY <1>0, <1>1, <1>2, <1>3, <2>3, EntryBrings
<1>10. FrameInv'
  <2>1. /\ hidden' \cap (Frame \ {"ripple"}) \subseteq hidden \ Brings(r)
        /\ IF r.transition = "hero"
           THEN "ripple" \in hidden => "ripple" \in hidden'
           ELSE "ripple" \in hidden'
    BY <1>0, <1>1, <1>2, <1>3, EntryBrings
  <2>2. ASSUME NEW x \in hidden' \cap (Frame \ {"ripple"})
        PROVE  \/ x = "meta" /\ FirstWaits'
               \/ \E q \in Pending' : x \in Brings(q)
    <3>1. x \in hidden \cap (Frame \ {"ripple"}) /\ x \notin Brings(r)
      BY <2>1
    <3> QED  BY <1>4, <3>1 DEF Orderly, FrameInv
  <2>3. \/ "ripple" \in hidden'
        \/ \E q \in Pending' : q.kind = "page" /\ q.transition # "hero"
    BY <1>4, <2>1 DEF Orderly, FrameInv
  <2> QED  BY <2>2, <2>3 DEF FrameInv
<1> QED
  BY <1>4, <1>5, <1>6, <1>7, <1>8, <1>9, <1>10 DEF Orderly

LEMMA EnterSubpageOrderly ==
  ASSUME TypeOK, StateInv, Orderly, NEW r \in runs, EnterSubpage(r)
  PROVE  Orderly'
<1> DEFINE new == [r EXCEPT !.phase = "enter"]
<1>0. r \in RunType /\ end \in Urls
  BY Parts
<1>1. /\ new.kind = "subpage" /\ new.phase = "enter"
      /\ r.kind = "subpage" /\ r.phase = "exit"
  BY <1>0, UrlType, NextRun DEF EnterSubpage
<1>2. /\ Becomes(r, new) /\ UpdateUI(end)
      /\ UNCHANGED <<start, end, templates, rendered, loaded, transitionDone>>
  BY DEF EnterSubpage
<1>3. /\ rendered.page = end.page /\ r.stamp = rendered.stamp
      /\ r.section = SectionOf[end.subpage]
  BY <1>1 DEF Orderly, SubpageInv
<1>4. /\ hidden' = hidden \ {r.section, "footer"}
      /\ active' = r.section
  BY <1>0, <1>2, <1>3, UrlType
     DEF EnterSubpage, playSectionSlideIn, sectionSlideIn, UpdateUI,
         ContentSections
<1> HIDE DEF new
<1>5. current' = end /\ Location' = end
  BY <1>0, <1>2, UpdateType
<1>6. /\ Pending' = Pending \ {r} /\ FirstWaits' = FirstWaits /\ TabsInv'
      /\ \A q \in runs' : q.phase = "exit" => q \in runs
  BY <1>1, <1>2, NoLongerPending DEF Orderly
<1>7. \A ph : PageRuns(ph)' = PageRuns(ph)
  BY <1>1, <1>2 DEF Becomes, PageRuns
<1>8. Settled' /\ SectionInv'
  BY <1>2, <1>3, <1>4, <1>5 DEF Settled, SectionInv
<1>9. HandlersInv' /\ ContentInv'
  BY <1>2, <1>5, <1>7 DEF Orderly, HandlersInv, ContentInv
<1>10. SubpageInv'
  BY <1>2, <1>5, <1>6 DEF Orderly, SubpageInv
<1>11. FrameInv'
  <2>1. r.section \notin Frame
    BY <1>0, SiteAssumption DEF RunType
  <2>2. Brings(r) = {"footer"} /\ "ripple" \in Frame
    BY <1>1 DEF Brings, Frame
  <2>3. ASSUME NEW x \in hidden' \cap (Frame \ {"ripple"})
        PROVE  \/ x = "meta" /\ FirstWaits'
               \/ \E q \in Pending' : x \in Brings(q)
    <3>1. x \in hidden \cap (Frame \ {"ripple"}) /\ x \notin Brings(r)
      BY <1>4, <2>2
    <3> QED  BY <1>6, <3>1 DEF Orderly, FrameInv
  <2>4. \/ "ripple" \in hidden'
        \/ \E q \in Pending' : q.kind = "page" /\ q.transition # "hero"
    BY <1>1, <1>4, <1>6, <2>1, <2>2 DEF Orderly, FrameInv
  <2> QED  BY <2>3, <2>4 DEF FrameInv
<1> QED
  BY <1>6, <1>8, <1>9, <1>10, <1>11 DEF Orderly

(* The first rendering shows the section that the address asks for.         *)
LEMMA FirstOrderly ==
  ASSUME TypeOK, StateInv, Orderly, NEW r \in runs, FirstRender(r)
  PROVE  Orderly'
<1> DEFINE new     == [r EXCEPT !.phase = "enter"]
           section == SectionOf[Location.subpage]
           found   == section \in ContentSections
<1>1. /\ new.kind = "first" /\ new.phase = "enter"
      /\ r.kind = "first" /\ r.phase = "exit"
  BY Parts, UrlType, NextRun DEF FirstRender
<1>2. /\ Becomes(r, new)
      /\ active' = IF found THEN section ELSE active
      /\ hidden' = hidden
                     \ pageFirstRender(IF found THEN section ELSE None, active)
      /\ UNCHANGED <<history, start, current, end, templates, rendered, loaded,
                     transitionDone>>
  BY DEF FirstRender, state
<1> HIDE DEF new
<1>3. runs' = (runs \ {r}) \cup {new}
  BY <1>2 DEF Becomes
<1>4. Pending' = Pending /\ \A ph : PageRuns(ph)' = PageRuns(ph)
  BY <1>1, <1>3 DEF Pending, PageRuns
<1>5. Settled' /\ HandlersInv' /\ ContentInv'
  BY <1>2, <1>4 DEF Orderly, Settled, HandlersInv, ContentInv, Location
<1>6. SubpageInv'
  BY <1>1, <1>2, <1>3 DEF Orderly, SubpageInv
<1>7. section \in Sections /\ active \in Sections /\ section # None
  BY Parts, UrlType, SiteAssumption
<1>8. SectionInv'
  <2> SUFFICES ASSUME Pending = {}
               PROVE  /\ active' = SectionOf[current.subpage]
                      /\ active' \notin hidden'
    BY <1>2, <1>4 DEF SectionInv
  <2>1. current = end /\ end = Location
    BY DEF Orderly, Settled
  <2>2. PageRuns("exit") \cup PageRuns("import") \subseteq Pending
    BY DEF PageRuns, Pending
  <2>3. rendered.page = end.page
    BY <2>2 DEF Orderly, ContentInv
  <2>4. found
    BY <2>1, <2>3, Parts, UrlType DEF ContentSections
  <2> QED
    BY <1>2, <1>7, <2>1, <2>4 DEF pageFirstRender, sectionSlideIn
<1>9. FrameInv'
  <2>1. section \notin Frame /\ active \notin Frame
    BY <1>7, SiteAssumption
  <2>2. /\ "meta" \notin hidden' /\ hidden' \subseteq hidden
        /\ "ripple" \in hidden => "ripple" \in hidden'
    BY <1>2, <2>1
       DEF pageFirstRender, sectionSlideIn, contentSlideIn, Frame
  <2> QED  BY <1>4, <2>2 DEF Orderly, FrameInv
<1>10. TabsInv'
  BY <1>1, <1>3 DEF TabsInv
<1> QED  BY <1>5, <1>6, <1>8, <1>9, <1>10 DEF Orderly

LEMMA DoneOrderly ==
  ASSUME TypeOK, Orderly, NEW r \in runs, Done(r)
  PROVE  Orderly'
<1>1. /\ r.phase = "enter" /\ runs' = runs \ {r}
      /\ transitionDone' = (r.kind # "subpage" \/ transitionDone)
      /\ UNCHANGED <<history, start, current, end, templates, rendered, active,
                     hidden, loaded>>
  BY DEF Done, state, view
<1>2. /\ Pending' = Pending /\ FirstWaits' = FirstWaits
      /\ \A ph : ph # "enter" => PageRuns(ph)' = PageRuns(ph)
  BY <1>1 DEF Pending, FirstWaits, PageRuns
<1>3. Settled' /\ HandlersInv' /\ ContentInv' /\ SectionInv' /\ FrameInv'
  BY <1>1, <1>2 DEF Orderly, Settled, HandlersInv, ContentInv, SectionInv,
                    FrameInv, Location
<1>4. SubpageInv' /\ TabsInv'
  BY <1>1 DEF Orderly, SubpageInv, TabsInv
<1> QED  BY <1>3, <1>4 DEF Orderly

-----------------------------------------------------------------------------
LEMMA InvInit == Init => Inv
<1> SUFFICES ASSUME Init PROVE Inv
  OBVIOUS
<1>1. TypeOK
  BY TypeInit
<1>2. PICK s \in Subpages[First] :
        /\ history = [entries |-> <<Url(First, s)>>, at |-> 1]
        /\ start = Url(First, s) /\ current = start /\ end = start
  BY DEF Init
<1>3. /\ runs = {FirstRun} /\ FirstRun.kind = "first" /\ FirstRun.phase = "exit"
      /\ Location = Url(First, s) /\ Url(First, s).page = First
      /\ rendered.page = First /\ header = First /\ loaded = {First}
      /\ hidden = {SectionOf[x] : x \in Subpages[First]} \cup {"meta", "ripple"}
  BY <1>2 DEF Init, FirstRun, Location, Url
<1>4. Pending = {} /\ FirstWaits
  BY <1>3 DEF Pending, FirstWaits
<1>5. StateInv
  BY <1>2, <1>3, <1>4 DEF StateInv
<1>6. /\ Settled /\ HandlersInv /\ ContentInv
      /\ SubpageInv /\ SectionInv /\ TabsInv
  BY <1>2, <1>3, <1>4 DEF Settled, HandlersInv, ContentInv, SubpageInv,
                          SectionInv, TabsInv
<1>7. FrameInv
  <2>1. {SectionOf[x] : x \in Subpages[First]} \cap Frame = {}
    BY SiteAssumption, DefaultType
  <2> QED  BY <1>3, <1>4, <2>1 DEF FrameInv
<1> QED  BY <1>1, <1>5, <1>6, <1>7 DEF Inv, Orderly

(* A disturbance lasts: what has died is dead, what has been missed is      *)
(* missed.                                                                  *)
LEMMA DisturbedLasts ==
  ASSUME TypeOK, [Next]_vars, Undisturbed'
  PROVE  Undisturbed
<1>1. (swapped => swapped') /\ stuck \subseteq stuck'
  <2>1. ASSUME NEW url, NEW transition, navigate(url, transition)
        PROVE  (swapped => swapped') /\ stuck \subseteq stuck'
    BY <2>1 DEF navigate
  <2>2. ASSUME NEW r \in runs, Proceed(r)
        PROVE  (swapped => swapped') /\ stuck \subseteq stuck'
    BY <2>2 DEF Proceed, importPage, ImportFails, ImportLoads, EnterPage,
                EnterSubpage, FirstRender, Done
  <2>3. CASE UNCHANGED vars
    BY <2>3 DEF vars
  <2> QED  BY <2>1, <2>2, <2>3 DEF Next, Navigate, onClick, PopState
<1> QED  BY <1>1 DEF Undisturbed

LEMMA OrderlyNext ==
  ASSUME TypeOK, StateInv, Orderly, [Next]_vars, Undisturbed'
  PROVE  Orderly'
<1>1. ASSUME NEW link \in Links, onClick(link) PROVE Orderly'
  <2>1. link.url \in Urls /\ link.transition \in Transitions
    BY SiteAssumption
  <2>2. Location' = Location
    BY <1>1 DEF onClick, Location
  <2> QED  BY <1>1, <2>1, <2>2, NavigateOrderly DEF onClick
<1>2. ASSUME NEW i \in 1 .. Len(history.entries), PopState(i) PROVE Orderly'
  <2>1. history.entries[i] \in Urls /\ "slide" \in Transitions
    BY Parts DEF Transitions
  <2>2. Location' = history.entries[i]
    BY <1>2 DEF PopState, Location, TypeOK
  <2> QED  BY <1>2, <2>1, <2>2, NavigateOrderly DEF PopState
<1>3. ASSUME NEW r \in runs, Proceed(r) PROVE Orderly'
  <2>1. ~ImportFails(r)
    BY DEF ImportFails, Undisturbed
  <2> QED
    BY <1>3, <2>1, ImportOrderly, LoadOrderly, EnterPageOrderly,
       EnterSubpageOrderly, FirstOrderly, DoneOrderly DEF Proceed
<1>4. CASE UNCHANGED vars
  <2>1. UNCHANGED <<runs, history, start, current, end, templates, rendered,
                    active, hidden, loaded, transitionDone>>
    BY <1>4 DEF vars, state, view
  <2>2. /\ Pending' = Pending /\ FirstWaits' = FirstWaits
        /\ \A ph : PageRuns(ph)' = PageRuns(ph)
    BY <2>1 DEF Pending, FirstWaits, PageRuns
  <2> QED
    BY <2>1, <2>2 DEF Orderly, Settled, HandlersInv, ContentInv, SubpageInv,
                      SectionInv, FrameInv, TabsInv, Location
<1> QED  BY <1>1, <1>2, <1>3, <1>4 DEF Next, Navigate

LEMMA InvNext == Inv /\ [Next]_vars => Inv'
  BY TypeNext, StateNext, DisturbedLasts, OrderlyNext DEF Inv

LEMMA Invariant == Spec => []Inv
  BY InvInit, InvNext, PTL DEF Spec

(* TypeOK holds of every reachable state.                                   *)
THEOREM TypeCorrect == Spec => []TypeOK
  BY Invariant, PTL DEF Inv

(* The router's state, title and address end at the page that was asked for *)
(* last, whenever the user clicks and whatever import fails to load.        *)
THEOREM Converges == Spec => []PageConverges
  <1>1. Inv => PageConverges
    BY DEF Inv, StateInv, PageConverges
  <1> QED  BY <1>1, Invariant, PTL

(* Nothing that overlapping transitions bring into disorder stays so, but   *)
(* for the moments of Swapping.                                             *)
THEOREM InOrderAtRest == Spec => []AtRest
<1>1. Inv => AtRest
  <2> SUFFICES ASSUME Inv, runs = {}, Undisturbed
               PROVE  /\ current = Location
                      /\ rendered.page = current.page
                      /\ active = SectionOf[current.subpage]
                      /\ hidden \cap ({active} \cup Frame) = {"ripple"}
                      /\ loaded = {current.page}
                      /\ transitionDone
    BY DEF AtRest, Undisturbed
  <2>1. Pending = {} /\ ~FirstWaits /\ \A ph : PageRuns(ph) = {}
    BY DEF Pending, FirstWaits, PageRuns
  <2>2. current = Location /\ current = end
    BY <2>1 DEF Inv, Orderly, Settled
  <2>3. active = SectionOf[current.subpage] /\ active \notin hidden
    BY <2>1 DEF Inv, Orderly, SectionInv
  <2>4. rendered.page = current.page
    BY <2>1, <2>2 DEF Inv, Orderly, ContentInv
  <2>5. hidden \cap Frame = {"ripple"}
    BY <2>1 DEF Inv, Orderly, FrameInv, Frame
  <2>6. loaded = {current.page}
    BY <2>1, <2>2 DEF Inv, Orderly, HandlersInv
  <2>7. transitionDone
    BY DEF Inv, Orderly, TabsInv
  <2> QED  BY <2>2, <2>3, <2>4, <2>5, <2>6, <2>7
<1> QED  BY <1>1, Invariant, PTL
===============================================================================
