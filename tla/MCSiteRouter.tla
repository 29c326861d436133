---------------------------- MODULE MCSiteRouter -----------------------------
(***************************************************************************)
(* Values for checking SiteRouter: a page with two sections for its        *)
(* subpages, as the schedule has, and two pages that have one; links with  *)
(* each of the transitions.                                                *)
(***************************************************************************)
EXTENDS SiteRouter

MCPages    == {"home", "schedule", "about"}
MCSubpages == [p \in MCPages |-> CASE p = "schedule" -> {"day1", "agenda"}
                                   [] p = "home"     -> {"top"}
                                   [] p = "about"    -> {"intro"}]
MCDefaults == [p \in MCPages |-> CASE p = "schedule" -> "day1"
                                   [] p = "home"     -> "top"
                                   [] p = "about"    -> "intro"]
MCSections == [s \in {"top", "day1", "agenda", "intro"} |->
                 CASE s = "top"    -> "cards" [] s = "day1"  -> "days"
                   [] s = "agenda" -> "list"  [] s = "intro" -> "text"]

Link(page, subpage, transition) ==
  [url |-> Url(page, subpage), transition |-> transition]

MCLinks == {Link("home", "top", "ripple"), Link("about", "intro", "hero"),
            Link("schedule", "day1", "slide"), Link("schedule", "agenda", "hero")}
===============================================================================
