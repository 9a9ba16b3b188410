-------------------------- MODULE DynamicNavigation --------------------------
(***************************************************************************)
(* The pages of the Flutter module and DynamicApp's stack of contexts.     *)
(* JavaScript sends pushPage messages; the bar of a page has a button that *)
(* calls popPage; and Flutter builds a page when it is first shown and     *)
(* again when it likes (the activity keeps its engine over a change of     *)
(* locale).  Every build pushes the page's context and only popPage pops   *)
(* one, so that the context used by the next message need not be that of   *)
(* the page shown, nor that of a page that still exists.                   *)
(*                                                                         *)
(* Pages are numbered as their messages arrive; the home page is 0.  A     *)
(* context is named by its page.  Navigator and the frames are Flutter's.  *)
(***************************************************************************)
EXTENDS Naturals, Sequences

CONSTANTS MaxPages,     \* pushPage messages
          MaxContexts   \* bound on the contexts that rebuilds may pile up

ASSUME NavigationAssumption == MaxPages \in Nat /\ MaxContexts \in Nat

VARIABLES routes,       \* the Navigator's pages, the home page first
          built,        \* how many of them, from the bottom, have been built
          leaving,      \* popped pages that the exit animation still shows
          contextStack, \* DynamicApp().contextStack
          received,     \* messages so far
          lost,         \* messages whose page was never pushed
          settled       \* history: how many of the pages at the bottom may
                        \* no longer have their own entry at the end of the
                        \* stack

vars == <<routes, built, leaving, contextStack, received, lost, settled>>

Home == 0
Page == 0..MaxPages

TypeOK ==
  /\ routes \in Seq(Page) /\ built \in 0..Len(routes)
  /\ leaving \subseteq Page
  /\ contextStack \in Seq(Page)
  /\ received \in Page
  /\ lost \subseteq Page
  /\ settled \in 0..built

Init ==
  /\ routes = <<Home>> /\ built = 0
  /\ leaving = {}
  /\ contextStack = <<>>
  /\ received = 0 /\ lost = {}
  /\ settled = 0

Least(a, b) == IF a < b THEN a ELSE b
WithoutLast(s) == SubSeq(s, 1, Len(s) - 1)

(* An element that is still in the tree, in which Navigator.of can look    *)
(* upwards.                                                                *)
Mounted(p) == p \in leaving \/ \E i \in 1..built : routes[i] = p

(* The getter context finds a context that Navigator accepts: the stack is *)
(* not empty and the element of its last one is not gone.                  *)
ContextIsUsable ==
  contextStack # <<>> /\ Mounted(contextStack[Len(contextStack)])

-----------------------------------------------------------------------------
(* A pushPage message.  Without a usable context Navigator.push throws in  *)
(* the handler and the page is lost.                                       *)
PushPage ==
  /\ received < MaxPages
  /\ received' = received + 1
  /\ IF ContextIsUsable
       THEN routes' = Append(routes, received') /\ UNCHANGED lost
       ELSE lost' = lost \union {received'} /\ UNCHANGED routes
  /\ UNCHANGED <<built, leaving, contextStack, settled>>

(* A mutant: the pages are built from the top one down.                    *)
BuildPagesFromTop ==
  /\ built < Len(routes)
  /\ contextStack' = contextStack \o
       [i \in 1..(Len(routes) - built) |-> routes[Len(routes) + 1 - i]]
  /\ built' = Len(routes)
  /\ UNCHANGED <<routes, leaving, received, lost, settled>>

(* Flutter's frame builds the pages pushed since the last one.             *)
BuildPages ==
  /\ built < Len(routes)
  /\ contextStack' = contextStack \o SubSeq(routes, built + 1, Len(routes))
  /\ built' = Len(routes)
  /\ UNCHANGED <<routes, leaving, received, lost, settled>>

(* Flutter builds a page again that it has built before.                   *)
Rebuild(p) ==
  /\ Mounted(p)
  /\ Len(contextStack) < MaxContexts
  /\ contextStack' = Append(contextStack, p)
  /\ settled' = built
  /\ UNCHANGED <<routes, built, leaving, received, lost>>

(* A mutant: the context of the page that was left stays on the stack.     *)
KeepContext == UNCHANGED contextStack

(* StackList.pop.                                                          *)
PopContext == contextStack' = IF contextStack = <<>> THEN <<>> ELSE WithoutLast(contextStack)

(* A tap on the button in the bar of the page shown, which the home page   *)
(* does not have.  Navigator.pop takes the last page, built or not; with   *)
(* an unusable context it throws, and nothing is popped at all.            *)
PopPage ==
  /\ built > 1
  /\ ContextIsUsable
  /\ routes' = WithoutLast(routes)
  /\ built' = Least(built, Len(routes'))
  /\ leaving' = IF built' < built THEN leaving \union {routes[built]} ELSE leaving
  /\ PopContext
  /\ settled' = IF built' < built THEN Least(settled, built') ELSE built
  /\ UNCHANGED <<received, lost>>

(* The exit animation of a page ends.                                      *)
Unmount(p) ==
  /\ p \in leaving
  /\ leaving' = leaving \ {p}
  /\ UNCHANGED <<routes, built, contextStack, received, lost, settled>>

Next ==
  \/ PushPage \/ BuildPages \/ PopPage
  \/ \E p \in Page : Rebuild(p) \/ Unmount(p)

Spec == Init /\ [][Next]_vars

-----------------------------------------------------------------------------
(* DynamicApp.context is the context of the page shown, as its comment     *)
(* says, for every page built since Flutter last built an older one again  *)
(* (or popPage met a page not yet built): each such page has its entry at  *)
(* the end of the stack, in the order of the pages.                        *)
PagesHaveTheirContexts ==
  LET fresh == built - settled
      base == Len(contextStack) - fresh
  IN /\ base >= 0
     /\ \A i \in 1..fresh : contextStack[base + i] = routes[settled + i]

(* The page of a message is lost only while the page shown is one that was *)
(* there when a page was last built again, or before the home page is      *)
(* built; a page pushed afterwards can always push another.                *)
LostOnlyWhenStale == [][lost' # lost => built = settled]_vars
=============================================================================
