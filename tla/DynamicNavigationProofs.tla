----------------------- MODULE DynamicNavigationProofs -----------------------
(***************************************************************************)
(* Proofs about DynamicNavigation, for every number of messages and every  *)
(* bound on the stack.                                                     *)
(***************************************************************************)
EXTENDS DynamicNavigation, SequenceTheorems, TLAPS

IInv == TypeOK /\ PagesHaveTheirContexts

(* What is left of a sequence without its last element.                    *)
LEMMA DropLast ==
  ASSUME NEW S, NEW s \in Seq(S), s # <<>>
  PROVE  LET t == SubSeq(s, 1, Len(s) - 1)
         IN  /\ t \in Seq(S) /\ Len(t) = Len(s) - 1
             /\ \A i \in 1..Len(t) : t[i] = s[i]
<1> DEFINE n == Len(s) - 1
<1>1. n \in Nat /\ \A i \in 1..n : s[i] \in S
  OBVIOUS
<1>2. /\ SubSeq(s, 1, n) \in Seq(S)
      /\ Len(SubSeq(s, 1, n)) = n
      /\ \A i \in 1..n : SubSeq(s, 1, n)[i] = s[i]
  <2> HIDE DEF n
  <2> QED
    BY <1>1, SubSeqProperties
<1> QED
  BY <1>2

(* A page that has its own context at the end of the stack makes that      *)
(* context usable: it is on the Navigator.                                 *)
LEMMA FreshIsUsable ==
  ASSUME IInv, built # settled
  PROVE  ContextIsUsable
<1>1. /\ contextStack \in Seq(Page) /\ routes \in Seq(Page)
      /\ built \in 0..Len(routes) /\ settled \in 0..built
  BY DEF IInv, TypeOK
<1> DEFINE fresh == built - settled
           base == Len(contextStack) - fresh
<1>2. fresh \in Nat /\ fresh > 0 /\ base \in Nat
  BY <1>1 DEF IInv, PagesHaveTheirContexts
<1>3. contextStack[base + fresh] = routes[settled + fresh]
  <2>1. \A i \in 1..fresh : contextStack[base + i] = routes[settled + i]
    BY DEF IInv, PagesHaveTheirContexts
  <2> HIDE DEF fresh, base
  <2> QED
    BY <1>2, <2>1
<1>4. contextStack # <<>> /\ contextStack[Len(contextStack)] = routes[built]
  BY <1>1, <1>2, <1>3
<1> QED
  BY <1>1, <1>2, <1>4 DEF ContextIsUsable, Mounted

(* The invariant holds of the home page before it is built.                *)
LEMMA InitIInv == Init => IInv
  BY NavigationAssumption DEF Init, IInv, TypeOK, PagesHaveTheirContexts, Page, Home

(* Every step keeps the types and the end of the stack.                    *)
LEMMA IndStep ==
  ASSUME IInv, [Next]_vars
  PROVE  IInv'
<1> USE NavigationAssumption
<1>1. /\ contextStack \in Seq(Page) /\ routes \in Seq(Page)
      /\ built \in 0..Len(routes) /\ settled \in 0..built
      /\ leaving \subseteq Page /\ lost \subseteq Page /\ received \in Page
  BY DEF IInv, TypeOK
<1>2. CASE PushPage
  <2>1. received' \in Page
    BY <1>1, <1>2 DEF PushPage, Page
  <2>2. routes' = routes \/ routes' = Append(routes, received')
    BY <1>2 DEF PushPage
  <2>3. /\ routes' \in Seq(Page) /\ Len(routes') >= Len(routes)
        /\ \A i \in 1..Len(routes) : routes'[i] = routes[i]
    <3>1. CASE routes' = routes
      BY <1>1, <3>1
    <3>2. CASE routes' = Append(routes, received')
      <4>1. Len(routes') = Len(routes) + 1 /\ routes' \in Seq(Page)
        BY <1>1, <2>1, <3>2
      <4>2. \A i \in 1..Len(routes) : routes'[i] = routes[i]
        BY <1>1, <3>2
      <4> QED
        BY <1>1, <4>1, <4>2
    <3> QED
      BY <2>2, <3>1, <3>2
  <2>4. UNCHANGED <<built, leaving, contextStack, settled>>
        /\ lost' \subseteq Page
    BY <1>1, <1>2, <2>1 DEF PushPage
  <2>5. TypeOK'
    BY <1>1, <2>1, <2>3, <2>4 DEF TypeOK
  <2>6. PagesHaveTheirContexts'
    <3>1. \A i \in 1..(built - settled) : routes'[settled + i] = routes[settled + i]
      BY <1>1, <2>3
    <3> QED
      BY <2>4, <3>1 DEF IInv, PagesHaveTheirContexts
  <2> QED
    BY <2>5, <2>6 DEF IInv
<1>3. CASE BuildPages
  <2> DEFINE more == SubSeq(routes, built + 1, Len(routes))
  <2>1. more \in Seq(Page) /\ Len(more) = Len(routes) - built
        /\ \A i \in 1..Len(more) : more[i] = routes[built + i]
    <3> DEFINE first == built + 1
               last == Len(routes)
    <3>1. first \in Int /\ last \in Int /\ \A i \in first..last : routes[i] \in Page
      BY <1>1
    <3>2. /\ more \in Seq(Page)
          /\ Len(more) = IF first <= last THEN last - first + 1 ELSE 0
          /\ \A i \in 1..(last - first + 1) : more[i] = routes[first + i - 1]
      <4>1. more = SubSeq(routes, first, last)
        OBVIOUS
      <4> HIDE DEF more, first, last
      <4> QED
        BY <3>1, <4>1, SubSeqProperties
    <3> HIDE DEF more
    <3>3. Len(more) = Len(routes) - built
      BY <1>1, <3>2
    <3> QED
      BY <1>1, <3>2, <3>3
  <2>2. contextStack' = contextStack \o more /\ built' = Len(routes)
        /\ UNCHANGED <<routes, leaving, received, lost, settled>>
    BY <1>3 DEF BuildPages
  <2>3. TypeOK'
    BY <1>1, <2>1, <2>2 DEF TypeOK
  <2>4. PagesHaveTheirContexts'
    <3>1. Len(contextStack') = Len(contextStack) + Len(more)
      BY <1>1, <2>1, <2>2
    <3>2. Len(contextStack) - (built - settled) >= 0
          /\ \A i \in 1..(built - settled) :
               contextStack[Len(contextStack) - (built - settled) + i] = routes[settled + i]
      BY DEF IInv, PagesHaveTheirContexts
    <3>3. Len(contextStack') - (built' - settled') = Len(contextStack) - (built - settled)
      BY <1>1, <2>1, <2>2, <3>1
    <3>4. ASSUME NEW i \in Nat, 1 <= i, i <= built - settled
          PROVE  contextStack'[Len(contextStack) - (built - settled) + i] = routes[settled + i]
      <4>1. Len(contextStack) - (built - settled) + i \in 1..Len(contextStack)
        BY <1>1, <3>2, <3>4
      <4>2. contextStack'[Len(contextStack) - (built - settled) + i]
              = contextStack[Len(contextStack) - (built - settled) + i]
        BY <1>1, <2>1, <2>2, <4>1
      <4>3. i \in 1..(built - settled)
        BY <1>1, <3>4
      <4>4. contextStack[Len(contextStack) - (built - settled) + i] = routes[settled + i]
        BY <3>2, <4>3
      <4> QED
        BY <4>2, <4>4
    <3>5. ASSUME NEW j \in 1..Len(more)
          PROVE  contextStack'[Len(contextStack) + j] = routes[built + j]
      BY <1>1, <2>1, <2>2, <3>5
    <3>6. ASSUME NEW i \in 1..(built' - settled')
          PROVE  contextStack'[Len(contextStack) - (built - settled) + i] = routes'[settled' + i]
      <4> i \in Nat /\ 1 <= i
        BY <1>1, <2>2
      <4>1. CASE i <= built - settled
        BY <2>2, <3>4, <4>1
      <4>2. CASE i > built - settled
        <5>1. PICK j \in 1..Len(more) : i = built - settled + j
          <6> HIDE DEF more
          <6>a. Len(more) = Len(routes) - built /\ built' = Len(routes) /\ settled' = settled
            BY <2>1, <2>2
          <6>1. i - (built - settled) \in 1..Len(more)
            BY <1>1, <4>2, <6>a
          <6> QED
            BY <1>1, <6>1
        <5>2. Len(contextStack) - (built - settled) + i = Len(contextStack) + j
              /\ settled + i = built + j
          BY <1>1, <5>1
        <5> QED
          BY <2>2, <3>5, <5>2
      <4>3. i <= built - settled \/ i > built - settled
        BY <1>1
      <4> QED
        BY <4>1, <4>2, <4>3
    <3> QED
      BY <3>2, <3>3, <3>6 DEF PagesHaveTheirContexts
  <2> QED
    BY <2>3, <2>4 DEF IInv
<1>4. CASE PopPage
  <2>1. /\ built > 1 /\ contextStack # <<>> /\ routes # <<>>
        /\ routes' = SubSeq(routes, 1, Len(routes) - 1)
        /\ contextStack' = SubSeq(contextStack, 1, Len(contextStack) - 1)
        /\ UNCHANGED <<received, lost>>
    BY <1>1, <1>4 DEF PopPage, ContextIsUsable, PopContext, WithoutLast
  <2>2. /\ routes' \in Seq(Page) /\ Len(routes') = Len(routes) - 1
        /\ \A i \in 1..Len(routes') : routes'[i] = routes[i]
    BY <1>1, <2>1, DropLast
  <2>3. /\ contextStack' \in Seq(Page) /\ Len(contextStack') = Len(contextStack) - 1
        /\ \A i \in 1..Len(contextStack') : contextStack'[i] = contextStack[i]
    BY <1>1, <2>1, DropLast
  <2>4. CASE built = Len(routes)
    <3>1. built' = built - 1 /\ leaving' = leaving \union {routes[built]}
          /\ settled' = Least(settled, built - 1)
      BY <1>1, <1>4, <2>2, <2>4 DEF PopPage, Least
    <3>2. TypeOK'
      BY <1>1, <2>1, <2>2, <2>3, <2>4, <3>1 DEF TypeOK, Least
    <3>3. PagesHaveTheirContexts'
      <4>1. CASE settled = built
        <5>1. settled' = built' /\ Len(contextStack') \in Nat /\ built' \in Nat
          BY <1>1, <2>1, <2>3, <3>1, <4>1 DEF Least
        <5> QED
          BY <5>1 DEF PagesHaveTheirContexts
      <4>2. CASE settled < built
        <5> DEFINE base == Len(contextStack) - (built - settled)
        <5>1. base >= 0 /\ \A i \in 1..(built - settled) : contextStack[base + i] = routes[settled + i]
          BY DEF IInv, PagesHaveTheirContexts
        <5>2. settled' = settled
          BY <1>1, <3>1, <4>2 DEF Least
        <5>3. settled' = settled /\ built' - settled' = built - settled - 1
              /\ Len(contextStack') - (built' - settled') = base
          BY <1>1, <2>3, <3>1, <5>2
        <5>4. ASSUME NEW i \in 1..(built - settled - 1)
              PROVE  contextStack'[base + i] = routes'[settled + i]
          <6>1. base + i \in 1..Len(contextStack') /\ settled + i \in 1..Len(routes')
            BY <1>1, <2>1, <2>2, <2>3, <2>4, <4>2, <5>1
          <6>2. i \in 1..(built - settled)
            BY <1>1
          <6>3. contextStack[base + i] = routes[settled + i]
            BY <5>1, <6>2
          <6> QED
            BY <2>2, <2>3, <6>1, <6>3
        <5> QED
          BY <5>1, <5>3, <5>4 DEF PagesHaveTheirContexts
      <4> QED
        BY <1>1, <4>1, <4>2
    <3> QED
      BY <3>2, <3>3 DEF IInv
  <2>5. CASE built < Len(routes)
    <3>1. built' = built /\ leaving' = leaving /\ settled' = built
      BY <1>1, <1>4, <2>2, <2>5 DEF PopPage, Least
    <3>2. TypeOK'
      BY <1>1, <2>1, <2>2, <2>3, <2>5, <3>1 DEF TypeOK
    <3>3. PagesHaveTheirContexts'
      BY <1>1, <2>3, <3>1 DEF PagesHaveTheirContexts
    <3> QED
      BY <3>2, <3>3 DEF IInv
  <2> QED
    BY <1>1, <2>4, <2>5
<1>5. ASSUME NEW p \in Page, Rebuild(p)
      PROVE  IInv'
  <2>1. contextStack' = Append(contextStack, p) /\ settled' = built
        /\ UNCHANGED <<routes, built, leaving, received, lost>>
    BY <1>5 DEF Rebuild
  <2> QED
    BY <1>1, <2>1 DEF IInv, TypeOK, PagesHaveTheirContexts
<1>6. ASSUME NEW p \in Page, Unmount(p)
      PROVE  IInv'
  BY <1>1, <1>6 DEF Unmount, IInv, TypeOK, PagesHaveTheirContexts
<1>7. CASE UNCHANGED vars
  BY <1>7 DEF vars, IInv, TypeOK, PagesHaveTheirContexts
<1> QED
  BY <1>2, <1>3, <1>4, <1>5, <1>6, <1>7 DEF Next

LEMMA Invariant == Spec => []IInv
  BY InitIInv, IndStep, PTL DEF Spec

(* Types of the pages, the stack and the histories.                        *)
THEOREM TypeCorrect == Spec => []TypeOK
<1>1. IInv => TypeOK
  BY DEF IInv
<1> QED
  BY Invariant, <1>1, PTL

(* However pages are pushed, built, built again and popped, those built    *)
(* since an older page was last built again have their contexts, in order, *)
(* at the end of DynamicApp's stack.                                       *)
THEOREM ContextsInOrder == Spec => []PagesHaveTheirContexts
<1>1. IInv => PagesHaveTheirContexts
  BY DEF IInv
<1> QED
  BY Invariant, <1>1, PTL

(* A page pushed since then can always push another.                       *)
THEOREM MessagesReachNavigator == Spec => LostOnlyWhenStale
<1>1. ASSUME IInv, [Next]_vars
      PROVE  [lost' # lost => built = settled]_vars
  <2>1. CASE PushPage
    BY <1>1, <2>1, FreshIsUsable DEF PushPage
  <2>2. CASE ~PushPage
    <3>1. lost' = lost
      BY <1>1, <2>2 DEF Next, BuildPages, PopPage, Rebuild, Unmount, vars
    <3> QED
      BY <3>1
  <2> QED
    BY <2>1, <2>2
<1> QED
  BY Invariant, <1>1, PTL DEF Spec, LostOnlyWhenStale
=============================================================================
