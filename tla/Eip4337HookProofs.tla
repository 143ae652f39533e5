------------------------- MODULE Eip4337HookProofs --------------------------
(***************************************************************************)
(* Proofs about Eip4337Hook, for every set of selectors, implementations and   *)
(* clients.  The invariant is that a bundle is the one its client built from      *)
(* what it read; what it does to the hooks it finds follows from that alone.       *)
(***************************************************************************)
EXTENDS Eip4337Hook, TLAPS

\* A bundle that is waiting is an add or a remove bundle of the hooks that were read.
IsBuilt(b) ==
    \/ \E impl \in Adding : b = AddBundle(b.read, impl)
    \/ b = RemoveBundle(b.read)

HookInv ==
    /\ hooks \in Hooks
    /\ \A c \in Clients : built[c] # None => built[c].read \in Hooks /\ IsBuilt(built[c])
    /\ DOMAIN built = Clients

LEMMA AddBundleBuilt ==
    \A h \in Hooks, impl \in Adding :
        AddBundle(h, impl).read = h /\ IsBuilt(AddBundle(h, impl))
    BY DEF AddBundle, IsBuilt

LEMMA RemoveBundleBuilt ==
    \A h \in Hooks : RemoveBundle(h).read = h /\ IsBuilt(RemoveBundle(h))
    BY DEF RemoveBundle, IsBuilt

\* The hooks after a bundle are hooks again.
LEMMA AfterType ==
    ASSUME NEW h \in Hooks, NEW b, IsBuilt(b)
    PROVE  After(h, b) \in Hooks
<1>1. b.impl \in Impls \cup {NoHook}
    BY HookAssumption DEF IsBuilt, AddBundle, RemoveBundle
<1>2. \A s \in Selectors : h[s] \in Impls \cup {NoHook}
    BY DEF Hooks
<1> QED
    BY <1>1, <1>2 DEF After, Hooks

LEMMA InitHookInv == Init => HookInv
    BY DEF Init, HookInv

LEMMA NextHookInv == HookInv /\ [Next]_vars => HookInv'
<1> SUFFICES ASSUME HookInv, [Next]_vars PROVE HookInv'
    OBVIOUS
<1>1. ASSUME NEW c \in Clients, NEW b, Build(c, b), b.read \in Hooks, IsBuilt(b)
      PROVE  HookInv'
  <2>1. built' = [built EXCEPT ![c] = b] /\ hooks' = hooks
      BY <1>1 DEF Build
  <2>2. \A d \in Clients : built'[d] = built[d] \/ built'[d] = b
      BY <2>1 DEF HookInv
  <2> QED
      BY <1>1, <2>1, <2>2 DEF HookInv
<1>2. ASSUME NEW c \in Clients, NEW how, End(c, how), hooks' \in Hooks
      PROVE  HookInv'
  <2>1. built' = [built EXCEPT ![c] = None]
      BY <1>2 DEF End
  <2>2. \A d \in Clients : built'[d] # None => built'[d] = built[d]
      BY <2>1 DEF HookInv
  <2> QED
      BY <1>2, <2>1, <2>2 DEF HookInv
<1>3. ASSUME NEW c \in Clients, NEW impl \in Adding, GetAddHookTransaction(c, impl)
      PROVE  HookInv'
    BY <1>1, <1>3, AddBundleBuilt DEF GetAddHookTransaction, HookInv
<1>4. ASSUME NEW c \in Clients, GetRemoveHookTransaction(c)
      PROVE  HookInv'
    BY <1>1, <1>4, RemoveBundleBuilt DEF GetRemoveHookTransaction, HookInv
<1>5. ASSUME NEW c \in Clients, Execute(c)
      PROVE  HookInv'
  <2>1. End(c, "executed") /\ hooks' = After(hooks, built[c]) /\ IsBuilt(built[c]) /\ hooks \in Hooks
      BY <1>5 DEF Execute, End, HookInv
  <2> QED
      BY <1>2, <2>1, AfterType
<1>6. ASSUME NEW c \in Clients, Revert(c) \/ Drop(c)
      PROVE  HookInv'
    BY <1>2, <1>6 DEF Revert, Drop, HookInv
<1>7. CASE UNCHANGED vars
    BY <1>7 DEF vars, HookInv
<1> QED
    BY <1>3, <1>4, <1>5, <1>6, <1>7 DEF Next

LEMMA HookInvTheorem == Spec => []HookInv
    BY InitHookInv, NextHookInv, PTL DEF Spec

-----------------------------------------------------------------------------
\* A bundle fits the hooks it was built for, and leaves its implementation everywhere.
LEMMA FreshFits ==
    ASSUME NEW h \in Hooks, NEW b, IsBuilt(b), b.read = h
    PROVE  Fits(h, b) /\ IsAdded(After(h, b), b.impl)
<1>1. ASSUME NEW impl \in Adding, b = AddBundle(h, impl)
      PROVE  Fits(h, b) /\ IsAdded(After(h, b), b.impl)
  <2>1. /\ b.impl = impl /\ b.adds = {s \in Selectors : h[s] # impl}
        /\ b.removes = b.adds \cap {s \in Selectors : h[s] # NoHook}
      BY <1>1 DEF AddBundle, Differing, Present
  <2>2. Fits(h, b)
      BY <2>1 DEF Fits
  <2>3. \A s \in Selectors : After(h, b)[s] = impl
      BY <2>1 DEF After
  <2> QED
      BY <2>1, <2>2, <2>3 DEF IsAdded, Differing
<1>2. ASSUME b = RemoveBundle(h)
      PROVE  Fits(h, b) /\ IsAdded(After(h, b), b.impl)
  <2>1. b.impl = NoHook /\ b.adds = {} /\ b.removes = {s \in Selectors : h[s] # NoHook}
      BY <1>2 DEF RemoveBundle, Differing, Present
  <2>2. \A s \in Selectors : After(h, b)[s] = NoHook
      BY <2>1 DEF After
  <2> QED
      BY <2>1, <2>2 DEF Fits, IsAdded, Differing
<1> QED
    BY <1>1, <1>2 DEF IsBuilt

\* What a bundle not overtaken by another one promises, for any selectors and clients.
THEOREM FreshBundleTheorem == Spec => FreshBundleTakesEffect
<1>1. HookInv /\ [Next]_vars =>
        [\A c \in Clients :
            (built[c] # None /\ built'[c] = None /\ outcome' # "dropped"
               /\ built[c].read = hooks) => IsAdded(hooks', built[c].impl)]_vars
  <2> SUFFICES ASSUME HookInv, Next, NEW c \in Clients, built[c] # None, built'[c] = None,
                      outcome' # "dropped", built[c].read = hooks
               PROVE  IsAdded(hooks', built[c].impl)
      BY DEF vars
  <2>1. Fits(hooks, built[c]) /\ IsAdded(After(hooks, built[c]), built[c].impl)
      BY FreshFits DEF HookInv
  <2>2. ASSUME NEW d \in Clients, NEW b, Build(d, b)
        PROVE  d # c /\ built'[c] = built[c]
      BY <2>2 DEF Build, HookInv
  <2>3. ASSUME NEW d \in Clients, NEW how, End(d, how)
        PROVE  d = c
      BY <2>3 DEF End, HookInv
  <2>4. ASSUME NEW d \in Clients, Execute(d)
        PROVE  IsAdded(hooks', built[c].impl)
      BY <2>1, <2>3, <2>4 DEF Execute
  <2>5. ASSUME NEW d \in Clients, Revert(d)
        PROVE  FALSE
      BY <2>1, <2>3, <2>5 DEF Revert
  <2>6. ASSUME NEW d \in Clients, Drop(d)
        PROVE  FALSE
      BY <2>6 DEF Drop, End
  <2> QED
      BY <2>2, <2>4, <2>5, <2>6 DEF Next, GetAddHookTransaction, GetRemoveHookTransaction
<1> QED
    BY <1>1, HookInvTheorem, PTL DEF Spec, FreshBundleTakesEffect

\* However stale the bundle: a bundle does no harm to its own implementation.
THEOREM InstalledStaysTheorem == Spec => InstalledStays
<1>1. HookInv /\ [Next]_vars =>
        [\A c \in Clients :
            (built[c] # None /\ built'[c] = None /\ IsAdded(hooks, built[c].impl))
                => IsAdded(hooks', built[c].impl)]_vars
  <2> SUFFICES ASSUME HookInv, Next, NEW c \in Clients, built[c] # None, built'[c] = None,
                      IsAdded(hooks, built[c].impl)
               PROVE  IsAdded(hooks', built[c].impl)
      BY DEF vars
  <2>1. ASSUME NEW d \in Clients, NEW how, End(d, how)
        PROVE  d = c
      BY <2>1 DEF End, HookInv
  <2>2. ASSUME NEW d \in Clients, Execute(d)
        PROVE  IsAdded(hooks', built[c].impl)
    <3>1. hooks' = After(hooks, built[c]) /\ IsBuilt(built[c])
        BY <2>1, <2>2 DEF Execute, HookInv
    <3>2. CASE \E impl \in Adding : built[c] = AddBundle(built[c].read, impl)
      <4>1. built[c].removes \subseteq built[c].adds
          BY <3>2 DEF AddBundle
      <4> QED
          BY <3>1, <4>1 DEF After, IsAdded, Differing
    <3>3. CASE built[c] = RemoveBundle(built[c].read)
      <4>1. built[c].impl = NoHook /\ built[c].adds = {}
          BY <3>3 DEF RemoveBundle
      <4> QED
          BY <3>1, <4>1 DEF After, IsAdded, Differing
    <3> QED
        BY <3>1, <3>2, <3>3 DEF IsBuilt
  <2>3. CASE UNCHANGED hooks
      BY <2>3
  <2> QED
      BY <2>2, <2>3 DEF Next, GetAddHookTransaction, GetRemoveHookTransaction, Build, Revert, Drop
<1> QED
    BY <1>1, HookInvTheorem, PTL DEF Spec, InstalledStays

-----------------------------------------------------------------------------
\* What HookInv leaves to be shown of the shapes.
BuiltOK == built \in [Clients -> Bundles \cup {None}] /\ outcome \in Outcomes

\* A bundle made from hooks is a bundle.
LEMMA BuiltType ==
    ASSUME NEW b, IsBuilt(b), b.read \in Hooks
    PROVE  b \in Bundles
<1>1. ASSUME NEW impl \in Adding, b = AddBundle(b.read, impl)
      PROVE  b \in Bundles
    BY <1>1, HookAssumption DEF AddBundle, Differing, Present, Bundles
<1>2. ASSUME b = RemoveBundle(b.read)
      PROVE  b \in Bundles
    BY <1>2 DEF RemoveBundle, Differing, Present, Bundles
<1> QED
    BY <1>1, <1>2 DEF IsBuilt

\* The hooks a client has read, its bundle and what became of the last one keep their
\* shapes: a bundle removes and adds selectors of the hook only.
THEOREM HookTypeCorrect == Spec => []TypeOK
<1>1. Init => BuiltOK
    BY DEF Init, BuiltOK, Outcomes
<1>2. HookInv /\ BuiltOK /\ [Next]_vars => BuiltOK'
  <2> SUFFICES ASSUME HookInv, BuiltOK, [Next]_vars
               PROVE  BuiltOK'
      OBVIOUS
  <2>1. ASSUME NEW c \in Clients, NEW impl \in Adding, GetAddHookTransaction(c, impl)
        PROVE  BuiltOK'
    <3>1. AddBundle(hooks, impl) \in Bundles
        BY AddBundleBuilt, BuiltType DEF HookInv
    <3> QED
        BY <2>1, <3>1 DEF GetAddHookTransaction, Build, BuiltOK
  <2>2. ASSUME NEW c \in Clients, GetRemoveHookTransaction(c)
        PROVE  BuiltOK'
    <3>1. RemoveBundle(hooks) \in Bundles
        BY RemoveBundleBuilt, BuiltType DEF HookInv
    <3> QED
        BY <2>2, <3>1 DEF GetRemoveHookTransaction, Build, BuiltOK
  <2>3. ASSUME NEW c \in Clients, Execute(c) \/ Revert(c) \/ Drop(c)
        PROVE  BuiltOK'
      BY <2>3 DEF Execute, Revert, Drop, End, BuiltOK, Outcomes
  <2>4. CASE UNCHANGED vars
      BY <2>4 DEF vars, BuiltOK
  <2> QED
      BY <2>1, <2>2, <2>3, <2>4 DEF Next
<1>3. HookInv /\ BuiltOK => TypeOK
    BY DEF HookInv, TypeOK, BuiltOK
<1> QED
    BY <1>1, <1>2, <1>3, HookInvTheorem, PTL DEF Spec
=============================================================================
