---------------------------- MODULE Eip4337Hook -----------------------------
(***************************************************************************)
(* Installing and removing the EIP-4337 hook of a wallet contract              *)
(* (eip4337-hook/src/utils.ts, unipassAccountApi.ts).  The hook is an             *)
(* implementation registered for each of four selectors.  Clients read the         *)
(* hooks in one call, build a bundle for selfExecute from what they read, and the    *)
(* bundle is executed later as a whole, after whatever other clients had done.        *)
(* The contract is external: a bundle that removes a hook which is not there, or adds  *)
(* one over another, may revert or not.                                                *)
(***************************************************************************)
CONSTANTS
    Selectors,      \* the functions the hook has
    Impls,          \* implementations a selector may have
    NoHook,         \* the zero address
    Clients,
    Adding,         \* the implementations that clients add
    None

ASSUME HookAssumption == NoHook \notin Impls /\ Adding \subseteq Impls

VARIABLES
    hooks,      \* the implementation of each selector in the contract
    built,      \* the bundle each client has built
    outcome     \* what became of the last bundle

vars == <<hooks, built, outcome>>

Hooks == [Selectors -> Impls \cup {NoHook}]

\* A bundle removes hooks and then adds one; `read` is what its client had read.
Bundles == [impl : Impls \cup {NoHook}, removes : SUBSET Selectors, adds : SUBSET Selectors,
            read : Hooks]

Outcomes == {"none", "executed", "reverted", "dropped"}

-----------------------------------------------------------------------------
(* Reading and building.                                                   *)

\* getHooks: a contract without a hook, or no contract at all, gives the zero address.
Differing(h, impl) == {s \in Selectors : h[s] # impl}
Present(h) == Differing(h, NoHook)

\* isAddEIP4337Hook
IsAdded(h, impl) == Differing(h, impl) = {}

\* Mutant: the hook of another implementation is not removed first.
AddBundleOnly(h, impl) ==
    [impl |-> impl, removes |-> {}, adds |-> Differing(h, impl), read |-> h]

\* Mutant: all hooks are removed first, and only the missing ones added.
AddBundleRemovesAll(h, impl) ==
    [impl |-> impl, removes |-> Present(h), adds |-> Differing(h, impl), read |-> h]

\* The transactions of getAddEIP4337HookTransaction.
AddBundle(h, impl) ==
    [impl |-> impl, removes |-> Differing(h, impl) \cap Present(h),
     adds |-> Differing(h, impl), read |-> h]

\* Mutant: what is listed for removal are the implementations.
RemoveBundleImpls(h) ==
    [impl |-> NoHook, removes |-> {h[s] : s \in Present(h)}, adds |-> {}, read |-> h]

\* The transactions of getRemoveEIP4337HookTransaction.
RemoveBundle(h) == [impl |-> NoHook, removes |-> Present(h), adds |-> {}, read |-> h]

\* The hooks after bundle b, one transaction after the other.
After(h, b) ==
    [s \in Selectors |-> IF s \in b.adds THEN b.impl ELSE IF s \in b.removes THEN NoHook ELSE h[s]]

\* The bundle finds what it was built for: hooks to remove, and room for its own.
Fits(h, b) ==
    /\ \A s \in b.removes : h[s] # NoHook
    /\ \A s \in b.adds : h[s] = NoHook \/ s \in b.removes

-----------------------------------------------------------------------------
Init ==
    /\ hooks \in Hooks
    /\ built = [c \in Clients |-> None]
    /\ outcome = "none"

Build(c, b) ==
    /\ built[c] = None
    /\ b.removes \cup b.adds # {}       \* else the result is undefined
    /\ built' = [built EXCEPT ![c] = b]
    /\ UNCHANGED <<hooks, outcome>>

GetAddHookTransaction(c, impl) == Build(c, AddBundle(hooks, impl))

GetRemoveHookTransaction(c) == Build(c, RemoveBundle(hooks))

End(c, how) ==
    /\ built[c] # None
    /\ built' = [built EXCEPT ![c] = None]
    /\ outcome' = how

\* selfExecute runs the whole bundle.
Execute(c) ==
    /\ End(c, "executed")
    /\ hooks' = After(hooks, built[c])

\* Each transaction has revertOnError, so that one that fails undoes them all.
Revert(c) ==
    /\ End(c, "reverted")
    /\ ~Fits(hooks, built[c])
    /\ UNCHANGED hooks

\* The client, or the relayer, goes no further.
Drop(c) ==
    /\ End(c, "dropped")
    /\ UNCHANGED hooks

Next ==
    \E c \in Clients :
        \/ \E impl \in Adding : GetAddHookTransaction(c, impl)
        \/ GetRemoveHookTransaction(c)
        \/ Execute(c) \/ Revert(c) \/ Drop(c)

Spec == Init /\ [][Next]_vars

-----------------------------------------------------------------------------
\* TypeOK: the shapes of the hooks and the bundles.
TypeOK ==
    /\ hooks \in Hooks
    /\ built \in [Clients -> Bundles \cup {None}]
    /\ outcome \in Outcomes

\* A bundle that is executed on the hooks its client had read is not reverted and leaves
\* its implementation, or no hook, on all selectors, whatever was installed before;
\* the bundles of other clients may have been executed in between.
FreshBundleTakesEffect ==
    [][\A c \in Clients :
          (built[c] # None /\ built'[c] = None /\ outcome' # "dropped"
             /\ built[c].read = hooks) => IsAdded(hooks', built[c].impl)]_vars

\* A bundle that adds an implementation which is installed by now leaves it installed,
\* although it was built for other hooks and may remove what is there: clients that
\* add the same hook do not disturb one another.
InstalledStays ==
    [][\A c \in Clients :
          (built[c] # None /\ built'[c] = None /\ IsAdded(hooks, built[c].impl))
              => IsAdded(hooks', built[c].impl)]_vars
=============================================================================
