------------------------------ MODULE Archive ------------------------------
(***************************************************************************)
(* What the sealed bundles of one profile promise.  A bundle is closed     *)
(* once.  It is trusted when it is closed over whole bundles, it loses     *)
(* trust with the first bundle it rests on that is spoilt, and it never    *)
(* gains trust back.                                                       *)
(***************************************************************************)
CONSTANTS Bundles, NoBundle

VARIABLES
    reach,     \* how far a bundle rests on its ancestors
    parent,    \* parent[b]: the bundle that b was made after
    closed,    \* the bundles that were closed
    spoilt,    \* the bundles that something touched
    trusted    \* the bundles that verify

archiveVars == <<reach, parent, closed, spoilt, trusted>>

\* The sets that hold b and, with a bundle, its parent.
LineSets(b) ==
    {S \in SUBSET Bundles : b \in S /\ \A a \in S : parent[a] # NoBundle => parent[a] \in S}

RestsOn(b) ==
    CASE reach = "line"   -> {a \in Bundles : \A S \in LineSets(b) : a \in S}
      [] reach = "parent" -> {b, parent[b]} \ {NoBundle}
      [] reach = "self"   -> {b}

ArchiveInit ==
    /\ reach \in {"line", "parent", "self"}
    /\ parent = [b \in Bundles |-> NoBundle]
    /\ closed = {}
    /\ spoilt = {}
    /\ trusted = {}

\* A new bundle is made after a trusted one.
Derive(b, p) ==
    /\ b \notin closed
    /\ p \in trusted
    /\ parent[b] = NoBundle
    /\ parent' = [parent EXCEPT ![b] = p]
    /\ UNCHANGED <<reach, closed, spoilt, trusted>>

Close(b) ==
    /\ b \notin closed
    /\ closed' = closed \cup {b}
    /\ UNCHANGED <<reach, parent, spoilt>>
    /\ trusted' = IF RestsOn(b) \cap spoilt = {} THEN trusted \cup {b} ELSE trusted

\* b is touched: trust goes from exactly the bundles that rest on it.
Spoil(b) ==
    /\ spoilt' = spoilt \cup {b}
    /\ closed' \in {closed, closed \cup {b}, closed \ {b}}
    /\ UNCHANGED <<reach, parent>>
    /\ trusted' = {t \in trusted : b \notin RestsOn(t)}

ArchiveNext ==
    \/ \E b \in Bundles : Close(b) \/ Spoil(b)
    \/ \E b, p \in Bundles : Derive(b, p)

ArchiveSpec == ArchiveInit /\ [][ArchiveNext]_archiveVars
=============================================================================
