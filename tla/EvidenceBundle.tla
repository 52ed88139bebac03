--------------------------- MODULE EvidenceBundle ---------------------------
(***************************************************************************)
(* The evidence bundles of one profile (engine/evidence.py): the files a   *)
(* Run's EvidenceBundleWriter puts into its directory and registers, the   *)
(* manifest that seals them, and verify_bundle, which for some profiles    *)
(* also reads the bundles a retest descends from.  A digest is modelled by *)
(* the content it is taken of.                                             *)
(***************************************************************************)
EXTENDS RunFiles, FiniteSets, Integers

CONSTANTS MaxHurt,    \* how many bundle directories an accident may touch
          Exposed     \* the names of a directory that it may touch

VARIABLES
    family,      \* the contract of the profile the Runs share
    origin,      \* origin[r]: the Run that r retests, or None
    disk,        \* disk[r]: what each name of the directory holds
    registered,  \* registered[r]: what the writer, later the manifest, lists
    manifest,    \* manifest[r]: "absent" or "sealed"
    hurt         \* history: the directories an accident touched

bundleVars == <<family, origin, disk, registered, manifest, hurt>>

Families == {"SPEC002", "SPEC003", "SPEC004", "SPEC009"}

\* run.json stands for all the files that the executor writes; no writer
\* writes the other name.  A file that is lost counts as altered.
Names     == {"run.json", "other"}
Canonical == {"run.json"}
Contents  == {"absent", "written", "altered"}

\* A run root holds so many Runs and no more.
ASSUME RunsAreFinite == IsFiniteSet(Runs)
ASSUME AccidentsAreBounded == MaxHurt \in Nat /\ Exposed \subseteq Names

Empty == [n \in Names |-> "absent"]

BundleInit ==
    /\ family \in Families
    /\ origin = [r \in Runs |-> None]
    /\ disk = [r \in Runs |-> Empty]
    /\ registered = [r \in Runs |-> Empty]
    /\ manifest = [r \in Runs |-> "absent"]
    /\ hurt = {}

-----------------------------------------------------------------------------
(* EvidenceBundleWriter *)

\* write_json: the file replaces what is there, then its digest is registered.
WriteFile(r, n) ==
    /\ manifest[r] = "absent"
    /\ disk' = [disk EXCEPT ![r][n] = "written"]
    /\ registered' = [registered EXCEPT ![r][n] = "written"]

\* seal: refused while a canonical file is not registered; the directory is
\* not read again.
WriteManifest(r) ==
    /\ manifest[r] = "absent"
    /\ \A n \in Canonical : registered[r][n] # "absent"
    /\ manifest' = [manifest EXCEPT ![r] = "sealed"]

-----------------------------------------------------------------------------
(* verify_bundle *)

\* The manifest is whole, every listed file has its digest, every canonical
\* file is listed, and nothing else is in the directory.
FilesMatch(r) ==
    /\ manifest[r] = "sealed"
    /\ disk[r] = registered[r]
    /\ \A n \in Canonical : registered[r][n] # "absent"

\* The Runs that r descends from, r included.
Line(r) ==
    LET older[n \in 0 .. Cardinality(Runs)] ==
            IF n = 0 THEN {r}
            ELSE older[n - 1] \cup ({origin[a] : a \in older[n - 1]} \ {None})
    IN  older[Cardinality(Runs)]

\* Mutant: the recursion stops at the parent for every profile.
ParentOnly(r) ==
    CASE family \in {"SPEC002", "SPEC003", "SPEC004"} -> {r, origin[r]} \ {None}
      [] OTHER -> {r}

\* The bundles that verify_bundle reads for r.  Spec 003/004: the retest link
\* is followed whatever require_all_evidence says, so parent after parent.
\* Spec 002: the cross-Run reference is followed for r only.
Checked(r) ==
    CASE family \in {"SPEC003", "SPEC004"} -> Line(r)
      [] family = "SPEC002"                -> {r, origin[r]} \ {None}
      [] OTHER                             -> {r}

Verified(r) == FilesMatch(r) /\ \A a \in Checked(r) : FilesMatch(a)

-----------------------------------------------------------------------------
\* Something outside ControlProof alters, drops or adds a file.  A file that
\* the writer is about to replace does not count, and a manifest that is
\* altered is as good as lost.
Damage(r) ==
    /\ Cardinality(hurt) < MaxHurt
    /\ r \notin hurt
    /\ disk[r] # Empty
    /\ hurt' = hurt \cup {r}
    /\ \/ \E n \in Exposed :
              /\ n \in Canonical => registered[r][n] # "absent"
              /\ disk' = [disk EXCEPT ![r][n] = "altered"]
              /\ UNCHANGED manifest
       \/ /\ manifest[r] = "sealed"
          /\ manifest' = [manifest EXCEPT ![r] = "absent"]
          /\ UNCHANGED disk
    /\ UNCHANGED <<family, origin, registered>>
=============================================================================
