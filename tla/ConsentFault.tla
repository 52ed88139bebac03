---------------------------- MODULE ConsentFault ----------------------------
(***************************************************************************)
(* The N-02 target as the Runs see it: WhyYou's consent request with its   *)
(* test hook (outside src/), the fault adapter                             *)
(* (engine/adapters/whyyou/consent_fault.py), the seed adapter             *)
(* (engine/adapters/whyyou/n02_seed.py) and the assertions A6 and A7 of    *)
(* engine/judges/n02.py over what was read.                                *)
(***************************************************************************)
EXTENDS RunFiles

CONSTANT Disturbed   \* bound: the Runs whose process may be interrupted or die and
                     \* whose requests may outlive their timeout

ASSUME DisturbedAssumption == Disturbed \subseteq Runs

VARIABLES
    marker,     \* Runs whose fault marker file is present
    token,      \* Runs whose consumed token is present
    receipts,   \* Runs whose hook left a receipt: it fired for the failed request
    rows,       \* Runs whose seeded lanes are in the target database
    overlays,   \* Runs whose probe overlay is in place in the fault lane
    pending,    \* consent requests sent and not handled by the product
    consents    \* requests the product committed a consent for

targetVars == <<marker, token, receipts, rows, overlays, pending, consents>>

\* The faulted request and the normal retry, told apart by their request id.
Requests == {"failed", "retry"}

Statuses == {"PASS", "FAIL", "INCONCLUSIVE"}

TargetInit ==
    /\ marker = {} /\ token = {} /\ receipts = {}
    /\ rows = {} /\ overlays = {}
    /\ pending = [r \in Runs |-> {}]
    /\ consents = [r \in Runs |-> {}]

\* read_state: no consent record, transition or event, identity_verified.
StateIsZero(r) == r \in rows /\ consents[r] = {}

\* _durable_consent_matches: exactly one committed consent.
ConsentIsDurable(r) == r \in rows /\ \E q \in Requests : consents[r] = {q}

-----------------------------------------------------------------------------
(* The product *)

Send(r, q) == pending' = [pending EXCEPT ![r] = @ \cup {q}]

Handled(r, q) == pending' = [pending EXCEPT ![r] = @ \ {q}]

\* The hook: a marker that has not expired, used once; a receipt is stored
\* before the request is rolled back.
HookFires(r, q) ==
    /\ q \in pending[r] /\ r \in rows /\ r \in marker /\ r \notin token
    /\ token' = token \cup {r}
    /\ receipts' = receipts \cup {r}
    /\ Handled(r, q)
    /\ UNCHANGED <<marker, rows, overlays, consents>>

\* The request of an invitation that has no consent commits one; an expired
\* marker is ignored.  Every other request of the invitation is rejected from
\* now on, which changes nothing: none of them is kept.
CommitsConsent(r, q) ==
    /\ q \in pending[r] /\ r \in rows /\ consents[r] = {}
    /\ consents' = [consents EXCEPT ![r] = {q}]
    /\ pending' = [pending EXCEPT ![r] = {}]
    /\ UNCHANGED <<marker, token, receipts, rows, overlays>>

RejectsRequest(r, q) ==
    /\ q \in pending[r] /\ consents[r] # {}
    /\ Handled(r, q)
    /\ UNCHANGED <<marker, token, receipts, rows, overlays, consents>>

\* A request that is not answered in time stays with the product.
AnsweredOrLate(r, q) == q \notin pending[r] \/ r \in Disturbed

ProductStep(r) ==
    \E q \in Requests : HookFires(r, q) \/ CommitsConsent(r, q) \/ RejectsRequest(r, q)

-----------------------------------------------------------------------------
(* What the adapters do; `ok` is AdapterResult.ok *)

\* seed_lanes: one transaction over the six lanes.
SeedRows(r, ok) == rows' = IF ok THEN rows \cup {r} ELSE rows

\* apply_consent_fault: atomic_write of the marker.
ApplyMarker(r, ok) == marker' = IF ok THEN marker \cup {r} ELSE marker

\* restore_consent_fault: marker, then token, then the state must read zero;
\* each of the three can fail, and what was removed before stays removed.
RestoreFault(r, ok) ==
    \/ /\ ok /\ StateIsZero(r)
       /\ marker' = marker \ {r} /\ token' = token \ {r}
    \/ /\ ~ok
       /\ marker' \in {marker, marker \ {r}}
       /\ IF r \in marker' THEN UNCHANGED token ELSE token' \in {token, token \ {r}}

\* apply_probe_overlay and remove_probe_overlay: one transaction each.
ApplyOverlay(r)  == overlays' = overlays \cup {r}
RemoveOverlay(r) == overlays' = overlays \ {r}

\* delete_product_rows and the lanes' own rows.  What comes for the invitation
\* later is rejected.
DeleteOwned(r) ==
    /\ rows' = rows \ {r} /\ overlays' = overlays \ {r}
    /\ pending' = [pending EXCEPT ![r] = {}]

\* teardown_lanes: all of it in one transaction, or nothing.
TeardownLanes(r, ok) ==
    IF ok THEN DeleteOwned(r) ELSE UNCHANGED <<rows, overlays, pending>>

\* target_safe of cleanup-confirm, read-only.
TargetSafe(r) == r \notin marker \cup token /\ StateIsZero(r)

-----------------------------------------------------------------------------
(* judge_n02_fault_recovery over what collect_us3 kept in memory *)

\* Mutant: a reply of the failed request is enough, its receipt is not asked for.
AssertA6NoReceipt(mem, probes) ==
    CASE ~mem.zero \/ mem.replied \/ probes = "leak" -> "FAIL"
      [] probes = "gap" \/ ~mem.overlayOk -> "INCONCLUSIVE"
      [] OTHER -> "PASS"

\* `probes`: whether every path was refused, one leaked, or one is unresolved.
AssertA6(mem, probes) ==
    CASE ~mem.zero \/ mem.replied \/ probes = "leak" -> "FAIL"
      [] ~mem.receipt \/ probes = "gap" \/ ~mem.overlayOk -> "INCONCLUSIVE"
      [] OTHER -> "PASS"

\* Counts are only known after the first restore; `order` is A5 over the retry.
AssertA7(mem, restoreSafe, order) ==
    CASE mem.restore = "ok" /\ mem.durable = "other" -> "FAIL"
      [] order = "FAIL" -> "FAIL"
      [] ~restoreSafe \/ order # "PASS" -> "INCONCLUSIVE"
      [] OTHER -> "PASS"

\* judge_n02_run: any FAIL, then any INCONCLUSIVE; nothing but INCONCLUSIVE
\* comes out of a Run whose restore failed.
Worst(results) ==
    CASE "FAIL" \in results -> "FAIL"
      [] "FAIL" \notin results /\ "INCONCLUSIVE" \in results -> "INCONCLUSIVE"
      [] OTHER -> "PASS"

JudgeRun(state, results) ==
    IF state = "RESTORE_FAILED" THEN "INCONCLUSIVE" ELSE Worst(results)
=============================================================================
