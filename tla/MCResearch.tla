----------------------------- MODULE MCResearch -----------------------------
(***************************************************************************)
(* Research on a small instance.  A behaviour is either one of the desk    *)
(* (two invocations with one run id), one of the budget guard alone with   *)
(* any records, one of the snapshot cache, or one that stores the archive  *)
(* of a given result, of up to three captures.                             *)
(***************************************************************************)
EXTENDS ResearchDesk, SnapshotCache

CONSTANTS c1, c2, r1, r2, r3, k1, k2, b1, b2, b3

VARIABLES part, probe

MCRunOf == c1 :> r1 @@ c2 :> r1
MCKeyOf == b1 :> k1 @@ b2 :> k1 @@ b3 :> k2

allvars == <<deskvars, part, probe, cachevars>>

Captures ==
  {[tool |-> t, reading |-> x, status |-> Verdict(t, x)] :
     t \in {"quote", "history", "indicators", "filings", "concentration"},
     x \in {"good", "other", "short", "stale", "raises"}}

Lists(n) == UNION {[1..k -> Captures] : k \in 0..n}

ResultOf(c, ids, kind, words) ==
  [NoResult EXCEPT !.status = IF Flagged(c) \/ kind = "hypothesis" THEN "partial" ELSE "complete",
                   !.captures = c, !.evidence = ids,
                   !.narrative = [ids |-> ids, kind |-> kind, words |-> words]]

Results ==
  {ResultOf(c, {<<"quote", "good">>}, "observation", "summary") : c \in Lists(3)}
  \cup {ResultOf(c, ids, kind, words) :
           c \in Lists(2), ids \in {{<<"quote", "good">>}, {<<"filings", "good">>}, {Alien}},
           kind \in {"observation", "hypothesis"}, words \in {"summary", "own", "prohibited"}}
  \cup {[NoResult EXCEPT !.status = "error", !.code = "TIMEOUT", !.captures = c,
                         !.usageComplete = FALSE] : c \in Lists(2)}

MCInit ==
  /\ Init /\ CacheInit
  /\ \/ part \in {"desk", "guard", "cache"} /\ probe = None
     \/ part = "archive" /\ probe \in Results

MCNext ==
  /\ UNCHANGED <<part, probe>>
  /\ \/ part = "desk" /\ Next /\ UNCHANGED cachevars
     \/ part = "guard" /\ GuardNext /\ UNCHANGED cachevars
     \/ part = "cache" /\ CacheNext /\ UNCHANGED deskvars
     \/ /\ part = "archive" /\ UNCHANGED <<runvars, guard, cachevars>>
        /\ \E r \in Runs : Store(r, probe, EvidenceOf(probe.captures))

TimeoutStep(c) == part = "desk" /\ Timeout(c)
                  /\ UNCHANGED <<guard, rows, part, probe, cachevars>>

MCSpec == MCInit /\ [][MCNext]_allvars /\ \A c \in Calls : WF_allvars(TimeoutStep(c))

(* What is stored is what can be used, and stands whatever its run still   *)
(* does (StoredReplays and StoredStands of ResearchDesk, append).          *)
ArchivesSound == StoredReplays /\ (part = "desk" => StoredStands)
=============================================================================
