--------------------------- MODULE RobinhoodReads ---------------------------
(***************************************************************************)
(* Opening the pinned read-only Robinhood gateway and reading through it.  *)
(* Opening verifies the installed package, refuses options that would move *)
(* a pin, and proves the gateway's capability listing and readiness before *)
(* the client may read.  Every read is validated again from its envelope,  *)
(* because the gateway behind the connection may be replaced by another    *)
(* one between the awaits: that is the step Replaced.                      *)
(*                                                                         *)
(* A failure is the pair of the ainvest error code and its rejection; a    *)
(* check that passes returns Passed.  A payload is the set of the paths of *)
(* its keys, each a sequence of keys, and what its walk finds.             *)
(***************************************************************************)
EXTENDS Naturals, FiniteSets, Sequences, FiniteSetsExt, SequencesExt, TLC

CONSTANTS
    Readers,            \* concurrent reads of one client
    Installs,           \* what the probe of the installed package may find
    Options,            \* option names a deployment may pass
    Gateways,           \* gateways that may answer: listing, readiness, digest
    Envelopes,          \* envelope shapes, without the manifest digest
    GatewayErrors,      \* codes of the exceptions the gateway may raise
    Pins,               \* the reviewed name sets, digests and versions
    MaxReplaced,        \* bound on replacements of the gateway
    None

VARIABLES
    gateway,      \* the gateway that answers now
    replaced,     \* times it was replaced
    opening,      \* how far opening is, and the failure that ended it
    startup,      \* the client's recorded startup verification
    reading       \* each read: its step, capability and result

readvars == <<gateway, replaced, opening, startup, reading>>

Passed == [code |-> "ok", rejection |-> None]

Failure(code, rejection) == [code |-> code, rejection |-> rejection]

Drift(rejection) == Failure("not_ready", rejection)

\* The failure of the first check of a sequence of pairs that applies.
FirstOf(checks) ==
    LET hit == {i \in DOMAIN checks : checks[i][1]}
    IN  IF hit = {} THEN Passed ELSE checks[Min(hit)][2]

(***************************************************************************)
(* The installed artifact.                                                 *)
(***************************************************************************)
ArchiveSha256(archive) ==
    IF archive.hashes # None THEN archive.hashes ELSE archive.legacy

VerifyInstalledArtifact(i) ==
    LET rejected(rejection) == Failure("dependency_unavailable", rejection)
    IN  FirstOf(<<
            <<~i.present, rejected("distribution_absent")>>,
            <<i.version # Pins.package, rejected("version_mismatch")>>,
            <<i.url = None, rejected("artifact_unverifiable")>>,
            <<i.url \in {"vcs", "dir"}, rejected("mutable_install")>>,
            <<i.url # "archive", rejected("artifact_unverifiable")>>,
            <<ArchiveSha256(i.archive) = None, rejected("artifact_digest_absent")>>,
            <<ArchiveSha256(i.archive) # Pins.wheel, rejected("artifact_digest_mismatch")>> >>)

(***************************************************************************)
(* The capability listing against the reviewed name sets.                  *)
(***************************************************************************)
ViewFault(listing, i) ==
    LET view == listing[i]
    IN  FirstOf(<<
            <<~view.wellformed, Drift("malformed_listing")>>,
            <<\E j \in 1..(i - 1) : listing[j].name = view.name, Drift("duplicate_capability")>>,
            <<~view.allowed /\ view.name \in Pins.trading /\ ~view.mutates,
              Drift("denied_entry_not_mutating")>> >>)

Listed(listing, allowed, mutates) ==
    {v.name : v \in {w \in ToSet(listing) : w.allowed = allowed /\ w.mutates = mutates}}

MemberFault(listing, name) ==
    FirstOf(<<
        <<name \in Listed(listing, TRUE, TRUE), Drift("projection_mutates")>>,
        <<name \notin Listed(listing, TRUE, FALSE), Drift("projection_not_allowed")>> >>)

FirstFault(faults) ==
    LET bad == SelectSeq(faults, LAMBDA f : f # Passed)
    IN  IF bad = <<>> THEN Passed ELSE Head(bad)

VerifyReadProjection(listing) ==
    FirstFault([i \in DOMAIN listing |-> ViewFault(listing, i)]
        \o [i \in DOMAIN Pins.projection |-> MemberFault(listing, Pins.projection[i])]
        \o <<FirstOf(<<
            <<Cardinality({v.name : v \in ToSet(listing)}) # Pins.entries,
              Drift("entry_count_mismatch")>>,
            <<Listed(listing, TRUE, FALSE) # Pins.reads, Drift("read_set_mismatch")>>,
            <<Listed(listing, TRUE, TRUE) # Pins.mutations, Drift("mutation_set_mismatch")>>,
            <<Listed(listing, FALSE, TRUE) # Pins.trading \cup Pins.alerts,
              Drift("denied_set_mismatch")>>,
            <<Listed(listing, FALSE, FALSE) # Pins.sec \cup Pins.quiet,
              Drift("denied_set_mismatch")>> >>)>>)

VerifyReadiness(r) ==
    FirstOf(<<
        <<r.shape = "no_document", Failure("envelope_invalid", "malformed_readiness")>>,
        <<r.shape # "document", Drift("malformed_readiness")>>,
        <<r.version \notin Pins.versions, Drift("readiness_manifest_version_unsupported")>>,
        <<r.digest # Pins.manifest, Drift("readiness_manifest_digest_mismatch")>>,
        <<r.expected # Pins.manifest, Drift("readiness_expected_digest_mismatch")>>,
        <<~r.ready, Drift("gateway_not_ready")>> >>)

\* What becomes of an exception the gateway raises: its code and nothing else.
TranslateGatewayFailure(code) ==
    LET known == [auth_required |-> "auth_required", not_ready |-> "not_ready",
                  configuration_error |-> "not_ready",
                  capability_denied |-> "capability_denied",
                  input_invalid |-> "input_invalid",
                  provider_error |-> "provider_unavailable", timeout |-> "timeout",
                  response_too_large |-> "response_too_large",
                  protocol_error |-> "envelope_invalid"]
    IN  Failure(IF code \in DOMAIN known THEN known[code] ELSE "provider_unavailable", None)

Retryable(failure) == failure.code = "timeout"

(***************************************************************************)
(* The result envelope: everything is decided before the payload is read.  *)
(***************************************************************************)
ProseKeys == {"description", "guide", "rationale"}

CarriesProse(path) == \E i \in DOMAIN path : path[i] \in ProseKeys

DiscardProviderProse(paths) == {p \in paths : ~CarriesProse(p)}

ContainsProviderProse(paths) == \E p \in paths : CarriesProse(p)

\* The walk stops at the first node out of bounds; which one that is, is the
\* payload's own, so the model carries what the walk finds.
EnforcePayloadBounds(data) ==
    FirstOf(<<
        <<data.walk \in {"payload_too_many_nodes", "payload_too_deep", "payload_string_too_long"},
          Failure("response_too_large", data.walk)>>,
        <<data.walk = "payload_not_json", Failure("envelope_invalid", data.walk)>> >>)

ValidatedWarnings(warnings) ==
    IF warnings = "bounded" THEN Passed
    ELSE Failure("envelope_invalid", "envelope_warnings_invalid")

\* The identity of an envelope; digests are the manifest digests it may name.
EnvelopeIdentity(e, capability, digests) ==
    LET fail(rejection) == Failure("envelope_invalid", rejection)
    IN  FirstOf(<<
            <<e.shape = "no_document", fail("malformed_envelope")>>,
            <<e.shape # "document", fail("envelope_keys_mismatch")>>,
            <<e.version # Pins.envelope, fail("envelope_version_unsupported")>>,
            <<e.manifest \notin Pins.versions, fail("envelope_manifest_version_unsupported")>>,
            <<e.digest \notin digests, fail("envelope_manifest_digest_mismatch")>>,
            <<e.capability # capability, fail("envelope_capability_mismatch")>>,
            <<~e.digests, fail("envelope_digest_malformed")>>,
            <<~e.observed, fail("envelope_observed_at_malformed")>> >>)

EnvelopeFault(e, capability, digests) ==
    LET payload == DiscardProviderProse(e.data.paths)
    IN  FirstFault(<<
            EnvelopeIdentity(e, capability, digests),
            ValidatedWarnings(e.warnings),
            FirstOf(<< <<~e.data.object, Failure("envelope_invalid", "payload_not_object")>> >>),
            EnforcePayloadBounds(e.data),
            FirstOf(<< <<ContainsProviderProse(payload),
                         Failure("envelope_invalid", "prose_not_discarded")>> >>)>>)

\* As a bug: any manifest that the gateway names is good enough.
ValidateEnvelopeAny(e, capability) ==
    [fault |-> EnvelopeFault(e, capability, {e.digest}),
     payload |-> DiscardProviderProse(e.data.paths)]

ValidateEnvelope(e, capability) ==
    [fault |-> EnvelopeFault(e, capability, {Pins.manifest}),
     payload |-> DiscardProviderProse(e.data.paths)]

(***************************************************************************)
(* Opening.  Nothing is awaited before the gateway is entered.             *)
(***************************************************************************)
Idle == [pc |-> "idle", capability |-> None, result |-> None, under |-> None]

ReadInit ==
    /\ gateway \in Gateways
    /\ replaced = 0
    /\ opening = [pc |-> "new", failure |-> Passed]
    /\ startup = None
    /\ reading = [r \in Readers |-> Idle]

Composed(install, importable, options) ==
    FirstFault(<<
        VerifyInstalledArtifact(install),
        FirstOf(<<
            <<~importable,
              Failure("dependency_unavailable", "published_surface_unimportable")>>,
            <<"expected_manifest_digest" \in options,
              Failure("dependency_unavailable", "expected_manifest_digest_override")>>,
            <<"allow_mutations" \in options,
              Failure("dependency_unavailable", "allow_mutations_override")>> >>)>>)

Settled(failure, next) ==
    [pc |-> IF failure = Passed THEN next ELSE "failed", failure |-> failure]

OpenReadGateway(install, importable, options) ==
    /\ opening.pc = "new"
    /\ opening' = Settled(Composed(install, importable, options), "entering")
    /\ UNCHANGED <<gateway, replaced, startup, reading>>

\* Entering may raise, untranslated; the listing is read in the same step, and
\* what that raises is translated.
Entered ==
    /\ opening.pc = "entering"
    /\ opening' \in {Settled(VerifyReadProjection(gateway.listing), "awaiting_readiness"),
                     [pc |-> "failed", failure |-> Failure("raised", None)]}
            \cup {[pc |-> "failed", failure |-> TranslateGatewayFailure(c)] : c \in GatewayErrors}
    /\ UNCHANGED <<gateway, replaced, startup, reading>>

ReadinessAnswered ==
    /\ opening.pc = "awaiting_readiness"
    /\ opening' \in {Settled(VerifyReadiness(gateway.readiness), "open")}
            \cup {[pc |-> "failed", failure |-> TranslateGatewayFailure(c)] : c \in GatewayErrors}
    /\ startup' = IF opening'.pc = "open" THEN ToSet(Pins.projection) ELSE None
    /\ UNCHANGED <<gateway, replaced, reading>>

Closed ==
    /\ opening.pc = "open"
    /\ \A r \in Readers : reading[r].pc # "invoked"
    /\ opening' = [opening EXCEPT !.pc = "closed"]
    /\ UNCHANGED <<gateway, replaced, startup, reading>>

(***************************************************************************)
(* One named read.                                                         *)
(***************************************************************************)
ReadRefusal(capability) ==
    FirstOf(<<
        <<startup = None, Failure("not_ready", "startup_not_verified")>>,
        <<capability \notin startup, Failure("capability_denied", "capability_not_in_projection")>> >>)

Invoke(r, capability) ==
    /\ opening.pc = "open"
    /\ reading[r].pc = "idle"
    /\ LET refusal == ReadRefusal(capability)
       IN  reading' = [reading EXCEPT ![r] =
               [Idle EXCEPT !.pc = IF refusal = Passed THEN "invoked" ELSE "failed",
                            !.capability = capability,
                            !.result = IF refusal = Passed THEN None ELSE refusal]]
    /\ UNCHANGED <<gateway, replaced, opening, startup>>

Answered(r, shape) ==
    /\ reading[r].pc = "invoked"
    /\ LET envelope == shape @@ [digest |-> gateway.readiness.digest]
           answer == ValidateEnvelope(envelope, reading[r].capability)
       IN  reading' = [reading EXCEPT
               ![r].pc = IF answer.fault = Passed THEN "read" ELSE "failed",
               ![r].under = gateway.readiness.digest,
               ![r].result = IF answer.fault = Passed
                   THEN [capability |-> shape.capability, payload |-> answer.payload]
                   ELSE answer.fault]
    /\ UNCHANGED <<gateway, replaced, opening, startup>>

Raised(r, code) ==
    /\ reading[r].pc = "invoked"
    /\ reading' = [reading EXCEPT ![r].pc = "failed",
                                  ![r].result = TranslateGatewayFailure(code)]
    /\ UNCHANGED <<gateway, replaced, opening, startup>>

\* External: the gateway process is redeployed with another manifest.
Replaced(g) ==
    /\ replaced < MaxReplaced
    /\ g # gateway
    /\ gateway' = g
    /\ replaced' = replaced + 1
    /\ UNCHANGED <<opening, startup, reading>>

ReadNext ==
    \/ \E i \in Installs, b \in BOOLEAN, o \in SUBSET Options : OpenReadGateway(i, b, o)
    \/ Entered
    \/ ReadinessAnswered
    \/ Closed
    \/ \E r \in Readers :
        \/ \E i \in DOMAIN Pins.projection : Invoke(r, Pins.projection[i])
        \/ \E e \in Envelopes : Answered(r, e)
        \/ \E c \in GatewayErrors : Raised(r, c)
    \/ \E g \in Gateways : Replaced(g)

(***************************************************************************)
(* A read that returns came from a gateway that ran the pinned manifest    *)
(* when it answered, also if the gateway was replaced after the startup    *)
(* verification; it answers the capability that was asked for, that        *)
(* capability is one the reviewed manifest allows and that mutates         *)
(* nothing, and no provider prose is left in its payload                   *)
(* (RobinhoodReadClient._read).                                            *)
(***************************************************************************)
ReadsPinned ==
    \A r \in Readers : reading[r].pc = "read" =>
        /\ reading[r].under = Pins.manifest
        /\ reading[r].result.capability = reading[r].capability
        /\ reading[r].capability \in Pins.reads
        /\ ~ContainsProviderProse(reading[r].result.payload)
=============================================================================
