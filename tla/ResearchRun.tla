----------------------------- MODULE ResearchRun -----------------------------
(***************************************************************************)
(* A research run (agents/research_agent.py on agents/tools/runner.py):    *)
(* ResearchAgent.run lets a model call tools and answer with a narrative,  *)
(* at most twice, under one deadline and one process-wide lock.            *)
(*                                                                         *)
(* The run is a coroutine.  A tool call is carried to a worker thread      *)
(* (`reader`), which goes on when the run has timed out or was cancelled.  *)
(* Calls are invocations of run; two of them may be given the same run id  *)
(* (RunOf) and then share its ResearchTools.  The model is the             *)
(* environment: it calls tools, replies, fails or never answers.           *)
(***************************************************************************)
EXTENDS Integers, Sequences, SequencesExt, FiniteSets, FiniteSetsExt

(***************************************************************************)
(* What a research read is worth (agents/tools/runner.py): the verdict on  *)
(* one reading of one of the eight tools, and the packet that              *)
(* agents/research_builder.py makes of the readings a run captured.        *)
(*                                                                         *)
(* A reading is named by what is the matter with it:                       *)
(*   good, other  two sound readings with different content                *)
(*   short        a side of the quote or book, bars, or items are missing  *)
(*   delayed, stale, foreign, future, huge, raises, absent                 *)
(* A capture is [tool, reading, status]; the evidence a read registers is  *)
(* named by its tool and content, so it is <<tool, reading>>.              *)
(***************************************************************************)
ToolNames == {"quote", "price_book", "history", "indicators", "filings", "news",
              "concentration", "buying_power"}

Readings == {"good", "other", "short", "delayed", "stale", "foreign", "future", "huge",
             "raises", "absent"}

(* _scan: metadata from the future and oversized values are refused,       *)
(* a delayed source flags the result.                                      *)
ScanRefuses(reading) == reading \in {"future", "huge"}
ScanFlags(reading)   == reading = "delayed"

(* The check each tool passes to _execute: it refuses the reading, flags   *)
(* it or finds nothing.                                                    *)
Sided(reading) ==
  IF reading = "foreign" THEN "refused" ELSE IF reading = "short" THEN "flagged" ELSE "clear"

(* History keeps what assess_bars finds as flags; indicators are computed  *)
(* only from bars without an issue.                                        *)
Historical(reading)  == IF reading \in {"foreign", "short"} THEN "flagged" ELSE "clear"
Indicative(reading)  == IF reading \in {"good", "other"} THEN "clear" ELSE "refused"

(* Filings are always a partial view; a portfolio has no short form.       *)
Filed(reading)    == IF reading = "foreign" THEN "refused" ELSE "flagged"
Reported(reading) == Sided(reading)
Weighed(reading)  == IF reading = "foreign" THEN "refused" ELSE "clear"

Check(tool, reading) ==
  CASE tool \in {"quote", "price_book"} -> Sided(reading)
    [] tool = "history"    -> Historical(reading)
    [] tool = "indicators" -> Indicative(reading)
    [] tool = "filings"    -> Filed(reading)
    [] tool = "news"       -> Reported(reading)
    [] OTHER               -> Weighed(reading)

(* The status _execute gives the reading.                                  *)
Verdict(tool, reading) ==
  IF reading \in {"raises", "absent"} \/ ScanRefuses(reading) \/ Check(tool, reading) = "refused"
  THEN "error"
  ELSE IF ScanFlags(reading) \/ reading = "stale" \/ Check(tool, reading) = "flagged" THEN "partial"
  ELSE "complete"

EvidenceOf(captures) ==
  {<<captures[i].tool, captures[i].reading>> :
      i \in {j \in DOMAIN captures : captures[j].status # "error"}}

NamesOf(captures) == {captures[i].tool : i \in DOMAIN captures}
Flagged(captures) == \E i \in DOMAIN captures : captures[i].status # "complete"

(* The first check that fails names the outcome.                           *)
FirstFailure(checks) ==
  LET bad == {i \in DOMAIN checks : checks[i][1]}
  IN  IF bad = {} THEN "none" ELSE checks[Min(bad)][2]

(* The narrative checks ResearchAgent.run and _reconcile share: a claim    *)
(* cites evidence, an observation repeats the words of what it cites, no   *)
(* claim has figures or advice.                                            *)
ClaimFailure(narrative) ==
  FirstFailure(<<
    <<narrative.words = "prohibited", "PROHIBITED_NARRATIVE">>,
    <<narrative.kind = "observation" /\ narrative.words # "summary", "UNSUPPORTED_CLAIM">> >>)

(* A plausible slip: the last of two readings of one tool wins.            *)
ConflictingNever(captures, i) == FALSE

(* _reconcile: each capture in turn agrees with those before it and, when  *)
(* the run's tools are at hand, with the evidence registry.                *)
Conflicting(captures, i) ==
  \E j \in 1..(i - 1) : captures[j].tool = captures[i].tool
                        /\ captures[j].reading # captures[i].reading

CaptureFailure(captures, i, registry) ==
  FirstFailure(<<
    <<captures[i].status = "error", "TOOL_FAILED">>,
    <<Conflicting(captures, i), "TOOL_RESULT_CONFLICT">>,
    <<<<captures[i].tool, captures[i].reading>> \notin registry, "ASSEMBLY_FAILED">> >>)

ReconcileFailure(result, required, registry) ==
  LET c == result.captures IN
  FirstFailure(
    << <<c = <<>>, "CAPTURE_BINDING_INVALID">> >>
    \o [i \in DOMAIN c |->
          <<CaptureFailure(c, i, registry) # "none", CaptureFailure(c, i, registry)>>]
    \o << <<~(required \subseteq NamesOf(c)), "REQUIRED_CAPTURE_MISSING">>,
          <<~(result.evidence \subseteq EvidenceOf(c)), "NARRATIVE_EVIDENCE_INVALID">>,
          <<ClaimFailure(result.narrative) # "none", ClaimFailure(result.narrative)>> >>)

(* _packet: the market section needs a complete quote, the technical one   *)
(* indicators that the captured history gives again.                       *)
ReadingOf(captures, tool) ==
  IF tool \in NamesOf(captures)
  THEN captures[Max({i \in DOMAIN captures : captures[i].tool = tool})].reading
  ELSE "absent"

(* A plausible slip: the indicators captured are taken as they are.        *)
RecomputedNever(captures) == "none"

(* compute_indicators again, from the captured bars.                       *)
Recomputed(captures) ==
  FirstFailure(<<
    <<"history" \notin NamesOf(captures), "TECHNICAL_INPUT_INVALID">>,
    <<Indicative(ReadingOf(captures, "history")) = "refused", "ASSEMBLY_FAILED">>,
    <<ReadingOf(captures, "history") # ReadingOf(captures, "indicators"),
      "TECHNICAL_REPLAY_INVALID">> >>)

PacketFailure(result) ==
  LET c == result.captures
  IN  FirstFailure(<<
        <<Verdict("quote", ReadingOf(c, "quote")) # "complete", "REQUIRED_QUOTE_INVALID">>,
        <<"indicators" \in NamesOf(c) /\ Recomputed(c) # "none", Recomputed(c)>>,
        <<ReadingOf(c, "concentration") = "stale", "PORTFOLIO_SCOPE_INVALID">> >>)

(* The packet's content: the reading behind each section, the claims'      *)
(* evidence and whether any quality flag is set.                           *)
Sections == {"quote", "indicators", "concentration"}

Packet(result) ==
  [sections |-> [s \in Sections |-> ReadingOf(result.captures, s)],
   evidence |-> EvidenceOf(result.captures),
   flagged  |-> \/ Flagged(result.captures)
                \/ result.status # "complete" \/ ~result.usageComplete
                \/ result.narrative.kind = "hypothesis"
                \/ ~({"indicators", "concentration"} \subseteq NamesOf(result.captures))]

(* build_research_archive: a failed run is archived as its failure, one    *)
(* that cannot be assembled as the reason, any other with its packet.      *)
Archive(result, required, registry) ==
  LET code == IF result.status = "error" THEN result.code
              ELSE IF ReconcileFailure(result, required, registry) # "none"
              THEN ReconcileFailure(result, required, registry)
              ELSE PacketFailure(result)
  IN  IF code # "none"
      THEN [agent |-> result, packet |-> <<>>, code |-> code, status |-> "error"]
      ELSE [agent |-> result, packet |-> <<Packet(result)>>, code |-> code,
            status |-> IF Packet(result).flagged THEN "partial" ELSE "complete"]

(* replay_research_archive: rebuilt from the captures alone, without the   *)
(* registry of the run.                                                    *)
Replays(archive, required) ==
  \/ archive.status = "error"
  \/ /\ ReconcileFailure(archive.agent, required, EvidenceOf(archive.agent.captures)) = "none"
     /\ PacketFailure(archive.agent) = "none"
     /\ archive.packet = <<Packet(archive.agent)>>
-----------------------------------------------------------------------------
CONSTANTS Calls, Runs, RunOf, None, Alien,
          Tools,        \* the tools the model calls, of ToolNames
          Sources,      \* the readings the sources return, of Readings
          Required,     \* limits.required_tools
          HistoryGiven, \* the calls that were given a history input
          ToolCalls,    \* limits.tool_calls
          Requests,     \* limits.requests
          ReadLimit,    \* reads of one ResearchTools
          UsedLimit,    \* run ids one agent takes
          MaxMade       \* bound: requests of one attempt

ASSUME RunAssumption ==
  /\ RunOf \in [Calls -> Runs] /\ Tools \subseteq ToolNames /\ Sources \subseteq Readings
  /\ Required \subseteq Tools /\ Required # {} /\ HistoryGiven \subseteq Calls

VARIABLES
  lock,    \* the call that holds _RUN_LOCK, or None
  used,    \* run ids the agent has taken
  call,    \* each invocation's record and its read facade
  tools,   \* each run's ResearchTools
  reader   \* each invocation's tool thread

runvars == <<lock, used, call, tools, reader>>

NoResult == [status |-> "none", code |-> "none", evidence |-> {}, captures |-> <<>>,
             narrative |-> [ids |-> {}, kind |-> "none", words |-> "none"],
             requests |-> 0, usageComplete |-> TRUE]

RunInit ==
  /\ lock = None /\ used = {}
  /\ call = [c \in Calls |-> [pc |-> "idle", attempt |-> 0, requests |-> 0, complete |-> TRUE,
                              made |-> 0, busy |-> FALSE, error |-> FALSE, reads |-> 0,
                              captures |-> <<>>, result |-> NoResult]]
  /\ tools = [r \in Runs |-> [closed |-> FALSE, failed |-> FALSE, reads |-> 0,
                              evidence |-> {}, completed |-> {}]]
  /\ reader = [c \in Calls |-> None]

ToolsOf(c) == tools[RunOf[c]]

(* error(code): the failed result keeps the captures and the usage         *)
(* recorded so far.                                                        *)
Failure(rec, code) ==
  [NoResult EXCEPT !.status = "error", !.code = code, !.captures = rec.captures,
                   !.requests = rec.requests, !.usageComplete = rec.complete]

Ended(rec, result) == [rec EXCEPT !.pc = "done", !.busy = FALSE, !.result = result]

(* add_usage: requests accumulate, one unknown usage makes the sum unknown.*)
AddUsage(rec, u) ==
  [rec EXCEPT !.requests = @ + u.counted, !.complete = @ /\ u.complete, !.made = @ + u.made]

(* What the provider was asked and what the telemetry says of it.          *)
Usages == {[made |-> n, counted |-> n, complete |-> TRUE] : n \in 1..MaxMade}
          \cup {[made |-> 1, counted |-> 0, complete |-> FALSE]}

-----------------------------------------------------------------------------
(* ResearchAgent.run up to the first model call.                           *)
Begin(c) ==
  /\ call[c].pc = "idle"
  /\ IF lock # None
     THEN /\ call' = [call EXCEPT ![c] = Ended(@, Failure(@, "RUN_BUSY"))]
          /\ UNCHANGED <<lock, used>>
     ELSE IF RunOf[c] \in used \/ Cardinality(used) >= UsedLimit
     THEN /\ call' = [call EXCEPT ![c] = Ended(@, Failure(@, "RUN_REUSED"))]
          /\ UNCHANGED <<lock, used>>
     ELSE /\ call' = [call EXCEPT ![c].pc = "asking", ![c].attempt = 1]
          /\ lock' = c
          /\ used' = used \cup {RunOf[c]}
  /\ UNCHANGED <<tools, reader>>

(* The facade's _read before it hands the call to its thread.  A refused   *)
(* read marks the run as failed even when the model goes on.               *)
CallTool(c, t) ==
  LET spent == call[c].reads >= ToolCalls
      unfed == t \in {"history", "indicators"} /\ c \notin HistoryGiven
  IN  /\ call[c].pc = "asking"
      /\ IF call[c].busy \/ spent
         THEN /\ ~call[c].error
              /\ call' = [call EXCEPT ![c].error = TRUE]
              /\ UNCHANGED reader
         ELSE IF unfed
         THEN /\ call' = [call EXCEPT ![c].error = TRUE, ![c].reads = @ + 1]
              /\ UNCHANGED reader
         ELSE /\ reader[c] = None
              /\ call' = [call EXCEPT ![c].busy = TRUE, ![c].reads = @ + 1]
              /\ reader' = [reader EXCEPT ![c] = [tool |-> t, stage |-> "queued",
                                                  reading |-> "absent", status |-> "none"]]
      /\ UNCHANGED <<lock, used, tools>>

(* _execute holds the run's lock from its first check to its return.       *)
InExecute(c) == reader[c] # None /\ reader[c].stage \in {"reading", "checked"}

Returned(c, reading, status) ==
  [reader EXCEPT ![c].stage = "returned", ![c].reading = reading, ![c].status = status]

(* _execute up to the submitted read.                                      *)
StartRead(c) ==
  /\ reader[c] # None /\ reader[c].stage = "queued"
  /\ LET r == RunOf[c]
         busy == \E d \in Calls \ {c} : RunOf[d] = r /\ InExecute(d)
         over == ToolsOf(c).reads >= ReadLimit
     IN  IF busy \/ ToolsOf(c).closed \/ over
         THEN /\ reader' = Returned(c, "absent", "error")
              /\ tools' = [tools EXCEPT ![r].failed = TRUE,
                                        ![r].closed = @ \/ (~busy /\ over)]
         ELSE /\ reader' = [reader EXCEPT ![c].stage = "reading"]
              /\ tools' = [tools EXCEPT ![r].reads = @ + 1]
  /\ UNCHANGED <<lock, used, call>>

(* The source answers and _execute judges the reading, up to the check     *)
(* that the run is still open.                                             *)
FinishRead(c) ==
  /\ reader[c] # None /\ reader[c].stage = "reading"
  /\ \E reading \in Sources :
       LET verdict == Verdict(reader[c].tool, reading)
       IN  IF verdict = "error" \/ ToolsOf(c).closed
           THEN /\ reader' = Returned(c, reading, "error")
                /\ tools' = [tools EXCEPT ![RunOf[c]].failed = TRUE]
           ELSE /\ reader' = [reader EXCEPT ![c].stage = "checked", ![c].reading = reading,
                                            ![c].status = verdict]
                /\ UNCHANGED tools
  /\ UNCHANGED <<lock, used, call>>

(* The read times out: the run is closed to further reads.                 *)
ReadTimesOut(c) ==
  /\ reader[c] # None /\ reader[c].stage = "reading"
  /\ reader' = Returned(c, "absent", "error")
  /\ tools' = [tools EXCEPT ![RunOf[c]].failed = TRUE, ![RunOf[c]].closed = TRUE]
  /\ UNCHANGED <<lock, used, call>>

(* The evidence enters the registry, after the check and not with it.      *)
Register(c) ==
  /\ reader[c] # None /\ reader[c].stage = "checked"
  /\ LET x == reader[c] IN
       /\ tools' = [tools EXCEPT
            ![RunOf[c]].evidence  = @ \cup {<<x.tool, x.reading>>},
            ![RunOf[c]].failed    = @ \/ x.status = "partial",
            ![RunOf[c]].completed = IF x.status = "complete" THEN @ \cup {x.tool} ELSE @]
       /\ reader' = [reader EXCEPT ![c].stage = "returned"]
  /\ UNCHANGED <<lock, used, call>>

(* The facade's _read goes on: it captures the result of a run that still  *)
(* waits for it, if the captures stay within MAX_RUN_CAPTURE_BYTES (their  *)
(* sizes are the payloads' own), and drops it otherwise.                   *)
Captured(rec, x, fits) ==
  IF ~fits THEN [rec EXCEPT !.busy = FALSE, !.error = TRUE]
  ELSE [rec EXCEPT !.busy = FALSE, !.error = @ \/ x.status = "error",
                   !.captures = Append(@, [tool |-> x.tool, reading |-> x.reading, status |-> x.status])]

Resume(c) ==
  /\ reader[c] # None
  /\ reader[c].stage = "returned" \/ (reader[c].stage = "queued" /\ call[c].pc = "done")
  /\ \E fits \in BOOLEAN :
       call' = IF call[c].pc = "asking" THEN [call EXCEPT ![c] = Captured(@, reader[c], fits)] ELSE call
  /\ reader' = [reader EXCEPT ![c] = None]
  /\ UNCHANGED <<lock, used, tools>>

-----------------------------------------------------------------------------
(* What run makes of a reply.                                              *)
ReplyFailure(rec, t, n) ==
  FirstFailure(<<
    <<rec.requests > Requests, "USAGE_LIMIT">>,
    <<n.words = "malformed", "MODEL_FAILED">>,
    <<n.words = "empty", "EMPTY_NARRATIVE">>,
    <<rec.error \/ ~(Required \subseteq NamesOf(rec.captures)), "REQUIRED_TOOL_FAILED">>,
    <<~(n.ids \subseteq EvidenceOf(rec.captures)), "UNSUPPORTED_EVIDENCE">>,
    <<~(n.ids \subseteq t.evidence), "MODEL_FAILED">>,
    <<ClaimFailure(n) # "none", ClaimFailure(n)>> >>)

(* ResearchTools.is_complete.                                              *)
IsComplete(t) == ~t.failed /\ Required \subseteq t.completed

(* A plausible slip: an unknown usage is not flagged.                      *)
ReplyFlaggedKnown(rec, t, n) ==
  Flagged(rec.captures) \/ n.kind = "hypothesis" \/ ~IsComplete(t)

(* The flags that make an accepted narrative partial.                      *)
ReplyFlagged(rec, t, n) ==
  Flagged(rec.captures) \/ ~rec.complete \/ n.kind = "hypothesis" \/ ~IsComplete(t)

Judged(rec, t, n) ==
  IF ReplyFailure(rec, t, n) # "none" THEN Failure(rec, ReplyFailure(rec, t, n))
  ELSE [status |-> IF ReplyFlagged(rec, t, n) THEN "partial" ELSE "complete",
        code |-> "none", evidence |-> n.ids, captures |-> rec.captures, narrative |-> n,
        requests |-> rec.requests, usageComplete |-> rec.complete]

Narratives(c) ==
  {[ids |-> {}, kind |-> "none", words |-> w] : w \in {"empty", "malformed"}}
  \cup [ids : {s \in SUBSET (ToolsOf(c).evidence \cup {Alien}) : s # {} /\ Cardinality(s) <= 2},
        kind : {"observation"}, words : {"summary", "own"}]
  \cup [ids : {{Alien}, ToolsOf(c).evidence} \ {{}}, kind : {"hypothesis"},
        words : {"own", "prohibited"}]

(* A plausible slip: the lock is not released in a `finally`.              *)
FinishLocked(c, rec, result) ==
  /\ call' = [call EXCEPT ![c] = Ended(rec, result)]
  /\ lock' = IF result.code = "TIMEOUT" THEN lock ELSE None

(* Every way out of run closes the facade and releases the lock.           *)
Finish(c, rec, result) ==
  /\ call' = [call EXCEPT ![c] = Ended(rec, result)]
  /\ lock' = None

(* The model replies; it may have left a read in flight.                   *)
Reply(c) ==
  /\ call[c].pc = "asking"
  /\ \E u \in Usages, n \in Narratives(c) :
       \E rec \in {AddUsage(call[c], u)} : Finish(c, rec, Judged(rec, ToolsOf(c), n))
  /\ UNCHANGED <<used, tools, reader>>

(* TransientModelError: the usage is added and the model is asked once     *)
(* more, unless the limits are reached.                                    *)
Transient(c) ==
  /\ call[c].pc = "asking"
  /\ \E u \in Usages : \E rec \in {AddUsage(call[c], u)} :
       IF rec.attempt = 2 THEN Finish(c, rec, Failure(rec, "TRANSIENT_RETRY_EXHAUSTED"))
       ELSE IF rec.requests >= Requests
       THEN Finish(c, [rec EXCEPT !.attempt = 2], Failure(rec, "USAGE_LIMIT"))
       ELSE /\ call' = [call EXCEPT ![c] = [rec EXCEPT !.attempt = 2]]
            /\ UNCHANGED lock
  /\ UNCHANGED <<used, tools, reader>>

(* ModelFailure carries its telemetry.                                     *)
ModelFails(c) ==
  /\ call[c].pc = "asking"
  /\ \E u \in Usages : \E rec \in {AddUsage(call[c], u)} :
       Finish(c, rec, Failure(rec, "MODEL_FAILED"))
  /\ UNCHANGED <<used, tools, reader>>

(* Any other exception ends the run with the usage recorded so far: the    *)
(* requests of this attempt are in no telemetry.                           *)
ModelRaises(c) ==
  /\ call[c].pc = "asking"
  /\ \E made \in 0..1 :
       Finish(c, [call[c] EXCEPT !.made = @ + made], Failure(call[c], "MODEL_FAILED"))
  /\ UNCHANGED <<used, tools, reader>>

(* The deadline: the consumption is unknown and the tools are closed.      *)
TimedOut(rec) == [rec EXCEPT !.complete = FALSE]

Timeout(c) ==
  /\ call[c].pc = "asking"
  /\ \E made \in 0..1 : \E rec \in {TimedOut([call[c] EXCEPT !.made = @ + made])} :
       Finish(c, rec, Failure(rec, "TIMEOUT"))
  /\ tools' = [tools EXCEPT ![RunOf[c]].closed = TRUE]
  /\ UNCHANGED <<used, reader>>

(* The task that awaits the run is cancelled: nothing is returned.         *)
Cancel(c) ==
  /\ call[c].pc = "asking"
  /\ \E made \in 0..1 : Finish(c, [call[c] EXCEPT !.made = @ + made], NoResult)
  /\ tools' = [tools EXCEPT ![RunOf[c]].closed = TRUE]
  /\ UNCHANGED <<used, reader>>

ReadStep(c) == StartRead(c) \/ FinishRead(c) \/ ReadTimesOut(c) \/ Register(c) \/ Resume(c)

ModelStep(c) == \/ \E t \in Tools : CallTool(c, t)
                \/ Reply(c) \/ Transient(c) \/ ModelFails(c) \/ ModelRaises(c)
                \/ Timeout(c) \/ Cancel(c)

-----------------------------------------------------------------------------
(* A result called complete was earned: the consumption is known in full,  *)
(* every required tool was read completely, nothing the run captured was   *)
(* failed or flagged, no claim is a guess, and what the claims cite was    *)
(* read by this run and is in its registry (ResearchAgent.run).            *)
CompleteIsEarned ==
  \A c \in Calls : call[c].result.status = "complete" =>
    LET res == call[c].result IN
    /\ res.usageComplete /\ res.requests = call[c].made /\ res.requests <= Requests
    /\ \A i \in DOMAIN res.captures : res.captures[i].status = "complete"
    /\ Required \subseteq NamesOf(res.captures)
    /\ res.narrative.kind = "observation"
    /\ res.evidence \subseteq EvidenceOf(res.captures) \cap ToolsOf(c).evidence

(* Whatever happens to a run, the process-wide lock is freed again: the    *)
(* deadline ends a run whose model never answers.                          *)
LockFreed == \A c \in Calls : lock = c ~> lock # c
=============================================================================
