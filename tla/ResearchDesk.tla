----------------------------- MODULE ResearchDesk -----------------------------
(***************************************************************************)
(* A research run from admission to its stored archive: the budget guard   *)
(* reserves its cost, the agent runs, the guard is settled with the run's  *)
(* record, and the archive is appended to the research tables              *)
(* (db/research.py).  The repository leaves the order of these calls to    *)
(* its caller; the one modelled is the one its tests use.  A caller may    *)
(* die after any of them, and settle and append may be repeated.           *)
(***************************************************************************)
EXTENDS ResearchRun

CONSTANTS Ceiling, MaxRuns, Rate, Million,   \* the budget and its prices
          MaxRecords,   \* quota.max_records
          Reserved,     \* the tokens a run reserves; a request costs one
          MaxTokens     \* bound: tokens of a reservation or record

(* The research budget guard (agents/research_budget.py): before a model   *)
(* run starts its largest cost is reserved against a fixed ceiling, and    *)
(* when it ends the reservation is settled with the usage the run          *)
(* reported.  The guard is one record behind one lock, so each method is   *)
(* one step; the operators say what each method leaves behind.  Tokens are *)
(* counted in units whose rate is Rate.                                    *)
ASSUME BudgetAssumption == /\ Ceiling \in Nat /\ MaxRuns \in Nat
                           /\ Rate \in Nat \ {0} /\ Million \in Nat \ {0}

(* ResearchCostRates.estimate: the price of a usage, rounded up.           *)
Estimate(tokens) == (tokens * Rate + Million - 1) \div Million

Open == [known |-> FALSE, tokens |-> 0, open |-> TRUE]
Usage(tokens, known) == [known |-> known, tokens |-> tokens, open |-> FALSE]

NewGuard == [entries |-> [r \in {} |-> 0], spent |-> 0, paused |-> FALSE, alerts |-> 0]

(* The part of _snapshot's sum: what is still open, and what was settled   *)
(* with its consumption unknown, stays held.                               *)
Holds(entry) == entry.settled.open \/ ~entry.settled.known

Held(g) ==
  MapThenSumSet(LAMBDA r : g.entries[r].amount,
                {r \in DOMAIN g.entries : Holds(g.entries[r])})

Remaining(g) ==
  LET left == Ceiling - g.spent - Held(g) IN IF left > 0 THEN left ELSE 0

(* _pause: sticky, and only the first pause raises an alert.               *)
Pause(g) ==
  [g EXCEPT !.paused = TRUE,
                !.alerts = IF g.paused THEN g.alerts ELSE g.alerts + 1]

Entered(g, r, entry) ==
  [x \in DOMAIN g.entries \cup {r} |-> IF x = r THEN entry ELSE g.entries[x]]

(* reserve: the guard after it, for a run id not used before; the run is   *)
(* admitted exactly when the guard then has an entry for it.               *)
Refuses(g, tokens) ==
  \/ Cardinality(DOMAIN g.entries) >= MaxRuns
  \/ Estimate(tokens) > Remaining(g)

Reserve(g, r, tokens) ==
  IF g.paused THEN g
  ELSE IF Refuses(g, tokens) THEN Pause(g)
  ELSE [g EXCEPT !.entries =
          Entered(g, r, [maximum |-> tokens, amount |-> Estimate(tokens), settled |-> Open])]

(* settle, first time, of a run whose consumption is not known: the hold   *)
(* stays, grows to what was seen, and the guard pauses.                    *)
SettleUnknown(g, r, usage) ==
  LET entry == g.entries[r]
      seen  == Estimate(usage.tokens)
  IN  Pause([g EXCEPT !.entries[r].settled = usage,
                          !.entries[r].amount = IF seen > entry.amount THEN seen ELSE entry.amount])

(* A plausible slip: a run that outgrew its reservation does not pause.    *)
SettleKnownQuiet(g, r, usage) ==
  [g EXCEPT !.entries[r].settled = usage, !.spent = @ + Estimate(usage.tokens)]

(* settle, first time, of a known consumption: the hold becomes spending,  *)
(* and the guard pauses when the run outgrew its reservation or nothing is *)
(* left.                                                                   *)
SettleKnown(g, r, usage) ==
  LET paid == [g EXCEPT !.entries[r].settled = usage,
                            !.spent = @ + Estimate(usage.tokens)]
  IN  IF usage.tokens > g.entries[r].maximum \/ Remaining(paid) = 0
      THEN Pause(paid) ELSE paid

(* settle of a reserved run: repeating the same usage changes nothing, a   *)
(* different one is a conflict that changes nothing.                       *)
Settle(g, r, usage) ==
  IF ~g.entries[r].settled.open THEN g
  ELSE IF usage.known THEN SettleKnown(g, r, usage) ELSE SettleUnknown(g, r, usage)
-----------------------------------------------------------------------------
VARIABLES guard,        \* the budget guard
          rows          \* the tables: [runs, packets, audits]

deskvars == <<runvars, guard, rows>>

Init ==
  /\ RunInit
  /\ guard = NewGuard
  /\ rows = [runs |-> [r \in Runs |-> None], packets |-> [r \in Runs |-> <<>>], audits |-> {}]

(* The caller reserves.  A run id that was reserved before is refused with *)
(* no effect.                                                              *)
Admit(r, tokens) ==
  /\ r \notin DOMAIN guard.entries
  /\ guard' = Reserve(guard, r, tokens)
  /\ UNCHANGED <<runvars, rows>>

(* Only an admitted run starts.                                            *)
Start(c) ==
  /\ RunOf[c] \in DOMAIN guard.entries
  /\ Begin(c)
  /\ UNCHANGED <<guard, rows>>

HasResult(c) == call[c].pc = "done" /\ call[c].result.status # "none"

(* A record is settled under its run id, whichever call left it: that of a *)
(* call refused as RUN_BUSY or RUN_REUSED settles the run at nothing.      *)
SettleRecord(c) ==
  /\ HasResult(c)
  /\ guard' = Settle(guard, RunOf[c],
                     Usage(call[c].result.requests, call[c].result.usageComplete))
  /\ UNCHANGED <<runvars, rows>>

(* ResearchRepository.get: the row of a run counts only with its packet    *)
(* row, its audit event, and if it replays.                                *)
Intact(db, r) ==
  db.runs[r] # None =>
    /\ db.packets[r] = db.runs[r].packet
    /\ [subject |-> r, output |-> db.runs[r]] \in db.audits
    /\ Replays(db.runs[r], Required)

Stored(db) == {r \in Runs : db.runs[r] # None}

(* ResearchRepository.append, in one write transaction: an archive that    *)
(* does not replay is refused, the same archive again changes nothing, a   *)
(* different one is a conflict, and the quota bounds the size of an        *)
(* archive (fits) and the number of rows.  A packet or audit event that is *)
(* there without the run breaks a constraint and undoes the insertion.     *)
AppendAnswer(db, r, archive, fits) ==
  FirstFailure(<<
    <<~Replays(archive, Required), "RESEARCH_APPEND_FAILED">>,
    <<~fits, "RESEARCH_QUOTA_EXCEEDED">>,
    <<~Intact(db, r), "RESEARCH_INTEGRITY_FAILED">>,
    <<db.runs[r] # None /\ db.runs[r] # archive, "RESEARCH_CONFLICT">>,
    <<db.runs[r] # None, "replayed">>,
    <<Cardinality(Stored(db)) >= MaxRecords, "RESEARCH_QUOTA_EXCEEDED">>,
    <<db.packets[r] # <<>> \/ [subject |-> r, output |-> archive] \in db.audits,
      "RESEARCH_CONFLICT">> >>)

(* A plausible slip: only the packet of a complete run is kept.            *)
InsertedComplete(db, r, archive) ==
  [runs |-> [db.runs EXCEPT ![r] = archive],
   packets |-> [db.packets EXCEPT ![r] = IF archive.status = "complete" THEN archive.packet ELSE @],
   audits |-> db.audits \cup {[subject |-> r, output |-> archive]}]

(* _insert: the run, its packet if it has one, and the audit event.        *)
Inserted(db, r, archive) ==
  [runs |-> [db.runs EXCEPT ![r] = archive],
   packets |-> [db.packets EXCEPT ![r] = archive.packet],
   audits |-> db.audits \cup {[subject |-> r, output |-> archive]}]

Store(r, result, registry) ==
  \E archive \in {Archive(result, Required, registry)}, fits \in BOOLEAN :
    /\ AppendAnswer(rows, r, archive, fits) = "none"
    /\ rows' = Inserted(rows, r, archive)

StoreArchive(c) ==
  /\ HasResult(c)
  /\ Store(RunOf[c], call[c].result, ToolsOf(c).evidence)
  /\ UNCHANGED <<runvars, guard>>

Next ==
  \E c \in Calls :
    \/ Admit(RunOf[c], Reserved) \/ Start(c) \/ SettleRecord(c) \/ StoreArchive(c)
    \/ (ReadStep(c) \/ ModelStep(c)) /\ UNCHANGED <<guard, rows>>

(* The guard on its own: any caller, any record.                           *)
SettleAny(r, usage) ==
  /\ r \in DOMAIN guard.entries
  /\ guard' = Settle(guard, r, usage)
  /\ UNCHANGED <<runvars, rows>>

GuardNext ==
  \E r \in Runs, tokens \in 0..MaxTokens :
    Admit(r, tokens) \/ \E known \in BOOLEAN : SettleAny(r, Usage(tokens, known))

-----------------------------------------------------------------------------
(* The guard never lets the ceiling be passed unnoticed: as soon as what   *)
(* is spent and held exceeds it no further run is admitted, an operator    *)
(* was told exactly once, and an unknown consumption keeps at least the    *)
(* hold its run was admitted with (ResearchBudgetGuard).                   *)
CeilingWatched ==
  /\ guard.spent + Held(guard) > Ceiling => guard.paused
  /\ guard.alerts = IF guard.paused THEN 1 ELSE 0
  /\ \A r \in DOMAIN guard.entries :
       LET e == guard.entries[r] IN
       Holds(e) => e.amount >= Estimate(e.maximum) /\ e.amount >= Estimate(e.settled.tokens)

(* What is stored can be used: a stored archive is read back whole and     *)
(* replays from its own captures, and it carries a packet only when its    *)
(* readings agree, its quote is sound, its indicators are those of the     *)
(* bars it shows and its portfolio is fresh; nothing flagged is called     *)
(* complete (build_research_archive, replay_research_archive, append).     *)
PacketSound(archive) ==
  LET c == archive.agent.captures
      Of(tool) == {c[i].reading : i \in {j \in DOMAIN c : c[j].tool = tool}}
      sound == {"good", "other"}
  IN  /\ \A tool \in ToolNames : Cardinality(Of(tool)) <= 1
      /\ Of("quote") # {} /\ Of("quote") \subseteq sound
      /\ Of("indicators") # {} => Of("indicators") = Of("history") /\ Of("history") \subseteq sound
      /\ "stale" \notin Of("concentration")
      /\ archive.status = "complete" => \A i \in DOMAIN c : c[i].status = "complete"

StoredReplays ==
  /\ Cardinality(Stored(rows)) <= MaxRecords
  /\ \A r \in Stored(rows) :
       /\ Intact(rows, r)
       /\ rows.runs[r].status # "error" => PacketSound(rows.runs[r])

(* A stored archive is the one its run would still build from its registry,*)
(* whatever late reads have done to it since.                              *)
StoredStands ==
  \A r \in Stored(rows) :
    \E c \in Calls : RunOf[c] = r
                     /\ rows.runs[r] = Archive(call[c].result, Required, tools[r].evidence)
=============================================================================
