----------------------------- MODULE Strategies -----------------------------
(***************************************************************************)
(* evaluate_many_in_workers and run_worker (strategies/worker/runner.py):  *)
(* the parent evaluates a batch of strategy runs one after the other, each *)
(* in a child process (child.py) that confines itself (isolation.py,       *)
(* env.py) before it imports the strategy.  Parent and child interleave:   *)
(* the wall clock may expire, the memory watchdog or the CPU limit may     *)
(* kill, and the strategy may leave, or leave a process behind, between    *)
(* any two steps of the other.                                             *)
(*                                                                         *)
(* A run of the batch is [params |-> are the parameters valid, mem |-> is  *)
(* a memory limit set].  The child is a record of what the operating       *)
(* system knows (alive, exit code, environment) and what it did (confined, *)
(* evaluated, the last line on stdout).  An environment is a set of        *)
(* entries [key, from, hint]: keys stand for the classes env.py tells      *)
(* apart, from says whose value it is, hint that the value looks secret.   *)
(***************************************************************************)
EXTENDS Integers, Sequences, SequencesExt

CONSTANTS Runs, None

VARIABLES
  at,       \* the run of the batch being evaluated
  parent,   \* "next" | "spawn" | "wait" | "reap" | "classify" | "raised"
  child,    \* the child process of this run
  timed,    \* timed_out
  workdir,  \* does the directory of this run exist
  records   \* the WorkerRunRecords so far, with what was true of their child

workervars == <<at, parent, child, timed, workdir, records>>

NoChild == [pc |-> "none", environ |-> {}, confined |-> FALSE, evaluated |-> FALSE,
            line |-> [id |-> 0, status |-> "none", code |-> "NONE"],
            code |-> None, kin |-> FALSE]

(* The classes of names: two credentials, one of them under a prefix the   *)
(* worker uses; a host path; an allowed name; an unlisted one; the         *)
(* worker's own directory.                                                 *)
HostEnviron ==
  [key : {"TELEGRAM_TOKEN", "AINVEST_WORKER_SECRET", "HOME", "PATH", "EDITOR", "AINVEST_WORKER_DIR"},
   from : {"host"}, hint : BOOLEAN]

IsDeniedSecretKey(key) == key \in {"TELEGRAM_TOKEN", "AINVEST_WORKER_SECRET"}

IsSensitiveEnvKey(key) ==
  \/ IsDeniedSecretKey(key) \/ key = "HOME"
  \/ key \notin {"PATH", "AINVEST_WORKER_DIR", "AINVEST_WORKER_SECRET"}

ScrubEnviron(environ) == {e \in environ : ~IsSensitiveEnvKey(e.key) /\ ~e.hint}

Rebound(environ, keys) ==
  {e \in environ : e.key \notin keys} \cup [key : keys, from : {"workdir"}, hint : {FALSE}]

(* The limits and the directory go into the child's environment, and the   *)
(* host paths are bound to that directory.                                 *)
InjectLimitEnviron(environ) == Rebound(environ, {"AINVEST_WORKER_DIR", "HOME"})

(* prepare_workdir binds the paths again in the live process.              *)
PrepareWorkdir(environ) == Rebound(environ, {"AINVEST_WORKER_DIR", "HOME"})

WorkerInit ==
  /\ at = 1 /\ parent = "next" /\ child = NoChild /\ timed = FALSE
  /\ workdir = FALSE /\ records = <<>>

Alive == child.pc \in {"boot", "confine", "evaluate", "exit"}

Line(id, status, code) == [id |-> id, status |-> status, code |-> code]

(* The record of the run, and the batch moves on; the finally clause has   *)
(* removed the directory.                                                  *)
Record(status, code) ==
  /\ records' = Append(records, [run |-> at, status |-> status, code |-> code,
                                 child |-> child, timed |-> timed])
  /\ at' = at + 1 /\ parent' = "next" /\ child' = NoChild /\ timed' = FALSE
  /\ workdir' = FALSE

-----------------------------------------------------------------------------
(* The parent                                                              *)

(* build_request validates the parameters, then run_worker makes the       *)
(* directory and scrubs and fills the child's environment.                 *)
Begin ==
  /\ parent = "next" /\ at <= Len(Runs) /\ Runs[at].params
  /\ parent' = "spawn" /\ workdir' = TRUE
  /\ UNCHANGED <<at, child, timed, records>>

(* Invalid parameters raise; the handler of evaluate_many_in_workers       *)
(* builds the same request again for its record, and that raises out of    *)
(* the batch.                                                              *)
BeginRaises ==
  /\ parent = "next" /\ at <= Len(Runs) /\ ~Runs[at].params
  /\ parent' = "raised"
  /\ UNCHANGED <<at, child, timed, workdir, records>>

(* A directory that cannot be made is any other exception: the handler     *)
(* turns it into INTERNAL_ERROR.                                           *)
BeginFails ==
  /\ parent = "next" /\ at <= Len(Runs) /\ Runs[at].params
  /\ Record("FAILED", "INTERNAL_ERROR")

Spawn ==
  /\ parent = "spawn"
  /\ parent' = "wait"
  /\ child' = [NoChild EXCEPT !.pc = "boot",
                              !.environ = InjectLimitEnviron(ScrubEnviron(HostEnviron))]
  /\ UNCHANGED <<at, timed, workdir, records>>

SpawnFails == parent = "spawn" /\ Record("FAILED", "INTERNAL_ERROR")

(* communicate returns when stdout is closed: the child is gone and so is  *)
(* every process it left behind with the pipe.                             *)
Communicate ==
  /\ parent = "wait" /\ child.pc = "gone" /\ ~child.kin
  /\ parent' = "classify"
  /\ UNCHANGED <<at, child, timed, workdir, records>>

(* TimeoutExpired: the process group is killed.                            *)
Timeout ==
  /\ parent = "wait" /\ (Alive \/ child.kin)
  /\ timed' = TRUE /\ parent' = "reap"
  /\ child' = [child EXCEPT !.pc = "gone", !.kin = FALSE,
                            !.code = IF Alive THEN "SIGKILL" ELSE @]
  /\ UNCHANGED <<at, workdir, records>>

(* _reap_after_timeout waits a bounded time, twice more, and gives up: the *)
(* exit code may stay unknown.                                             *)
Reap(known) ==
  /\ parent = "reap"
  /\ parent' = "classify"
  /\ child' = [child EXCEPT !.code = IF known THEN @ ELSE None]
  /\ UNCHANGED <<at, timed, workdir, records>>

(* A plausible slip: what the child wrote before the clock ran out counts. *)
ClassifyExitLate(run) ==
  IF child.code = None THEN "CRASH"
  ELSE IF child.code = "SIGKILL" /\ ~timed THEN IF Runs[run].mem THEN "OOM" ELSE "CRASH"
  ELSE IF child.code = "SIGXCPU" THEN "TIMEOUT"
  ELSE IF child.code = "SIGNAL" THEN "CRASH"
  ELSE "NONE"

(* _classify_exit: the clock first, then the exit status.                  *)
ClassifyExit(run) ==
  IF timed THEN "TIMEOUT"
  ELSE IF child.code = None THEN "CRASH"
  ELSE IF child.code = "SIGKILL" THEN IF Runs[run].mem THEN "OOM" ELSE "CRASH"
  ELSE IF child.code = "SIGXCPU" THEN "TIMEOUT"
  ELSE IF child.code = "SIGNAL" THEN "CRASH"
  ELSE "NONE"

(* The last line of stdout must be a response, and of this run.            *)
Refused(line) == line.status \notin {"SUCCESS", "FAILED"} \/ line.id # at

ClassifyFailed ==
  /\ parent = "classify"
  /\ \/ ClassifyExit(at) # "NONE" /\ Record("FAILED", ClassifyExit(at))
     \/ ClassifyExit(at) = "NONE" /\ Refused(child.line) /\ Record("FAILED", "INVALID_OUTPUT")

(* _record_from_response: the status and the code are the child's.         *)
ClassifyAnswered ==
  /\ parent = "classify" /\ ClassifyExit(at) = "NONE" /\ ~Refused(child.line)
  /\ Record(child.line.status, child.line.code)

-----------------------------------------------------------------------------
(* The child                                                               *)

Child(c) == parent = "wait" /\ child' = c /\ UNCHANGED <<at, parent, timed, workdir, records>>

(* main scrubs its environment and reads the request; a request it cannot  *)
(* read is answered under a run id of its own, with exit code 2.           *)
Boot ==
  \/ child.pc = "boot" /\ Child([child EXCEPT !.pc = "confine", !.environ = ScrubEnviron(@)])
  \/ child.pc = "boot" /\ Child([child EXCEPT !.pc = "exit", !.code = "2",
                                   !.line = Line(0, "FAILED", "INVALID_INPUT")])

(* apply_isolation: environment guard, limits, watchdog, network, workdir. *)
Confine ==
  \/ child.pc = "confine" /\ Child([child EXCEPT !.pc = "evaluate", !.confined = TRUE,
                                                     !.environ = PrepareWorkdir(@)])
  \/ child.pc = "confine" /\ Child([child EXCEPT !.pc = "exit", !.code = "3",
                                      !.line = Line(at, "FAILED", "INTERNAL_ERROR")])

(* assert_no_secrets_in_environ                                            *)
NoSecrets == \A e \in child.environ : ~IsDeniedSecretKey(e.key)

(* evaluate_request: the strategy answers, or raises and is classified; it *)
(* may leave a process holding the pipe.                                   *)
EvaluateOk ==
  /\ child.pc = "evaluate" /\ NoSecrets
  /\ \E kin \in BOOLEAN :
       Child([child EXCEPT !.pc = "exit", !.evaluated = TRUE, !.kin = kin, !.code = "0",
                           !.line = Line(at, "SUCCESS", "NONE")])

EvaluateRaises ==
  /\ child.pc = "evaluate"
  /\ \E code \in {"SECRET_ACCESS", "NETWORK_DENIED", "OOM", "EVALUATION_ERROR"} :
       Child([child EXCEPT !.pc = "exit", !.code = "1", !.line = Line(at, "FAILED", code)])

(* SystemExit is no Exception: the strategy leaves with a code of its own, *)
(* having printed something or nothing.                                    *)
EvaluateLeaves ==
  /\ child.pc = "evaluate" /\ NoSecrets
  /\ \E line \in {child.line, Line(0, "noise", "NONE")} :
       Child([child EXCEPT !.pc = "exit", !.code = "0", !.line = line])

Exit == child.pc = "exit" /\ Child([child EXCEPT !.pc = "gone"])

(* The memory watchdog and the CPU limit end the child at any point after  *)
(* they are in place, after its answer too; the watchdog is started for a  *)
(* memory limit only.                                                      *)
Killed ==
  /\ child.confined /\ child.pc \in {"evaluate", "exit"}
  /\ \E code \in {"SIGXCPU"} \cup (IF Runs[at].mem THEN {"SIGKILL"} ELSE {}) :
       Child([child EXCEPT !.pc = "gone", !.code = code])

(* The operating system ends it, confined or not.                          *)
Dies ==
  /\ Alive
  /\ \E code \in {"SIGKILL", "SIGNAL"} : Child([child EXCEPT !.pc = "gone", !.code = code])

(* A process left behind closes the pipe, with a last line or without.     *)
KinLeaves ==
  /\ child.kin
  /\ \E line \in {child.line, Line(0, "noise", "NONE")} :
       Child([child EXCEPT !.kin = FALSE, !.line = line])

WorkerNext ==
  \/ Begin \/ BeginRaises \/ BeginFails \/ Spawn \/ SpawnFails \/ Communicate \/ Timeout
  \/ \E known \in BOOLEAN : Reap(known)
  \/ ClassifyFailed \/ ClassifyAnswered
  \/ Boot \/ Confine \/ EvaluateOk \/ EvaluateRaises \/ EvaluateLeaves \/ Exit \/ Killed
  \/ Dies \/ KinLeaves

-----------------------------------------------------------------------------
(* A SUCCESS record is the answer of this run's own child, which was       *)
(* confined before it evaluated, saw nothing of the host's credentials and *)
(* paths, answered before the clock ran out and was not killed afterwards  *)
(* (run_worker, "classify the outcome fail-closed").                       *)
SuccessIsEarned ==
  \A i \in 1..Len(records) :
    LET r == records[i] IN r.status = "SUCCESS" =>
      /\ r.child.confined /\ r.child.evaluated /\ r.child.line.id = r.run
      /\ ~r.timed /\ r.child.code = "0"
      /\ \A e \in r.child.environ :
           ~IsDeniedSecretKey(e.key) /\ ~e.hint /\ (e.from = "host" => e.key = "PATH")

-----------------------------------------------------------------------------
(***************************************************************************)
(* StrategyRegistry.load (strategies/registry.py) and                      *)
(* bind_strategy_instances (strategies/config.py): which installed plugins *)
(* are loaded, under which version, and which instances may run them.      *)
(*                                                                         *)
(* Metadata is [id, version, api |-> the clauses of its API range, formed  *)
(* |-> do the single fields have their format].  A plugin is [ep |-> its   *)
(* entry-point name or "" for an object handed to load, meta |-> "given",  *)
(* "missing" or "malformed", m |-> its metadata, hook |-> does its hook    *)
(* return a list, defs |-> the definitions [name, m, ttl |-> the kind of   *)
(* signal_ttl among the parameters: none, duration or other]].  A configuration is [live, allow |->    *)
(* the allowlist as pairs <<plugin_id, version>>, listed |-> is there one, *)
(* disabled].                                                              *)
(*                                                                         *)
(* Distributions are discovered in an order the code does not choose, so   *)
(* loading is a fold over a sequence.  The first refusal ends it.          *)
(***************************************************************************)
Empty == [error |-> "NONE", points |-> {}, names |-> {}, plugins |-> {}, hooks |-> <<>>, defs |-> {}]
Refuse(reg, code) == [reg EXCEPT !.error = code]
Ids(reg) == {m.id : m \in reg.plugins}
Pins(cfg, id) == {pair[2] : pair \in {q \in cfg.allow : q[1] = id}}

(* STRATEGY_API_VERSION, and versions compared as tuples                   *)
HostApi == <<1, 0, 0>>
Below(v, w) == \E i \in 1..3 : v[i] < w[i] /\ \A j \in 1..(i - 1) : v[j] = w[j]

(* StrategyApiRange.contains: every clause [op, bound] holds.              *)
ApiContains(clauses, v) ==
  \A i \in DOMAIN clauses :
    LET c == clauses[i]
    IN  CASE c.op \in {"", "=", "=="} -> v = c.bound
          [] c.op = ">=" -> ~Below(v, c.bound)
          [] c.op = ">" -> Below(c.bound, v)
          [] c.op = "<=" -> ~Below(c.bound, v)
          [] c.op = "<" -> Below(v, c.bound)

(* PluginMetadata.validate                                                 *)
Validate(m) ==
  IF ~m.formed THEN "METADATA_INVALID"
  ELSE IF m.api = <<>> THEN "METADATA_MISSING"
  ELSE IF ~ApiContains(m.api, HostApi) THEN "API_INCOMPATIBLE"
  ELSE "NONE"

(* _extract_metadata                                                       *)
ExtractMetadata(p) ==
  CASE p.meta = "missing" -> "METADATA_MISSING"
    [] p.meta = "malformed" -> "METADATA_INVALID"
    [] p.meta = "given" -> "NONE"

(* _validate_load_config: live mode wants a pinned allowlist.              *)
ConfigError(cfg) ==
  IF cfg.live /\ (~cfg.listed \/ cfg.allow = {}) THEN "LIVE_ALLOWLIST_REQUIRED"
  ELSE IF cfg.live /\ \E pair \in cfg.allow : pair[1] = "" THEN "LIVE_ALLOWLIST_INVALID"
  ELSE IF cfg.live /\ \E pair \in cfg.allow : pair[2] = "" THEN "LIVE_ALLOWLIST_UNPINNED"
  ELSE "NONE"

(* manager.register: hooks are called in the reverse order of registration.*)
Kept(reg, p, name) ==
  [reg EXCEPT !.plugins = @ \cup {p.m}, !.names = @ \cup {name}, !.hooks = <<p>> \o @]

(* A plausible slip: a second plugin of the same id takes the first one's  *)
(* place.                                                                  *)
RegisterLast(reg, cfg, p) ==
  LET name == IF p.ep = "" THEN p.m.id ELSE p.ep
      others == [reg EXCEPT !.plugins = {m \in @ : m.id # p.m.id}]
  IN  IF ExtractMetadata(p) # "NONE" THEN Refuse(reg, ExtractMetadata(p))
      ELSE IF p.m.id \in cfg.disabled \/ (cfg.listed /\ Pins(cfg, p.m.id) = {}) THEN reg
      ELSE IF cfg.listed /\ p.m.version \notin Pins(cfg, p.m.id) THEN Refuse(reg, "VERSION_MISMATCH")
      ELSE IF Validate(p.m) # "NONE" THEN Refuse(reg, Validate(p.m))
      ELSE Kept(others, p, name)

(* _register_plugin_object                                                 *)
Register(reg, cfg, p) ==
  LET name == IF p.ep = "" THEN p.m.id ELSE p.ep
  IN  IF ExtractMetadata(p) # "NONE" THEN Refuse(reg, ExtractMetadata(p))
      ELSE IF p.m.id \in cfg.disabled \/ (cfg.listed /\ Pins(cfg, p.m.id) = {}) THEN reg
      ELSE IF cfg.listed /\ p.m.version \notin Pins(cfg, p.m.id) THEN Refuse(reg, "VERSION_MISMATCH")
      ELSE IF p.m.id \in Ids(reg) THEN Refuse(reg, "PLUGIN_CONFLICT")
      ELSE IF Validate(p.m) # "NONE" THEN Refuse(reg, Validate(p.m))
      ELSE IF name \in reg.names THEN Refuse(reg, "ENTRY_POINT_CONFLICT")
      ELSE Kept(reg, p, name)

(* _load_entry_points: the entry-point name is filtered before the import. *)
EntryPoint(reg, cfg, p) ==
  IF p.ep \in cfg.disabled \/ (cfg.listed /\ Pins(cfg, p.ep) = {}) THEN reg
  ELSE IF p.ep \in reg.points THEN Refuse(reg, "ENTRY_POINT_CONFLICT")
  ELSE Register([reg EXCEPT !.points = @ \cup {p.ep}], cfg, p)

(* _add_definition: the definition names a registered plugin, and exactly  *)
(* as that registered itself.                                              *)
AddDefinition(reg, cfg, d) ==
  IF reg.error # "NONE" THEN reg
  ELSE IF Validate(d.m) # "NONE" THEN Refuse(reg, Validate(d.m))
  ELSE IF d.m.id \in cfg.disabled THEN reg
  ELSE IF d.m.id \notin Ids(reg) THEN Refuse(reg, "PLUGIN_UNREGISTERED")
  ELSE IF d.m \notin reg.plugins THEN Refuse(reg, "METADATA_MISMATCH")
  ELSE IF \E e \in reg.defs : e.name = d.name THEN Refuse(reg, "NAME_CONFLICT")
  ELSE [reg EXCEPT !.defs = @ \cup {d}]

(* _assert_allowlist_satisfied                                             *)
Satisfied(reg, cfg) ==
  IF reg.error # "NONE" \/ ~cfg.listed THEN reg
  ELSE IF \A pair \in cfg.allow : pair[1] \in Ids(reg) \cup cfg.disabled THEN reg
  ELSE Refuse(reg, "ALLOWLIST_MISSING")

(* StrategyRegistry.load over the plugins in the order they are found: the *)
(* entry points, the objects, then the hooks of all that registered.       *)
Load(cfg, found) ==
  LET points == SelectSeq(found, LAMBDA p : p.ep # "")
      objects == SelectSeq(found, LAMBDA p : p.ep = "")
      Try(reg, p) == IF reg.error # "NONE" THEN reg
                     ELSE IF p.ep = "" THEN Register(reg, cfg, p) ELSE EntryPoint(reg, cfg, p)
      Collect(reg, p) == IF reg.error = "NONE" /\ ~p.hook THEN Refuse(reg, "HOOK_INVALID")
                         ELSE FoldLeft(LAMBDA g, d : AddDefinition(g, cfg, d), reg, p.defs)
      loaded == FoldLeft(Try, Empty, points \o objects)
  IN  IF ConfigError(cfg) # "NONE" THEN Refuse(Empty, ConfigError(cfg))
      ELSE Satisfied(FoldLeft(Collect, loaded, loaded.hooks), cfg)

-----------------------------------------------------------------------------
(* Durations are written <<amount, unit>> and counted in seconds.          *)
UnitSeconds == [s |-> 1, m |-> 60, h |-> 3600, d |-> 86400]

ParseDuration(text) == text[1] * UnitSeconds[text[2]]

(* A plausible slip: the largest unit that fits, whatever it leaves over.  *)
FormatDurationFloor(n) ==
  IF n >= UnitSeconds.d THEN <<n \div UnitSeconds.d, "d">>
  ELSE IF n >= UnitSeconds.h THEN <<n \div UnitSeconds.h, "h">>
  ELSE IF n >= UnitSeconds.m THEN <<n \div UnitSeconds.m, "m">>
  ELSE <<n, "s">>

FormatDuration(n) ==
  IF n % UnitSeconds.d = 0 THEN <<n \div UnitSeconds.d, "d">>
  ELSE IF n % UnitSeconds.h = 0 THEN <<n \div UnitSeconds.h, "h">>
  ELSE IF n % UnitSeconds.m = 0 THEN <<n \div UnitSeconds.m, "m">>
  ELSE <<n, "s">>

(* The signal_ttl among the parameters of an instance [id, plugin,         *)
(* strategy, pin, ttl |-> the constraint, own |-> the parameter or None]:  *)
(* a strategy that wants one and is given none gets the constraint's.      *)
SignalTtl(d, inst) ==
  IF inst.own = None /\ d.ttl # "none" THEN FormatDuration(ParseDuration(inst.ttl)) ELSE inst.own

(* bind_strategy_instances for one instance: "BOUND" to a definition, or a *)
(* refusal.  "" is an absent name or pin; parameters the model does not    *)
(* declare are invalid.                                                    *)
Bind(reg, cfg, inst) ==
  LET defs == {d \in reg.defs : d.m.id = inst.plugin}
      named == {d \in defs : inst.strategy \in {"", d.name}}
      d == CHOOSE x \in named : TRUE
      ttl == SignalTtl(d, inst)
  IN  IF defs = {} THEN "UNKNOWN_PLUGIN"
      ELSE IF named = {} THEN "UNKNOWN"
      ELSE IF Cardinality(named) > 1 THEN "AMBIGUOUS"
      ELSE IF cfg.live /\ inst.pin = "" THEN "LIVE_UNPINNED"
      ELSE IF inst.pin # "" /\ inst.pin # d.m.version THEN "VERSION_MISMATCH"
      ELSE IF ttl # None /\ d.ttl = "none" THEN "PARAMS_INVALID"
      ELSE IF d.ttl = "duration" /\ ParseDuration(ttl) # ParseDuration(inst.ttl)
           THEN "SIGNAL_TTL_MISMATCH"
      ELSE "BOUND"

(* A document binds as a whole, and only if its instances have ids of      *)
(* their own (_unique_instance_ids).                                       *)
BindsAll(reg, cfg, doc) ==
  /\ \A i, j \in DOMAIN doc : doc[i].id = doc[j].id => i = j
  /\ \A i \in DOMAIN doc : Bind(reg, cfg, doc[i]) = "BOUND"

-----------------------------------------------------------------------------
Outcome(cfg, found) ==
  LET reg == Load(cfg, found)
  IN  IF reg.error # "NONE" THEN <<"refused">> ELSE <<reg.plugins, reg.defs>>

(* What is loaded does not depend on the order in which distributions are  *)
(* discovered: an order that loads and one that refuses, or two that load  *)
(* differently, would make the running strategies an accident of the       *)
(* installation (load, "fail-closed conflict").                            *)
LoadOrderFree(cfg, found) ==
  \A order \in SetToSeqs(DOMAIN found) :
    Outcome(cfg, [i \in DOMAIN found |-> found[order[i]]]) = Outcome(cfg, found)

(* In live mode the instances of a document that binds run the one version *)
(* that both the allowlist and their own pin name, and never a disabled    *)
(* plugin.                                                                 *)
LivePinned(cfg, found, doc) ==
  LET reg == Load(cfg, found) IN
    cfg.live /\ reg.error = "NONE" /\ BindsAll(reg, cfg, doc) =>
      \A i \in DOMAIN doc :
        /\ Pins(cfg, doc[i].plugin) = {doc[i].pin} /\ doc[i].plugin \notin cfg.disabled
        /\ \A m \in reg.plugins : m.id = doc[i].plugin => m.version = doc[i].pin

(* The definition an instance names takes its signal_ttl as a duration.    *)
Timed(reg, inst) ==
  \A d \in reg.defs : d.m.id = inst.plugin /\ inst.strategy \in {"", d.name} => d.ttl = "duration"

(* The lifetime of signals is the one of the constraints: an instance that *)
(* says nothing about it is never refused for it, and where the parameter  *)
(* is a duration none binds with another (bind_strategy_instances, "so     *)
(* YAML constraints and strategy expiry stay aligned").                    *)
TtlAligned(cfg, found, doc) ==
  LET reg == Load(cfg, found) IN
    reg.error = "NONE" =>
      \A i \in DOMAIN doc :
        LET answer == Bind(reg, cfg, doc[i]) IN
          /\ doc[i].own = None => answer # "SIGNAL_TTL_MISMATCH"
          /\ answer = "BOUND" /\ doc[i].own # None /\ Timed(reg, doc[i]) =>
               ParseDuration(doc[i].own) = ParseDuration(doc[i].ttl)
=============================================================================
