-------------------------- MODULE TelegramQueries ---------------------------
(***************************************************************************)
(* The read-only Telegram queries: the runner that starts the poller, the  *)
(* command grammar, the rate gate, the executor that asks the Robinhood    *)
(* gateway, and the handler that answers an update once per call that it   *)
(* ends.  The poller (TelegramPolling) hands an update over again as long  *)
(* as the handler says retry_later; and also when the process died, or the *)
(* lease was lost, before it recorded that an update was ended: then the   *)
(* reply is repeated.  The poller makes one call at a time; the gate does  *)
(* not rely on it, and here the calls for different updates may overlap    *)
(* between their awaits.                                                   *)
(*                                                                         *)
(* A text is its characters' verdict, its command and its arguments.       *)
(***************************************************************************)
EXTENDS Integers, FiniteSets, Sequences, SequencesExt

CONSTANTS
    Updates,      \* update ids
    Sender,       \* the sender of each update
    Text,         \* the text of each update, None for a callback
    Tickers,      \* arguments that are symbols
    Texts,        \* the texts the grammar is checked for
    Starts,       \* settings and databases the runner may be started with
    RateLimit,    \* TELEGRAM_QUERY_RATE_LIMIT
    RateWindow,   \* TELEGRAM_QUERY_RATE_WINDOW_SECONDS
    MaxTime,      \* bound on the monotonic clock
    MaxRetries,   \* bound on the times an update is put back
    None

VARIABLES
    runner,       \* the process: its state and what it holds
    now,          \* the monotonic clock
    window,       \* each sender's rate window, None before the first
    inflight,     \* senders with an admitted call
    task,         \* each update: its step, reply, and whether it holds the gate
    sends,        \* messages that may be out for each update
    replays,      \* times each update was handed over again after a call may have ended
    retries       \* times each update was put back, for whatever reason

queryvars == <<runner, now, window, inflight, task, sends, replays, retries>>

Senders == {Sender[u] : u \in Updates}

(***************************************************************************)
(* The grammar.                                                            *)
(***************************************************************************)
Bare == {"help", "rh_status", "accounts", "portfolio", "positions"}
BySymbols == [quotes |-> 5, pricebook |-> 2, tradability |-> 5]
AccountCommands == {"portfolio", "positions", "orders", "tradability"}
HistoryWindows == {"1d", "5d", "1m", "3m", "1y"}
FundamentalBounds == {"regular", "trading", "extended", "24_5"}
Periods == {"quarterly", "annual"}

SymbolsFit(args, limit) ==
    /\ Len(args) \in 1..limit
    /\ Cardinality(ToSet(args)) = Len(args)
    /\ ToSet(args) \subseteq Tickers

Query(command, symbols) ==
    [command |-> command, symbols |-> symbols, view |-> None, span |-> None, bounds |-> None,
     period |-> None, limit |-> None]

Set(q) == {f \in {"view", "span", "bounds", "period", "limit"} : q[f] # None}

\* Which fields a command's query has, the model validator of the query.
ExactShape(q) ==
    LET n == Len(q.symbols)
    IN  \/ q.command \in Bare /\ n = 0 /\ Set(q) = {}
        \/ q.command = "orders" /\ n <= 1 /\ Set(q) = {"view"}
        \/ q.command \in DOMAIN BySymbols /\ n \in 1..BySymbols[q.command] /\ Set(q) = {}
        \/ q.command = "history" /\ n = 1 /\ Set(q) = {"span"}
        \/ q.command = "fundamentals" /\ n = 1 /\ Set(q) \subseteq {"bounds"}
        \/ q.command = "financials" /\ n = 1 /\ Set(q) = {"period", "limit"}

\* The query a text is read as, before it is validated; none or one.
ReadAs(t) ==
    LET a == t.args
        n == Len(a)
        sym(k) == SubSeq(a, 1, k)
    IN  (IF t.command \in Bare /\ n = 0 THEN {Query(t.command, <<>>)} ELSE {}) \cup
        (IF t.command = "orders" /\ n \in 1..2 /\ Head(a) \in {"open", "closed"}
             /\ (n = 2 => SymbolsFit(Tail(a), 1))
         THEN {[Query("orders", Tail(a)) EXCEPT !.view = Head(a)]} ELSE {}) \cup
        (IF t.command \in DOMAIN BySymbols /\ SymbolsFit(a, BySymbols[t.command])
         THEN {Query(t.command, a)} ELSE {}) \cup
        (IF t.command = "history" /\ n = 2 /\ a[2] \in HistoryWindows /\ SymbolsFit(sym(1), 1)
         THEN {[Query("history", sym(1)) EXCEPT !.span = a[2]]} ELSE {}) \cup
        (IF t.command = "fundamentals" /\ n \in 1..2 /\ SymbolsFit(sym(1), 1)
             /\ (n = 2 => a[2] \in FundamentalBounds)
         THEN {[Query("fundamentals", sym(1)) EXCEPT !.bounds = IF n = 2 THEN a[2] ELSE None]}
         ELSE {}) \cup
        (IF t.command = "financials" /\ n \in 1..3 /\ SymbolsFit(sym(1), 1)
             /\ (n >= 2 => a[2] \in Periods)
             /\ (n = 3 => a[3] \in {"1", "2", "3", "4"})
         THEN {[Query("financials", sym(1)) EXCEPT
                    !.period = IF n >= 2 THEN a[2] ELSE "quarterly",
                    !.limit = IF n = 3 THEN a[3] ELSE "4"]}
         ELSE {})

\* parse_telegram_query: one query, or none when the text is refused.
Parsed(t) == {q \in ReadAs(t) : t.clean /\ ExactShape(q)}

(***************************************************************************)
(* The runner: it polls only in Paper mode, with a complete bot and a      *)
(* migrated database, and gives everything back when the poller ends.      *)
(***************************************************************************)
RequireRuntime(s) ==
    /\ s.mode = "paper" /\ ~s.live
    /\ s.enabled /\ s.token /\ s.bot /\ s.recipients

RequireMigratedSqlite(s) == s.database = "regular" /\ s.tables /\ s.head

Down == [state |-> "down", signals |-> FALSE, transport |-> FALSE, engine |-> "none"]

Start(s) ==
    /\ runner.state = "down"
    /\ runner' = IF s.loads /\ RequireRuntime(s) /\ RequireMigratedSqlite(s)
                 THEN [state |-> "polling", signals |-> TRUE, transport |-> TRUE, engine |-> "open"]
                 ELSE [Down EXCEPT !.state = "refused"]
    /\ UNCHANGED <<now, window, inflight, task, sends, replays, retries>>

\* The stop event is looked at between two updates.
Stop ==
    /\ runner.state = "polling"
    /\ \A u \in Updates : task[u].pc \in {"pending", "recorded"}
    /\ runner' = [state |-> "stopped", signals |-> FALSE, transport |-> FALSE, engine |-> "disposed"]
    /\ UNCHANGED <<now, window, inflight, task, sends, replays, retries>>

Tick ==
    /\ runner.state = "polling"
    /\ now < MaxTime
    /\ now' = now + 1
    /\ UNCHANGED <<runner, window, inflight, task, sends, replays, retries>>

(***************************************************************************)
(* The rate gate.                                                          *)
(***************************************************************************)
RateWindowOf(s) ==
    IF window[s] = None \/ (window[s] # None /\ now - window[s].opened >= RateWindow)
    THEN [opened |-> now, admitted |-> {}]
    ELSE window[s]

Enter(u) ==
    LET w == RateWindowOf(Sender[u])
    IN  [busy |-> Sender[u] \in inflight,
         full |-> u \notin w.admitted /\ Cardinality(w.admitted) >= RateLimit,
         window |-> w]

(***************************************************************************)
(* The handler.                                                            *)
(***************************************************************************)
Pending == [pc |-> "pending", reply |-> None, holds |-> FALSE]

Attempt(u, message, holds) ==
    /\ task' = [task EXCEPT ![u] = [pc |-> "sending", reply |-> message, holds |-> holds]]
    /\ sends' = [sends EXCEPT ![u] = @ + 1]

Free(u) == inflight \ (IF task[u].holds THEN {Sender[u]} ELSE {})

Called(u) == runner.state = "polling" /\ task[u].pc = "pending" /\ retries[u] < MaxRetries

\* The bot that only queries leaves a callback for the process that owns it.
HandleCallback(u) ==
    /\ Called(u)
    /\ Text[u] = None
    /\ retries' = [retries EXCEPT ![u] = @ + 1]
    /\ UNCHANGED <<runner, now, window, inflight, task, sends, replays>>

ClockFails(u) ==
    /\ Called(u)
    /\ Text[u] # None
    /\ Attempt(u, "internal_error", FALSE)
    /\ UNCHANGED <<runner, now, window, inflight, replays, retries>>

RateLimited(u) ==
    LET gate == Enter(u)
    IN  /\ Called(u)
        /\ Text[u] # None
        /\ gate.busy \/ gate.full
        /\ window' = IF gate.busy THEN window ELSE [window EXCEPT ![Sender[u]] = gate.window]
        /\ task' = [task EXCEPT ![u].pc = "terminal"]
        /\ UNCHANGED <<runner, now, inflight, sends, replays, retries>>

Admitted(u) ==
    LET gate == Enter(u)
    IN  /\ Called(u)
        /\ Text[u] # None
        /\ ~gate.busy /\ ~gate.full
        /\ window' = [window EXCEPT ![Sender[u]] =
               [gate.window EXCEPT !.admitted = @ \cup {u}]]
        /\ inflight' = inflight \cup {Sender[u]}
        /\ UNCHANGED <<runner, now, replays, retries>>

\* What is said without asking the gateway, None if it is asked.  account is
\* what the account loader finds, wall whether the wall clock names its zone.
Immediate(t, account, wall) ==
    IF Parsed(t) = {} THEN "invalid_command"
    ELSE LET q == CHOOSE x \in Parsed(t) : TRUE
         IN  IF q.command = "history" /\ ~wall THEN "internal_error"
             ELSE IF q.command = "help" THEN "help"
             ELSE IF q.command \in AccountCommands /\ account # "found"
                  THEN "account_secret_" \o account
                  ELSE None

HandleAdmitted(u, account, wall) ==
    /\ Admitted(u)
    /\ \/ /\ Immediate(Text[u], account, wall) # None
          /\ Attempt(u, Immediate(Text[u], account, wall), TRUE)
       \/ /\ Immediate(Text[u], account, wall) = None
          /\ task' = [task EXCEPT ![u] = [pc |-> "executing", reply |-> None, holds |-> TRUE]]
          /\ UNCHANGED sends

\* success is one of fits, too long or not serialisable; else a refusal's code.
Rendered(outcome) ==
    CASE outcome = "unrenderable" -> "render_failed"
      [] outcome = "too_long" -> "result_too_large"
      [] OTHER -> outcome

\* The display call that the query names asserts the fields it needs.
ExecuteNamed(q, outcome) ==
    LET needed == [orders |-> {"view"}, history |-> {"span"}, financials |-> {"period", "limit"}]
    IN  IF q.command \in DOMAIN needed /\ ~(needed[q.command] \subseteq Set(q))
        THEN "internal_error" ELSE outcome

Executed(u, outcome) ==
    /\ task[u].pc = "executing"
    /\ \E q \in Parsed(Text[u]) : Attempt(u, Rendered(ExecuteNamed(q, outcome)), TRUE)
    /\ UNCHANGED <<runner, now, window, inflight, replays, retries>>

\* The poller's deadline cancels the call while it waits for the gateway.
ExecutionCancelled(u) ==
    /\ task[u].pc = "executing"
    /\ task' = [task EXCEPT ![u] = Pending]
    /\ retries' = [retries EXCEPT ![u] = @ + 1]
    /\ inflight' = Free(u)
    /\ UNCHANGED <<runner, now, window, sends, replays>>

\* As a bug: a send that fails or is cancelled is tried again.
AttemptSendRetry(u, outcome) ==
    /\ task[u].pc = "sending"
    /\ task' = [task EXCEPT ![u] = IF outcome = "sent" THEN [Pending EXCEPT !.pc = "terminal"]
                                                       ELSE Pending]
    /\ inflight' = Free(u)
    /\ UNCHANGED <<runner, now, window, sends, replays, retries>>

\* Whatever becomes of the send, the message may be out: the call is over.
AttemptSend(u, outcome) ==
    /\ task[u].pc = "sending"
    /\ task' = [task EXCEPT ![u] = [Pending EXCEPT !.pc = "terminal"]]
    /\ inflight' = Free(u)
    /\ UNCHANGED <<runner, now, window, sends, replays, retries>>

\* record_terminal of the poller: the update is not handed over any more.
Recorded(u) ==
    /\ runner.state = "polling" /\ task[u].pc = "terminal"
    /\ task' = [task EXCEPT ![u].pc = "recorded"]
    /\ UNCHANGED <<runner, now, window, inflight, sends, replays, retries>>

\* The poller lost its lease before it recorded that the update was handled.
HandedOverAgain(u) ==
    /\ runner.state = "polling" /\ task[u].pc = "terminal" /\ retries[u] < MaxRetries
    /\ task' = [task EXCEPT ![u] = Pending]
    /\ replays' = [replays EXCEPT ![u] = @ + 1]
    /\ retries' = [retries EXCEPT ![u] = @ + 1]
    /\ UNCHANGED <<runner, now, window, inflight, sends>>

\* The process dies and is started again: the gate is lost with it, and what was
\* not recorded is handed over again, a message that may be out or not.
Crash ==
    LET lost == {u \in Updates : task[u].pc \in {"executing", "sending", "terminal"}}
    IN  /\ runner.state = "polling"
        /\ lost # {} /\ \A u \in lost : retries[u] < MaxRetries
        /\ runner' = Down
        /\ window' = [s \in Senders |-> None]
        /\ inflight' = {}
        /\ task' = [u \in Updates |-> IF u \in lost THEN Pending ELSE task[u]]
        /\ replays' = [u \in Updates |-> replays[u] +
                          (IF u \in lost /\ task[u].pc # "executing" THEN 1 ELSE 0)]
        /\ retries' = [u \in Updates |-> retries[u] + (IF u \in lost THEN 1 ELSE 0)]
        /\ UNCHANGED <<now, sends>>

QueryInit ==
    /\ runner = Down
    /\ now = 0
    /\ window = [s \in Senders |-> None]
    /\ inflight = {}
    /\ task = [u \in Updates |-> Pending]
    /\ sends = [u \in Updates |-> 0]
    /\ replays = [u \in Updates |-> 0]
    /\ retries = [u \in Updates |-> 0]

QueryNext ==
    \/ \E s \in Starts : Start(s)
    \/ Stop
    \/ Tick
    \/ Crash
    \/ \E u \in Updates :
        \/ HandleCallback(u)
        \/ ClockFails(u)
        \/ RateLimited(u)
        \/ \E a \in {"found", "missing", "invalid"}, w \in BOOLEAN : HandleAdmitted(u, a, w)
        \/ \E o \in {"fits", "too_long", "unrenderable", "timeout", "mapping"} : Executed(u, o)
        \/ ExecutionCancelled(u)
        \/ \E o \in {"sent", "failed", "cancelled"} : AttemptSend(u, o)
        \/ Recorded(u)
        \/ HandedOverAgain(u)

(***************************************************************************)
(* The grammar is exact: a clean text that the parser can read is never    *)
(* refused by the query's own validator, its query says what the text said *)
(* and no more, and the display call it names finds the fields it asserts. *)
(***************************************************************************)
Spelled(q) ==
    (IF q.view # None THEN <<q.view>> ELSE <<>>) \o q.symbols
    \o SelectSeq(<<q.span, q.bounds, q.period, q.limit>>, LAMBDA x : x # None)

GrammarExact ==
    \A t \in Texts :
        /\ Cardinality(ReadAs(t)) <= 1
        /\ t.clean => Parsed(t) = ReadAs(t)
        /\ \A q \in Parsed(t) :
             /\ q.command = t.command
             /\ SubSeq(Spelled(q), 1, Len(t.args)) = t.args
             /\ Len(Spelled(q)) > Len(t.args) => t.command = "financials"
             /\ ExecuteNamed(q, "fits") = "fits"

(***************************************************************************)
(* "delivery is intentionally bounded at-least-once"                       *)
(* (docs/telegram-read-queries.md:124): a message more can be out for an   *)
(* update only for each time the process died or the lease was lost after  *)
(* a call that may have sent one; a call that is cancelled, times out or   *)
(* is put back for another has sent none.  A sender who is let through     *)
(* holds the gate until the call is over, and a window never lets more     *)
(* than its limit of updates through.  The grammar is exact, which is      *)
(* looked at before the runner starts (TelegramQueryHandler, _RateGate,    *)
(* parse_telegram_query).                                                  *)
(***************************************************************************)
RepliesBounded ==
    /\ \A u \in Updates :
        /\ sends[u] <= replays[u] + 1
        /\ task[u].pc \in {"pending", "executing"} => sends[u] <= replays[u]
    /\ \A s \in Senders :
        /\ Cardinality({u \in Updates : task[u].holds /\ Sender[u] = s}) =
              (IF s \in inflight THEN 1 ELSE 0)
        /\ window[s] # None => Cardinality(window[s].admitted) <= RateLimit
    /\ runner = Down /\ now = 0 /\ sends = [u \in Updates |-> 0] => GrammarExact
=============================================================================
