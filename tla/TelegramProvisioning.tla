------------------------ MODULE TelegramProvisioning ------------------------
(***************************************************************************)
(* ainvest-telegram-provision (approval/telegram_provisioning.py) under    *)
(* the maintenance lease of approval/telegram_maintenance.py.  A command   *)
(* reads the .env file and the settings, waits for the lease of its        *)
(* environment, asks the provider, and rewrites files one at a time, each  *)
(* rewrite after a renewal of the lease.  Every rewrite of .env replaces   *)
(* the whole file.  Commands for the two environments hold different       *)
(* leases; a command may die between any two steps, and the lease of a     *)
(* command that stays away too long expires and goes to another.           *)
(*                                                                         *)
(* .env is, per environment, [enabled, bot, bound]: the ENABLED flag, the  *)
(* expected Bot id and the recipient, a pair of user and chat.  A token    *)
(* belongs to one Bot.  The poll cursor is `offset`.                       *)
(***************************************************************************)
EXTENDS Integers, FiniteSets

CONSTANTS
  Envs, Procs, Tokens,
  Asks,            \* what each process may be asked: pairs of command and environment
  BotOf,           \* what getMe answers to a token
  Inbox,           \* the updates getUpdates may return to a Bot
  PrivateChats,    \* the chats getChat calls private
  DiscoveryLimit, Poller, Absent, MaxEpoch, MaxOffset

Kinds == {"add", "rotate", "disable", "validate"}
Changers == {p \in Procs : \E r \in Asks[p] : r[1] # "validate"}

(* Of the processes only one is ever asked for a change: the operator runs *)
(* those commands one after the other.                                     *)
ASSUME ProvAssumption ==
  /\ \A p \in Procs : Asks[p] \subseteq Kinds \X Envs
  /\ \A p, q \in Changers : p = q
  /\ Absent \notin Tokens

VARIABLES
  env,      \* the .env file
  token,    \* the token file of each environment, or Absent
  botLease, \* the poll-state row: [owner, epoch, offset]
  botCmd,   \* each command process
  tested    \* the last test message sent: [bot, to]

provvars == <<env, token, botLease, botCmd, tested>>

Blank == [enabled |-> FALSE, bot |-> Absent, bound |-> Absent]

Idle == [pc |-> "idle", kind |-> Absent, env |-> Absent, doc |-> Absent, tok |-> Absent,
         had |-> FALSE, pair |-> Absent, epoch |-> 0, offset |-> Absent]

ProvInit ==
  /\ env = [e \in Envs |-> Blank]
  /\ token = [e \in Envs |-> Absent]
  /\ botLease = [e \in Envs |-> [owner |-> Absent, epoch |-> 0, offset |-> 0]]
  /\ botCmd = [p \in Procs |-> Idle]
  /\ tested = Absent

CommandAt(p, pc) == botCmd[p].pc = pc
Other(e) == CHOOSE x \in Envs : x # e

(* load_settings over .env and the token files (config/settings.py): an    *)
(* enabled environment is complete, and the two expected Bots differ.      *)
Loadable ==
  /\ \A e \in Envs :
       env[e].enabled => token[e] # Absent /\ env[e].bot # Absent /\ env[e].bound # Absent
  /\ \A e \in Envs : env[e].bot # Absent => env[e].bot # env[Other(e)].bot

(* execute up to the lease: the document and the settings are read here    *)
(* and kept.  validate needs a complete configuration and no lease; add    *)
(* and rotate-token want the environment disabled.                         *)
Complete(e) == token[e] # Absent /\ env[e].bot # Absent /\ env[e].bound # Absent

Launch(p, kind, e, tok) ==
  /\ CommandAt(p, "idle") /\ Loadable
  /\ kind \in {"add", "rotate"} => ~env[e].enabled
  /\ kind = "validate" => Complete(e)
  /\ botCmd' = [botCmd EXCEPT ![p] =
       [Idle EXCEPT !.pc = IF kind = "validate" THEN "check" ELSE "lease", !.kind = kind, !.env = e,
                    !.doc = env, !.tok = IF kind \in {"add", "rotate"} THEN tok ELSE Absent]]
  /\ UNCHANGED <<env, token, botLease, tested>>

(* _acquire: the cursor seen at the first look is the one that must stay,  *)
(* also while the command waits for a busy lease ...                       *)
FirstSeen(p) ==
  IF botCmd[p].offset = Absent THEN botLease[botCmd[p].env].offset ELSE botCmd[p].offset

AwaitLease(p) ==
  /\ CommandAt(p, "lease") /\ botLease[botCmd[p].env].owner # Absent
  /\ botCmd' = [botCmd EXCEPT ![p].offset = FirstSeen(p)]
  /\ UNCHANGED <<env, token, botLease, tested>>

(* ... and then the row goes to this owner with a new epoch.               *)
AcquireLease(p) ==
  LET e == botCmd[p].env IN
  /\ CommandAt(p, "lease") /\ botLease[e].owner = Absent /\ botLease[e].epoch < MaxEpoch
  /\ botLease[e].offset = FirstSeen(p)
  /\ botLease' = [botLease EXCEPT ![e].owner = p, ![e].epoch = @ + 1]
  /\ botCmd' = [botCmd EXCEPT ![p].pc = IF botCmd[p].kind = "disable" THEN "wDisable" ELSE "check",
                              ![p].epoch = botLease[e].epoch + 1, ![p].offset = FirstSeen(p)]
  /\ UNCHANGED <<env, token, tested>>

(* _renew_locked: the row is still this owner's, and the cursor has not    *)
(* moved.                                                                  *)
Verified(p) ==
  LET row == botLease[botCmd[p].env] IN
  row.owner = p /\ row.epoch = botCmd[p].epoch /\ row.offset = botCmd[p].offset

(* Any failure ends the command.  __aexit__ releases the lease if it is    *)
(* still this command's; the wait for a busy lease ends the same way.      *)
Released(p) ==
  IF Verified(p) THEN [botLease EXCEPT ![botCmd[p].env].owner = Absent] ELSE botLease

Fail(p) ==
  /\ ~CommandAt(p, "idle")
  /\ botLease' = Released(p)
  /\ botCmd' = [botCmd EXCEPT ![p] = Idle]
  /\ UNCHANGED <<env, token, tested>>

(* The process is killed: nothing is released.                             *)
Die(p) ==
  /\ ~CommandAt(p, "idle")
  /\ botCmd' = [botCmd EXCEPT ![p] = Idle]
  /\ UNCHANGED <<env, token, botLease, tested>>

(* The lease expires, and a poller of the environment may take it and move *)
(* the cursor.                                                             *)
Expire(e) ==
  /\ botLease[e].owner # Absent
  /\ botLease' = [botLease EXCEPT ![e].owner = Absent]
  /\ UNCHANGED <<env, token, botCmd, tested>>

PollerTakes(e) ==
  /\ botLease[e].owner = Absent /\ botLease[e].epoch < MaxEpoch
  /\ botLease' = [botLease EXCEPT ![e].owner = Poller, ![e].epoch = @ + 1]
  /\ UNCHANGED <<env, token, botCmd, tested>>

PollerMoves(e) ==
  /\ botLease[e].owner = Poller /\ botLease[e].offset < MaxOffset
  /\ botLease' = [botLease EXCEPT ![e].offset = @ + 1]
  /\ UNCHANGED <<env, token, botCmd, tested>>

(* A plausible slip: a service message counts as a message.                *)
CandidateOfService(u) ==
  IF u.carries = "message" /\ u.type = "private" /\ u.text /\ u.user > 0 /\ u.chat > 0
  THEN <<u.user, u.chat>> ELSE Absent

(* _candidate_from_update: an original message with text, neither          *)
(* forwarded nor of a service, in a private chat.                          *)
Candidate(u) ==
  IF /\ u.carries = "message" /\ u.type = "private" /\ u.text /\ ~u.service
     /\ u.user > 0 /\ u.chat > 0
  THEN <<u.user, u.chat>> ELSE Absent

(* discover_private_candidates: of what the provider returns, at most      *)
(* DiscoveryLimit updates, whose offset is not confirmed.                  *)
Discovered(updates) == {Candidate(u) : u \in updates} \ {Absent}

(* _reject_cross_environment_token and _provider_identity: the token of    *)
(* the other environment's file, and the other Bot id of the settings read *)
(* at the start, must differ.                                              *)
Distinct(c) == /\ token[Other(c.env)] # c.tok
               /\ c.doc[Other(c.env)].bot # BotOf[c.tok]

(* _add: the operator chooses and confirms one of the pairs discovered; a  *)
(* token file that is there must hold this token and belong to the         *)
(* configuration being resumed.                                            *)
AddAccepted(c, pair) ==
  /\ Distinct(c)
  /\ pair[2] \in PrivateChats
  /\ token[c.env] # Absent => /\ token[c.env] = c.tok
                              /\ c.doc[c.env].bot = BotOf[c.tok] /\ c.doc[c.env].bound = pair

(* _rotate: a complete configuration, a token file, and the same Bot.      *)
RotateAccepted(c) ==
  /\ Distinct(c)
  /\ c.doc[c.env].bot = BotOf[c.tok] /\ c.doc[c.env].bound # Absent
  /\ c.doc[c.env].bound[2] \in PrivateChats
  /\ token[c.env] # Absent

(* The provider answers in time and reports no webhook; that it does not,  *)
(* and that the operator declines, is Fail.                                *)
CheckAdd(p, updates, pair) ==
  /\ CommandAt(p, "check") /\ botCmd[p].kind = "add"
  /\ updates \subseteq Inbox[BotOf[botCmd[p].tok]] /\ Cardinality(updates) <= DiscoveryLimit
  /\ pair \in Discovered(updates)
  /\ AddAccepted(botCmd[p], pair)
  /\ botCmd' = [botCmd EXCEPT ![p].pc = "wBinding", ![p].had = token[botCmd[p].env] # Absent,
                              ![p].pair = pair]
  /\ UNCHANGED <<env, token, botLease, tested>>

CheckRotate(p) ==
  /\ CommandAt(p, "check") /\ botCmd[p].kind = "rotate" /\ RotateAccepted(botCmd[p])
  /\ botCmd' = [botCmd EXCEPT ![p].pc =
                  IF token[botCmd[p].env] = botCmd[p].tok THEN "wEnable" ELSE "wToken"]
  /\ UNCHANGED <<env, token, botLease, tested>>

(* verify_before_write; the write that follows is a step of its own.       *)
AfterVerify(pc) ==
  CASE pc = "wBinding" -> "binding" [] pc = "wToken" -> "token"
    [] pc = "wEnable" -> "enable"   [] pc = "wDisable" -> "disable"

VerifyBefore(p) ==
  /\ botCmd[p].pc \in {"wBinding", "wToken", "wEnable", "wDisable"}
  /\ Verified(p)
  /\ botCmd' = [botCmd EXCEPT ![p].pc = AfterVerify(@)]
  /\ UNCHANGED <<env, token, botLease, tested>>

(* _EnvDocument.rendered and _atomic_replace: this environment's values    *)
(* are set in the document the command holds, which replaces the file.     *)
Rendered(c, values) == [c.doc EXCEPT ![c.env] = values]

WriteEnv(p, values) ==
  /\ env' = Rendered(botCmd[p], values)

(* A plausible slip: the first write already enables the environment.      *)
BindingEnabled(c) == [enabled |-> TRUE, bot |-> BotOf[c.tok], bound |-> c.pair]

(* _environment_values(enabled=False)                                      *)
Binding(c) == [enabled |-> FALSE, bot |-> BotOf[c.tok], bound |-> c.pair]

WriteBinding(p) ==
  /\ CommandAt(p, "binding")
  /\ WriteEnv(p, Binding(botCmd[p]))
  /\ botCmd' = [botCmd EXCEPT ![p].pc = IF botCmd[p].had THEN "refresh" ELSE "wToken"]
  /\ UNCHANGED <<token, botLease, tested>>

(* _atomic_install refuses an existing file, _atomic_replace of a rotation *)
(* does not.                                                               *)
WriteToken(p) ==
  /\ CommandAt(p, "token")
  /\ botCmd[p].kind = "add" => token[botCmd[p].env] = Absent
  /\ token' = [token EXCEPT ![botCmd[p].env] = botCmd[p].tok]
  /\ botCmd' = [botCmd EXCEPT ![p].pc = IF botCmd[p].kind = "add" THEN "refresh" ELSE "wEnable"]
  /\ UNCHANGED <<env, botLease, tested>>

(* add reads .env again before it activates; rotate-token does not.        *)
Refresh(p) ==
  /\ CommandAt(p, "refresh")
  /\ botCmd' = [botCmd EXCEPT ![p].pc = "wEnable", ![p].doc = env]
  /\ UNCHANGED <<env, token, botLease, tested>>

(* The last write of add and rotate-token.                                 *)
WriteEnable(p) ==
  /\ CommandAt(p, "enable")
  /\ WriteEnv(p, [botCmd[p].doc[botCmd[p].env] EXCEPT !.enabled = TRUE])
  /\ botLease' = Released(p)
  /\ botCmd' = [botCmd EXCEPT ![p] = Idle]
  /\ UNCHANGED <<token, tested>>

(* disable: only the flag.                                                 *)
WriteDisable(p) ==
  /\ CommandAt(p, "disable")
  /\ WriteEnv(p, [botCmd[p].doc[botCmd[p].env] EXCEPT !.enabled = FALSE])
  /\ botLease' = Released(p)
  /\ botCmd' = [botCmd EXCEPT ![p] = Idle]
  /\ UNCHANGED <<token, tested>>

(* A plausible slip: the recipient is the other environment's.             *)
RecipientOther(c) == c.doc[Other(c.env)].bound

(* _validate: the token file is read now and must be of the expected Bot;  *)
(* the recipient is the one of the settings read at the start.             *)
Recipient(c) == c.doc[c.env].bound

ValidateOk(c) ==
  /\ Distinct(c) /\ BotOf[c.tok] = c.doc[c.env].bot
  /\ Recipient(c) # Absent /\ Recipient(c)[2] \in PrivateChats

(* One test message, if asked for; whether it arrived is not known.        *)
Validate(p, sendTest) ==
  LET c == [botCmd[p] EXCEPT !.tok = token[botCmd[p].env]] IN
  /\ CommandAt(p, "check") /\ botCmd[p].kind = "validate" /\ ValidateOk(c)
  /\ tested' = IF sendTest THEN [bot |-> BotOf[c.tok], to |-> Recipient(c)] ELSE tested
  /\ botCmd' = [botCmd EXCEPT ![p] = Idle]
  /\ UNCHANGED <<env, token, botLease>>

ProvNext ==
  \/ \E e \in Envs : Expire(e) \/ PollerTakes(e) \/ PollerMoves(e)
  \/ \E p \in Procs :
       \/ \E request \in Asks[p], t \in Tokens :
            Launch(p, request[1], request[2], t)
       \/ AwaitLease(p) \/ AcquireLease(p) \/ Fail(p) \/ Die(p)
       \/ \E bot \in DOMAIN Inbox : \E updates \in SUBSET Inbox[bot] :
            \E pair \in Discovered(updates) : CheckAdd(p, updates, pair)
       \/ CheckRotate(p) \/ \E sendTest \in BOOLEAN : Validate(p, sendTest)
       \/ VerifyBefore(p) \/ WriteBinding(p) \/ WriteToken(p) \/ Refresh(p) \/ WriteEnable(p)
       \/ WriteDisable(p)

ProvSpec == ProvInit /\ [][ProvNext]_provvars

-----------------------------------------------------------------------------
Wrote(bot, pair) ==
  \E u \in Inbox[bot] :
    /\ pair = <<u.user, u.chat>>
    /\ u.carries = "message" /\ u.type = "private" /\ u.text /\ ~u.service

(* Activation comes last: an environment that .env enables has its token   *)
(* file, the token is of the Bot the configuration expects, and the        *)
(* recipient has written to that Bot privately - wherever commands, run    *)
(* one after the other, were killed, failed or lost their lease (_add,     *)
(* _rotate, "activate only as their final write").                         *)
ActivatedLast ==
  \A e \in Envs : env[e].enabled =>
    /\ token[e] # Absent /\ env[e].bot = BotOf[token[e]]
    /\ env[e].bound # Absent /\ Wrote(env[e].bot, env[e].bound)

(* A test message goes only to someone who has written to the Bot that     *)
(* sends it, though validate takes no lease and the files may change under *)
(* it (_validate).                                                         *)
TestsExpected == tested # Absent => Wrote(tested.bot, tested.to)

(* What .env enables is complete, and test messages go only to recipients  *)
(* who wrote: both, whatever validate meets (_add, _rotate, _validate).    *)
EnabledIsComplete == ActivatedLast /\ TestsExpected

=============================================================================
