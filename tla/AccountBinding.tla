---------------------------- MODULE AccountBinding ----------------------------
(***************************************************************************)
(* ainvest-robinhood-account (orchestrator/robinhood_account_provisioning) *)
(* and the loader of the account secret (config/settings.py): commands of  *)
(* one or two environments share a secrets directory, each is a process    *)
(* that may be killed between any two system calls, and the operator may   *)
(* put another directory in the place of the first.                        *)
(*                                                                         *)
(* A file is an inode with an account and how much of it was written.  A   *)
(* directory holds at most one entry under the secret's name, and          *)
(* temporaries under names of their own.                                   *)
(***************************************************************************)
EXTENDS Integers, FiniteSets

CONSTANTS
  Commands, KindOf, EnvironmentOf,   \* per command: its verb and environment
  Answers,                           \* what read_accounts may return: sequences of rows
  MaxInode, MaxDir, Nil

(* Nil is no inode number, and there is a directory.                       *)
ASSUME BindAssumption == Nil \notin Nat /\ MaxDir \in Nat \ {0}

VARIABLES
  path,     \* the directory now at --secrets-dir
  target,   \* per directory: the inode under the secret's name
  inode,    \* the files made so far
  lease,    \* per environment: the command holding the maintenance lease
  cmd,      \* per command: pc, opened directory, inode, account
  gone      \* inodes unlinked by disable

bindvars == <<path, target, inode, lease, cmd, gone>>

Environments == {EnvironmentOf[c] : c \in Commands}

BindInit ==
  /\ path = 1
  /\ target = [d \in 1..MaxDir |-> Nil]
  /\ inode = <<>>
  /\ lease = [e \in Environments |-> Nil]
  /\ cmd = [c \in Commands |-> [pc |-> "start", dir |-> 0, file |-> Nil, account |-> Nil]]
  /\ gone = {}

Goto(c, pc) == cmd' = [cmd EXCEPT ![c].pc = pc]
At(c, pc, kinds) == cmd[c].pc = pc /\ KindOf[c] \in kinds

(* The command ends, by its result or by a failure code, and leaves the    *)
(* lease if it is still its own.                                           *)
Ends(c, how) ==
  /\ Goto(c, how)
  /\ lease' = [lease EXCEPT ![EnvironmentOf[c]] = IF @ = c THEN Nil ELSE @]

-----------------------------------------------------------------------------
(* _account_secret_from_result: exactly one row is allowed, and it must be *)
(* an active account with a well-formed number.                            *)
Allowed(rows) == {i \in DOMAIN rows : rows[i].allowed}

AccountOf(rows) ==
  IF \/ Cardinality(Allowed(rows)) # 1
     \/ \E i \in Allowed(rows) : ~rows[i].active \/ ~rows[i].wellformed
  THEN Nil ELSE rows[CHOOSE i \in Allowed(rows) : TRUE].account

-----------------------------------------------------------------------------
(* Starting.  A legacy source of the number, a missing acknowledgement or  *)
(* database, or an unusable directory end the command here.                *)
StartRefused(c) ==
  /\ cmd[c].pc = "start" /\ Ends(c, "failed")
  /\ UNCHANGED <<path, target, inode, gone>>

(* _open_secret_directory keeps a descriptor; provision refuses a target.  *)
OpenDirectory(c) ==
  /\ At(c, "start", {"provision", "disable"})
  /\ KindOf[c] = "provision" => target[path] = Nil
  /\ cmd' = [cmd EXCEPT ![c].pc = "lease", ![c].dir = path]
  /\ UNCHANGED <<path, target, inode, lease, gone>>

TakeLease(c) ==
  /\ cmd[c].pc = "lease" /\ lease[EnvironmentOf[c]] = Nil
  /\ lease' = [lease EXCEPT ![EnvironmentOf[c]] = c]
  /\ Goto(c, "leased")
  /\ UNCHANGED <<path, target, inode, gone>>

LeaseHeld(c) ==
  /\ cmd[c].pc = "lease" /\ lease[EnvironmentOf[c]] # Nil /\ Ends(c, "failed")
  /\ UNCHANGED <<path, target, inode, gone>>

(* _discover_account; the gateway may fail or time out as well.            *)
Discover(c) ==
  /\ At(c, "leased", {"provision"})
  /\ \E rows \in Answers : AccountOf(rows) # Nil
       /\ cmd' = [cmd EXCEPT ![c].pc = "found", ![c].account = AccountOf(rows)]
  /\ UNCHANGED <<path, target, inode, lease, gone>>

DiscoverFails(c) ==
  /\ At(c, "leased", {"provision"}) \/ At(c, "loaded", {"validate"})
  /\ Ends(c, "failed")
  /\ UNCHANGED <<path, target, inode, gone>>

(* verify_before_write, then _verify_secret_directory.                     *)
StillOwner(c) == lease[EnvironmentOf[c]] = c
SameDirectory(c) == path = cmd[c].dir

Verify(c) ==
  /\ At(c, "found", {"provision"}) \/ At(c, "opened", {"disable"})
  /\ StillOwner(c) /\ SameDirectory(c)
  /\ KindOf[c] = "provision" => target[cmd[c].dir] = Nil
  /\ Goto(c, "verified")
  /\ UNCHANGED <<path, target, inode, lease, gone>>

VerifyFails(c) ==
  /\ At(c, "found", {"provision"}) \/ At(c, "opened", {"disable"})
  /\ ~StillOwner(c) \/ ~SameDirectory(c) \/ (KindOf[c] = "provision" /\ target[cmd[c].dir] # Nil)
  /\ Ends(c, "failed")
  /\ UNCHANGED <<path, target, inode, gone>>

-----------------------------------------------------------------------------
(* _atomic_install, one system call at a time.                             *)

CreateTemporary(c) ==
  /\ At(c, "verified", {"provision"}) /\ Cardinality(DOMAIN inode) < MaxInode
  /\ LET i == Cardinality(DOMAIN inode) + 1 IN
       /\ inode' = [j \in 1..i |-> IF j = i THEN [account |-> cmd[c].account, written |-> "empty",
                                                    linked |-> FALSE]
                                   ELSE inode[j]]
       /\ cmd' = [cmd EXCEPT ![c].pc = "created", ![c].file = i]
  /\ UNCHANGED <<path, target, lease, gone>>

(* _write_all and fsync; a short write may be seen in between.             *)
WriteTemporary(c, written) ==
  /\ At(c, "created", {"provision"}) /\ inode[cmd[c].file].written # "whole"
  /\ written = "part" => inode[cmd[c].file].written = "empty"
  /\ inode' = [inode EXCEPT ![cmd[c].file].written = written]
  /\ Goto(c, IF written = "whole" THEN "written" ELSE "created")
  /\ UNCHANGED <<path, target, lease, gone>>

(* A plausible slip: rename takes the place of whatever is there.          *)
LinkRename(c) ==
  /\ At(c, "written", {"provision"})
  /\ target' = [target EXCEPT ![cmd[c].dir] = cmd[c].file]
  /\ inode' = [inode EXCEPT ![cmd[c].file].linked = TRUE]
  /\ Goto(c, "linked")
  /\ UNCHANGED <<path, lease, gone>>

(* link never replaces an entry.                                           *)
Link(c) ==
  /\ At(c, "written", {"provision"}) /\ target[cmd[c].dir] = Nil
  /\ target' = [target EXCEPT ![cmd[c].dir] = cmd[c].file]
  /\ inode' = [inode EXCEPT ![cmd[c].file].linked = TRUE]
  /\ Goto(c, "linked")
  /\ UNCHANGED <<path, lease, gone>>

(* The temporary name goes and the directory is synced, or that fails and  *)
(* the command with it though the entry is there.                          *)
Installed(c) ==
  /\ cmd[c].pc = "linked" /\ Ends(c, "done")
  /\ UNCHANGED <<path, target, inode, gone>>

InstallFails(c) ==
  /\ KindOf[c] = "provision" /\ cmd[c].pc \in {"verified", "created", "written", "linked"}
  /\ Ends(c, "failed")
  /\ UNCHANGED <<path, target, inode, gone>>

-----------------------------------------------------------------------------
(* disable                                                                 *)

OpenTarget(c) ==
  /\ At(c, "leased", {"disable"}) /\ target[cmd[c].dir] # Nil
  /\ cmd' = [cmd EXCEPT ![c].pc = "opened", ![c].file = target[cmd[c].dir]]
  /\ UNCHANGED <<path, target, inode, lease, gone>>

NothingToDisable(c) ==
  /\ At(c, "leased", {"disable"}) /\ target[cmd[c].dir] = Nil /\ Ends(c, "done")
  /\ UNCHANGED <<path, target, inode, gone>>

(* _unlink_same_target compares the entry with what was opened, then       *)
(* unlinks the entry: two system calls.  The sync after it may fail.       *)
CompareTarget(c) ==
  /\ At(c, "verified", {"disable"}) /\ target[cmd[c].dir] = cmd[c].file
  /\ Goto(c, "compared")
  /\ UNCHANGED <<path, target, inode, lease, gone>>

TargetChanged(c) ==
  /\ \/ At(c, "verified", {"disable"}) /\ target[cmd[c].dir] # cmd[c].file
     \/ At(c, "compared", {"disable"}) /\ target[cmd[c].dir] = Nil
  /\ Ends(c, "failed")
  /\ UNCHANGED <<path, target, inode, gone>>

UnlinkTarget(c) ==
  /\ At(c, "compared", {"disable"}) /\ target[cmd[c].dir] # Nil
  /\ gone' = gone \cup {target[cmd[c].dir]}
  /\ target' = [target EXCEPT ![cmd[c].dir] = Nil]
  /\ \E how \in {"done", "failed"} : Ends(c, how)
  /\ UNCHANGED <<path, inode>>

-----------------------------------------------------------------------------
(* validate: _RobinhoodAccountFileSecretSource opens the directory and the *)
(* entry without following links, and refuses a file that is not whole or  *)
(* changed between fstat and read.                                         *)

LoadOpen(c) ==
  /\ At(c, "start", {"validate"}) /\ target[path] # Nil
  /\ cmd' = [cmd EXCEPT ![c].pc = "loading", ![c].dir = path, ![c].file = target[path]]
  /\ UNCHANGED <<path, target, inode, lease, gone>>

LoadRead(c) ==
  /\ At(c, "loading", {"validate"}) /\ inode[cmd[c].file].written = "whole"
  /\ cmd' = [cmd EXCEPT ![c].pc = "loaded", ![c].account = inode[cmd[c].file].account]
  /\ UNCHANGED <<path, target, inode, lease, gone>>

LoadFails(c) ==
  /\ At(c, "start", {"validate"}) \/ At(c, "loading", {"validate"})
  /\ Ends(c, "failed")
  /\ UNCHANGED <<path, target, inode, gone>>

(* The installed account is still the one discovered.                      *)
Compare(c) ==
  /\ At(c, "loaded", {"validate"})
  /\ \E rows \in Answers : AccountOf(rows) # Nil
       /\ Ends(c, IF AccountOf(rows) = cmd[c].account THEN "done" ELSE "failed")
  /\ UNCHANGED <<path, target, inode, gone>>

-----------------------------------------------------------------------------
(* The environment: a command is killed, a lease runs out, the operator    *)
(* exchanges the directory.                                                *)

Killed(c) ==
  /\ cmd[c].pc \notin {"start", "done", "failed", "killed"} /\ Goto(c, "killed")
  /\ UNCHANGED <<path, target, inode, lease, gone>>

LeaseExpires(e) ==
  /\ lease[e] # Nil /\ lease' = [lease EXCEPT ![e] = Nil]
  /\ UNCHANGED <<path, target, inode, cmd, gone>>

DirectoryExchanged ==
  /\ path < MaxDir /\ path' = path + 1
  /\ UNCHANGED <<target, inode, lease, cmd, gone>>

BindNext ==
  \/ \E c \in Commands :
       \/ StartRefused(c) \/ OpenDirectory(c) \/ TakeLease(c) \/ LeaseHeld(c)
       \/ Discover(c) \/ DiscoverFails(c) \/ Verify(c) \/ VerifyFails(c)
       \/ CreateTemporary(c) \/ \E w \in {"part", "whole"} : WriteTemporary(c, w)
       \/ Link(c) \/ Installed(c) \/ InstallFails(c)
       \/ OpenTarget(c) \/ NothingToDisable(c) \/ CompareTarget(c) \/ TargetChanged(c)
       \/ UnlinkTarget(c)
       \/ LoadOpen(c) \/ LoadRead(c) \/ LoadFails(c) \/ Compare(c)
       \/ Killed(c)
  \/ \E e \in Environments : LeaseExpires(e)
  \/ DirectoryExchanged

BindSpec == BindInit /\ [][BindNext]_bindvars

-----------------------------------------------------------------------------
(* Wherever commands of the two environments meet and whichever is killed: *)
(* the secret's name never shows a file that is not completely written     *)
(* with an account the gateway vouched for, an installed binding is never  *)
(* replaced but only removed by disable, and a provision that reports      *)
(* success did install its own (_atomic_install, "a later provision still  *)
(* refuses the final target and never overwrites it").                     *)
BindingSound ==
  LET shown == {target[d] : d \in 1..MaxDir} \ {Nil} IN
  /\ \A i \in shown : inode[i].written = "whole" /\ \E rows \in Answers : AccountOf(rows) = inode[i].account
  /\ {i \in DOMAIN inode : inode[i].linked} = shown \cup gone
  /\ shown \cap gone = {}
  /\ \A c \in Commands : At(c, "done", {"provision"}) => inode[cmd[c].file].linked
=============================================================================
