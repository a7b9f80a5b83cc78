---------------------------- MODULE SnapshotCache ----------------------------
(***************************************************************************)
(* The store of research snapshots (data/cache.py): a directory with one   *)
(* file per key, written by processes that cooperate through an advisory   *)
(* lock.  A put writes a pending file, links it under the key's name and   *)
(* unlinks the pending name.  A process may be killed between any two of   *)
(* these steps; the lock is then free again and its files stay.            *)
(***************************************************************************)
EXTENDS Integers, FiniteSets

CONSTANTS Workers, Keys, Bodies, KeyOf, MaxEntries, Nothing, MaxKills

File == [body : Bodies, whole : BOOLEAN, links : {1, 2}]

(* A snapshot has one key, and Nothing is no snapshot, process or file.    *)
ASSUME CacheAssumption ==
  /\ KeyOf \in [Bodies -> Keys]
  /\ Nothing \notin Bodies /\ Nothing \notin Workers /\ Nothing \notin File

VARIABLES
  entries,   \* file of each key: [body, whole, links] or Nothing
  pending,   \* leftover and current pending files: [owner, key, whole, linked]
  worker,    \* [pc, body, answer] of each process
  holder,    \* who holds the lock
  promised,  \* the body a put of the key returned for, or Nothing
  kills

cachevars == <<entries, pending, worker, holder, promised, kills>>

CacheInit ==
  /\ entries = [k \in Keys |-> Nothing] /\ pending = {}
  /\ worker = [w \in Workers |-> [pc |-> "idle", body |-> Nothing, answer |-> "none"]]
  /\ holder = Nothing /\ promised = [k \in Keys |-> Nothing] /\ kills = 0

KeyFor(w) == KeyOf[worker[w].body]
WorkerAt(w, pc) == worker[w].pc = pc
WorkerTo(w, pc) == worker' = [worker EXCEPT ![w].pc = pc]
Answered(w, a) == /\ worker' = [worker EXCEPT ![w].pc = "idle", ![w].answer = a]
                /\ holder' = IF holder = w THEN Nothing ELSE holder

(* put or get is called, and waits for the lock.                           *)
Ask(w) ==
  /\ WorkerAt(w, "idle")
  /\ \E b \in Bodies, pc \in {"put", "get"} :
       worker' = [worker EXCEPT ![w] = [pc |-> pc, body |-> b, answer |-> "none"]]
  /\ UNCHANGED <<entries, pending, holder, promised, kills>>

(* _locked gives up after five seconds.                                    *)
LockTimeout(w) ==
  /\ worker[w].pc \in {"put", "get"} /\ holder # Nothing
  /\ Answered(w, "CACHE_LOCK_TIMEOUT")
  /\ UNCHANGED <<entries, pending, promised, kills>>

(* _check_file: a file with a second name is not an entry.                 *)
FileValid(file) == file.links = 1

(* _usage: every name in the directory must be a valid entry.  An entry    *)
(* with two names has its pending name beside it; which of the two the     *)
(* listing meets first only changes the code of the refusal.               *)
DirectoryValid == pending = {} /\ \A k \in Keys : entries[k] # Nothing => FileValid(entries[k])

(* A plausible slip: an entry of the key is taken as this snapshot.        *)
PutRefusalTrusting(w) ==
  IF entries[KeyFor(w)] # Nothing THEN "ok"
  ELSE IF ~DirectoryValid THEN "CACHE_DIRECTORY_INVALID" ELSE "none"

(* put under the lock, up to the new pending file.                         *)
PutRefusal(w) ==
  LET old == entries[KeyFor(w)] IN
  CASE old # Nothing /\ ~FileValid(old) -> "CACHE_ENTRY_INVALID"
    [] old # Nothing /\ FileValid(old) -> IF old.whole /\ old.body = worker[w].body
                                          THEN "ok" ELSE "CACHE_KEY_CONFLICT"
    [] old = Nothing /\ ~DirectoryValid -> "CACHE_DIRECTORY_INVALID"
    [] OTHER -> IF Cardinality({k \in Keys : entries[k] # Nothing}) >= MaxEntries
                THEN "CACHE_CAPACITY_REACHED" ELSE "none"

Promise(w, answer) ==
  promised' = IF answer = "ok" THEN [promised EXCEPT ![KeyFor(w)] = worker[w].body] ELSE promised

BeginPut(w) ==
  /\ WorkerAt(w, "put") /\ holder = Nothing
  /\ \E answer \in {PutRefusal(w)} :
       IF answer = "none"
       THEN /\ pending' = pending \cup
                 {[owner |-> w, key |-> KeyFor(w), whole |-> FALSE, linked |-> FALSE]}
            /\ WorkerTo(w, "write") /\ holder' = w
            /\ UNCHANGED promised
       ELSE /\ Promise(w, answer) /\ Answered(w, answer)
            /\ UNCHANGED pending
  /\ UNCHANGED <<entries, kills>>

Mine(w) == CHOOSE p \in pending : p.owner = w /\ p.key = KeyFor(w)

(* An I/O error before the link: `finally` takes the pending name away,    *)
(* unless the unlink fails too.                                            *)
LeaveUnlinked(w) ==
  /\ pending' \in {pending \ {Mine(w)}, pending}
  /\ Answered(w, "CACHE_IO_FAILED")
  /\ UNCHANGED entries

(* The body is written and synced, or that fails.                          *)
WriteBody(w) ==
  /\ WorkerAt(w, "write")
  /\ \/ /\ pending' = (pending \ {Mine(w)}) \cup {[Mine(w) EXCEPT !.whole = TRUE]}
        /\ WorkerTo(w, "link") /\ UNCHANGED <<entries, holder>>
     \/ LeaveUnlinked(w)
  /\ UNCHANGED <<promised, kills>>

(* The file gets its key's name, or that fails.                            *)
LinkBody(w) ==
  /\ WorkerAt(w, "link")
  /\ \/ /\ entries' = [entries EXCEPT ![KeyFor(w)] =
                         [body |-> worker[w].body, whole |-> Mine(w).whole, links |-> 2]]
        /\ pending' = (pending \ {Mine(w)}) \cup {[Mine(w) EXCEPT !.linked = TRUE]}
        /\ WorkerTo(w, "unlink") /\ UNCHANGED holder
     \/ LeaveUnlinked(w)
  /\ UNCHANGED <<promised, kills>>

(* The pending name goes, the directory is synced and put returns.  If the *)
(* sync fails the entry stands but put does not return its key.            *)
UnlinkPending(w) ==
  /\ WorkerAt(w, "unlink")
  /\ entries' = [entries EXCEPT ![KeyFor(w)].links = 1]
  /\ pending' = pending \ {Mine(w)}
  /\ \E answer \in {"ok", "CACHE_IO_FAILED"} : Promise(w, answer) /\ Answered(w, answer)
  /\ UNCHANGED kills

(* The unlink fails: the entry keeps its second name.                      *)
UnlinkFails(w) ==
  /\ WorkerAt(w, "unlink") /\ Answered(w, "CACHE_IO_FAILED")
  /\ UNCHANGED <<entries, pending, promised, kills>>

(* get: the entry must be a valid file whose digest and key agree.         *)
GetAnswer(w) ==
  LET file == entries[KeyFor(w)] IN
  IF file = Nothing THEN "CACHE_IO_FAILED"
  ELSE IF ~FileValid(file) THEN "CACHE_ENTRY_INVALID"
  ELSE IF ~file.whole \/ KeyOf[file.body] # KeyFor(w) THEN "CACHE_INTEGRITY_FAILED"
  ELSE "ok"

Get(w) ==
  /\ WorkerAt(w, "get") /\ holder = Nothing
  /\ Answered(w, GetAnswer(w))
  /\ UNCHANGED <<entries, pending, promised, kills>>

(* The process is killed: the lock is released, its files stay.            *)
Kill(w) ==
  /\ worker[w].pc \in {"write", "link", "unlink"} /\ kills < MaxKills
  /\ Answered(w, "killed") /\ kills' = kills + 1
  /\ UNCHANGED <<entries, pending, promised>>

CacheNext == \E w \in Workers :
  \/ Ask(w) \/ LockTimeout(w) \/ BeginPut(w) \/ WriteBody(w) \/ LinkBody(w) \/ UnlinkPending(w)
  \/ UnlinkFails(w) \/ Get(w) \/ Kill(w)

CacheSpec == CacheInit /\ [][CacheNext]_cachevars

-----------------------------------------------------------------------------
(* Whatever is killed or fails when: a snapshot that put returned for      *)
(* stays there, whole, readable and with the content that was put; and a   *)
(* name in the directory never stands for a half-written body              *)
(* (SnapshotStore.put).                                                    *)
PutsKept ==
  /\ \A k \in Keys : promised[k] # Nothing =>
       entries[k] = [body |-> promised[k], whole |-> TRUE, links |-> 1]
  /\ \A k \in Keys : entries[k] # Nothing => entries[k].whole /\ KeyOf[entries[k].body] = k
=============================================================================
