----------------------------- MODULE FilesProofs -----------------------------
(***************************************************************************)
(* What processes leave in files, whichever of them are killed and         *)
(* whichever system call fails: the snapshot cache, the file that binds    *)
(* the Robinhood account, and the .env and token files of the Telegram     *)
(* Bots, for any number of processes, keys, directories and files.         *)
(***************************************************************************)
EXTENDS SnapshotCache, AccountBinding, TelegramProvisioning, FiniteSetTheorems, TLAPS

-----------------------------------------------------------------------------
(* The snapshot cache.                                                     *)

Codes ==
  {"none", "ok", "killed", "CACHE_LOCK_TIMEOUT", "CACHE_ENTRY_INVALID", "CACHE_KEY_CONFLICT",
   "CACHE_DIRECTORY_INVALID", "CACHE_CAPACITY_REACHED", "CACHE_IO_FAILED", "CACHE_INTEGRITY_FAILED"}

Process == [pc : {"idle", "put", "get", "write", "link", "unlink"}, body : Bodies \cup {Nothing},
            answer : Codes]

Temps == [owner : Workers, key : Keys, whole : BOOLEAN, linked : BOOLEAN]

CacheTypes ==
  /\ entries \in [Keys -> File \cup {Nothing}]
  /\ promised \in [Keys -> Bodies \cup {Nothing}]
  /\ worker \in [Workers -> Process]
  /\ \A w \in Workers : worker[w].pc # "idle" => worker[w].body \in Bodies

Putting(w) == worker[w].pc \in {"write", "link", "unlink"}

\* Whoever is between two steps of a put holds the lock, and the directory has no
\* other pending file than theirs.
PutScoped(w) ==
  /\ Putting(w) => holder = w
  /\ worker[w].pc \in {"write", "link"} =>
       /\ entries[KeyOf[worker[w].body]] = Nothing
       /\ \E p \in Temps : /\ pending = {p} /\ p.owner = w /\ p.key = KeyOf[worker[w].body]
                           /\ worker[w].pc = "link" => p.whole
  /\ worker[w].pc = "unlink" =>
       entries[KeyOf[worker[w].body]] = [body |-> worker[w].body, whole |-> TRUE, links |-> 2]

CacheInv == CacheTypes /\ (\A w \in Workers : PutScoped(w)) /\ PutsKept

\* The pending file of whoever is between two steps of a put.
LEMMA MineIs ==
    ASSUME NEW w, NEW p, pending = {p}, p.owner = w, p.key = KeyOf[worker[w].body]
    PROVE  Mine(w) = p
  BY Zenon DEF Mine, KeyFor

\* What an update of one field leaves of a file and of a pending file.
LEMMA FileMoves ==
    ASSUME NEW r \in File
    PROVE  [r EXCEPT !.links = 1] = [body |-> r.body, whole |-> r.whole, links |-> 1]
  BY DEF File

LEMMA TempMoves ==
    ASSUME NEW p \in Temps
    PROVE  /\ [p EXCEPT !.whole = TRUE] \in Temps
           /\ [p EXCEPT !.whole = TRUE].owner = p.owner
           /\ [p EXCEPT !.whole = TRUE].key = p.key
           /\ [p EXCEPT !.whole = TRUE].whole = TRUE
  BY Zenon DEF Temps

LEMMA CacheStarts == CacheInit => CacheInv
  <1> SUFFICES ASSUME CacheInit PROVE CacheInv BY Zenon
  <1>1. CacheTypes BY Zenon DEF CacheInit, CacheTypes, Process, Codes
  <1>2. ASSUME NEW w \in Workers PROVE PutScoped(w)
    <2>1. worker[w].pc = "idle" BY Zenon DEF CacheInit
    <2> QED BY Zenon, <2>1 DEF PutScoped, Putting
  <1>3. PutsKept BY Zenon DEF CacheInit, PutsKept, PutsKept
  <1> QED BY Zenon, <1>1, <1>2, <1>3 DEF CacheInv

\* Others are not disturbed by a step of w, unless it takes their lock, their pending
\* file or their entry.
LEMMA OthersScoped ==
    ASSUME NEW v \in Workers, PutScoped(v), worker'[v] = worker[v],
           Putting(v) => holder' = holder /\ pending' = pending /\ entries' = entries
    PROVE  PutScoped(v)'
  <1>1. CASE Putting(v) BY Zenon, <1>1 DEF PutScoped, Putting
  <1>2. CASE ~Putting(v) BY Zenon, <1>2 DEF PutScoped, Putting
  <1> QED BY Zenon, <1>1, <1>2

\* A call that ends, or begins, and leaves the entries and the promises alone.
LEMMA CacheQuiet ==
    ASSUME CacheInv, NEW w \in Workers, NEW r \in Process,
           worker' = [worker EXCEPT ![w] = r],
           r.pc \in {"idle", "put", "get"}, r.pc # "idle" => r.body \in Bodies,
           \A v \in Workers : v # w /\ Putting(v) => holder' = holder /\ pending' = pending,
           entries' = entries, promised' = promised
    PROVE  CacheInv'
  <1>1. CacheTypes' BY Zenon DEF CacheInv, CacheTypes
  <1>2. ASSUME NEW v \in Workers PROVE PutScoped(v)'
    <2>1. CASE v = w
      <3>1. worker'[v].pc \notin {"write", "link", "unlink"} BY Zenon, <2>1 DEF CacheInv, CacheTypes
      <3> QED BY Zenon, <3>1 DEF PutScoped, Putting
    <2>2. CASE v # w
      <3>1. worker'[v] = worker[v] BY Zenon, <2>2 DEF CacheInv, CacheTypes
      <3>2. PutScoped(v) BY Zenon DEF CacheInv
      <3> QED BY Zenon, <2>2, <3>1, <3>2, OthersScoped
    <2> QED BY Zenon, <2>1, <2>2
  <1>3. PutsKept' BY Zenon DEF CacheInv, PutsKept, PutsKept
  <1> QED BY Zenon, <1>1, <1>2, <1>3 DEF CacheInv

\* Ending a call frees the lock of nobody else.
LEMMA CacheAnswers ==
    ASSUME CacheInv, NEW w \in Workers, NEW a \in Codes, Answered(w, a),
           entries' = entries, promised' = promised,
           pending' = pending \/ Putting(w)
    PROVE  CacheInv'
  <1> DEFINE r == [worker[w] EXCEPT !.pc = "idle", !.answer = a]
  <1>1. worker \in [Workers -> Process] BY Zenon DEF CacheInv, CacheTypes
  <1>2. r \in Process /\ r.pc = "idle" BY Zenon, <1>1 DEF Process
  <1>3. worker' = [worker EXCEPT ![w] = r] BY Zenon, <1>1 DEF Answered, Process
  <1>4. ASSUME NEW v \in Workers, v # w, Putting(v) PROVE holder' = holder /\ pending' = pending
    <2>1. holder = v BY Zenon, <1>4 DEF CacheInv, PutScoped
    <2>2. ~Putting(w) BY Zenon, <1>4, <2>1 DEF CacheInv, PutScoped
    <2> QED BY Zenon, <1>4, <2>1, <2>2 DEF Answered
  <1> HIDE DEF r
  <1> QED BY Zenon, <1>2, <1>3, <1>4, CacheQuiet

\* One process of a put moves on and keeps its lock.
LEMMA PutMoves ==
    ASSUME CacheInv, NEW w \in Workers, WorkerTo(w, "write") \/ WorkerTo(w, "link") \/ WorkerTo(w, "unlink"),
           holder' = w, holder = w \/ holder = Nothing, Nothing \notin Workers,
           worker[w].pc # "idle",
           entries' \in [Keys -> File \cup {Nothing}], promised' = promised
    PROVE  /\ CacheTypes'
           /\ \A v \in Workers : v # w => PutScoped(v)'
           /\ worker'[w].body = worker[w].body /\ worker[w].body \in Bodies
  <1>1. worker \in [Workers -> Process] BY Zenon DEF CacheInv, CacheTypes
  <1>2. PICK pc \in {"write", "link", "unlink"} : worker' = [worker EXCEPT ![w].pc = pc]
    BY Zenon DEF WorkerTo
  <1>3. worker' \in [Workers -> Process] BY Zenon, <1>1, <1>2 DEF Process
  <1>4. worker'[w].body = worker[w].body /\ worker[w].body \in Bodies
    BY Zenon, <1>1, <1>2 DEF Process, CacheInv, CacheTypes
  <1>5. \A v \in Workers : v # w => worker'[v] = worker[v] BY Zenon, <1>1, <1>2
  <1>6. \A v \in Workers : worker'[v].pc # "idle" => worker'[v].body \in Bodies
    BY Zenon, <1>4, <1>5 DEF CacheInv, CacheTypes
  <1>7. CacheTypes' BY Zenon, <1>3, <1>6 DEF CacheInv, CacheTypes
  <1>8. ASSUME NEW v \in Workers, v # w PROVE PutScoped(v)'
    <2>1. PutScoped(v) BY Zenon DEF CacheInv
    <2>2. ~Putting(v) BY Zenon, <1>8, <2>1 DEF PutScoped
    <2> QED BY Zenon, <1>5, <1>8, <2>1, <2>2, OthersScoped
  <1> QED BY Zenon, <1>4, <1>7, <1>8

LEMMA CacheBeginPut ==
    ASSUME CacheInv, NEW w \in Workers, BeginPut(w)
    PROVE  CacheInv'
  <1> DEFINE k == KeyOf[worker[w].body]
             a == PutRefusal(w)
  <1>0. worker[w].body \in Bodies /\ k \in Keys /\ worker[w].pc = "put" /\ holder = Nothing /\ entries' = entries
    BY Zenon, CacheAssumption DEF CacheInv, CacheTypes, BeginPut, WorkerAt
  <1>1. CASE a = "none"
    <2>1. /\ WorkerTo(w, "write") /\ holder' = w /\ promised' = promised
          /\ pending' = pending \cup {[owner |-> w, key |-> k, whole |-> FALSE, linked |-> FALSE]}
      BY Zenon, <1>1 DEF BeginPut, KeyFor
    <2>2. entries[k] = Nothing /\ pending = {}
      BY Zenon, <1>1, <1>0 DEF PutRefusal, KeyFor, DirectoryValid
    <2>3. entries \in [Keys -> File \cup {Nothing}] /\ Nothing \notin Workers
      BY Zenon, CacheAssumption DEF CacheInv, CacheTypes
    <2>4. /\ CacheTypes' /\ \A v \in Workers : v # w => PutScoped(v)'
          /\ worker'[w].body = worker[w].body
      BY Zenon, <1>0, <2>1, <2>3, PutMoves
    <2>5. worker'[w].pc = "write" BY Zenon, <2>1 DEF CacheInv, CacheTypes, WorkerTo, Process
    <2> DEFINE p == [owner |-> w, key |-> k, whole |-> FALSE, linked |-> FALSE]
    <2>8. p \in Temps /\ p.owner = w /\ p.key = k BY Zenon, <1>0 DEF Temps
    <2>9. pending' = {p} BY Zenon, <2>1, <2>2
    <2>6. PutScoped(w)'
      <3> HIDE DEF p
      <3> QED BY Zenon, <1>0, <2>1, <2>2, <2>4, <2>5, <2>8, <2>9 DEF PutScoped, Putting
    <2>7. PutsKept' BY Zenon, <1>0, <2>1 DEF CacheInv, PutsKept, PutsKept
    <2> QED BY Zenon, <2>4, <2>6, <2>7 DEF CacheInv
  <1>2. CASE a # "none"
    <2>1. Promise(w, a) /\ Answered(w, a) /\ pending' = pending
      BY Zenon, <1>2 DEF BeginPut
    <2>2. a \in Codes BY Zenon DEF PutRefusal, Codes
    <2>3. CASE a # "ok"
      <3>1. promised' = promised BY Zenon, <2>1, <2>3 DEF Promise
      <3> QED BY Zenon, <1>0, <2>1, <2>2, <3>1, CacheAnswers
    <2>4. CASE a = "ok"
      <3>1. promised' = [promised EXCEPT ![k] = worker[w].body]
        BY Zenon, <2>1, <2>4 DEF Promise, KeyFor
      <3>2. entries[k] # Nothing /\ entries[k].links = 1 /\ entries[k].whole /\ entries[k].body = worker[w].body
        BY Zenon, <2>4 DEF PutRefusal, KeyFor, FileValid
      <3>3. entries[k] = [body |-> worker[w].body, whole |-> TRUE, links |-> 1]
        BY Zenon, <1>0, <3>2 DEF CacheInv, CacheTypes, File
      <3>4. promised' \in [Keys -> Bodies \cup {Nothing}] BY Zenon, <1>0, <3>1 DEF CacheInv, CacheTypes
      <3>5. PutsKept' BY Zenon, <1>0, <3>1, <3>3 DEF CacheInv, CacheTypes, PutsKept, PutsKept
      <3> DEFINE r == [worker[w] EXCEPT !.pc = "idle", !.answer = a]
      <3>6. worker \in [Workers -> Process] BY Zenon DEF CacheInv, CacheTypes
      <3>7. worker' = [worker EXCEPT ![w] = r] /\ r \in Process /\ r.pc = "idle"
        BY Zenon, <2>1, <2>2, <3>6 DEF Process, Answered
      <3>8. CacheTypes'
        <4> HIDE DEF r, a
        <4> QED BY Zenon, <1>0, <3>4, <3>7 DEF CacheInv, CacheTypes
      <3>9. ASSUME NEW v \in Workers PROVE PutScoped(v)'
        <4>1. ~Putting(v)
          <5>1. PutScoped(v) BY Zenon DEF CacheInv
          <5> QED BY Zenon, <1>0, <5>1, CacheAssumption DEF PutScoped
        <4>2. ~Putting(v)' BY Zenon, <3>6, <3>7, <4>1 DEF Putting
        <4> QED BY Zenon, <4>2 DEF PutScoped, Putting
      <3> QED BY Zenon, <3>5, <3>8, <3>9 DEF CacheInv
    <2> QED BY Zenon, <2>3, <2>4
  <1> QED BY Zenon, <1>1, <1>2

LEMMA CacheWrites ==
    ASSUME CacheInv, NEW w \in Workers, WriteBody(w)
    PROVE  CacheInv'
  <1> DEFINE k == KeyOf[worker[w].body]
  <1>0. /\ worker[w].pc = "write" /\ promised' = promised /\ PutScoped(w) /\ Putting(w)
        /\ holder = w /\ entries[k] = Nothing
    BY Zenon DEF CacheInv, PutScoped, Putting, WriteBody, WorkerAt
  <1>1. CASE LeaveUnlinked(w)
    BY Zenon, <1>0, <1>1, CacheAnswers DEF LeaveUnlinked, Codes
  <1>2. CASE /\ pending' = (pending \ {Mine(w)}) \cup {[Mine(w) EXCEPT !.whole = TRUE]}
             /\ WorkerTo(w, "link") /\ UNCHANGED <<entries, holder>>
    <2>1. PICK p \in Temps : pending = {p} /\ p.owner = w /\ p.key = k
      BY Zenon, <1>0 DEF PutScoped
    <2> DEFINE p2 == [p EXCEPT !.whole = TRUE]
    <2>2. pending' = {p2}
      <3>1. Mine(w) = p BY Zenon, <2>1, MineIs
      <3> QED BY Zenon, <1>2, <2>1, <3>1
    <2>8. p2 \in Temps /\ p2.owner = w /\ p2.key = k /\ p2.whole BY Zenon, <2>1, TempMoves
    <2>3. entries \in [Keys -> File \cup {Nothing}] /\ Nothing \notin Workers
      BY Zenon, CacheAssumption DEF CacheInv, CacheTypes
    <2>4. /\ CacheTypes' /\ \A v \in Workers : v # w => PutScoped(v)'
          /\ worker'[w].body = worker[w].body
      BY Zenon, <1>0, <1>2, <2>3, PutMoves
    <2>5. worker'[w].pc = "link" BY Zenon, <1>2 DEF CacheInv, CacheTypes, WorkerTo, Process
    <2>6. PutScoped(w)'
      <3> HIDE DEF p2
      <3> QED BY <1>0, <1>2, <2>2, <2>4, <2>5, <2>8 DEF PutScoped, Putting
    <2>7. PutsKept' BY Zenon, <1>0, <1>2 DEF CacheInv, PutsKept, PutsKept
    <2> QED BY Zenon, <2>4, <2>6, <2>7 DEF CacheInv
  <1> QED BY Zenon, <1>1, <1>2 DEF WriteBody

LEMMA CacheLinks ==
    ASSUME CacheInv, NEW w \in Workers, LinkBody(w)
    PROVE  CacheInv'
  <1> DEFINE k == KeyOf[worker[w].body]
             file == [body |-> worker[w].body, whole |-> TRUE, links |-> 2]
  <1>0. /\ worker[w].pc = "link" /\ promised' = promised /\ PutScoped(w) /\ Putting(w)
        /\ holder = w /\ entries[k] = Nothing
    BY Zenon DEF CacheInv, PutScoped, Putting, LinkBody, WorkerAt
  <1>1. CASE LeaveUnlinked(w)
    BY Zenon, <1>0, <1>1, CacheAnswers DEF LeaveUnlinked, Codes
  <1>2. CASE /\ entries' = [entries EXCEPT ![KeyFor(w)] =
                              [body |-> worker[w].body, whole |-> Mine(w).whole, links |-> 2]]
             /\ pending' = (pending \ {Mine(w)}) \cup {[Mine(w) EXCEPT !.linked = TRUE]}
             /\ WorkerTo(w, "unlink") /\ UNCHANGED holder
    <2>1. Mine(w).whole = TRUE
      <3>1. PICK p \in Temps : pending = {p} /\ p.owner = w /\ p.key = k /\ p.whole
        BY Zenon, <1>0 DEF PutScoped
      <3>2. Mine(w) = p BY Zenon, <3>1, MineIs
      <3> QED BY Zenon, <3>1, <3>2 DEF Temps
    <2>3. worker[w].body \in Bodies /\ k \in Keys BY Zenon, <1>0, CacheAssumption DEF CacheInv, CacheTypes
    <2>4. entries' = [entries EXCEPT ![k] = file] /\ file \in File /\ file # Nothing
      <3>2. file \in File BY Zenon, <2>3 DEF File
      <3> QED BY Zenon, <1>2, <2>1, <3>2, CacheAssumption DEF KeyFor
    <2>5. file.whole /\ KeyOf[file.body] = k BY Zenon
    <2> HIDE DEF file
    <2>6. entries \in [Keys -> File \cup {Nothing}] /\ Nothing \notin Workers
      BY Zenon, CacheAssumption DEF CacheInv, CacheTypes
    <2>7. entries' \in [Keys -> File \cup {Nothing}] /\ entries'[k] = file BY Zenon, <2>3, <2>4, <2>6
    <2>8. /\ CacheTypes' /\ \A v \in Workers : v # w => PutScoped(v)'
          /\ worker'[w].body = worker[w].body
      BY Zenon, <1>0, <1>2, <2>6, <2>7, PutMoves
    <2>9. worker'[w].pc = "unlink" BY Zenon, <1>2 DEF CacheInv, CacheTypes, WorkerTo, Process
    <2>10. PutScoped(w)' BY Zenon, <1>0, <1>2, <2>7, <2>8, <2>9 DEF PutScoped, Putting, file
    <2>11. promised[k] = Nothing
      <3>1. promised[k] # Nothing => entries[k] = [body |-> promised[k], whole |-> TRUE, links |-> 1]
        BY Zenon, <2>3 DEF CacheInv, PutsKept, PutsKept
      <3>2. promised[k] # Nothing => [body |-> promised[k], whole |-> TRUE, links |-> 1] \in File
        BY Zenon, <2>3 DEF CacheInv, CacheTypes, File
      <3> QED BY Zenon, <1>0, <3>1, <3>2, CacheAssumption
    <2>12. PutsKept' BY Zenon, <1>0, <2>3, <2>4, <2>5, <2>6, <2>7, <2>11 DEF CacheInv, PutsKept, PutsKept
    <2> QED BY Zenon, <2>8, <2>10, <2>12 DEF CacheInv
  <1> QED BY Zenon, <1>1, <1>2 DEF LinkBody

LEMMA CacheUnlinks ==
    ASSUME CacheInv, NEW w \in Workers, UnlinkPending(w)
    PROVE  CacheInv'
  <1> DEFINE k == KeyOf[worker[w].body]
             file == [body |-> worker[w].body, whole |-> TRUE, links |-> 1]
  <1>0. /\ worker[w].pc = "unlink" /\ PutScoped(w) /\ Putting(w) /\ holder = w
        /\ entries[k] = [body |-> worker[w].body, whole |-> TRUE, links |-> 2]
    BY Zenon DEF CacheInv, PutScoped, Putting, UnlinkPending, WorkerAt
  <1>1. PICK a \in {"ok", "CACHE_IO_FAILED"} : Promise(w, a) /\ Answered(w, a)
    BY Zenon DEF UnlinkPending
  <1>2. worker[w].body \in Bodies /\ k \in Keys BY Zenon, <1>0, CacheAssumption DEF CacheInv, CacheTypes
  <1>3. entries \in [Keys -> File \cup {Nothing}] /\ promised \in [Keys -> Bodies \cup {Nothing}]
        /\ worker \in [Workers -> Process]
    BY Zenon DEF CacheInv, CacheTypes
  <1>4. entries' = [entries EXCEPT ![k] = file] /\ file \in File /\ file # Nothing
    <2>1. [entries[k] EXCEPT !.links = 1] = file
      <3>1. entries[k] \in File /\ entries[k].body = worker[w].body /\ entries[k].whole = TRUE
        BY <1>0, <1>2 DEF File
      <3> QED BY Zenon, <3>1, FileMoves
    <2>2. entries' = [entries EXCEPT ![k] = [entries[k] EXCEPT !.links = 1]]
      BY Zenon, <1>2, <1>3 DEF UnlinkPending, KeyFor
    <2>3. file \in File BY Zenon, <1>2 DEF File
    <2> QED BY Zenon, <2>1, <2>2, <2>3, CacheAssumption
  <1>5. file.whole /\ KeyOf[file.body] = k BY Zenon
  <1>6. promised[k] = Nothing
    <2>1. entries[k].links = 2 BY <1>0
    <2>2. promised[k] # Nothing => entries[k] = [body |-> promised[k], whole |-> TRUE, links |-> 1]
      BY Zenon, <1>2 DEF CacheInv, PutsKept, PutsKept
    <2> QED BY <2>1, <2>2
  <1>7. promised' = promised \/ promised' = [promised EXCEPT ![k] = worker[w].body]
    BY Zenon, <1>1 DEF Promise, KeyFor
  <1>8. PutsKept'
    <2>1. ASSUME NEW j \in Keys, j # k
          PROVE  entries'[j] = entries[j] /\ promised'[j] = promised[j]
      BY Zenon, <1>2, <1>3, <1>4, <1>7, <2>1
    <2>2. entries'[k] = file /\ (promised'[k] = Nothing \/ promised'[k] = worker[w].body)
      BY Zenon, <1>2, <1>3, <1>4, <1>6, <1>7
    <2>3. ASSUME NEW j \in Keys, promised'[j] # Nothing
          PROVE  entries'[j] = [body |-> promised'[j], whole |-> TRUE, links |-> 1]
      BY Zenon, <2>1, <2>2, <2>3 DEF CacheInv, PutsKept, PutsKept
    <2>4. ASSUME NEW j \in Keys, entries'[j] # Nothing
          PROVE  entries'[j].whole /\ KeyOf[entries'[j].body] = j
      <3> HIDE DEF file
      <3> QED BY Zenon, <1>5, <2>1, <2>2, <2>4 DEF CacheInv, PutsKept, PutsKept
    <2> QED BY Zenon, <2>3, <2>4 DEF PutsKept, PutsKept
  <1> DEFINE r == [worker[w] EXCEPT !.pc = "idle", !.answer = a]
  <1>9. worker' = [worker EXCEPT ![w] = r] /\ r \in Process /\ r.pc = "idle"
    <2>1. a \in Codes BY Zenon DEF Codes
    <2> QED BY Zenon, <1>1, <1>3, <2>1 DEF Process, Answered
  <1>10. CacheTypes'
    <2> HIDE DEF r, file
    <2>1. entries' \in [Keys -> File \cup {Nothing}] BY Zenon, <1>3, <1>4
    <2>2. promised' \in [Keys -> Bodies \cup {Nothing}] BY Zenon, <1>2, <1>3, <1>7
    <2>3. worker' \in [Workers -> Process] BY Zenon, <1>3, <1>9
    <2>4. \A v \in Workers : worker'[v].pc # "idle" => worker'[v].body \in Bodies
      BY Zenon, <1>3, <1>9 DEF CacheInv, CacheTypes
    <2> QED BY Zenon, <2>1, <2>2, <2>3, <2>4 DEF CacheTypes
  <1>11. ASSUME NEW v \in Workers PROVE PutScoped(v)'
    <2> HIDE DEF r
    <2>1. v # w => ~Putting(v)
      <3>1. PutScoped(v) BY Zenon DEF CacheInv
      <3> QED BY Zenon, <1>0, <3>1 DEF PutScoped
    <2>2. ~Putting(v)' BY Zenon, <1>3, <1>9, <2>1 DEF Putting
    <2> QED BY Zenon, <2>2 DEF PutScoped, Putting
  <1> QED BY Zenon, <1>8, <1>10, <1>11 DEF CacheInv

LEMMA CacheNextInv == CacheInv /\ [CacheNext]_cachevars => CacheInv'
  <1> SUFFICES ASSUME CacheInv, [CacheNext]_cachevars PROVE CacheInv' BY Zenon
  <1>1. ASSUME NEW w \in Workers, Ask(w) PROVE CacheInv'
    <2>1. PICK b \in Bodies, pc \in {"put", "get"} :
            worker' = [worker EXCEPT ![w] = [pc |-> pc, body |-> b, answer |-> "none"]]
      BY Zenon, <1>1 DEF Ask
    <2> DEFINE r == [pc |-> pc, body |-> b, answer |-> "none"]
    <2>2. r \in Process /\ r.pc \in {"put", "get"} /\ r.body \in Bodies BY Zenon DEF Process, Codes
    <2>3. entries' = entries /\ promised' = promised /\ holder' = holder /\ pending' = pending
      BY Zenon, <1>1 DEF Ask
    <2>4. worker' = [worker EXCEPT ![w] = r] BY Zenon, <2>1
    <2> HIDE DEF r
    <2> QED BY Zenon, <2>2, <2>3, <2>4, CacheQuiet
  <1>2. ASSUME NEW w \in Workers, LockTimeout(w) PROVE CacheInv'
    BY Zenon, <1>2, CacheAnswers DEF LockTimeout, Codes
  <1>3. ASSUME NEW w \in Workers, BeginPut(w) PROVE CacheInv'
    BY Zenon, <1>3, CacheBeginPut
  <1>4. ASSUME NEW w \in Workers, WriteBody(w) PROVE CacheInv'
    BY Zenon, <1>4, CacheWrites
  <1>5. ASSUME NEW w \in Workers, LinkBody(w) PROVE CacheInv'
    BY Zenon, <1>5, CacheLinks
  <1>6. ASSUME NEW w \in Workers, UnlinkPending(w) PROVE CacheInv'
    BY Zenon, <1>6, CacheUnlinks
  <1>7. ASSUME NEW w \in Workers, UnlinkFails(w) PROVE CacheInv'
    BY Zenon, <1>7, CacheAnswers DEF UnlinkFails, Codes
  <1>8. ASSUME NEW w \in Workers, Get(w) PROVE CacheInv'
    <2>1. GetAnswer(w) \in Codes BY Zenon DEF GetAnswer, Codes
    <2> QED BY Zenon, <1>8, <2>1, CacheAnswers DEF Get
  <1>9. ASSUME NEW w \in Workers, Kill(w) PROVE CacheInv'
    BY Zenon, <1>9, CacheAnswers DEF Kill, Codes
  <1>10. ASSUME UNCHANGED cachevars PROVE CacheInv'
    BY Zenon, <1>10 DEF cachevars, CacheInv, CacheTypes, PutScoped, Putting, PutsKept, PutsKept
  <1> QED BY Zenon, <1>1, <1>2, <1>3, <1>4, <1>5, <1>6, <1>7, <1>8, <1>9, <1>10 DEF CacheNext

\* Whatever is killed or fails when, what a put returned for stays there, whole and
\* with its content, and no name in the directory stands for a half-written body.
THEOREM CacheKeepsPuts == CacheSpec => []PutsKept
  <1>1. CacheInit => CacheInv BY Zenon, CacheStarts
  <1>2. CacheInv /\ [CacheNext]_cachevars => CacheInv' BY Zenon, CacheNextInv
  <1>3. CacheInv => PutsKept BY Zenon DEF CacheInv
  <1> QED BY <1>1, <1>2, <1>3, PTL DEF CacheSpec

-----------------------------------------------------------------------------
(* The file that binds the Robinhood account.                              *)

Dirs == 1..MaxDir

\* The accounts that the gateway vouches for.
Accounts == {AccountOf(rows) : rows \in Answers}

Inodes == [account : Accounts, written : {"empty", "part", "whole"}, linked : BOOLEAN]

Calls == [pc : {"start", "lease", "leased", "found", "opened", "verified", "compared", "created",
                "written", "linked", "loading", "loaded", "done", "failed", "killed"},
          dir : 0..MaxDir, file : Nat \cup {Nil}, account : Accounts \cup {Nil}]

Over == {"start", "done", "failed", "killed"}

BindTypes ==
  /\ path \in Dirs
  /\ target \in [Dirs -> Nat \cup {Nil}]
  /\ \E n \in Nat : inode \in [1..n -> Inodes]
  /\ cmd \in [Commands -> Calls]

\* A command at work has a directory; a provision that found an account has it, its
\* temporary file is not linked before Link and linked after it; a load has a file.
Fits(c, r) ==
  /\ r.pc \notin Over => r.dir \in Dirs
  /\ r.pc = "loading" => r.file \in DOMAIN inode
  /\ KindOf[c] = "provision" =>
       /\ r.pc \in {"found", "verified"} => r.account \in Accounts
       /\ r.pc \in {"created", "written"} => r.file \in DOMAIN inode /\ ~inode[r.file].linked
       /\ r.pc = "written" => inode[r.file].written = "whole"
       /\ r.pc \in {"linked", "done"} => r.file \in DOMAIN inode /\ inode[r.file].linked

\* c is about to write or link its temporary file.
Installing(c) == KindOf[c] = "provision" /\ cmd[c].pc \in {"created", "written"}

\* No two commands write or link the same temporary file.
OwnFiles ==
  \A c1, c2 \in Commands :
    Installing(c1) /\ Installing(c2) /\ cmd[c1].file = cmd[c2].file => c1 = c2

\* The linked files are those under a name and those that disable removed, and no
\* file has two of these places.
Placed ==
  /\ \A d \in Dirs : target[d] # Nil =>
       /\ target[d] \in DOMAIN inode /\ inode[target[d]].linked /\ inode[target[d]].written = "whole"
       /\ target[d] \notin gone
       /\ \A d2 \in Dirs : target[d2] = target[d] => d2 = d
  /\ \A i \in gone : i \in DOMAIN inode /\ inode[i].linked
  /\ \A i \in DOMAIN inode : inode[i].linked => i \in gone \/ \E d \in Dirs : target[d] = i

BindInv == BindTypes /\ (\A c \in Commands : Fits(c, cmd[c])) /\ OwnFiles /\ Placed

LEMMA BindStarts == BindInit => BindInv
  <1> SUFFICES ASSUME BindInit PROVE BindInv BY Zenon
  <1>0. inode \in [1..0 -> Inodes] /\ DOMAIN inode = {} BY DEF BindInit
  <1>1. BindTypes
    <2>1. \E n \in Nat : inode \in [1..n -> Inodes] BY Zenon, <1>0
    <2>2. cmd \in [Commands -> Calls] BY BindAssumption DEF BindInit, Calls
    <2>3. path \in Dirs /\ target \in [Dirs -> Nat \cup {Nil}] BY BindAssumption DEF BindInit, Dirs
    <2> QED BY Zenon, <2>1, <2>2, <2>3 DEF BindTypes
  <1>2. \A c \in Commands : cmd[c].pc = "start" BY Zenon DEF BindInit
  <1>3. \A c \in Commands : Fits(c, cmd[c]) BY Zenon, <1>2 DEF Fits, Over
  <1>4. OwnFiles BY Zenon, <1>2 DEF OwnFiles, Installing
  <1>5. Placed
    <2>1. \A d \in Dirs : target[d] = Nil BY Zenon DEF BindInit, Dirs
    <2>2. gone = {} BY Zenon DEF BindInit
    <2> QED BY Zenon, <1>0, <2>1, <2>2 DEF Placed
  <1> QED BY Zenon, <1>1, <1>3, <1>4, <1>5 DEF BindInv

\* A step of a command that touches no file and no name.
LEMMA BindQuiet ==
    ASSUME BindInv, NEW c \in Commands, NEW r \in Calls, cmd' = [cmd EXCEPT ![c] = r], Fits(c, r),
           KindOf[c] = "provision" /\ r.pc \in {"created", "written"} => Installing(c) /\ r.file = cmd[c].file,
           target' = target, inode' = inode, gone' = gone, path' = path
    PROVE  BindInv'
  <1>0. cmd \in [Commands -> Calls] BY Zenon DEF BindInv, BindTypes
  <1>1. cmd' \in [Commands -> Calls] /\ cmd'[c] = r /\ \A o \in Commands : o # c => cmd'[o] = cmd[o] BY Zenon, <1>0
  <1>2. BindTypes' BY Zenon, <1>1 DEF BindInv, BindTypes
  <1>3. ASSUME NEW o \in Commands PROVE Fits(o, cmd[o])'
    <2>1. Fits(o, cmd'[o])
      BY Zenon, <1>1 DEF BindInv
    <2> QED BY Zenon, <2>1 DEF Fits
  <1>4. ASSUME NEW o \in Commands, Installing(o)' PROVE Installing(o) /\ cmd'[o].file = cmd[o].file
    BY Zenon, <1>1, <1>4 DEF Installing
  <1>5. OwnFiles' BY Zenon, <1>4 DEF BindInv, OwnFiles
  <1>6. Placed' BY Zenon DEF BindInv, Placed
  <1> QED BY Zenon, <1>2, <1>3, <1>5, <1>6 DEF BindInv

\* A command that only moves on in its program.
LEMMA BindMoves ==
    ASSUME BindInv, NEW c \in Commands, NEW pc, Goto(c, pc),
           pc \in {"lease", "leased", "opened", "verified", "compared", "done", "failed", "killed"},
           pc \notin Over => cmd[c].pc \notin Over,
           KindOf[c] = "provision" /\ pc = "verified" => cmd[c].pc = "found",
           KindOf[c] = "provision" /\ pc = "done" => cmd[c].pc = "linked",
           target' = target, inode' = inode, gone' = gone, path' = path
    PROVE  BindInv'
  <1> DEFINE r == [cmd[c] EXCEPT !.pc = pc]
  <1>0. cmd[c] \in Calls /\ cmd \in [Commands -> Calls] /\ Fits(c, cmd[c]) BY Zenon DEF BindInv, BindTypes
  <1>1. r \in Calls /\ r.pc = pc /\ r.dir = cmd[c].dir /\ r.file = cmd[c].file /\ r.account = cmd[c].account
    BY Zenon, <1>0 DEF Calls
  <1>2. cmd' = [cmd EXCEPT ![c] = r] BY Zenon, <1>0 DEF Goto, Calls
  <1> HIDE DEF r
  <1>3. Fits(c, r) BY Zenon, <1>0, <1>1 DEF Fits, Over
  <1> QED BY Zenon, <1>1, <1>2, <1>3, BindQuiet

LEMMA BindCreates ==
    ASSUME BindInv, NEW c \in Commands, CreateTemporary(c)
    PROVE  BindInv'
  <1>0. /\ cmd[c] \in Calls /\ cmd \in [Commands -> Calls] /\ Fits(c, cmd[c])
        /\ cmd[c].pc = "verified" /\ KindOf[c] = "provision"
        /\ target' = target /\ gone' = gone /\ path' = path
    BY Zenon DEF BindInv, BindTypes, CreateTemporary, At
  <1>1. PICK n \in Nat : inode \in [1..n -> Inodes] BY Zenon DEF BindInv, BindTypes
  <1>2. Cardinality(DOMAIN inode) = n /\ DOMAIN inode = 1..n
    <2>1. DOMAIN inode = 1..n BY Zenon, <1>1
    <2>2. Cardinality(1..n) = n BY FS_Interval
    <2> QED BY Zenon, <2>1, <2>2
  <1> DEFINE m == Cardinality(DOMAIN inode) + 1
  <1>14. /\ inode' = [j \in 1..m |-> IF j = m THEN [account |-> cmd[c].account, written |-> "empty",
                                                    linked |-> FALSE]
                                     ELSE inode[j]]
         /\ cmd' = [cmd EXCEPT ![c].pc = "created", ![c].file = m]
    BY Zenon DEF CreateTemporary
  <1> DEFINE i == n + 1
             file == [account |-> cmd[c].account, written |-> "empty", linked |-> FALSE]
             r == [cmd[c] EXCEPT !.pc = "created", !.file = i]
  <1>3. inode' = [j \in 1..i |-> IF j = i THEN file ELSE inode[j]]
        /\ cmd' = [cmd EXCEPT ![c].pc = "created", ![c].file = i]
    BY Zenon, <1>2, <1>14
  <1>4. file \in Inodes /\ ~file.linked BY Zenon, <1>0 DEF Fits, Inodes
  <1>5. cmd' = [cmd EXCEPT ![c] = r] BY Zenon, <1>0, <1>3 DEF Calls
  <1>6. r \in Calls /\ r.pc = "created" /\ r.file = i /\ r.dir = cmd[c].dir
    <2>1. i \in Nat \cup {Nil} BY <1>1
    <2> HIDE DEF i
    <2> QED BY Zenon, <1>0, <2>1 DEF Calls
  <1> HIDE DEF file, r
  <1>7. inode' \in [1..i -> Inodes] /\ i \in Nat /\ i \in 1..i /\ inode'[i] = file /\ DOMAIN inode' = 1..i
        /\ \A j \in 1..n : inode'[j] = inode[j] /\ j # i /\ j \in 1..i
    BY <1>1, <1>3, <1>4
  <1> HIDE DEF i
  <1>8. cmd' \in [Commands -> Calls] /\ cmd'[c] = r /\ \A o \in Commands : o # c => cmd'[o] = cmd[o]
    BY Zenon, <1>0, <1>5, <1>6
  <1>9. BindTypes' BY Zenon, <1>0, <1>7, <1>8 DEF BindInv, BindTypes
  <1>10. ASSUME NEW o \in Commands PROVE Fits(o, cmd[o])'
    <2>1. CASE o = c
      <3>1. cmd'[o].pc = "created" /\ cmd'[o].file = i /\ cmd'[o].dir = cmd[c].dir BY Zenon, <1>6, <1>8, <2>1
      <3>2. i \in DOMAIN inode' /\ ~inode'[i].linked BY Zenon, <1>4, <1>7
      <3>3. cmd[c].dir \in Dirs BY Zenon, <1>0 DEF Fits, Over
      <3> QED BY Zenon, <3>1, <3>2, <3>3 DEF Fits
    <2>2. CASE o # c
      <3>1. cmd'[o] = cmd[o] /\ Fits(o, cmd[o]) BY Zenon, <1>8, <2>2 DEF BindInv
      <3>2. \A j \in DOMAIN inode : j \in DOMAIN inode' /\ inode'[j] = inode[j] BY Zenon, <1>2, <1>7
      <3> QED BY Zenon, <3>1, <3>2 DEF Fits
    <2> QED BY Zenon, <2>1, <2>2
  <1>11. OwnFiles'
    <2>1. ASSUME NEW o \in Commands, o # c, Installing(o)'
          PROVE  Installing(o) /\ cmd'[o].file = cmd[o].file /\ cmd[o].file \in 1..n
      <3>1. cmd'[o] = cmd[o] /\ Fits(o, cmd[o]) BY Zenon, <1>8, <2>1 DEF BindInv
      <3> QED BY Zenon, <1>2, <2>1, <3>1 DEF Fits, Installing
    <2>2. cmd'[c].file = i BY Zenon, <1>6, <1>8
    <2> QED BY Zenon, <1>7, <2>1, <2>2 DEF BindInv, OwnFiles
  <1>12. Placed'
    <2>1. \A j \in DOMAIN inode : j \in DOMAIN inode' /\ inode'[j] = inode[j] BY Zenon, <1>2, <1>7
    <2>2. \A j \in DOMAIN inode' : inode'[j].linked => j \in DOMAIN inode
      <3>1. \A j \in 1..i : j \in 1..n \/ j = i BY DEF i
      <3> QED BY Zenon, <1>2, <1>4, <1>7, <3>1
    <2>3. Placed BY Zenon DEF BindInv
    <2> HIDE DEF i
    <2> QED BY Zenon, <1>0, <2>1, <2>2, <2>3 DEF Placed
  <1> QED BY Zenon, <1>9, <1>10, <1>11, <1>12 DEF BindInv

LEMMA BindWrites ==
    ASSUME BindInv, NEW c \in Commands, NEW w \in {"part", "whole"}, WriteTemporary(c, w)
    PROVE  BindInv'
  <1>0. /\ cmd[c] \in Calls /\ cmd \in [Commands -> Calls] /\ Fits(c, cmd[c])
        /\ cmd[c].pc = "created" /\ KindOf[c] = "provision"
        /\ target' = target /\ gone' = gone /\ path' = path
    BY Zenon DEF BindInv, BindTypes, WriteTemporary, At
  <1>1. PICK n \in Nat : inode \in [1..n -> Inodes] BY Zenon DEF BindInv, BindTypes
  <1> DEFINE i == cmd[c].file
             pc == IF w = "whole" THEN "written" ELSE "created"
             r == [cmd[c] EXCEPT !.pc = pc]
             file == [inode[i] EXCEPT !.written = w]
  <1>2. i \in DOMAIN inode /\ DOMAIN inode = 1..n /\ ~inode[i].linked BY Zenon, <1>0, <1>1 DEF Fits
  <1>3. file \in Inodes /\ file.written = w /\ ~file.linked BY Zenon, <1>1, <1>2 DEF Inodes
  <1>4. inode' = [inode EXCEPT ![i] = file] BY Zenon, <1>1, <1>2 DEF WriteTemporary
  <1>5. cmd' = [cmd EXCEPT ![c] = r] BY Zenon, <1>0 DEF Calls, WriteTemporary, Goto
  <1>6. /\ r \in Calls /\ r.file = i /\ r.dir = cmd[c].dir
        /\ r.pc \in {"created", "written"} /\ (r.pc = "written" => w = "whole")
    BY Zenon, <1>0 DEF Calls
  <1> HIDE DEF file, r, i
  <1>7. inode' \in [1..n -> Inodes] /\ inode'[i] = file /\ DOMAIN inode' = DOMAIN inode
        /\ \A j \in DOMAIN inode : j # i => inode'[j] = inode[j]
    BY Zenon, <1>1, <1>2, <1>3, <1>4
  <1>8. cmd' \in [Commands -> Calls] /\ cmd'[c] = r /\ \A o \in Commands : o # c => cmd'[o] = cmd[o]
    BY Zenon, <1>0, <1>5, <1>6
  <1>9. BindTypes' BY Zenon, <1>0, <1>7, <1>8 DEF BindInv, BindTypes
  <1>10. ASSUME NEW o \in Commands PROVE Fits(o, cmd[o])'
    <2>1. CASE o = c
      BY Zenon, <1>0, <1>2, <1>3, <1>6, <1>7, <1>8, <2>1 DEF Fits, Over
    <2>2. CASE o # c
      <3>1. cmd'[o] = cmd[o] /\ Fits(o, cmd[o]) BY Zenon, <1>8, <2>2 DEF BindInv
      <3>2. KindOf[o] = "provision" /\ cmd[o].pc \in {"created", "written", "linked", "done"} => cmd[o].file # i
        BY Zenon, <1>0, <1>2, <2>2, <3>1 DEF Fits, BindInv, OwnFiles, Installing, i
      <3> QED BY Zenon, <1>7, <3>1, <3>2 DEF Fits
    <2> QED BY Zenon, <2>1, <2>2
  <1>11. OwnFiles'
    <2>1. ASSUME NEW o \in Commands, Installing(o)' PROVE Installing(o) /\ cmd'[o].file = cmd[o].file
      BY Zenon, <1>0, <1>6, <1>8, <2>1 DEF Installing, i
    <2> QED BY Zenon, <2>1 DEF BindInv, OwnFiles
  <1>12. Placed'
    <2>1. \A j \in DOMAIN inode : inode'[j].linked <=> inode[j].linked BY Zenon, <1>2, <1>3, <1>7
    <2>2. \A j \in DOMAIN inode : inode[j].linked => inode'[j] = inode[j] BY Zenon, <1>2, <1>7
    <2> QED BY Zenon, <1>0, <1>7, <2>1, <2>2 DEF BindInv, Placed
  <1> QED BY Zenon, <1>9, <1>10, <1>11, <1>12 DEF BindInv

LEMMA BindLinks ==
    ASSUME BindInv, NEW c \in Commands, Link(c)
    PROVE  BindInv'
  <1>0. /\ cmd[c] \in Calls /\ cmd \in [Commands -> Calls] /\ Fits(c, cmd[c])
        /\ cmd[c].pc = "written" /\ KindOf[c] = "provision"
        /\ gone' = gone /\ path' = path /\ target[cmd[c].dir] = Nil
    BY Zenon DEF BindInv, BindTypes, Link, At
  <1>1. PICK n \in Nat : inode \in [1..n -> Inodes] BY Zenon DEF BindInv, BindTypes
  <1> DEFINE i == cmd[c].file
             d == cmd[c].dir
             r == [cmd[c] EXCEPT !.pc = "linked"]
             file == [inode[i] EXCEPT !.linked = TRUE]
  <1>2. /\ i \in DOMAIN inode /\ DOMAIN inode = 1..n /\ ~inode[i].linked /\ inode[i].written = "whole"
        /\ d \in Dirs /\ i \in Nat
    BY <1>0, <1>1 DEF Fits, Over
  <1>3. file \in Inodes /\ file.written = "whole" /\ file.linked BY Zenon, <1>1, <1>2 DEF Inodes
  <1>4. inode' = [inode EXCEPT ![i] = file] BY Zenon, <1>1, <1>2 DEF Link
  <1>5. cmd' = [cmd EXCEPT ![c] = r] BY Zenon, <1>0 DEF Calls, Link, Goto
  <1>6. /\ r \in Calls /\ r.file = i /\ r.dir = cmd[c].dir /\ r.pc = "linked"
    BY Zenon, <1>0 DEF Calls
  <1>7. target' = [target EXCEPT ![d] = i] BY Zenon DEF Link
  <1> HIDE DEF file, r, i, d
  <1>8. inode' \in [1..n -> Inodes] /\ inode'[i] = file /\ DOMAIN inode' = DOMAIN inode
        /\ \A j \in DOMAIN inode : j # i => inode'[j] = inode[j]
    BY Zenon, <1>1, <1>2, <1>3, <1>4
  <1>9. cmd' \in [Commands -> Calls] /\ cmd'[c] = r /\ \A o \in Commands : o # c => cmd'[o] = cmd[o]
    BY Zenon, <1>0, <1>5, <1>6
  <1>10. target \in [Dirs -> Nat \cup {Nil}] BY Zenon DEF BindInv, BindTypes
  <1>11. target' \in [Dirs -> Nat \cup {Nil}] /\ target'[d] = i /\ \A d2 \in Dirs : d2 # d => target'[d2] = target[d2]
    BY Zenon, <1>2, <1>7, <1>10
  <1>12. BindTypes' BY Zenon, <1>0, <1>8, <1>9, <1>11 DEF BindInv, BindTypes
  <1>13. ASSUME NEW o \in Commands PROVE Fits(o, cmd[o])'
    <2>1. CASE o = c
      BY Zenon, <1>0, <1>2, <1>3, <1>6, <1>8, <1>9, <2>1 DEF Fits, Over
    <2>2. CASE o # c
      <3>1. cmd'[o] = cmd[o] /\ Fits(o, cmd[o]) BY Zenon, <1>9, <2>2 DEF BindInv
      <3>2. KindOf[o] = "provision" /\ cmd[o].pc \in {"created", "written", "linked", "done"} => cmd[o].file # i
        BY Zenon, <1>0, <1>2, <2>2, <3>1 DEF Fits, BindInv, OwnFiles, Installing, i
      <3> QED BY Zenon, <1>8, <3>1, <3>2 DEF Fits
    <2> QED BY Zenon, <2>1, <2>2
  <1>14. OwnFiles'
    <2>1. ASSUME NEW o \in Commands, Installing(o)' PROVE Installing(o) /\ cmd'[o].file = cmd[o].file
      BY Zenon, <1>0, <1>6, <1>9, <2>1 DEF Installing
    <2> QED BY Zenon, <2>1 DEF BindInv, OwnFiles
  <1>15. Placed'
    <2>0. i # Nil BY Zenon, <1>2, BindAssumption
    <2>1. \A d2 \in Dirs : target[d2] # i BY Zenon, <1>2, <2>0 DEF BindInv, Placed
    <2>2. i \notin gone BY Zenon, <1>2 DEF BindInv, Placed
    <2>4. ASSUME NEW d2 \in Dirs, target'[d2] # Nil
          PROVE  /\ target'[d2] \in DOMAIN inode' /\ inode'[target'[d2]].linked /\ inode'[target'[d2]].written = "whole"
                 /\ target'[d2] \notin gone'
                 /\ \A d3 \in Dirs : target'[d3] = target'[d2] => d3 = d2
      <3>1. CASE d2 = d BY Zenon, <1>0, <1>2, <1>3, <1>8, <1>11, <2>1, <2>2, <3>1
      <3>2. CASE d2 # d
        <4>1. target'[d2] = target[d2] BY Zenon, <1>11, <3>2
        <4>2. /\ target[d2] \in DOMAIN inode /\ inode[target[d2]].linked /\ inode[target[d2]].written = "whole"
              /\ target[d2] \notin gone /\ target[d2] # i
              /\ \A d3 \in Dirs : target[d3] = target[d2] => d3 = d2
          BY Zenon, <2>1, <2>4, <4>1 DEF BindInv, Placed
        <4> QED BY Zenon, <1>0, <1>8, <1>11, <3>2, <4>1, <4>2
      <3> QED BY Zenon, <3>1, <3>2
    <2>5. ASSUME NEW j \in gone' PROVE j \in DOMAIN inode' /\ inode'[j].linked
      BY Zenon, <1>0, <1>8, <2>2, <2>5 DEF BindInv, Placed
    <2>6. ASSUME NEW j \in DOMAIN inode', inode'[j].linked
          PROVE  j \in gone' \/ \E d2 \in Dirs : target'[d2] = j
      <3>1. CASE j = i BY Zenon, <1>2, <1>11, <3>1
      <3>2. CASE j # i
        <4>1. j \in gone \/ \E d2 \in Dirs : target[d2] = j
          BY Zenon, <1>8, <2>6, <3>2 DEF BindInv, Placed
        <4>2. ASSUME NEW d2 \in Dirs, target[d2] = j PROVE target'[d2] = j
          <5>1. j # Nil BY <1>2, <1>8, <2>6, BindAssumption
          <5>2. d2 # d BY Zenon, <1>0, <4>2, <5>1 DEF d
          <5> QED BY Zenon, <1>11, <4>2, <5>2
        <4> QED BY Zenon, <1>0, <4>1, <4>2
      <3> QED BY Zenon, <3>1, <3>2
    <2> QED BY Zenon, <2>4, <2>5, <2>6 DEF Placed
  <1> QED BY Zenon, <1>12, <1>13, <1>14, <1>15 DEF BindInv

LEMMA BindUnlinks ==
    ASSUME BindInv, NEW c \in Commands, UnlinkTarget(c)
    PROVE  BindInv'
  <1>0. /\ cmd[c] \in Calls /\ cmd \in [Commands -> Calls] /\ Fits(c, cmd[c])
        /\ cmd[c].pc = "compared" /\ KindOf[c] = "disable"
        /\ inode' = inode /\ path' = path /\ target[cmd[c].dir] # Nil
    BY Zenon DEF BindInv, BindTypes, UnlinkTarget, At
  <1> DEFINE d == cmd[c].dir
             i == target[d]
  <1>1. d \in Dirs BY Zenon, <1>0 DEF Fits, Over
  <1>2. gone' = gone \cup {i} /\ target' = [target EXCEPT ![d] = Nil] BY Zenon DEF UnlinkTarget
  <1>3. PICK how \in {"done", "failed"} : cmd' = [cmd EXCEPT ![c].pc = how]
    BY Zenon DEF UnlinkTarget, Ends, Goto
  <1> HIDE DEF d
  <1>4. target \in [Dirs -> Nat \cup {Nil}] BY Zenon DEF BindInv, BindTypes
  <1>5. target' \in [Dirs -> Nat \cup {Nil}] /\ target'[d] = Nil /\ \A d2 \in Dirs : d2 # d => target'[d2] = target[d2]
    BY Zenon, <1>1, <1>2, <1>4
  <1>6. cmd' \in [Commands -> Calls] /\ cmd'[c].pc = how /\ \A o \in Commands : o # c => cmd'[o] = cmd[o]
    BY Zenon, <1>0, <1>3 DEF Calls
  <1>7. BindTypes' BY Zenon, <1>0, <1>5, <1>6 DEF BindInv, BindTypes
  <1>8. ASSUME NEW o \in Commands PROVE Fits(o, cmd[o])'
    <2>1. CASE o = c BY Zenon, <1>0, <1>6, <2>1 DEF Fits, Over
    <2>2. CASE o # c
      <3>1. cmd'[o] = cmd[o] /\ Fits(o, cmd[o]) BY Zenon, <1>6, <2>2 DEF BindInv
      <3> QED BY Zenon, <1>0, <3>1 DEF Fits
    <2> QED BY Zenon, <2>1, <2>2
  <1>9. OwnFiles'
    <2>1. ASSUME NEW o \in Commands, Installing(o)' PROVE Installing(o) /\ cmd'[o].file = cmd[o].file
      BY Zenon, <1>0, <1>6, <2>1 DEF Installing
    <2> QED BY Zenon, <2>1 DEF BindInv, OwnFiles
  <1>10. Placed'
    <2>0. i # Nil /\ Placed BY Zenon, <1>0 DEF d, BindInv
    <2>1. i \in DOMAIN inode /\ inode[i].linked /\ \A d2 \in Dirs : target[d2] = i => d2 = d
      BY Zenon, <1>1, <2>0 DEF Placed
    <2>2. ASSUME NEW d2 \in Dirs, target'[d2] # Nil
          PROVE  /\ target'[d2] \in DOMAIN inode' /\ inode'[target'[d2]].linked /\ inode'[target'[d2]].written = "whole"
                 /\ target'[d2] \notin gone'
                 /\ \A d3 \in Dirs : target'[d3] = target'[d2] => d3 = d2
      <3>1. d2 # d BY Zenon, <1>5, <2>2
      <3>2. target'[d2] = target[d2] /\ target[d2] # i BY Zenon, <1>5, <2>1, <3>1
      <3>3. /\ target[d2] \in DOMAIN inode /\ inode[target[d2]].linked /\ inode[target[d2]].written = "whole"
            /\ target[d2] \notin gone
            /\ \A d3 \in Dirs : target[d3] = target[d2] => d3 = d2
        BY Zenon, <2>0, <2>2, <3>2 DEF Placed
      <3>4. target[d2] \notin gone' BY Zenon, <1>2, <3>2, <3>3
      <3>5. \A d3 \in Dirs : target'[d3] = target'[d2] => d3 = d2 BY Zenon, <1>5, <2>2, <3>2, <3>3
      <3> QED BY Zenon, <1>0, <3>2, <3>3, <3>4, <3>5
    <2>3. ASSUME NEW j \in gone' PROVE j \in DOMAIN inode' /\ inode'[j].linked
      BY Zenon, <1>0, <1>2, <2>0, <2>1, <2>3 DEF Placed
    <2>4. ASSUME NEW j \in DOMAIN inode', inode'[j].linked
          PROVE  j \in gone' \/ \E d2 \in Dirs : target'[d2] = j
      <3>1. CASE j \in gone \/ j = i BY Zenon, <1>2, <3>1
      <3>2. CASE \E d2 \in Dirs : target[d2] = j /\ j # i BY Zenon, <1>5, <3>2
      <3>3. j \in gone \/ \E d2 \in Dirs : target[d2] = j BY Zenon, <1>0, <2>0, <2>4 DEF Placed
      <3> QED BY Zenon, <3>1, <3>2, <3>3
    <2> QED BY Zenon, <2>2, <2>3, <2>4 DEF Placed
  <1> QED BY Zenon, <1>7, <1>8, <1>9, <1>10 DEF BindInv

\* A command that ends otherwise than by success, or that is no provision.
LEMMA BindEnds ==
    ASSUME BindInv, NEW c \in Commands, NEW how \in {"done", "failed"}, Ends(c, how),
           KindOf[c] = "provision" /\ how = "done" => cmd[c].pc = "linked",
           UNCHANGED <<path, target, inode, gone>>
    PROVE  BindInv'
  <1>1. Goto(c, how) BY Zenon DEF Ends
  <1>2. target' = target /\ inode' = inode /\ gone' = gone /\ path' = path BY Zenon
  <1> QED BY Zenon, <1>1, <1>2, BindMoves DEF Over

\* A command that notes what it found and moves on.
LEMMA BindNotes ==
    ASSUME BindInv, NEW c \in Commands, NEW r \in Calls, cmd' = [cmd EXCEPT ![c] = r],
           r.dir \in Dirs, r.pc = "loading" => r.file \in DOMAIN inode,
           \/ KindOf[c] # "provision"
           \/ r.pc = "lease"
           \/ r.pc = "found" /\ r.account \in Accounts,
           UNCHANGED <<path, target, inode, gone>>
    PROVE  BindInv'
  <1>1. target' = target /\ inode' = inode /\ gone' = gone /\ path' = path BY Zenon
  <1>2. Fits(c, r) BY Zenon DEF Fits
  <1>3. KindOf[c] = "provision" => r.pc \notin {"created", "written"} BY Zenon
  <1> QED BY Zenon, <1>1, <1>2, <1>3, BindQuiet

LEMMA BindNextInv == BindInv /\ [BindNext]_bindvars => BindInv'
  <1> SUFFICES ASSUME BindInv, [BindNext]_bindvars PROVE BindInv' BY Zenon
  <1>0. cmd \in [Commands -> Calls] /\ path \in Dirs /\ target \in [Dirs -> Nat \cup {Nil}]
    BY Zenon DEF BindInv, BindTypes
  <1>1. ASSUME NEW c \in Commands, StartRefused(c) \/ LeaseHeld(c) \/ DiscoverFails(c)
               \/ VerifyFails(c) \/ InstallFails(c) \/ TargetChanged(c) \/ LoadFails(c)
        PROVE BindInv'
    <2>1. Ends(c, "failed") /\ UNCHANGED <<path, target, inode, gone>>
      BY Zenon, <1>1 DEF StartRefused, LeaseHeld, DiscoverFails, VerifyFails,
                         InstallFails, TargetChanged, LoadFails
    <2> QED BY Zenon, <2>1, BindEnds
  <1>2. ASSUME NEW c \in Commands, OpenDirectory(c) PROVE BindInv'
    <2> DEFINE r == [cmd[c] EXCEPT !.pc = "lease", !.dir = path]
    <2>1. cmd[c] \in Calls /\ path \in 0..MaxDir BY <1>0 DEF Dirs
    <2>2. r \in Calls /\ r.pc = "lease" /\ r.dir = path BY Zenon, <2>1 DEF Calls
    <2>3. cmd' = [cmd EXCEPT ![c] = r] BY Zenon, <1>0, <1>2 DEF OpenDirectory, Calls
    <2>4. UNCHANGED <<path, target, inode, gone>> BY Zenon, <1>2 DEF OpenDirectory
    <2> HIDE DEF r
    <2> QED BY Zenon, <1>0, <2>2, <2>3, <2>4, BindNotes
  <1>3. ASSUME NEW c \in Commands, TakeLease(c) PROVE BindInv'
    BY Zenon, <1>3, BindMoves DEF TakeLease, Over
  <1>4. ASSUME NEW c \in Commands, Discover(c) PROVE BindInv'
    <2>1. PICK rows \in Answers :
            cmd' = [cmd EXCEPT ![c].pc = "found", ![c].account = AccountOf(rows)]
      BY Zenon, <1>4 DEF Discover
    <2> DEFINE a == AccountOf(rows)
               r == [cmd[c] EXCEPT !.pc = "found", !.account = a]
    <2>2. a \in Accounts BY Zenon DEF Accounts
    <2> HIDE DEF a
    <2>3. r \in Calls /\ r.pc = "found" /\ r.account = a /\ r.dir = cmd[c].dir BY Zenon, <1>0, <2>2 DEF Calls
    <2>4. cmd' = [cmd EXCEPT ![c] = r] BY Zenon, <1>0, <2>1 DEF Calls, a
    <2>5. UNCHANGED <<path, target, inode, gone>> BY Zenon, <1>4 DEF Discover
    <2>6. cmd[c].dir \in Dirs
      <3>1. Fits(c, cmd[c]) BY Zenon DEF BindInv
      <3> QED BY Zenon, <1>4, <3>1 DEF Discover, At, Fits, Over
    <2> HIDE DEF r
    <2> QED BY Zenon, <2>2, <2>3, <2>4, <2>5, <2>6, BindNotes
  <1>5. ASSUME NEW c \in Commands, Verify(c) PROVE BindInv'
    <2>1. cmd[c].pc \in {"found", "opened"} /\ (KindOf[c] = "provision" => cmd[c].pc = "found")
      BY Zenon, <1>5 DEF Verify, At
    <2> QED BY Zenon, <1>5, <2>1, BindMoves DEF Verify, Over
  <1>6. ASSUME NEW c \in Commands, CreateTemporary(c) PROVE BindInv' BY Zenon, <1>6, BindCreates
  <1>7. ASSUME NEW c \in Commands, NEW w \in {"part", "whole"}, WriteTemporary(c, w) PROVE BindInv'
    BY Zenon, <1>7, BindWrites
  <1>8. ASSUME NEW c \in Commands, Link(c) PROVE BindInv' BY Zenon, <1>8, BindLinks
  <1>9. ASSUME NEW c \in Commands, Installed(c) PROVE BindInv'
    BY Zenon, <1>9, BindEnds DEF Installed
  <1>10. ASSUME NEW c \in Commands, OpenTarget(c) PROVE BindInv'
    <2> DEFINE i == target[cmd[c].dir]
               r == [cmd[c] EXCEPT !.pc = "opened", !.file = i]
    <2>1. cmd[c].dir \in Dirs /\ KindOf[c] # "provision"
      <3>1. Fits(c, cmd[c]) BY Zenon DEF BindInv
      <3> QED BY Zenon, <1>10, <3>1 DEF OpenTarget, At, Fits, Over
    <2>2. i \in Nat \cup {Nil} BY Zenon, <1>0, <2>1
    <2> HIDE DEF i
    <2>3. r \in Calls /\ r.dir = cmd[c].dir /\ r.pc = "opened" BY Zenon, <1>0, <2>2 DEF Calls
    <2>4. cmd' = [cmd EXCEPT ![c] = r] BY Zenon, <1>0, <1>10 DEF Calls, OpenTarget, i
    <2>5. UNCHANGED <<path, target, inode, gone>> BY Zenon, <1>10 DEF OpenTarget
    <2> HIDE DEF r
    <2> QED BY Zenon, <2>1, <2>3, <2>4, <2>5, BindNotes
  <1>11. ASSUME NEW c \in Commands, NothingToDisable(c) PROVE BindInv'
    BY Zenon, <1>11, BindEnds DEF NothingToDisable, At
  <1>12. ASSUME NEW c \in Commands, CompareTarget(c) PROVE BindInv'
    BY Zenon, <1>12, BindMoves DEF CompareTarget, At, Over
  <1>13. ASSUME NEW c \in Commands, UnlinkTarget(c) PROVE BindInv' BY Zenon, <1>13, BindUnlinks
  <1>14. ASSUME NEW c \in Commands, LoadOpen(c) PROVE BindInv'
    <2> DEFINE i == target[path]
               r == [cmd[c] EXCEPT !.pc = "loading", !.dir = path, !.file = i]
    <2>1. i \in Nat \cup {Nil} /\ path \in 0..MaxDir BY <1>0 DEF Dirs
    <2>5. i \in DOMAIN inode BY Zenon, <1>0, <1>14 DEF LoadOpen, BindInv, Placed
    <2> HIDE DEF i
    <2>2. r \in Calls /\ r.dir = path /\ r.file = i BY Zenon, <1>0, <2>1 DEF Calls
    <2>3. cmd' = [cmd EXCEPT ![c] = r] BY Zenon, <1>0, <1>14 DEF Calls, LoadOpen, i
    <2>4. UNCHANGED <<path, target, inode, gone>> /\ KindOf[c] # "provision"
      BY Zenon, <1>14 DEF LoadOpen, At
    <2> HIDE DEF r
    <2> QED BY Zenon, <1>0, <2>2, <2>3, <2>4, <2>5, BindNotes
  <1>15. ASSUME NEW c \in Commands, LoadRead(c) PROVE BindInv'
    <2>1. /\ cmd[c].dir \in Dirs /\ KindOf[c] # "provision" /\ cmd[c].file \in DOMAIN inode
      <3>1. Fits(c, cmd[c]) BY Zenon DEF BindInv
      <3> QED BY Zenon, <1>15, <3>1 DEF LoadRead, At, Fits, Over
    <2> DEFINE a == inode[cmd[c].file].account
               r == [cmd[c] EXCEPT !.pc = "loaded", !.account = a]
    <2>2. a \in Accounts
      <3>1. PICK n \in Nat : inode \in [1..n -> Inodes] BY Zenon DEF BindInv, BindTypes
      <3> QED BY Zenon, <2>1, <3>1 DEF Inodes
    <2> HIDE DEF a
    <2>3. r \in Calls /\ r.dir = cmd[c].dir /\ r.pc = "loaded" BY Zenon, <1>0, <2>2 DEF Calls
    <2>4. cmd' = [cmd EXCEPT ![c] = r] BY Zenon, <1>0, <1>15 DEF Calls, LoadRead, a
    <2>5. UNCHANGED <<path, target, inode, gone>> BY Zenon, <1>15 DEF LoadRead
    <2> HIDE DEF r
    <2> QED BY Zenon, <2>1, <2>3, <2>4, <2>5, BindNotes
  <1>16. ASSUME NEW c \in Commands, Compare(c) PROVE BindInv'
    <2>1. KindOf[c] # "provision" /\ UNCHANGED <<path, target, inode, gone>>
      BY Zenon, <1>16 DEF Compare, At
    <2>2. \E how \in {"done", "failed"} : Ends(c, how) BY Zenon, <1>16 DEF Compare
    <2> QED BY Zenon, <2>1, <2>2, BindEnds
  <1>17. ASSUME NEW c \in Commands, Killed(c) PROVE BindInv'
    BY Zenon, <1>17, BindMoves DEF Killed, Over
  <1>18. ASSUME NEW e \in Environments, LeaseExpires(e) PROVE BindInv'
    BY Zenon, <1>18 DEF LeaseExpires, BindInv, BindTypes, Fits, OwnFiles, Installing, Placed
  <1>19. ASSUME DirectoryExchanged PROVE BindInv'
    <2>1. path' \in Dirs BY <1>0, <1>19, BindAssumption DEF DirectoryExchanged, Dirs
    <2> QED BY Zenon, <1>19, <2>1 DEF DirectoryExchanged, BindInv, BindTypes, Fits, OwnFiles, Installing, Placed
  <1>20. ASSUME UNCHANGED bindvars PROVE BindInv'
    BY Zenon, <1>20 DEF bindvars, BindInv, BindTypes, Fits, OwnFiles, Installing, Placed
  <1> QED BY Zenon, <1>1, <1>2, <1>3, <1>4, <1>5, <1>6, <1>7, <1>8, <1>9, <1>10, <1>11, <1>12, <1>13,
             <1>14, <1>15, <1>16, <1>17, <1>18, <1>19, <1>20 DEF BindNext

\* Whichever commands of whichever environments meet, are killed or lose their
\* lease: the secret's name shows only whole files with an account the gateway
\* vouched for, a binding leaves only by disable, and a provision that reported
\* success did install its own file.
THEOREM BindingAlwaysSound == BindSpec => []BindingSound
  <1>1. BindInit => BindInv BY Zenon, BindStarts
  <1>2. BindInv /\ [BindNext]_bindvars => BindInv' BY Zenon, BindNextInv
  <1>3. BindInv => BindingSound
    <2> SUFFICES ASSUME BindInv PROVE BindingSound BY Zenon
    <2> DEFINE shown == {target[d] : d \in 1..MaxDir} \ {Nil}
    <2>0. Placed BY Zenon DEF BindInv
    <2>1. \A i \in shown : \E d \in Dirs : target[d] = i /\ target[d] # Nil BY Zenon DEF Dirs
    <2>2. \A d \in Dirs : target[d] # Nil => target[d] \in shown BY Zenon DEF Dirs
    <2> HIDE DEF shown
    <2>3. \A i \in shown : i \in DOMAIN inode /\ inode[i].written = "whole" /\ inode[i].linked /\ i \notin gone
      <3> SUFFICES ASSUME NEW i \in shown
                   PROVE  i \in DOMAIN inode /\ inode[i].written = "whole" /\ inode[i].linked /\ i \notin gone
        BY Zenon
      <3>1. PICK d \in Dirs : target[d] = i /\ target[d] # Nil BY Zenon, <2>1
      <3>2. /\ target[d] \in DOMAIN inode /\ inode[target[d]].linked /\ inode[target[d]].written = "whole"
            /\ target[d] \notin gone
        BY Zenon, <2>0, <3>1 DEF Placed
      <3> QED BY Zenon, <3>1, <3>2
    <2>4. ASSUME NEW i \in shown PROVE \E rows \in Answers : AccountOf(rows) = inode[i].account
      <3>1. PICK n \in Nat : inode \in [1..n -> Inodes] BY Zenon DEF BindInv, BindTypes
      <3>2. inode[i].account \in Accounts BY Zenon, <2>3, <3>1 DEF Inodes
      <3> QED BY Zenon, <3>2 DEF Accounts
    <2>5. ASSUME NEW i \in DOMAIN inode, inode[i].linked PROVE i \in shown \cup gone
      <3>1. PICK n \in Nat : inode \in [1..n -> Inodes] BY Zenon DEF BindInv, BindTypes
      <3>2. i # Nil BY <3>1, BindAssumption
      <3>3. i \in gone \/ \E d \in Dirs : target[d] = i BY Zenon, <2>0, <2>5 DEF Placed
      <3> QED BY Zenon, <2>2, <3>2, <3>3
    <2>6. {i \in DOMAIN inode : inode[i].linked} = shown \cup gone
      BY Zenon, <2>0, <2>3, <2>5 DEF Placed
    <2>7. shown \cap gone = {} BY Zenon, <2>3
    <2>8. ASSUME NEW c \in Commands, At(c, "done", {"provision"}) PROVE inode[cmd[c].file].linked
      <3>1. Fits(c, cmd[c]) BY Zenon DEF BindInv
      <3> QED BY Zenon, <2>8, <3>1 DEF Fits, At
    <2> QED BY Zenon, <2>3, <2>4, <2>6, <2>7, <2>8 DEF BindingSound, shown
  <1> QED BY <1>1, <1>2, <1>3, PTL DEF BindSpec

-----------------------------------------------------------------------------
(***************************************************************************)
(* Provisioning of the Telegram Bots.  Commands that change the files run  *)
(* one after the other, beside any number of validations.  The command     *)
(* that runs knows .env as it is, except for what it has just written; and *)
(* an environment is disabled from the start of an add or a rotation to    *)
(* its last write.                                                         *)
(***************************************************************************)

Bots == {BotOf[t] : t \in Tokens} \cup {Absent}
Pairs == {Candidate(u) : u \in UNION {Inbox[b] : b \in DOMAIN Inbox}} \cup {Absent}
Section == [enabled : BOOLEAN, bot : Bots, bound : Pairs]
Docs == [Envs -> Section]
Leases == [owner : Procs \cup {Absent, Poller}, epoch : Nat, offset : Nat]
Places == {"idle", "lease", "check", "wBinding", "binding", "wToken", "token", "refresh", "wEnable",
           "enable", "wDisable", "disable"}
Command == [pc : Places,
            kind : Kinds \cup {Absent}, env : Envs \cup {Absent}, doc : Docs \cup {Absent},
            tok : Tokens \cup {Absent}, had : BOOLEAN, pair : Pairs, epoch : Nat,
            offset : Nat \cup {Absent}]

ProvTypes ==
  /\ env \in Docs /\ token \in [Envs -> Tokens \cup {Absent}]
  /\ botLease \in [Envs -> Leases] /\ botCmd \in [Procs -> Command]

\* The recipient in a section of .env has written to the section's Bot.
Known(s) == s.bound # Absent => Wrote(s.bot, s.bound)

Usable(e) == token[e] # Absent /\ env[e].bot = BotOf[token[e]] /\ env[e].bound # Absent

\* A command that changes files, from its launch to its end.
Changing(c) ==
  /\ c.kind = "disable" => c.pc \in {"lease", "wDisable", "disable"}
  /\ c.kind # "disable" => c.kind \in {"add", "rotate"} /\ c.tok \in Tokens /\ ~env[c.env].enabled
  /\ c.pc \in {"wBinding", "binding", "refresh"} => c.kind = "add"
  /\ \A e \in Envs : c.doc[e] = env[e] \/ (e = c.env /\ c.kind = "add" /\ c.pc \in {"wToken", "token", "refresh"})
  /\ c.pc \in {"wBinding", "binding"} =>
       c.pair # Absent /\ Wrote(BotOf[c.tok], c.pair) /\ (c.had => token[c.env] = c.tok)
  /\ c.pc \in {"wToken", "token", "refresh", "wEnable", "enable"} =>
       env[c.env].bot = BotOf[c.tok] /\ env[c.env].bound # Absent
  /\ c.pc \in {"refresh", "wEnable", "enable"} => token[c.env] = c.tok

Scoped(p) ==
  botCmd[p].pc # "idle" =>
    /\ botCmd[p].env \in Envs /\ botCmd[p].doc \in Docs /\ \A e \in Envs : Known(botCmd[p].doc[e])
    /\ botCmd[p].kind = "validate" => botCmd[p].pc = "check"
    /\ botCmd[p].kind # "validate" => p \in Changers /\ Changing(botCmd[p])

ProvInv ==
  /\ ProvTypes
  /\ \A e \in Envs : Known(env[e]) /\ (env[e].enabled => Usable(e))
  /\ \A p \in Procs : Scoped(p)
  /\ TestsExpected

LEMMA IdleTyped == Idle \in Command /\ Idle.pc = "idle"
  BY Zenon DEF Idle, Command, Places, Pairs

\* A pair that was discovered is one that has written to the Bot.
LEMMA DiscoveredWrote ==
    ASSUME NEW bot, NEW updates \in SUBSET Inbox[bot], NEW pair \in Discovered(updates)
    PROVE  pair # Absent /\ Wrote(bot, pair)
  <1>1. PICK u \in updates : pair = Candidate(u) BY Zenon DEF Discovered
  <1>2. pair # Absent BY Zenon DEF Discovered
  <1>3. /\ u.carries = "message" /\ u.type = "private" /\ u.text /\ ~u.service
        /\ pair = <<u.user, u.chat>>
    BY Zenon, <1>1, <1>2 DEF Candidate
  <1> QED BY Zenon, <1>2, <1>3 DEF Wrote

\* A process that makes no change is left alone by one that does.
LEMMA BystanderScoped ==
    ASSUME NEW q \in Procs, Scoped(q), botCmd'[q] = botCmd[q],
           (env' = env /\ token' = token) \/ q \notin Changers
    PROVE  Scoped(q)'
  <1>1. CASE env' = env /\ token' = token
    BY Zenon, <1>1 DEF Scoped, Changing, Known
  <1>2. CASE q \notin Changers
    BY Zenon, <1>2 DEF Scoped, Known
  <1> QED BY Zenon, <1>1, <1>2

\* A step of one process that leaves the files as they are.
LEMMA ReadingStep ==
    ASSUME ProvInv, NEW p \in Procs, env' = env, token' = token,
           botLease' \in [Envs -> Leases], botCmd' \in [Procs -> Command],
           \A q \in Procs : q # p => botCmd'[q] = botCmd[q], Scoped(p)', TestsExpected'
    PROVE  ProvInv'
  <1>1. ProvTypes' BY Zenon DEF ProvInv, ProvTypes
  <1>2. \A e \in Envs : Known(env'[e]) /\ (env'[e].enabled => Usable(e)')
    BY Zenon DEF ProvInv, Usable
  <1>3. ASSUME NEW q \in Procs PROVE Scoped(q)'
    <2>1. CASE q = p BY Zenon, <2>1
    <2>2. CASE q # p BY Zenon, <2>2, BystanderScoped DEF ProvInv
    <2> QED BY Zenon, <2>1, <2>2
  <1> QED BY Zenon, <1>1, <1>2, <1>3 DEF ProvInv, Known

\* A step of the process that changes them.
LEMMA WritingStep ==
    ASSUME ProvInv, NEW p \in Changers, ProvTypes',
           \A q \in Procs : q # p => botCmd'[q] = botCmd[q], Scoped(p)', tested' = tested,
           \A e \in Envs : Known(env'[e]) /\ (env'[e].enabled => Usable(e)')
    PROVE  ProvInv'
  <1>1. ASSUME NEW q \in Procs PROVE Scoped(q)'
    <2>1. CASE q = p BY Zenon, <2>1
    <2>2. CASE q # p
      <3>1. q \notin Changers BY Zenon, <2>2, ProvAssumption
      <3> QED BY Zenon, <2>2, <3>1, BystanderScoped DEF ProvInv
    <2> QED BY Zenon, <2>1, <2>2
  <1>2. TestsExpected' BY Zenon DEF ProvInv, TestsExpected, Wrote
  <1> QED BY Zenon, <1>1, <1>2 DEF ProvInv, Known

\* A process that ends, or is ended.
LEMMA EndedScoped == ASSUME NEW p \in Procs, botCmd'[p] = Idle PROVE Scoped(p)'
  BY Zenon, IdleTyped DEF Scoped

\* The types of the state, one by one.
LEMMA ProvTyped ==
    ASSUME ProvInv, NEW p \in Procs
    PROVE  /\ env \in Docs /\ token \in [Envs -> Tokens \cup {Absent}]
           /\ botLease \in [Envs -> Leases] /\ botCmd \in [Procs -> Command]
           /\ botCmd[p] \in Command /\ Scoped(p)
  BY Zenon DEF ProvInv, ProvTypes

LEMMA ReleasedTyped ==
    ASSUME ProvInv, NEW p \in Procs, botCmd[p].env \in Envs
    PROVE  Released(p) \in [Envs -> Leases]
  <1> DEFINE x == botCmd[p].env
  <1>1. botLease \in [Envs -> Leases] BY Zenon DEF ProvInv, ProvTypes
  <1> HIDE DEF x
  <1>2. [botLease EXCEPT ![x].owner = Absent] \in [Envs -> Leases] BY Zenon, <1>1 DEF Leases
  <1> QED BY Zenon, <1>1, <1>2 DEF Released, x

LEMMA TestedSame == ASSUME ProvInv, tested' = tested PROVE TestsExpected'
  BY Zenon DEF ProvInv, TestsExpected, Wrote

LEMMA ProvStarts == ProvInit => ProvInv
  <1> SUFFICES ASSUME ProvInit PROVE ProvInv BY Zenon
  <1>1. Blank \in Section /\ Blank.bound = Absent /\ Blank.enabled = FALSE
    BY Zenon DEF Blank, Section, Bots, Pairs
  <1>2. env = [e \in Envs |-> Blank] /\ botCmd = [p \in Procs |-> Idle] /\ tested = Absent
    BY Zenon DEF ProvInit
  <1>3. token \in [Envs -> Tokens \cup {Absent}] /\ botLease \in [Envs -> Leases]
    BY Zenon DEF ProvInit, Leases
  <1>4. env \in Docs /\ \A e \in Envs : env[e] = Blank BY Zenon, <1>1, <1>2 DEF Docs
  <1>5. botCmd \in [Procs -> Command] /\ \A p \in Procs : botCmd[p].pc = "idle" BY Zenon, <1>2, IdleTyped
  <1>6. ProvTypes BY Zenon, <1>3, <1>4, <1>5 DEF ProvTypes
  <1>7. \A e \in Envs : Known(env[e]) /\ (env[e].enabled => Usable(e)) BY Zenon, <1>1, <1>4 DEF Known
  <1>8. \A p \in Procs : Scoped(p) BY Zenon, <1>5 DEF Scoped
  <1>9. TestsExpected BY Zenon, <1>2 DEF TestsExpected
  <1> QED BY Zenon, <1>6, <1>7, <1>8, <1>9 DEF ProvInv

\* A command is launched: it reads .env as it is.
LEMMA LaunchKeeps ==
    ASSUME ProvInv, NEW p \in Procs, NEW r \in Asks[p], NEW t \in Tokens,
           Launch(p, r[1], r[2], t)
    PROVE  ProvInv'
  <1> DEFINE kind == r[1]
             x == r[2]
             d == [Idle EXCEPT !.pc = IF kind = "validate" THEN "check" ELSE "lease",
                                    !.kind = kind, !.env = x, !.doc = env,
                                    !.tok = IF kind \in {"add", "rotate"} THEN t ELSE Absent]
  <1>0. /\ env \in Docs /\ token \in [Envs -> Tokens \cup {Absent}]
        /\ botLease \in [Envs -> Leases] /\ botCmd \in [Procs -> Command]
    BY Zenon, ProvTyped
  <1>1. r \in Kinds \X Envs BY Zenon, ProvAssumption
  <1>2. kind \in Kinds /\ x \in Envs BY Zenon, <1>1
  <1>3. kind # "validate" => p \in Changers BY Zenon DEF Changers
  <1> HIDE DEF kind, x
  <1>4. kind \in {"add", "rotate"} => ~env[x].enabled BY Zenon DEF Launch, kind, x
  <1>5. botCmd' = [botCmd EXCEPT ![p] = d] /\ env' = env /\ token' = token /\ botLease' = botLease /\ tested' = tested
    BY Zenon DEF Launch, kind, x
  <1>6. /\ d \in Command /\ d.kind = kind /\ d.env = x /\ d.doc = env
        /\ d.pc = IF kind = "validate" THEN "check" ELSE "lease"
        /\ d.tok = IF kind \in {"add", "rotate"} THEN t ELSE Absent
    <2> DEFINE pc == IF kind = "validate" THEN "check" ELSE "lease"
               tok == IF kind \in {"add", "rotate"} THEN t ELSE Absent
    <2>1. pc \in Places /\ tok \in Tokens \cup {Absent} BY Zenon DEF Places
    <2> HIDE DEF pc, tok
    <2>2. d = [Idle EXCEPT !.pc = pc, !.kind = kind, !.env = x, !.doc = env, !.tok = tok]
      BY Zenon DEF pc, tok
    <2> HIDE DEF d
    <2>3. d \in Command BY Zenon, <1>0, <1>2, <2>1, <2>2, IdleTyped DEF Command
    <2>4. d.pc = pc /\ d.kind = kind /\ d.env = x /\ d.doc = env /\ d.tok = tok
      BY Zenon, <2>2, IdleTyped DEF Command
    <2> QED BY Zenon, <2>3, <2>4 DEF pc, tok
  <1> HIDE DEF d
  <1>7. /\ botCmd' \in [Procs -> Command] /\ botCmd'[p] = d
        /\ \A q \in Procs : q # p => botCmd'[q] = botCmd[q]
    BY Zenon, <1>0, <1>5, <1>6
  <1>8. ASSUME kind # "validate" PROVE Changing(d)
    BY Zenon, <1>2, <1>4, <1>6, <1>8 DEF Changing, Kinds
  <1>9. Changing(d) => (Changing(botCmd[p]))' BY Zenon, <1>5, <1>7 DEF Changing
  <1>10. \A e \in Envs : Known(d.doc[e]) BY Zenon, <1>6 DEF ProvInv
  <1>11. Scoped(p)' BY Zenon, <1>0, <1>2, <1>3, <1>6, <1>7, <1>8, <1>9, <1>10 DEF Scoped, Known
  <1>12. TestsExpected' BY Zenon, <1>5, TestedSame
  <1>13. botLease' \in [Envs -> Leases] BY Zenon, <1>0, <1>5
  <1> QED BY Zenon, <1>5, <1>7, <1>11, <1>12, <1>13, ReadingStep

\* A step of a command that changes, so far, only its own place.
LEMMA MovingStep ==
    ASSUME ProvInv, NEW p \in Procs, NEW d \in Command, botCmd' = [botCmd EXCEPT ![p] = d],
           env' = env, token' = token, tested' = tested, botLease' \in [Envs -> Leases],
           botCmd[p].pc # "idle", botCmd[p].kind # "validate",
           d.env = botCmd[p].env, d.kind = botCmd[p].kind, d.doc = botCmd[p].doc \/ d.doc = env, Changing(d)
    PROVE  ProvInv'
  <1>1. botCmd \in [Procs -> Command] /\ env \in Docs /\ Scoped(p) BY Zenon, ProvTyped
  <1>2. /\ botCmd' \in [Procs -> Command] /\ botCmd'[p] = d
        /\ \A q \in Procs : q # p => botCmd'[q] = botCmd[q]
    BY Zenon, <1>1
  <1>3. Changing(botCmd[p])' BY Zenon, <1>2 DEF Changing
  <1>4. d.doc \in Docs /\ \A e \in Envs : Known(d.doc[e]) BY Zenon, <1>1 DEF ProvInv, Scoped
  <1>5. d.env \in Envs /\ p \in Changers BY Zenon, <1>1 DEF Scoped
  <1>6. Scoped(p)' BY Zenon, <1>2, <1>3, <1>4, <1>5 DEF Scoped, Known
  <1> QED BY Zenon, <1>2, <1>6, TestedSame, ReadingStep

\* What the invariant says of a command that makes a change.
LEMMA ChangerScoped ==
    ASSUME ProvInv, NEW p \in Procs, botCmd[p].pc # "idle", botCmd[p].kind # "validate"
    PROVE  /\ p \in Changers /\ botCmd[p].env \in Envs /\ botCmd[p].doc \in Docs
           /\ Changing(botCmd[p]) /\ \A e \in Envs : Known(botCmd[p].doc[e])
  BY Zenon DEF ProvInv, Scoped

\* Only a validation has its kind, and it is at its check until it ends.
LEMMA NotValidating ==
    ASSUME ProvInv, NEW p \in Procs, botCmd[p].pc # "idle", botCmd[p].pc # "check"
    PROVE  botCmd[p].kind # "validate"
  BY Zenon DEF ProvInv, Scoped

\* The wait for the lease, and its end.
LEMMA LeaseKeeps ==
    ASSUME ProvInv, NEW p \in Procs, AwaitLease(p) \/ AcquireLease(p)
    PROVE  ProvInv'
  <1> DEFINE c == botCmd[p]
             x == c.env
             o == FirstSeen(p)
  <1>0. /\ botLease \in [Envs -> Leases] /\ botCmd \in [Procs -> Command] /\ c \in Command BY Zenon, ProvTyped
  <1>1. c.pc = "lease" BY Zenon DEF AwaitLease, AcquireLease, CommandAt
  <1>2. c.pc # "idle" /\ c.pc # "check" BY Zenon, <1>1
  <1>3. c.kind # "validate" BY Zenon, <1>2, NotValidating
  <1>4. x \in Envs /\ Changing(c) BY Zenon, <1>2, <1>3, ChangerScoped
  <1>5. botLease[x] \in Leases BY Zenon, <1>0, <1>4
  <1>6. botLease[x].offset \in Nat /\ botLease[x].epoch \in Nat BY Zenon, <1>5 DEF Leases
  <1>7. c.offset \in Nat \cup {Absent} BY Zenon, <1>0 DEF Command, Places
  <1>8. o \in Nat \cup {Absent} BY Zenon, <1>6, <1>7 DEF FirstSeen
  <1> HIDE DEF o, c
  <1>9. CASE AwaitLease(p)
    <2> DEFINE d == [c EXCEPT !.offset = o]
    <2>1. /\ d \in Command /\ d.pc = c.pc /\ d.kind = c.kind /\ d.env = c.env /\ d.doc = c.doc /\ d.tok = c.tok
          /\ d.pair = c.pair /\ d.had = c.had
      BY Zenon, <1>0, <1>8 DEF Command, Places
    <2>2. botCmd' = [botCmd EXCEPT ![p] = d]
      BY Zenon, <1>9 DEF AwaitLease, o, c
    <2>3. env' = env /\ token' = token /\ botLease' = botLease /\ tested' = tested
      BY Zenon, <1>9 DEF AwaitLease
    <2> HIDE DEF d
    <2>4. Changing(d) BY Zenon, <1>4, <2>1 DEF Changing
    <2>5. botLease' \in [Envs -> Leases] BY Zenon, <1>0, <2>3
    <2> QED BY Zenon, <1>2, <1>3, <2>1, <2>2, <2>3, <2>4, <2>5, MovingStep DEF c
  <1>10. CASE AcquireLease(p)
    <2> DEFINE n == botLease[x].epoch + 1
               pc == IF c.kind = "disable" THEN "wDisable" ELSE "check"
               d == [c EXCEPT !.pc = pc, !.epoch = n, !.offset = o]
    <2>0. n \in Nat /\ pc \in {"wDisable", "check"} BY <1>6
    <2>1. /\ d \in Command /\ d.pc = pc /\ d.kind = c.kind /\ d.env = c.env /\ d.doc = c.doc /\ d.tok = c.tok
          /\ d.pair = c.pair /\ d.had = c.had
      <3>1. pc \in Places BY Zenon, <2>0 DEF Places
      <3> HIDE DEF n, pc
      <3>2. d \in Command BY Zenon, <1>0, <1>8, <2>0, <3>1 DEF Command
      <3>3. /\ d.pc = pc /\ d.kind = c.kind /\ d.env = c.env /\ d.doc = c.doc /\ d.tok = c.tok
            /\ d.pair = c.pair /\ d.had = c.had
        BY Zenon, <1>0 DEF Command
      <3> QED BY Zenon, <3>2, <3>3
    <2>2. botCmd' = [botCmd EXCEPT ![p] = d]
      BY Zenon, <1>0, <1>10 DEF AcquireLease, o, c, Command
    <2>3. env' = env /\ token' = token /\ tested' = tested
      BY Zenon, <1>10 DEF AcquireLease
    <2>4. botLease' = [botLease EXCEPT ![x].owner = p, ![x].epoch = @ + 1]
      BY Zenon, <1>10 DEF AcquireLease, c
    <2>5. botLease' \in [Envs -> Leases]
      <3> HIDE DEF x
      <3> QED BY <1>0, <1>4, <2>4 DEF Leases
    <2> HIDE DEF d
    <2>6. Changing(d) BY Zenon, <1>1, <1>4, <2>1 DEF Changing
    <2> QED BY Zenon, <1>2, <1>3, <2>1, <2>2, <2>3, <2>5, <2>6, MovingStep DEF c
  <1> QED BY Zenon, <1>9, <1>10

\* A command fails or is killed.
LEMMA EndKeeps ==
    ASSUME ProvInv, NEW p \in Procs, Fail(p) \/ Die(p)
    PROVE  ProvInv'
  <1>0. botLease \in [Envs -> Leases] /\ botCmd \in [Procs -> Command] /\ Scoped(p) BY Zenon, ProvTyped
  <1>1. /\ botCmd' = [botCmd EXCEPT ![p] = Idle] /\ env' = env /\ token' = token /\ tested' = tested
        /\ botCmd[p].pc # "idle" /\ (botLease' = Released(p) \/ botLease' = botLease)
    BY Zenon DEF Fail, Die, CommandAt
  <1>2. /\ botCmd' \in [Procs -> Command] /\ botCmd'[p] = Idle
        /\ \A q \in Procs : q # p => botCmd'[q] = botCmd[q]
    BY Zenon, <1>0, <1>1, IdleTyped
  <1>3. botCmd[p].env \in Envs BY Zenon, <1>0, <1>1 DEF Scoped
  <1>4. botLease' \in [Envs -> Leases] BY Zenon, <1>0, <1>1, <1>3, ReleasedTyped
  <1> QED BY Zenon, <1>1, <1>2, <1>4, EndedScoped, TestedSame, ReadingStep

\* A command that makes a change and only moves on: the record it moves to.
LEMMA MovedOn ==
    ASSUME NEW c \in Command, NEW pc \in Places
    PROVE  LET d == [c EXCEPT !.pc = pc]
           IN  /\ d \in Command /\ d.pc = pc /\ d.kind = c.kind /\ d.env = c.env /\ d.doc = c.doc
               /\ d.tok = c.tok /\ d.pair = c.pair /\ d.had = c.had
  BY Zenon DEF Command

LEMMA CheckAddKeeps ==
    ASSUME ProvInv, NEW p \in Procs, NEW bot \in DOMAIN Inbox, NEW updates \in SUBSET Inbox[bot],
           NEW pair \in Discovered(updates), CheckAdd(p, updates, pair)
    PROVE  ProvInv'
  <1> DEFINE c == botCmd[p]
             x == c.env
             had == token[x] # Absent
             d == [c EXCEPT !.pc = "wBinding", !.had = had, !.pair = pair]
  <1>0. /\ botLease \in [Envs -> Leases] /\ botCmd \in [Procs -> Command] /\ c \in Command BY Zenon, ProvTyped
  <1>1. c.pc = "check" /\ c.kind = "add" BY Zenon DEF CheckAdd, CommandAt
  <1>2. c.pc # "idle" /\ c.kind # "validate" BY Zenon, <1>1
  <1>3. x \in Envs /\ Changing(c) BY Zenon, <1>2, ChangerScoped
  <1>4. updates \in SUBSET Inbox[BotOf[c.tok]] BY Zenon DEF CheckAdd
  <1>5. pair # Absent /\ Wrote(BotOf[c.tok], pair) BY Zenon, <1>4, DiscoveredWrote
  <1>6. pair \in Pairs BY Zenon DEF Pairs, Discovered
  <1>7. token[x] # Absent => token[x] = c.tok BY Zenon DEF CheckAdd, AddAccepted
  <1>8. env' = env /\ token' = token /\ botLease' = botLease /\ tested' = tested BY Zenon DEF CheckAdd
  <1>9. botCmd' = [botCmd EXCEPT ![p] = d] BY Zenon, <1>0 DEF CheckAdd, Command
  <1>10. had \in BOOLEAN /\ (had => token[x] = c.tok) BY Zenon, <1>7
  <1> HIDE DEF had
  <1>11. /\ d \in Command /\ d.pc = "wBinding" /\ d.kind = c.kind /\ d.env = c.env /\ d.doc = c.doc
         /\ d.tok = c.tok /\ d.pair = pair /\ (d.had => had)
    <2> HIDE DEF c
    <2>1. "wBinding" \in Places BY Zenon DEF Places
    <2>2. d \in Command BY Zenon, <1>0, <1>6, <1>10, <2>1 DEF Command
    <2>3. /\ d.pc = "wBinding" /\ d.kind = c.kind /\ d.env = c.env /\ d.doc = c.doc
          /\ d.tok = c.tok /\ d.pair = pair /\ (d.had => had)
      BY Zenon, <1>0 DEF Command
    <2> QED BY Zenon, <2>2, <2>3
  <1> HIDE DEF d, c
  <1>12. Changing(d) BY Zenon, <1>1, <1>3, <1>5, <1>10, <1>11 DEF Changing
  <1>13. botLease' \in [Envs -> Leases] BY Zenon, <1>0, <1>8
  <1> QED BY Zenon, <1>2, <1>8, <1>9, <1>11, <1>12, <1>13, MovingStep DEF c

LEMMA CheckRotateKeeps ==
    ASSUME ProvInv, NEW p \in Procs, CheckRotate(p)
    PROVE  ProvInv'
  <1> DEFINE c == botCmd[p]
             x == c.env
             pc == IF token[x] = c.tok THEN "wEnable" ELSE "wToken"
             d == [c EXCEPT !.pc = pc]
  <1>0. /\ botLease \in [Envs -> Leases] /\ botCmd \in [Procs -> Command] /\ c \in Command BY Zenon, ProvTyped
  <1>1. c.pc = "check" /\ c.kind = "rotate" BY Zenon DEF CheckRotate, CommandAt
  <1>2. c.pc # "idle" /\ c.kind # "validate" BY Zenon, <1>1
  <1>3. x \in Envs /\ Changing(c) BY Zenon, <1>2, ChangerScoped
  <1>4. c.doc[x].bot = BotOf[c.tok] /\ c.doc[x].bound # Absent BY Zenon DEF CheckRotate, RotateAccepted
  <1>5. env' = env /\ token' = token /\ botLease' = botLease /\ tested' = tested BY Zenon DEF CheckRotate
  <1>6. botCmd' = [botCmd EXCEPT ![p] = d] BY Zenon, <1>0 DEF CheckRotate, Command
  <1>7. pc \in {"wEnable", "wToken"} /\ pc \in Places /\ (pc = "wEnable" => token[x] = c.tok) BY Zenon DEF Places
  <1> HIDE DEF pc
  <1>8. /\ d \in Command /\ d.pc = pc /\ d.kind = c.kind /\ d.env = c.env /\ d.doc = c.doc
        /\ d.tok = c.tok /\ d.pair = c.pair /\ d.had = c.had
    BY Zenon, <1>0, <1>7, MovedOn
  <1> HIDE DEF d, c
  <1>9. Changing(d) BY Zenon, <1>1, <1>3, <1>4, <1>7, <1>8 DEF Changing
  <1>10. botLease' \in [Envs -> Leases] BY Zenon, <1>0, <1>5
  <1> QED BY Zenon, <1>2, <1>5, <1>6, <1>8, <1>9, <1>10, MovingStep DEF c

LEMMA VerifyKeeps ==
    ASSUME ProvInv, NEW p \in Procs, VerifyBefore(p)
    PROVE  ProvInv'
  <1> DEFINE c == botCmd[p]
             pc == AfterVerify(c.pc)
             d == [c EXCEPT !.pc = pc]
  <1>0. /\ botLease \in [Envs -> Leases] /\ botCmd \in [Procs -> Command] /\ c \in Command BY Zenon, ProvTyped
  <1>1. c.pc \in {"wBinding", "wToken", "wEnable", "wDisable"} BY Zenon DEF VerifyBefore
  <1>2. c.pc # "idle" /\ c.pc # "check" BY Zenon, <1>1
  <1>3. c.kind # "validate" BY Zenon, <1>2, NotValidating
  <1>4. Changing(c) BY Zenon, <1>2, <1>3, ChangerScoped
  <1>5. env' = env /\ token' = token /\ botLease' = botLease /\ tested' = tested BY Zenon DEF VerifyBefore
  <1>6. botCmd' = [botCmd EXCEPT ![p] = d] BY Zenon, <1>0 DEF VerifyBefore, Command
  <1>7. \/ c.pc = "wBinding" /\ pc = "binding"
        \/ c.pc = "wToken" /\ pc = "token"
        \/ c.pc = "wEnable" /\ pc = "enable"
        \/ c.pc = "wDisable" /\ pc = "disable"
    BY Zenon, <1>1 DEF AfterVerify
  <1>8. pc \in Places BY Zenon, <1>7 DEF Places
  <1> HIDE DEF pc
  <1>9. /\ d \in Command /\ d.pc = pc /\ d.kind = c.kind /\ d.env = c.env /\ d.doc = c.doc
        /\ d.tok = c.tok /\ d.pair = c.pair /\ d.had = c.had
    BY Zenon, <1>0, <1>8, MovedOn
  <1> HIDE DEF d, c
  <1>10. Changing(d) BY Zenon, <1>4, <1>7, <1>9 DEF Changing
  <1>11. botLease' \in [Envs -> Leases] BY Zenon, <1>0, <1>5
  <1> QED BY Zenon, <1>2, <1>3, <1>5, <1>6, <1>9, <1>10, <1>11, MovingStep DEF c

LEMMA RefreshKeeps ==
    ASSUME ProvInv, NEW p \in Procs, Refresh(p)
    PROVE  ProvInv'
  <1> DEFINE c == botCmd[p]
             d == [c EXCEPT !.pc = "wEnable", !.doc = env]
  <1>0. /\ botLease \in [Envs -> Leases] /\ botCmd \in [Procs -> Command] /\ c \in Command /\ env \in Docs
    BY Zenon, ProvTyped
  <1>1. c.pc = "refresh" BY Zenon DEF Refresh, CommandAt
  <1>2. c.pc # "idle" /\ c.pc # "check" BY Zenon, <1>1
  <1>3. c.kind # "validate" BY Zenon, <1>2, NotValidating
  <1>4. Changing(c) BY Zenon, <1>2, <1>3, ChangerScoped
  <1>5. env' = env /\ token' = token /\ botLease' = botLease /\ tested' = tested BY Zenon DEF Refresh
  <1>6. botCmd' = [botCmd EXCEPT ![p] = d] BY Zenon, <1>0 DEF Refresh, Command
  <1>7. /\ d \in Command /\ d.pc = "wEnable" /\ d.kind = c.kind /\ d.env = c.env /\ d.doc = env
        /\ d.tok = c.tok /\ d.pair = c.pair
    <2> HIDE DEF c
    <2>1. "wEnable" \in Places BY Zenon DEF Places
    <2>2. d \in Command BY Zenon, <1>0, <2>1 DEF Command
    <2>3. /\ d.pc = "wEnable" /\ d.kind = c.kind /\ d.env = c.env /\ d.doc = env
          /\ d.tok = c.tok /\ d.pair = c.pair
      BY Zenon, <1>0 DEF Command
    <2> QED BY Zenon, <2>2, <2>3
  <1> HIDE DEF d, c
  <1>8. Changing(d) BY Zenon, <1>1, <1>4, <1>7 DEF Changing
  <1>9. botLease' \in [Envs -> Leases] BY Zenon, <1>0, <1>5
  <1> QED BY Zenon, <1>2, <1>3, <1>5, <1>6, <1>7, <1>8, <1>9, MovingStep DEF c

\* What writing a section does to .env.
LEMMA RenderedSections ==
    ASSUME NEW doc \in Docs, NEW x \in Envs, NEW s \in Section
    PROVE  /\ [doc EXCEPT ![x] = s] \in Docs
           /\ [doc EXCEPT ![x] = s][x] = s
           /\ \A e \in Envs : e # x => [doc EXCEPT ![x] = s][e] = doc[e]
  BY Zenon DEF Docs

\* A command that makes a change writes one section of .env.  Elsewhere its document
\* is what .env held, so nothing else changes.
LEMMA SectionWritten ==
    ASSUME ProvInv, NEW p \in Procs, botCmd[p].pc # "idle", botCmd[p].kind # "validate", NEW s \in Section,
           env' = [botCmd[p].doc EXCEPT ![botCmd[p].env] = s], token' = token,
           Known(s), s.enabled => /\ token[botCmd[p].env] # Absent /\ s.bot = BotOf[token[botCmd[p].env]]
                                  /\ s.bound # Absent
    PROVE  /\ env' \in Docs /\ env'[botCmd[p].env] = s
           /\ \A e \in Envs : e # botCmd[p].env => env'[e] = botCmd[p].doc[e] /\ env'[e] = env[e]
           /\ \A e \in Envs : Known(env'[e]) /\ (env'[e].enabled => Usable(e)')
  <1> DEFINE c == botCmd[p]
             x == c.env
  <1>1. /\ x \in Envs /\ c.doc \in Docs /\ Changing(c) BY Zenon, ChangerScoped
  <1>2. env' \in Docs /\ env'[x] = s /\ \A e \in Envs : e # x => env'[e] = c.doc[e]
    <2> DEFINE n == [c.doc EXCEPT ![x] = s]
    <2>1. env' = n BY Zenon
    <2>2. n \in Docs /\ n[x] = s /\ \A e \in Envs : e # x => n[e] = c.doc[e]
      <3> HIDE DEF c, x
      <3> QED BY <1>1, RenderedSections
    <2> HIDE DEF n, c, x
    <2> QED BY Zenon, <2>1, <2>2
  <1>3. \A e \in Envs : e # x => env'[e] = env[e] BY Zenon, <1>1, <1>2 DEF Changing
  <1>4. ASSUME NEW e \in Envs PROVE Known(env'[e]) /\ (env'[e].enabled => Usable(e)')
    <2>1. CASE e = x BY Zenon, <1>2, <2>1 DEF Usable
    <2>2. CASE e # x BY Zenon, <1>3, <2>2 DEF Usable, ProvInv
    <2> QED BY Zenon, <2>1, <2>2
  <1> QED BY Zenon, <1>2, <1>3, <1>4

LEMMA WriteBindingKeeps ==
    ASSUME ProvInv, NEW p \in Procs, WriteBinding(p)
    PROVE  ProvInv'
  <1> DEFINE c == botCmd[p]
             x == c.env
             s == Binding(c)
             pc == IF c.had THEN "refresh" ELSE "wToken"
             d == [c EXCEPT !.pc = pc]
  <1>0. /\ botLease \in [Envs -> Leases] /\ botCmd \in [Procs -> Command] /\ c \in Command
        /\ token \in [Envs -> Tokens \cup {Absent}]
    BY Zenon, ProvTyped
  <1>1. c.pc = "binding" BY Zenon DEF WriteBinding, CommandAt
  <1>2. c.pc # "idle" /\ c.pc # "check" BY Zenon, <1>1
  <1>3. c.kind # "validate" BY Zenon, <1>2, NotValidating
  <1>4. p \in Changers /\ x \in Envs /\ c.doc \in Docs /\ Changing(c) /\ \A e \in Envs : Known(c.doc[e])
    BY Zenon, <1>2, <1>3, ChangerScoped
  <1>5. c.kind = "add" /\ c.tok \in Tokens /\ c.pair # Absent /\ Wrote(BotOf[c.tok], c.pair)
        /\ (c.had => token[x] = c.tok)
    BY Zenon, <1>1, <1>4 DEF Changing
  <1>6. c.pair \in Pairs BY Zenon, <1>0 DEF Command
  <1>7. s \in Section /\ s.enabled = FALSE /\ s.bot = BotOf[c.tok] /\ s.bound = c.pair
    <2> HIDE DEF c
    <2>1. s = [enabled |-> FALSE, bot |-> BotOf[c.tok], bound |-> c.pair] BY Zenon DEF Binding
    <2>2. BotOf[c.tok] \in Bots BY Zenon, <1>5 DEF Bots
    <2> HIDE DEF s
    <2> QED BY Zenon, <1>6, <2>1, <2>2 DEF Section
  <1>8. env' = [c.doc EXCEPT ![x] = s] /\ token' = token /\ botLease' = botLease /\ tested' = tested
    BY Zenon DEF WriteBinding, WriteEnv, Rendered
  <1>9. botCmd' = [botCmd EXCEPT ![p] = d] BY Zenon, <1>0 DEF WriteBinding, Command
  <1>10. pc \in Places /\ (pc = "refresh" => c.had) /\ pc \in {"refresh", "wToken"} BY Zenon DEF Places
  <1> HIDE DEF pc, s
  <1>11. Known(s) BY Zenon, <1>5, <1>7 DEF Known
  <1>12. /\ env' \in Docs /\ env'[x] = s
         /\ \A e \in Envs : e # x => env'[e] = c.doc[e] /\ env'[e] = env[e]
         /\ \A e \in Envs : Known(env'[e]) /\ (env'[e].enabled => Usable(e)')
    BY Zenon, <1>2, <1>3, <1>7, <1>8, <1>11, SectionWritten
  <1>13. /\ d \in Command /\ d.pc = pc /\ d.kind = c.kind /\ d.env = c.env /\ d.doc = c.doc
         /\ d.tok = c.tok /\ d.pair = c.pair /\ d.had = c.had
    BY Zenon, <1>0, <1>10, MovedOn
  <1> HIDE DEF d
  <1>14. /\ botCmd' \in [Procs -> Command] /\ botCmd'[p] = d
         /\ \A q \in Procs : q # p => botCmd'[q] = botCmd[q]
    BY Zenon, <1>0, <1>9, <1>13
  <1>15. Changing(botCmd[p])'
    <2>1. c.had => token[x] = c.tok BY Zenon, <1>5
    <2> HIDE DEF c
    <2> QED BY <1>5, <1>7, <1>8, <1>10, <1>12, <1>13, <1>14 DEF Changing
  <1>16. Scoped(p)' BY Zenon, <1>3, <1>4, <1>13, <1>14, <1>15 DEF Scoped, Known
  <1>17. ProvTypes' BY Zenon, <1>0, <1>8, <1>12, <1>14 DEF ProvTypes
  <1> QED BY Zenon, <1>4, <1>8, <1>12, <1>14, <1>16, <1>17, WritingStep

LEMMA WriteTokenKeeps ==
    ASSUME ProvInv, NEW p \in Procs, WriteToken(p)
    PROVE  ProvInv'
  <1> DEFINE c == botCmd[p]
             x == c.env
             pc == IF c.kind = "add" THEN "refresh" ELSE "wEnable"
             d == [c EXCEPT !.pc = pc]
  <1>0. /\ botLease \in [Envs -> Leases] /\ botCmd \in [Procs -> Command] /\ c \in Command
        /\ token \in [Envs -> Tokens \cup {Absent}] /\ env \in Docs
    BY Zenon, ProvTyped
  <1>1. c.pc = "token" BY Zenon DEF WriteToken, CommandAt
  <1>2. c.pc # "idle" /\ c.pc # "check" BY Zenon, <1>1
  <1>3. c.kind # "validate" BY Zenon, <1>2, NotValidating
  <1>4. p \in Changers /\ x \in Envs /\ c.doc \in Docs /\ Changing(c) /\ \A e \in Envs : Known(c.doc[e])
    BY Zenon, <1>2, <1>3, ChangerScoped
  <1>5. /\ c.kind \in {"add", "rotate"} /\ c.tok \in Tokens /\ ~env[x].enabled
        /\ env[x].bot = BotOf[c.tok] /\ env[x].bound # Absent
    BY Zenon, <1>1, <1>4 DEF Changing
  <1>6. token' = [token EXCEPT ![x] = c.tok] /\ env' = env /\ botLease' = botLease /\ tested' = tested
    BY Zenon DEF WriteToken
  <1>7. botCmd' = [botCmd EXCEPT ![p] = d] BY Zenon, <1>0 DEF WriteToken, Command
  <1>8. pc \in Places /\ ((c.kind = "add" /\ pc = "refresh") \/ (c.kind # "add" /\ pc = "wEnable")) BY Zenon DEF Places
  <1> HIDE DEF pc
  <1>9. /\ d \in Command /\ d.pc = pc /\ d.kind = c.kind /\ d.env = c.env /\ d.doc = c.doc
        /\ d.tok = c.tok /\ d.pair = c.pair /\ d.had = c.had
    BY Zenon, <1>0, <1>8, MovedOn
  <1> HIDE DEF d
  <1>10. /\ botCmd' \in [Procs -> Command] /\ botCmd'[p] = d
         /\ \A q \in Procs : q # p => botCmd'[q] = botCmd[q]
    BY Zenon, <1>0, <1>7, <1>9
  <1>11. /\ token' \in [Envs -> Tokens \cup {Absent}] /\ token'[x] = c.tok
         /\ \A e \in Envs : e # x => token'[e] = token[e]
    <2> HIDE DEF c, x
    <2> QED BY Zenon, <1>0, <1>4, <1>5, <1>6
  <1>12. Changing(botCmd[p])'
    <2> HIDE DEF c
    <2> QED BY Zenon, <1>1, <1>4, <1>5, <1>6, <1>8, <1>9, <1>10, <1>11 DEF Changing
  <1>13. Scoped(p)' BY Zenon, <1>3, <1>4, <1>9, <1>10, <1>12 DEF Scoped, Known
  <1>14. ProvTypes' BY Zenon, <1>0, <1>6, <1>10, <1>11 DEF ProvTypes
  <1>15. ASSUME NEW e \in Envs PROVE Known(env'[e]) /\ (env'[e].enabled => Usable(e)')
    <2>1. CASE e = x BY Zenon, <1>5, <1>6, <2>1 DEF ProvInv
    <2>2. CASE e # x BY Zenon, <1>6, <1>11, <2>2 DEF ProvInv, Usable
    <2> QED BY Zenon, <2>1, <2>2
  <1> QED BY Zenon, <1>4, <1>6, <1>10, <1>13, <1>14, <1>15, WritingStep

\* The last write of a command, which only sets the flag of its section.
LEMMA FlagWritten ==
    ASSUME ProvInv, NEW p \in Procs, botCmd[p].pc \in {"enable", "disable"}, NEW flag \in BOOLEAN,
           flag => botCmd[p].pc = "enable",
           env' = [botCmd[p].doc EXCEPT ![botCmd[p].env] = [botCmd[p].doc[botCmd[p].env] EXCEPT !.enabled = flag]],
           token' = token, botLease' = Released(p), tested' = tested,
           botCmd' = [botCmd EXCEPT ![p] = Idle]
    PROVE  ProvInv'
  <1> DEFINE c == botCmd[p]
             x == c.env
             old == c.doc[x]
             s == [old EXCEPT !.enabled = flag]
  <1>0. /\ botCmd \in [Procs -> Command] /\ token \in [Envs -> Tokens \cup {Absent}]
    BY Zenon, ProvTyped
  <1>1. c.pc # "idle" /\ c.pc # "check" BY Zenon
  <1>2. c.kind # "validate" BY Zenon, <1>1, NotValidating
  <1>3. p \in Changers /\ x \in Envs /\ c.doc \in Docs /\ Changing(c) /\ \A e \in Envs : Known(c.doc[e])
    BY Zenon, <1>1, <1>2, ChangerScoped
  <1>4. old \in Section /\ Known(old)
    <2> HIDE DEF c, x
    <2> QED BY Zenon, <1>3 DEF Docs
  <1>5. old = env[x] BY Zenon, <1>3 DEF Changing
  <1>6. flag => token[x] = c.tok /\ c.tok \in Tokens /\ old.bot = BotOf[c.tok] /\ old.bound # Absent
    BY Zenon, <1>3, <1>5 DEF Changing
  <1>7. env' = [c.doc EXCEPT ![x] = s] BY Zenon
  <1> HIDE DEF old
  <1>8. s \in Section /\ s.enabled = flag /\ s.bot = old.bot /\ s.bound = old.bound BY Zenon, <1>4 DEF Section
  <1> HIDE DEF s
  <1>9. Known(s) BY Zenon, <1>4, <1>8 DEF Known
  <1>10. s.enabled => token[x] # Absent /\ s.bot = BotOf[token[x]] /\ s.bound # Absent
    BY Zenon, <1>6, <1>8, ProvAssumption
  <1>11. env' \in Docs /\ \A e \in Envs : Known(env'[e]) /\ (env'[e].enabled => Usable(e)')
    BY Zenon, <1>1, <1>2, <1>7, <1>8, <1>9, <1>10, SectionWritten
  <1>12. /\ botCmd' \in [Procs -> Command] /\ botCmd'[p] = Idle
         /\ \A q \in Procs : q # p => botCmd'[q] = botCmd[q]
    BY Zenon, <1>0, IdleTyped
  <1>13. Scoped(p)' BY Zenon, <1>12, EndedScoped
  <1>14. botLease' \in [Envs -> Leases] BY Zenon, <1>3, ReleasedTyped
  <1>15. ProvTypes' BY Zenon, <1>0, <1>11, <1>12, <1>14 DEF ProvTypes
  <1> QED BY Zenon, <1>3, <1>11, <1>12, <1>13, <1>15, WritingStep

LEMMA WriteFlagKeeps ==
    ASSUME ProvInv, NEW p \in Procs, WriteEnable(p) \/ WriteDisable(p)
    PROVE  ProvInv'
  <1>1. CASE WriteEnable(p)
    <2>1. /\ botCmd[p].pc = "enable"
          /\ env' = [botCmd[p].doc EXCEPT ![botCmd[p].env] = [botCmd[p].doc[botCmd[p].env] EXCEPT !.enabled = TRUE]]
          /\ token' = token /\ botLease' = Released(p) /\ tested' = tested
          /\ botCmd' = [botCmd EXCEPT ![p] = Idle]
      BY Zenon, <1>1 DEF WriteEnable, WriteEnv, Rendered, CommandAt
    <2> QED BY Zenon, <2>1, FlagWritten
  <1>2. CASE WriteDisable(p)
    <2>1. /\ botCmd[p].pc = "disable"
          /\ env' = [botCmd[p].doc EXCEPT ![botCmd[p].env] = [botCmd[p].doc[botCmd[p].env] EXCEPT !.enabled = FALSE]]
          /\ token' = token /\ botLease' = Released(p) /\ tested' = tested
          /\ botCmd' = [botCmd EXCEPT ![p] = Idle]
      BY Zenon, <1>2 DEF WriteDisable, WriteEnv, Rendered, CommandAt
    <2> QED BY Zenon, <2>1, FlagWritten
  <1> QED BY Zenon, <1>1, <1>2

\* A validation sends its test message to the recipient it read, who is known.
LEMMA ValidateKeeps ==
    ASSUME ProvInv, NEW p \in Procs, NEW sendTest \in BOOLEAN, Validate(p, sendTest)
    PROVE  ProvInv'
  <1> DEFINE o == botCmd[p]
             t == token[o.env]
             c == [o EXCEPT !.tok = t]
  <1>0. /\ botLease \in [Envs -> Leases] /\ botCmd \in [Procs -> Command] /\ o \in Command /\ Scoped(p)
    BY Zenon, ProvTyped
  <1>1. c.doc = o.doc /\ c.env = o.env
    <2> HIDE DEF o, t
    <2> QED BY Zenon, <1>0 DEF Command
  <1>2. /\ o.pc = "check" /\ ValidateOk(c)
        /\ tested' = IF sendTest THEN [bot |-> BotOf[c.tok], to |-> Recipient(c)] ELSE tested
        /\ botCmd' = [botCmd EXCEPT ![p] = Idle] /\ env' = env /\ token' = token /\ botLease' = botLease
    BY Zenon DEF Validate, CommandAt
  <1> HIDE DEF c, t
  <1>3. o.pc # "idle" BY Zenon, <1>2
  <1>4. o.env \in Envs /\ Known(o.doc[o.env]) BY Zenon, <1>0, <1>3 DEF Scoped
  <1>5. BotOf[c.tok] = o.doc[o.env].bot /\ Recipient(c) = o.doc[o.env].bound /\ Recipient(c) # Absent
    BY Zenon, <1>1, <1>2 DEF ValidateOk, Recipient
  <1>6. Wrote(BotOf[c.tok], Recipient(c)) BY Zenon, <1>4, <1>5 DEF Known
  <1>7. TestsExpected'
    <2>1. CASE sendTest
      <3>1. tested' = [bot |-> BotOf[c.tok], to |-> Recipient(c)] BY Zenon, <1>2, <2>1
      <3>2. tested'.bot = BotOf[c.tok] /\ tested'.to = Recipient(c) BY Zenon, <3>1
      <3> QED BY Zenon, <1>6, <3>2 DEF TestsExpected, Wrote
    <2>2. CASE ~sendTest BY Zenon, <1>2, <2>2, TestedSame
    <2> QED BY Zenon, <2>1, <2>2
  <1>8. /\ botCmd' \in [Procs -> Command] /\ botCmd'[p] = Idle
        /\ \A q \in Procs : q # p => botCmd'[q] = botCmd[q]
    BY Zenon, <1>0, <1>2, IdleTyped
  <1>9. botLease' \in [Envs -> Leases] BY Zenon, <1>0, <1>2
  <1> QED BY Zenon, <1>2, <1>7, <1>8, <1>9, EndedScoped, ReadingStep

\* A step that changes nothing but leases.
LEMMA SameFiles ==
    ASSUME ProvInv, env' = env, token' = token, botCmd' = botCmd, tested' = tested, ProvTypes'
    PROVE  ProvInv'
  <1>1. \A p \in Procs : Scoped(p)' BY Zenon, BystanderScoped DEF ProvInv
  <1>2. \A x \in Envs : Known(env'[x]) /\ (env'[x].enabled => Usable(x)')
    BY Zenon DEF ProvInv, Usable
  <1> QED BY Zenon, <1>1, <1>2, TestedSame DEF ProvInv, Known

\* A poller takes the lease, moves the cursor, or a lease expires.
LEMMA PollerKeeps ==
    ASSUME ProvInv, NEW e \in Envs, Expire(e) \/ PollerTakes(e) \/ PollerMoves(e)
    PROVE  ProvInv'
  <1>0. botLease \in [Envs -> Leases] BY Zenon DEF ProvInv, ProvTypes
  <1>1. env' = env /\ token' = token /\ botCmd' = botCmd /\ tested' = tested
    BY Zenon DEF Expire, PollerTakes, PollerMoves
  <1>2. botLease' \in [Envs -> Leases]
    <2>1. CASE Expire(e) BY Zenon, <1>0, <2>1 DEF Expire, Leases
    <2>2. CASE PollerTakes(e) BY <1>0, <2>2 DEF PollerTakes, Leases
    <2>3. CASE PollerMoves(e) BY <1>0, <2>3 DEF PollerMoves, Leases
    <2> QED BY Zenon, <2>1, <2>2, <2>3
  <1>3. ProvTypes' BY Zenon, <1>1, <1>2 DEF ProvInv, ProvTypes
  <1> QED BY Zenon, <1>1, <1>3, SameFiles

LEMMA ProvNextInv == ProvInv /\ [ProvNext]_provvars => ProvInv'
  <1> SUFFICES ASSUME ProvInv, [ProvNext]_provvars PROVE ProvInv' BY Zenon
  <1>1. ASSUME UNCHANGED provvars PROVE ProvInv'
    <2>1. env' = env /\ token' = token /\ botLease' = botLease /\ botCmd' = botCmd /\ tested' = tested
      BY Zenon, <1>1 DEF provvars
    <2>2. ProvTypes' BY Zenon, <2>1 DEF ProvInv, ProvTypes
    <2> QED BY Zenon, <2>1, <2>2, SameFiles
  <1>2. ASSUME NEW p \in Procs, NEW r \in Asks[p], NEW t \in Tokens, Launch(p, r[1], r[2], t)
        PROVE  ProvInv'
    BY Zenon, <1>2, LaunchKeeps
  <1>3. ASSUME NEW p \in Procs, NEW bot \in DOMAIN Inbox, NEW updates \in SUBSET Inbox[bot],
               NEW pair \in Discovered(updates), CheckAdd(p, updates, pair)
        PROVE  ProvInv'
    BY Zenon, <1>3, CheckAddKeeps
  <1> QED BY Zenon, <1>1, <1>2, <1>3, LeaseKeeps, EndKeeps, CheckRotateKeeps, VerifyKeeps, RefreshKeeps,
             WriteBindingKeeps, WriteTokenKeeps, WriteFlagKeeps, ValidateKeeps, PollerKeeps DEF ProvNext

\* With changes made one after the other, beside any validations and pollers, for any
\* environments, tokens and updates: an environment is enabled only while it is
\* complete, and test messages go only to those who have written to the Bot - wherever
\* commands were killed, failed or lost their lease (_add, _rotate, _validate).
THEOREM EnabledAlwaysComplete == ProvSpec => []EnabledIsComplete
  <1>1. ProvInv => EnabledIsComplete
    BY Zenon DEF ProvInv, Usable, Known, EnabledIsComplete, ActivatedLast
  <1>2. ProvInit => ProvInv BY Zenon, ProvStarts
  <1>3. ProvInv /\ [ProvNext]_provvars => ProvInv' BY Zenon, ProvNextInv
  <1> QED BY <1>1, <1>2, <1>3, PTL DEF ProvSpec
=============================================================================
