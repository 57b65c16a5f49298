------------------------------ MODULE Sessions ------------------------------
(* Session directories shared by several oi processes: the lifecycle          *)
(* operations of cli_sessions.c, the metadata cache and its lock, and the     *)
(* switch of a running process from one session to another                    *)
(* (cli_session_switch.c), with the adoption of the new session in cli.c.     *)
(* Every access to the file system is a step of its own, so other processes   *)
(* come between any two, and a process may die there.                         *)
EXTENDS Naturals, Sequences, FiniteSets

CONSTANTS Process,      \* processes sharing one sessions root
          Session,      \* session ids
          Model,        \* model names: the one setting kept apart from the others
          DefaultModel, \* the configured model
          Name,         \* display names
          Nothing,      \* no session, no process, no value, no file
          MaxCommands,  \* bound on the commands the processes start
          MaxLogs,      \* bound on the log files ever created
          Faults        \* subset of {"kill", "append", "cache"}

ASSUME SessionsAssumption ==
    /\ DefaultModel \in Model
    /\ Nothing \notin Process \union Session \union Model \union Name
    /\ Nothing \notin [model: Model, name: Name \union {Nothing}]
    /\ MaxCommands \in Nat /\ MaxLogs \in Nat \ {0}
    /\ Faults \subseteq {"kill", "append", "cache"}

VARIABLES
    place,   \* where the directory of a session is
    path,    \* the log file its history.oilog names, 0 for none
    logs,    \* the log files: typed records or none, the last model, the holder of the lock
    meta,    \* metadata.json, or Nothing
    guard,   \* the process holding metadata.json.lock
    self,    \* a process: its session, the log it holds, its model, the directory it stands in
    job,     \* the command a process is in
    left,    \* commands still to be started
    ghost    \* what was promised: see Ghosts

vars == <<place, path, logs, meta, guard, self, job, left, ghost>>

Places == {"none", "live", "trash", "gone"}

Log(typed, model) == [typed |-> typed, model |-> model, holder |-> Nothing]

NoSelf == [session |-> Nothing, log |-> 0, model |-> DefaultModel, cwd |-> Nothing]

Idle == [at |-> "idle", cmd |-> Nothing, id |-> Nothing, in |-> "live",
         value |-> Nothing, asked |-> FALSE, log |-> 0, cache |-> Nothing]

(* chosen: the model the user last asked a session to have; named: the last   *)
(* name a rename has given it; behind: its log has a change its cache has not *)
(* mirrored; raced: a process came into one of the two known gaps between a   *)
(* check and the act it allows.                                               *)
Ghosts == [chosen: [Session -> Model \union {Nothing}],
           named: [Session -> Name \union {Nothing}],
           behind: [Session -> BOOLEAN], raced: BOOLEAN]

(* One session with a history, live or trashed, with its cache or without     *)
(* (imported, or the refresh failed); the other ids are not taken.            *)
Init ==
    \E s \in Session, where \in {"live", "trash"}, m \in Model, cached \in BOOLEAN:
        /\ where = "live" \/ cached
        /\ place = [x \in Session |-> IF x = s THEN where ELSE "none"]
        /\ path = [x \in Session |-> IF x = s THEN 1 ELSE 0]
        /\ logs = <<Log(TRUE, m)>>
        /\ meta = [x \in Session |->
              IF x = s /\ cached THEN [model |-> m, name |-> Nothing] ELSE Nothing]
        /\ guard = [x \in Session |-> Nothing]
        /\ self = [p \in Process |-> NoSelf]
        /\ job = [p \in Process |-> Idle]
        /\ left = MaxCommands
        /\ ghost = [chosen |-> [x \in Session |-> IF x = s THEN m ELSE Nothing],
                    named |-> [x \in Session |-> Nothing],
                    behind |-> [x \in Session |-> FALSE], raced |-> FALSE]

(* --- helpers -------------------------------------------------------------- *)

(* The command's path still leads to the session's directory.                 *)
Reached(p) == place[job[p].id] = job[p].in

Goes(p, at) == job' = [job EXCEPT ![p].at = at]

(* open(O_CREAT) of the log at a path that is reached: the file, made if      *)
(* there is none.                                                             *)
Opens(s) == IF path[s] = 0 THEN Len(logs) + 1 ELSE path[s]

Creates(s) ==
    /\ path[s] = 0 => Len(logs) < MaxLogs
    /\ path' = [path EXCEPT ![s] = Opens(s)]

Filled(s) == IF path[s] = 0 THEN Append(logs, Log(FALSE, Nothing)) ELSE logs

(* The known gaps between a check and the act it allows: a command that has   *)
(* probed the lock is about to move or empty a directory, an import to put    *)
(* its copy into the one it made; a process that has not locked the log yet   *)
(* that it opened, or that renames, uses a session unseen by a probe.         *)
InGap(s) ==
    \E q \in Process : job[q].id = s /\ job[q].at \in {"move", "unlink", "adopt"}

Unseen(s) ==
    \E q \in Process : job[q].id = s /\ \/ job[q].at = "lock"
                                        \/ job[q].cmd = "rename"

HeldBy(i, p) == [logs EXCEPT ![i].holder = p]

(* probe_lock: a log no process has locked, or none at all.                   *)
ProbeBusy(s) == path[s] # 0 /\ logs[path[s]].holder # Nothing

(* Bug: the new session's log stays registered, and locked, after a failure.  *)
UnwoundButLog(p) ==
    /\ guard' = [s \in Session |-> IF guard[s] = p THEN Nothing ELSE guard[s]]
    /\ self' = [self EXCEPT ![p].cwd = self[p].session]
    /\ job' = [job EXCEPT ![p] = Idle]
    /\ UNCHANGED logs

(* The command of p has failed or is over: what it had locked is released and *)
(* the process is back in the directory of the session it is still on.        *)
Unwound(p) ==
    /\ logs' = [i \in DOMAIN logs |->
          IF i # self[p].log /\ logs[i].holder = p THEN Log(logs[i].typed, logs[i].model)
          ELSE logs[i]]
    /\ guard' = [s \in Session |-> IF guard[s] = p THEN Nothing ELSE guard[s]]
    /\ self' = [self EXCEPT ![p].cwd = self[p].session]
    /\ job' = [job EXCEPT ![p] = Idle]

Fails(p) == Unwound(p) /\ UNCHANGED <<place, path, meta, left, ghost>>

(* The process is gone, by exit or death: its locks are the kernel's again.   *)
Gone(p) ==
    /\ logs' = [i \in DOMAIN logs |->
          IF logs[i].holder = p THEN Log(logs[i].typed, logs[i].model) ELSE logs[i]]
    /\ guard' = [s \in Session |-> IF guard[s] = p THEN Nothing ELSE guard[s]]
    /\ self' = [self EXCEPT ![p] = NoSelf]
    /\ job' = [job EXCEPT ![p] = Idle]
    /\ UNCHANGED <<place, path, meta, left, ghost>>

(* --- the start of each command -------------------------------------------- *)

Starts(p, cmd, s, at, in, value) ==
    /\ job[p].at = "idle" /\ left > 0
    /\ left' = left - 1
    /\ job' = [job EXCEPT ![p] = [Idle EXCEPT !.at = at, !.cmd = cmd, !.id = s,
                                              !.in = in, !.value = value]]

(* /session switch, and the start of a process on a session of the root, when *)
(* a model may be named explicitly.                                           *)
Switch(p, s, explicit) ==
    /\ s # self[p].session /\ place[s] = "live"
    /\ explicit # Nothing => self[p].session = Nothing
    /\ Starts(p, "open", s, "open", "live", explicit)
    /\ UNCHANGED <<place, path, logs, meta, guard, self, ghost>>

(* The first message of an automatic session: mkdir under a new id.           *)
NewSession(p, s) ==
    /\ self[p].session = Nothing /\ place[s] = "none"
    /\ Starts(p, "open", s, "open", "live", Nothing)
    /\ place' = [place EXCEPT ![s] = "live"]
    /\ UNCHANGED <<path, logs, meta, guard, self, ghost>>

SetModel(p, m) ==
    /\ self[p].session # Nothing
    /\ Starts(p, "set", self[p].session, "append", "live", m)
    /\ UNCHANGED <<place, path, logs, meta, guard, self, ghost>>

Rename(p, s, n) ==
    /\ place[s] = "live"
    /\ Starts(p, "rename", s, "guard", "live", n)
    /\ ghost' = [ghost EXCEPT !.raced = @ \/ InGap(s)]
    /\ UNCHANGED <<place, path, logs, meta, guard, self>>

(* A listing changes something only where it finds no cache: it replays the   *)
(* log, unless that is busy.                                                  *)
List(p, s) ==
    /\ place[s] \in {"live", "trash"} /\ meta[s] = Nothing /\ ~ProbeBusy(s)
    /\ Starts(p, "list", s, "rebuild", place[s], Nothing)
    /\ UNCHANGED <<place, path, logs, meta, guard, self, ghost>>

Trash(p, s) ==
    /\ s # self[p].session /\ place[s] = "live" /\ ~ProbeBusy(s)
    /\ Starts(p, "trash", s, "move", "live", Nothing)
    /\ ghost' = [ghost EXCEPT !.raced = @ \/ Unseen(s)]
    /\ UNCHANGED <<place, path, logs, meta, guard, self>>

RestoreTrashed(p, s) ==
    /\ place[s] = "trash" /\ ~ProbeBusy(s)
    /\ Starts(p, "restore", s, "move", "trash", Nothing)
    /\ ghost' = [ghost EXCEPT !.raced = @ \/ Unseen(s)]
    /\ UNCHANGED <<place, path, logs, meta, guard, self>>

Delete(p, s) ==
    /\ place[s] = "trash" /\ ~ProbeBusy(s)
    /\ Starts(p, "delete", s, "unlink", "trash", Nothing)
    /\ ghost' = [ghost EXCEPT !.raced = @ \/ Unseen(s)]
    /\ UNCHANGED <<place, path, logs, meta, guard, self>>

(* The copy in a scratch file has been validated; the directory is made.      *)
Import(p, s, m) ==
    /\ place[s] = "none"
    /\ Starts(p, "import", s, "adopt", "live", m)
    /\ place' = [place EXCEPT ![s] = "live"]
    /\ UNCHANGED <<path, logs, meta, guard, self, ghost>>

(* --- opening a session ------------------------------------------------------ *)

OpenLog(p) ==
    LET s == job[p].id IN
    /\ job[p].at = "open"
    /\ \/ /\ Reached(p)
          /\ Creates(s)
          /\ logs' = Filled(s)
          /\ job' = [job EXCEPT ![p].at = "lock", ![p].log = Opens(s)]
          /\ ghost' = [ghost EXCEPT !.raced = @ \/ InGap(s)]
          /\ UNCHANGED <<place, meta, guard, self, left>>
       \/ ~Reached(p) /\ Fails(p)

LockLog(p) ==
    /\ job[p].at = "lock"
    /\ \/ /\ logs[job[p].log].holder = Nothing
          /\ logs' = HeldBy(job[p].log, p)
          /\ Goes(p, "restore")
          /\ UNCHANGED <<place, path, meta, guard, self, left, ghost>>
       \/ logs[job[p].log].holder # Nothing /\ Fails(p)

(* Bug: the cache is believed before the log.                                 *)
ResolvedFromCache(explicit, logged, cached) ==
    CASE explicit # Nothing -> explicit
      [] explicit = Nothing /\ cached # Nothing -> cached.model
      [] explicit = Nothing /\ cached = Nothing /\ logged # Nothing -> logged
      [] OTHER -> DefaultModel

(* The model a session is opened with: the one asked for, else what its log   *)
(* says, else its cache, else the default.                                    *)
Resolved(explicit, logged, cached) ==
    CASE explicit # Nothing -> explicit
      [] explicit = Nothing /\ logged # Nothing -> logged
      [] explicit = Nothing /\ logged = Nothing /\ cached # Nothing -> cached.model
      [] OTHER -> DefaultModel

(* A log without typed records is a new session's: its cache is not read.     *)
Restore(p) ==
    LET log == logs[job[p].log]
        cached == IF log.typed /\ Reached(p) THEN meta[job[p].id] ELSE Nothing
        model == Resolved(job[p].value, log.model, cached)
    IN
    /\ job[p].at = "restore"
    /\ self' = [self EXCEPT ![p].cwd = job[p].id]
    /\ job' = [job EXCEPT ![p].value = model,
                          ![p].asked = job[p].value # Nothing \/ log.model = Nothing,
                          ![p].at = IF model = log.model THEN "guard" ELSE "append"]
    /\ UNCHANGED <<place, path, logs, meta, guard, left, ghost>>

(* The setting's record; without it a switch fails and a running session is   *)
(* given up.                                                                  *)
AppendSetting(p) ==
    LET i == IF job[p].cmd = "set" THEN self[p].log ELSE job[p].log IN
    /\ job[p].at = "append"
    /\ \/ /\ logs' = [logs EXCEPT ![i].typed = TRUE, ![i].model = job[p].value]
          /\ Goes(p, "guard")
          /\ ghost' = [ghost EXCEPT !.chosen[job[p].id] =
                            IF job[p].cmd = "set" \/ job[p].asked THEN job[p].value ELSE @,
                                    !.behind[job[p].id] = TRUE]
          /\ UNCHANGED <<place, path, meta, guard, self, left>>
       \/ "append" \in Faults /\ job[p].cmd = "set" /\ Gone(p)
       \/ "append" \in Faults /\ job[p].cmd = "open" /\ Fails(p)

(* The switch is done: the old session's log is closed, the new one's kept.   *)
Commits(p) ==
    LET old == self[p].log IN
    /\ logs' = IF old = 0 THEN logs ELSE HeldBy(old, Nothing)
    /\ self' = [self EXCEPT ![p] = [session |-> job[p].id, log |-> job[p].log,
                                    model |-> job[p].value, cwd |-> job[p].id]]

(* How a command that kept or skipped the cache goes on.                      *)
AfterCache(p) ==
    /\ job' = [job EXCEPT ![p] = Idle]
    /\ CASE job[p].cmd = "open" -> Commits(p)
         [] job[p].cmd = "set" ->
              self' = [self EXCEPT ![p].model = job[p].value] /\ UNCHANGED logs
         [] OTHER -> UNCHANGED <<self, logs>>

(* --- the metadata cache ------------------------------------------------------ *)

(* Bug: the lock is taken whoever has it.                                     *)
LockCacheUnheeded(p) ==
    /\ job[p].at = "guard"
    /\ IF Reached(p)
       THEN Goes(p, "read") /\ UNCHANGED <<logs, self>>
       ELSE AfterCache(p)
    /\ UNCHANGED <<place, path, meta, guard, left, ghost>>

(* Waits for the lock beside the file. Where the directory is gone a refresh  *)
(* is skipped and a rename fails.                                             *)
LockCache(p) ==
    LET s == job[p].id IN
    /\ job[p].at = "guard"
    /\ \/ /\ Reached(p) /\ guard[s] = Nothing
          /\ guard' = [guard EXCEPT ![s] = p]
          /\ Goes(p, "read")
          /\ UNCHANGED <<place, path, logs, meta, self, left, ghost>>
       \/ /\ ~Reached(p)
          /\ AfterCache(p)
          /\ UNCHANGED <<place, path, meta, guard, left, ghost>>

(* A refresh carries the name forward and a rename the model; a rename that   *)
(* finds no cache asks the log.                                               *)
ReadCache(p) ==
    LET cached == IF Reached(p) THEN meta[job[p].id] ELSE Nothing
        name == IF cached = Nothing THEN Nothing ELSE cached.name
    IN
    /\ job[p].at = "read"
    /\ \/ /\ job[p].cmd \in {"open", "set"}
          /\ job' = [job EXCEPT ![p].at = "write",
                                ![p].cache = [model |-> job[p].value, name |-> name]]
       \/ /\ job[p].cmd = "rename" /\ cached # Nothing
          /\ job' = [job EXCEPT ![p].at = "write",
                                ![p].cache = [model |-> cached.model, name |-> job[p].value]]
       \/ /\ job[p].cmd = "rename" /\ cached = Nothing
          /\ Goes(p, "rebuild")
    /\ UNCHANGED <<place, path, logs, meta, guard, self, left, ghost>>

(* The log is opened and locked as by any other open of it, or left alone.    *)
Rebuild(p) ==
    LET s == job[p].id IN
    /\ job[p].at = "rebuild"
    /\ \/ /\ Reached(p) /\ ~ProbeBusy(s)
          /\ Creates(s)
          /\ logs' = [Filled(s) EXCEPT ![Opens(s)].holder = p]
          /\ job' = [job EXCEPT ![p].at = "replay", ![p].log = Opens(s)]
          /\ UNCHANGED <<place, meta, guard, self, left, ghost>>
       \/ (Reached(p) => ProbeBusy(s)) /\ Fails(p)

(* Bug: a rename takes what the log says, even if it says nothing.            *)
RebuiltUnchecked(p) ==
    LET model == logs[job[p].log].model IN
    /\ job[p].at = "replay"
    /\ \/ /\ job[p].cmd = "rename"
          /\ logs' = HeldBy(job[p].log, Nothing)
          /\ job' = [job EXCEPT ![p].at = "write", ![p].log = 0,
                                ![p].cache = [model |-> model, name |-> job[p].value]]
          /\ UNCHANGED <<place, path, meta, guard, self, left, ghost>>
       \/ job[p].cmd # "rename" /\ Fails(p)

Rebuilt(p) ==
    LET model == logs[job[p].log].model IN
    /\ job[p].at = "replay"
    /\ \/ /\ job[p].cmd = "rename" /\ model # Nothing
          /\ logs' = HeldBy(job[p].log, Nothing)
          /\ job' = [job EXCEPT ![p].at = "write", ![p].log = 0,
                                ![p].cache = [model |-> model, name |-> job[p].value]]
          /\ UNCHANGED <<place, path, meta, guard, self, left, ghost>>
       \/ (job[p].cmd = "rename" => model = Nothing) /\ Fails(p)

(* Bug: a rename that is done keeps the lock.                                 *)
ReleasedUnlessRename(p) ==
    guard' = IF job[p].cmd = "rename" THEN guard
             ELSE [guard EXCEPT ![job[p].id] = IF @ = p THEN Nothing ELSE @]

Released(p) == guard' = [guard EXCEPT ![job[p].id] = IF @ = p THEN Nothing ELSE @]

(* The temporary file is written; it becomes the cache by a rename. A cache   *)
(* that cannot be written ends the command and undoes nothing.                *)
WriteCache(p) ==
    /\ job[p].at = "write"
    /\ \/ Reached(p) /\ Goes(p, "publish") /\ UNCHANGED <<logs, guard, self>>
       \/ /\ ~Reached(p) \/ "cache" \in Faults
          /\ AfterCache(p)
          /\ Released(p)
    /\ UNCHANGED <<place, path, meta, left, ghost>>

Publish(p) ==
    LET s == job[p].id IN
    /\ job[p].at = "publish"
    /\ AfterCache(p)
    /\ Released(p)
    /\ \/ /\ Reached(p)
          /\ meta' = [meta EXCEPT ![s] = job[p].cache]
          /\ ghost' = [ghost EXCEPT
                !.named[s] = IF job[p].cmd = "rename" THEN job[p].value ELSE @,
                !.behind[s] = IF job[p].cmd = "rename" THEN @ ELSE FALSE]
       \/ ~Reached(p) /\ UNCHANGED <<meta, ghost>>
    /\ UNCHANGED <<place, path, left>>

(* --- moving, removing, adopting ---------------------------------------------- *)

Move(p) ==
    /\ job[p].at = "move"
    /\ place' = IF Reached(p)
                THEN [place EXCEPT ![job[p].id] = IF @ = "live" THEN "trash" ELSE "live"]
                ELSE place
    /\ job' = [job EXCEPT ![p] = Idle]
    /\ UNCHANGED <<path, logs, meta, guard, self, left, ghost>>

(* The lock file goes too: who has it locked no longer excludes anyone.       *)
Unlink(p) ==
    LET s == job[p].id IN
    /\ job[p].at = "unlink"
    /\ \/ /\ Reached(p)
          /\ path' = [path EXCEPT ![s] = 0]
          /\ meta' = [meta EXCEPT ![s] = Nothing]
          /\ guard' = [guard EXCEPT ![s] = Nothing]
          /\ ghost' = [ghost EXCEPT !.chosen[s] = Nothing, !.named[s] = Nothing,
                                    !.behind[s] = FALSE]
          /\ Goes(p, "rmdir")
          /\ UNCHANGED <<place, logs, self, left>>
       \/ ~Reached(p) /\ Fails(p)

(* A directory that has a file again, made by a listing, stays.               *)
RemoveDirectory(p) ==
    LET s == job[p].id IN
    /\ job[p].at = "rmdir"
    /\ place' = IF Reached(p) /\ path[s] = 0 THEN [place EXCEPT ![s] = "gone"] ELSE place
    /\ job' = [job EXCEPT ![p] = Idle]
    /\ UNCHANGED <<path, logs, meta, guard, self, left, ghost>>

(* The copy becomes the log of the new directory, whatever log it has by now. *)
Adopt(p) ==
    LET s == job[p].id IN
    /\ job[p].at = "adopt"
    /\ \/ /\ Reached(p) /\ Len(logs) < MaxLogs
          /\ logs' = Append(logs, Log(TRUE, job[p].value))
          /\ path' = [path EXCEPT ![s] = Len(logs) + 1]
          /\ ghost' = [ghost EXCEPT !.chosen[s] = job[p].value]
          /\ job' = [job EXCEPT ![p] = Idle]
          /\ UNCHANGED <<place, meta, guard, self, left>>
       \/ ~Reached(p) /\ Fails(p)

(* --- the specification -------------------------------------------------------- *)

Command(p) ==
    \E s \in Session :
        \/ \E m \in Model \union {Nothing} : Switch(p, s, m)
        \/ NewSession(p, s)
        \/ \E n \in Name : Rename(p, s, n)
        \/ List(p, s)
        \/ Trash(p, s)
        \/ RestoreTrashed(p, s)
        \/ Delete(p, s)
        \/ \E m \in Model \union {Nothing} : Import(p, s, m)

Step(p) ==
    \/ OpenLog(p) \/ LockLog(p) \/ Restore(p) \/ AppendSetting(p)
    \/ LockCache(p) \/ ReadCache(p) \/ Rebuild(p) \/ Rebuilt(p)
    \/ WriteCache(p) \/ Publish(p)
    \/ Move(p) \/ Unlink(p) \/ RemoveDirectory(p) \/ Adopt(p)

(* A process exits between commands, and dies anywhere.                       *)
Exit(p) ==
    /\ self[p].session # Nothing \/ job[p].at # "idle"
    /\ job[p].at # "idle" => "kill" \in Faults
    /\ Gone(p)

Next ==
    \E p \in Process : \/ Command(p)
                       \/ \E m \in Model : SetModel(p, m)
                       \/ Step(p)
                       \/ Exit(p)

(* A process in a command goes on with it.                                    *)
Spec == Init /\ [][Next]_vars /\ \A p \in Process : WF_vars(Step(p))

(* --- properties ------------------------------------------------------------- *)

TypeOK ==
    /\ place \in [Session -> Places]
    /\ path \in [Session -> 0 .. Len(logs)]
    /\ Len(logs) <= MaxLogs
    /\ \A i \in DOMAIN logs :
          logs[i] \in [typed: BOOLEAN, model: Model \union {Nothing},
                       holder: Process \union {Nothing}]
    /\ meta \in [Session -> [model: Model, name: Name \union {Nothing}] \union {Nothing}]
    /\ guard \in [Session -> Process \union {Nothing}]
    /\ self \in [Process -> [session: Session \union {Nothing}, log: 0 .. Len(logs),
                             model: Model, cwd: Session \union {Nothing}]]
    /\ left \in 0 .. MaxCommands
    /\ ghost \in Ghosts

(* The model a user chose for a session is the one in its log, and the one a  *)
(* process on it works with, until the session is deleted: whatever the cache *)
(* says, whoever dies, and wherever the directory is moved. Only a process    *)
(* that slips between open and lock while the session is deleted, or between  *)
(* mkdir and adoption of an import, is not protected.                         *)
ChoiceIsKept ==
    ~ghost.raced =>
        /\ \A s \in Session :
              path[s] # 0 /\ ghost.chosen[s] # Nothing
              => logs[path[s]].model = ghost.chosen[s]
        /\ \A p \in Process :
              self[p].session # Nothing /\ job[p].at = "idle"
              => self[p].model = logs[self[p].log].model /\ self[p].log = path[self[p].session]

(* The cache is the merge of two writers: it has the name the last rename     *)
(* gave, never one a refresh took back, and the model of the log unless the   *)
(* refresh that mirrors it has not come yet or was given up; unless a process *)
(* slipped into one of the gaps that ChoiceIsKept excuses.                    *)
CacheIsMerged ==
    ~ghost.raced =>
        \A s \in Session :
            meta[s] # Nothing =>
                /\ meta[s].name = ghost.named[s]
                /\ ~ghost.behind[s] => meta[s].model = logs[path[s]].model

(* Between commands a process has locked exactly the log of the session it is *)
(* on, stands in the directory of that session and holds no metadata lock:    *)
(* a switch happens as a whole or leaves the old session as it was.           *)
SwitchIsWhole ==
    \A p \in Process :
        job[p].at = "idle" =>
            /\ {i \in DOMAIN logs : logs[i].holder = p} = {self[p].log} \ {0}
            /\ self[p].cwd = self[p].session
            /\ p \notin {guard[s] : s \in Session}

(* Every command comes to its end: no process waits for the metadata lock for *)
(* ever, whoever failed or died with it.                                      *)
CommandEnds == \A p \in Process : job[p].at # "idle" ~> job[p].at = "idle"

==============================================================================
