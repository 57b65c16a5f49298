---------------------------- MODULE SessionsProofs ----------------------------
(***************************************************************************)
(* What holds of any number of processes on any number of sessions: the    *)
(* types, and that between two commands a process has locked the log of    *)
(* its session and nothing else.                                           *)
(***************************************************************************)
EXTENDS Sessions, SequenceTheorems, TLAPS

Stage == {"idle", "open", "lock", "restore", "append", "guard", "read", "rebuild",
          "replay", "write", "publish", "move", "unlink", "rmdir", "adopt"}

LogFile == [typed: BOOLEAN, model: Model \union {Nothing},
            holder: Process \union {Nothing}]
Cache   == [model: Model, name: Name \union {Nothing}]
Self    == [session: Session \union {Nothing}, log: Nat, model: Model,
            cwd: Session \union {Nothing}]
Job     == [at: Stage,
            cmd: {Nothing, "open", "set", "rename", "list", "trash", "restore",
                  "delete", "import"},
            id: Session \union {Nothing}, in: {"live", "trash"},
            value: Model \union Name \union {Nothing}, asked: BOOLEAN,
            log: Nat, cache: Cache \union {Nothing}]

(* TypeOK with the type of the commands, which it does not mention.         *)
Types ==
    /\ place \in [Session -> Places]
    /\ path \in [Session -> Nat]
    /\ logs \in Seq(LogFile)
    /\ meta \in [Session -> Cache \union {Nothing}]
    /\ guard \in [Session -> Process \union {Nothing}]
    /\ self \in [Process -> Self]
    /\ job \in [Process -> Job]
    /\ left \in 0 .. MaxCommands
    /\ ghost \in Ghosts

(* The logs that are named exist.                                           *)
Named ==
    /\ Len(logs) <= MaxLogs
    /\ \A s \in Session : path[s] <= Len(logs)
    /\ \A p \in Process :
          /\ self[p].log <= Len(logs) /\ job[p].log <= Len(logs)
          /\ self[p].session # Nothing => self[p].log # 0

(* What the place in a command says of the command, j, and of its process,  *)
(* m.                                                                       *)
FitsIn(j, m) ==
    IF j.at = "idle" THEN j = Idle ELSE
    /\ j.id \in Session
    /\ j.at \in {"open", "lock", "restore"} => j.cmd = "open"
    /\ j.at = "append" => j.cmd \in {"open", "set"}
    /\ j.at \in {"guard", "read", "write", "publish"} => j.cmd \in {"open", "set", "rename"}
    /\ j.at \in {"rebuild", "replay"} => j.cmd \in {"rename", "list"}
    /\ j.at \in {"move", "unlink", "rmdir"} => j.cmd \in {"trash", "restore", "delete"}
    /\ j.at = "adopt" => j.cmd = "import"
    /\ j.cmd = "set" => m.session # Nothing
    /\ j.cmd \in {"open", "import"} => j.value \in Model \union {Nothing}
    /\ j.cmd = "rename" => j.value \in Name
    /\ j.cmd \in {"open", "set"} /\ j.at \notin {"open", "lock", "restore"}
          => j.value \in Model
    /\ j.at \in {"write", "publish"} => j.cache \in Cache
    /\ j.log # 0 <=> \/ j.cmd = "open" /\ j.at # "open"
                     \/ j.at = "replay"

(* The working directory is the session's, except in the later part of an   *)
(* open.                                                                    *)
StandsIn(j, m) ==
    \/ j.at \notin {"idle", "open", "lock"} /\ j.cmd = "open"
    \/ m.cwd = m.session

(* The logs a process has locked: its session's, and its command's, never   *)
(* the same.                                                                *)
LockedIn(j, m) == {m.log} \union (IF j.at = "lock" THEN {} ELSE {j.log})

ApartIn(j, m) == j.at # "lock" /\ j.log # 0 => j.log # m.log

Sound(j, m) == FitsIn(j, m) /\ StandsIn(j, m) /\ ApartIn(j, m)

(* A metadata lock is held by a command on that session only.               *)
Guards ==
    \A s \in Session, p \in Process :
        guard[s] = p => /\ job[p].at \in {"read", "rebuild", "replay", "write", "publish"}
                        /\ job[p].id = s

Locks ==
    \A i \in 1 .. Len(logs), p \in Process :
        logs[i].holder = p <=> i \in LockedIn(job[p], self[p])

IInv ==
    /\ Types
    /\ Named
    /\ \A p \in Process : Sound(job[p], self[p])
    /\ Guards
    /\ Locks

(* The invariant but for the variables whose types are all it says of them.  *)
Core ==
    /\ logs \in Seq(LogFile)
    /\ self \in [Process -> Self]
    /\ job \in [Process -> Job]
    /\ Named
    /\ \A p \in Process : Sound(job[p], self[p])
    /\ Guards
    /\ Locks

-----------------------------------------------------------------------------
LEMMA Apart == Nothing \notin Process /\ Nothing \notin Session /\ Nothing \notin Model
  BY SessionsAssumption

HeldIn(ls, i, h) == [ls EXCEPT ![i].holder = h]

(* Replacing the holder of one log.                                          *)
LEMMA HeldByLogs ==
    ASSUME NEW ls \in Seq(LogFile), NEW i \in 1 .. Len(ls),
           NEW h \in Process \union {Nothing}
    PROVE  /\ HeldIn(ls, i, h) \in Seq(LogFile)
           /\ Len(HeldIn(ls, i, h)) = Len(ls)
           /\ \A k \in 1 .. Len(ls) :
                 HeldIn(ls, i, h)[k].holder = IF k = i THEN h ELSE ls[k].holder
  <1>1. ls[i] \in LogFile
    BY ElementOfSeq
  <1>2. [ls[i] EXCEPT !.holder = h] \in LogFile /\ [ls[i] EXCEPT !.holder = h].holder = h
    BY <1>1 DEF LogFile
  <1>3. /\ HeldIn(ls, i, h) \in Seq(LogFile)
        /\ Len(HeldIn(ls, i, h)) = Len(ls)
        /\ \A k \in 1 .. Len(ls) :
              HeldIn(ls, i, h)[k] = IF k = i THEN [ls[i] EXCEPT !.holder = h] ELSE ls[k]
    BY <1>2, ExceptSeq DEF HeldIn
  <1> QED
    BY <1>2, <1>3

(* A function on the indices of the logs is a sequence.                      *)
LEMMA MappedLogs ==
    ASSUME NEW ls \in Seq(LogFile), NEW f \in [DOMAIN ls -> LogFile]
    PROVE  f \in Seq(LogFile) /\ Len(f) = Len(ls)
  <1>1. DOMAIN ls = 1 .. Len(ls) /\ Len(ls) \in Nat
    BY LenProperties
  <1>2. f \in [1 .. Len(ls) -> LogFile]
    BY <1>1
  <1>3. f \in Seq(LogFile)
    BY <1>1, <1>2, SeqDef
  <1>4. DOMAIN f = 1 .. Len(f) /\ Len(f) \in Nat
    BY <1>3, LenProperties
  <1> QED
    BY <1>1, <1>2, <1>3, <1>4

-----------------------------------------------------------------------------
(* The step gives no metadata lock to another process, and to p only the     *)
(* one its command, j, needs; or none to p either.                           *)
KeepsGuards(p, j) ==
    /\ \A s \in Session, q \in Process \ {p} : guard'[s] = q => guard[s] = q
    /\ \A s \in Session : guard'[s] = p =>
           /\ j.at \in {"read", "rebuild", "replay", "write", "publish"}
           /\ j.id = s

DropsGuards(p) ==
    /\ \A s \in Session, q \in Process \ {p} : guard'[s] = q => guard[s] = q
    /\ \A s \in Session : guard'[s] # p

LEMMA Dropping ==
    ASSUME NEW p \in Process, NEW j, DropsGuards(p)
    PROVE  KeepsGuards(p, j)
  BY DEF DropsGuards, KeepsGuards

(* What a step of p leaves to be shown: the parts of the invariant for p     *)
(* itself, and that it touches no lock of another process.                   *)
LEMMA StepSound ==
    ASSUME IInv, NEW p \in Process, NEW j \in Job, NEW m \in Self,
           job' = [job EXCEPT ![p] = j], self' = [self EXCEPT ![p] = m],
           Sound(j, m)
    PROVE  /\ job' \in [Process -> Job] /\ self' \in [Process -> Self]
           /\ job'[p] = j /\ self'[p] = m
           /\ \A q \in Process \ {p} : job'[q] = job[q] /\ self'[q] = self[q]
           /\ \A q \in Process : Sound(job'[q], self'[q])
  <1>1. job \in [Process -> Job] /\ self \in [Process -> Self]
    BY DEF IInv, Types
  <1>2. /\ job' \in [Process -> Job] /\ self' \in [Process -> Self]
        /\ job'[p] = j /\ self'[p] = m
        /\ \A q \in Process \ {p} : job'[q] = job[q] /\ self'[q] = self[q]
    BY <1>1
  <1> QED
    BY <1>2 DEF IInv

LEMMA StepNamed ==
    ASSUME IInv, NEW p \in Process, NEW j \in Job, NEW m \in Self,
           job' = [job EXCEPT ![p] = j], self' = [self EXCEPT ![p] = m],
           Sound(j, m), Len(logs') \in Nat,
           Len(logs) <= Len(logs'), Len(logs') <= MaxLogs,
           \A s \in Session : path'[s] <= Len(logs'),
           j.log <= Len(logs'), m.log <= Len(logs'),
           m.session # Nothing => m.log # 0
    PROVE  Named'
  <1>1. /\ job'[p] = j /\ self'[p] = m
        /\ \A q \in Process \ {p} : job'[q] = job[q] /\ self'[q] = self[q]
    BY StepSound
  <1>2. \A q \in Process : job[q].log \in Nat /\ self[q].log \in Nat
    BY DEF IInv, Types, Job, Self
  <1>3. Len(logs) \in Nat
    BY LenProperties DEF IInv, Types
  <1> QED
    BY <1>1, <1>2, <1>3 DEF IInv, Named

LEMMA StepGuards ==
    ASSUME IInv, NEW p \in Process, NEW j \in Job, NEW m \in Self,
           job' = [job EXCEPT ![p] = j], self' = [self EXCEPT ![p] = m],
           Sound(j, m), KeepsGuards(p, j)
    PROVE  Guards'
  <1>1. /\ job'[p] = j
        /\ \A q \in Process \ {p} : job'[q] = job[q]
    BY StepSound
  <1> QED
    BY <1>1 DEF IInv, Guards, KeepsGuards

LEMMA StepLocks ==
    ASSUME IInv, NEW p \in Process, NEW j \in Job, NEW m \in Self,
           job' = [job EXCEPT ![p] = j], self' = [self EXCEPT ![p] = m],
           Sound(j, m), Len(logs') \in Nat, Len(logs) <= Len(logs'),
           \A i \in 1 .. Len(logs'), q \in Process \ {p} :
               logs'[i].holder = q <=> i <= Len(logs) /\ logs[i].holder = q,
           \A i \in 1 .. Len(logs') : logs'[i].holder = p <=> i \in LockedIn(j, m)
    PROVE  Locks'
  <1>1. /\ job'[p] = j /\ self'[p] = m
        /\ \A q \in Process \ {p} : job'[q] = job[q] /\ self'[q] = self[q]
    BY StepSound
  <1>2. \A q \in Process : job[q].log \in 0 .. Len(logs) /\ self[q].log \in 0 .. Len(logs)
    BY LenProperties DEF IInv, Types, Named, Job, Self
  <1>3. Len(logs) \in Nat
    BY LenProperties DEF IInv, Types
  <1>4. ASSUME NEW q \in Process, NEW i \in 1 .. Len(logs')
        PROVE  logs'[i].holder = q <=> i \in LockedIn(job'[q], self'[q])
    <2>1. CASE q = p
      BY <1>1, <2>1
    <2>2. CASE q # p /\ i <= Len(logs)
      BY <1>1, <1>3, <2>2 DEF IInv, Locks
    <2>3. CASE q # p /\ ~(i <= Len(logs))
      BY <1>1, <1>2, <1>3, <2>3 DEF LockedIn
    <2> QED
      BY <2>1, <2>2, <2>3
  <1> QED
    BY <1>4 DEF Locks

(* A step that leaves all logs, and the process but for its command, alone.  *)
LEMMA QuietStep ==
    ASSUME IInv, NEW p \in Process, NEW j \in Job,
           job' = [job EXCEPT ![p] = j], UNCHANGED <<logs, self>>,
           Sound(j, self[p]), \A s \in Session : path'[s] \in {0, path[s]},
           LockedIn(j, self[p]) \ {0} = LockedIn(job[p], self[p]) \ {0},
           j.log <= Len(logs),
           KeepsGuards(p, j)
    PROVE  /\ Named' /\ Guards' /\ Locks'
           /\ job' \in [Process -> Job]
           /\ \A q \in Process : Sound(job'[q], self'[q])
  <1>1. self' = [self EXCEPT ![p] = self[p]] /\ self[p] \in Self
    BY DEF IInv, Types
  <1>2. Len(logs) \in Nat
    BY LenProperties DEF IInv, Types
  <1>3. Named'
    <2>1. /\ \A s \in Session : path'[s] <= Len(logs')
          /\ self[p].log <= Len(logs') /\ Len(logs') <= MaxLogs
          /\ self[p].session # Nothing => self[p].log # 0
      BY <1>2 DEF IInv, Named
    <2>2. Len(logs') \in Nat /\ Len(logs) <= Len(logs') /\ j.log <= Len(logs')
      BY <1>2
    <2> QED
      BY <1>1, <2>1, <2>2, StepNamed
  <1>4. Guards'
    BY <1>1, StepGuards
  <1>5. Locks'
    <2>1. \A i \in 1 .. Len(logs') : logs'[i].holder = p <=> i \in LockedIn(j, self[p])
      BY <1>2 DEF IInv, Locks
    <2>2. /\ Len(logs') \in Nat /\ Len(logs) <= Len(logs')
          /\ \A i \in 1 .. Len(logs'), q \in Process \ {p} :
                logs'[i].holder = q <=> i <= Len(logs) /\ logs[i].holder = q
      BY <1>2
    <2> QED
      BY <1>1, <2>1, <2>2, StepLocks
  <1> QED
    BY <1>1, <1>3, <1>4, <1>5, StepSound

-----------------------------------------------------------------------------
(* The commands' first steps.                                                *)
LEMMA StartsStep ==
    ASSUME IInv, NEW p \in Process, NEW cmd, NEW s \in Session, NEW at, NEW in, NEW value,
           Starts(p, cmd, s, at, in, value), UNCHANGED <<path, logs, meta, guard, self>>,
           place' \in [Session -> Places], ghost' \in Ghosts,
           in \in {"live", "trash"},
           \/ cmd = "open" /\ at = "open" /\ value \in Model \union {Nothing}
           \/ cmd = "set" /\ at = "append" /\ value \in Model /\ self[p].session # Nothing
           \/ cmd = "rename" /\ at = "guard" /\ value \in Name
           \/ cmd = "list" /\ at = "rebuild" /\ value = Nothing
           \/ cmd \in {"trash", "restore"} /\ at = "move" /\ value = Nothing
           \/ cmd = "delete" /\ at = "unlink" /\ value = Nothing
           \/ cmd = "import" /\ at = "adopt" /\ value \in Model \union {Nothing}
    PROVE  IInv'
  <1> DEFINE j == [Idle EXCEPT !.at = at, !.cmd = cmd, !.id = s, !.in = in, !.value = value]
  <1>1. /\ j.at = at /\ j.cmd = cmd /\ j.id = s /\ j.in = in /\ j.value = value
        /\ j.log = 0
    BY DEF Idle
  <1>2. j \in Job
    BY DEF Idle, Job, Stage
  <1>3. job' = [job EXCEPT ![p] = j] /\ job[p].at = "idle" /\ left > 0 /\ left' = left - 1
    BY DEF Starts
  <1>4. job[p] = Idle /\ self[p].cwd = self[p].session
    BY <1>3 DEF IInv, Sound, FitsIn, StandsIn
  <1> HIDE DEF j
  <1>5. Sound(j, self[p])
    BY <1>1, <1>4 DEF Sound, FitsIn, StandsIn, ApartIn
  <1>6. LockedIn(j, self[p]) \ {0} = LockedIn(job[p], self[p]) \ {0}
    BY <1>1, <1>4 DEF LockedIn, Idle
  <1>7. \A x \in Session : guard[x] # p
    BY <1>3 DEF IInv, Guards
  <1>8. Len(logs) \in Nat
    BY LenProperties DEF IInv, Types
  <1>9. /\ Named' /\ Guards' /\ Locks'
        /\ job' \in [Process -> Job]
        /\ \A q \in Process : Sound(job'[q], self'[q])
    <2>1. j.log <= Len(logs)
      BY <1>1, <1>8
    <2>2. /\ \A x \in Session : path'[x] \in {0, path[x]}
          /\ KeepsGuards(p, j)
      BY <1>7 DEF KeepsGuards
    <2> QED
      BY <1>2, <1>3, <1>5, <1>6, <2>1, <2>2, QuietStep
  <1>10. left' \in 0 .. MaxCommands
    BY <1>3, SessionsAssumption DEF IInv, Types
  <1> QED
    BY <1>9, <1>10 DEF IInv, Types

LEMMA CommandStep ==
    ASSUME IInv, NEW p \in Process, Command(p) \/ \E m \in Model : SetModel(p, m)
    PROVE  IInv'
  <1>1. place \in [Session -> Places] /\ ghost \in Ghosts
    BY DEF IInv, Types
  <1>2. ASSUME NEW s \in Session, NEW b \in BOOLEAN
        PROVE  [ghost EXCEPT !.raced = @ \/ b] \in Ghosts
    BY <1>1 DEF Ghosts
  <1>3. ASSUME NEW s \in Session
        PROVE  [place EXCEPT ![s] = "live"] \in [Session -> Places]
    BY <1>1 DEF Places
  <1>4. ASSUME NEW s \in Session
        PROVE  InGap(s) \in BOOLEAN /\ Unseen(s) \in BOOLEAN
    BY DEF InGap, Unseen
  <1>5. ASSUME NEW s \in Session, NEW m \in Model \union {Nothing}, Switch(p, s, m)
        PROVE  IInv'
    BY <1>1, <1>5, StartsStep DEF Switch
  <1>6. ASSUME NEW s \in Session, NewSession(p, s) PROVE IInv'
    BY <1>1, <1>3, <1>6, StartsStep DEF NewSession
  <1>7. ASSUME NEW s \in Session, NEW n \in Name, Rename(p, s, n) PROVE IInv'
    BY <1>1, <1>2, <1>4, <1>7, StartsStep DEF Rename
  <1>8. ASSUME NEW s \in Session, List(p, s) PROVE IInv'
    BY <1>1, <1>8, StartsStep DEF List
  <1>9. ASSUME NEW s \in Session, Trash(p, s) \/ RestoreTrashed(p, s) \/ Delete(p, s)
        PROVE  IInv'
    BY <1>1, <1>2, <1>4, <1>9, StartsStep DEF Trash, RestoreTrashed, Delete
  <1>10. ASSUME NEW s \in Session, NEW m \in Model \union {Nothing}, Import(p, s, m)
         PROVE  IInv'
    BY <1>1, <1>3, <1>10, StartsStep DEF Import
  <1>11. ASSUME NEW m \in Model, SetModel(p, m) PROVE IInv'
    <2>1. self[p].session \in Session
      BY <1>11 DEF SetModel, IInv, Types, Self
    <2> QED
      BY <1>1, <1>11, <2>1, StartsStep DEF SetModel
  <1> QED
    BY <1>5, <1>6, <1>7, <1>8, <1>9, <1>10, <1>11 DEF Command

-----------------------------------------------------------------------------
(* Commands that end, processes that end.                                    *)
LEMMA IdleIsSound ==
    ASSUME NEW m, m.cwd = m.session
    PROVE  Idle \in Job /\ Sound(Idle, m) /\ Idle.at = "idle" /\ Idle.log = 0
  BY DEF Idle, Job, Stage, Sound, FitsIn, StandsIn, ApartIn

(* The logs with those unlocked that p has locked, all but one.              *)
FreedBut(p, keep) ==
    [i \in DOMAIN logs |->
        IF i # keep /\ logs[i].holder = p THEN Log(logs[i].typed, logs[i].model)
        ELSE logs[i]]

LEMMA Freed ==
    ASSUME IInv, NEW p \in Process, NEW keep, logs' = FreedBut(p, keep)
    PROVE  /\ logs' \in Seq(LogFile) /\ Len(logs') = Len(logs) /\ Len(logs) \in Nat
           /\ \A i \in 1 .. Len(logs) :
                 logs'[i].holder = p <=> i = keep /\ logs[i].holder = p
           /\ \A i \in 1 .. Len(logs), q \in Process \ {p} :
                 logs'[i].holder = q <=> logs[i].holder = q
  <1>1. logs \in Seq(LogFile) /\ DOMAIN logs = 1 .. Len(logs) /\ Len(logs) \in Nat
    BY LenProperties DEF IInv, Types
  <1>2. ASSUME NEW i \in 1 .. Len(logs)
        PROVE  /\ logs[i] \in LogFile
               /\ Log(logs[i].typed, logs[i].model) \in LogFile
               /\ Log(logs[i].typed, logs[i].model).holder = Nothing
    BY <1>1, ElementOfSeq DEF LogFile, Log
  <1>3. logs' \in [DOMAIN logs -> LogFile]
    BY <1>1, <1>2 DEF FreedBut
  <1>4. logs' \in Seq(LogFile) /\ Len(logs') = Len(logs)
    BY <1>1, <1>3, MappedLogs
  <1>5. ASSUME NEW i \in 1 .. Len(logs)
        PROVE  /\ logs'[i].holder = p <=> i = keep /\ logs[i].holder = p
               /\ \A q \in Process \ {p} : logs'[i].holder = q <=> logs[i].holder = q
    <2>1. CASE i # keep /\ logs[i].holder = p
      <3>1. logs'[i].holder = Nothing
        BY <1>1, <1>2, <2>1 DEF FreedBut
      <3> QED
        BY <2>1, <3>1, Apart
    <2>2. CASE ~(i # keep /\ logs[i].holder = p)
      <3>1. logs'[i] = logs[i]
        BY <1>1, <2>2 DEF FreedBut
      <3> QED
        BY <2>2, <3>1
    <2> QED
      BY <2>1, <2>2
  <1> QED
    BY <1>1, <1>4, <1>5

Unguarded(p) == [s \in Session |-> IF guard[s] = p THEN Nothing ELSE guard[s]]

(* The process is left with the session of m, and the lock of its log.       *)
LEMMA EndsWith ==
    ASSUME IInv, NEW p \in Process, NEW m \in Self,
           job' = [job EXCEPT ![p] = Idle], self' = [self EXCEPT ![p] = m],
           path' = path, m.cwd = m.session,
           \/ m.log = self[p].log /\ m.session = self[p].session
           \/ m.log = 0 /\ m.session = Nothing,
           logs' = FreedBut(p, m.log),
           guard' = Unguarded(p)
    PROVE  Core' /\ guard' \in [Session -> Process \union {Nothing}]
  <1>1. /\ logs' \in Seq(LogFile) /\ Len(logs') = Len(logs) /\ Len(logs) \in Nat
        /\ \A i \in 1 .. Len(logs) :
              logs'[i].holder = p <=> i = m.log /\ logs[i].holder = p
        /\ \A i \in 1 .. Len(logs), q \in Process \ {p} :
              logs'[i].holder = q <=> logs[i].holder = q
    BY Freed
  <1>2. Idle \in Job /\ Sound(Idle, m) /\ Idle.at = "idle" /\ Idle.log = 0
    BY IdleIsSound
  <1>3. /\ job' \in [Process -> Job] /\ self' \in [Process -> Self]
        /\ \A q \in Process : Sound(job'[q], self'[q])
    BY <1>2, StepSound
  <1>4. Named'
    <2>1. /\ \A s \in Session : path'[s] <= Len(logs')
          /\ Len(logs') \in Nat /\ Len(logs) <= Len(logs') /\ Len(logs') <= MaxLogs
          /\ Idle.log <= Len(logs') /\ m.log <= Len(logs')
          /\ m.session # Nothing => m.log # 0
      BY <1>1, <1>2 DEF IInv, Named
    <2> QED
      BY <1>2, <2>1, StepNamed
  <1>5. /\ guard' \in [Session -> Process \union {Nothing}]
        /\ KeepsGuards(p, Idle)
    BY Apart DEF IInv, Types, Unguarded, KeepsGuards
  <1>6. Guards'
    BY <1>2, <1>5, StepGuards
  <1>7. Locks'
    <2>1. ASSUME NEW i \in 1 .. Len(logs')
          PROVE  logs'[i].holder = p <=> i \in LockedIn(Idle, m)
      <3>1. i = self[p].log => logs[i].holder = p
        BY <1>1 DEF IInv, Locks, LockedIn
      <3> QED
        BY <1>1, <1>2, <3>1 DEF LockedIn
    <2>2. /\ Len(logs') \in Nat /\ Len(logs) <= Len(logs')
          /\ \A i \in 1 .. Len(logs'), q \in Process \ {p} :
                logs'[i].holder = q <=> i <= Len(logs) /\ logs[i].holder = q
      BY <1>1
    <2> QED
      BY <1>2, <2>1, <2>2, StepLocks
  <1> QED
    BY <1>1, <1>3, <1>4, <1>5, <1>6, <1>7 DEF Core

LEMMA FailsStep ==
    ASSUME IInv, NEW p \in Process, Fails(p)
    PROVE  IInv'
  <1> DEFINE m == [self[p] EXCEPT !.cwd = self[p].session]
  <1>1. self \in [Process -> Self] /\ self[p] \in Self
    BY DEF IInv, Types
  <1>2. /\ m \in Self /\ m.cwd = m.session
        /\ m.log = self[p].log /\ m.session = self[p].session
    BY <1>1 DEF Self
  <1>3. self' = [self EXCEPT ![p] = m]
    BY <1>1 DEF Fails, Unwound
  <1> HIDE DEF m
  <1>4. logs' = FreedBut(p, m.log)
    BY <1>2 DEF Fails, Unwound, FreedBut
  <1>5. /\ job' = [job EXCEPT ![p] = Idle] /\ path' = path
        /\ guard' = Unguarded(p)
    BY DEF Fails, Unwound, Unguarded
  <1>6. Core' /\ guard' \in [Session -> Process \union {Nothing}]
    BY <1>2, <1>3, <1>4, <1>5, EndsWith
  <1> QED
    BY <1>6 DEF Fails, Core, IInv, Types

LEMMA GoneStep ==
    ASSUME IInv, NEW p \in Process, Gone(p)
    PROVE  IInv'
  <1>1. NoSelf \in Self /\ NoSelf.cwd = NoSelf.session /\ NoSelf.log = 0
        /\ NoSelf.session = Nothing
    BY SessionsAssumption DEF NoSelf, Self
  <1>2. DOMAIN logs = 1 .. Len(logs)
    BY LenProperties DEF IInv, Types
  <1>3. logs' = FreedBut(p, NoSelf.log)
    BY <1>1, <1>2 DEF Gone, FreedBut
  <1>4. Core' /\ guard' \in [Session -> Process \union {Nothing}]
    BY <1>1, <1>3, EndsWith DEF Gone, Unguarded
  <1> QED
    BY <1>4 DEF Gone, Core, IInv, Types

-----------------------------------------------------------------------------
(* Steps between.                                                            *)

(* A step that only takes the command to another place, or changes its value *)
(* or its cache; the metadata lock is at most taken or released.             *)
LEMMA GoesStep ==
    ASSUME IInv, NEW p \in Process, NEW j \in Job,
           job[p].at # "lock", j.at # "lock", j.log = job[p].log,
           job' = [job EXCEPT ![p] = j], UNCHANGED <<logs, self>>,
           Sound(j, self[p]), \A s \in Session : path'[s] \in {0, path[s]},
           KeepsGuards(p, j)
    PROVE  Core'
  <1>1. LockedIn(j, self[p]) \ {0} = LockedIn(job[p], self[p]) \ {0}
    BY DEF LockedIn
  <1>2. j.log <= Len(logs)
    BY DEF IInv, Named
  <1>3. /\ Named' /\ Guards' /\ Locks'
        /\ job' \in [Process -> Job]
        /\ \A q \in Process : Sound(job'[q], self'[q])
    BY <1>1, <1>2, QuietStep
  <1> QED
    BY <1>3 DEF Core, IInv, Types

(* The command of p, taken apart.                                            *)
LEMMA JobOf ==
    ASSUME IInv, NEW p \in Process
    PROVE  /\ job[p] \in Job /\ self[p] \in Self /\ Sound(job[p], self[p])
           /\ job[p].log \in 0 .. Len(logs) /\ self[p].log \in 0 .. Len(logs)
           /\ Len(logs) \in Nat /\ DOMAIN logs = 1 .. Len(logs)
           /\ \A s \in Session : path[s] \in 0 .. Len(logs)
           /\ \A i \in 1 .. Len(logs) : logs[i] \in LogFile
  BY LenProperties, ElementOfSeq DEF IInv, Types, Named, Job, Self

LEMMA RestoreStep ==
    ASSUME IInv, NEW p \in Process, Restore(p)
    PROVE  IInv'
  <1> DEFINE log == logs[job[p].log]
             cached == IF log.typed /\ Reached(p) THEN meta[job[p].id] ELSE Nothing
             model == Resolved(job[p].value, log.model, cached)
             j == [job[p] EXCEPT !.value = model,
                                 !.asked = job[p].value # Nothing \/ log.model = Nothing,
                                 !.at = IF model = log.model THEN "guard" ELSE "append"]
             m == [self[p] EXCEPT !.cwd = job[p].id]
  <1>1. /\ job[p].at = "restore" /\ job[p].cmd = "open" /\ job[p].id \in Session
        /\ job[p].value \in Model \union {Nothing} /\ job[p].log # 0
    BY JobOf DEF Restore, Sound, FitsIn
  <1>2. log \in LogFile
    BY <1>1, JobOf
  <1>3. cached \in Cache \union {Nothing}
    BY <1>1 DEF IInv, Types
  <1>4. model \in Model
    <2> HIDE DEF log, cached
    <2>1. log.model \in Model \union {Nothing}
      BY <1>2 DEF LogFile
    <2>2. cached # Nothing => cached.model \in Model
      BY <1>3 DEF Cache
    <2> QED
      BY <1>1, <2>1, <2>2, SessionsAssumption DEF Resolved
  <1>5. job' = [job EXCEPT ![p] = j] /\ self' = [self EXCEPT ![p] = m]
    <2>1. job \in [Process -> Job] /\ self \in [Process -> Self]
      BY DEF IInv, Types
    <2> QED
      BY <2>1 DEF Restore
  <1> HIDE DEF model
  <1>6. /\ j \in Job /\ j.at \in {"guard", "append"} /\ j.cmd = "open" /\ j.value = model
        /\ j.log = job[p].log /\ j.id = job[p].id
    <2>1. job[p] \in Job
      BY JobOf
    <2> HIDE DEF log, cached, m
    <2> QED
      BY <1>1, <1>4, <2>1 DEF Job, Stage
  <1>7. m \in Self /\ m.log = self[p].log /\ m.session = self[p].session
    <2>1. self[p] \in Self /\ job[p].id \in Session
      BY <1>1, JobOf
    <2> HIDE DEF j
    <2> QED
      BY <2>1 DEF Self
  <1> HIDE DEF j, m
  <1>8. Sound(j, m)
    BY <1>1, <1>4, <1>6, <1>7, JobOf DEF Sound, FitsIn, StandsIn, ApartIn
  <1>9. UNCHANGED <<place, path, logs, meta, guard, left, ghost>>
    BY DEF Restore
  <1>10. /\ job' \in [Process -> Job] /\ self' \in [Process -> Self]
         /\ \A q \in Process : Sound(job'[q], self'[q])
    BY <1>5, <1>6, <1>7, <1>8, StepSound
  <1>11. Named'
    <2>1. /\ \A s \in Session : path'[s] <= Len(logs')
          /\ Len(logs') \in Nat /\ Len(logs) <= Len(logs') /\ Len(logs') <= MaxLogs
          /\ j.log <= Len(logs') /\ m.log <= Len(logs')
          /\ m.session # Nothing => m.log # 0
      BY <1>6, <1>7, <1>9, JobOf DEF IInv, Named
    <2> QED
      BY <1>5, <1>6, <1>7, <1>8, <2>1, StepNamed
  <1>12. Guards'
    <2>1. KeepsGuards(p, j)
      BY <1>1, <1>9 DEF IInv, Guards, KeepsGuards
    <2> QED
      BY <1>5, <1>6, <1>7, <1>8, <1>9, <2>1, StepGuards
  <1>13. Locks'
    <2>1. LockedIn(j, m) = LockedIn(job[p], self[p])
      BY <1>1, <1>6, <1>7 DEF LockedIn
    <2>2. \A i \in 1 .. Len(logs') : logs'[i].holder = p <=> i \in LockedIn(j, m)
      BY <1>9, <2>1 DEF IInv, Locks
    <2>3. /\ Len(logs') \in Nat /\ Len(logs) <= Len(logs')
          /\ \A i \in 1 .. Len(logs'), q \in Process \ {p} :
                logs'[i].holder = q <=> i <= Len(logs) /\ logs[i].holder = q
      BY <1>9, JobOf
    <2> QED
      BY <1>5, <1>6, <1>7, <1>8, <2>2, <2>3, StepLocks
  <1> QED
    BY <1>9, <1>10, <1>11, <1>12, <1>13 DEF IInv, Types

(* Typed variables of a step that Core does not speak of.                    *)
LEMMA Typing ==
    ASSUME Core', path' \in [Session -> Nat], place' \in [Session -> Places],
           meta' \in [Session -> Cache \union {Nothing}],
           guard' \in [Session -> Process \union {Nothing}],
           left' = left, ghost' \in Ghosts, IInv
    PROVE  IInv'
  BY DEF Core, IInv, Types

LEMMA HeldLogs ==
    ASSUME IInv, NEW p \in Process, NEW i \in 1 .. Len(logs), NEW h \in {p, Nothing},
           logs' = HeldIn(logs, i, h)
    PROVE  /\ logs' \in Seq(LogFile) /\ Len(logs') = Len(logs)
           /\ \A k \in 1 .. Len(logs) :
                 logs'[k].holder = IF k = i THEN h ELSE logs[k].holder
  <1>1. logs \in Seq(LogFile) /\ h \in Process \union {Nothing}
    BY DEF IInv, Types
  <1> QED
    BY <1>1, HeldByLogs

(* Giving the lock of one log to p, or taking it away.                       *)
LEMMA HoldStep ==
    ASSUME IInv, NEW p \in Process, NEW j \in Job, NEW m \in Self,
           NEW i \in 1 .. Len(logs), NEW h \in {p, Nothing},
           logs[i].holder \in {p, Nothing},
           job' = [job EXCEPT ![p] = j], self' = [self EXCEPT ![p] = m], path' = path,
           logs' = HeldIn(logs, i, h),
           Sound(j, m), m.session # Nothing => m.log # 0,
           j.log <= Len(logs), m.log <= Len(logs),
           (i \in LockedIn(j, m)) <=> (h = p),
           LockedIn(j, m) \ {0, i} = LockedIn(job[p], self[p]) \ {0, i},
           KeepsGuards(p, j)
    PROVE  Core'
  <1>1. logs \in Seq(LogFile) /\ Len(logs) \in Nat
    BY JobOf DEF IInv, Types
  <1>2. /\ logs' \in Seq(LogFile) /\ Len(logs') = Len(logs)
        /\ \A k \in 1 .. Len(logs) : logs'[k].holder = IF k = i THEN h ELSE logs[k].holder
    BY HeldLogs
  <1>4. Named'
    <2>1. /\ \A s \in Session : path'[s] <= Len(logs')
          /\ Len(logs') \in Nat /\ Len(logs) <= Len(logs') /\ Len(logs') <= MaxLogs
          /\ j.log <= Len(logs') /\ m.log <= Len(logs')
      BY <1>1, <1>2 DEF IInv, Named
    <2> QED
      BY <2>1, StepNamed
  <1>5. Guards'
    BY StepGuards
  <1>6. Locks'
    <2>1. ASSUME NEW k \in 1 .. Len(logs')
          PROVE  logs'[k].holder = p <=> k \in LockedIn(j, m)
      <3>1. CASE k = i
        BY <1>2, <3>1, Apart
      <3>2. CASE k # i
        <4>1. logs'[k].holder = logs[k].holder /\ k \in 1 .. Len(logs)
          BY <1>2, <3>2
        <4>2. logs[k].holder = p <=> k \in LockedIn(job[p], self[p])
          BY <4>1 DEF IInv, Locks
        <4>3. k # 0
          BY <1>1, <4>1
        <4> QED
          BY <3>2, <4>1, <4>2, <4>3
      <3> QED
        BY <3>1, <3>2
    <2>2. ASSUME NEW k \in 1 .. Len(logs'), NEW q \in Process \ {p}
          PROVE  logs'[k].holder = q <=> k <= Len(logs) /\ logs[k].holder = q
      <3>1. k \in 1 .. Len(logs) /\ k <= Len(logs)
        BY <1>1, <1>2
      <3> QED
        BY <1>2, <3>1, Apart
    <2>3. Len(logs') \in Nat /\ Len(logs) <= Len(logs')
      BY <1>1, <1>2
    <2> QED
      BY <2>1, <2>2, <2>3, StepLocks
  <1> QED
    BY <1>2, <1>4, <1>5, <1>6, StepSound DEF Core

LEMMA LockLogStep ==
    ASSUME IInv, NEW p \in Process, LockLog(p)
    PROVE  IInv'
  <1>1. CASE Fails(p)
    BY <1>1, FailsStep
  <1>2. CASE ~Fails(p)
    <2> DEFINE i == job[p].log
               j == [job[p] EXCEPT !.at = "restore"]
    <2>1. /\ job[p].at = "lock" /\ job[p].cmd = "open" /\ job[p].id \in Session
          /\ i \in 1 .. Len(logs) /\ logs[i].holder = Nothing
          /\ job[p].value \in Model \union {Nothing}
      BY <1>2, JobOf DEF LockLog, Sound, FitsIn
    <2>2. /\ logs' = HeldIn(logs, i, p)
          /\ UNCHANGED <<place, path, meta, guard, self, left, ghost>>
          /\ job' = [job EXCEPT ![p] = j]
      BY <1>2 DEF LockLog, HeldBy, HeldIn, Goes, IInv, Types
    <2>3. /\ j \in Job /\ j.at = "restore" /\ j.cmd = "open" /\ j.log = i
          /\ j.id = job[p].id /\ j.value = job[p].value
      BY <2>1, JobOf DEF Job, Stage
    <2>4. self[p].log # i
      BY <2>1, Apart DEF IInv, Locks, LockedIn
    <2> HIDE DEF j
    <2>5. Sound(j, self[p])
      BY <2>1, <2>3, <2>4, JobOf DEF Sound, FitsIn, StandsIn, ApartIn
    <2>6. /\ i \in LockedIn(j, self[p])
          /\ LockedIn(j, self[p]) \ {0, i} = LockedIn(job[p], self[p]) \ {0, i}
      BY <2>1, <2>3 DEF LockedIn
    <2>7. KeepsGuards(p, j)
      BY <2>1, <2>2 DEF IInv, Guards, KeepsGuards
    <2>8. self' = [self EXCEPT ![p] = self[p]] /\ self[p] \in Self
      BY <2>2, JobOf DEF IInv, Types
    <2>9. /\ self[p].session # Nothing => self[p].log # 0
          /\ j.log <= Len(logs) /\ self[p].log <= Len(logs)
      BY <2>1, <2>3 DEF IInv, Named
    <2>10. Core'
      BY <2>1, <2>2, <2>3, <2>5, <2>6, <2>7, <2>8, <2>9, HoldStep
    <2> QED
      BY <2>2, <2>10, Typing DEF IInv, Types
  <1> QED
    BY <1>1, <1>2

(* After the metadata cache, the command is over.                            *)
LEMMA AfterCacheStep ==
    ASSUME IInv, NEW p \in Process, AfterCache(p), path' = path,
           job[p].at \in {"guard", "write", "publish"},
           DropsGuards(p)
    PROVE  Core'
  <1>1. job' = [job EXCEPT ![p] = Idle]
    BY DEF AfterCache
  <1>2. job[p].cmd \in {"open", "set", "rename"} /\ job[p].id \in Session
    BY JobOf DEF Sound, FitsIn
  <1>3. CASE job[p].cmd = "open"
    <2> DEFINE m == [session |-> job[p].id, log |-> job[p].log,
                     model |-> job[p].value, cwd |-> job[p].id]
               old == self[p].log
    <2>1. /\ job[p].log \in 1 .. Len(logs) /\ job[p].value \in Model
          /\ job[p].log # old
      BY <1>3, JobOf DEF Sound, FitsIn, ApartIn
    <2>2. Commits(p)
      BY <1>3 DEF AfterCache
    <2>3. /\ m \in Self /\ m.cwd = m.session /\ m.log = job[p].log /\ m.log # 0
      BY <1>2, <2>1, JobOf DEF Self
    <2>4. self' = [self EXCEPT ![p] = m]
      BY <2>2 DEF Commits
    <2>5. Idle \in Job /\ Sound(Idle, m) /\ Idle.at = "idle" /\ Idle.log = 0
      BY <2>3, IdleIsSound
    <2> HIDE DEF m
    <2>6. LockedIn(Idle, m) \ {0, old} = LockedIn(job[p], self[p]) \ {0, old}
      BY <2>1, <2>3, <2>5 DEF LockedIn
    <2>7. CASE old = 0
      <3>1. logs' = logs
        BY <2>2, <2>7 DEF Commits
      <3>2. Named'
        <4>1. /\ \A s \in Session : path'[s] <= Len(logs')
              /\ Len(logs') \in Nat /\ Len(logs) <= Len(logs') /\ Len(logs') <= MaxLogs
              /\ Idle.log <= Len(logs') /\ m.log <= Len(logs')
          BY <2>1, <2>3, <2>5, <3>1, JobOf DEF IInv, Named
        <4> QED
          BY <1>1, <2>3, <2>4, <2>5, <4>1, StepNamed
      <3>3. Guards'
        BY <1>1, <2>3, <2>4, <2>5, Dropping, StepGuards
      <3>4. Locks'
        <4>1. \A i \in 1 .. Len(logs') : logs'[i].holder = p <=> i \in LockedIn(Idle, m)
          BY <2>6, <2>7, <3>1, JobOf DEF IInv, Locks
        <4>2. /\ Len(logs') \in Nat /\ Len(logs) <= Len(logs')
              /\ \A i \in 1 .. Len(logs'), q \in Process \ {p} :
                    logs'[i].holder = q <=> i <= Len(logs) /\ logs[i].holder = q
          BY <3>1, JobOf
        <4> QED
          BY <1>1, <2>3, <2>4, <2>5, <4>1, <4>2, StepLocks
      <3>5. /\ job' \in [Process -> Job] /\ self' \in [Process -> Self]
            /\ \A q \in Process : Sound(job'[q], self'[q])
        BY <1>1, <2>3, <2>4, <2>5, StepSound
      <3> QED
        BY <3>1, <3>2, <3>3, <3>4, <3>5 DEF Core, IInv, Types
    <2>8. CASE old # 0
      <3>1. logs' = HeldIn(logs, old, Nothing)
        BY <2>2, <2>8 DEF Commits, HeldBy, HeldIn
      <3>2. old \in 1 .. Len(logs)
        BY <2>8, JobOf
      <3>3. logs[old].holder \in {p, Nothing}
        BY <3>2 DEF IInv, Locks, LockedIn
      <3>4. ~(old \in LockedIn(Idle, m)) /\ ~(Nothing = p)
        BY <2>1, <2>3, <2>5, <2>8, Apart DEF LockedIn
      <3>5. Idle.log <= Len(logs) /\ m.log <= Len(logs)
        BY <2>1, <2>3, <2>5, JobOf
      <3> QED
        BY <1>1, <2>3, <2>4, <2>5, <2>6, <3>1, <3>2, <3>3, <3>4, <3>5, Dropping, HoldStep
    <2> QED
      BY <2>7, <2>8
  <1>4. CASE job[p].cmd # "open"
    <2>1. job[p].log = 0 /\ self[p].cwd = self[p].session
      BY <1>2, <1>4, JobOf DEF Sound, FitsIn, StandsIn
    <2> DEFINE m == IF job[p].cmd = "set" THEN [self[p] EXCEPT !.model = job[p].value]
                    ELSE self[p]
    <2>2. /\ m \in Self /\ self' = [self EXCEPT ![p] = m]
          /\ m.cwd = self[p].cwd /\ m.session = self[p].session /\ m.log = self[p].log
      <3>1. CASE job[p].cmd = "set"
        <4>1. job[p].value \in Model
          BY <3>1, JobOf DEF Sound, FitsIn
        <4>2. self' = [self EXCEPT ![p].model = job[p].value]
          BY <3>1 DEF AfterCache
        <4> QED
          BY <3>1, <4>1, <4>2, JobOf DEF IInv, Types, Self
      <3>2. CASE job[p].cmd # "set"
        <4>1. self' = self
          BY <1>4, <3>2 DEF AfterCache
        <4> QED
          BY <3>2, <4>1, JobOf DEF IInv, Types
      <3> QED
        BY <3>1, <3>2
    <2> HIDE DEF m
    <2>3. logs' = logs
      BY <1>2, <1>4 DEF AfterCache
    <2>4. Idle \in Job /\ Sound(Idle, m) /\ Idle.at = "idle" /\ Idle.log = 0
      BY <2>1, <2>2, IdleIsSound
    <2>5. Named'
      <3>1. /\ \A s \in Session : path'[s] <= Len(logs')
            /\ Len(logs') \in Nat /\ Len(logs) <= Len(logs') /\ Len(logs') <= MaxLogs
            /\ Idle.log <= Len(logs') /\ m.log <= Len(logs')
            /\ m.session # Nothing => m.log # 0
        BY <2>2, <2>3, <2>4, JobOf DEF IInv, Named
      <3> QED
        BY <1>1, <2>2, <2>4, <3>1, StepNamed
    <2>6. Guards'
      BY <1>1, <2>2, <2>4, Dropping, StepGuards
    <2>7. Locks'
      <3>1. \A i \in 1 .. Len(logs') : logs'[i].holder = p <=> i \in LockedIn(Idle, m)
        BY <2>1, <2>2, <2>3, <2>4, JobOf DEF IInv, Locks, LockedIn
      <3>2. /\ Len(logs') \in Nat /\ Len(logs) <= Len(logs')
            /\ \A i \in 1 .. Len(logs'), q \in Process \ {p} :
                  logs'[i].holder = q <=> i <= Len(logs) /\ logs[i].holder = q
        BY <2>3, JobOf
      <3> QED
        BY <1>1, <2>2, <2>4, <3>1, <3>2, StepLocks
    <2>8. /\ job' \in [Process -> Job] /\ self' \in [Process -> Self]
          /\ \A q \in Process : Sound(job'[q], self'[q])
      BY <1>1, <2>2, <2>4, StepSound
    <2> QED
      BY <2>3, <2>5, <2>6, <2>7, <2>8 DEF Core, IInv, Types
  <1> QED
    BY <1>3, <1>4


(* The steps on the metadata cache and those that move a directory.          *)
LEMMA LockCacheStep ==
    ASSUME IInv, NEW p \in Process, LockCache(p)
    PROVE  IInv'
  <1>1. /\ job[p].at = "guard" /\ job[p].id \in Session
        /\ UNCHANGED <<place, path, meta, left, ghost>>
    BY JobOf DEF LockCache, Sound, FitsIn
  <1>2. \A s \in Session : guard[s] # p
    BY <1>1 DEF IInv, Guards
  <1>3. CASE AfterCache(p) /\ UNCHANGED guard
    <2>1. DropsGuards(p)
      BY <1>2, <1>3 DEF DropsGuards
    <2>2. Core'
      BY <1>1, <1>3, <2>1, AfterCacheStep
    <2> QED
      BY <1>1, <1>3, <2>2, Typing DEF IInv, Types
  <1>4. CASE ~(AfterCache(p) /\ UNCHANGED guard)
    <2> DEFINE j == [job[p] EXCEPT !.at = "read"]
    <2>1. UNCHANGED <<logs, self>> /\ job' = [job EXCEPT ![p] = j]
      BY <1>4 DEF LockCache, Goes, IInv, Types
    <2>2. /\ j \in Job /\ j.at = "read" /\ j.log = job[p].log /\ j.id = job[p].id
          /\ j.cmd = job[p].cmd /\ j.value = job[p].value
      BY JobOf DEF Job, Stage
    <2> HIDE DEF j
    <2>3. Sound(j, self[p])
      BY <1>1, <2>2, JobOf DEF Sound, FitsIn, StandsIn, ApartIn
    <2>4. guard[job[p].id] = Nothing /\ guard' = [guard EXCEPT ![job[p].id] = p]
      BY <1>4 DEF LockCache
    <2>5. /\ guard' \in [Session -> Process \union {Nothing}]
          /\ KeepsGuards(p, j)
      BY <1>1, <1>2, <2>2, <2>4 DEF IInv, Types, KeepsGuards
    <2>6. Core'
      BY <1>1, <2>1, <2>2, <2>3, <2>5, GoesStep
    <2> QED
      BY <1>1, <2>5, <2>6, Typing DEF IInv, Types
  <1> QED
    BY <1>3, <1>4

LEMMA ReadCacheStep ==
    ASSUME IInv, NEW p \in Process, ReadCache(p)
    PROVE  IInv'
  <1> DEFINE cached == IF Reached(p) THEN meta[job[p].id] ELSE Nothing
             name == IF cached = Nothing THEN Nothing ELSE cached.name
             kept == IF job[p].cmd = "rename"
                     THEN [model |-> cached.model, name |-> job[p].value]
                     ELSE [model |-> job[p].value, name |-> name]
             asks == job[p].cmd = "rename" /\ cached = Nothing
             j == IF asks THEN [job[p] EXCEPT !.at = "rebuild"]
                  ELSE [job[p] EXCEPT !.at = "write", !.cache = kept]
  <1>1. /\ job[p].at = "read" /\ job[p].id \in Session
        /\ UNCHANGED <<place, path, logs, meta, guard, self, left, ghost>>
        /\ job[p].cmd \in {"open", "set", "rename"}
    BY JobOf DEF ReadCache, Sound, FitsIn
  <1>2. cached \in Cache \union {Nothing}
    BY <1>1 DEF IInv, Types
  <1>3. job' = [job EXCEPT ![p] = j]
    <2>1. job \in [Process -> Job]
      BY DEF IInv, Types
    <2>2. job' = [job EXCEPT ![p] = IF asks THEN [@ EXCEPT !.at = "rebuild"]
                                   ELSE [@ EXCEPT !.at = "write", !.cache = kept]]
      BY <2>1 DEF ReadCache, Goes
    <2> QED
      BY <2>1, <2>2
  <1> HIDE DEF cached
  <1>4. ~asks => kept \in Cache
    <2>1. cached # Nothing => cached.model \in Model /\ cached.name \in Name \union {Nothing}
      BY <1>2 DEF Cache
    <2>2. job[p].cmd = "rename" => job[p].value \in Name
      BY JobOf, <1>1 DEF Sound, FitsIn
    <2>3. job[p].cmd # "rename" => job[p].value \in Model
      BY JobOf, <1>1 DEF Sound, FitsIn
    <2> QED
      BY <2>1, <2>2, <2>3 DEF Cache
  <1> HIDE DEF kept
  <1>5. /\ j \in Job /\ j.log = job[p].log /\ j.id = job[p].id
        /\ j.cmd = job[p].cmd /\ j.value = job[p].value
        /\ j.at = IF asks THEN "rebuild" ELSE "write"
        /\ ~asks => j.cache = kept
    <2>1. job[p] \in Job
      BY JobOf
    <2> HIDE DEF asks
    <2> QED
      BY <1>4, <2>1 DEF Job, Stage
  <1> HIDE DEF j
  <1>6. Sound(j, self[p])
    BY <1>1, <1>4, <1>5, JobOf DEF Sound, FitsIn, StandsIn, ApartIn
  <1>7. KeepsGuards(p, j)
    BY <1>1, <1>5 DEF IInv, Guards, KeepsGuards
  <1>8. Core'
    BY <1>1, <1>3, <1>5, <1>6, <1>7, GoesStep
  <1> QED
    BY <1>1, <1>8, Typing DEF IInv, Types

(* What releasing the metadata lock leaves.                                  *)
LEMMA ReleasedGuards ==
    ASSUME IInv, NEW p \in Process, Released(p), job[p].id \in Session
    PROVE  /\ guard' \in [Session -> Process \union {Nothing}]
           /\ DropsGuards(p)
  <1>1. \A s \in Session : guard[s] = p => s = job[p].id
    BY DEF IInv, Guards
  <1> QED
    BY <1>1, Apart DEF Released, IInv, Types, DropsGuards

LEMMA WriteCacheStep ==
    ASSUME IInv, NEW p \in Process, WriteCache(p)
    PROVE  IInv'
  <1>1. /\ job[p].at = "write" /\ job[p].id \in Session
        /\ UNCHANGED <<place, path, meta, left, ghost>>
    BY JobOf DEF WriteCache, Sound, FitsIn
  <1>2. CASE AfterCache(p) /\ Released(p)
    <2>1. /\ guard' \in [Session -> Process \union {Nothing}]
          /\ DropsGuards(p)
      BY <1>1, <1>2, ReleasedGuards
    <2>2. Core'
      BY <1>1, <1>2, <2>1, AfterCacheStep
    <2> QED
      BY <1>1, <2>1, <2>2, Typing DEF IInv, Types
  <1>3. CASE ~(AfterCache(p) /\ Released(p))
    <2> DEFINE j == [job[p] EXCEPT !.at = "publish"]
    <2>1. UNCHANGED <<logs, guard, self>> /\ job' = [job EXCEPT ![p] = j]
      BY <1>3 DEF WriteCache, Goes, IInv, Types
    <2>2. /\ j \in Job /\ j.at = "publish" /\ j.log = job[p].log /\ j.id = job[p].id
          /\ j.cmd = job[p].cmd /\ j.value = job[p].value /\ j.cache = job[p].cache
      BY JobOf DEF Job, Stage
    <2> HIDE DEF j
    <2>3. Sound(j, self[p])
      BY <1>1, <2>2, JobOf DEF Sound, FitsIn, StandsIn, ApartIn
    <2>4. KeepsGuards(p, j)
      BY <1>1, <2>1, <2>2 DEF IInv, Guards, KeepsGuards
    <2>5. Core'
      BY <1>1, <2>1, <2>2, <2>3, <2>4, GoesStep
    <2> QED
      BY <1>1, <2>1, <2>5, Typing DEF IInv, Types
  <1> QED
    BY <1>2, <1>3

LEMMA PublishStep ==
    ASSUME IInv, NEW p \in Process, Publish(p)
    PROVE  IInv'
  <1>1. /\ job[p].at = "publish" /\ job[p].id \in Session /\ job[p].cache \in Cache
        /\ job[p].cmd = "rename" => job[p].value \in Name
        /\ UNCHANGED <<place, path, left>> /\ AfterCache(p) /\ Released(p)
    BY JobOf DEF Publish, Sound, FitsIn
  <1>2. /\ guard' \in [Session -> Process \union {Nothing}]
        /\ DropsGuards(p)
    BY <1>1, ReleasedGuards
  <1>3. Core'
    BY <1>1, <1>2, AfterCacheStep
  <1>4. meta \in [Session -> Cache \union {Nothing}] /\ ghost \in Ghosts
    BY DEF IInv, Types
  <1>5. meta' \in [Session -> Cache \union {Nothing}]
    BY <1>1, <1>4 DEF Publish
  <1>6. ghost' \in Ghosts
    <2>1. CASE ghost' = ghost
      BY <1>4, <2>1
    <2>2. CASE ghost' # ghost
      <3> DEFINE N == [ghost.named EXCEPT ![job[p].id] =
                           IF job[p].cmd = "rename" THEN job[p].value ELSE @]
                 B == [ghost.behind EXCEPT ![job[p].id] =
                           IF job[p].cmd = "rename" THEN @ ELSE FALSE]
      <3>1. ghost' = [ghost EXCEPT !.named = N, !.behind = B]
        BY <2>2 DEF Publish
      <3>2. N \in [Session -> Name \union {Nothing}]
        BY <1>1, <1>4 DEF Ghosts
      <3>3. B \in [Session -> BOOLEAN]
        BY <1>1, <1>4 DEF Ghosts
      <3> QED
        BY <1>4, <3>1, <3>2, <3>3 DEF Ghosts
    <2> QED
      BY <2>1, <2>2
  <1> QED
    BY <1>1, <1>2, <1>3, <1>5, <1>6, Typing DEF IInv, Types

(* A command without a log and a metadata lock that is over, or goes on to   *)
(* remove its directory.                                                     *)
LEMMA LooseStep ==
    ASSUME IInv, NEW p \in Process,
           job[p].at \in {"move", "unlink", "rmdir"},
           \/ job' = [job EXCEPT ![p] = Idle]
           \/ job' = [job EXCEPT ![p].at = "rmdir"],
           UNCHANGED <<logs, self>>, \A s \in Session : path'[s] \in {0, path[s]},
           \A s \in Session : guard'[s] \in {guard[s], Nothing}
    PROVE  Core'
  <1> DEFINE j == IF job' = [job EXCEPT ![p] = Idle] THEN Idle
                  ELSE [job[p] EXCEPT !.at = "rmdir"]
  <1>1. job' = [job EXCEPT ![p] = j]
    BY DEF IInv, Types
  <1>2. job[p].log = 0 /\ self[p].cwd = self[p].session
    BY JobOf DEF Sound, FitsIn, StandsIn
  <1>3. /\ j \in Job /\ j.log = job[p].log /\ j.at # "lock"
        /\ j = Idle \/ /\ j.at = "rmdir" /\ j.cmd = job[p].cmd
                       /\ j.id = job[p].id /\ j.value = job[p].value
    BY <1>2, JobOf DEF Job, Stage, Idle
  <1> HIDE DEF j
  <1>4. Sound(j, self[p])
    <2>1. CASE j = Idle
      BY <1>2, <2>1, IdleIsSound
    <2>2. CASE j # Idle
      BY <1>2, <1>3, <2>2, JobOf DEF Sound, FitsIn, StandsIn, ApartIn
    <2> QED
      BY <2>1, <2>2
  <1>5. KeepsGuards(p, j)
    BY Apart DEF IInv, Guards, KeepsGuards
  <1> QED
    BY <1>1, <1>3, <1>4, <1>5, GoesStep

LEMMA MoveStep ==
    ASSUME IInv, NEW p \in Process, Move(p) \/ Unlink(p) \/ RemoveDirectory(p)
    PROVE  IInv'
  <1>1. CASE Fails(p)
    BY <1>1, FailsStep
  <1>2. CASE ~Fails(p)
    <2>1. /\ job[p].at \in {"move", "unlink", "rmdir"} /\ job[p].id \in Session
          /\ UNCHANGED <<logs, self, left>>
          /\ \/ job' = [job EXCEPT ![p] = Idle]
             \/ job' = [job EXCEPT ![p].at = "rmdir"]
      BY <1>2, JobOf DEF Move, Unlink, RemoveDirectory, Goes, Sound, FitsIn
    <2>2. /\ path' \in [Session -> Nat] /\ \A s \in Session : path'[s] \in {0, path[s]}
          /\ guard' \in [Session -> Process \union {Nothing}]
          /\ \A s \in Session : guard'[s] \in {guard[s], Nothing}
          /\ meta' \in [Session -> Cache \union {Nothing}]
      <3>1. /\ path \in [Session -> Nat] /\ meta \in [Session -> Cache \union {Nothing}]
            /\ guard \in [Session -> Process \union {Nothing}]
        BY DEF IInv, Types
      <3>2. CASE Unlink(p)
        <4>1. /\ path' = [path EXCEPT ![job[p].id] = 0]
              /\ meta' = [meta EXCEPT ![job[p].id] = Nothing]
              /\ guard' = [guard EXCEPT ![job[p].id] = Nothing]
          BY <1>2, <3>2 DEF Unlink
        <4>2. path' \in [Session -> Nat] /\ \A s \in Session : path'[s] \in {0, path[s]}
          BY <3>1, <4>1
        <4>3. /\ guard' \in [Session -> Process \union {Nothing}]
              /\ \A s \in Session : guard'[s] \in {guard[s], Nothing}
          BY <3>1, <4>1
        <4>4. meta' \in [Session -> Cache \union {Nothing}]
          BY <3>1, <4>1
        <4> QED
          BY <4>2, <4>3, <4>4
      <3>3. CASE Move(p) \/ RemoveDirectory(p)
        <4>1. path' = path /\ meta' = meta /\ guard' = guard
          BY <3>3 DEF Move, RemoveDirectory
        <4> QED
          BY <3>1, <4>1
      <3> QED
        BY <3>2, <3>3
    <2>3. place' \in [Session -> Places]
      <3>1. place \in [Session -> Places]
        BY DEF IInv, Types
      <3>2. CASE Move(p)
        <4>1. \A s \in Session : (IF place[s] = "live" THEN "trash" ELSE "live") \in Places
          BY DEF Places
        <4> QED
          BY <2>1, <3>1, <3>2, <4>1 DEF Move
      <3>3. CASE Unlink(p)
        BY <1>2, <3>1, <3>3 DEF Unlink
      <3>4. CASE RemoveDirectory(p)
        BY <2>1, <3>1, <3>4 DEF RemoveDirectory, Places
      <3> QED
        BY <3>2, <3>3, <3>4
    <2>4. ghost' \in Ghosts
      <3>1. ghost \in Ghosts
        BY DEF IInv, Types
      <3>2. CASE ghost' = ghost
        BY <3>1, <3>2
      <3>3. CASE ghost' # ghost
        <4> DEFINE C == [ghost.chosen EXCEPT ![job[p].id] = Nothing]
                   N == [ghost.named EXCEPT ![job[p].id] = Nothing]
                   B == [ghost.behind EXCEPT ![job[p].id] = FALSE]
        <4>1. ghost' = [ghost EXCEPT !.chosen = C, !.named = N, !.behind = B]
          BY <1>2, <3>3 DEF Move, Unlink, RemoveDirectory
        <4>2. C \in [Session -> Model \union {Nothing}]
          BY <3>1 DEF Ghosts
        <4>3. N \in [Session -> Name \union {Nothing}]
          BY <3>1 DEF Ghosts
        <4>4. B \in [Session -> BOOLEAN]
          BY <3>1 DEF Ghosts
        <4> QED
          BY <3>1, <4>1, <4>2, <4>3, <4>4 DEF Ghosts
      <3> QED
        BY <3>2, <3>3
    <2>5. Core'
      BY <2>1, <2>2, LooseStep
    <2> QED
      BY <2>1, <2>2, <2>3, <2>4, <2>5, Typing
  <1> QED
    BY <1>1, <1>2


-----------------------------------------------------------------------------
(* Steps that open a log or write one.                                       *)

(* A step that makes logs nobody has locked, or changes what logs contain.   *)
LEMMA GrowStep ==
    ASSUME IInv, NEW p \in Process, NEW j \in Job,
           job' = [job EXCEPT ![p] = j], self' = self,
           logs' \in Seq(LogFile), Len(logs) <= Len(logs'), Len(logs') <= MaxLogs,
           \A k \in 1 .. Len(logs) : logs'[k].holder = logs[k].holder,
           \A k \in 1 .. Len(logs') : k > Len(logs) => logs'[k].holder = Nothing,
           \A s \in Session : path'[s] <= Len(logs'),
           Sound(j, self[p]), j.log <= Len(logs'),
           LockedIn(j, self[p]) \ {0} = LockedIn(job[p], self[p]) \ {0},
           KeepsGuards(p, j)
    PROVE  Core'
  <1>1. Len(logs) \in Nat /\ Len(logs') \in Nat
    BY LenProperties DEF IInv, Types
  <1>2. /\ self' = [self EXCEPT ![p] = self[p]] /\ self[p] \in Self
        /\ self[p].log \in 0 .. Len(logs) /\ job[p].log \in 0 .. Len(logs)
        /\ self[p].session # Nothing => self[p].log # 0
    BY JobOf DEF IInv, Types, Named
  <1>3. Named'
    <2>1. self[p].log <= Len(logs')
      BY <1>1, <1>2
    <2> QED
      BY <1>1, <1>2, <2>1, StepNamed
  <1>4. Guards'
    <2>1. self' = [self EXCEPT ![p] = self[p]] /\ self[p] \in Self
      BY <1>2
    <2> QED
      BY <2>1, StepGuards
  <1>5. Locks'
    <2>1. \A k \in 1 .. Len(logs) : logs[k].holder = p <=> k \in LockedIn(job[p], self[p])
      BY DEF IInv, Locks
    <2>2. LockedIn(job[p], self[p]) \subseteq 0 .. Len(logs)
      BY <1>1, <1>2 DEF LockedIn
    <2>3. ASSUME NEW k \in 1 .. Len(logs')
          PROVE  logs'[k].holder = p <=> k \in LockedIn(j, self[p])
      <3>1. CASE k <= Len(logs)
        BY <1>1, <2>1, <3>1
      <3>2. CASE k > Len(logs)
        <4>1. k \notin LockedIn(job[p], self[p]) /\ k # 0
          BY <1>1, <2>2, <3>2
        <4> QED
          BY <3>2, <4>1, Apart
      <3> QED
        BY <1>1, <3>1, <3>2
    <2>4. ASSUME NEW k \in 1 .. Len(logs'), NEW q \in Process \ {p}
          PROVE  logs'[k].holder = q <=> k <= Len(logs) /\ logs[k].holder = q
      <3>1. CASE k <= Len(logs)
        BY <1>1, <3>1
      <3>2. CASE k > Len(logs)
        BY <1>1, <3>2, Apart
      <3> QED
        BY <1>1, <3>1, <3>2
    <2> QED
      BY <1>1, <1>2, <2>3, <2>4, StepLocks
  <1> QED
    BY <1>2, <1>3, <1>4, <1>5, StepSound DEF Core

LEMMA FilledLogs ==
    ASSUME IInv, NEW s \in Session, path[s] = 0 => Len(logs) < MaxLogs
    PROVE  /\ Filled(s) \in Seq(LogFile)
           /\ Len(Filled(s)) = IF path[s] = 0 THEN Len(logs) + 1 ELSE Len(logs)
           /\ Len(logs) <= Len(Filled(s)) /\ Len(Filled(s)) <= MaxLogs
           /\ \A k \in 1 .. Len(logs) : Filled(s)[k] = logs[k]
           /\ \A k \in 1 .. Len(Filled(s)) : k > Len(logs) => Filled(s)[k].holder = Nothing
           /\ Opens(s) \in 1 .. Len(Filled(s))
  <1>1. logs \in Seq(LogFile) /\ Len(logs) \in Nat /\ path[s] \in 0 .. Len(logs)
    BY LenProperties DEF IInv, Types, Named
  <1>2. Log(FALSE, Nothing) \in LogFile /\ Log(FALSE, Nothing).holder = Nothing
    BY DEF Log, LogFile
  <1>3. Len(logs) <= MaxLogs /\ MaxLogs \in Nat
    BY SessionsAssumption DEF IInv, Named
  <1>4. CASE path[s] = 0
    <2> DEFINE new == Log(FALSE, Nothing)
    <2>1. Filled(s) = Append(logs, new) /\ Opens(s) = Len(logs) + 1
      BY <1>4 DEF Filled, Opens
    <2>2. new \in LogFile /\ new.holder = Nothing
      BY <1>2
    <2> HIDE DEF new
    <2>3. /\ Append(logs, new) \in Seq(LogFile) /\ Len(Append(logs, new)) = Len(logs) + 1
          /\ \A k \in 1 .. Len(logs) : Append(logs, new)[k] = logs[k]
          /\ Append(logs, new)[Len(logs) + 1] = new
      BY <1>1, <2>2, AppendProperties
    <2>4. /\ Filled(s) \in Seq(LogFile) /\ Len(Filled(s)) = Len(logs) + 1
          /\ \A k \in 1 .. Len(logs) : Filled(s)[k] = logs[k]
          /\ Filled(s)[Len(logs) + 1].holder = Nothing
      BY <1>1, <2>1, <2>2, <2>3
    <2>5. /\ Len(logs) <= Len(Filled(s)) /\ Len(Filled(s)) <= MaxLogs
          /\ Opens(s) \in 1 .. Len(Filled(s))
      BY <1>1, <1>3, <1>4, <2>1, <2>4
    <2>6. \A k \in 1 .. Len(Filled(s)) : k > Len(logs) => Filled(s)[k].holder = Nothing
      BY <1>1, <2>4
    <2> QED
      BY <1>4, <2>4, <2>5, <2>6
  <1>5. CASE path[s] # 0
    BY <1>1, <1>3, <1>5 DEF Filled, Opens
  <1> QED
    BY <1>4, <1>5

LEMMA OpenLogStep ==
    ASSUME IInv, NEW p \in Process, OpenLog(p)
    PROVE  IInv'
  <1>1. CASE Fails(p)
    BY <1>1, FailsStep
  <1>2. CASE ~Fails(p)
    <2> DEFINE s == job[p].id
               j == [job[p] EXCEPT !.at = "lock", !.log = Opens(s)]
    <2>1. /\ job[p].at = "open" /\ job[p].cmd = "open" /\ s \in Session
          /\ job[p].log = 0 /\ self[p].cwd = self[p].session
          /\ job[p].value \in Model \union {Nothing}
      BY <1>2, JobOf DEF OpenLog, Sound, FitsIn, StandsIn
    <2>2. /\ Creates(s) /\ logs' = Filled(s)
          /\ UNCHANGED <<place, meta, guard, self, left>>
          /\ ghost' = [ghost EXCEPT !.raced = @ \/ InGap(s)]
          /\ job' = [job EXCEPT ![p].at = "lock", ![p].log = Opens(s)]
      BY <1>2 DEF OpenLog
    <2>3. job' = [job EXCEPT ![p] = j]
      BY <2>2 DEF IInv, Types
    <2>4. /\ logs' \in Seq(LogFile) /\ Len(logs) <= Len(logs') /\ Len(logs') <= MaxLogs
          /\ \A k \in 1 .. Len(logs) : logs'[k] = logs[k]
          /\ \A k \in 1 .. Len(logs') : k > Len(logs) => logs'[k].holder = Nothing
          /\ Opens(s) \in 1 .. Len(logs') /\ Len(logs') \in Nat
      BY <2>1, <2>2, FilledLogs, LenProperties DEF Creates
    <2>5. /\ j \in Job /\ j.at = "lock" /\ j.cmd = "open" /\ j.log = Opens(s) /\ j.id = s
          /\ j.value = job[p].value
      <3>1. Opens(s) \in Nat /\ job[p] \in Job /\ "lock" \in Stage
        BY <2>4, JobOf DEF Stage
      <3> QED
        BY <2>1, <3>1 DEF Job
    <2> HIDE DEF j
    <2>6. Sound(j, self[p])
      BY <2>1, <2>4, <2>5 DEF Sound, FitsIn, StandsIn, ApartIn
    <2>7. LockedIn(j, self[p]) \ {0} = LockedIn(job[p], self[p]) \ {0}
      BY <2>1, <2>5 DEF LockedIn
    <2>8. path' \in [Session -> Nat] /\ \A x \in Session : path'[x] <= Len(logs')
      <3>1. path' = [path EXCEPT ![s] = Opens(s)] /\ path \in [Session -> Nat]
        BY <2>2 DEF Creates, IInv, Types
      <3>2. \A x \in Session : path[x] <= Len(logs')
        BY <2>4, JobOf
      <3>3. Opens(s) \in Nat /\ Opens(s) <= Len(logs')
        BY <2>4
      <3>4. \A x \in Session : path'[x] = IF x = s THEN Opens(s) ELSE path[x]
        BY <3>1
      <3>5. path' \in [Session -> Nat]
        BY <3>1, <3>3
      <3> QED
        BY <3>2, <3>3, <3>4, <3>5
    <2>9. KeepsGuards(p, j)
      BY <2>1, <2>2 DEF IInv, Guards, KeepsGuards
    <2>10. Core'
      <3>1. /\ self' = self /\ guard' = guard /\ j.log <= Len(logs')
            /\ \A k \in 1 .. Len(logs) : logs'[k].holder = logs[k].holder
        BY <2>2, <2>4, <2>5
      <3> QED
        BY <2>3, <2>4, <2>5, <2>6, <2>7, <2>8, <2>9, <3>1, GrowStep
    <2>11. ghost' \in Ghosts
      BY <2>2 DEF IInv, Types, Ghosts, InGap
    <2> QED
      BY <2>2, <2>8, <2>10, <2>11, Typing DEF IInv, Types
  <1> QED
    BY <1>1, <1>2

LEMMA AdoptStep ==
    ASSUME IInv, NEW p \in Process, Adopt(p)
    PROVE  IInv'
  <1>1. CASE Fails(p)
    BY <1>1, FailsStep
  <1>2. CASE ~Fails(p)
    <2> DEFINE s == job[p].id
               new == Log(TRUE, job[p].value)
    <2>1. /\ job[p].at = "adopt" /\ job[p].cmd = "import" /\ s \in Session
          /\ job[p].log = 0 /\ self[p].cwd = self[p].session
          /\ job[p].value \in Model \union {Nothing}
      BY <1>2, JobOf DEF Adopt, Sound, FitsIn, StandsIn
    <2>2. /\ Len(logs) < MaxLogs /\ logs' = Append(logs, new)
          /\ path' = [path EXCEPT ![s] = Len(logs) + 1]
          /\ UNCHANGED <<place, meta, guard, self, left>>
          /\ ghost' = [ghost EXCEPT !.chosen[s] = job[p].value]
          /\ job' = [job EXCEPT ![p] = Idle]
      BY <1>2 DEF Adopt
    <2>3. new \in LogFile /\ new.holder = Nothing
      BY <2>1 DEF Log, LogFile
    <2> HIDE DEF new
    <2>4. logs \in Seq(LogFile) /\ Len(logs) \in Nat /\ MaxLogs \in Nat
      BY JobOf, SessionsAssumption DEF IInv, Types
    <2>5. /\ logs' \in Seq(LogFile) /\ Len(logs') = Len(logs) + 1
          /\ \A k \in 1 .. Len(logs) : logs'[k] = logs[k]
          /\ logs'[Len(logs) + 1] = new
      BY <2>2, <2>3, <2>4, AppendProperties
    <2>6. /\ Len(logs) <= Len(logs') /\ Len(logs') <= MaxLogs
          /\ \A k \in 1 .. Len(logs) : logs'[k].holder = logs[k].holder
          /\ \A k \in 1 .. Len(logs') : k > Len(logs) => logs'[k].holder = Nothing
      BY <2>2, <2>3, <2>4, <2>5
    <2>7. path' \in [Session -> Nat] /\ \A x \in Session : path'[x] <= Len(logs')
      <3>1. path \in [Session -> Nat] /\ \A x \in Session : path[x] <= Len(logs)
        BY DEF IInv, Types, Named
      <3>2. \A x \in Session : path'[x] = IF x = s THEN Len(logs) + 1 ELSE path[x]
        BY <2>2, <3>1
      <3>3. path' \in [Session -> Nat]
        <4> DEFINE n == Len(logs) + 1
        <4>1. n \in Nat /\ path' = [path EXCEPT ![s] = n]
          BY <2>2, <2>4
        <4> HIDE DEF n
        <4> QED
          BY <3>1, <4>1
      <3>4. \A x \in Session : path[x] \in Nat
        BY <3>1
      <3>5. ASSUME NEW x \in Session PROVE path'[x] <= Len(logs')
        <4>1. path'[x] = Len(logs) + 1 \/ path'[x] = path[x]
          BY <3>2
        <4> QED
          BY <2>4, <2>5, <3>1, <3>4, <4>1
      <3> QED
        BY <3>3, <3>5
    <2>8. Idle \in Job /\ Sound(Idle, self[p]) /\ Idle.at = "idle" /\ Idle.log = 0
      BY <2>1, IdleIsSound
    <2>9. LockedIn(Idle, self[p]) \ {0} = LockedIn(job[p], self[p]) \ {0}
      BY <2>1, <2>8 DEF LockedIn
    <2>10. KeepsGuards(p, Idle)
      BY <2>1, <2>2 DEF IInv, Guards, KeepsGuards
    <2>11. Core'
      <3>1. self' = self /\ guard' = guard /\ Idle.log <= Len(logs')
        BY <2>2, <2>4, <2>5, <2>8
      <3> QED
        BY <2>2, <2>5, <2>6, <2>7, <2>8, <2>9, <2>10, <3>1, GrowStep
    <2>12. ghost' \in Ghosts
      <3>1. ghost \in Ghosts
        BY DEF IInv, Types
      <3> DEFINE C == [ghost.chosen EXCEPT ![s] = job[p].value]
      <3>2. C \in [Session -> Model \union {Nothing}]
        BY <2>1, <3>1 DEF Ghosts
      <3>3. ghost' = [ghost EXCEPT !.chosen = C]
        BY <2>2
      <3> QED
        BY <3>1, <3>2, <3>3 DEF Ghosts
    <2> QED
      BY <2>2, <2>7, <2>11, <2>12, Typing DEF IInv, Types
  <1> QED
    BY <1>1, <1>2


LEMMA AppendSettingStep ==
    ASSUME IInv, NEW p \in Process, AppendSetting(p)
    PROVE  IInv'
  <1>1. CASE Fails(p)
    BY <1>1, FailsStep
  <1>2. CASE Gone(p)
    BY <1>2, GoneStep
  <1>3. CASE ~Fails(p) /\ ~Gone(p)
    <2> DEFINE i == IF job[p].cmd = "set" THEN self[p].log ELSE job[p].log
               v == job[p].value
               new == [logs[i] EXCEPT !.typed = TRUE, !.model = v]
               j == [job[p] EXCEPT !.at = "guard"]
    <2>1. /\ job[p].at = "append" /\ job[p].cmd \in {"open", "set"} /\ job[p].id \in Session
          /\ v \in Model
          /\ job[p].cmd = "set" => self[p].session # Nothing
          /\ job[p].cmd = "open" => job[p].log # 0
      BY <1>3, JobOf DEF AppendSetting, Sound, FitsIn
    <2>2. i \in 1 .. Len(logs)
      BY <2>1, JobOf DEF IInv, Named
    <2>3. /\ logs' = [logs EXCEPT ![i] = new]
          /\ UNCHANGED <<place, path, meta, guard, self, left>>
          /\ Goes(p, "guard")
      <3>1. /\ logs' = [logs EXCEPT ![i].typed = TRUE, ![i].model = v]
            /\ UNCHANGED <<place, path, meta, guard, self, left>>
            /\ Goes(p, "guard")
        BY <1>3 DEF AppendSetting
      <3>2. logs \in [1 .. Len(logs) -> LogFile]
        BY LenProperties, ElementOfSeq DEF IInv, Types
      <3> HIDE DEF i, v
      <3>3. [logs EXCEPT ![i].typed = TRUE, ![i].model = v] = [logs EXCEPT ![i] = new]
        BY <2>2, <3>2 DEF LogFile
      <3> QED
        BY <3>1, <3>3
    <2>4. new \in LogFile /\ new.holder = logs[i].holder
      <3>1. logs[i] \in LogFile
        BY <2>2, JobOf
      <3> QED
        BY <2>1, <3>1 DEF LogFile
    <2>5. job' = [job EXCEPT ![p] = j]
      BY <2>3 DEF Goes, IInv, Types
    <2>6. /\ j \in Job /\ j.at = "guard" /\ j.cmd = job[p].cmd /\ j.log = job[p].log
          /\ j.id = job[p].id /\ j.value = v
      BY <2>1, JobOf DEF Job, Stage
    <2> HIDE DEF i, v, new, j
    <2>7. Sound(j, self[p])
      BY <2>1, <2>6, JobOf DEF Sound, FitsIn, StandsIn, ApartIn
    <2>8. /\ logs' \in Seq(LogFile) /\ Len(logs') = Len(logs)
          /\ \A k \in 1 .. Len(logs) : logs'[k] = IF k = i THEN new ELSE logs[k]
      <3>1. logs \in Seq(LogFile)
        BY DEF IInv, Types
      <3> QED
        BY <2>2, <2>3, <2>4, <3>1, ExceptSeq
    <2>9. /\ Len(logs) <= Len(logs') /\ Len(logs') <= MaxLogs
          /\ \A k \in 1 .. Len(logs) : logs'[k].holder = logs[k].holder
          /\ \A k \in 1 .. Len(logs') : k > Len(logs) => logs'[k].holder = Nothing
      BY <2>4, <2>8, JobOf DEF IInv, Named
    <2>10. /\ path \in [Session -> Nat] /\ \A x \in Session : path'[x] <= Len(logs')
           /\ self' = self /\ guard' = guard /\ j.log <= Len(logs')
      BY <2>3, <2>6, <2>8, JobOf DEF IInv, Types
    <2>11. LockedIn(j, self[p]) \ {0} = LockedIn(job[p], self[p]) \ {0}
      BY <2>1, <2>6 DEF LockedIn
    <2>12. KeepsGuards(p, j)
      BY <2>1, <2>10 DEF IInv, Guards, KeepsGuards
    <2>13. Core'
      BY <2>5, <2>6, <2>7, <2>8, <2>9, <2>10, <2>11, <2>12, GrowStep
    <2>14. ghost' \in Ghosts
      <3> DEFINE C == [ghost.chosen EXCEPT ![job[p].id] =
                          IF job[p].cmd = "set" \/ job[p].asked THEN v ELSE @]
                 B == [ghost.behind EXCEPT ![job[p].id] = TRUE]
      <3>1. ghost \in Ghosts
        BY DEF IInv, Types
      <3>2. C \in [Session -> Model \union {Nothing}]
        BY <2>1, <3>1 DEF Ghosts
      <3>3. B \in [Session -> BOOLEAN]
        BY <2>1, <3>1 DEF Ghosts
      <3>4. ghost' = [ghost EXCEPT !.chosen = C, !.behind = B]
        BY <1>3 DEF AppendSetting, v
      <3> QED
        BY <3>1, <3>2, <3>3, <3>4 DEF Ghosts
    <2> QED
      BY <2>3, <2>13, <2>14, Typing DEF IInv, Types
  <1> QED
    BY <1>1, <1>2, <1>3

LEMMA RebuildStep ==
    ASSUME IInv, NEW p \in Process, Rebuild(p)
    PROVE  IInv'
  <1>1. CASE Fails(p)
    BY <1>1, FailsStep
  <1>2. CASE ~Fails(p)
    <2> DEFINE s == job[p].id
               i == Opens(s)
               ls == Filled(s)
               j == [job[p] EXCEPT !.at = "replay", !.log = i]
    <2>1. /\ job[p].at = "rebuild" /\ job[p].cmd \in {"rename", "list"} /\ s \in Session
          /\ job[p].log = 0 /\ self[p].cwd = self[p].session
          /\ job[p].cmd = "rename" => job[p].value \in Name
      BY <1>2, JobOf DEF Rebuild, Sound, FitsIn, StandsIn
    <2>2. /\ Creates(s) /\ ~ProbeBusy(s) /\ logs' = HeldIn(ls, i, p)
          /\ UNCHANGED <<place, meta, guard, self, left, ghost>>
          /\ job' = [job EXCEPT ![p] = j]
      BY <1>2 DEF Rebuild, HeldIn, IInv, Types
    <2>3. /\ ls \in Seq(LogFile)
          /\ Len(logs) <= Len(ls) /\ Len(ls) <= MaxLogs
          /\ \A k \in 1 .. Len(logs) : ls[k] = logs[k]
          /\ \A k \in 1 .. Len(ls) : k > Len(logs) => ls[k].holder = Nothing
          /\ i \in 1 .. Len(ls) /\ Len(ls) \in Nat /\ Len(logs) \in Nat
      BY <2>1, <2>2, FilledLogs, LenProperties, JobOf DEF Creates
    <2>4. ls[i].holder = Nothing /\ i # self[p].log
      <3>1. self[p].log \in 0 .. Len(logs)
        BY JobOf
      <3>2. CASE path[s] = 0
        <4>1. i = Len(logs) + 1
          BY <3>2 DEF Opens
        <4> QED
          BY <2>3, <3>1, <4>1
      <3>3. CASE path[s] # 0
        <4>1. i = path[s] /\ logs[i].holder = Nothing /\ i \in 1 .. Len(logs)
          BY <2>1, <2>2, <3>3, JobOf DEF Opens, ProbeBusy
        <4>2. i # self[p].log
          BY <4>1, Apart DEF IInv, Locks, LockedIn
        <4> QED
          BY <2>3, <4>1, <4>2
      <3> QED
        BY <3>2, <3>3
    <2>5. /\ j \in Job /\ j.at = "replay" /\ j.cmd = job[p].cmd /\ j.log = i /\ j.id = s
          /\ j.value = job[p].value
      <3>1. i \in Nat /\ job[p] \in Job /\ "replay" \in Stage
        BY <2>3, JobOf DEF Stage
      <3> QED
        BY <2>1, <3>1 DEF Job
    <2> HIDE DEF i, ls, j
    <2>6. /\ logs' \in Seq(LogFile) /\ Len(logs') = Len(ls)
          /\ \A k \in 1 .. Len(ls) : logs'[k].holder = IF k = i THEN p ELSE ls[k].holder
      <3>1. logs' = HeldIn(ls, i, p) /\ p \in Process \union {Nothing}
        BY <2>2
      <3> QED
        BY <2>3, <3>1, HeldByLogs
    <2>7. Sound(j, self[p])
      BY <2>1, <2>3, <2>4, <2>5 DEF Sound, FitsIn, StandsIn, ApartIn
    <2>8. path' \in [Session -> Nat] /\ \A x \in Session : path'[x] <= Len(logs')
      <3>1. path' = [path EXCEPT ![s] = i] /\ path \in [Session -> Nat]
        BY <2>2 DEF Creates, IInv, Types, i
      <3>2. \A x \in Session : path[x] <= Len(ls)
        BY <2>3, JobOf
      <3>3. i \in Nat /\ i <= Len(ls)
        BY <2>3
      <3>4. \A x \in Session : path'[x] = IF x = s THEN i ELSE path[x]
        BY <3>1
      <3>5. path' \in [Session -> Nat]
        BY <3>1, <3>3
      <3> QED
        BY <2>6, <3>2, <3>3, <3>4, <3>5
    <2>9. self' = [self EXCEPT ![p] = self[p]] /\ self[p] \in Self
      BY <2>2, JobOf DEF IInv, Types
    <2>10. /\ self[p].session # Nothing => self[p].log # 0
           /\ self[p].log \in 0 .. Len(logs)
      BY JobOf DEF IInv, Named
    <2>11. /\ Len(logs') \in Nat /\ Len(logs) <= Len(logs') /\ Len(logs') <= MaxLogs
           /\ j.log <= Len(logs') /\ self[p].log <= Len(logs')
      BY <2>3, <2>5, <2>6, <2>10
    <2>12. Named'
      BY <2>2, <2>5, <2>7, <2>8, <2>9, <2>10, <2>11, StepNamed
    <2>13. Guards'
      <3>1. KeepsGuards(p, j)
        BY <2>1, <2>2, <2>5 DEF IInv, Guards, KeepsGuards
      <3> QED
        BY <2>2, <2>5, <2>7, <2>9, <3>1, StepGuards
    <2>14. ASSUME NEW k \in 1 .. Len(logs')
           PROVE  logs'[k].holder = p <=> k \in LockedIn(j, self[p])
      <3>1. CASE k = i
        BY <2>3, <2>5, <2>6, <3>1 DEF LockedIn
      <3>2. CASE k # i /\ k <= Len(logs)
        <4>1. logs'[k].holder = logs[k].holder /\ k \in 1 .. Len(logs)
          BY <2>3, <2>6, <3>2
        <4>2. logs[k].holder = p <=> k = self[p].log
          BY <2>1, <4>1 DEF IInv, Locks, LockedIn
        <4> QED
          BY <2>5, <3>2, <4>1, <4>2 DEF LockedIn
      <3>3. CASE k # i /\ k > Len(logs)
        <4>1. logs'[k].holder = Nothing /\ k # self[p].log
          BY <2>3, <2>6, <2>10, <3>3
        <4> QED
          BY <2>5, <3>3, <4>1, Apart DEF LockedIn
      <3> QED
        BY <2>3, <2>11, <3>1, <3>2, <3>3
    <2>15. ASSUME NEW k \in 1 .. Len(logs'), NEW q \in Process \ {p}
           PROVE  logs'[k].holder = q <=> k <= Len(logs) /\ logs[k].holder = q
      <3>1. CASE k = i
        <4>1. logs'[k].holder = p
          BY <2>3, <2>6, <3>1
        <4>2. k <= Len(logs) => logs[k].holder = Nothing
          BY <2>3, <2>4, <3>1
        <4> QED
          BY <4>1, <4>2, Apart
      <3>2. CASE k # i /\ k <= Len(logs)
        BY <2>3, <2>6, <3>2
      <3>3. CASE k # i /\ ~(k <= Len(logs))
        BY <2>3, <2>6, <3>3, Apart
      <3> QED
        BY <3>1, <3>2, <3>3
    <2>16. Locks'
      BY <2>2, <2>5, <2>7, <2>9, <2>11, <2>14, <2>15, StepLocks
    <2>17. /\ job' \in [Process -> Job] /\ self' \in [Process -> Self]
           /\ \A q \in Process : Sound(job'[q], self'[q])
      BY <2>2, <2>5, <2>7, <2>9, StepSound
    <2>18. Core'
      BY <2>6, <2>12, <2>13, <2>16, <2>17 DEF Core
    <2> QED
      BY <2>2, <2>8, <2>18, Typing DEF IInv, Types
  <1> QED
    BY <1>1, <1>2

LEMMA RebuiltStep ==
    ASSUME IInv, NEW p \in Process, Rebuilt(p)
    PROVE  IInv'
  <1>1. CASE Fails(p)
    BY <1>1, FailsStep
  <1>2. CASE ~Fails(p)
    <2> DEFINE i == job[p].log
               c == [model |-> logs[i].model, name |-> job[p].value]
               j == [job[p] EXCEPT !.at = "write", !.log = 0, !.cache = c]
    <2>1. /\ job[p].at = "replay" /\ job[p].cmd = "rename" /\ job[p].id \in Session
          /\ i # 0 /\ job[p].value \in Name /\ self[p].cwd = self[p].session
          /\ i # self[p].log
      BY <1>2, JobOf DEF Rebuilt, Sound, FitsIn, StandsIn, ApartIn
    <2>2. /\ logs[i].model # Nothing /\ logs' = HeldIn(logs, i, Nothing)
          /\ UNCHANGED <<place, path, meta, guard, self, left, ghost>>
      BY <1>2 DEF Rebuilt, HeldBy, HeldIn
    <2>3. job' = [job EXCEPT ![p] = j]
      <3>1. job' = [job EXCEPT ![p].at = "write", ![p].log = 0, ![p].cache = c]
        BY <1>2 DEF Rebuilt
      <3> QED
        BY <3>1 DEF IInv, Types
    <2>4. i \in 1 .. Len(logs) /\ logs[i] \in LogFile
      BY <2>1, JobOf
    <2>5. c \in Cache
      BY <2>1, <2>2, <2>4 DEF Cache, LogFile
    <2> HIDE DEF c
    <2>6. /\ j \in Job /\ j.at = "write" /\ j.cmd = "rename" /\ j.log = 0
          /\ j.id = job[p].id /\ j.value = job[p].value /\ j.cache = c
      <3>1. job[p] \in Job /\ "write" \in Stage
        BY JobOf DEF Stage
      <3> QED
        BY <2>1, <2>5, <3>1 DEF Job
    <2> HIDE DEF j
    <2>7. Sound(j, self[p])
      BY <2>1, <2>5, <2>6 DEF Sound, FitsIn, StandsIn, ApartIn
    <2>8. logs[i].holder = p
      BY <2>1, <2>4 DEF IInv, Locks, LockedIn
    <2>9. /\ i \notin LockedIn(j, self[p]) /\ Nothing # p
          /\ LockedIn(j, self[p]) \ {0, i} = LockedIn(job[p], self[p]) \ {0, i}
      BY <2>1, <2>6, Apart DEF LockedIn
    <2>10. KeepsGuards(p, j)
      BY <2>1, <2>2, <2>6 DEF IInv, Guards, KeepsGuards
    <2>11. self' = [self EXCEPT ![p] = self[p]] /\ self[p] \in Self
      BY <2>2, JobOf DEF IInv, Types
    <2>12. /\ self[p].session # Nothing => self[p].log # 0
           /\ j.log <= Len(logs) /\ self[p].log <= Len(logs) /\ path' = path
      BY <2>2, <2>6, JobOf DEF IInv, Named
    <2> HIDE DEF i
    <2>13. Core'
      <3>1. logs' = HeldIn(logs, i, Nothing) /\ logs[i].holder \in {p, Nothing}
        BY <2>2, <2>8
      <3>2. i \in 1 .. Len(logs) /\ ((i \in LockedIn(j, self[p])) <=> (Nothing = p))
        BY <2>4, <2>9
      <3>3. LockedIn(j, self[p]) \ {0, i} = LockedIn(job[p], self[p]) \ {0, i}
        BY <2>9
      <3>4. j \in Job
        BY <2>6
      <3> QED
        BY <2>3, <2>7, <2>10, <2>11, <2>12, <3>1, <3>2, <3>3, <3>4, HoldStep
    <2> QED
      BY <2>2, <2>13, Typing DEF IInv, Types
  <1> QED
    BY <1>1, <1>2


-----------------------------------------------------------------------------
(* The invariant holds at first, and every step keeps it.                    *)
LEMMA InitIInv == Init => IInv
  <1> SUFFICES ASSUME Init PROVE IInv
    OBVIOUS
  <1>1. PICK s \in Session, where \in {"live", "trash"}, m \in Model, cached \in BOOLEAN :
            /\ where = "live" \/ cached
            /\ place = [x \in Session |-> IF x = s THEN where ELSE "none"]
            /\ path = [x \in Session |-> IF x = s THEN 1 ELSE 0]
            /\ logs = <<Log(TRUE, m)>>
            /\ meta = [x \in Session |->
                  IF x = s /\ cached THEN [model |-> m, name |-> Nothing] ELSE Nothing]
            /\ guard = [x \in Session |-> Nothing]
            /\ self = [p \in Process |-> NoSelf]
            /\ job = [p \in Process |-> Idle]
            /\ left = MaxCommands
            /\ ghost = [chosen |-> [x \in Session |-> IF x = s THEN m ELSE Nothing],
                        named |-> [x \in Session |-> Nothing],
                        behind |-> [x \in Session |-> FALSE], raced |-> FALSE]
    BY Zenon DEF Init
  <1>2. NoSelf \in Self /\ NoSelf.cwd = NoSelf.session /\ NoSelf.log = 0 /\ NoSelf.session = Nothing
    BY SessionsAssumption DEF NoSelf, Self
  <1>3. Idle \in Job /\ Sound(Idle, NoSelf) /\ Idle.at = "idle" /\ Idle.log = 0
    BY <1>2, IdleIsSound
  <1>4. Log(TRUE, m) \in LogFile /\ Log(TRUE, m).holder = Nothing
    BY DEF Log, LogFile
  <1>5. /\ logs \in Seq(LogFile) /\ Len(logs) = 1
        /\ \A i \in 1 .. Len(logs) : logs[i].holder = Nothing
    <2> DEFINE new == Log(TRUE, m)
    <2>1. logs = <<new>> /\ new \in LogFile /\ new.holder = Nothing
      BY <1>1, <1>4
    <2> HIDE DEF new
    <2>2. <<new>> \in Seq(LogFile) /\ Len(<<new>>) = 1 /\ <<new>>[1] = new
      BY <2>1
    <2>3. \A i \in 1 .. 1 : i = 1
      OBVIOUS
    <2> QED
      BY <2>1, <2>2, <2>3
  <1>6. Types
    <2>1. place \in [Session -> Places] /\ path \in [Session -> Nat]
      BY <1>1 DEF Places
    <2>2. meta \in [Session -> Cache \union {Nothing}]
      BY <1>1 DEF Cache
    <2>3. guard \in [Session -> Process \union {Nothing}]
      BY <1>1
    <2>4. self \in [Process -> Self] /\ job \in [Process -> Job]
      BY <1>1, <1>2, <1>3
    <2>5. left \in 0 .. MaxCommands
      BY <1>1, SessionsAssumption
    <2>6. ghost \in Ghosts
      BY <1>1 DEF Ghosts
    <2> QED
      BY <1>5, <2>1, <2>2, <2>3, <2>4, <2>5, <2>6 DEF Types
  <1>7. Named
    <2>1. 1 <= MaxLogs
      BY SessionsAssumption
    <2> QED
      BY <1>1, <1>2, <1>3, <1>5, <2>1 DEF Named
  <1>8. \A p \in Process : Sound(job[p], self[p])
    BY <1>1, <1>3
  <1>9. Guards
    BY <1>1, Apart DEF Guards
  <1>10. Locks
    <2>1. \A p \in Process : LockedIn(job[p], self[p]) = {0}
      BY <1>1, <1>2, <1>3 DEF LockedIn
    <2>2. Len(logs) \in Nat /\ \A i \in 1 .. Len(logs) : i \notin {0}
      BY <1>5
    <2> QED
      BY <1>5, <2>1, <2>2, Apart DEF Locks
  <1> QED
    BY <1>6, <1>7, <1>8, <1>9, <1>10 DEF IInv

LEMMA NextIInv == IInv /\ [Next]_vars => IInv'
  <1> SUFFICES ASSUME IInv, [Next]_vars PROVE IInv'
    OBVIOUS
  <1>1. ASSUME NEW p \in Process, Command(p) \/ \E m \in Model : SetModel(p, m)
        PROVE  IInv'
    BY <1>1, CommandStep
  <1>2. ASSUME NEW p \in Process, Step(p)
        PROVE  IInv'
    <2>1. CASE OpenLog(p) \/ LockLog(p) \/ Restore(p) \/ AppendSetting(p)
      BY <2>1, OpenLogStep, LockLogStep, RestoreStep, AppendSettingStep
    <2>2. CASE LockCache(p) \/ ReadCache(p) \/ Rebuild(p) \/ Rebuilt(p)
      BY <2>2, LockCacheStep, ReadCacheStep, RebuildStep, RebuiltStep
    <2>3. CASE WriteCache(p) \/ Publish(p) \/ Adopt(p)
      BY <2>3, WriteCacheStep, PublishStep, AdoptStep
    <2>4. CASE Move(p) \/ Unlink(p) \/ RemoveDirectory(p)
      BY <2>4, MoveStep
    <2> QED
      BY <1>2, <2>1, <2>2, <2>3, <2>4 DEF Step
  <1>3. ASSUME NEW p \in Process, Exit(p)
        PROVE  IInv'
    BY <1>3, GoneStep DEF Exit
  <1>4. CASE UNCHANGED vars
    BY <1>4 DEF vars, IInv, Types, Named, Guards, Locks
  <1> QED
    BY <1>1, <1>2, <1>3, <1>4 DEF Next

LEMMA IInvTypeOK == IInv => TypeOK
  <1> SUFFICES ASSUME IInv PROVE TypeOK
    OBVIOUS
  <1>1. /\ place \in [Session -> Places] /\ left \in 0 .. MaxCommands /\ ghost \in Ghosts
        /\ guard \in [Session -> Process \union {Nothing}]
        /\ Len(logs) <= MaxLogs
    BY DEF IInv, Types, Named
  <1>2. Len(logs) \in Nat /\ DOMAIN logs = 1 .. Len(logs)
    BY LenProperties DEF IInv, Types
  <1>3. path \in [Session -> 0 .. Len(logs)]
    BY <1>2 DEF IInv, Types, Named
  <1>4. \A i \in DOMAIN logs :
          logs[i] \in [typed: BOOLEAN, model: Model \union {Nothing},
                       holder: Process \union {Nothing}]
    BY <1>2, ElementOfSeq DEF IInv, Types, LogFile
  <1>5. meta \in [Session -> [model: Model, name: Name \union {Nothing}] \union {Nothing}]
    BY DEF IInv, Types, Cache
  <1>6. self \in [Process -> [session: Session \union {Nothing}, log: 0 .. Len(logs),
                              model: Model, cwd: Session \union {Nothing}]]
    BY <1>2 DEF IInv, Types, Named, Self
  <1> QED
    BY <1>1, <1>3, <1>4, <1>5, <1>6 DEF TypeOK

LEMMA IInvSwitchIsWhole == IInv => SwitchIsWhole
  <1> SUFFICES ASSUME IInv, NEW p \in Process, job[p].at = "idle"
               PROVE  /\ {i \in DOMAIN logs : logs[i].holder = p} = {self[p].log} \ {0}
                      /\ self[p].cwd = self[p].session
                      /\ p \notin {guard[s] : s \in Session}
    BY DEF SwitchIsWhole
  <1>1. /\ job[p].log = 0 /\ self[p].cwd = self[p].session
        /\ self[p].log \in 0 .. Len(logs)
        /\ DOMAIN logs = 1 .. Len(logs) /\ Len(logs) \in Nat
    BY JobOf DEF Sound, FitsIn, StandsIn, Idle
  <1>2. \A i \in 1 .. Len(logs) : logs[i].holder = p <=> i = self[p].log
    BY <1>1 DEF IInv, Locks, LockedIn
  <1>3. {i \in DOMAIN logs : logs[i].holder = p} = {self[p].log} \ {0}
    BY <1>1, <1>2
  <1>4. p \notin {guard[s] : s \in Session}
    BY DEF IInv, Guards
  <1> QED
    BY <1>1, <1>3, <1>4

(* Every state has its types: no more logs than allowed, and nobody names a  *)
(* log that does not exist, whatever the number of processes and sessions.   *)
THEOREM SessionsTyped == Spec => []TypeOK
  BY InitIInv, NextIInv, IInvTypeOK, PTL DEF Spec

(* A switch happens as a whole (cli_session_switch.c): between commands a    *)
(* process has locked the log of its session and no other, stands in that    *)
(* session's directory and holds no metadata lock, after any command that    *)
(* succeeded, failed half way, or met another process.                       *)
THEOREM SwitchesAreWhole == Spec => []SwitchIsWhole
  BY InitIInv, NextIInv, IInvSwitchIsWhole, PTL DEF Spec

(* Two processes never have the same log as their session's: its lock        *)
(* excludes, through every open, rebuild, switch, death and deletion.        *)
ExclusiveLogs ==
    \A p, q \in Process : self[p].log # 0 /\ self[p].log = self[q].log => p = q

(* No two processes write the same log, whatever is trashed, restored,       *)
(* deleted or imported meanwhile (the lock of sesslog.c on an open log).     *)
THEOREM LogsAreExclusive == Spec => []ExclusiveLogs
  <1>1. IInv => ExclusiveLogs
    <2> SUFFICES ASSUME IInv, NEW p \in Process, NEW q \in Process,
                        self[p].log # 0, self[p].log = self[q].log
                 PROVE  p = q
      BY DEF ExclusiveLogs
    <2>1. self[p].log \in 1 .. Len(logs)
      BY JobOf
    <2>2. logs[self[p].log].holder = p
      BY <2>1 DEF IInv, Locks, LockedIn
    <2>3. logs[self[p].log].holder = q
      BY <2>1 DEF IInv, Locks, LockedIn
    <2> QED
      BY <2>2, <2>3
  <1> QED
    BY <1>1, InitIInv, NextIInv, PTL DEF Spec

-----------------------------------------------------------------------------
(* What becomes of the chosen model and of the cache.                        *)

(* A process that works on a session, or renames it, from the opening of     *)
(* its log on.                                                               *)
Uses(p, s) ==
    \/ self[p].session = s
    \/ job[p].id = s /\ \/ job[p].cmd = "open" /\ job[p].at # "open"
                        \/ job[p].cmd = "rename"

(* An id that is not taken has no log, and nobody is about it.  A session    *)
(* that is used is live, and nobody is about to move, empty or replace it.   *)
Unused ==
    \A s \in Session : place[s] = "none" =>
        /\ path[s] = 0
        /\ \A p \in Process : self[p].session # s /\ job[p].id # s

AtHome == \A p \in Process, s \in Session : Uses(p, s) => place[s] = "live"

NoGap == \A p \in Process, s \in Session : Uses(p, s) => ~InGap(s)

(* A command that works on the cache has the lock of it.                     *)
CacheStages == {"read", "rebuild", "replay", "write", "publish"}

Guarded ==
    \A p \in Process :
        job[p].at \in CacheStages /\ job[p].cmd # "list" => guard[job[p].id] = p

(* Two sessions never have the same log; a session without a log has nothing *)
(* else, and one without a cache has not been named.                         *)
OneEach ==
    \A s, t \in Session : path[s] = path[t] /\ path[s] # 0 => s = t

Empty ==
    \A s \in Session :
        /\ path[s] = 0 => ghost.chosen[s] = Nothing /\ meta[s] = Nothing
        /\ meta[s] = Nothing => ghost.named[s] = Nothing
        /\ \A p \in Process : job[p].id = s /\ job[p].at = "adopt" => meta[s] = Nothing

(* A process m in a command j, between paths P and logs L, with the ghosts   *)
(* G: its session's log is the one the path names and has its model, or the  *)
(* one it is about to have; so has the log that an open is at; and what is   *)
(* about to be written to the cache is what should be there.                 *)
LogHas(j, m, P, L) ==
    m.session # Nothing =>
       /\ m.log = P[m.session]
       /\ L[m.log].model = IF j.cmd = "set" /\ j.at \notin {"idle", "append"}
                           THEN j.value ELSE m.model

JobHas(j, m, P, L) ==
    j.at # "idle" =>
    /\ j.cmd = "set" => j.id = m.session
    /\ j.cmd \in {"set", "open", "rename", "import"} => j.in = "live"
    /\ j.at \in {"unlink", "rmdir"} => j.in = "trash"
    /\ j.cmd = "open" /\ j.at # "open" => j.log = P[j.id]
    /\ j.cmd = "rename" /\ j.at = "replay" => j.log = P[j.id]
    /\ j.cmd = "open" /\ j.at = "append" => j.asked
    /\ j.cmd = "open" /\ j.at \notin {"open", "lock", "restore", "append"} =>
            L[j.log].model = j.value

CacheHas(j, P, L, G) ==
    j.at \in {"write", "publish"} =>
        /\ P[j.id] # 0
        /\ j.cache.name = IF j.cmd = "rename" THEN j.value ELSE G.named[j.id]
        /\ IF j.cmd = "rename"
           THEN ~G.behind[j.id] => j.cache.model = L[P[j.id]].model
           ELSE j.cache.model = j.value

Has(j, m, P, L, G) == LogHas(j, m, P, L) /\ JobHas(j, m, P, L) /\ CacheHas(j, P, L, G)

Chosen ==
    \A s \in Session :
        path[s] # 0 /\ ghost.chosen[s] # Nothing => logs[path[s]].model = ghost.chosen[s]

Merged ==
    \A s \in Session : meta[s] # Nothing =>
        /\ meta[s].name = ghost.named[s]
        /\ ~ghost.behind[s] => meta[s].model = logs[path[s]].model

Where == Unused /\ AtHome /\ NoGap /\ Guarded

What ==
    /\ OneEach /\ Empty
    /\ \A p \in Process : Has(job[p], self[p], path, logs, ghost)
    /\ Chosen /\ Merged

Steady == Where /\ What

SInv == ~ghost.raced => Steady

-----------------------------------------------------------------------------
(* A step of p.                                                              *)
Only(p) == \A q \in Process \ {p} : job'[q] = job[q] /\ self'[q] = self[q]

(* What p is about afterwards is a session, it begins to use one only where  *)
(* it may, and comes into a gap only where nobody else is.                   *)
Enters(p) ==
    /\ \A s \in Session : self'[p].session = s \/ job'[p].id = s => place'[s] # "none"
    /\ \A s \in Session : Uses(p, s)' => Uses(p, s) \/ (place'[s] = "live" /\ ~InGap(s))
    /\ \A s \in Session :
          job'[p].id = s /\ job'[p].at \in {"move", "unlink", "adopt"} =>
             ~Uses(p, s)' /\ \A q \in Process \ {p} : ~Uses(q, s)

PlacesKept ==
    \A s \in Session :
        \/ place'[s] = place[s]
        \/ place'[s] # "none" /\ \A q \in Process : ~Uses(q, s)

HoldsOn(p) ==
    /\ \A s \in Session, q \in Process \ {p} : guard[s] = q /\ Uses(q, s) => guard'[s] = q
    /\ job'[p].at \in CacheStages /\ job'[p].cmd # "list" => guard'[job'[p].id] = p

(* Who writes to the cache uses the session.                                 *)
LEMMA WritersUse ==
    ASSUME IInv, What, NEW q \in Process,
           job[q].at \in CacheStages, job[q].cmd # "list"
    PROVE  job[q].id \in Session /\ Uses(q, job[q].id)
  <1>1. /\ job[q].id \in Session /\ job[q].at \notin {"idle", "open"}
        /\ job[q].cmd \in {"open", "set", "rename"}
    BY JobOf DEF Sound, FitsIn, CacheStages
  <1>2. job[q].cmd = "set" /\ job[q].at # "idle" => job[q].id = self[q].session
    BY DEF What, Has, JobHas
  <1> QED
    BY <1>1, <1>2 DEF Uses

LEMMA WhereStep ==
    ASSUME IInv, Steady, NEW p \in Process, Only(p), PlacesKept, Enters(p), HoldsOn(p),
           \A s \in Session : place[s] = "none" /\ place'[s] = "none" => path'[s] = 0
    PROVE  Where'
  <1>1. \A q \in Process \ {p}, s \in Session : Uses(q, s)' <=> Uses(q, s)
    BY DEF Only, Uses
  <1>2. Unused'
    <2> SUFFICES ASSUME NEW s \in Session, place'[s] = "none"
                 PROVE  /\ path'[s] = 0
                        /\ \A q \in Process : self'[q].session # s /\ job'[q].id # s
      BY DEF Unused
    <2>1. place[s] = "none"
      BY DEF PlacesKept
    <2>2. path'[s] = 0
      BY <2>1
    <2>3. self'[p].session # s /\ job'[p].id # s
      BY DEF Enters
    <2>4. \A q \in Process \ {p} : self'[q].session # s /\ job'[q].id # s
      BY <2>1 DEF Steady, Where, Unused, Only
    <2> QED
      BY <2>2, <2>3, <2>4
  <1>3. ASSUME NEW q \in Process, NEW s \in Session, Uses(q, s)'
        PROVE  place'[s] = "live" /\ ~InGap(s)'
    <2>1. Uses(q, s) \/ (q = p /\ place'[s] = "live" /\ ~InGap(s))
      BY <1>1, <1>3 DEF Enters
    <2>2. place'[s] = "live" /\ ~InGap(s)
      BY <2>1 DEF Steady, Where, AtHome, NoGap, PlacesKept
    <2>3. ASSUME NEW r \in Process, job'[r].id = s, job'[r].at \in {"move", "unlink", "adopt"}
          PROVE  FALSE
      <3>1. r = p
        BY <2>2, <2>3 DEF Only, InGap
      <3>2. ~Uses(p, s)' /\ \A x \in Process \ {p} : ~Uses(x, s)
        BY <2>3, <3>1 DEF Enters
      <3> QED
        BY <1>1, <1>3, <3>2
    <2> QED
      BY <2>2, <2>3 DEF InGap
  <1>4. Guarded'
    <2> SUFFICES ASSUME NEW q \in Process, job'[q].at \in CacheStages, job'[q].cmd # "list"
                 PROVE  guard'[job'[q].id] = q
      BY DEF Guarded
    <2>1. CASE q = p
      BY <2>1 DEF HoldsOn
    <2>2. CASE q # p
      <3>1. job'[q] = job[q]
        BY <2>2 DEF Only
      <3>2. job[q].id \in Session /\ Uses(q, job[q].id)
        BY <3>1, WritersUse DEF Steady
      <3>3. guard[job[q].id] = q
        BY <3>1 DEF Steady, Where, Guarded
      <3> QED
        BY <2>2, <3>1, <3>2, <3>3 DEF HoldsOn
    <2> QED
      BY <2>1, <2>2
  <1> QED
    BY <1>2, <1>3, <1>4 DEF Where, AtHome, NoGap

(* A step that leaves what is in the logs, the cache and the ghosts, and     *)
(* gives a log at most to a session that has none.                           *)
SameModels == \A i \in 1 .. Len(logs) : logs'[i].model = logs[i].model

SameGhosts ==
    /\ ghost'.chosen = ghost.chosen
    /\ ghost'.named = ghost.named
    /\ ghost'.behind = ghost.behind

PathsKept == \A s \in Session : path'[s] = path[s] \/ path[s] = 0

(* The logs a process refers to are there.                                   *)
LEMMA Referred ==
    ASSUME IInv, What, NEW q \in Process
    PROVE  /\ self[q].session # Nothing =>
                 /\ self[q].session \in Session
                 /\ self[q].log \in 1 .. Len(logs) /\ path[self[q].session] = self[q].log
           /\ job[q].at # "idle" => job[q].id \in Session
           /\ job[q].cmd = "open" /\ job[q].at \notin {"idle", "open"} =>
                 job[q].log \in 1 .. Len(logs) /\ path[job[q].id] = job[q].log
           /\ job[q].cmd = "rename" /\ job[q].at = "replay" =>
                 job[q].log \in 1 .. Len(logs) /\ path[job[q].id] = job[q].log
           /\ job[q].at \in {"write", "publish"} => path[job[q].id] \in 1 .. Len(logs)
  <1>1. Has(job[q], self[q], path, logs, ghost)
    BY DEF What
  <1>2. self[q].session # Nothing => self[q].session \in Session /\ self[q].log # 0
    BY JobOf DEF IInv, Named, Self
  <1>3. job[q].at # "idle" => job[q].id \in Session
    BY JobOf DEF Sound, FitsIn
  <1>4. /\ job[q].cmd = "open" /\ job[q].at \notin {"idle", "open"} => job[q].log # 0
        /\ job[q].at = "replay" => job[q].log # 0
    BY JobOf DEF Sound, FitsIn
  <1> QED
    BY <1>1, <1>2, <1>3, <1>4, JobOf DEF Has, LogHas, JobHas, CacheHas

(* What is held of a process stays so when another changes no path it uses,  *)
(* no log it has locked, and marks the cache of a log it does change.        *)
LEMMA HasStays ==
    ASSUME IInv, What, NEW q \in Process, job'[q] = job[q], self'[q] = self[q],
           \A s \in Session : path'[s] = path[s] \/ path[s] = 0 \/ ~Uses(q, s),
           job[q].at \in {"write", "publish"} =>
               /\ ghost'.named[job[q].id] = ghost.named[job[q].id]
               /\ ghost.behind[job[q].id] => ghost'.behind[job[q].id],
           \A i \in 1 .. Len(logs) :
               \/ logs'[i].model = logs[i].model
               \/ logs[i].holder # q /\ \A s \in Session : path[s] = i => ghost'.behind[s]
    PROVE  Has(job'[q], self'[q], path', logs', ghost')
  <1>1. Has(job[q], self[q], path, logs, ghost)
    BY DEF What
  <1> DEFINE j == job[q]
             m == self[q]
  <1>2. \A i \in 1 .. Len(logs) :
           i \in LockedIn(job[q], self[q]) => logs'[i].model = logs[i].model
    BY DEF IInv, Locks
  <1>3. m.session # Nothing =>
           path'[m.session] = path[m.session] /\ logs'[m.log].model = logs[m.log].model
    BY <1>2, Referred DEF Uses, LockedIn
  <1>4. j.cmd = "open" /\ j.at \notin {"idle", "open"} =>
           /\ path'[j.id] = path[j.id]
           /\ j.at # "lock" => logs'[j.log].model = logs[j.log].model
    BY <1>2, Referred DEF Uses, LockedIn
  <1>5. j.cmd = "rename" /\ j.at = "replay" => path'[j.id] = path[j.id]
    BY Referred DEF Uses
  <1>6. j.at \in {"write", "publish"} =>
           /\ path'[j.id] = path[j.id]
           /\ ~ghost'.behind[j.id] => logs'[path[j.id]].model = logs[path[j.id]].model
    <2> HAVE j.at \in {"write", "publish"}
    <2>1. j.cmd # "list"
      BY JobOf DEF Sound, FitsIn
    <2>2. j.id \in Session /\ Uses(q, j.id)
      BY <2>1, WritersUse DEF CacheStages
    <2>3. path[j.id] \in 1 .. Len(logs)
      BY Referred
    <2> QED
      BY <2>2, <2>3
  <1>7. LogHas(j, m, path', logs')
    BY <1>1, <1>3 DEF Has, LogHas
  <1>8. JobHas(j, m, path', logs')
    BY <1>1, <1>4, <1>5 DEF Has, JobHas
  <1>9. CacheHas(j, path', logs', ghost')
    BY <1>1, <1>6 DEF Has, CacheHas
  <1> QED
    BY <1>7, <1>8, <1>9 DEF Has

LEMMA WhatStep ==
    ASSUME IInv, What, NEW p \in Process, Only(p), meta' = meta, SameGhosts,
           OneEach', PathsKept, SameModels,
           Has(job'[p], self'[p], path', logs', ghost'),
           \A s \in Session : job'[p].id = s /\ job'[p].at = "adopt" => meta[s] = Nothing
    PROVE  What'
  <1>1. \A q \in Process \ {p} : Has(job'[q], self'[q], path', logs', ghost')
    BY HasStays DEF Only, SameModels, SameGhosts, PathsKept
  <1>2. Empty'
    BY DEF What, Empty, PathsKept, SameGhosts, Only
  <1>3. \A s \in Session : path[s] # 0 => path[s] \in 1 .. Len(logs)
    BY JobOf
  <1>4. Chosen'
    BY <1>3 DEF What, Chosen, Empty, PathsKept, SameGhosts, SameModels
  <1>5. Merged'
    BY <1>3 DEF What, Merged, Empty, PathsKept, SameGhosts, SameModels
  <1> QED
    BY <1>1, <1>2, <1>4, <1>5 DEF What

-----------------------------------------------------------------------------
(* Steps that leave the sessions' data alone.                                *)
LEMMA OneStep ==
    ASSUME IInv, NEW p \in Process, NEW j, NEW m,
           job' = [job EXCEPT ![p] = j],
           (self' = self /\ m = self[p]) \/ self' = [self EXCEPT ![p] = m]
    PROVE  Only(p) /\ job'[p] = j /\ self'[p] = m
  BY DEF IInv, Types, Only

LEMMA NoGhosts ==
    ASSUME IInv, NEW b \in BOOLEAN, ~ghost'.raced,
           ghost' = ghost \/ ghost' = [ghost EXCEPT !.raced = @ \/ b]
    PROVE  /\ SameGhosts
           /\ ghost' # ghost => ~b
           /\ ghost' = [ghost EXCEPT !.raced = @ \/ b] => ~b
  <1>1. ghost \in Ghosts
    BY DEF IInv, Types
  <1>2. CASE ghost' = [ghost EXCEPT !.raced = @ \/ b]
    BY <1>1, <1>2 DEF Ghosts, SameGhosts
  <1>3. CASE ghost' = ghost
    BY <1>1, <1>3 DEF Ghosts, SameGhosts
  <1> QED
    BY <1>2, <1>3

(* A command of p goes on.                                                   *)
LEMMA StaysWhere ==
    ASSUME IInv, Steady, NEW p \in Process, Only(p), place' = place,
           \A s \in Session : place[s] = "none" => path'[s] = path[s],
           self'[p].session = self[p].session,
           job'[p].id = job[p].id, job'[p].cmd = job[p].cmd,
           job[p].at # "open",
           job'[p].at \notin {"move", "unlink", "adopt"}, HoldsOn(p)
    PROVE  Where'
  <1>1. Enters(p)
    BY DEF Enters, Uses, Steady, Where, Unused
  <1>2. PlacesKept
    BY DEF PlacesKept
  <1>3. \A s \in Session : place[s] = "none" /\ place'[s] = "none" => path'[s] = 0
    BY DEF Steady, Where, Unused
  <1> QED
    BY <1>1, <1>2, <1>3, WhereStep

LEMMA StaysSteady ==
    ASSUME IInv, Steady, NEW p \in Process, Only(p),
           place' = place, meta' = meta, SameGhosts, SameModels, OneEach', PathsKept,
           \A s \in Session : place[s] = "none" => path'[s] = path[s],
           self'[p].session = self[p].session,
           job'[p].id = job[p].id, job'[p].cmd = job[p].cmd,
           job[p].at # "open",
           job'[p].at \notin {"move", "unlink", "adopt"}, HoldsOn(p),
           Has(job'[p], self'[p], path', logs', ghost')
    PROVE  Steady'
  <1>1. Where'
    BY StaysWhere
  <1>2. What'
    BY WhatStep DEF Steady
  <1> QED
    BY <1>1, <1>2 DEF Steady

LEMMA IdleHas ==
    ASSUME NEW m, NEW P, NEW L, NEW G, LogHas(Idle, m, P, L)
    PROVE  Has(Idle, m, P, L, G)
  BY DEF Has, JobHas, CacheHas, Idle

(* A command of p ends.                                                      *)
LEMMA EndsWhere ==
    ASSUME IInv, Steady, NEW p \in Process, Only(p), job'[p] = Idle, PlacesKept,
           \A s \in Session : place[s] = "none" => path'[s] = 0,
           \A s \in Session : self'[p].session = s => Uses(p, s),
           \A s \in Session, q \in Process \ {p} :
               guard[s] = q /\ Uses(q, s) => guard'[s] = q
    PROVE  Where'
  <1>1. \A s \in Session : Idle.id # s /\ Idle.at = "idle"
    BY Apart DEF Idle
  <1>2. Enters(p)
    <2>1. \A s \in Session : Uses(p, s)' => Uses(p, s)
      BY <1>1 DEF Uses
    <2>2. \A s \in Session : self'[p].session = s => place'[s] # "none"
      BY DEF PlacesKept, Steady, Where, AtHome
    <2> QED
      BY <1>1, <2>1, <2>2 DEF Enters
  <1>3. HoldsOn(p)
    BY <1>1 DEF HoldsOn, CacheStages, Idle
  <1> QED
    BY <1>2, <1>3, WhereStep

LEMMA EndsSteady ==
    ASSUME IInv, Steady, NEW p \in Process, Only(p), job'[p] = Idle,
           path' = path, meta' = meta, SameGhosts, SameModels, PlacesKept,
           \A s \in Session : self'[p].session = s => Uses(p, s),
           LogHas(Idle, self'[p], path', logs'),
           \A s \in Session, q \in Process \ {p} : guard[s] = q => guard'[s] = q
    PROVE  Steady'
  <1>1. Where'
    <2>1. \A s \in Session : place[s] = "none" => path'[s] = 0
      BY DEF Steady, Where, Unused
    <2> QED
      BY <2>1, EndsWhere
  <1>2. What'
    <2>1. OneEach' /\ PathsKept
      BY DEF Steady, What, OneEach, PathsKept
    <2>2. Has(job'[p], self'[p], path', logs', ghost')
      BY IdleHas
    <2>3. \A s \in Session : job'[p].id = s /\ job'[p].at = "adopt" => meta[s] = Nothing
      BY DEF Idle
    <2> QED
      BY <2>1, <2>2, <2>3, WhatStep DEF Steady
  <1> QED
    BY <1>1, <1>2 DEF Steady

LEMMA FreedModels ==
    ASSUME IInv, NEW p \in Process, NEW keep, logs' = FreedBut(p, keep)
    PROVE  SameModels
  <1>1. DOMAIN logs = 1 .. Len(logs)
    BY JobOf
  <1> QED
    BY <1>1 DEF SameModels, FreedBut, Log

LEMMA FailsSteady ==
    ASSUME IInv, Steady, NEW p \in Process, Fails(p), job[p].cmd # "set"
    PROVE  Steady'
  <1> DEFINE m == [self[p] EXCEPT !.cwd = self[p].session]
  <1>1. self[p] \in Self
    BY JobOf
  <1>2. m.log = self[p].log /\ m.session = self[p].session /\ m.model = self[p].model
    BY <1>1 DEF Self
  <1>3. job' = [job EXCEPT ![p] = Idle] /\ self' = [self EXCEPT ![p] = m]
    BY DEF Fails, Unwound, IInv, Types
  <1> HIDE DEF m
  <1>4. Only(p) /\ job'[p] = Idle /\ self'[p] = m
    BY <1>3, OneStep
  <1>5. SameModels
    <2>1. logs' = FreedBut(p, self[p].log)
      BY DEF Fails, Unwound, FreedBut
    <2> QED
      BY <2>1, FreedModels
  <1>6. /\ UNCHANGED <<place, path, meta, ghost>>
        /\ \A s \in Session, q \in Process \ {p} : guard[s] = q => guard'[s] = q
    BY DEF Fails, Unwound
  <1>7. SameGhosts /\ PlacesKept
    BY <1>6 DEF SameGhosts, PlacesKept
  <1>8. \A s \in Session : self'[p].session = s => Uses(p, s)
    BY <1>2, <1>4 DEF Uses
  <1>9. LogHas(Idle, self'[p], path', logs')
    <2>1. LogHas(job[p], self[p], path, logs)
      BY DEF Steady, What, Has
    <2>2. self[p].session # Nothing => self[p].log \in 1 .. Len(logs)
      BY Referred DEF Steady
    <2> QED
      BY <1>2, <1>4, <1>5, <1>6, <2>1, <2>2 DEF LogHas, SameModels, Idle
  <1> QED
    BY <1>4, <1>5, <1>6, <1>7, <1>8, <1>9, EndsSteady

LEMMA GoneSteady ==
    ASSUME IInv, Steady, NEW p \in Process, Gone(p)
    PROVE  Steady'
  <1>1. DOMAIN logs = 1 .. Len(logs)
    BY JobOf
  <1>2. Only(p) /\ job'[p] = Idle /\ self'[p] = NoSelf
    BY OneStep DEF Gone
  <1>3. SameModels
    BY <1>1 DEF Gone, SameModels, Log
  <1>4. /\ UNCHANGED <<place, path, meta, ghost>>
        /\ \A s \in Session, q \in Process \ {p} : guard[s] = q => guard'[s] = q
    BY DEF Gone
  <1>5. SameGhosts /\ PlacesKept
    BY <1>4 DEF SameGhosts, PlacesKept
  <1>6. \A s \in Session : NoSelf.session # s
    BY Apart DEF NoSelf
  <1>7. LogHas(Idle, NoSelf, path', logs')
    BY DEF LogHas, NoSelf
  <1> QED
    BY <1>2, <1>3, <1>4, <1>5, <1>6, <1>7, EndsSteady

-----------------------------------------------------------------------------
(* Commands that begin.                                                      *)

(* A log that nobody has locked, and no process on the way: nobody uses the  *)
(* session.                                                                  *)
LEMMA NobodyUses ==
    ASSUME IInv, Steady, NEW s \in Session, ~ProbeBusy(s), ~Unseen(s), NEW q \in Process
    PROVE  ~Uses(q, s)
  <1>1. ASSUME NEW i \in 1 .. Len(logs), i = path[s], i \in LockedIn(job[q], self[q])
        PROVE  FALSE
    <2>1. logs[i].holder = q /\ path[s] # 0
      BY <1>1, JobOf DEF IInv, Locks
    <2> QED
      BY <1>1, <2>1, Apart DEF ProbeBusy
  <1>2. self[q].session # s
    BY <1>1, Referred, Apart DEF Steady, LockedIn
  <1>3. ~(job[q].id = s /\ job[q].cmd = "rename")
    BY DEF Unseen
  <1>4. ASSUME job[q].id = s, job[q].cmd = "open", job[q].at # "open"
        PROVE  FALSE
    <2>1. job[q].at \notin {"idle", "open"}
      BY <1>4, JobOf, Apart DEF Sound, FitsIn, Idle
    <2>2. job[q].log \in 1 .. Len(logs) /\ path[s] = job[q].log
      BY <1>4, <2>1, Referred DEF Steady
    <2>3. job[q].at # "lock"
      BY <1>4 DEF Unseen
    <2> QED
      BY <1>1, <2>2, <2>3 DEF LockedIn
  <1> QED
    BY <1>2, <1>3, <1>4 DEF Uses

LEMMA StartsSteady ==
    ASSUME IInv, Steady, NEW p \in Process, NEW cmd, NEW s \in Session, NEW at, NEW in,
           NEW value, Starts(p, cmd, s, at, in, value),
           UNCHANGED <<path, logs, meta, guard, self>>, SameGhosts, PlacesKept,
           place'[s] # "none",
           \/ cmd = "open" /\ at = "open" /\ in = "live"
           \/ cmd = "set" /\ at = "append" /\ in = "live" /\ s = self[p].session
           \/ /\ cmd = "rename" /\ at = "guard" /\ in = "live"
              /\ place'[s] = "live" /\ ~InGap(s)
           \/ cmd = "list" /\ at = "rebuild"
           \/ /\ \A q \in Process : ~Uses(q, s)
              /\ \/ cmd \in {"trash", "restore"} /\ at = "move"
                 \/ cmd = "delete" /\ at = "unlink" /\ in = "trash"
                 \/ cmd = "import" /\ at = "adopt" /\ in = "live" /\ meta[s] = Nothing
    PROVE  Steady'
  <1> DEFINE j == [Idle EXCEPT !.at = at, !.cmd = cmd, !.id = s, !.in = in, !.value = value]
  <1>1. j.at = at /\ j.cmd = cmd /\ j.id = s /\ j.in = in
    BY DEF Idle
  <1>2. job' = [job EXCEPT ![p] = j] /\ job[p] = Idle
    BY JobOf DEF Starts, Sound, FitsIn
  <1> HIDE DEF j
  <1>3. Only(p) /\ job'[p] = j /\ self'[p] = self[p]
    BY <1>2, OneStep
  <1>4. Enters(p)
    <2>1. \A x \in Session : self[p].session = x => place'[x] # "none"
      BY DEF Steady, Where, Unused, PlacesKept
    <2>2. \A x \in Session : Uses(p, x)' => Uses(p, x) \/ (x = s /\ cmd = "rename")
      BY <1>1, <1>3 DEF Uses
    <2>3. (\A q \in Process : ~Uses(q, s)) /\ cmd # "rename" => ~Uses(p, s)'
      BY <2>2
    <2> QED
      BY <1>1, <1>3, <2>1, <2>2, <2>3 DEF Enters
  <1>5. HoldsOn(p)
    BY <1>1, <1>3 DEF HoldsOn, CacheStages
  <1>6. Where'
    <2>1. \A x \in Session : place[x] = "none" /\ place'[x] = "none" => path'[x] = 0
      BY DEF Steady, Where, Unused
    <2> QED
      BY <1>3, <1>4, <1>5, <2>1, WhereStep
  <1>7. Has(j, self[p], path, logs, ghost')
    <2>1. LogHas(Idle, self[p], path, logs)
      BY <1>2 DEF Steady, What, Has
    <2>2. LogHas(j, self[p], path, logs)
      BY <1>1, <2>1 DEF LogHas, Idle
    <2>3. JobHas(j, self[p], path, logs)
      BY <1>1 DEF JobHas
    <2>4. CacheHas(j, path, logs, ghost')
      BY <1>1 DEF CacheHas
    <2> QED
      BY <2>2, <2>3, <2>4 DEF Has
  <1>8. OneEach' /\ PathsKept /\ SameModels
    BY DEF Steady, What, OneEach, PathsKept, SameModels
  <1>9. What'
    <2>1. \A x \in Session : job'[p].id = x /\ job'[p].at = "adopt" => meta[x] = Nothing
      BY <1>1, <1>3
    <2> QED
      BY <1>3, <1>7, <1>8, <2>1, WhatStep DEF Steady
  <1> QED
    BY <1>6, <1>9 DEF Steady

LEMMA CommandSteady ==
    ASSUME IInv, Steady, NEW p \in Process, ~ghost'.raced,
           Command(p) \/ \E m \in Model : SetModel(p, m)
    PROVE  Steady'
  <1>1. place' = place => PlacesKept
    BY DEF PlacesKept
  <1>2. ASSUME NEW s \in Session, place[s] # "live" PROVE \A q \in Process : ~Uses(q, s)
    BY <1>2 DEF Steady, Where, AtHome
  <1>3. ASSUME NEW s \in Session, place[s] = "none", place' = [place EXCEPT ![s] = "live"]
        PROVE  PlacesKept /\ place'[s] = "live"
    BY <1>2, <1>3 DEF PlacesKept, IInv, Types
  <1>4. ASSUME NEW s \in Session
        PROVE  InGap(s) \in BOOLEAN /\ Unseen(s) \in BOOLEAN
    BY DEF InGap, Unseen
  <1>5. ghost' = ghost => SameGhosts
    BY DEF SameGhosts
  <1>6. ASSUME NEW s \in Session, NEW m \in Model \union {Nothing}, Switch(p, s, m)
        PROVE  Steady'
    BY <1>1, <1>5, <1>6, StartsSteady DEF Switch
  <1>7. ASSUME NEW s \in Session, NewSession(p, s) PROVE Steady'
    BY <1>3, <1>5, <1>7, StartsSteady DEF NewSession
  <1>8. ASSUME NEW s \in Session, NEW n \in Name, Rename(p, s, n) PROVE Steady'
    <2>1. SameGhosts /\ ~InGap(s)
      BY <1>4, <1>8, NoGhosts DEF Rename
    <2> QED
      BY <1>1, <1>8, <2>1, StartsSteady DEF Rename
  <1>9. ASSUME NEW s \in Session, List(p, s) PROVE Steady'
    BY <1>1, <1>5, <1>9, StartsSteady DEF List
  <1>10. ASSUME NEW s \in Session, Trash(p, s) PROVE Steady'
    <2>1. SameGhosts /\ ~Unseen(s)
      BY <1>4, <1>10, NoGhosts DEF Trash
    <2>2. \A q \in Process : ~Uses(q, s)
      BY <1>10, <2>1, NobodyUses DEF Trash
    <2> QED
      BY <1>1, <1>10, <2>1, <2>2, StartsSteady DEF Trash
  <1>11. ASSUME NEW s \in Session, RestoreTrashed(p, s) \/ Delete(p, s) PROVE Steady'
    <2>1. SameGhosts
      BY <1>4, <1>11, NoGhosts DEF RestoreTrashed, Delete
    <2>2. \A q \in Process : ~Uses(q, s)
      BY <1>2, <1>11 DEF RestoreTrashed, Delete
    <2> QED
      BY <1>1, <1>11, <2>1, <2>2, StartsSteady DEF RestoreTrashed, Delete
  <1>12. ASSUME NEW s \in Session, NEW m \in Model \union {Nothing}, Import(p, s, m)
         PROVE  Steady'
    <2>1. \A q \in Process : ~Uses(q, s)
      BY <1>2, <1>12 DEF Import
    <2>2. meta[s] = Nothing
      BY <1>12 DEF Import, Steady, Where, What, Unused, Empty
    <2> QED
      BY <1>3, <1>5, <1>12, <2>1, <2>2, StartsSteady DEF Import
  <1>13. ASSUME NEW m \in Model, SetModel(p, m) PROVE Steady'
    <2>1. self[p].session \in Session /\ place[self[p].session] # "none"
      BY <1>13, Referred DEF SetModel, Steady, Where, Unused
    <2> QED
      BY <1>1, <1>5, <1>13, <2>1, StartsSteady DEF SetModel
  <1> QED
    BY <1>6, <1>7, <1>8, <1>9, <1>10, <1>11, <1>12, <1>13 DEF Command

-----------------------------------------------------------------------------
(* The steps of an open, a setting, a rename and a listing.                  *)

LEMMA HeldModels ==
    ASSUME NEW ls \in Seq(LogFile), NEW i, NEW h, NEW k \in 1 .. Len(ls)
    PROVE  [ls EXCEPT ![i].holder = h][k].model = ls[k].model
  <1>1. ls[k] \in LogFile /\ DOMAIN ls = 1 .. Len(ls)
    BY ElementOfSeq, LenProperties
  <1> QED
    BY <1>1 DEF LogFile

(* Opening the log of a session, which makes one where there is none.        *)
LEMMA OpenedPaths ==
    ASSUME IInv, Steady, NEW s \in Session, path' = [path EXCEPT ![s] = Opens(s)]
    PROVE  /\ OneEach' /\ PathsKept /\ path'[s] = Opens(s)
           /\ \A t \in Session : t # s => path'[t] = path[t]
  <1>1. \A t \in Session : path[t] \in 0 .. Len(logs) /\ Len(logs) \in Nat
    BY LenProperties DEF IInv, Types, Named
  <1>2. path'[s] = Opens(s) /\ \A t \in Session : t # s => path'[t] = path[t]
    BY DEF IInv, Types
  <1>3. PathsKept
    BY <1>2 DEF PathsKept, Opens
  <1>4. OneEach'
    BY <1>1, <1>2 DEF Steady, What, OneEach, Opens
  <1> QED
    BY <1>2, <1>3, <1>4

LEMMA FilledModels ==
    ASSUME IInv, NEW s \in Session, path[s] = 0 => Len(logs) < MaxLogs
    PROVE  /\ \A k \in 1 .. Len(logs) : Filled(s)[k].model = logs[k].model
           /\ Filled(s) \in Seq(LogFile) /\ Len(logs) <= Len(Filled(s))
           /\ Len(Filled(s)) \in Nat
  BY FilledLogs, LenProperties

LEMMA OpenLogSteady ==
    ASSUME IInv, Steady, NEW p \in Process, ~ghost'.raced, OpenLog(p)
    PROVE  Steady'
  <1>1. job[p].at = "open" /\ job[p].cmd = "open" /\ job[p].id \in Session
    BY JobOf DEF OpenLog, Sound, FitsIn
  <1>2. CASE Fails(p)
    BY <1>1, <1>2, FailsSteady
  <1>3. CASE ~Fails(p)
    <2> DEFINE s == job[p].id
               j == [job[p] EXCEPT !.at = "lock", !.log = Opens(s)]
    <2>1. /\ Reached(p) /\ Creates(s) /\ logs' = Filled(s)
          /\ UNCHANGED <<place, meta, guard, self, left>>
          /\ ghost' = [ghost EXCEPT !.raced = @ \/ InGap(s)]
          /\ job' = [job EXCEPT ![p].at = "lock", ![p].log = Opens(s)]
      BY <1>3 DEF OpenLog
    <2>2. job' = [job EXCEPT ![p] = j]
      BY <2>1 DEF IInv, Types
    <2>3. /\ j.at = "lock" /\ j.cmd = "open" /\ j.log = Opens(s) /\ j.id = s
          /\ j.in = job[p].in
      BY <1>1, JobOf DEF Job
    <2> HIDE DEF j
    <2>4. Only(p) /\ job'[p] = j /\ self'[p] = self[p]
      BY <2>1, <2>2, OneStep
    <2>5. SameGhosts /\ ~InGap(s)
      <3>1. InGap(s) \in BOOLEAN
        BY DEF InGap
      <3> QED
        BY <2>1, <3>1, NoGhosts
    <2>6. job[p].in = "live" /\ place[s] = "live" /\ place'[s] = "live"
      BY <1>1, <2>1 DEF Steady, What, Has, JobHas, Reached
    <2>7. SameModels
      BY <1>1, <2>1, FilledModels DEF SameModels, Creates
    <2>8. /\ OneEach' /\ PathsKept /\ path'[s] = Opens(s)
          /\ \A t \in Session : t # s => path'[t] = path[t]
      BY <1>1, <2>1, OpenedPaths DEF Creates
    <2>9. Enters(p)
      BY <2>1, <2>3, <2>4, <2>5, <2>6 DEF Enters, Uses, Steady, Where, Unused
    <2>10. HoldsOn(p) /\ PlacesKept
      BY <2>1, <2>3, <2>4 DEF HoldsOn, PlacesKept, CacheStages
    <2>11. Where'
      <3>1. \A x \in Session : place[x] = "none" /\ place'[x] = "none" => path'[x] = 0
        BY <2>6, <2>8 DEF Steady, Where, Unused
      <3> QED
        BY <2>4, <2>9, <2>10, <3>1, WhereStep
    <2>12. Has(j, self[p], path', logs', ghost')
      <3>1. LogHas(job[p], self[p], path, logs)
        BY DEF Steady, What, Has
      <3>2. self[p].session # Nothing =>
               /\ self[p].session \in Session
               /\ self[p].log \in 1 .. Len(logs) /\ path[self[p].session] = self[p].log
        BY Referred DEF Steady
      <3>3. self[p].session # Nothing =>
               path'[self[p].session] = self[p].log
               /\ logs'[self[p].log].model = logs[self[p].log].model
        BY <2>7, <2>8, <3>2 DEF SameModels, PathsKept
      <3>4. LogHas(j, self[p], path', logs')
        BY <1>1, <2>3, <3>1, <3>3 DEF LogHas
      <3>5. JobHas(j, self[p], path', logs')
        BY <2>3, <2>6, <2>8 DEF JobHas
      <3>6. CacheHas(j, path', logs', ghost')
        BY <2>3 DEF CacheHas
      <3> QED
        BY <3>4, <3>5, <3>6 DEF Has
    <2>13. What'
      BY <2>1, <2>3, <2>4, <2>5, <2>7, <2>8, <2>12, WhatStep DEF Steady
    <2> QED
      BY <2>11, <2>13 DEF Steady
  <1> QED
    BY <1>2, <1>3

(* Steps within a command that change no path.                               *)
LEMMA GoesOnSteady ==
    ASSUME IInv, Steady, NEW p \in Process, NEW j, NEW m,
           job' = [job EXCEPT ![p] = j],
           (self' = self /\ m = self[p]) \/ self' = [self EXCEPT ![p] = m],
           UNCHANGED <<place, path, meta, ghost>>, SameModels,
           m.session = self[p].session, m.log = self[p].log, m.model = self[p].model,
           j.id = job[p].id, j.cmd = job[p].cmd,
           job[p].at \notin {"idle", "open"},
           j.cmd = "set" => job[p].at # "append" /\ j.at # "append"
                            /\ j.value = job[p].value,
           j.at \notin {"idle", "move", "unlink", "adopt"},
           j.at \in CacheStages /\ j.cmd # "list" => guard'[j.id] = p,
           \A s \in Session, q \in Process \ {p} : guard[s] = q => guard'[s] = q,
           JobHas(j, m, path, logs'), CacheHas(j, path, logs', ghost)
    PROVE  Steady'
  <1>1. Only(p) /\ job'[p] = j /\ self'[p] = m
    BY DEF IInv, Types, Only
  <1>2. SameGhosts /\ OneEach' /\ PathsKept /\ HoldsOn(p)
    BY <1>1 DEF SameGhosts, Steady, What, OneEach, PathsKept, HoldsOn
  <1>3. Has(j, m, path', logs', ghost')
    <2>1. LogHas(job[p], self[p], path, logs)
      BY DEF Steady, What, Has
    <2>2. self[p].session # Nothing => self[p].log \in 1 .. Len(logs)
      BY Referred DEF Steady
    <2>3. LogHas(j, m, path', logs')
      BY <2>1, <2>2 DEF LogHas, SameModels
    <2> QED
      BY <2>3 DEF Has
  <1> QED
    BY <1>1, <1>2, <1>3, StaysSteady

LEMMA LockLogSteady ==
    ASSUME IInv, Steady, NEW p \in Process, LockLog(p)
    PROVE  Steady'
  <1>1. job[p].at = "lock" /\ job[p].cmd = "open"
    BY JobOf DEF LockLog, Sound, FitsIn
  <1>2. CASE Fails(p)
    BY <1>1, <1>2, FailsSteady
  <1>3. CASE ~Fails(p)
    <2> DEFINE j == [job[p] EXCEPT !.at = "restore"]
    <2>1. /\ logs' = [logs EXCEPT ![job[p].log].holder = p]
          /\ UNCHANGED <<place, path, meta, guard, self, left, ghost>>
          /\ job' = [job EXCEPT ![p] = j]
      BY <1>3 DEF LockLog, HeldBy, Goes, IInv, Types
    <2>2. /\ j.at = "restore" /\ j.cmd = "open" /\ j.log = job[p].log
          /\ j.id = job[p].id /\ j.in = job[p].in
      BY <1>1, JobOf DEF Job
    <2> HIDE DEF j
    <2>3. SameModels
      BY <2>1, HeldModels DEF SameModels, IInv, Types
    <2>4. JobHas(j, self[p], path, logs')
      <3>1. JobHas(job[p], self[p], path, logs)
        BY DEF Steady, What, Has
      <3> QED
        BY <1>1, <2>2, <3>1 DEF JobHas
    <2>5. CacheHas(j, path, logs', ghost)
      BY <2>2 DEF CacheHas
    <2> QED
      BY <1>1, <2>1, <2>2, <2>3, <2>4, <2>5, GoesOnSteady DEF CacheStages
  <1> QED
    BY <1>2, <1>3

LEMMA RestoreSteady ==
    ASSUME IInv, Steady, NEW p \in Process, Restore(p)
    PROVE  Steady'
  <1> DEFINE log == logs[job[p].log]
             cached == IF log.typed /\ Reached(p) THEN meta[job[p].id] ELSE Nothing
             model == Resolved(job[p].value, log.model, cached)
             asked == job[p].value # Nothing \/ log.model = Nothing
             j == [job[p] EXCEPT !.value = model, !.asked = asked,
                                 !.at = IF model = log.model THEN "guard" ELSE "append"]
             m == [self[p] EXCEPT !.cwd = job[p].id]
  <1>1. job[p].at = "restore" /\ job[p].cmd = "open"
    BY JobOf DEF Restore, Sound, FitsIn
  <1>2. /\ job' = [job EXCEPT ![p] = j] /\ self' = [self EXCEPT ![p] = m]
        /\ UNCHANGED <<place, path, logs, meta, guard, left, ghost>>
    BY DEF Restore, IInv, Types
  <1>3. model # log.model => asked
    BY DEF Resolved
  <1> HIDE DEF model, asked
  <1>4. /\ j.at = (IF model = log.model THEN "guard" ELSE "append")
        /\ j.cmd = "open" /\ j.value = model /\ j.asked = asked
        /\ j.log = job[p].log /\ j.id = job[p].id /\ j.in = job[p].in
    BY <1>1, JobOf DEF Job
  <1>5. m.log = self[p].log /\ m.session = self[p].session /\ m.model = self[p].model
    BY JobOf DEF Self
  <1> HIDE DEF j, m
  <1>6. JobHas(j, m, path, logs')
    <2>1. JobHas(job[p], self[p], path, logs)
      BY DEF Steady, What, Has
    <2> QED
      BY <1>1, <1>2, <1>3, <1>4, <2>1 DEF JobHas
  <1>7. CacheHas(j, path, logs', ghost)
    BY <1>4 DEF CacheHas
  <1>8. SameModels
    BY <1>2 DEF SameModels
  <1> QED
    BY <1>1, <1>2, <1>4, <1>5, <1>6, <1>7, <1>8, GoesOnSteady DEF CacheStages

(* The end of a command that kept or skipped the cache.                      *)
LEMMA AfterCacheHas ==
    ASSUME IInv, Steady, NEW p \in Process, AfterCache(p),
           job[p].at \in {"guard", "write", "publish"}
    PROVE  /\ Only(p) /\ job'[p] = Idle /\ SameModels
           /\ \A s \in Session : self'[p].session = s => Uses(p, s)
           /\ LogHas(Idle, self'[p], path, logs')
  <1>1. job' = [job EXCEPT ![p] = Idle]
    BY DEF AfterCache
  <1>2. job[p].cmd \in {"open", "set", "rename"} /\ job[p].id \in Session
    BY JobOf DEF Sound, FitsIn
  <1>3. Has(job[p], self[p], path, logs, ghost)
    BY DEF Steady, What
  <1>4. self[p].session # Nothing => self[p].log \in 1 .. Len(logs)
    BY Referred DEF Steady
  <1>5. CASE job[p].cmd = "open"
    <2> DEFINE m == [session |-> job[p].id, log |-> job[p].log,
                     model |-> job[p].value, cwd |-> job[p].id]
    <2>1. self' = [self EXCEPT ![p] = m]
      BY <1>5 DEF AfterCache, Commits
    <2>2. m.session = job[p].id /\ m.log = job[p].log /\ m.model = job[p].value
      OBVIOUS
    <2> HIDE DEF m
    <2>3. Only(p) /\ job'[p] = Idle /\ self'[p] = m
      BY <1>1, <2>1 DEF IInv, Types, Only
    <2>4. SameModels
      <3>1. logs' = logs \/ logs' = [logs EXCEPT ![self[p].log].holder = Nothing]
        BY <1>5 DEF AfterCache, Commits, HeldBy
      <3>2. logs \in Seq(LogFile)
        BY DEF IInv, Types
      <3>3. \A k \in 1 .. Len(logs) :
               [logs EXCEPT ![self[p].log].holder = Nothing][k].model = logs[k].model
        BY <3>2, HeldModels
      <3> QED
        BY <3>1, <3>3 DEF SameModels
    <2>5. /\ job[p].log \in 1 .. Len(logs) /\ path[job[p].id] = job[p].log
          /\ logs[job[p].log].model = job[p].value
      BY <1>3, <1>5, Referred DEF Has, JobHas, Steady
    <2>6. LogHas(Idle, m, path, logs')
      BY <2>2, <2>4, <2>5 DEF LogHas, SameModels, Idle
    <2>7. \A s \in Session : m.session = s => Uses(p, s)
      BY <1>5, <2>2 DEF Uses
    <2> QED
      BY <2>3, <2>4, <2>6, <2>7
  <1>6. CASE job[p].cmd = "set"
    <2> DEFINE m == [self[p] EXCEPT !.model = job[p].value]
    <2>1. self' = [self EXCEPT ![p] = m] /\ logs' = logs
      BY <1>6 DEF AfterCache, IInv, Types
    <2>2. /\ m.session = self[p].session /\ m.log = self[p].log
          /\ m.model = job[p].value
      BY JobOf DEF Self
    <2> HIDE DEF m
    <2>3. Only(p) /\ job'[p] = Idle /\ self'[p] = m
      BY <1>1, <2>1 DEF IInv, Types, Only
    <2>4. LogHas(Idle, m, path, logs')
      BY <1>3, <1>6, <2>1, <2>2 DEF Has, LogHas, Idle
    <2> QED
      BY <2>1, <2>2, <2>3, <2>4 DEF Uses, SameModels
  <1>7. CASE job[p].cmd = "rename"
    <2>1. self' = self /\ logs' = logs
      BY <1>7 DEF AfterCache
    <2>2. Only(p) /\ job'[p] = Idle /\ self'[p] = self[p]
      BY <1>1, <2>1 DEF IInv, Types, Only
    <2>3. LogHas(Idle, self[p], path, logs')
      BY <1>3, <1>7, <2>1 DEF Has, LogHas, Idle
    <2> QED
      BY <2>1, <2>2, <2>3 DEF Uses, SameModels
  <1> QED
    BY <1>2, <1>5, <1>6, <1>7

LEMMA AfterCacheSteady ==
    ASSUME IInv, Steady, NEW p \in Process, AfterCache(p),
           job[p].at \in {"guard", "write", "publish"},
           UNCHANGED <<place, path, meta, ghost>>,
           \A s \in Session, q \in Process \ {p} : guard[s] = q => guard'[s] = q
    PROVE  Steady'
  <1>1. /\ Only(p) /\ job'[p] = Idle /\ SameModels
        /\ \A s \in Session : self'[p].session = s => Uses(p, s)
        /\ LogHas(Idle, self'[p], path', logs')
    BY AfterCacheHas
  <1>2. SameGhosts /\ PlacesKept
    BY DEF SameGhosts, PlacesKept
  <1> QED
    BY <1>1, <1>2, EndsSteady

LEMMA LockCacheSteady ==
    ASSUME IInv, Steady, NEW p \in Process, LockCache(p)
    PROVE  Steady'
  <1>1. /\ job[p].at = "guard" /\ job[p].id \in Session
        /\ job[p].cmd \in {"open", "set", "rename"}
        /\ UNCHANGED <<place, path, meta, left, ghost>>
    BY JobOf DEF LockCache, Sound, FitsIn
  <1>2. CASE AfterCache(p) /\ guard' = guard
    BY <1>1, <1>2, AfterCacheSteady
  <1>3. CASE ~(AfterCache(p) /\ guard' = guard)
    <2> DEFINE j == [job[p] EXCEPT !.at = "read"]
    <2>1. /\ guard[job[p].id] = Nothing /\ guard' = [guard EXCEPT ![job[p].id] = p]
          /\ job' = [job EXCEPT ![p] = j] /\ UNCHANGED <<logs, self>>
      BY <1>3 DEF LockCache, Goes, IInv, Types
    <2>2. /\ j.at = "read" /\ j.cmd = job[p].cmd /\ j.log = job[p].log
          /\ j.id = job[p].id /\ j.in = job[p].in /\ j.value = job[p].value
      BY <1>1, JobOf DEF Job
    <2> HIDE DEF j
    <2>3. JobHas(j, self[p], path, logs')
      <3>1. JobHas(job[p], self[p], path, logs)
        BY DEF Steady, What, Has
      <3> QED
        BY <1>1, <2>1, <2>2, <3>1 DEF JobHas
    <2>4. CacheHas(j, path, logs', ghost)
      BY <2>2 DEF CacheHas
    <2>5. /\ guard'[j.id] = p
          /\ \A s \in Session, q \in Process \ {p} : guard[s] = q => guard'[s] = q
      BY <1>1, <2>1, <2>2, Apart DEF IInv, Types
    <2>6. SameModels
      BY <2>1 DEF SameModels
    <2> QED
      BY <1>1, <2>1, <2>2, <2>3, <2>4, <2>5, <2>6, GoesOnSteady
  <1> QED
    BY <1>2, <1>3

LEMMA ReadCacheSteady ==
    ASSUME IInv, Steady, NEW p \in Process, ReadCache(p)
    PROVE  Steady'
  <1>1. /\ job[p].at = "read" /\ job[p].id \in Session
        /\ job[p].cmd \in {"open", "set", "rename"}
        /\ UNCHANGED <<place, path, logs, meta, guard, self, left, ghost>>
    BY JobOf DEF ReadCache, Sound, FitsIn
  <1>2. JobHas(job[p], self[p], path, logs)
    BY DEF Steady, What, Has
  <1>3. Uses(p, job[p].id) /\ guard[job[p].id] = p
    BY <1>1, WritersUse DEF Steady, CacheStages, Where, Guarded
  <1>4. Reached(p)
    BY <1>1, <1>2, <1>3 DEF Steady, Where, AtHome, Reached, JobHas
  <1> DEFINE s == job[p].id
             cached == meta[s]
             name == IF cached = Nothing THEN Nothing ELSE cached.name
  <1>5. name = ghost.named[s]
    BY <1>1 DEF Steady, What, Merged, Empty
  <1>6. /\ SameModels
        /\ \A x \in Session, q \in Process \ {p} : guard[x] = q => guard'[x] = q
    BY <1>1 DEF SameModels
  <1>7. CASE job[p].cmd \in {"open", "set"}
    <2> DEFINE c == [model |-> job[p].value, name |-> name]
               j == [job[p] EXCEPT !.at = "write", !.cache = c]
    <2>1. job' = [job EXCEPT ![p] = j]
      BY <1>4, <1>7 DEF ReadCache, IInv, Types
    <2>2. c.model = job[p].value /\ c.name = ghost.named[s]
      BY <1>5
    <2> HIDE DEF c
    <2>3. /\ j.at = "write" /\ j.cmd = job[p].cmd /\ j.log = job[p].log /\ j.id = s
          /\ j.in = job[p].in /\ j.value = job[p].value /\ j.cache = c
      BY <1>1, JobOf DEF Job
    <2> HIDE DEF j
    <2>4. JobHas(j, self[p], path, logs')
      BY <1>1, <1>2, <1>7, <2>3 DEF JobHas
    <2>5. path[s] # 0
      <3>1. CASE job[p].cmd = "open"
        BY <1>1, <3>1, Referred DEF Steady
      <3>2. CASE job[p].cmd = "set"
        <4>1. self[p].session = s
          BY <1>1, <1>2, <3>2 DEF JobHas
        <4> QED
          BY <1>1, <4>1, Apart, Referred DEF Steady
      <3> QED
        BY <1>7, <3>1, <3>2
    <2>6. CacheHas(j, path, logs', ghost)
      BY <1>7, <2>2, <2>3, <2>5 DEF CacheHas
    <2> QED
      BY <1>1, <1>3, <1>6, <2>1, <2>3, <2>4, <2>6, GoesOnSteady
  <1>8. CASE job[p].cmd = "rename" /\ cached # Nothing
    <2> DEFINE c == [model |-> cached.model, name |-> job[p].value]
               j == [job[p] EXCEPT !.at = "write", !.cache = c]
    <2>1. job' = [job EXCEPT ![p] = j]
      BY <1>4, <1>8 DEF ReadCache, IInv, Types
    <2>2. c.model = cached.model /\ c.name = job[p].value
      OBVIOUS
    <2> HIDE DEF c
    <2>3. /\ j.at = "write" /\ j.cmd = job[p].cmd /\ j.log = job[p].log /\ j.id = s
          /\ j.in = job[p].in /\ j.value = job[p].value /\ j.cache = c
      BY <1>1, JobOf DEF Job
    <2> HIDE DEF j
    <2>4. JobHas(j, self[p], path, logs')
      BY <1>1, <1>2, <1>8, <2>3 DEF JobHas
    <2>5. /\ path[s] # 0
          /\ ~ghost.behind[s] => cached.model = logs[path[s]].model
      BY <1>1, <1>8 DEF Steady, What, Empty, Merged
    <2>6. CacheHas(j, path, logs', ghost)
      BY <1>1, <1>8, <2>2, <2>3, <2>5 DEF CacheHas
    <2> QED
      BY <1>1, <1>3, <1>6, <1>8, <2>1, <2>3, <2>4, <2>6, GoesOnSteady
  <1>9. CASE job[p].cmd = "rename" /\ cached = Nothing
    <2> DEFINE j == [job[p] EXCEPT !.at = "rebuild"]
    <2>1. job' = [job EXCEPT ![p] = j]
      BY <1>4, <1>9 DEF ReadCache, Goes, IInv, Types
    <2>3. /\ j.at = "rebuild" /\ j.cmd = job[p].cmd /\ j.log = job[p].log /\ j.id = s
          /\ j.in = job[p].in
      BY <1>1, JobOf DEF Job
    <2> HIDE DEF j
    <2>4. JobHas(j, self[p], path, logs')
      BY <1>1, <1>2, <1>9, <2>3 DEF JobHas
    <2>6. CacheHas(j, path, logs', ghost)
      BY <2>3 DEF CacheHas
    <2> QED
      BY <1>1, <1>3, <1>6, <1>9, <2>1, <2>3, <2>4, <2>6, GoesOnSteady
  <1> QED
    BY <1>1, <1>7, <1>8, <1>9

LEMMA WriteCacheSteady ==
    ASSUME IInv, Steady, NEW p \in Process, WriteCache(p)
    PROVE  Steady'
  <1>1. /\ job[p].at = "write" /\ job[p].id \in Session
        /\ job[p].cmd \in {"open", "set", "rename"}
        /\ UNCHANGED <<place, path, meta, left, ghost>>
    BY JobOf DEF WriteCache, Sound, FitsIn
  <1>2. CASE AfterCache(p) /\ Released(p)
    <2>1. \A s \in Session, q \in Process \ {p} : guard[s] = q => guard'[s] = q
      BY <1>1, <1>2 DEF Released, IInv, Types
    <2> QED
      BY <1>1, <1>2, <2>1, AfterCacheSteady
  <1>3. CASE ~(AfterCache(p) /\ Released(p))
    <2> DEFINE j == [job[p] EXCEPT !.at = "publish"]
    <2>1. job' = [job EXCEPT ![p] = j] /\ UNCHANGED <<logs, guard, self>>
      BY <1>3 DEF WriteCache, Goes, IInv, Types
    <2>2. /\ j.at = "publish" /\ j.cmd = job[p].cmd /\ j.log = job[p].log
          /\ j.id = job[p].id /\ j.in = job[p].in /\ j.value = job[p].value
          /\ j.cache = job[p].cache
      BY <1>1, JobOf DEF Job
    <2> HIDE DEF j
    <2>3. Has(job[p], self[p], path, logs, ghost)
      BY DEF Steady, What
    <2>4. JobHas(j, self[p], path, logs')
      BY <1>1, <2>1, <2>2, <2>3 DEF JobHas, Has
    <2>5. CacheHas(j, path, logs', ghost)
      BY <1>1, <2>1, <2>2, <2>3 DEF CacheHas, Has
    <2>6. guard'[j.id] = p
      BY <1>1, <2>1, <2>2 DEF Steady, CacheStages, Where, Guarded
    <2>7. SameModels
      BY <2>1 DEF SameModels
    <2> QED
      BY <1>1, <2>1, <2>2, <2>4, <2>5, <2>6, <2>7, GoesOnSteady
  <1> QED
    BY <1>2, <1>3

LEMMA RebuildSteady ==
    ASSUME IInv, Steady, NEW p \in Process, Rebuild(p)
    PROVE  Steady'
  <1>1. /\ job[p].at = "rebuild" /\ job[p].cmd \in {"rename", "list"}
        /\ job[p].id \in Session
    BY JobOf DEF Rebuild, Sound, FitsIn
  <1>2. CASE Fails(p)
    BY <1>1, <1>2, FailsSteady
  <1>3. CASE ~Fails(p)
    <2> DEFINE s == job[p].id
               j == [job[p] EXCEPT !.at = "replay", !.log = Opens(s)]
               ls == Filled(s)
    <2>1. /\ Creates(s) /\ logs' = [ls EXCEPT ![Opens(s)].holder = p]
          /\ UNCHANGED <<place, meta, guard, self, left, ghost>>
          /\ job' = [job EXCEPT ![p] = j]
      BY <1>3 DEF Rebuild, IInv, Types
    <2>2. /\ j.at = "replay" /\ j.cmd = job[p].cmd /\ j.log = Opens(s) /\ j.id = s
          /\ j.in = job[p].in
      BY <1>1, JobOf DEF Job
    <2>3. Only(p) /\ job'[p] = j /\ self'[p] = self[p]
      BY <2>1, OneStep
    <2>4. /\ \A k \in 1 .. Len(logs) : ls[k].model = logs[k].model
          /\ ls \in Seq(LogFile) /\ Len(logs) <= Len(ls) /\ Len(ls) \in Nat
          /\ Len(logs) \in Nat
      BY <1>1, <2>1, FilledModels, JobOf DEF Creates
    <2> HIDE DEF j, ls
    <2>5. SameModels
      <3>1. \A k \in 1 .. Len(ls) : [ls EXCEPT ![Opens(s)].holder = p][k].model = ls[k].model
        BY <2>4, HeldModels
      <3> QED
        BY <2>1, <2>4, <3>1 DEF SameModels
    <2>6. /\ OneEach' /\ PathsKept /\ path'[s] = Opens(s)
          /\ \A t \in Session : t # s => path'[t] = path[t]
      BY <1>1, <2>1, OpenedPaths DEF Creates
    <2>7. \A t \in Session : place[t] = "none" => path'[t] = path[t]
      BY <2>6 DEF Steady, Where, Unused
    <2>8. HoldsOn(p)
      BY <1>1, <2>1, <2>2, <2>3 DEF HoldsOn, Steady, Where, Guarded, CacheStages
    <2>9. SameGhosts
      BY <2>1 DEF SameGhosts
    <2>10. Has(j, self[p], path', logs', ghost')
      <3>1. Has(job[p], self[p], path, logs, ghost)
        BY DEF Steady, What
      <3>2. self[p].session # Nothing =>
               /\ path'[self[p].session] = path[self[p].session]
               /\ logs'[self[p].log].model = logs[self[p].log].model
        <4> HAVE self[p].session # Nothing
        <4>1. /\ self[p].session \in Session
              /\ self[p].log \in 1 .. Len(logs) /\ path[self[p].session] = self[p].log
          BY Referred DEF Steady
        <4> QED
          BY <2>5, <2>6, <4>1 DEF SameModels, PathsKept
      <3>3. LogHas(j, self[p], path', logs')
        BY <1>1, <2>2, <3>1, <3>2 DEF Has, LogHas
      <3>4. JobHas(j, self[p], path', logs')
        BY <1>1, <2>2, <2>6, <3>1 DEF Has, JobHas
      <3>5. CacheHas(j, path', logs', ghost')
        BY <2>2 DEF CacheHas
      <3> QED
        BY <3>3, <3>4, <3>5 DEF Has
    <2> QED
      BY <1>1, <2>1, <2>2, <2>3, <2>5, <2>6, <2>7, <2>8, <2>9, <2>10, StaysSteady
  <1> QED
    BY <1>2, <1>3

LEMMA RebuiltSteady ==
    ASSUME IInv, Steady, NEW p \in Process, Rebuilt(p)
    PROVE  Steady'
  <1>1. /\ job[p].at = "replay" /\ job[p].cmd \in {"rename", "list"}
        /\ job[p].id \in Session
    BY JobOf DEF Rebuilt, Sound, FitsIn
  <1>2. CASE Fails(p)
    BY <1>1, <1>2, FailsSteady
  <1>3. CASE ~Fails(p)
    <2> DEFINE i == job[p].log
               c == [model |-> logs[i].model, name |-> job[p].value]
               j == [job[p] EXCEPT !.at = "write", !.log = 0, !.cache = c]
    <2>1. /\ job[p].cmd = "rename"
          /\ logs' = [logs EXCEPT ![i].holder = Nothing]
          /\ job' = [job EXCEPT ![p] = j]
          /\ UNCHANGED <<place, path, meta, guard, self, left, ghost>>
      BY <1>3 DEF Rebuilt, HeldBy, IInv, Types
    <2>2. c.model = logs[i].model /\ c.name = job[p].value
      OBVIOUS
    <2> HIDE DEF c
    <2>3. /\ j.at = "write" /\ j.cmd = "rename" /\ j.id = job[p].id
          /\ j.in = job[p].in /\ j.value = job[p].value /\ j.cache = c
      BY <2>1, JobOf DEF Job
    <2> HIDE DEF j
    <2>4. SameModels
      <3>1. \A k \in 1 .. Len(logs) : [logs EXCEPT ![i].holder = Nothing][k].model = logs[k].model
        BY HeldModels DEF IInv, Types
      <3> QED
        BY <2>1, <3>1 DEF SameModels
    <2>5. i \in 1 .. Len(logs) /\ path[job[p].id] = i
      BY <1>1, <2>1, Referred DEF Steady
    <2>6. JobHas(j, self[p], path, logs')
      <3>1. JobHas(job[p], self[p], path, logs)
        BY DEF Steady, What, Has
      <3> QED
        BY <1>1, <2>1, <2>3, <3>1 DEF JobHas
    <2>7. CacheHas(j, path, logs', ghost)
      <3>1. path[j.id] = i /\ i # 0 /\ logs'[i].model = logs[i].model
        BY <2>3, <2>4, <2>5 DEF SameModels
      <3> QED
        BY <2>2, <2>3, <3>1 DEF CacheHas
    <2>8. guard'[j.id] = p
      BY <1>1, <2>1, <2>3 DEF Steady, Where, Guarded, CacheStages
    <2> QED
      BY <1>1, <2>1, <2>3, <2>4, <2>6, <2>7, <2>8, GoesOnSteady
  <1> QED
    BY <1>2, <1>3

-----------------------------------------------------------------------------
(* The steps that change what is in a log, a cache or a directory.           *)

LEMMA MoveSteady ==
    ASSUME IInv, Steady, NEW p \in Process, Move(p) \/ RemoveDirectory(p)
    PROVE  Steady'
  <1>1. /\ job[p].at \in {"move", "rmdir"} /\ job[p].id \in Session
        /\ job[p].cmd \in {"trash", "restore", "delete"}
    BY JobOf DEF Move, RemoveDirectory, Sound, FitsIn
  <1>2. /\ UNCHANGED <<path, logs, meta, guard, self, left, ghost>>
        /\ job' = [job EXCEPT ![p] = Idle]
    BY DEF Move, RemoveDirectory
  <1>3. Only(p) /\ job'[p] = Idle /\ self'[p] = self[p]
    BY <1>2 DEF IInv, Types, Only
  <1>4. JobHas(job[p], self[p], path, logs) /\ LogHas(job[p], self[p], path, logs)
    BY DEF Steady, What, Has
  <1>5. PlacesKept
    <2>1. CASE Move(p)
      <3>1. \A q \in Process : ~Uses(q, job[p].id)
        BY <1>1, <2>1 DEF Steady, Where, NoGap, InGap, Move
      <3> QED
        BY <1>1, <2>1, <3>1 DEF PlacesKept, Move, IInv, Types
    <2>2. CASE RemoveDirectory(p)
      <3>1. Reached(p) => \A q \in Process : ~Uses(q, job[p].id)
        BY <1>1, <1>4, <2>2 DEF Steady, Where, AtHome, Reached, JobHas, RemoveDirectory
      <3> QED
        BY <1>1, <2>2, <3>1 DEF PlacesKept, RemoveDirectory, IInv, Types
    <2> QED
      BY <2>1, <2>2
  <1>6. LogHas(Idle, self[p], path', logs')
    BY <1>1, <1>2, <1>4 DEF LogHas, Idle
  <1>7. SameGhosts /\ SameModels /\ \A s \in Session : self'[p].session = s => Uses(p, s)
    BY <1>2, <1>3 DEF SameGhosts, SameModels, Uses
  <1> QED
    BY <1>2, <1>3, <1>5, <1>6, <1>7, EndsSteady

LEMMA UnlinkSteady ==
    ASSUME IInv, Steady, NEW p \in Process, Unlink(p)
    PROVE  Steady'
  <1>1. job[p].at = "unlink" /\ job[p].id \in Session /\ job[p].cmd \in {"trash", "restore", "delete"}
    BY JobOf DEF Unlink, Sound, FitsIn
  <1>2. CASE Fails(p)
    BY <1>1, <1>2, FailsSteady
  <1>3. CASE ~Fails(p)
    <2> DEFINE s == job[p].id
               j == [job[p] EXCEPT !.at = "rmdir"]
    <2>1. /\ path' = [path EXCEPT ![s] = 0]
          /\ meta' = [meta EXCEPT ![s] = Nothing]
          /\ guard' = [guard EXCEPT ![s] = Nothing]
          /\ ghost' = [ghost EXCEPT !.chosen[s] = Nothing, !.named[s] = Nothing,
                                    !.behind[s] = FALSE]
          /\ job' = [job EXCEPT ![p] = j]
          /\ UNCHANGED <<place, logs, self, left>>
      BY <1>3 DEF Unlink, Goes, IInv, Types
    <2>2. j.at = "rmdir" /\ j.cmd = job[p].cmd /\ j.id = s /\ j.in = job[p].in
      BY <1>1, JobOf DEF Job
    <2> HIDE DEF j
    <2>3. Only(p) /\ job'[p] = j /\ self'[p] = self[p]
      BY <2>1, OneStep
    <2>4. \A q \in Process : ~Uses(q, s)
      BY <1>1 DEF Steady, Where, NoGap, InGap
    <2>5. /\ path'[s] = 0 /\ meta'[s] = Nothing
          /\ \A t \in Session : t # s =>
                path'[t] = path[t] /\ meta'[t] = meta[t] /\ guard'[t] = guard[t]
      BY <1>1, <2>1 DEF IInv, Types
    <2>6. /\ ghost'.chosen[s] = Nothing /\ ghost'.named[s] = Nothing /\ ~ghost'.behind[s]
          /\ \A t \in Session : t # s => /\ ghost'.chosen[t] = ghost.chosen[t]
                                         /\ ghost'.named[t] = ghost.named[t]
                                         /\ ghost'.behind[t] = ghost.behind[t]
      BY <1>1, <2>1 DEF IInv, Types, Ghosts
    <2>7. Where'
      <3>1. HoldsOn(p)
        BY <2>2, <2>3, <2>4, <2>5 DEF HoldsOn, CacheStages
      <3>2. \A t \in Session : place[t] = "none" => path'[t] = path[t]
        BY <2>5 DEF Steady, Where, Unused
      <3> QED
        BY <1>1, <2>1, <2>2, <2>3, <3>1, <3>2, StaysWhere
    <2>8. ASSUME NEW q \in Process \ {p}
          PROVE  Has(job'[q], self'[q], path', logs', ghost')
      <3>1. job'[q] = job[q] /\ self'[q] = self[q]
        BY <2>3 DEF Only
      <3>2. job[q].at \in {"write", "publish"} => job[q].id \in Session /\ job[q].id # s
        <4> HAVE job[q].at \in {"write", "publish"}
        <4>1. job[q].cmd # "list"
          BY JobOf DEF Sound, FitsIn
        <4> QED
          BY <2>4, <4>1, WritersUse DEF CacheStages, Steady
      <3>3. \A t \in Session : path'[t] = path[t] \/ path[t] = 0 \/ ~Uses(q, t)
        BY <2>4, <2>5
      <3>4. \A i \in 1 .. Len(logs) : logs'[i].model = logs[i].model
        BY <2>1
      <3> QED
        BY <2>6, <3>1, <3>2, <3>3, <3>4, HasStays DEF Steady
    <2>9. Has(j, self[p], path', logs', ghost')
      <3>1. LogHas(job[p], self[p], path, logs) /\ JobHas(job[p], self[p], path, logs)
        BY DEF Steady, What, Has
      <3>2. self[p].session # Nothing => path'[self[p].session] = path[self[p].session]
        BY <2>4, <2>5, Referred DEF Uses, Steady
      <3>3. LogHas(j, self[p], path', logs')
        BY <1>1, <2>1, <2>2, <3>1, <3>2 DEF LogHas
      <3>4. JobHas(j, self[p], path', logs')
        BY <1>1, <2>2, <3>1 DEF JobHas
      <3>5. CacheHas(j, path', logs', ghost')
        BY <2>2 DEF CacheHas
      <3> QED
        BY <3>3, <3>4, <3>5 DEF Has
    <2>10. OneEach'
      BY <2>5 DEF Steady, What, OneEach
    <2>11. Empty'
      BY <2>2, <2>3, <2>5, <2>6 DEF Steady, What, Empty, Only
    <2>12. Chosen' /\ Merged'
      BY <2>1, <2>5, <2>6 DEF Steady, What, Chosen, Merged
    <2>13. \A q \in Process : Has(job'[q], self'[q], path', logs', ghost')
      BY <2>3, <2>8, <2>9
    <2> QED
      BY <2>7, <2>10, <2>11, <2>12, <2>13 DEF Steady, What
  <1> QED
    BY <1>2, <1>3

LEMMA AdoptSteady ==
    ASSUME IInv, Steady, NEW p \in Process, Adopt(p)
    PROVE  Steady'
  <1>1. /\ job[p].at = "adopt" /\ job[p].cmd = "import" /\ job[p].id \in Session
        /\ job[p].value \in Model \union {Nothing}
    BY JobOf DEF Adopt, Sound, FitsIn
  <1>2. CASE Fails(p)
    BY <1>1, <1>2, FailsSteady
  <1>3. CASE ~Fails(p)
    <2> DEFINE s == job[p].id
               new == Log(TRUE, job[p].value)
    <2>1. /\ Reached(p) /\ logs' = Append(logs, new)
          /\ path' = [path EXCEPT ![s] = Len(logs) + 1]
          /\ ghost' = [ghost EXCEPT !.chosen[s] = job[p].value]
          /\ job' = [job EXCEPT ![p] = Idle]
          /\ UNCHANGED <<place, meta, guard, self, left>>
      BY <1>3 DEF Adopt
    <2>2. new \in LogFile /\ new.model = job[p].value
      BY <1>1 DEF Log, LogFile
    <2> HIDE DEF new
    <2>3. logs \in Seq(LogFile) /\ Len(logs) \in Nat
      BY JobOf DEF IInv, Types
    <2>4. /\ \A k \in 1 .. Len(logs) : logs'[k] = logs[k]
          /\ logs'[Len(logs) + 1] = new
      BY <2>1, <2>2, <2>3, AppendProperties
    <2>5. Only(p) /\ job'[p] = Idle /\ self'[p] = self[p]
      BY <2>1 DEF IInv, Types, Only
    <2>6. \A q \in Process : ~Uses(q, s)
      BY <1>1 DEF Steady, Where, NoGap, InGap
    <2>7. path'[s] = Len(logs) + 1 /\ \A t \in Session : t # s => path'[t] = path[t]
      BY <1>1, <2>1 DEF IInv, Types
    <2>8. /\ ghost'.chosen[s] = job[p].value
          /\ \A t \in Session : t # s => ghost'.chosen[t] = ghost.chosen[t]
          /\ ghost'.named = ghost.named /\ ghost'.behind = ghost.behind
      BY <1>1, <2>1 DEF IInv, Types, Ghosts
    <2>9. JobHas(job[p], self[p], path, logs) /\ LogHas(job[p], self[p], path, logs)
      BY DEF Steady, What, Has
    <2>10. place[s] = "live" /\ meta[s] = Nothing
      BY <1>1, <2>1, <2>9 DEF Reached, JobHas, Steady, What, Empty
    <2>11. Where'
      <3>1. \A t \in Session : place[t] = "none" => path'[t] = 0
        BY <2>7, <2>10 DEF Steady, Where, Unused
      <3>2. PlacesKept /\ \A t \in Session : self'[p].session = t => Uses(p, t)
        BY <2>1, <2>5 DEF PlacesKept, Uses
      <3>3. \A t \in Session, q \in Process \ {p} :
               guard[t] = q /\ Uses(q, t) => guard'[t] = q
        BY <2>1
      <3> QED
        BY <2>5, <3>1, <3>2, <3>3, EndsWhere
    <2>12. ASSUME NEW q \in Process \ {p}
           PROVE  Has(job'[q], self'[q], path', logs', ghost')
      <3>1. job'[q] = job[q] /\ self'[q] = self[q]
        BY <2>5 DEF Only
      <3>2. \A t \in Session : path'[t] = path[t] \/ path[t] = 0 \/ ~Uses(q, t)
        BY <2>6, <2>7
      <3>3. \A i \in 1 .. Len(logs) : logs'[i].model = logs[i].model
        BY <2>4
      <3> QED
        BY <2>8, <3>1, <3>2, <3>3, HasStays DEF Steady
    <2>13. Has(Idle, self[p], path', logs', ghost')
      <3>1. self[p].session # Nothing =>
               /\ path'[self[p].session] = path[self[p].session]
               /\ logs'[self[p].log].model = logs[self[p].log].model
        <4> HAVE self[p].session # Nothing
        <4>1. /\ self[p].session \in Session /\ self[p].session # s
              /\ self[p].log \in 1 .. Len(logs)
          BY <2>6, Referred DEF Steady, Uses
        <4> QED
          BY <2>4, <2>7, <4>1
      <3>2. LogHas(Idle, self[p], path', logs')
        BY <1>1, <2>9, <3>1 DEF LogHas, Idle
      <3> QED
        BY <3>2, IdleHas
    <2>14. \A t \in Session : path[t] \in 0 .. Len(logs)
      BY JobOf
    <2>15. OneEach'
      BY <2>3, <2>7, <2>14 DEF Steady, What, OneEach
    <2>16. Empty'
      <3>1. Idle.at # "adopt" /\ path'[s] # 0
        BY <2>3, <2>7 DEF Idle
      <3> QED
        BY <2>1, <2>5, <2>7, <2>8, <2>10, <3>1 DEF Steady, What, Empty, Only
    <2>17. Chosen' /\ Merged'
      <3>1. logs'[path'[s]].model = ghost'.chosen[s]
        BY <2>2, <2>4, <2>7, <2>8
      <3>2. \A t \in Session : t # s /\ path[t] # 0 => logs'[path'[t]] = logs[path[t]]
        BY <2>4, <2>7, <2>14
      <3>3. \A t \in Session : meta[t] # Nothing => t # s /\ path[t] # 0
        BY <2>10 DEF Steady, What, Empty
      <3>4. Chosen'
        BY <2>7, <2>8, <3>1, <3>2 DEF Steady, What, Chosen
      <3>5. Merged'
        BY <2>1, <2>8, <3>2, <3>3 DEF Steady, What, Merged
      <3> QED
        BY <3>4, <3>5
    <2>18. \A q \in Process : Has(job'[q], self'[q], path', logs', ghost')
      BY <2>5, <2>12, <2>13
    <2> QED
      BY <2>11, <2>15, <2>16, <2>17, <2>18 DEF Steady, What
  <1> QED
    BY <1>2, <1>3

LEMMA AppendSettingSteady ==
    ASSUME IInv, Steady, NEW p \in Process, AppendSetting(p)
    PROVE  Steady'
  <1>1. /\ job[p].at = "append" /\ job[p].cmd \in {"open", "set"} /\ job[p].id \in Session
        /\ job[p].value \in Model
    BY JobOf DEF AppendSetting, Sound, FitsIn
  <1>2. CASE Fails(p) /\ job[p].cmd = "open"
    BY <1>2, FailsSteady
  <1>3. CASE Gone(p)
    BY <1>3, GoneSteady
  <1>4. CASE ~(Fails(p) /\ job[p].cmd = "open") /\ ~Gone(p)
    <2> DEFINE s == job[p].id
               i == IF job[p].cmd = "set" THEN self[p].log ELSE job[p].log
               v == job[p].value
               j == [job[p] EXCEPT !.at = "guard"]
    <2>1. /\ logs' = [logs EXCEPT ![i].typed = TRUE, ![i].model = v]
          /\ ghost' = [ghost EXCEPT !.chosen[s] =
                            IF job[p].cmd = "set" \/ job[p].asked THEN v ELSE @,
                                    !.behind[s] = TRUE]
          /\ job' = [job EXCEPT ![p] = j]
          /\ UNCHANGED <<place, path, meta, guard, self, left>>
      BY <1>4 DEF AppendSetting, Goes, IInv, Types
    <2>2. /\ j.at = "guard" /\ j.cmd = job[p].cmd /\ j.id = s /\ j.in = job[p].in
          /\ j.value = v /\ j.log = job[p].log
      BY <1>1, JobOf DEF Job
    <2>3. Only(p) /\ job'[p] = j /\ self'[p] = self[p]
      BY <2>1, OneStep
    <2>4. JobHas(job[p], self[p], path, logs) /\ LogHas(job[p], self[p], path, logs)
      BY DEF Steady, What, Has
    <2>5. i \in 1 .. Len(logs) /\ path[s] = i /\ logs[i].holder = p
      <3>1. CASE job[p].cmd = "set"
        <4>1. self[p].session = s /\ self[p].session # Nothing
          BY <1>1, <2>4, <3>1, Apart DEF JobHas
        <4> QED
          BY <3>1, <4>1, Referred DEF Steady, IInv, Locks, LockedIn
      <3>2. CASE job[p].cmd = "open"
        BY <1>1, <3>2, Referred DEF Steady, IInv, Locks, LockedIn
      <3> QED
        BY <1>1, <3>1, <3>2
    <2>6. job[p].cmd = "open" => job[p].asked
      BY <1>1, <2>4 DEF JobHas
    <2>7. /\ ghost'.chosen[s] = v /\ ghost'.behind[s]
          /\ ghost'.named = ghost.named
          /\ \A t \in Session : t # s => /\ ghost'.chosen[t] = ghost.chosen[t]
                                         /\ ghost'.behind[t] = ghost.behind[t]
      BY <1>1, <2>1, <2>6 DEF IInv, Types, Ghosts
    <2> HIDE DEF i, j, v
    <2>8. \A k \in 1 .. Len(logs) : logs'[k].model = IF k = i THEN v ELSE logs[k].model
      <3>1. \A k \in 1 .. Len(logs) : logs[k] \in LogFile
        BY JobOf
      <3>2. DOMAIN logs = 1 .. Len(logs)
        BY JobOf
      <3> QED
        BY <2>1, <3>1, <3>2 DEF LogFile
    <2>9. Where'
      <3>1. HoldsOn(p)
        BY <2>1, <2>2, <2>3 DEF HoldsOn, CacheStages
      <3> QED
        BY <1>1, <2>1, <2>2, <2>3, <3>1, StaysWhere
    <2>10. \A t \in Session : path[t] = i => t = s
      BY <1>1, <2>5 DEF Steady, What, OneEach
    <2>11. ASSUME NEW q \in Process \ {p}
           PROVE  Has(job'[q], self'[q], path', logs', ghost')
      <3>1. job'[q] = job[q] /\ self'[q] = self[q]
        BY <2>3 DEF Only
      <3>2. \A k \in 1 .. Len(logs) :
               \/ logs'[k].model = logs[k].model
               \/ logs[k].holder # q /\ \A t \in Session : path[t] = k => ghost'.behind[t]
        BY <2>5, <2>7, <2>8, <2>10
      <3>3. job[q].at \in {"write", "publish"} =>
               /\ ghost'.named[job[q].id] = ghost.named[job[q].id]
               /\ ghost.behind[job[q].id] => ghost'.behind[job[q].id]
        BY <2>7, Referred DEF Steady
      <3> QED
        BY <2>1, <3>1, <3>2, <3>3, HasStays DEF Steady
    <2>12. Has(j, self[p], path', logs', ghost')
      <3>1. LogHas(j, self[p], path', logs')
        <4>1. CASE job[p].cmd = "set"
          <5>1. self[p].log = i
            BY <4>1 DEF i
          <5> QED
            BY <1>1, <2>1, <2>2, <2>4, <2>5, <2>8, <4>1, <5>1 DEF LogHas
        <4>2. CASE job[p].cmd = "open"
          <5>1. job[p].log = i /\ self[p].log # i
            BY <1>1, <2>5, <4>2, JobOf DEF i, Sound, ApartIn
          <5>2. self[p].session # Nothing => self[p].log \in 1 .. Len(logs)
            BY Referred DEF Steady
          <5> QED
            BY <1>1, <2>1, <2>2, <2>4, <2>8, <4>2, <5>1, <5>2 DEF LogHas
        <4> QED
          BY <1>1, <4>1, <4>2
      <3>2. JobHas(j, self[p], path', logs')
        <4>1. job[p].cmd = "open" => job[p].log = i
          BY DEF i
        <4> QED
          BY <1>1, <2>1, <2>2, <2>4, <2>5, <2>8, <4>1 DEF JobHas
      <3>3. CacheHas(j, path', logs', ghost')
        BY <2>2 DEF CacheHas
      <3> QED
        BY <3>1, <3>2, <3>3 DEF Has
    <2>13. OneEach' /\ Empty'
      BY <2>1, <2>2, <2>3, <2>5, <2>7 DEF Steady, What, OneEach, Empty, Only
    <2>14. \A t \in Session : path[t] # 0 /\ t # s =>
              logs'[path'[t]].model = logs[path[t]].model
      <3>1. \A t \in Session : path[t] \in 0 .. Len(logs)
        BY JobOf
      <3> QED
        BY <2>1, <2>8, <2>10, <3>1
    <2>15. logs'[path'[s]].model = v
      BY <2>1, <2>5, <2>8
    <2>16. Chosen'
      BY <2>1, <2>7, <2>14, <2>15 DEF Steady, What, Chosen
    <2>17. Merged'
      <3> SUFFICES ASSUME NEW t \in Session, meta'[t] # Nothing
                   PROVE  /\ meta'[t].name = ghost'.named[t]
                          /\ ~ghost'.behind[t] => meta'[t].model = logs'[path'[t]].model
        BY DEF Merged
      <3>1. /\ meta[t] # Nothing /\ meta'[t] = meta[t] /\ meta[t].name = ghost.named[t]
            /\ ~ghost.behind[t] => meta[t].model = logs[path[t]].model
        BY <2>1 DEF Steady, What, Merged
      <3>2. path[t] # 0
        BY <3>1 DEF Steady, What, Empty
      <3>3. CASE t = s
        BY <2>7, <3>1, <3>3
      <3>4. CASE t # s
        BY <2>7, <2>14, <3>1, <3>2, <3>4
      <3> QED
        BY <3>3, <3>4
    <2>18. \A q \in Process : Has(job'[q], self'[q], path', logs', ghost')
      BY <2>3, <2>11, <2>12
    <2> QED
      BY <2>9, <2>13, <2>16, <2>17, <2>18 DEF Steady, What
  <1> QED
    BY <1>2, <1>3, <1>4 DEF AppendSetting

LEMMA PublishSteady ==
    ASSUME IInv, Steady, NEW p \in Process, Publish(p)
    PROVE  Steady'
  <1> DEFINE s == job[p].id
             c == job[p].cache
  <1>1. /\ job[p].at = "publish" /\ job[p].cmd \in {"open", "set", "rename"}
        /\ s \in Session /\ c \in Cache
    BY JobOf DEF Publish, Sound, FitsIn
  <1>2. Has(job[p], self[p], path, logs, ghost)
    BY DEF Steady, What
  <1>3. Uses(p, s) /\ guard[s] = p
    BY <1>1, WritersUse DEF Steady, CacheStages, Where, Guarded
  <1>4. Reached(p)
    BY <1>1, <1>2, <1>3 DEF Steady, Where, AtHome, Reached, Has, JobHas
  <1>5. /\ AfterCache(p) /\ Released(p) /\ UNCHANGED <<place, path, left>>
        /\ meta' = [meta EXCEPT ![s] = c]
        /\ ghost' = [ghost EXCEPT
                !.named[s] = IF job[p].cmd = "rename" THEN job[p].value ELSE @,
                !.behind[s] = IF job[p].cmd = "rename" THEN @ ELSE FALSE]
    BY <1>4 DEF Publish
  <1>6. /\ Only(p) /\ job'[p] = Idle /\ SameModels
        /\ \A t \in Session : self'[p].session = t => Uses(p, t)
        /\ LogHas(Idle, self'[p], path', logs')
    BY <1>1, <1>5, AfterCacheHas
  <1>7. /\ meta'[s] = c /\ c # Nothing
        /\ \A t \in Session : t # s => meta'[t] = meta[t]
    BY <1>1, <1>5, SessionsAssumption DEF IInv, Types, Cache
  <1>8. /\ ghost'.chosen = ghost.chosen
        /\ ghost'.named[s] = (IF job[p].cmd = "rename" THEN job[p].value ELSE ghost.named[s])
        /\ ghost'.behind[s] = (IF job[p].cmd = "rename" THEN ghost.behind[s] ELSE FALSE)
        /\ \A t \in Session : t # s => /\ ghost'.named[t] = ghost.named[t]
                                       /\ ghost'.behind[t] = ghost.behind[t]
    BY <1>1, <1>5 DEF IInv, Types, Ghosts
  <1>9. Where'
    <2>1. \A t \in Session, q \in Process \ {p} : guard[t] = q => guard'[t] = q
      BY <1>1, <1>5 DEF Released, IInv, Types
    <2>2. PlacesKept /\ \A t \in Session : place[t] = "none" => path'[t] = 0
      BY <1>5 DEF PlacesKept, Steady, Where, Unused
    <2> QED
      BY <1>6, <2>1, <2>2, EndsWhere
  <1>10. ASSUME NEW q \in Process \ {p}
         PROVE  Has(job'[q], self'[q], path', logs', ghost')
    <2>1. job'[q] = job[q] /\ self'[q] = self[q]
      BY <1>6 DEF Only
    <2>2. job[q].at \in {"write", "publish"} => job[q].id \in Session /\ job[q].id # s
      <3> HAVE job[q].at \in {"write", "publish"}
      <3>1. job[q].cmd # "list" /\ job[q].id \in Session
        BY JobOf DEF Sound, FitsIn
      <3>2. guard[job[q].id] = q
        BY <3>1 DEF CacheStages, Steady, Where, Guarded
      <3> QED
        BY <1>3, <3>1, <3>2
    <2>3. /\ \A t \in Session : path'[t] = path[t]
          /\ \A i \in 1 .. Len(logs) : logs'[i].model = logs[i].model
      BY <1>5, <1>6 DEF SameModels
    <2> QED
      BY <1>8, <2>1, <2>2, <2>3, HasStays DEF Steady
  <1>11. Has(Idle, self'[p], path', logs', ghost')
    BY <1>6, IdleHas
  <1>12. CacheHas(job[p], path, logs, ghost) /\ path[s] \in 1 .. Len(logs)
    BY <1>1, <1>2, Referred DEF Has, Steady
  <1>13. path[s] # 0 /\ c.name = ghost'.named[s]
    BY <1>1, <1>8, <1>12 DEF CacheHas
  <1>14. ~ghost'.behind[s] => c.model = logs[path[s]].model
    <2>1. CASE job[p].cmd = "rename"
      BY <1>1, <1>8, <1>12, <2>1 DEF CacheHas
    <2>2. CASE job[p].cmd = "open"
      <3>1. c.model = job[p].value
        BY <1>1, <1>12, <2>2 DEF CacheHas
      <3>2. job[p].log = path[s] /\ logs[job[p].log].model = job[p].value
        BY <1>1, <1>2, <2>2 DEF Has, JobHas
      <3> QED
        BY <3>1, <3>2
    <2>3. CASE job[p].cmd = "set"
      <3>1. c.model = job[p].value
        BY <1>1, <1>12, <2>3 DEF CacheHas
      <3>2. self[p].session = s /\ s # Nothing
        BY <1>1, <1>2, <2>3, Apart DEF Has, JobHas
      <3>3. self[p].log = path[s] /\ logs[self[p].log].model = job[p].value
        BY <1>1, <1>2, <2>3, <3>2 DEF Has, LogHas
      <3> QED
        BY <3>1, <3>3
    <2> QED
      BY <1>1, <2>1, <2>2, <2>3
  <1>15. \A t \in Session : path[t] # 0 => logs'[path'[t]].model = logs[path[t]].model
    <2>1. \A t \in Session : path[t] \in 0 .. Len(logs)
      BY JobOf
    <2> QED
      BY <1>5, <1>6, <2>1 DEF SameModels
  <1>16. OneEach'
    BY <1>5 DEF Steady, What, OneEach
  <1>17. Empty'
    <2>1. \A q \in Process : ~(job'[q].id = s /\ job'[q].at = "adopt")
      <3>1. \A q \in Process : ~(job[q].id = s /\ job[q].at = "adopt")
        BY <1>1, <1>3 DEF Steady, Where, NoGap, InGap
      <3>2. \A q \in Process : job'[q] = Idle \/ job'[q] = job[q]
        BY <1>6 DEF Only
      <3> QED
        BY <3>1, <3>2 DEF Idle
    <2>2. \A q \in Process : job'[q].at = "adopt" => job'[q] = job[q]
      BY <1>6 DEF Only, Idle
    <2> QED
      BY <1>5, <1>7, <1>8, <1>13, <2>1, <2>2 DEF Steady, What, Empty
  <1>18. Chosen'
    BY <1>5, <1>8, <1>15 DEF Steady, What, Chosen
  <1>19. Merged'
    BY <1>5, <1>7, <1>8, <1>13, <1>14, <1>15 DEF Steady, What, Merged, Empty
  <1>20. \A q \in Process : Has(job'[q], self'[q], path', logs', ghost')
    BY <1>6, <1>10, <1>11
  <1> QED
    BY <1>9, <1>16, <1>17, <1>18, <1>19, <1>20 DEF Steady, What

-----------------------------------------------------------------------------
(* A race that has happened is not forgotten.                                *)
LEMMA RacedStays ==
    ASSUME IInv, [Next]_vars, ghost.raced
    PROVE  ghost'.raced
  <1>0. ghost \in Ghosts
    BY DEF IInv, Types
  <1>1. /\ ghost' = ghost => ghost'.raced
        /\ \A b \in BOOLEAN : ghost' = [ghost EXCEPT !.raced = @ \/ b] => ghost'.raced
    BY <1>0 DEF Ghosts
  <1>2. \A s \in Session : InGap(s) \in BOOLEAN /\ Unseen(s) \in BOOLEAN
    BY DEF InGap, Unseen
  <1>3. ASSUME NEW p \in Process, Command(p) \/ \E m \in Model : SetModel(p, m)
        PROVE  ghost'.raced
    <2>1. \/ ghost' = ghost
          \/ \E s \in Session : \/ ghost' = [ghost EXCEPT !.raced = @ \/ InGap(s)]
                                \/ ghost' = [ghost EXCEPT !.raced = @ \/ Unseen(s)]
      BY <1>3 DEF Command, SetModel, Switch, NewSession, Rename, List, Trash,
                  RestoreTrashed, Delete, Import
    <2> QED
      BY <1>1, <1>2, <2>1
  <1>4. ASSUME NEW p \in Process, Step(p)
        PROVE  ghost'.raced
    <2>1. CASE OpenLog(p)
      <3>1. job[p].at = "open" => job[p].id \in Session
        BY JobOf DEF Sound, FitsIn
      <3> QED
        BY <1>1, <1>2, <2>1, <3>1 DEF OpenLog, Fails
    <2>2. CASE LockLog(p) \/ Restore(p)
      BY <1>1, <2>2 DEF LockLog, Restore, Fails
    <2>3. CASE AppendSetting(p)
      BY <1>0, <1>1, <2>3 DEF AppendSetting, Fails, Gone, Ghosts
    <2>4. CASE LockCache(p) \/ ReadCache(p) \/ Rebuild(p) \/ Rebuilt(p) \/ WriteCache(p)
      BY <1>1, <2>4 DEF LockCache, ReadCache, Rebuild, Rebuilt, WriteCache, Fails
    <2>5. CASE Publish(p)
      BY <1>0, <1>1, <2>5 DEF Publish, Ghosts
    <2>6. CASE Move(p) \/ RemoveDirectory(p)
      BY <1>1, <2>6 DEF Move, RemoveDirectory
    <2>7. CASE Unlink(p) \/ Adopt(p)
      BY <1>0, <1>1, <2>7 DEF Unlink, Adopt, Fails, Ghosts
    <2> QED
      BY <1>4, <2>1, <2>2, <2>3, <2>4, <2>5, <2>6, <2>7 DEF Step
  <1>5. ASSUME NEW p \in Process, Exit(p)
        PROVE  ghost'.raced
    BY <1>1, <1>5 DEF Exit, Gone
  <1>6. CASE UNCHANGED vars
    BY <1>1, <1>6 DEF vars
  <1> QED
    BY <1>3, <1>4, <1>5, <1>6 DEF Next

LEMMA InitSteady == Init => Steady
  <1> SUFFICES ASSUME Init PROVE Steady
    OBVIOUS
  <1>1. PICK s \in Session, where \in {"live", "trash"}, m \in Model, cached \in BOOLEAN :
            /\ where = "live" \/ cached
            /\ place = [x \in Session |-> IF x = s THEN where ELSE "none"]
            /\ path = [x \in Session |-> IF x = s THEN 1 ELSE 0]
            /\ logs = <<Log(TRUE, m)>>
            /\ meta = [x \in Session |->
                  IF x = s /\ cached THEN [model |-> m, name |-> Nothing] ELSE Nothing]
            /\ guard = [x \in Session |-> Nothing]
            /\ self = [p \in Process |-> NoSelf]
            /\ job = [p \in Process |-> Idle]
            /\ left = MaxCommands
            /\ ghost = [chosen |-> [x \in Session |-> IF x = s THEN m ELSE Nothing],
                        named |-> [x \in Session |-> Nothing],
                        behind |-> [x \in Session |-> FALSE], raced |-> FALSE]
    BY Zenon DEF Init
  <1>2. \A p \in Process : self[p].session = Nothing /\ job[p] = Idle
    BY <1>1 DEF NoSelf
  <1>3. \A t \in Session : t # Nothing
    BY Apart
  <1>4. \A p \in Process : job[p].id = Nothing /\ job[p].at = "idle" /\ job[p].cmd = Nothing
    BY <1>2 DEF Idle
  <1>5. \A p \in Process, t \in Session : ~Uses(p, t)
    BY <1>2, <1>3, <1>4 DEF Uses
  <1>6. Where
    BY <1>1, <1>2, <1>3, <1>4, <1>5
       DEF Where, Unused, AtHome, NoGap, Guarded, CacheStages
  <1>7. /\ \A t \in Session : path[t] = IF t = s THEN 1 ELSE 0
        /\ \A t \in Session : ghost.chosen[t] = IF t = s THEN m ELSE Nothing
        /\ \A t \in Session : ghost.named[t] = Nothing
        /\ \A t \in Session : meta[t] = IF t = s /\ cached
                                        THEN [model |-> m, name |-> Nothing] ELSE Nothing
        /\ logs[1].model = m
    BY <1>1 DEF Log
  <1>8. OneEach /\ Empty
    BY <1>4, <1>7 DEF OneEach, Empty
  <1>9. \A p \in Process : Has(job[p], self[p], path, logs, ghost)
    BY <1>2, <1>4 DEF Has, LogHas, JobHas, CacheHas
  <1>10. Chosen
    BY <1>7 DEF Chosen
  <1>11. Merged
    <2> SUFFICES ASSUME NEW t \in Session, meta[t] # Nothing
                 PROVE  /\ meta[t].name = ghost.named[t]
                        /\ meta[t].model = logs[path[t]].model
      BY DEF Merged
    <2>1. t = s /\ meta[t] = [model |-> m, name |-> Nothing] /\ path[t] = 1
      BY <1>7
    <2> QED
      BY <1>7, <2>1
  <1> QED
    BY <1>6, <1>8, <1>9, <1>10, <1>11 DEF Steady, What

LEMMA NextSInv == IInv /\ SInv /\ [Next]_vars => SInv'
  <1> SUFFICES ASSUME IInv, SInv, [Next]_vars, ~ghost'.raced PROVE Steady'
    BY DEF SInv
  <1>1. Steady
    BY RacedStays DEF SInv
  <1>2. ASSUME NEW p \in Process, Command(p) \/ \E m \in Model : SetModel(p, m)
        PROVE  Steady'
    BY <1>1, <1>2, CommandSteady
  <1>3. ASSUME NEW p \in Process, Step(p)
        PROVE  Steady'
    <2>1. CASE OpenLog(p) \/ LockLog(p) \/ Restore(p) \/ AppendSetting(p)
      BY <1>1, <2>1, OpenLogSteady, LockLogSteady, RestoreSteady, AppendSettingSteady
    <2>2. CASE LockCache(p) \/ ReadCache(p) \/ Rebuild(p) \/ Rebuilt(p)
      BY <1>1, <2>2, LockCacheSteady, ReadCacheSteady, RebuildSteady, RebuiltSteady
    <2>3. CASE WriteCache(p) \/ Publish(p) \/ Adopt(p)
      BY <1>1, <2>3, WriteCacheSteady, PublishSteady, AdoptSteady
    <2>4. CASE Move(p) \/ Unlink(p) \/ RemoveDirectory(p)
      BY <1>1, <2>4, MoveSteady, UnlinkSteady
    <2> QED
      BY <1>3, <2>1, <2>2, <2>3, <2>4 DEF Step
  <1>4. ASSUME NEW p \in Process, Exit(p)
        PROVE  Steady'
    BY <1>1, <1>4, GoneSteady DEF Exit
  <1>5. CASE UNCHANGED vars
    BY <1>1, <1>5 DEF vars, Steady, Where, What, Unused, AtHome, NoGap, Guarded, Uses,
                      InGap, OneEach, Empty, Chosen, Merged
  <1> QED
    BY <1>2, <1>3, <1>4, <1>5 DEF Next

LEMMA SInvChoiceIsKept == SInv => ChoiceIsKept
  <1> SUFFICES ASSUME Steady, ~ghost.raced PROVE ChoiceIsKept
    BY DEF SInv, ChoiceIsKept
  <1>1. ASSUME NEW p \in Process, self[p].session # Nothing, job[p].at = "idle"
        PROVE  self[p].model = logs[self[p].log].model /\ self[p].log = path[self[p].session]
    BY <1>1 DEF Steady, What, Has, LogHas
  <1> QED
    BY <1>1 DEF ChoiceIsKept, Steady, What, Chosen

(* The model a user chose for a session is kept (cli_session_switch.c,       *)
(* cli_session_metadata.c): it is what the last record of the session's log  *)
(* says, and what an idle process on it works with, through every switch,    *)
(* rename, rebuild, move, import, failure and death, of any number of        *)
(* processes, none of which came through one of the two known gaps.          *)
THEOREM ChoicesAreKept == Spec => []ChoiceIsKept
  <1>1. Init => SInv
    BY InitSteady DEF SInv
  <1> QED
    BY <1>1, InitIInv, NextIInv, NextSInv, SInvChoiceIsKept, PTL DEF Spec

(* The cache of a session is the merge of its two writers: metadata.json has *)
(* the name the last rename gave, which no refresh of the model takes back,  *)
(* and the model of the log, but for a change not mirrored yet.              *)
THEOREM CachesAreMerged == Spec => []CacheIsMerged
  <1>1. Init => SInv
    BY InitSteady DEF SInv
  <1>2. SInv => CacheIsMerged
    BY DEF SInv, Steady, What, Merged, CacheIsMerged
  <1> QED
    BY <1>1, <1>2, InitIInv, NextIInv, NextSInv, PTL DEF Spec
=============================================================================
