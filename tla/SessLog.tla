------------------------------- MODULE SessLog -------------------------------
(***************************************************************************)
(* The file of a session log: sesslog.c, and the copy of its records that  *)
(* cli_history_store.c keeps in memory.                                    *)
(*                                                                         *)
(* The file is a sequence of bytes, a header and then frames, each a       *)
(* length prefix and a payload, and the only thing known about it is what  *)
(* reading the bytes says.  To keep it small a byte has Radix values, the  *)
(* prefix is two bytes and the header as long as Header.  Processes open   *)
(* the file under an exclusive lock, scan it, cut off a torn tail, append, *)
(* and die at any time, between two bytes of a write too.                  *)
(***************************************************************************)
EXTENDS Naturals, Sequences, SequencesExt

CONSTANTS Process,
          Radix,      \* values of a byte
          Header,     \* OI_SESSLOG_MAGIC and OI_SESSLOG_VERSION
          MaxRecord,  \* OI_SESSLOG_MAX_RECORD
          MaxFile,    \* bound of the model: bytes in the file
          Faults      \* what may go wrong, a subset of AllFaults

AllFaults == {"kill",      \* a process dies within a write
              "short",     \* a write is short or fails
              "truncate"}  \* ftruncate fails

Byte    == 0 .. Radix - 1
Payload == UNION {[1..n -> Byte] : n \in 0..MaxRecord}

ASSUME SessLogAssumption ==
    /\ Radix \in Nat \ {0} /\ MaxRecord \in 0 .. Radix * Radix - 1
    /\ Header \in Seq(Byte) /\ Header # <<>>
    /\ MaxFile \in Nat /\ Len(Header) <= MaxFile
    /\ Faults \subseteq AllFaults

VARIABLES
    file,    \* the bytes
    pc,      \* pc[p]: "closed", "check" (lock taken) or "open"
    mem,     \* mem[p]: store->typed_history of the process
    (* History variables: nothing in the code reads them. *)
    known,   \* records in the log when an append last returned OI_OK
    stuck    \* 0, or the length of the file before a torn tail that
             \* could not be rolled back

vars == <<file, pc, mem, known, stuck>>

-----------------------------------------------------------------------------
(* encode_u32le, decode_u32le: length prefixes, least byte first.          *)
Encode(n)      == <<n % Radix, n \div Radix>>
Decode(f, pos) == f[pos + 1] + Radix * f[pos + 2]

Frame(payload) == Encode(Len(payload)) \o payload

(* A whole frame stands at offset pos.  (Mutant: any length is plausible.) *)
AnyFrameAt(f, pos) ==
    /\ Len(f) - pos >= 2
    /\ Decode(f, pos) <= Len(f) - pos - 2

FrameAt(f, pos) ==
    /\ Len(f) - pos >= 2
    /\ Decode(f, pos) <= MaxRecord
    /\ Decode(f, pos) <= Len(f) - pos - 2

NextFrame(f, pos) == pos + 2 + Decode(f, pos)

(* scan_for_valid_end.                                                     *)
ValidEnd(f) ==
    LET scan[pos \in 0..Len(f)] ==
            IF FrameAt(f, pos) THEN scan[NextFrame(f, pos)] ELSE pos
    IN  scan[Len(Header)]

(* oi_sesslog_replay.                                                      *)
Records(f) ==
    LET from[pos \in 0..Len(f)] ==
            IF FrameAt(f, pos)
            THEN <<SubSeq(f, pos + 3, NextFrame(f, pos))>>
                    \o from[NextFrame(f, pos)]
            ELSE <<>>
    IN  IF Len(f) < Len(Header) THEN <<>> ELSE from[Len(Header)]

TornTail(f) == ValidEnd(f) < Len(f)

(* What a write that is cut off adds: some of the bytes.                   *)
Cut(bytes) == {SubSeq(bytes, 1, k) : k \in 0 .. Len(bytes) - 1}

-----------------------------------------------------------------------------
Init ==
    /\ file = <<>> /\ known = 0 /\ stuck = 0
    /\ pc = [p \in Process |-> "closed"]
    /\ mem = [p \in Process |-> <<>>]

(* The process is without the log: it closed it, failed to open it, or is  *)
(* dead.  The lock goes with the descriptor.                               *)
Closed(p) ==
    /\ pc' = [pc EXCEPT ![p] = "closed"]
    /\ mem' = [mem EXCEPT ![p] = <<>>]
    /\ UNCHANGED known

(* oi_cli_history_store_load on a log just opened.                         *)
Opened(p) ==
    /\ pc' = [pc EXCEPT ![p] = "open"]
    /\ mem' = [mem EXCEPT ![p] = Records(file')]
    /\ stuck' = IF Len(file') = stuck THEN 0 ELSE stuck
    /\ UNCHANGED known

(* open and flock of oi_sesslog_open.  A lock that is taken is refused at  *)
(* once, with OI_ERR_EXISTS.  (Mutant: no lock.)                           *)
LockUnheeded(p) ==
    /\ pc[p] = "closed"
    /\ pc' = [pc EXCEPT ![p] = "check"]
    /\ UNCHANGED <<file, mem, known, stuck>>

Lock(p) ==
    /\ \A q \in Process : pc[q] = "closed"
    /\ pc' = [pc EXCEPT ![p] = "check"]
    /\ UNCHANGED <<file, mem, known, stuck>>

(* A new file gets its header.                                             *)
Create(p) ==
    /\ pc[p] = "check" /\ file = <<>>
    /\ \/ file' = Header /\ Opened(p)
       \/ /\ "short" \in Faults
          /\ \E part \in Cut(Header) :
                file' \in {<<>>} \cup (IF "truncate" \in Faults THEN {part} ELSE {})
          /\ Closed(p) /\ UNCHANGED stuck
       \/ /\ "kill" \in Faults
          /\ file' \in Cut(Header) \cup {Header}
          /\ Closed(p) /\ UNCHANGED stuck

(* A file with contents is scanned, and a torn tail cut off.  (Mutant: the *)
(* tail is left.)                                                          *)
RecoverKeepingTail(p) ==
    /\ pc[p] = "check" /\ IsPrefix(Header, file)
    /\ UNCHANGED file /\ Opened(p)

Recover(p) ==
    /\ pc[p] = "check" /\ IsPrefix(Header, file)
    /\ \/ file' = SubSeq(file, 1, ValidEnd(file)) /\ Opened(p)
       \/ /\ TornTail(file) /\ "truncate" \in Faults
          /\ Closed(p) /\ UNCHANGED <<file, stuck>>

(* Anything else is OI_ERR_PARSE.                                          *)
Refuse(p) ==
    /\ pc[p] = "check" /\ file # <<>> /\ ~IsPrefix(Header, file)
    /\ Closed(p) /\ UNCHANGED <<file, stuck>>

(* oi_cli_history_store_append, oi_sesslog_append.                         *)
Wrote(p, r) ==
    /\ file' = file \o Frame(r)
    /\ mem' = [mem EXCEPT ![p] = Append(@, r)]
    /\ known' = IF stuck = 0 THEN Len(mem'[p]) ELSE known
    /\ UNCHANGED <<pc, stuck>>

(* A write that is short or fails is rolled back, if ftruncate can.        *)
RolledBack(r) ==
    /\ "short" \in Faults
    /\ \/ UNCHANGED <<file, stuck>>
       \/ /\ "truncate" \in Faults
          /\ file' \in {file \o part : part \in Cut(Frame(r))}
          /\ stuck' = IF stuck = 0 /\ file' # file THEN Len(file) ELSE stuck
    /\ UNCHANGED <<pc, mem, known>>

(* The process dies in the write.                                          *)
Killed(p, r) ==
    /\ "kill" \in Faults
    /\ file' \in {file \o part : part \in Cut(Frame(r)) \cup {Frame(r)}}
    /\ Closed(p) /\ UNCHANGED stuck

AppendRecord(p, r) ==
    /\ pc[p] = "open"
    /\ Len(file) + Len(Frame(r)) <= MaxFile
    /\ Wrote(p, r) \/ RolledBack(r) \/ Killed(p, r)

(* oi_sesslog_close, or the death of the process between two calls.        *)
Close(p) ==
    /\ pc[p] # "closed"
    /\ Closed(p) /\ UNCHANGED <<file, stuck>>

Next == \E p \in Process :
            \/ Lock(p) \/ Create(p) \/ Recover(p) \/ Refuse(p) \/ Close(p)
            \/ \E r \in Payload : AppendRecord(p, r)

Spec == Init /\ [][Next]_vars

-----------------------------------------------------------------------------
TypeOK ==
    /\ file \in Seq(Byte) /\ Len(file) <= MaxFile
    /\ pc \in [Process -> {"closed", "check", "open"}]
    /\ mem \in [Process -> Seq(Payload)]
    /\ known \in Nat /\ stuck \in 0..Len(file)

(* What the process that has the log believes is in it is what the next    *)
(* one will read, unless a rollback failed.                                *)
MemoryMatchesFile ==
    \A p \in Process :
        pc[p] = "open" /\ stuck = 0 => mem[p] = Records(file)

(* The bytes implement the promise of sesslog.h, whichever process writes, *)
(* fails or dies.  Behind a tail that could not be rolled back, which      *)
(* sesslog.h excepts, nothing is promised; what came before it is.         *)
Sound == IF stuck = 0 THEN file ELSE SubSeq(file, 1, stuck)

Promise == INSTANCE DurableLog WITH Record <- Payload, log <- Records(Sound)

KeepsPromise == Promise!Spec
=============================================================================
