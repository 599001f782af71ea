------------------------------- MODULE AuditLog -------------------------------
(***************************************************************************)
(* The append-only audit log (crates/oc-keyagent/src/audit.rs) and the     *)
(* processes that write to ~/.onecipher/logs/audit.jsonl: the Key-Agent    *)
(* daemon, `oc agent secret` commands (bin/oc-cli/src/commands/            *)
(* agent_secret.rs, which open the log anew for one append), and the       *)
(* command line's light audit channel (bin/oc-cli/src/audit.rs, which      *)
(* appends lines of another schema to the same file).                      *)
(*                                                                         *)
(* An append is two writes, the entry and the newline, then an fsync; the  *)
(* writer's idea of the chain's tail is in memory and is read from the     *)
(* file only when the log is opened.  A line of the file is the sequence   *)
(* of the chunks written since the last newline: it parses as an entry     *)
(* only when it is exactly one complete entry.  The hash of an entry is    *)
(* modelled by its id, which no two entries share.                         *)
(***************************************************************************)
EXTENDS Naturals, Sequences, FiniteSets

CONSTANTS
    Loggers,      \* processes that use AuditLog
    OneShot,      \* those of them that open the log for a single append
    LightWriters, \* processes that use the light channel
    Faults,       \* the failures that may happen
    MaxWrites     \* bound on the number of appends

ASSUME FaultAssumption ==
    Faults \subseteq {"crash idle", "crash line", "crash sync", "torn", "newline", "sync"}
ASSUME WriterAssumption ==
    OneShot \subseteq Loggers /\ Loggers \cap LightWriters = {} /\ MaxWrites \in Nat

Writers == Loggers \cup LightWriters

VARIABLES
    lines,     \* the terminated lines of the file
    open,      \* the chunks after the last newline
    pc,        \* per writer: "closed", "idle", "line" (entry written), "sync"
    tail,      \* per writer: last_hash and last_seq
    cur,       \* per writer: the entry it is appending
    writes,    \* how many appends have begun
    acked,     \* history: ids of the entries whose append has returned Ok
    who,       \* history: the processes that have appended
    damage,    \* history: how many failures left bytes without a newline
    unsynced   \* history: how many appends have failed at their fsync

vars == <<lines, open, pc, tail, cur, writes, acked, who, damage, unsynced>>

Torn == [kind |-> "torn"]
Foreign == [kind |-> "foreign"]
Entry == [kind : {"entry"}, id : Nat \ {0}, dev : Loggers, seq : Nat, prev : Nat]
Chunk == Entry \cup {Torn, Foreign}
Line == Seq(Chunk)

TypeOK ==
    /\ lines \in Seq(Line)
    /\ open \in Line
    /\ pc \in [Writers -> {"closed", "idle", "line", "sync"}]
    /\ tail \in [Loggers -> [hash : Nat, seq : Nat]]
    /\ cur \in [Loggers -> Entry \cup {Torn}]
    /\ writes \in Nat
    /\ acked \subseteq Nat
    /\ who \subseteq Writers
    /\ damage \in Nat
    /\ unsynced \in Nat

Init ==
    /\ lines = <<>>
    /\ open = <<>>
    /\ pc = [w \in Writers |-> "closed"]
    /\ tail = [w \in Loggers |-> [hash |-> 0, seq |-> 0]]
    /\ cur = [w \in Loggers |-> Torn]
    /\ writes = 0
    /\ acked = {}
    /\ who = {}
    /\ damage = 0
    /\ unsynced = 0
-----------------------------------------------------------------------------
(* Reading the file.                                                       *)

\* BufReader::lines returns an unterminated last line too.
AllLines == IF open = <<>> THEN lines ELSE Append(lines, open)

Parses(line) == Len(line) = 1 /\ line[1].kind = "entry"

\* The indices of the lines that deserialize.
Readable(ls) == {i \in 1..Len(ls) : Parses(ls[i])}

\* A load_tail that keeps the first entry it meets.
load_tail_first(ls) ==
    LET first == CHOOSE i \in Readable(ls) : \A j \in Readable(ls) : i <= j
    IN  IF Readable(ls) = {}
        THEN [hash |-> 0, seq |-> 0]
        ELSE [hash |-> ls[first][1].id, seq |-> ls[first][1].seq]

\* A load_tail that takes the number of lines for the last seq.
load_tail_counting(ls) ==
    LET last == CHOOSE i \in Readable(ls) : \A j \in Readable(ls) : j <= i
    IN  IF Readable(ls) = {}
        THEN [hash |-> 0, seq |-> Len(ls)]
        ELSE [hash |-> ls[last][1].id, seq |-> Len(ls)]

\* load_tail skips the lines that do not parse.
load_tail(ls) ==
    LET last == CHOOSE i \in Readable(ls) : \A j \in Readable(ls) : j <= i
    IN  IF Readable(ls) = {}
        THEN [hash |-> 0, seq |-> 0]
        ELSE [hash |-> ls[last][1].id, seq |-> ls[last][1].seq]

\* The lines before line i that are not blank.
Before(ls, i) == {j \in 1..(i - 1) : ls[j] # <<>>}

Latest(S) == CHOOSE j \in S : \A k \in S : k <= j

\* The hash of the last of them.
PrevHash(ls, i) == IF Before(ls, i) = {} THEN 0 ELSE ls[Latest(Before(ls, i))][1].id

\* verify_chain: every line that is not blank parses, and names the hash of the
\* one before.
verify_chain(ls) ==
    \A i \in 1..Len(ls) : ls[i] # <<>> => Parses(ls[i]) /\ ls[i][1].prev = PrevHash(ls, i)
-----------------------------------------------------------------------------
(* Writing it.                                                             *)

Goto(w, l) == pc' = [pc EXCEPT ![w] = l]
\* append returns, with or without an error; `oc agent secret` then exits.
Done(w) == Goto(w, IF w \in OneShot THEN "closed" ELSE "idle")
MidAppend(w) == pc[w] \in {"line", "sync"}

Begin(w) ==
    /\ writes < MaxWrites
    /\ writes' = writes + 1
    /\ who' = who \cup {w}

\* AuditLog::open.
Open(w) ==
    /\ w \in Loggers
    /\ pc[w] = "closed"
    /\ tail' = [tail EXCEPT ![w] = load_tail(AllLines)]
    /\ Goto(w, "idle")
    /\ UNCHANGED <<lines, open, cur, writes, acked, who, damage, unsynced>>

\* append, up to the write of the entry.
WriteEntry(w) ==
    /\ w \in Loggers
    /\ pc[w] = "idle"
    /\ Begin(w)
    /\ LET e == [kind |-> "entry", id |-> writes + 1, dev |-> w,
                 seq |-> tail[w].seq + 1, prev |-> tail[w].hash]
       IN  /\ open' = Append(open, e)
           /\ cur' = [cur EXCEPT ![w] = e]
    /\ Goto(w, "line")
    /\ UNCHANGED <<lines, tail, acked, damage, unsynced>>

\* write_all fails, or the process dies, with some bytes of the entry written.
TornWrite(w) ==
    /\ w \in Loggers
    /\ "torn" \in Faults
    /\ pc[w] = "idle"
    /\ Begin(w)
    /\ open' = Append(open, Torn)
    /\ Done(w) \/ Goto(w, "closed")
    /\ damage' = damage + 1
    /\ UNCHANGED <<lines, tail, cur, acked, unsynced>>

\* An append of one write: the newline is forgotten.
WriteNewlineSkipped(w) ==
    /\ pc[w] = "line"
    /\ Goto(w, IF w \in Loggers THEN "sync" ELSE "closed")
    /\ UNCHANGED <<lines, open, tail, cur, writes, acked, who, damage, unsynced>>

WriteNewline(w) ==
    /\ pc[w] = "line"
    /\ lines' = Append(lines, open)
    /\ open' = <<>>
    /\ Goto(w, IF w \in Loggers THEN "sync" ELSE "closed")
    /\ UNCHANGED <<tail, cur, writes, acked, who, damage, unsynced>>

\* The second write_all fails: append returns the error, the entry stays.
NewlineFails(w) ==
    /\ w \in Loggers
    /\ "newline" \in Faults
    /\ pc[w] = "line"
    /\ Done(w)
    /\ damage' = damage + 1
    /\ UNCHANGED <<lines, open, tail, cur, writes, acked, who, unsynced>>

\* An append that forgets to advance the in-memory tail.
SyncStale(w) ==
    /\ pc[w] = "sync"
    /\ acked' = acked \cup {cur[w].id}
    /\ Done(w)
    /\ UNCHANGED <<lines, open, tail, cur, writes, who, damage, unsynced>>

\* An append that keeps the signed entry itself as the tail.
SyncWholeEntry(w) ==
    /\ pc[w] = "sync"
    /\ tail' = [tail EXCEPT ![w] = cur[w]]
    /\ acked' = acked \cup {cur[w].id}
    /\ Done(w)
    /\ UNCHANGED <<lines, open, cur, writes, who, damage, unsynced>>

\* sync_all, then the in-memory tail moves to the new entry.
Sync(w) ==
    /\ pc[w] = "sync"
    /\ tail' = [tail EXCEPT ![w] = [hash |-> cur[w].id, seq |-> cur[w].seq]]
    /\ acked' = acked \cup {cur[w].id}
    /\ Done(w)
    /\ UNCHANGED <<lines, open, cur, writes, who, damage, unsynced>>

\* sync_all fails: append returns the error with the line in the file and the
\* tail where it was.
SyncFails(w) ==
    /\ "sync" \in Faults
    /\ pc[w] = "sync"
    /\ Done(w)
    /\ unsynced' = unsynced + 1
    /\ UNCHANGED <<lines, open, tail, cur, writes, acked, who, damage>>

\* The process exits or is killed; the bytes it has written stay.
Crash(w) ==
    /\ w \in Loggers
    /\ \/ "crash idle" \in Faults /\ pc[w] = "idle" /\ UNCHANGED damage
       \/ "crash line" \in Faults /\ pc[w] = "line" /\ damage' = damage + 1
       \/ "crash sync" \in Faults /\ pc[w] = "sync" /\ UNCHANGED damage
    /\ Goto(w, "closed")
    /\ UNCHANGED <<lines, open, tail, cur, writes, acked, who, unsynced>>

\* log_audit_chan on the light channel: writeln! writes the line, then the newline.
LightWrite(w) ==
    /\ w \in LightWriters
    /\ pc[w] = "closed"
    /\ Begin(w)
    /\ open' = Append(open, Foreign)
    /\ Goto(w, "line")
    /\ UNCHANGED <<lines, tail, cur, acked, damage, unsynced>>

Step(w) ==
    \/ Open(w) \/ WriteEntry(w) \/ TornWrite(w) \/ WriteNewline(w) \/ NewlineFails(w)
    \/ Sync(w) \/ SyncFails(w) \/ Crash(w) \/ LightWrite(w)

Next == \E w \in Writers : Step(w)

Spec == Init /\ [][Next]_vars
-----------------------------------------------------------------------------
(* Properties.                                                             *)

Quiescent == \A w \in Writers : ~MidAppend(w)

\* One process at most has appended to the file.
Solo == \A v, w \in who : v = w

\* The file has had one writer, an AuditLog, whose appends have all gone through.
Clean == Solo /\ who \subseteq Loggers /\ damage = 0 /\ unsynced = 0

\* Whenever no append is in progress, verify_chain accepts a log that one
\* process writes, across its restarts and its crashes at an entry's end.
ChainVerifies == Clean /\ Quiescent => verify_chain(AllLines)

\* Sequence numbers grow along such a log: the chain never forks at a seq that
\* was used before, restarts included.
SeqIncreasing ==
    Clean => \A i, j \in Readable(AllLines) :
                i < j => AllLines[i][1].seq < AllLines[j][1].seq

Lost == {id \in acked : ~\E i \in Readable(AllLines) : AllLines[i][1].id = id}

\* With one writer, an append that failed, or a process that died, between the
\* entry and its newline costs at most one entry whose append returned Ok: the
\* next one, which lands on the same line.  With no such failure every
\* acknowledged entry can be read back.
DamageBounded == Solo => Cardinality(Lost) <= damage

\* Whatever fails and whoever writes, the hash links point backwards: an entry
\* names an entry that is earlier in the file, readable or not, and continues
\* its numbering, or it starts the numbering.
LinksPointBack ==
    \A i \in 1..Len(AllLines) : \A k \in 1..Len(AllLines[i]) :
        LET e == AllLines[i][k] IN
        e.kind = "entry" =>
            \/ e.prev = 0 /\ e.seq = 1
            \/ \E j \in 1..i : \E l \in 1..Len(AllLines[j]) :
                  LET f == AllLines[j][l] IN
                  /\ j < i \/ l < k
                  /\ f.kind = "entry" /\ f.id = e.prev /\ e.seq = f.seq + 1
=============================================================================
