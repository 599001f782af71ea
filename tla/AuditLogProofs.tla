---------------------------- MODULE AuditLogProofs ----------------------------
(***************************************************************************)
(* Proofs about AuditLog, for any processes, faults and number of appends: *)
(* a log with one writer verifies and its numbering grows, across restarts.*)
(***************************************************************************)
EXTENDS AuditLog, WellFoundedInduction, TLAPS

\* A non-empty set of line numbers has a largest one.
LEMMA LastLine ==
  ASSUME NEW n \in Nat, NEW T, T \subseteq 1..n, T # {}
  PROVE  \E m \in T : \A k \in T : k <= m
<1> DEFINE U == {n - k : k \in T}
<1>1. U \subseteq Nat /\ U # {}
  <2>1. ASSUME NEW k \in T PROVE n - k \in Nat
    <3>1. k \in Nat /\ k <= n
      OBVIOUS
    <3> QED BY <3>1
  <2> QED BY <2>1
<1>2. PICK x \in U : \A y \in U : ~(<<y, x>> \in OpToRel(<, Nat))
  <2> HIDE DEF U
  <2> QED BY <1>1, NatLessThanWellFounded, WFMin
<1>3. \A y \in U : ~(y < x)
  BY <1>1, <1>2 DEF OpToRel
<1>4. PICK m \in T : x = n - m
  OBVIOUS
<1>5. ASSUME NEW k \in T PROVE k <= m
  BY <1>3, <1>4, n - k \in U
<1> QED BY <1>5

\* A logger between the first write of an append and its end holds the entry it
\* is appending; the light channel has no fsync.
CurInv ==
    \A w \in Writers :
        /\ pc[w] = "sync" => w \in Loggers
        /\ w \in Loggers /\ MidAppend(w) => cur[w] \in Entry

TypeInv == TypeOK /\ CurInv

\* TypeInv is inductive.
LEMMA TypeInductive == Spec => []TypeInv
<1>1. Init => TypeInv
  <2> SUFFICES ASSUME Init PROVE TypeInv
    OBVIOUS
  <2>1. lines \in Seq(Line) /\ open \in Line
    BY DEF Init, Line
  <2>2. cur \in [Loggers -> Entry \cup {Torn}]
    BY DEF Init
  <2> QED BY <2>1, <2>2 DEF Init, TypeInv, TypeOK, CurInv, MidAppend, Writers
<1>2. TypeInv /\ [Next]_vars => TypeInv'
  <2> SUFFICES ASSUME TypeInv, [Next]_vars PROVE TypeInv'
    OBVIOUS
  <2> USE WriterAssumption DEF TypeInv, TypeOK, CurInv, MidAppend, Goto, Done, Begin, Writers
  <2>1. ASSUME NEW w \in Writers, Open(w) PROVE TypeInv'
    <3>1. load_tail(AllLines) \in [hash : Nat, seq : Nat]
      <4>1. AllLines \in Seq(Line)
        BY DEF AllLines, Line
      <4>2. ASSUME NEW i \in Readable(AllLines) PROVE AllLines[i][1] \in Entry
        <5>1. i \in 1..Len(AllLines) /\ AllLines[i] \in Seq(Chunk)
          BY <4>1, <4>2 DEF Readable, Line
        <5>2. Len(AllLines[i]) = 1 /\ AllLines[i][1].kind = "entry"
          BY <4>2 DEF Readable, Parses
        <5>3. AllLines[i][1] \in Chunk
          BY <5>1, <5>2
        <5> QED BY <5>2, <5>3 DEF Chunk, Torn, Foreign
      <4> DEFINE R == Readable(AllLines)
                 last == CHOOSE i \in R : \A j \in R : j <= i
      <4>3. CASE R = {}
        BY <4>3 DEF load_tail
      <4>4. CASE R # {}
        <5>1. R \subseteq 1..Len(AllLines) /\ Len(AllLines) \in Nat
          BY <4>1 DEF Readable
        <5>2. \E m \in R : \A k \in R : k <= m
          <6> HIDE DEF R
          <6> QED BY <4>4, <5>1, LastLine
        <5>3. last \in R
          BY <5>2
        <5>4. load_tail(AllLines) = [hash |-> AllLines[last][1].id, seq |-> AllLines[last][1].seq]
          BY <4>4 DEF load_tail
        <5>5. AllLines[last][1] \in Entry
          BY <4>2, <5>3
        <5> HIDE DEF last
        <5> QED BY <5>4, <5>5 DEF Entry
      <4> QED BY <4>3, <4>4
    <3> QED BY <2>1, <3>1 DEF Open
  <2>2. ASSUME NEW w \in Writers, WriteEntry(w) PROVE TypeInv'
    <3> DEFINE e == [kind |-> "entry", id |-> writes + 1, dev |-> w,
                     seq |-> tail[w].seq + 1, prev |-> tail[w].hash]
    <3>1. e \in Entry
      BY <2>2 DEF WriteEntry, Entry
    <3>2. open' = Append(open, e) /\ cur' = [cur EXCEPT ![w] = e]
      BY <2>2 DEF WriteEntry
    <3> HIDE DEF e
    <3> QED BY <2>2, <3>1, <3>2 DEF WriteEntry, Line, Chunk
  <2>3. ASSUME NEW w \in Writers, TornWrite(w) PROVE TypeInv'
    <3>1. open' \in Line
      BY <2>3 DEF TornWrite, Line, Chunk
    <3>2. PICK l \in {"closed", "idle"} : pc' = [pc EXCEPT ![w] = l]
      BY <2>3 DEF TornWrite
    <3>3. CurInv'
      BY <2>3, <3>2 DEF TornWrite
    <3> QED BY <2>3, <3>1, <3>2, <3>3 DEF TornWrite
  <2>4. ASSUME NEW w \in Writers, WriteNewline(w) PROVE TypeInv'
    BY <2>4 DEF WriteNewline, Line
  <2>5. ASSUME NEW w \in Writers, NewlineFails(w) \/ SyncFails(w) PROVE TypeInv'
    <3>2. PICK l \in {"closed", "idle"} : pc' = [pc EXCEPT ![w] = l]
      BY <2>5 DEF NewlineFails, SyncFails
    <3>3. CurInv'
      BY <2>5, <3>2 DEF NewlineFails, SyncFails
    <3>4. pc' \in [Writers -> {"closed", "idle", "line", "sync"}]
      BY <3>2
    <3>5. lines' = lines /\ open' = open /\ cur' = cur
      BY <2>5 DEF NewlineFails, SyncFails
    <3>6. tail' = tail /\ acked' = acked /\ writes' = writes /\ who' = who
      BY <2>5 DEF NewlineFails, SyncFails
    <3>7. damage' \in {damage, damage + 1} /\ unsynced' \in {unsynced, unsynced + 1}
      BY <2>5 DEF NewlineFails, SyncFails
    <3>8. damage' \in Nat /\ unsynced' \in Nat
      <4>1. damage \in Nat /\ unsynced \in Nat
        OBVIOUS
      <4> QED BY <3>7, <4>1
    <3> QED BY <3>3, <3>4, <3>5, <3>6, <3>8
  <2>6. ASSUME NEW w \in Writers, Sync(w) PROVE TypeInv'
    <3>2. PICK l \in {"closed", "idle"} : pc' = [pc EXCEPT ![w] = l]
      BY <2>6 DEF Sync
    <3>3. CurInv'
      BY <2>6, <3>2 DEF Sync
    <3>4. pc' \in [Writers -> {"closed", "idle", "line", "sync"}]
      BY <3>2
    <3>5. lines' = lines /\ open' = open /\ cur' = cur
      BY <2>6 DEF Sync
    <3>6. /\ tail' \in [Loggers -> [hash : Nat, seq : Nat]] /\ acked' \subseteq Nat
          /\ writes' \in Nat /\ damage' \in Nat /\ unsynced' \in Nat /\ who' \subseteq Writers
      BY <2>6 DEF Sync, Entry
    <3> QED BY <3>3, <3>4, <3>5, <3>6
  <2>7. ASSUME NEW w \in Writers, Crash(w) PROVE TypeInv'
    <3>2. PICK l \in {"closed", "idle"} : pc' = [pc EXCEPT ![w] = l]
      BY <2>7 DEF Crash
    <3>3. CurInv'
      BY <2>7, <3>2 DEF Crash
    <3>4. pc' \in [Writers -> {"closed", "idle", "line", "sync"}]
      BY <3>2
    <3>5. lines' = lines /\ open' = open /\ cur' = cur
      BY <2>7 DEF Crash
    <3>6. tail' = tail /\ acked' = acked /\ writes' = writes /\ who' = who
      BY <2>7 DEF Crash
    <3>7. damage' \in {damage, damage + 1} /\ unsynced' \in {unsynced, unsynced + 1}
      BY <2>7 DEF Crash
    <3>8. damage' \in Nat /\ unsynced' \in Nat
      <4>1. damage \in Nat /\ unsynced \in Nat
        OBVIOUS
      <4> QED BY <3>7, <4>1
    <3> QED BY <3>3, <3>4, <3>5, <3>6, <3>8
  <2>8. ASSUME NEW w \in Writers, LightWrite(w) PROVE TypeInv'
    BY <2>8 DEF LightWrite, Line, Chunk
  <2>9. CASE UNCHANGED vars
    BY <2>9 DEF vars
  <2> QED BY <2>1, <2>2, <2>3, <2>4, <2>5, <2>6, <2>7, <2>8, <2>9 DEF Next, Step
<1> QED BY <1>1, <1>2, PTL DEF Spec

\* The state of the log and of its writers keeps its types.
THEOREM LogTypeCorrect == Spec => []TypeOK
<1>1. TypeInv => TypeOK
  BY DEF TypeInv
<1> QED BY <1>1, TypeInductive, PTL
-----------------------------------------------------------------------------
(* The log of a single writer.                                             *)

\* The hash of the last line's entry.
EndHash == IF Len(lines) = 0 THEN 0 ELSE lines[Len(lines)][1].id
End == [hash |-> EndHash, seq |-> Len(lines)]

\* Line i is entry number i and names the entry of line i - 1.
ChainShape ==
    \A i \in 1..Len(lines) :
        /\ Len(lines[i]) = 1
        /\ lines[i][1] \in Entry
        /\ lines[i][1].seq = i
        /\ lines[i][1].prev = IF i = 1 THEN 0 ELSE lines[i - 1][1].id

\* What a writer knows of the file agrees with it.
WriterShape ==
    \A w \in Loggers :
        /\ pc[w] = "line" => /\ open = <<cur[w]>>
                             /\ cur[w].seq = Len(lines) + 1
                             /\ cur[w].prev = EndHash
        /\ pc[w] = "sync" => /\ open = <<>>
                             /\ Len(lines) # 0
                             /\ lines[Len(lines)] = <<cur[w]>>
        /\ pc[w] = "idle" /\ who \subseteq {w} => tail[w] = End

\* Bytes after the last newline belong to an append in progress.
NoTrail == open # <<>> => \E w \in who : pc[w] = "line"

WhoInv == \A w \in Writers : MidAppend(w) => w \in who

Shape == ChainShape /\ WriterShape /\ NoTrail

LogInv == TypeInv /\ WhoInv /\ (Clean => Shape)

\* Opening a log of that shape finds its last entry.
LEMMA TailOfChain ==
  ASSUME TypeOK, ChainShape
  PROVE  load_tail(lines) = End
<1>1. Readable(lines) = 1..Len(lines)
  BY DEF Readable, Parses, ChainShape, Entry
<1>2. Len(lines) \in Nat
  BY DEF TypeOK
<1>3. CASE Len(lines) = 0
  BY <1>1, <1>3 DEF load_tail, End, EndHash
<1>4. CASE Len(lines) # 0
  <2> DEFINE n == Len(lines)
             last == CHOOSE i \in 1..n : \A j \in 1..n : j <= i
  <2>1. n \in 1..n /\ \A j \in 1..n : j <= n
    BY <1>2, <1>4
  <2>2. last \in 1..n /\ \A j \in 1..n : j <= last
    BY <2>1
  <2>3. last = n
    BY <1>2, <2>1, <2>2
  <2>4. load_tail(lines) = [hash |-> lines[last][1].id, seq |-> lines[last][1].seq]
    BY <1>1, <1>4, <2>1 DEF load_tail
  <2>5. lines[n][1].seq = n
    BY <2>1 DEF ChainShape
  <2> HIDE DEF last
  <2> QED BY <1>4, <2>3, <2>4, <2>5 DEF End, EndHash
<1> QED BY <1>3, <1>4

\* LogInv is inductive.
LEMMA LogInductive == Spec => []LogInv
<1>1. Init => WhoInv /\ Shape
  BY WriterAssumption
     DEF Init, Shape, WhoInv, MidAppend, ChainShape, WriterShape, NoTrail, Writers
<1>2. ASSUME LogInv, TypeInv', [Next]_vars
      PROVE  WhoInv' /\ (Clean' => Shape')
  <2> USE WriterAssumption DEF Writers
  <2>0. TypeOK /\ CurInv /\ WhoInv /\ (Clean => Shape)
    BY <1>2 DEF LogInv, TypeInv
  <2>t. /\ lines \in Seq(Line) /\ open \in Line /\ Len(lines) \in Nat
        /\ pc \in [Writers -> {"closed", "idle", "line", "sync"}]
        /\ tail \in [Loggers -> [hash : Nat, seq : Nat]]
        /\ cur \in [Loggers -> Entry \cup {Torn}]
        /\ damage \in Nat /\ unsynced \in Nat /\ who \subseteq Writers
    BY <2>0 DEF TypeOK
  <2>1. ASSUME NEW w \in Writers, Open(w) PROVE WhoInv' /\ (Clean' => Shape')
    <3>1. WhoInv'
      BY <2>0, <2>t, <2>1 DEF Open, Goto, WhoInv, MidAppend
    <3>2. ASSUME Clean' PROVE Shape'
      <4> USE DEF Shape
      <4>1. Clean /\ Shape
        BY <2>0, <2>1, <3>2 DEF Open, Clean, Solo
      <4>2. /\ w \in Loggers /\ pc[w] = "closed" /\ lines' = lines /\ open' = open
            /\ cur' = cur /\ who' = who
            /\ pc' = [pc EXCEPT ![w] = "idle"] /\ tail' = [tail EXCEPT ![w] = load_tail(AllLines)]
        BY <2>1 DEF Open, Goto
      <4>3. ChainShape'
        BY <4>1, <4>2 DEF ChainShape
      <4>4. NoTrail'
        BY <2>t, <4>1, <4>2 DEF NoTrail
      <4>5. who \subseteq {w} => load_tail(AllLines) = End
        BY <2>0, <4>1, <4>2, TailOfChain DEF NoTrail, AllLines
      <4>6. End' = End
        BY <4>2 DEF End, EndHash
      <4>7. ASSUME NEW v \in Loggers
            PROVE /\ pc'[v] = "line" => pc[v] = "line"
                  /\ pc'[v] = "sync" => pc[v] = "sync"
                  /\ pc'[v] = "idle" /\ v # w => pc[v] = "idle" /\ tail'[v] = tail[v]
                  /\ tail'[w] = load_tail(AllLines)
        BY <2>t, <4>2
      <4>8. WriterShape'
        <5> SUFFICES ASSUME NEW v \in Loggers
            PROVE /\ pc'[v] = "line" => /\ open' = <<cur'[v]>>
                                        /\ cur'[v].seq = Len(lines') + 1
                                        /\ cur'[v].prev = EndHash'
                  /\ pc'[v] = "sync" => /\ open' = <<>>
                                        /\ Len(lines') # 0
                                        /\ lines'[Len(lines')] = <<cur'[v]>>
                  /\ pc'[v] = "idle" /\ who' \subseteq {v} => tail'[v] = End'
          BY DEF WriterShape
        <5>1. EndHash' = EndHash
          BY <4>2 DEF EndHash
        <5>2. CASE v = w
          BY <2>t, <4>2, <4>5, <4>6, <4>7, <5>2
        <5>3. CASE v # w
          BY <4>1, <4>2, <4>6, <4>7, <5>1, <5>3 DEF WriterShape
        <5> QED BY <5>2, <5>3
      <4> QED BY <4>3, <4>4, <4>8
    <3> QED BY <3>1, <3>2
  <2>2. ASSUME NEW w \in Writers, WriteEntry(w) PROVE WhoInv' /\ (Clean' => Shape')
    <3> DEFINE e == [kind |-> "entry", id |-> writes + 1, dev |-> w,
                     seq |-> tail[w].seq + 1, prev |-> tail[w].hash]
    <3>0. /\ w \in Loggers /\ pc[w] = "idle" /\ lines' = lines /\ open' = Append(open, e)
          /\ cur' = [cur EXCEPT ![w] = e] /\ who' = who \cup {w}
          /\ pc' = [pc EXCEPT ![w] = "line"] /\ tail' = tail
          /\ damage' = damage /\ unsynced' = unsynced
      BY <2>2 DEF WriteEntry, Begin, Goto
    <3>e. e.seq = tail[w].seq + 1 /\ e.prev = tail[w].hash
      OBVIOUS
    <3> HIDE DEF e
    <3>1. WhoInv'
      BY <2>0, <2>t, <3>0 DEF WhoInv, MidAppend
    <3>2. ASSUME Clean' PROVE Shape'
      <4> USE DEF Shape
      <4>1. Clean /\ Shape /\ who \subseteq {w}
        BY <2>0, <3>0, <3>2 DEF Clean, Solo
      <4>2. open = <<>> /\ tail[w] = End
        BY <3>0, <4>1 DEF NoTrail, WriterShape
      <4>3. open' = <<e>> /\ e.seq = Len(lines) + 1 /\ e.prev = EndHash
        BY <3>0, <3>e, <4>2 DEF End
      <4>4. ChainShape'
        BY <3>0, <4>1 DEF ChainShape
      <4>5. NoTrail'
        BY <2>t, <3>0 DEF NoTrail
      <4>6. EndHash' = EndHash
        BY <3>0 DEF EndHash
      <4>7. ASSUME NEW v \in Loggers, v # w PROVE pc'[v] \notin {"line", "sync"} /\ ~(who' \subseteq {v})
        BY <2>0, <2>t, <3>0, <4>1, <4>7 DEF WhoInv, MidAppend
      <4>8. pc'[w] = "line" /\ cur'[w] = e
        BY <2>t, <3>0
      <4>9. WriterShape'
        BY <3>0, <4>3, <4>6, <4>7, <4>8 DEF WriterShape
      <4> QED BY <4>4, <4>5, <4>9
    <3> QED BY <3>1, <3>2
  <2>3. ASSUME NEW w \in Writers, TornWrite(w) \/ NewlineFails(w) \/ SyncFails(w) \/ LightWrite(w)
        PROVE  WhoInv' /\ (Clean' => Shape')
    <3>1. WhoInv'
      BY <2>0, <2>t, <2>3
         DEF TornWrite, NewlineFails, SyncFails, LightWrite, Begin, Goto, Done, WhoInv, MidAppend
    <3>2. damage' = damage + 1 \/ unsynced' = unsynced + 1 \/ (w \in who' /\ w \notin Loggers)
      BY <2>3 DEF TornWrite, NewlineFails, SyncFails, LightWrite, Begin
    <3>3. ~Clean'
      BY <2>t, <3>2 DEF Clean
    <3> QED BY <3>1, <3>3
  <2>4. ASSUME NEW w \in Writers, WriteNewline(w) PROVE WhoInv' /\ (Clean' => Shape')
    <3>0. /\ pc[w] = "line" /\ lines' = Append(lines, open) /\ open' = <<>>
          /\ pc' = [pc EXCEPT ![w] = IF w \in Loggers THEN "sync" ELSE "closed"]
          /\ cur' = cur /\ tail' = tail /\ who' = who /\ damage' = damage /\ unsynced' = unsynced
      BY <2>4 DEF WriteNewline, Goto
    <3>1. WhoInv'
      BY <2>0, <2>t, <3>0 DEF WhoInv, MidAppend
    <3>2. ASSUME Clean' PROVE Shape'
      <4> USE DEF Shape
      <4>1. Clean /\ Shape /\ w \in who /\ w \in Loggers
        BY <2>0, <3>0, <3>2 DEF Clean, Solo, WhoInv, MidAppend
      <4>2. /\ open = <<cur[w]>> /\ cur[w].seq = Len(lines) + 1 /\ cur[w].prev = EndHash
            /\ cur[w] \in Entry
        BY <2>0, <3>0, <4>1 DEF WriterShape, CurInv, MidAppend
      <4> DEFINE n == Len(lines)
      <4>3. /\ Len(lines') = n + 1 /\ lines'[n + 1] = open
            /\ \A i \in 1..n : lines'[i] = lines[i]
        BY <2>t, <3>0
      <4>4. Len(open) = 1 /\ open[1] = cur[w]
        BY <4>2
      <4>5. ChainShape'
        <5> SUFFICES ASSUME NEW i \in 1..(n + 1)
            PROVE /\ Len(lines'[i]) = 1
                  /\ lines'[i][1] \in Entry
                  /\ lines'[i][1].seq = i
                  /\ lines'[i][1].prev = IF i = 1 THEN 0 ELSE lines'[i - 1][1].id
          BY <4>3 DEF ChainShape
        <5>1. CASE i = n + 1
          <6>1. n # 0 => lines'[n] = lines[n]
            BY <2>t, <4>3
          <6>2. cur[w].prev = IF i = 1 THEN 0 ELSE lines'[i - 1][1].id
            BY <2>t, <4>2, <5>1, <6>1 DEF EndHash
          <6> QED BY <4>2, <4>3, <4>4, <5>1, <6>2
        <5>2. CASE i # n + 1
          <6>1. i \in 1..n /\ (i # 1 => i - 1 \in 1..n)
            BY <2>t, <5>2
          <6> QED BY <4>1, <4>3, <6>1 DEF ChainShape
        <5> QED BY <5>1, <5>2
      <4>6. NoTrail'
        BY <3>0 DEF NoTrail
      <4>7. ASSUME NEW v \in Loggers, v # w PROVE pc'[v] \notin {"line", "sync"} /\ ~(who' \subseteq {v})
        BY <2>0, <2>t, <3>0, <4>1, <4>7 DEF WhoInv, MidAppend, Clean, Solo
      <4>8. pc'[w] = "sync"
        BY <2>t, <3>0, <4>1
      <4>9. WriterShape'
        <5>1. Len(lines') # 0 /\ lines'[Len(lines')] = <<cur'[w]>> /\ open' = <<>>
          BY <2>t, <3>0, <4>2, <4>3
        <5> QED BY <4>7, <4>8, <5>1 DEF WriterShape
      <4> QED BY <4>5, <4>6, <4>9
    <3> QED BY <3>1, <3>2
  <2>5. ASSUME NEW w \in Writers, Sync(w) PROVE WhoInv' /\ (Clean' => Shape')
    <3>0. /\ pc[w] = "sync" /\ lines' = lines /\ open' = open /\ cur' = cur /\ who' = who
          /\ tail' = [tail EXCEPT ![w] = [hash |-> cur[w].id, seq |-> cur[w].seq]]
          /\ damage' = damage /\ unsynced' = unsynced
      BY <2>5 DEF Sync
    <3>p. PICK l \in {"closed", "idle"} : pc' = [pc EXCEPT ![w] = l]
      BY <2>5 DEF Sync, Done, Goto
    <3>1. WhoInv'
      BY <2>0, <2>t, <3>0, <3>p DEF WhoInv, MidAppend
    <3>2. ASSUME Clean' PROVE Shape'
      <4> USE DEF Shape
      <4>1. Clean /\ Shape /\ w \in who /\ w \in Loggers
        BY <2>0, <3>0, <3>2 DEF Clean, Solo, WhoInv, MidAppend
      <4>2. open = <<>> /\ Len(lines) # 0 /\ lines[Len(lines)] = <<cur[w]>>
        BY <3>0, <4>1 DEF WriterShape
      <4>3. lines[Len(lines)][1] = cur[w] /\ cur[w].seq = Len(lines) /\ EndHash = cur[w].id
        BY <2>t, <4>1, <4>2 DEF ChainShape, EndHash
      <4>4. ChainShape' /\ NoTrail' /\ End' = End
        BY <3>0, <4>1, <4>2 DEF ChainShape, NoTrail, End, EndHash
      <4>5. tail'[w] = End
        BY <2>t, <3>0, <4>1, <4>3 DEF End
      <4>7. ASSUME NEW v \in Loggers, v # w PROVE pc'[v] \notin {"line", "sync"} /\ ~(who' \subseteq {v})
        BY <2>0, <2>t, <3>0, <3>p, <4>1, <4>7 DEF WhoInv, MidAppend, Clean, Solo
      <4>8. pc'[w] \in {"closed", "idle"}
        BY <2>t, <3>p
      <4>9. WriterShape'
        BY <4>4, <4>5, <4>7, <4>8 DEF WriterShape
      <4> QED BY <4>4, <4>9
    <3> QED BY <3>1, <3>2
  <2>6. ASSUME NEW w \in Writers, Crash(w) PROVE WhoInv' /\ (Clean' => Shape')
    <3>0. /\ pc' = [pc EXCEPT ![w] = "closed"] /\ lines' = lines /\ open' = open
          /\ cur' = cur /\ tail' = tail /\ who' = who /\ unsynced' = unsynced
          /\ (pc[w] = "line" /\ damage' = damage + 1) \/ (pc[w] # "line" /\ damage' = damage)
      BY <2>6 DEF Crash, Goto
    <3>1. WhoInv'
      BY <2>0, <2>t, <3>0 DEF WhoInv, MidAppend
    <3>2. ASSUME Clean' PROVE Shape'
      <4> USE DEF Shape
      <4>1. pc[w] # "line" /\ damage' = damage
        BY <2>t, <3>0, <3>2 DEF Clean
      <4>2. Clean /\ Shape
        BY <2>0, <3>0, <3>2, <4>1 DEF Clean, Solo
      <4>3. ChainShape' /\ End' = End /\ EndHash' = EndHash
        BY <3>0, <4>2 DEF ChainShape, End, EndHash
      <4>4. NoTrail'
        BY <2>t, <3>0, <4>1, <4>2 DEF NoTrail
      <4>5. ASSUME NEW v \in Loggers, pc'[v] # "closed" PROVE pc'[v] = pc[v]
        BY <2>t, <3>0, <4>5
      <4>6. WriterShape'
        BY <3>0, <4>2, <4>3, <4>5 DEF WriterShape
      <4> QED BY <4>3, <4>4, <4>6
    <3> QED BY <3>1, <3>2
  <2>7. CASE UNCHANGED vars
    <3>1. UNCHANGED vars
      BY <2>7
    <3> QED
      BY <2>0, <3>1 DEF vars, WhoInv, MidAppend, Clean, Solo, Shape, ChainShape, WriterShape, NoTrail,
                        End, EndHash
  <2>8. CASE Next
    <3>1. PICK w \in Writers : Step(w)
      BY <2>8 DEF Next
    <3> QED BY <2>1, <2>2, <2>3, <2>4, <2>5, <2>6, <3>1 DEF Step
  <2> QED BY <1>2, <2>7, <2>8
<1>3. TypeInv /\ Init => LogInv
  BY <1>1 DEF LogInv
<1>4. LogInv /\ TypeInv' /\ [Next]_vars => LogInv'
  BY <1>2 DEF LogInv
<1> QED BY <1>3, <1>4, TypeInductive, PTL DEF Spec

\* Every line of a clean log that load_tail reads is the entry of that number.
LEMMA CleanLines ==
  ASSUME LogInv, Clean
  PROVE  \A i \in Readable(AllLines) : AllLines[i][1].seq = i
<1>1. TypeOK /\ ChainShape /\ WriterShape /\ NoTrail /\ who \subseteq Loggers
  BY DEF LogInv, TypeInv, Clean, Shape
<1>2. CASE open = <<>>
  BY <1>1, <1>2 DEF AllLines, Readable, ChainShape
<1>3. CASE open # <<>>
  <2>1. PICK w \in who : pc[w] = "line"
    BY <1>1, <1>3 DEF NoTrail
  <2>2. open = <<cur[w]>> /\ cur[w].seq = Len(lines) + 1
    BY <1>1, <2>1 DEF WriterShape
  <2>3. lines \in Seq(Line) /\ Len(lines) \in Nat
    BY <1>1 DEF TypeOK
  <2>4. /\ AllLines = Append(lines, open) /\ Len(AllLines) = Len(lines) + 1
        /\ AllLines[Len(lines) + 1] = open
        /\ \A i \in 1..Len(lines) : AllLines[i] = lines[i]
    BY <1>3, <2>3 DEF AllLines
  <2>5. open[1].seq = Len(lines) + 1
    BY <2>2
  <2>6. ASSUME NEW i \in 1..Len(AllLines) PROVE AllLines[i][1].seq = i
    <3>1. i = Len(lines) + 1 \/ i \in 1..Len(lines)
      BY <2>3, <2>4
    <3> QED BY <1>1, <2>4, <2>5, <3>1 DEF ChainShape
  <2> QED BY <2>6 DEF Readable
<1> QED BY <1>2, <1>3

\* With a single writer, whose process may restart and die after a complete
\* line, verify_chain accepts the log that append leaves.
THEOREM LogVerifies == Spec => []ChainVerifies
<1>1. LogInv => ChainVerifies
  <2> SUFFICES ASSUME LogInv, Clean, Quiescent PROVE verify_chain(AllLines)
    BY DEF ChainVerifies
  <2>1. ChainShape /\ NoTrail /\ who \subseteq Writers
    BY DEF LogInv, TypeInv, TypeOK, Shape
  <2>2. AllLines = lines
    BY <2>1 DEF Quiescent, MidAppend, NoTrail, AllLines
  <2>3. Len(lines) \in Nat /\ \A i \in 1..Len(lines) : lines[i] # <<>>
    BY <2>1 DEF LogInv, TypeInv, TypeOK, ChainShape
  <2>4. ASSUME NEW i \in 1..Len(lines)
        PROVE  PrevHash(lines, i) = IF i = 1 THEN 0 ELSE lines[i - 1][1].id
    <3>1. Before(lines, i) = 1..(i - 1)
      BY <2>3 DEF Before
    <3>2. CASE i = 1
      BY <3>1, <3>2 DEF PrevHash
    <3>3. CASE i # 1
      <4>1. /\ i - 1 \in 1..(i - 1)
            /\ \A j \in 1..(i - 1) : (\A k \in 1..(i - 1) : k <= j) => j = i - 1
        BY <2>3, <3>3
      <4>2. Latest(1..(i - 1)) = i - 1
        BY <4>1 DEF Latest
      <4> QED BY <3>1, <3>3, <4>1, <4>2 DEF PrevHash
    <3> QED BY <3>2, <3>3
  <2> QED BY <2>1, <2>2, <2>4 DEF verify_chain, ChainShape, Parses, Entry
<1> QED BY <1>1, LogInductive, PTL

\* Under the same condition the sequence numbers append hands out grow along
\* the file, although each restart reads them back from it.
THEOREM LogNumbersGrow == Spec => []SeqIncreasing
<1>1. LogInv => SeqIncreasing
  BY CleanLines DEF SeqIncreasing
<1> QED BY <1>1, LogInductive, PTL
=============================================================================
