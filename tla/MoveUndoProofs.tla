--------------------------- MODULE MoveUndoProofs ---------------------------
(***************************************************************************)
(* Proofs about MoveUndo: types, that a UID noted under a UIDVALIDITY      *)
(* names, under that UIDVALIDITY, the message it was noted for or nothing, *)
(* that commands and undos therefore take only what they were given for,   *)
(* and that no message is lost, whatever fails and whatever else moves.    *)
(***************************************************************************)
EXTENDS MoveUndo, FiniteSetTheorems, TLAPS

-----------------------------------------------------------------------------
(* Sets of UIDs, and what a folder becomes. *)

LEMMA UidsFinite ==
    ASSUME NEW S, S \subseteq Uids
    PROVE  IsFiniteSet(S) /\ Cardinality(S) \in 0..MaxUid
<1>0. MaxUid \in Nat /\ MaxUid >= 1
  BY MoveUndoAssumption
<1>1. IsFiniteSet(Uids) /\ Cardinality(Uids) = MaxUid
  <2>1. IsFiniteSet(1..MaxUid) /\ Cardinality(1..MaxUid) = IF 1 > MaxUid THEN 0 ELSE MaxUid - 1 + 1
    BY <1>0, FS_Interval
  <2> QED BY <2>1, <1>0 DEF Uids
<1>2. IsFiniteSet(S) /\ Cardinality(S) <= MaxUid
  BY <1>1, FS_Subset
<1>3. Cardinality(S) \in Nat
  BY <1>2, FS_CardinalityType
<1> QED BY <1>2, <1>3, MoveUndoAssumption

LEMMA RankBound ==
    ASSUME NEW S, S \subseteq Uids, NEW u \in S
    PROVE  Rank(u, S) \in 1..Cardinality(S)
<1> DEFINE T == {v \in S : v <= u}
<1>1. T \subseteq S /\ u \in T
  BY DEF Uids
<1>2. IsFiniteSet(S) /\ Cardinality(S) \in Nat
  BY UidsFinite
<1>3. IsFiniteSet(T) /\ Cardinality(T) <= Cardinality(S)
  BY <1>1, <1>2, FS_Subset
<1>4. Cardinality(T) \in Nat /\ (Cardinality(T) = 0 <=> T = {})
  BY <1>3, FS_CardinalityType, FS_EmptySet
<1> QED BY <1>1, <1>2, <1>3, <1>4 DEF Rank

LEMMA RankGrows ==
    ASSUME NEW S, S \subseteq Uids, NEW u \in S, NEW v \in S, u < v
    PROVE  Rank(u, S) # Rank(v, S)
<1> DEFINE T == {y \in S : y <= u}
           V == {y \in S : y <= v}
<1>0. \A y \in S : y \in Int
  BY DEF Uids
<1>1. T \subseteq V /\ v \in V /\ v \notin T
  BY <1>0
<1>2. V \subseteq Uids
  OBVIOUS
<1>3. IsFiniteSet(V)
  BY <1>2, UidsFinite
<1>4. Cardinality(T) # Cardinality(V)
  BY <1>1, <1>3, FS_Subset
<1> QED BY <1>4 DEF Rank

LEMMA RankInjective ==
    ASSUME NEW S, S \subseteq Uids, NEW u \in S, NEW v \in S, Rank(u, S) = Rank(v, S)
    PROVE  u = v
<1>1. u \in Int /\ v \in Int
  BY DEF Uids
<1>2. ~ (u < v) /\ ~ (v < u)
  BY RankGrows
<1> QED BY <1>1, <1>2

LEMMA BoxFields ==
    ASSUME NEW b \in Boxes
    PROVE  /\ b.val \in 1..MaxValidity /\ b.val \in Nat
           /\ b.next \in 1..MaxUid + 1 /\ b.next \in Nat
           /\ b.at \in Rows /\ b.del \subseteq Uids
           /\ Live(b.at) \subseteq Uids
BY MoveUndoAssumption DEF Boxes, Live

\* What COPY and MOVE do to the folder they fill.
LEMMA AppendedFacts ==
    ASSUME NEW b \in Boxes, NEW a \in Boxes, NEW S, S \subseteq Live(a.at),
           b.next + Cardinality(S) <= MaxUid + 1
    PROVE  LET c == Appended(b, a, S)
               new(u) == b.next - 1 + Rank(u, S)
           IN /\ c \in Boxes /\ c.val = b.val /\ c.next = b.next + Cardinality(S)
              /\ c.next >= b.next
              /\ \A u \in Uids : u < b.next \/ u >= c.next => c.at[u] = b.at[u]
              /\ \A u \in S : new(u) \in Uids /\ new(u) >= b.next /\ new(u) < c.next
                              /\ c.at[new(u)] = a.at[u]
<1> DEFINE c == Appended(b, a, S)
           new(u) == b.next - 1 + Rank(u, S)
           at == [x \in Uids |-> IF \E u \in S : x = new(u)
                                 THEN a.at[CHOOSE u \in S : x = new(u)] ELSE b.at[x]]
<1>1. S \subseteq Uids /\ Cardinality(S) \in Nat
  BY UidsFinite, MoveUndoAssumption DEF Live
<1>2. b.next \in Nat /\ b.next >= 1 /\ b.at \in Rows /\ a.at \in Rows /\ b.del \subseteq Uids
  BY BoxFields, MoveUndoAssumption
<1>3. \A u \in S : Rank(u, S) \in 1..Cardinality(S)
  BY <1>1, RankBound
<1>4. \A u \in S : new(u) \in Uids /\ new(u) >= b.next /\ new(u) < b.next + Cardinality(S)
  BY <1>1, <1>2, <1>3, MoveUndoAssumption DEF Uids
<1>5. \A u, v \in S : new(u) = new(v) => u = v
  <2> SUFFICES ASSUME NEW u \in S, NEW v \in S, new(u) = new(v) PROVE u = v
    OBVIOUS
  <2>1. Rank(u, S) = Rank(v, S)
    BY <1>2, <1>3
  <2> QED BY <2>1, <1>1, RankInjective
<1>6. at \in Rows
  BY <1>1, <1>2 DEF Rows
<1>7. c = [b EXCEPT !.next = b.next + Cardinality(S), !.at = at,
                    !.del = b.del \cup {new(u) : u \in S \cap a.del}]
  BY DEF Appended, Boxes
<1>8. b.next + Cardinality(S) \in 1..MaxUid + 1
  BY <1>1, <1>2, MoveUndoAssumption
<1>9. b.del \cup {new(u) : u \in S \cap a.del} \subseteq Uids
  BY <1>2, <1>4
<1>10. /\ c \in Boxes /\ c.val = b.val /\ c.next = b.next + Cardinality(S) /\ c.at = at
  BY <1>6, <1>7, <1>8, <1>9 DEF Boxes
<1> HIDE DEF c
<1>11. \A u \in S : c.at[new(u)] = a.at[u]
  <2> SUFFICES ASSUME NEW u \in S PROVE at[new(u)] = a.at[u]
    BY <1>10
  <2>1. (CHOOSE v \in S : new(u) = new(v)) = u
    BY <1>5
  <2> QED BY <2>1, <1>4
<1>12. \A u \in Uids : u < b.next \/ u >= c.next => c.at[u] = b.at[u]
  <2> SUFFICES ASSUME NEW u \in Uids, u < b.next \/ u >= c.next PROVE at[u] = b.at[u]
    BY <1>10
  <2>1. \A v \in S : u # new(v)
    BY <1>4, <1>10, <1>2, <1>1 DEF Uids
  <2> QED BY <2>1
<1> QED BY <1>1, <1>2, <1>4, <1>10, <1>11, <1>12 DEF c

LEMMA WithoutFacts ==
    ASSUME NEW b \in Boxes, NEW S
    PROVE  LET c == Without(b, S)
           IN /\ c \in Boxes /\ c.val = b.val /\ c.next = b.next
              /\ \A u \in Uids : c.at[u] = IF u \in S THEN None ELSE b.at[u]
BY DEF Without, Boxes, Rows

-----------------------------------------------------------------------------
(* The invariants. *)

\* Job j has nothing more to do on the server or in the cache.
Idle(j) == job[j].kind = "none" \/ job[j].pc = "done"

\* A command under way knows its folders, and an undo past its SELECT is in a
\* folder with the UIDVALIDITY it asked for.
Sound(j) ==
    /\ Idle(j) => job[j].uids = {}
    /\ ~ Idle(j) =>
         /\ job[j].from \in Folders
         /\ job[j].kind # "purge" => job[j].to \in Folders \ {job[j].from}
         /\ job[j].kind = "undo" => job[j].want = job[j].val
         /\ job[j].want # 0 /\ job[j].pc \in {"move", "copied", "expunge"}
              => job[j].want = box[job[j].from].val

Remembered == lastMoved \cup UNION {job[j].moved : j \in Jobs}

JobsSound ==
    /\ \A j \in Jobs : Sound(j)
    /\ \A r \in Remembered : r.from # r.to

\* UID u of folder b, noted under UIDVALIDITY v, names one of ms or nothing.
Names(b, v, u, ms) ==
    /\ v <= b.val
    /\ v = b.val => u < b.next /\ b.at[u] \in ms \cup {None}

CacheNames ==
    \A f \in Folders, u \in Uids :
        cache[f].at[u] # None => Names(box[f], cache[f].val, u, {cache[f].at[u]})
JobsName ==
    \A j \in Jobs : ~ Idle(j) =>
        \A u \in job[j].uids : Names(box[job[j].from], job[j].val, u, job[j].msgs)
RecordsName ==
    \A r \in Remembered : r.duid # 0 => Names(box[r.to], r.dval, r.duid, {r.msg})

LiveBelow(b) == \A u \in Uids : b.at[u] # None => u < b.next
LiveBelowNext == \A f \in Folders : LiveBelow(box[f])

Inv == TypeOK /\ JobsSound /\ CacheNames /\ JobsName /\ RecordsName /\ LiveBelowNext

\* What every step does to a folder: a numbering, once left, does not come
\* back, and under one numbering a UID keeps its message or loses it.
Follows(b, c) ==
    /\ c.val >= b.val
    /\ c.val = b.val =>
         /\ c.next >= b.next
         /\ \A u \in Uids : u < b.next => c.at[u] \in {b.at[u], None}
BoxSteps == \A f \in Folders : Follows(box[f], box'[f])

\* ... and all but a renumbering.
ValsKept == \A f \in Folders : box'[f].val = box[f].val

-----------------------------------------------------------------------------
(* What carries over from one state to the next. *)

LEMMA NamesKept ==
    ASSUME NEW b \in Boxes, NEW c \in Boxes, Follows(b, c),
           NEW v \in Nat, NEW u \in Uids, NEW ms, Names(b, v, u, ms)
    PROVE  Names(c, v, u, ms)
<1>1. b.val \in Nat /\ b.next \in Nat /\ c.val \in Nat /\ c.next \in Nat /\ u \in Nat
  BY BoxFields DEF Uids
<1> QED BY <1>1 DEF Names, Follows

\* Job j becomes X.
LEMMA OneJob ==
    ASSUME TypeOK, NEW j \in Jobs, NEW X \in Commands, job' = [job EXCEPT ![j] = X]
    PROVE  /\ job' \in [Jobs -> Commands] /\ job'[j] = X
           /\ \A i \in Jobs : i # j => job'[i] = job[i]
BY DEF TypeOK

LEMMA CommandFields ==
    ASSUME TypeOK, NEW j \in Jobs
    PROVE  /\ job[j] \in Commands
           /\ job[j].uids \subseteq Uids /\ job[j].moved \subseteq Records
           /\ job[j].msgs \subseteq Msgs \cup {None} /\ job[j].took \subseteq Msgs
           /\ job[j].val \in 1..MaxValidity /\ job[j].want \in 0..MaxValidity
           /\ job[j].val \in Nat
<1>1. job[j] \in Commands
  BY DEF TypeOK
<1>2. \A n \in 1..MaxValidity : n \in Nat
  OBVIOUS
<1> QED BY <1>1, <1>2 DEF Commands

LEMMA NoJobType == NoJob \in Commands
BY MoveUndoAssumption DEF NoJob, Commands

LEMMA OthersSound ==
    ASSUME TypeOK, JobsSound, ValsKept, NEW j \in Jobs,
           \A i \in Jobs : i # j => job'[i] = job[i],
           Sound(j)'
    PROVE  \A i \in Jobs : Sound(i)'
<1> SUFFICES ASSUME NEW i \in Jobs, i # j PROVE Sound(i)'
  OBVIOUS
<1>1. Sound(i) /\ job'[i] = job[i]
  BY DEF JobsSound
<1> QED BY <1>1 DEF Sound, Idle, ValsKept

\* The UIDs of a command go on naming what it was given for, ...
LEMMA JobCarried ==
    ASSUME TypeOK, TypeOK', BoxSteps, JobsSound, JobsName, NEW j \in Jobs, ~ Idle(j)
    PROVE  \A u \in job[j].uids : Names(box'[job[j].from], job[j].val, u, job[j].msgs)
<1> SUFFICES ASSUME NEW u \in job[j].uids
             PROVE  Names(box'[job[j].from], job[j].val, u, job[j].msgs)
  OBVIOUS
<1>1. job[j].from \in Folders
  BY DEF JobsSound, Sound
<1>2. job[j].val \in Nat /\ u \in Uids
  BY CommandFields
<1>3. Names(box[job[j].from], job[j].val, u, job[j].msgs)
  BY DEF JobsName
<1>4. /\ box[job[j].from] \in Boxes /\ box'[job[j].from] \in Boxes
      /\ Follows(box[job[j].from], box'[job[j].from])
  BY <1>1 DEF TypeOK, BoxSteps
<1> QED BY <1>2, <1>3, <1>4, NamesKept

\* ... those in the cache too, ...
LEMMA CacheCarried ==
    ASSUME TypeOK, TypeOK', BoxSteps, CacheNames, NEW f \in Folders, NEW u \in Uids,
           cache[f].at[u] # None
    PROVE  Names(box'[f], cache[f].val, u, {cache[f].at[u]})
<1>1. cache[f].val \in Nat
  BY MoveUndoAssumption DEF TypeOK, Caches
<1>2. Names(box[f], cache[f].val, u, {cache[f].at[u]})
  BY DEF CacheNames
<1>3. box[f] \in Boxes /\ box'[f] \in Boxes /\ Follows(box[f], box'[f])
  BY DEF TypeOK, BoxSteps
<1> QED BY <1>1, <1>2, <1>3, NamesKept

\* ... and a record goes on saying where its message is, if it still is.
LEMMA RecordCarried ==
    ASSUME TypeOK, TypeOK', BoxSteps, RecordsName, NEW r \in Remembered, r.duid # 0
    PROVE  Names(box'[r.to], r.dval, r.duid, {r.msg})
<1>1. Names(box[r.to], r.dval, r.duid, {r.msg})
  BY DEF RecordsName
<1>2. r \in Records
  BY CommandFields DEF TypeOK, Remembered
<1>3. r.to \in Folders /\ r.dval \in Nat /\ r.duid \in Uids
  BY <1>2, MoveUndoAssumption DEF Records, Uids
<1>4. box[r.to] \in Boxes /\ box'[r.to] \in Boxes /\ Follows(box[r.to], box'[r.to])
  BY <1>3 DEF TypeOK, BoxSteps
<1> QED BY <1>1, <1>3, <1>4, NamesKept

\* What is left to show of a step: that what it adds is right.
LEMMA StepKeeps ==
    ASSUME Inv, TypeOK', BoxSteps, LiveBelowNext', \A j \in Jobs : Sound(j)',
           \A f \in Folders, u \in Uids : cache'[f].at[u] # None =>
               \/ cache'[f].at[u] = cache[f].at[u] /\ cache'[f].val = cache[f].val
               \/ Names(box'[f], cache'[f].val, u, {cache'[f].at[u]}),
           \A j \in Jobs :
               \/ Idle(j)'
               \/ /\ ~ Idle(j)
                  /\ job'[j].from = job[j].from /\ job'[j].val = job[j].val
                  /\ job'[j].uids = job[j].uids /\ job'[j].msgs = job[j].msgs
               \/ \A u \in job'[j].uids : Names(box'[job'[j].from], job'[j].val, u, job'[j].msgs),
           \A r \in Remembered' : r \notin Remembered =>
               /\ r.from # r.to
               /\ r.duid # 0 => Names(box'[r.to], r.dval, r.duid, {r.msg})
    PROVE  Inv'
<1>1. TypeOK /\ JobsSound /\ CacheNames /\ JobsName /\ RecordsName
  BY DEF Inv
<1>2. CacheNames'
  <2> SUFFICES ASSUME NEW f \in Folders, NEW u \in Uids, cache'[f].at[u] # None
               PROVE  Names(box'[f], cache'[f].val, u, {cache'[f].at[u]})
    BY DEF CacheNames
  <2>1. CASE cache'[f].at[u] = cache[f].at[u] /\ cache'[f].val = cache[f].val
    BY <2>1, <1>1, CacheCarried
  <2>2. CASE Names(box'[f], cache'[f].val, u, {cache'[f].at[u]})
    BY <2>2
  <2> QED BY <2>1, <2>2
<1>3. JobsName'
  <2> SUFFICES ASSUME NEW j \in Jobs, ~ Idle(j)', NEW u \in job'[j].uids
               PROVE  Names(box'[job'[j].from], job'[j].val, u, job'[j].msgs)
    BY DEF JobsName
  <2>1. ASSUME ~ Idle(j), job'[j].from = job[j].from, job'[j].val = job[j].val,
               job'[j].uids = job[j].uids, job'[j].msgs = job[j].msgs
        PROVE  Names(box'[job'[j].from], job'[j].val, u, job'[j].msgs)
    <3>1. Names(box'[job[j].from], job[j].val, u, job[j].msgs)
      BY <1>1, <2>1, JobCarried
    <3> QED BY <2>1, <3>1
  <2> QED BY <2>1
<1>4. RecordsName' /\ \A r \in Remembered' : r.from # r.to
  <2>1. ASSUME NEW r \in Remembered', r \in Remembered
        PROVE  r.from # r.to /\ (r.duid # 0 => Names(box'[r.to], r.dval, r.duid, {r.msg}))
    BY <2>1, <1>1, RecordCarried DEF JobsSound
  <2> QED BY <2>1 DEF RecordsName
<1>5. JobsSound'
  BY <1>4 DEF JobsSound
<1> QED BY <1>2, <1>3, <1>4, <1>5 DEF Inv

\* The same for a step of job j alone that does not touch the folders.
LEMMA BoxRests ==
    ASSUME TypeOK, box' = box
    PROVE  BoxSteps /\ ValsKept
<1> SUFFICES ASSUME NEW f \in Folders PROVE Follows(box[f], box'[f]) /\ box'[f].val = box[f].val
  BY DEF BoxSteps, ValsKept
<1>1. box[f].val \in Nat /\ box[f].next \in Nat
  BY BoxFields DEF TypeOK
<1> QED BY <1>1 DEF Follows

\* The job is over.
LEMMA Ended ==
    ASSUME TypeOK, NEW j \in Jobs, NEW err \in BOOLEAN, NEW moved, moved \subseteq job[j].moved,
           Ends(j, err, moved)
    PROVE  /\ job' \in [Jobs -> Commands]
           /\ Idle(j)' /\ Sound(j)' /\ job'[j].moved = moved
           /\ \A i \in Jobs : i # j => job'[i] = job[i]
<1> DEFINE X == [NoJob EXCEPT !.kind = job[j].kind, !.pc = "done", !.err = err, !.moved = moved]
<1>1. job[j] \in Commands /\ moved \subseteq Records
  BY CommandFields
<1>2. X \in Commands /\ X.pc = "done" /\ X.uids = {} /\ X.moved = moved
  BY <1>1, NoJobType DEF Commands, NoJob
<1> HIDE DEF X
<1>3. job' = [job EXCEPT ![j] = X]
  BY DEF Ends, X
<1>4. /\ job' \in [Jobs -> Commands] /\ job'[j] = X
      /\ \A i \in Jobs : i # j => job'[i] = job[i]
  BY <1>2, <1>3, OneJob
<1> QED BY <1>2, <1>4 DEF Idle, Sound

LEMMA Freed ==
    ASSUME TypeOK, NEW j \in Jobs, job' = [job EXCEPT ![j] = NoJob]
    PROVE  /\ job' \in [Jobs -> Commands]
           /\ Idle(j)' /\ Sound(j)' /\ job'[j].moved = {}
           /\ \A i \in Jobs : i # j => job'[i] = job[i]
<1>1. NoJob.kind = "none" /\ NoJob.uids = {} /\ NoJob.moved = {}
  BY DEF NoJob
<1>2. /\ job' \in [Jobs -> Commands] /\ job'[j] = NoJob
      /\ \A i \in Jobs : i # j => job'[i] = job[i]
  BY NoJobType, OneJob
<1> QED BY <1>1, <1>2 DEF Idle, Sound

\* Job j is over or free, and the rest goes on as it was.
LEMMA EndKeeps ==
    ASSUME Inv, TypeOK', BoxSteps, ValsKept, LiveBelowNext', NEW j \in Jobs,
           Idle(j)', Sound(j)', job'[j].moved \subseteq job[j].moved,
           \A i \in Jobs : i # j => job'[i] = job[i],
           lastMoved' \subseteq Remembered,
           \A f \in Folders, u \in Uids : cache'[f].at[u] # None =>
               cache'[f].at[u] = cache[f].at[u] /\ cache'[f].val = cache[f].val
    PROVE  Inv'
<1>1. TypeOK /\ JobsSound
  BY DEF Inv
<1>2. \A i \in Jobs : Sound(i)'
  BY <1>1, OthersSound
<1>3. Remembered' \subseteq Remembered
  BY DEF Remembered
<1>4. \A i \in Jobs : i # j => Idle(i)' \/ ~ Idle(i)
  BY DEF Idle
<1> QED BY <1>2, <1>3, <1>4, StepKeeps

-----------------------------------------------------------------------------
(* The steps that leave the folders alone. *)

LEMMA BeginStep ==
    ASSUME Inv, NEW j \in Jobs, NEW kind \in {"move", "purge", "batch"},
           NEW f \in Folders, NEW t \in Folders \cup {None},
           kind # "purge" => t \in Folders \ {f},
           NEW S \in SUBSET Uids, Begin(j, kind, f, t, S)
    PROVE  Inv'
<1> DEFINE X == [NoJob EXCEPT !.kind = kind, !.from = f, !.to = t, !.uids = S,
                              !.msgs = MsgsAt(cache[f].at, S), !.val = cache[f].val]
<1>1. TypeOK /\ JobsSound /\ CacheNames /\ box' = box /\ cache' = cache /\ lastMoved' = lastMoved
  BY DEF Inv, Begin
<1>2. cache[f] \in Caches /\ cache[f].val \in 1..MaxValidity /\ cache[f].at \in Rows
  BY <1>1 DEF TypeOK, Caches
<1>3. MsgsAt(cache[f].at, S) \subseteq Msgs \cup {None}
  BY <1>2 DEF MsgsAt, Rows
<1>4. /\ X \in Commands /\ X.kind = kind /\ X.pc = "select" /\ X.from = f /\ X.to = t /\ X.uids = S
      /\ X.val = cache[f].val /\ X.msgs = MsgsAt(cache[f].at, S) /\ X.want = 0 /\ X.moved = {}
  BY <1>2, <1>3, NoJobType DEF Commands, NoJob
<1> HIDE DEF X
<1>5. job' = [job EXCEPT ![j] = X]
  BY DEF Begin, X
<1>6. /\ job' \in [Jobs -> Commands] /\ job'[j] = X
      /\ \A i \in Jobs : i # j => job'[i] = job[i]
  BY <1>1, <1>4, <1>5, OneJob
<1>7. TypeOK'
  <2>1. begun' \in 0..MaxCommands
    BY <1>1, MoveUndoAssumption DEF Begin, TypeOK
  <2> QED BY <1>1, <1>6, <2>1 DEF Begin, TypeOK
<1>8. BoxSteps /\ ValsKept /\ LiveBelowNext'
  BY <1>1, BoxRests DEF Inv, LiveBelowNext
<1>9. Sound(j)'
  BY <1>4, <1>6 DEF Sound, Idle
<1>10. \A i \in Jobs : Sound(i)'
  BY <1>1, <1>6, <1>8, <1>9, OthersSound
<1>11. \A u \in S : Names(box[f], cache[f].val, u, MsgsAt(cache[f].at, S))
  <2> SUFFICES ASSUME NEW u \in S PROVE Names(box[f], cache[f].val, u, MsgsAt(cache[f].at, S))
    OBVIOUS
  <2>1. u \in Uids /\ cache[f].at[u] # None
    BY DEF Begin, Live
  <2>2. Names(box[f], cache[f].val, u, {cache[f].at[u]})
    BY <1>1, <2>1 DEF CacheNames
  <2>3. cache[f].at[u] \in MsgsAt(cache[f].at, S)
    BY DEF MsgsAt
  <2> QED BY <2>2, <2>3 DEF Names
<1>12. \A u \in job'[j].uids : Names(box'[job'[j].from], job'[j].val, u, job'[j].msgs)
  BY <1>1, <1>4, <1>6, <1>11
<1>13. \A i \in Jobs : i # j => Idle(i)' \/ ~ Idle(i)
  BY <1>6 DEF Idle
<1>14. Remembered' \subseteq Remembered
  BY <1>1, <1>4, <1>6 DEF Remembered
<1> QED BY <1>1, <1>6, <1>7, <1>8, <1>10, <1>12, <1>13, <1>14, StepKeeps

LEMMA UndoStep ==
    ASSUME Inv, NEW j \in Jobs, undoCmd(j)
    PROVE  Inv'
<1>1. TypeOK /\ JobsSound /\ RecordsName
      /\ box' = box /\ cache' = cache /\ lastMoved' = lastMoved
  BY DEF Inv, undoCmd
<1>2. BoxSteps /\ ValsKept /\ LiveBelowNext'
  BY <1>1, BoxRests DEF Inv, LiveBelowNext
<1> DEFINE N == [NoJob EXCEPT !.kind = "undo", !.pc = "done", !.err = TRUE]
           U(r) == [NoJob EXCEPT !.kind = "undo", !.from = r.to, !.to = r.from, !.uids = {r.duid},
                                 !.want = r.dval, !.msgs = {r.msg}, !.val = r.dval]
<1>3. PICK r \in lastMoved : job' = [job EXCEPT ![j] = IF r.duid = 0 THEN N ELSE U(r)]
  BY DEF undoCmd
<1>4. /\ r \in Records /\ r \in Remembered /\ r.from \in Folders /\ r.to \in Folders
      /\ r.dval \in 1..MaxValidity /\ r.duid \in 0..MaxUid /\ r.msg \in Msgs \cup {None}
  BY <1>1 DEF TypeOK, Records, Remembered
<1>5. N \in Commands /\ N.pc = "done" /\ N.uids = {} /\ N.moved = {}
  BY NoJobType DEF Commands, NoJob
<1>6. ASSUME r.duid # 0
      PROVE  /\ U(r) \in Commands /\ U(r).kind = "undo" /\ U(r).pc = "select"
             /\ U(r).from = r.to /\ U(r).to = r.from /\ U(r).uids = {r.duid}
             /\ U(r).want = r.dval /\ U(r).val = r.dval /\ U(r).msgs = {r.msg} /\ U(r).moved = {}
  <2>1. {r.duid} \subseteq Uids /\ r.dval \in 0..MaxValidity
    BY <1>4, <1>6, MoveUndoAssumption DEF Uids
  <2> QED BY <1>4, <2>1, NoJobType DEF Commands, NoJob
<1> HIDE DEF N, U
<1>7. /\ job' \in [Jobs -> Commands] /\ job'[j] = IF r.duid = 0 THEN N ELSE U(r)
      /\ \A i \in Jobs : i # j => job'[i] = job[i]
  <2>1. (IF r.duid = 0 THEN N ELSE U(r)) \in Commands
    BY <1>5, <1>6
  <2> QED BY <1>1, <1>3, <2>1, OneJob
<1>8. TypeOK'
  BY <1>1, <1>7 DEF undoCmd, TypeOK
<1>9. Sound(j)'
  BY <1>1, <1>4, <1>5, <1>6, <1>7 DEF Sound, Idle, JobsSound
<1>10. \A i \in Jobs : Sound(i)'
  BY <1>1, <1>2, <1>7, <1>9, OthersSound
<1>11. Idle(j)' \/ \A u \in job'[j].uids : Names(box'[job'[j].from], job'[j].val, u, job'[j].msgs)
  <2>1. CASE r.duid = 0
    BY <2>1, <1>5, <1>7 DEF Idle
  <2>2. CASE r.duid # 0
    BY <2>2, <1>1, <1>4, <1>6, <1>7 DEF RecordsName
  <2> QED BY <2>1, <2>2
<1>12. \A i \in Jobs : i # j => Idle(i)' \/ ~ Idle(i)
  BY <1>7 DEF Idle
<1>13. Remembered' \subseteq Remembered
  BY <1>1, <1>5, <1>6, <1>7 DEF Remembered
<1> QED BY <1>1, <1>2, <1>7, <1>8, <1>10, <1>11, <1>12, <1>13, StepKeeps

LEMMA ErrsKeeps ==
    ASSUME Inv, NEW j \in Jobs, Errs(j), fails' \in 0..MaxFail,
           UNCHANGED <<server, box, cache, lastMoved, gone, begun>>
    PROVE  Inv'
<1>1. TypeOK /\ LiveBelowNext
  BY DEF Inv
<1>2. /\ job' \in [Jobs -> Commands]
      /\ Idle(j)' /\ Sound(j)' /\ job'[j].moved = {}
      /\ \A i \in Jobs : i # j => job'[i] = job[i]
  BY <1>1, Ended DEF Errs
<1>3. TypeOK' /\ BoxSteps /\ ValsKept /\ LiveBelowNext'
  BY <1>1, <1>2, BoxRests DEF TypeOK, LiveBelowNext
<1> QED BY <1>2, <1>3, EndKeeps DEF Remembered

LEMMA SelectStep ==
    ASSUME Inv, NEW j \in Jobs, SelectFolder(j)
    PROVE  Inv'
<1>1. TypeOK /\ JobsSound
  BY DEF Inv
<1>2. CASE job[j].want \notin {0, box[job[j].from].val}
  BY <1>1, <1>2, ErrsKeeps DEF SelectFolder, TypeOK
<1>3. CASE job[j].want \in {0, box[job[j].from].val}
  <2> DEFINE X == [job[j] EXCEPT !.pc = "move"]
  <2>1. job[j] \in Commands
    BY <1>1, CommandFields
  <2>2. /\ X \in Commands /\ X.pc = "move" /\ X.kind = job[j].kind /\ X.from = job[j].from
        /\ X.to = job[j].to /\ X.uids = job[j].uids /\ X.want = job[j].want
        /\ X.val = job[j].val /\ X.msgs = job[j].msgs /\ X.moved = job[j].moved
    BY <2>1 DEF Commands
  <2> HIDE DEF X
  <2>3. job' = [job EXCEPT ![j] = X]
    BY <1>3 DEF SelectFolder, X
  <2>4. /\ job' \in [Jobs -> Commands] /\ job'[j] = X
        /\ \A i \in Jobs : i # j => job'[i] = job[i]
    BY <1>1, <2>2, <2>3, OneJob
  <2>5. box' = box /\ cache' = cache /\ lastMoved' = lastMoved
    BY DEF SelectFolder
  <2>6. TypeOK'
    BY <1>1, <2>4 DEF SelectFolder, TypeOK
  <2>7. BoxSteps /\ ValsKept /\ LiveBelowNext'
    BY <1>1, <2>5, BoxRests DEF Inv, LiveBelowNext
  <2>8. ~ Idle(j) /\ ~ Idle(j)'
    BY <2>2, <2>4 DEF SelectFolder, Running, Idle
  <2>9. Sound(j)'
    BY <1>1, <1>3, <2>2, <2>4, <2>5, <2>8 DEF Sound, JobsSound
  <2>10. \A i \in Jobs : Sound(i)'
    BY <1>1, <2>4, <2>7, <2>9, OthersSound
  <2>11. \A i \in Jobs : i # j => Idle(i)' \/ ~ Idle(i)
    BY <2>4 DEF Idle
  <2>12. Remembered' \subseteq Remembered
    BY <2>2, <2>4, <2>5 DEF Remembered
  <2> QED BY <2>2, <2>4, <2>5, <2>6, <2>7, <2>8, <2>10, <2>11, <2>12, StepKeeps
<1> QED BY <1>2, <1>3

LEMMA FailSteps ==
    ASSUME Inv, NEW j \in Jobs, Unsupported(j) \/ Fail(j)
    PROVE  Inv'
<1>1. fails \in 0..MaxFail
  BY DEF Inv, TypeOK
<1>2. fails' \in 0..MaxFail
  BY <1>1, MoveUndoAssumption DEF Unsupported, Fail
<1> QED BY <1>2, ErrsKeeps DEF Unsupported, Fail

LEMMA DropFailsStep ==
    ASSUME Inv, NEW j \in Jobs, DropFails(j)
    PROVE  Inv'
<1>1. TypeOK /\ LiveBelowNext
  BY DEF Inv
<1>2. /\ job' \in [Jobs -> Commands]
      /\ Idle(j)' /\ Sound(j)' /\ job'[j].moved = job[j].moved
      /\ \A i \in Jobs : i # j => job'[i] = job[i]
  BY <1>1, Ended DEF DropFails
<1>3. fails' \in 0..MaxFail
  BY <1>1, MoveUndoAssumption DEF DropFails, TypeOK
<1>4. TypeOK' /\ BoxSteps /\ ValsKept /\ LiveBelowNext'
  BY <1>1, <1>2, <1>3, BoxRests DEF DropFails, TypeOK, LiveBelowNext
<1> QED BY <1>2, <1>4, EndKeeps DEF DropFails, Remembered

LEMMA DropStep ==
    ASSUME Inv, NEW j \in Jobs, dropFromCache(j)
    PROVE  Inv'
<1>1. TypeOK /\ JobsSound /\ LiveBelowNext
  BY DEF Inv
<1>2. /\ job' \in [Jobs -> Commands]
      /\ Idle(j)' /\ Sound(j)' /\ job'[j].moved = job[j].moved
      /\ \A i \in Jobs : i # j => job'[i] = job[i]
  BY <1>1, Ended DEF dropFromCache
<1> DEFINE f == job[j].from
           at == [u \in Uids |-> IF u \in job[j].uids THEN None ELSE cache[f].at[u]]
           c == [cache[f] EXCEPT !.at = at]
<1>3. cache' = [cache EXCEPT ![f].at = at]
  BY DEF dropFromCache
<1>4. cache' \in [Folders -> Caches]
      /\ \A g \in Folders, u \in Uids : cache'[g].at[u] # None =>
            cache'[g].at[u] = cache[g].at[u] /\ cache'[g].val = cache[g].val
  <2>1. CASE f \in Folders
    <3>1. cache[f] \in Caches /\ cache[f].at \in Rows
      BY <1>1, <2>1 DEF TypeOK, Caches
    <3>2. at \in Rows
      BY <3>1 DEF Rows
    <3>3. c \in Caches /\ c.at = at /\ c.val = cache[f].val
      BY <3>1, <3>2 DEF Caches
    <3>4. cache' = [cache EXCEPT ![f] = c]
      BY <1>3
    <3> HIDE DEF c, f
    <3>5. \A g \in Folders : cache'[g] = IF g = f THEN c ELSE cache[g]
      BY <3>4, <2>1, <1>1 DEF TypeOK
    <3> QED BY <1>1, <2>1, <3>3, <3>4, <3>5 DEF TypeOK
  <2>2. CASE f \notin Folders
    <3>1. cache' = cache
      BY <1>1, <1>3, <2>2 DEF TypeOK
    <3> QED BY <3>1, <1>1 DEF TypeOK
  <2> QED BY <2>1, <2>2
<1>5. TypeOK' /\ BoxSteps /\ ValsKept /\ LiveBelowNext'
  BY <1>1, <1>2, <1>4, BoxRests DEF dropFromCache, TypeOK, LiveBelowNext
<1> QED BY <1>2, <1>4, <1>5, EndKeeps DEF dropFromCache, Remembered

LEMMA ResultSteps ==
    ASSUME Inv, NEW j \in Jobs, handleTriageResult(j) \/ reportMoved(j)
    PROVE  Inv'
<1>1. TypeOK /\ LiveBelowNext
  BY DEF Inv
<1>2. /\ job' \in [Jobs -> Commands]
      /\ Idle(j)' /\ Sound(j)' /\ job'[j].moved = {}
      /\ \A i \in Jobs : i # j => job'[i] = job[i]
  BY <1>1, Freed DEF handleTriageResult, reportMoved
<1>3. lastMoved' \in {lastMoved, job[j].moved, {}}
  BY DEF handleTriageResult, reportMoved
<1>4. lastMoved' \subseteq Remembered /\ lastMoved' \subseteq Records
  BY <1>1, <1>3, CommandFields DEF Remembered, TypeOK
<1>5. UNCHANGED <<server, box, cache, gone, fails, begun>>
  BY DEF handleTriageResult, reportMoved
<1>6. TypeOK' /\ BoxSteps /\ ValsKept /\ LiveBelowNext'
  BY <1>1, <1>2, <1>4, <1>5, BoxRests DEF TypeOK, LiveBelowNext
<1> QED BY <1>2, <1>4, <1>5, <1>6, EndKeeps

LEMMA SyncStep ==
    ASSUME Inv, NEW f \in Folders, Sync(f)
    PROVE  Inv'
<1> DEFINE c == [val |-> box[f].val, at |-> box[f].at]
<1>1. TypeOK /\ JobsSound /\ LiveBelowNext
  BY DEF Inv
<1>2. box[f] \in Boxes
  BY <1>1 DEF TypeOK
<1>3. c \in Caches /\ c.val = box[f].val /\ c.at = box[f].at
  BY <1>2, BoxFields DEF Caches
<1> HIDE DEF c
<1>4. cache' = [cache EXCEPT ![f] = c]
  BY DEF Sync, c
<1>5. cache' \in [Folders -> Caches] /\ \A g \in Folders : cache'[g] = IF g = f THEN c ELSE cache[g]
  BY <1>1, <1>3, <1>4 DEF TypeOK
<1>6. box' = box /\ job' = job /\ lastMoved' = lastMoved
  BY DEF Sync
<1>7. TypeOK' /\ BoxSteps /\ ValsKept /\ LiveBelowNext'
  BY <1>1, <1>5, BoxRests DEF Sync, TypeOK, LiveBelowNext
<1>8. \A i \in Jobs : Sound(i)' /\ (Idle(i)' \/ ~ Idle(i))
  BY <1>1, <1>6 DEF JobsSound, Sound, Idle
<1>9. \A u \in Uids : cache'[f].at[u] # None => Names(box'[f], cache'[f].val, u, {cache'[f].at[u]})
  <2>1. box[f].val \in Nat
    BY <1>2, BoxFields
  <2> QED BY <1>1, <1>3, <1>5, <1>6, <2>1 DEF LiveBelowNext, LiveBelow, Names
<1>10. Remembered' = Remembered
  BY <1>6 DEF Remembered
<1> QED BY <1>5, <1>6, <1>7, <1>8, <1>9, <1>10, StepKeeps

-----------------------------------------------------------------------------
(* The steps on the server. *)

LEMMA OneBox ==
    ASSUME TypeOK, LiveBelowNext, NEW f \in Folders, NEW c \in Boxes,
           Follows(box[f], c), c.val = box[f].val, LiveBelow(c), box' = [box EXCEPT ![f] = c]
    PROVE  /\ box' \in [Folders -> Boxes] /\ box'[f] = c
           /\ \A g \in Folders : g # f => box'[g] = box[g]
           /\ BoxSteps /\ ValsKept /\ LiveBelowNext'
<1>1. /\ box' \in [Folders -> Boxes] /\ box'[f] = c
      /\ \A g \in Folders : g # f => box'[g] = box[g]
  BY DEF TypeOK
<1>2. \A g \in Folders : Follows(box[g], box[g])
  <2> SUFFICES ASSUME NEW g \in Folders PROVE Follows(box[g], box[g])
    OBVIOUS
  <2>1. box[g].val \in Nat /\ box[g].next \in Nat
    BY BoxFields DEF TypeOK
  <2> QED BY <2>1 DEF Follows
<1> QED BY <1>1, <1>2 DEF BoxSteps, ValsKept, LiveBelowNext

LEMMA TwoBoxes ==
    ASSUME TypeOK, LiveBelowNext, NEW f \in Folders, NEW t \in Folders, f # t,
           NEW c \in Boxes, Follows(box[f], c), c.val = box[f].val, LiveBelow(c),
           NEW d \in Boxes, Follows(box[t], d), d.val = box[t].val, LiveBelow(d),
           box' = [box EXCEPT ![f] = c, ![t] = d]
    PROVE  /\ box' \in [Folders -> Boxes] /\ box'[f] = c /\ box'[t] = d
           /\ \A g \in Folders : g # f /\ g # t => box'[g] = box[g]
           /\ BoxSteps /\ ValsKept /\ LiveBelowNext'
<1>1. /\ box' \in [Folders -> Boxes] /\ box'[f] = c /\ box'[t] = d
      /\ \A g \in Folders : g # f /\ g # t => box'[g] = box[g]
  BY DEF TypeOK
<1>2. \A g \in Folders : Follows(box[g], box[g])
  <2> SUFFICES ASSUME NEW g \in Folders PROVE Follows(box[g], box[g])
    OBVIOUS
  <2>1. box[g].val \in Nat /\ box[g].next \in Nat
    BY BoxFields DEF TypeOK
  <2> QED BY <2>1 DEF Follows
<1> QED BY <1>1, <1>2 DEF BoxSteps, ValsKept, LiveBelowNext

LEMMA AppendedFollows ==
    ASSUME NEW b \in Boxes, NEW a \in Boxes, NEW S, S \subseteq Live(a.at),
           b.next + Cardinality(S) <= MaxUid + 1, LiveBelow(b)
    PROVE  LET c == Appended(b, a, S)
           IN Follows(b, c) /\ LiveBelow(c)
<1> DEFINE c == Appended(b, a, S)
<1>1. /\ c \in Boxes /\ c.val = b.val /\ c.next >= b.next
      /\ \A u \in Uids : u < b.next \/ u >= c.next => c.at[u] = b.at[u]
  BY AppendedFacts
<1> HIDE DEF c
<1>2. b.val \in Nat /\ b.next \in Nat /\ c.next \in Nat /\ Uids \subseteq Nat
  BY <1>1, BoxFields DEF Uids
<1>3. Follows(b, c)
  BY <1>1, <1>2 DEF Follows
<1>4. LiveBelow(c)
  <2> SUFFICES ASSUME NEW u \in Uids, c.at[u] # None, u >= c.next PROVE FALSE
    BY <1>2 DEF LiveBelow
  <2>1. b.at[u] # None
    BY <1>1
  <2> QED BY <1>1, <1>2, <2>1 DEF LiveBelow
<1> QED BY <1>3, <1>4 DEF c

LEMMA WithoutFollows ==
    ASSUME NEW b \in Boxes, NEW S, LiveBelow(b)
    PROVE  LET c == Without(b, S)
           IN c \in Boxes /\ c.val = b.val /\ Follows(b, c) /\ LiveBelow(c)
<1>1. b.val \in Nat /\ b.next \in Nat
  BY BoxFields
<1> QED BY <1>1, WithoutFacts DEF Follows, LiveBelow

\* Job j, past its SELECT, is in a folder that it knows.
LEMMA MovingFacts ==
    ASSUME Inv, NEW j \in Jobs,
           Running(j, {"move", "batch", "undo"}, "move") \/ Running(j, {"move", "batch", "undo"}, "copied")
             \/ (job[j].pc = "expunge" /\ job[j].kind \notin {"none", "purge"})
    PROVE  /\ ~ Idle(j) /\ job[j].from \in Folders /\ job[j].to \in Folders
           /\ job[j].from # job[j].to
           /\ Present(j) \subseteq Live(box[job[j].from].at) /\ Present(j) \subseteq Uids
<1>1. ~ Idle(j) /\ job[j].kind # "purge"
  BY DEF Running, Idle
<1>2. Sound(j)
  BY DEF Inv, JobsSound
<1> QED BY <1>1, <1>2 DEF Sound, Present, Live

LEMMA NamesNow ==
    ASSUME NEW b, b.val \in Nat, NEW u, u < b.next, NEW m, b.at[u] = m
    PROVE  Names(b, b.val, u, {m})
BY DEF Names

\* The UIDs the server tells are right.
LEMMA ResultFacts ==
    ASSUME Inv, NEW j \in Jobs, Running(j, {"move", "batch", "undo"}, "move"), HasRoom(j),
           NEW c, c = Appended(box[job[j].to], box[job[j].from], Present(j))
    PROVE  /\ Results(j) \subseteq Records
           /\ \A r \in Results(j) :
                /\ r.from # r.to /\ r.to = job[j].to
                /\ r.duid # 0 => Names(c, r.dval, r.duid, {r.msg})
<1> DEFINE f == job[j].from
           t == job[j].to
           told == server.uidPlus /\ Present(j) = job[j].uids
           new(u) == box[t].next - 1 + Rank(u, Present(j))
<1>1. TypeOK /\ f \in Folders /\ t \in Folders /\ f # t
      /\ Present(j) \subseteq Live(box[f].at)
  BY MovingFacts DEF Inv
<1>2. box[f] \in Boxes /\ box[t] \in Boxes
  BY <1>1 DEF TypeOK
<1>3. job[j].uids \subseteq Uids
  BY <1>1, CommandFields
<1>4. /\ c.val = box[t].val /\ c \in Boxes
      /\ \A u \in Present(j) : new(u) \in Uids /\ new(u) < c.next /\ c.at[new(u)] = box[f].at[u]
  BY <1>1, <1>2, AppendedFacts DEF HasRoom
<1>5. box[t].val \in 1..MaxValidity /\ box[t].val \in Nat
  BY <1>2, BoxFields
<1> SUFFICES ASSUME NEW u \in job[j].uids,
                    NEW r, r = Result(f, t, IF told THEN new(u) ELSE 0, box[t].val, box[f].at[u])
             PROVE  /\ r \in Records
                    /\ r.from # r.to /\ r.to = t
                    /\ r.duid # 0 => Names(c, r.dval, r.duid, {r.msg})
  BY DEF Results
<1>6. /\ r.from = f /\ r.to = t /\ r.duid = (IF told THEN new(u) ELSE 0)
      /\ r.dval = box[t].val /\ r.msg = box[f].at[u]
  BY DEF Result
<1>7. box[f].at[u] \in Msgs \cup {None}
  BY <1>2, <1>3, BoxFields DEF Rows
<1>8. (IF told THEN new(u) ELSE 0) \in 0..MaxUid
  <2>1. CASE told
    BY <2>1, <1>4, MoveUndoAssumption DEF Uids
  <2>2. CASE ~ told
    BY <2>2, MoveUndoAssumption
  <2> QED BY <2>1, <2>2
<1>9. r \in Records
  BY <1>1, <1>5, <1>7, <1>8 DEF Result, Records
<1>10. ASSUME r.duid # 0 PROVE Names(c, r.dval, r.duid, {r.msg})
  <2>1. told /\ u \in Present(j)
    BY <1>6, <1>10
  <2> HIDE DEF new, told
  <2>2. r.duid = new(u) /\ r.dval = c.val /\ c.val \in Nat
    BY <2>1, <1>4, <1>5, <1>6
  <2>3. r.duid < c.next /\ c.at[r.duid] = r.msg
    BY <2>1, <2>2, <1>4, <1>6
  <2>4. Names(c, c.val, r.duid, {r.msg})
    BY <2>2, <2>3, NamesNow
  <2> QED BY <2>2, <2>4
<1> QED BY <1>1, <1>6, <1>9, <1>10

\* What MOVE does to the two folders.
LEMMA MovesFacts ==
    ASSUME Inv, NEW j \in Jobs, Running(j, {"move", "batch", "undo"}, "move"), HasRoom(j), Moves(j)
    PROVE  LET f == job[j].from  t == job[j].to
           IN /\ box' \in [Folders -> Boxes] /\ BoxSteps /\ ValsKept /\ LiveBelowNext'
              /\ box'[f] = Without(box[f], Present(j))
              /\ box'[t] = Appended(box[t], box[f], Present(j))
              /\ \A g \in Folders : g # f /\ g # t => box'[g] = box[g]
<1> DEFINE f == job[j].from
           t == job[j].to
           c == Without(box[f], Present(j))
           d == Appended(box[t], box[f], Present(j))
<1>1. /\ TypeOK /\ LiveBelowNext /\ f \in Folders /\ t \in Folders /\ f # t
      /\ Present(j) \subseteq Live(box[f].at)
  BY MovingFacts DEF Inv
<1>2. box[f] \in Boxes /\ box[t] \in Boxes /\ LiveBelow(box[f]) /\ LiveBelow(box[t])
  BY <1>1 DEF TypeOK, LiveBelowNext
<1>3. c \in Boxes /\ c.val = box[f].val /\ Follows(box[f], c) /\ LiveBelow(c)
  BY <1>2, WithoutFollows
<1>4. d \in Boxes /\ d.val = box[t].val /\ Follows(box[t], d) /\ LiveBelow(d)
  BY <1>1, <1>2, AppendedFacts, AppendedFollows DEF HasRoom
<1>5. box' = [box EXCEPT ![f] = c, ![t] = d]
  BY <1>1 DEF Moves
<1> HIDE DEF c, d
<1>6. /\ box' \in [Folders -> Boxes] /\ box'[f] = c /\ box'[t] = d
      /\ \A g \in Folders : g # f /\ g # t => box'[g] = box[g]
      /\ BoxSteps /\ ValsKept /\ LiveBelowNext'
  BY <1>1, <1>3, <1>4, <1>5, TwoBoxes
<1> QED BY <1>6 DEF c, d

LEMMA CopyFacts ==
    ASSUME Inv, NEW j \in Jobs, Running(j, {"move", "batch", "undo"}, "move"), HasRoom(j),
           box' = [box EXCEPT ![job[j].to] = Appended(@, box[job[j].from], Present(j))]
    PROVE  LET f == job[j].from  t == job[j].to
           IN /\ box' \in [Folders -> Boxes] /\ BoxSteps /\ ValsKept /\ LiveBelowNext'
              /\ box'[t] = Appended(box[t], box[f], Present(j))
              /\ \A g \in Folders : g # t => box'[g] = box[g]
<1> DEFINE f == job[j].from
           t == job[j].to
           d == Appended(box[t], box[f], Present(j))
<1>1. /\ TypeOK /\ LiveBelowNext /\ f \in Folders /\ t \in Folders /\ f # t
      /\ Present(j) \subseteq Live(box[f].at)
  BY MovingFacts DEF Inv
<1>2. box[f] \in Boxes /\ box[t] \in Boxes /\ LiveBelow(box[f]) /\ LiveBelow(box[t])
  BY <1>1 DEF TypeOK, LiveBelowNext
<1>3. d \in Boxes /\ d.val = box[t].val /\ Follows(box[t], d) /\ LiveBelow(d)
  BY <1>1, <1>2, AppendedFacts, AppendedFollows DEF HasRoom
<1>4. box' = [box EXCEPT ![t] = d]
  OBVIOUS
<1> HIDE DEF d
<1>5. /\ box' \in [Folders -> Boxes] /\ box'[t] = d
      /\ \A g \in Folders : g # t => box'[g] = box[g]
      /\ BoxSteps /\ ValsKept /\ LiveBelowNext'
  BY <1>1, <1>3, <1>4, OneBox
<1> QED BY <1>5 DEF d

\* Job j goes on at pc, with what it moved and what it took, ...
LEMMA GoesOnFacts ==
    ASSUME TypeOK, NEW j \in Jobs,
           NEW pc \in {"select", "move", "copied", "expunge", "drop", "done"},
           NEW moved \in SUBSET Records, NEW took \in SUBSET Msgs,
           NEW X, job' = [job EXCEPT ![j] = X],
           \/ X = [job[j] EXCEPT !.pc = pc, !.moved = moved, !.took = took]
           \/ X = [job[j] EXCEPT !.pc = pc, !.moved = moved]
           \/ X = [job[j] EXCEPT !.pc = pc, !.took = took] /\ moved = job[j].moved
           \/ X = [job[j] EXCEPT !.pc = pc] /\ moved = job[j].moved
    PROVE  /\ job' \in [Jobs -> Commands]
           /\ job'[j].pc = pc /\ job'[j].moved = moved
           /\ job'[j].kind = job[j].kind /\ job'[j].from = job[j].from /\ job'[j].to = job[j].to
           /\ job'[j].uids = job[j].uids /\ job'[j].want = job[j].want
           /\ job'[j].val = job[j].val /\ job'[j].msgs = job[j].msgs
           /\ \A i \in Jobs : i # j => job'[i] = job[i]
<1>1. job[j] \in Commands
  BY CommandFields
<1>2. /\ X \in Commands /\ X.pc = pc /\ X.moved = moved
      /\ X.kind = job[j].kind /\ X.from = job[j].from /\ X.to = job[j].to
      /\ X.uids = job[j].uids /\ X.want = job[j].want
      /\ X.val = job[j].val /\ X.msgs = job[j].msgs
  <2>1. CASE X = [job[j] EXCEPT !.pc = pc, !.moved = moved, !.took = took]
    BY <1>1, <2>1 DEF Commands
  <2>2. CASE X = [job[j] EXCEPT !.pc = pc, !.moved = moved]
    BY <1>1, <2>2 DEF Commands
  <2>3. CASE X = [job[j] EXCEPT !.pc = pc, !.took = took] /\ moved = job[j].moved
    BY <1>1, <2>3 DEF Commands
  <2>4. CASE X = [job[j] EXCEPT !.pc = pc] /\ moved = job[j].moved
    BY <1>1, <2>4 DEF Commands
  <2> QED BY <2>1, <2>2, <2>3, <2>4
<1> QED BY <1>2, OneJob

\* ... and everything keeps its type.
LEMMA TypeKept ==
    ASSUME TypeOK, box' \in [Folders -> Boxes], job' \in [Jobs -> Commands], gone' \subseteq Msgs,
           UNCHANGED <<server, cache, lastMoved, fails, begun>>
    PROVE  TypeOK'
BY DEF TypeOK

\* A job goes on in the same folders with the same UIDs.
LEMMA GoKeeps ==
    ASSUME Inv, TypeOK', BoxSteps, ValsKept, LiveBelowNext', NEW j \in Jobs,
           ~ Idle(j), job'[j].pc # "done",
           job[j].pc \in {"copied", "expunge", "move"} \/ job'[j].pc = "drop",
           job'[j].kind = job[j].kind, job'[j].from = job[j].from, job'[j].to = job[j].to,
           job'[j].uids = job[j].uids, job'[j].want = job[j].want,
           job'[j].val = job[j].val, job'[j].msgs = job[j].msgs,
           \A i \in Jobs : i # j => job'[i] = job[i],
           cache' = cache, lastMoved' = lastMoved,
           \A r \in job'[j].moved : r \notin job[j].moved =>
               /\ r.from # r.to
               /\ r.duid # 0 => Names(box'[r.to], r.dval, r.duid, {r.msg})
    PROVE  Inv'
<1>1. TypeOK /\ JobsSound
  BY DEF Inv
<1>2. Sound(j)'
  <2>1. Sound(j) /\ ~ Idle(j)'
    BY <1>1 DEF JobsSound, Idle
  <2> QED BY <2>1 DEF Sound, ValsKept
<1>3. \A i \in Jobs : Sound(i)'
  BY <1>1, <1>2, OthersSound
<1>4. \A i \in Jobs : i # j => Idle(i)' \/ ~ Idle(i)
  BY DEF Idle
<1>5. \A r \in Remembered' : r \in Remembered \/ r \in job'[j].moved
  BY DEF Remembered
<1>6. job[j].moved \subseteq Remembered
  BY DEF Remembered
<1> QED BY <1>3, <1>4, <1>5, <1>6, StepKeeps

LEMMA TookType ==
    ASSUME TypeOK, NEW f \in Folders, NEW S, S \subseteq Live(box[f].at)
    PROVE  MsgsAt(box[f].at, S) \in SUBSET Msgs
<1>1. box[f].at \in Rows
  BY BoxFields DEF TypeOK
<1> QED BY <1>1 DEF MsgsAt, Live, Rows

LEMMA MoveStep ==
    ASSUME Inv, NEW j \in Jobs, MoveOnServer(j)
    PROVE  Inv'
<1> DEFINE f == job[j].from
           t == job[j].to
           took == MsgsAt(box[f].at, Present(j))
<1>1. /\ TypeOK /\ Running(j, {"move", "batch", "undo"}, "move") /\ HasRoom(j) /\ Moves(j)
      /\ UNCHANGED <<server, cache, lastMoved, gone, fails, begun>>
  BY DEF Inv, MoveOnServer
<1>2. ~ Idle(j) /\ f \in Folders /\ t \in Folders /\ Present(j) \subseteq Live(box[f].at)
  BY <1>1, MovingFacts
<1>3. took \in SUBSET Msgs
  BY <1>1, <1>2, TookType
<1>4. /\ Results(j) \in SUBSET Records
      /\ \A r \in Results(j) :
           /\ r.from # r.to /\ r.to = t
           /\ r.duid # 0 => Names(Appended(box[t], box[f], Present(j)), r.dval, r.duid, {r.msg})
  BY <1>1, ResultFacts
<1>5. /\ box' \in [Folders -> Boxes] /\ BoxSteps /\ ValsKept /\ LiveBelowNext'
      /\ box'[t] = Appended(box[t], box[f], Present(j))
  BY <1>1, MovesFacts
<1> HIDE DEF took
<1> DEFINE X == [job[j] EXCEPT !.pc = "drop", !.moved = Results(j), !.took = took]
<1>6. job' = [job EXCEPT ![j] = X]
  BY DEF MoveOnServer, took
<1>7. /\ job' \in [Jobs -> Commands]
      /\ job'[j].pc = "drop" /\ job'[j].moved = Results(j)
      /\ job'[j].kind = job[j].kind /\ job'[j].from = job[j].from /\ job'[j].to = job[j].to
      /\ job'[j].uids = job[j].uids /\ job'[j].want = job[j].want
      /\ job'[j].val = job[j].val /\ job'[j].msgs = job[j].msgs
      /\ \A i \in Jobs : i # j => job'[i] = job[i]
  BY <1>1, <1>3, <1>4, <1>6, GoesOnFacts
<1>8. TypeOK'
  <2>1. gone' \subseteq Msgs
    BY <1>1 DEF TypeOK
  <2> QED BY <1>1, <1>5, <1>7, <2>1, TypeKept
<1>9. \A r \in job'[j].moved :
        /\ r.from # r.to
        /\ r.duid # 0 => Names(box'[r.to], r.dval, r.duid, {r.msg})
  BY <1>4, <1>5, <1>7
<1> QED BY <1>1, <1>2, <1>5, <1>7, <1>8, <1>9, GoKeeps

LEMMA CopyStep ==
    ASSUME Inv, NEW j \in Jobs, CopyOnServer(j)
    PROVE  Inv'
<1> DEFINE f == job[j].from
           t == job[j].to
<1>1. /\ TypeOK /\ Running(j, {"move", "batch", "undo"}, "move") /\ HasRoom(j)
      /\ UNCHANGED <<server, cache, lastMoved, gone, fails, begun>>
      /\ box' = [box EXCEPT ![t] = Appended(@, box[f], Present(j))]
  BY DEF Inv, CopyOnServer
<1>2. ~ Idle(j) /\ f \in Folders /\ t \in Folders
  BY <1>1, MovingFacts
<1>3. job[j].took \in SUBSET Msgs
  BY <1>1, CommandFields
<1>4. /\ Results(j) \in SUBSET Records
      /\ \A r \in Results(j) :
           /\ r.from # r.to /\ r.to = t
           /\ r.duid # 0 => Names(Appended(box[t], box[f], Present(j)), r.dval, r.duid, {r.msg})
  BY <1>1, ResultFacts
<1>5. /\ box' \in [Folders -> Boxes] /\ BoxSteps /\ ValsKept /\ LiveBelowNext'
      /\ box'[t] = Appended(box[t], box[f], Present(j))
  BY <1>1, CopyFacts
<1> DEFINE X == [job[j] EXCEPT !.pc = "copied", !.moved = Results(j)]
<1>6. job' = [job EXCEPT ![j] = X]
  BY DEF CopyOnServer
<1>7. /\ job' \in [Jobs -> Commands]
      /\ job'[j].pc = "copied" /\ job'[j].moved = Results(j)
      /\ job'[j].kind = job[j].kind /\ job'[j].from = job[j].from /\ job'[j].to = job[j].to
      /\ job'[j].uids = job[j].uids /\ job'[j].want = job[j].want
      /\ job'[j].val = job[j].val /\ job'[j].msgs = job[j].msgs
      /\ \A i \in Jobs : i # j => job'[i] = job[i]
  BY <1>1, <1>3, <1>4, <1>6, GoesOnFacts
<1>8. TypeOK'
  <2>1. gone' \subseteq Msgs
    BY <1>1 DEF TypeOK
  <2> QED BY <1>1, <1>5, <1>7, <2>1, TypeKept
<1>9. \A r \in job'[j].moved :
        /\ r.from # r.to
        /\ r.duid # 0 => Names(box'[r.to], r.dval, r.duid, {r.msg})
  BY <1>4, <1>5, <1>7
<1>10. job[j].pc = "move"
  BY <1>1 DEF Running
<1> QED BY <1>1, <1>2, <1>5, <1>7, <1>8, <1>9, <1>10, GoKeeps

\* What UID EXPUNGE does to the folder.
LEMMA ExpungeFacts ==
    ASSUME Inv, NEW j \in Jobs, ~ Idle(j), NEW S, S \subseteq Present(j), Expunges(j, S)
    PROVE  /\ job[j].from \in Folders
           /\ box' \in [Folders -> Boxes] /\ BoxSteps /\ ValsKept /\ LiveBelowNext'
           /\ gone' \subseteq Msgs
           /\ MsgsAt(box[job[j].from].at, S) \in SUBSET Msgs
<1> DEFINE f == job[j].from
           c == Without(box[f], S)
<1>1. TypeOK /\ LiveBelowNext /\ f \in Folders
  BY DEF Inv, JobsSound, Sound
<1>2. box[f] \in Boxes /\ LiveBelow(box[f])
  BY <1>1 DEF TypeOK, LiveBelowNext
<1>3. c \in Boxes /\ c.val = box[f].val /\ Follows(box[f], c) /\ LiveBelow(c)
  BY <1>2, WithoutFollows
<1>4. S \subseteq Live(box[f].at)
  BY DEF Present
<1>5. MsgsAt(box[f].at, S) \in SUBSET Msgs
  BY <1>1, <1>4, TookType
<1>6. gone' \subseteq Msgs
  BY <1>1, <1>5 DEF Expunges, TypeOK
<1> HIDE DEF c
<1>7. box' = [box EXCEPT ![f] = c]
  BY DEF Expunges, c
<1>8. box' \in [Folders -> Boxes] /\ BoxSteps /\ ValsKept /\ LiveBelowNext'
  BY <1>1, <1>3, <1>7, OneBox
<1> QED BY <1>1, <1>5, <1>6, <1>8

LEMMA StoreFacts ==
    ASSUME Inv, NEW j \in Jobs, StoreDeleted(j)
    PROVE  /\ box' \in [Folders -> Boxes] /\ BoxSteps /\ ValsKept /\ LiveBelowNext'
           /\ \A f \in Folders : box'[f].at = box[f].at
<1> DEFINE f == job[j].from
           c == [box[f] EXCEPT !.del = @ \cup Present(j)]
<1>1. TypeOK /\ LiveBelowNext /\ ~ Idle(j)
  BY DEF Inv, StoreDeleted, Running, Idle
<1>2. f \in Folders
  BY <1>1 DEF Inv, JobsSound, Sound
<1>3. box[f] \in Boxes /\ LiveBelow(box[f]) /\ Present(j) \subseteq Uids
  BY <1>1, <1>2 DEF TypeOK, LiveBelowNext, Present, Live
<1>4. c \in Boxes /\ c.val = box[f].val /\ c.at = box[f].at /\ c.next = box[f].next
  BY <1>3 DEF Boxes
<1>5. Follows(box[f], c) /\ LiveBelow(c)
  BY <1>3, <1>4, BoxFields DEF Follows, LiveBelow
<1>6. box' = [box EXCEPT ![f] = c]
  BY DEF StoreDeleted
<1> HIDE DEF c
<1>7. /\ box' \in [Folders -> Boxes] /\ box'[f] = c /\ BoxSteps /\ ValsKept /\ LiveBelowNext'
      /\ \A g \in Folders : g # f => box'[g] = box[g]
  BY <1>1, <1>2, <1>4, <1>5, <1>6, OneBox
<1> QED BY <1>4, <1>7

LEMMA StoreStep ==
    ASSUME Inv, NEW j \in Jobs, StoreDeleted(j)
    PROVE  Inv'
<1> DEFINE X == [job[j] EXCEPT !.pc = "expunge"]
<1>1. /\ TypeOK /\ ~ Idle(j) /\ job[j].pc \in {"copied", "move"}
      /\ UNCHANGED <<server, cache, lastMoved, gone, fails, begun>>
      /\ job' = [job EXCEPT ![j] = X]
  BY DEF Inv, StoreDeleted, Running, Idle
<1>2. job[j].moved \in SUBSET Records /\ job[j].took \in SUBSET Msgs
  BY <1>1, CommandFields
<1> HIDE DEF X
<1>3. box' \in [Folders -> Boxes] /\ BoxSteps /\ ValsKept /\ LiveBelowNext'
  BY StoreFacts
<1>4. /\ job' \in [Jobs -> Commands]
      /\ job'[j].pc = "expunge" /\ job'[j].moved = job[j].moved
      /\ job'[j].kind = job[j].kind /\ job'[j].from = job[j].from /\ job'[j].to = job[j].to
      /\ job'[j].uids = job[j].uids /\ job'[j].want = job[j].want
      /\ job'[j].val = job[j].val /\ job'[j].msgs = job[j].msgs
      /\ \A i \in Jobs : i # j => job'[i] = job[i]
  BY <1>1, <1>2, GoesOnFacts DEF X
<1>5. TypeOK'
  <2>1. gone' \subseteq Msgs
    BY <1>1 DEF TypeOK
  <2> QED BY <1>1, <1>3, <1>4, <2>1, TypeKept
<1> QED BY <1>1, <1>3, <1>4, <1>5, GoKeeps

LEMMA ExpungeStep ==
    ASSUME Inv, NEW j \in Jobs, UIDExpunge(j)
    PROVE  Inv'
<1> DEFINE f == job[j].from
           S == Present(j) \cap box[f].del
           took == MsgsAt(box[f].at, S)
           X == [job[j] EXCEPT !.pc = "drop", !.took = took]
<1>1. /\ TypeOK /\ ~ Idle(j) /\ job[j].pc = "expunge" /\ Expunges(j, S)
      /\ UNCHANGED <<server, cache, lastMoved, fails, begun>>
      /\ job' = [job EXCEPT ![j] = X]
  BY DEF Inv, UIDExpunge, Running, Idle
<1>2. /\ box' \in [Folders -> Boxes] /\ BoxSteps /\ ValsKept /\ LiveBelowNext'
      /\ gone' \subseteq Msgs /\ took \in SUBSET Msgs /\ job[j].moved \in SUBSET Records
  BY <1>1, ExpungeFacts, CommandFields
<1> HIDE DEF took, S
<1>3. /\ job' \in [Jobs -> Commands]
      /\ job'[j].pc = "drop" /\ job'[j].moved = job[j].moved
      /\ job'[j].kind = job[j].kind /\ job'[j].from = job[j].from /\ job'[j].to = job[j].to
      /\ job'[j].uids = job[j].uids /\ job'[j].want = job[j].want
      /\ job'[j].val = job[j].val /\ job'[j].msgs = job[j].msgs
      /\ \A i \in Jobs : i # j => job'[i] = job[i]
  BY <1>1, <1>2, GoesOnFacts
<1>4. TypeOK'
  BY <1>1, <1>2, <1>3, TypeKept
<1> QED BY <1>1, <1>2, <1>3, <1>4, GoKeeps

LEMMA LostStep ==
    ASSUME Inv, NEW j \in Jobs, AnswerLost(j)
    PROVE  Inv'
<1>1. TypeOK /\ Errs(j) /\ UNCHANGED <<server, cache, lastMoved, begun>>
  BY DEF Inv, AnswerLost
<1>2. fails' \in 0..MaxFail
  BY <1>1, MoveUndoAssumption DEF AnswerLost, TypeOK
<1>3. /\ job' \in [Jobs -> Commands]
      /\ Idle(j)' /\ Sound(j)' /\ job'[j].moved = {}
      /\ \A i \in Jobs : i # j => job'[i] = job[i]
  BY <1>1, Ended DEF Errs
<1>4. /\ box' \in [Folders -> Boxes] /\ BoxSteps /\ ValsKept /\ LiveBelowNext'
      /\ gone' \subseteq Msgs
  <2>1. CASE Running(j, {"move", "batch", "undo"}, "move") /\ HasRoom(j) /\ Moves(j) /\ gone' = gone
    BY <1>1, <2>1, MovesFacts DEF TypeOK
  <2>2. CASE /\ Running(j, {"move", "purge", "batch", "undo"}, "expunge")
             /\ Expunges(j, Present(j) \cap box[job[j].from].del)
    <3>1. ~ Idle(j) /\ Present(j) \cap box[job[j].from].del \subseteq Present(j)
      BY <2>2 DEF Running, Idle
    <3> QED BY <2>2, <3>1, ExpungeFacts
  <2> QED BY <2>1, <2>2 DEF AnswerLost
<1>5. TypeOK'
  BY <1>1, <1>2, <1>3, <1>4 DEF TypeOK
<1> QED BY <1>1, <1>3, <1>4, <1>5, EndKeeps DEF Remembered

LEMMA RenumberStep ==
    ASSUME Inv, NEW f \in Folders, Renumber(f)
    PROVE  Inv'
<1> DEFINE n == Cardinality(Live(box[f].at))
           cut(i) == job[i].from = f /\ job[i].pc \in {"move", "copied", "expunge"}
           N(i) == [NoJob EXCEPT !.kind = job[i].kind, !.pc = "done", !.err = TRUE]
<1>1. /\ TypeOK /\ JobsSound /\ LiveBelowNext /\ box[f].val < MaxValidity
      /\ UNCHANGED <<server, cache, lastMoved, gone, fails, begun>>
      /\ job' = [i \in Jobs |-> IF cut(i) THEN N(i) ELSE job[i]]
  BY DEF Inv, Renumber
<1>2. box[f] \in Boxes /\ n \in 0..MaxUid
  BY <1>1, UidsFinite DEF TypeOK, Live
<1>3. PICK p \in [Uids -> Uids \cup {0}] :
         /\ \A u \in Uids : (p[u] = 0) = (u > n)
         /\ box' = [box EXCEPT ![f] =
                      [val |-> @.val + 1, next |-> n + 1,
                       at |-> [u \in Uids |-> IF u > n THEN None ELSE @.at[p[u]]],
                       del |-> {u \in 1..n : p[u] \in @.del}]]
  BY DEF Renumber
<1> DEFINE at == [u \in Uids |-> IF u > n THEN None ELSE box[f].at[p[u]]]
           del == {u \in 1..n : p[u] \in box[f].del}
           c == [val |-> box[f].val + 1, next |-> n + 1, at |-> at, del |-> del]
<1>4. box[f].val + 1 \in 1..MaxValidity /\ n + 1 \in 1..MaxUid + 1 /\ box[f].val \in Nat /\ n \in Nat
  <2> HIDE DEF n
  <2>1. n + 1 \in 1..MaxUid + 1 /\ n \in Nat
    BY <1>2, MoveUndoAssumption
  <2>2. box[f].val \in Nat /\ box[f].val + 1 \in 1..MaxValidity
    <3>1. box[f].val < MaxValidity
      BY <1>1
    <3>2. box[f].val \in 1..MaxValidity /\ box[f].val \in Nat
      BY <1>2, BoxFields
    <3> QED BY <3>1, <3>2, MoveUndoAssumption
  <2> QED BY <2>1, <2>2
<1> HIDE DEF n
<1>5. at \in Rows
  <2> SUFFICES ASSUME NEW u \in Uids, ~ (u > n) PROVE box[f].at[p[u]] \in Msgs \cup {None}
    BY DEF Rows
  <2>1. p[u] \in Uids
    BY <1>3
  <2> QED BY <2>1, <1>2, BoxFields DEF Rows
<1>6. del \subseteq Uids
  BY <1>2, MoveUndoAssumption DEF Uids
<1>7. c \in Boxes /\ c.val = box[f].val + 1 /\ c.next = n + 1 /\ c.at = at
  BY <1>4, <1>5, <1>6 DEF Boxes
<1>8. LiveBelow(c)
  BY <1>4, <1>7 DEF LiveBelow, Uids
<1>9. Follows(box[f], c)
  BY <1>4, <1>7 DEF Follows
<1>10. box' = [box EXCEPT ![f] = c]
  BY <1>3
<1> HIDE DEF c
<1>11. /\ box' \in [Folders -> Boxes] /\ box'[f] = c
       /\ \A g \in Folders : g # f => box'[g] = box[g]
  BY <1>1, <1>7, <1>10 DEF TypeOK
<1>12. BoxSteps /\ LiveBelowNext'
  <2>1. \A g \in Folders : Follows(box[g], box[g])
    <3> SUFFICES ASSUME NEW g \in Folders PROVE Follows(box[g], box[g])
      OBVIOUS
    <3>1. box[g].val \in Nat /\ box[g].next \in Nat
      BY <1>1, BoxFields DEF TypeOK
    <3> QED BY <3>1 DEF Follows
  <2> QED BY <1>1, <1>8, <1>9, <1>11, <2>1 DEF BoxSteps, LiveBelowNext
<1>13. \A i \in Jobs : N(i) \in Commands /\ N(i).pc = "done" /\ N(i).uids = {} /\ N(i).moved = {}
  <2> SUFFICES ASSUME NEW i \in Jobs
               PROVE  N(i) \in Commands /\ N(i).pc = "done" /\ N(i).uids = {} /\ N(i).moved = {}
    OBVIOUS
  <2>1. job[i] \in Commands
    BY <1>1, CommandFields
  <2> QED BY <2>1, NoJobType DEF Commands, NoJob
<1> HIDE DEF N
<1>14. job' \in [Jobs -> Commands]
  BY <1>1, <1>13 DEF TypeOK
<1>15. TypeOK'
  BY <1>1, <1>11, <1>14 DEF TypeOK
<1>16. \A i \in Jobs : Sound(i)'
  <2> SUFFICES ASSUME NEW i \in Jobs PROVE Sound(i)'
    OBVIOUS
  <2>1. CASE cut(i)
    BY <2>1, <1>1, <1>13 DEF Sound, Idle
  <2>2. CASE ~ cut(i)
    <3>1. Sound(i) /\ job'[i] = job[i]
      BY <2>2, <1>1 DEF JobsSound
    <3> QED BY <2>2, <3>1, <1>11 DEF Sound, Idle
  <2> QED BY <2>1, <2>2
<1>17. \A i \in Jobs : Idle(i)' \/ (~ Idle(i) /\ job'[i] = job[i])
  BY <1>1, <1>13 DEF Idle
<1>18. Remembered' \subseteq Remembered
  <2>1. ASSUME NEW i \in Jobs PROVE job'[i].moved \subseteq job[i].moved
    <3>1. job'[i] = N(i) \/ job'[i] = job[i]
      BY <1>1
    <3> QED BY <3>1, <1>13
  <2> QED BY <1>1, <2>1 DEF Remembered
<1> QED BY <1>1, <1>12, <1>15, <1>16, <1>17, <1>18, StepKeeps

-----------------------------------------------------------------------------
(* The theorems. *)

LEMMA InitInv ==
    ASSUME Init
    PROVE  Inv
<1> DEFINE k == Cardinality(Msgs)
           E == [val |-> 1, next |-> 1, at |-> [u \in Uids |-> None], del |-> {}]
           I(q) == [val |-> 1, next |-> 1 + Cardinality(Live(q)), at |-> q, del |-> Flagged \cap Live(q)]
<1>1. PICK q \in [Uids -> Msgs \cup {None}] :
        /\ Live(q) = 1..k
        /\ box = [f \in Folders |-> IF f = Inbox THEN I(q) ELSE E]
  BY DEF Init
<1>2. k \in Nat /\ Live(q) \subseteq Uids
  BY MoveUndoAssumption, FS_CardinalityType DEF Live
<1>3. Cardinality(Live(q)) = k /\ k \in 0..MaxUid
  <2>1. Cardinality(1..k) = IF 1 > k THEN 0 ELSE k - 1 + 1
    BY <1>2, FS_Interval
  <2>2. Cardinality(Live(q)) \in 0..MaxUid
    BY <1>2, UidsFinite
  <2> QED BY <1>1, <1>2, <2>1, <2>2
<1>4. E \in Boxes /\ E.val = 1 /\ LiveBelow(E)
  BY MoveUndoAssumption DEF Boxes, Rows, LiveBelow
<1>5. I(q) \in Boxes /\ I(q).val = 1 /\ LiveBelow(I(q))
  <2>1. 1 + k \in 1..MaxUid + 1 /\ 1 \in 1..MaxValidity
    BY <1>2, <1>3, MoveUndoAssumption
  <2>2. I(q) \in Boxes
    BY <1>1, <1>2, <1>3, <2>1 DEF Boxes, Rows
  <2>3. \A u \in Uids : q[u] # None => u < 1 + k
    BY <1>1, <1>2 DEF Live
  <2> QED BY <1>3, <2>2, <2>3 DEF LiveBelow
<1> HIDE DEF E, I
<1>6. box \in [Folders -> Boxes] /\ \A f \in Folders : box[f].val = 1 /\ LiveBelow(box[f])
  BY <1>1, <1>4, <1>5
<1>7. cache = [f \in Folders |-> [val |-> 1, at |-> box[f].at]]
  BY DEF Init
<1>8. cache \in [Folders -> Caches]
      /\ \A f \in Folders : cache[f].val = 1 /\ cache[f].at = box[f].at
  <2> SUFFICES ASSUME NEW f \in Folders
               PROVE  [val |-> 1, at |-> box[f].at] \in Caches
    BY <1>7
  <2>1. box[f].at \in Rows
    BY <1>6, BoxFields
  <2> QED BY <2>1, MoveUndoAssumption DEF Caches
<1>9. job = [j \in Jobs |-> NoJob] /\ lastMoved = {} /\ gone = {} /\ fails = 0 /\ begun = 0
      /\ server \in Servers
  BY DEF Init
<1>10. NoJob.kind = "none" /\ NoJob.uids = {} /\ NoJob.moved = {}
  BY DEF NoJob
<1>11. TypeOK
  BY <1>6, <1>8, <1>9, NoJobType, MoveUndoAssumption DEF TypeOK
<1>12. \A j \in Jobs : Idle(j) /\ job[j].uids = {} /\ job[j].moved = {}
  BY <1>9, <1>10 DEF Idle
<1>13. Remembered = {}
  BY <1>9, <1>12 DEF Remembered
<1>14. JobsSound /\ JobsName /\ RecordsName
  BY <1>12, <1>13 DEF JobsSound, Sound, JobsName, RecordsName
<1>15. CacheNames
  BY <1>6, <1>8 DEF CacheNames, Names, LiveBelow
<1> QED BY <1>6, <1>11, <1>14, <1>15 DEF Inv, LiveBelowNext

LEMMA BeginsStep ==
    ASSUME Inv, NEW j \in Jobs, Begins(j)
    PROVE  Inv'
<1>1. ASSUME NEW f \in Folders, NEW t \in Folders, NEW u \in Uids, beginMove(j, f, t, u) PROVE Inv'
  <2>1. {u} \in SUBSET Uids /\ t \in Folders \ {f} /\ t \in Folders \cup {None}
    BY <1>1 DEF beginMove
  <2>2. "move" \in {"move", "purge", "batch"} /\ Begin(j, "move", f, t, {u})
    BY <1>1 DEF beginMove
  <2> QED BY <2>1, <2>2, BeginStep
<1>2. ASSUME NEW f \in Folders, NEW S \in SUBSET Uids, beginPurge(j, f, S) PROVE Inv'
  <2>1. None \in Folders \cup {None} /\ Begin(j, "purge", f, None, S)
    BY <1>2 DEF beginPurge
  <2>2. "purge" \in {"move", "purge", "batch"}
    OBVIOUS
  <2> QED BY <2>1, <2>2, BeginStep
<1>3. ASSUME NEW f \in Folders, NEW t \in Folders, NEW S \in SUBSET Uids, runOnMessages(j, f, t, S)
      PROVE  Inv'
  <2>1. t \in Folders \ {f} /\ t \in Folders \cup {None} /\ Begin(j, "batch", f, t, S)
    BY <1>3 DEF runOnMessages
  <2>2. "batch" \in {"move", "purge", "batch"}
    OBVIOUS
  <2> QED BY <2>1, <2>2, BeginStep
<1> QED BY <1>1, <1>2, <1>3, UndoStep DEF Begins

LEMMA NextInv ==
    ASSUME Inv, [Next]_vars
    PROVE  Inv'
<1>1. CASE UNCHANGED vars
  BY <1>1 DEF vars, Inv, TypeOK, JobsSound, Sound, Idle, Remembered, CacheNames, JobsName,
              RecordsName, LiveBelowNext
<1>2. ASSUME NEW f \in Folders, Renumber(f) \/ Sync(f) PROVE Inv'
  BY <1>2, RenumberStep, SyncStep
<1>3. ASSUME NEW j \in Jobs, Begins(j) PROVE Inv'
  BY <1>3, BeginsStep
<1>4. ASSUME NEW j \in Jobs, GoesOn(j) PROVE Inv'
  BY <1>4, SelectStep, MoveStep, CopyStep, StoreStep, ExpungeStep, FailSteps, DropStep, ResultSteps
     DEF GoesOn
<1>5. ASSUME NEW j \in Jobs, Breaks(j) PROVE Inv'
  BY <1>5, LostStep, DropFailsStep, FailSteps DEF Breaks
<1> QED BY <1>1, <1>2, <1>3, <1>4, <1>5 DEF Next

\* Everything keeps its type.
THEOREM MoveTypeCorrect == Spec => []TypeOK
<1>1. Inv => TypeOK
  BY DEF Inv
<1> QED BY <1>1, InitInv, NextInv, PTL DEF Spec

-----------------------------------------------------------------------------
(* What a command takes. *)

\* What goes from a folder in a step of a command at work there was asked for by
\* UID, and the command is past its SELECT.
LEMMA StepTakesAsked ==
    ASSUME Inv, NEW i \in Jobs, Begins(i) \/ GoesOn(i) \/ Breaks(i),
           NEW j \in Jobs, job[j].from \in Folders, job'[j] # job[j],
           NEW u \in Uids, box[job[j].from].at[u] # None, box'[job[j].from].at[u] = None
    PROVE  ~ Idle(j) /\ job[j].pc \in {"move", "expunge"} /\ u \in job[j].uids
<1> DEFINE f == job[j].from
<1>1. TypeOK /\ \A g \in Folders : box[g] \in Boxes
  BY DEF Inv, TypeOK
<1>2. box' # box
  OBVIOUS
<1>3. \A X : job' = [job EXCEPT ![i] = X] => i = j
  BY <1>1 DEF TypeOK
<1>4. CASE MoveOnServer(i) \/ (AnswerLost(i) /\ Running(i, {"move", "batch", "undo"}, "move"))
  <2>1. i = j
    BY <1>3, <1>4 DEF MoveOnServer, AnswerLost, Errs, Ends
  <2>2. Running(j, {"move", "batch", "undo"}, "move") /\ HasRoom(j) /\ Moves(j)
    BY <2>1, <1>4 DEF MoveOnServer, AnswerLost, Running
  <2>3. box'[f] = Without(box[f], Present(j))
    BY <2>2, MovesFacts
  <2>4. u \in Present(j)
    BY <2>3, <1>1, WithoutFacts
  <2> QED BY <2>2, <2>4 DEF Running, Idle, Present
<1>5. CASE UIDExpunge(i) \/ (AnswerLost(i) /\ Running(i, {"move", "purge", "batch", "undo"}, "expunge"))
  <2>1. i = j
    BY <1>3, <1>5 DEF UIDExpunge, AnswerLost, Errs, Ends
  <2>2. /\ Running(j, {"move", "purge", "batch", "undo"}, "expunge")
        /\ Expunges(j, Present(j) \cap box[f].del)
    BY <2>1, <1>5 DEF UIDExpunge, AnswerLost, Running
  <2>3. box'[f] = Without(box[f], Present(j) \cap box[f].del)
    BY <2>2, <1>1 DEF Expunges, TypeOK
  <2>4. u \in Present(j)
    BY <2>3, <1>1, WithoutFacts
  <2> QED BY <2>2, <2>4 DEF Running, Idle, Present
<1>6. CASE CopyOnServer(i)
  <2>1. i = j
    BY <1>3, <1>6 DEF CopyOnServer
  <2>2. /\ Running(j, {"move", "batch", "undo"}, "move")
        /\ box' = [box EXCEPT ![job[j].to] = Appended(@, box[f], Present(j))]
    BY <2>1, <1>6 DEF CopyOnServer
  <2>3. f # job[j].to
    BY <2>2, MovingFacts
  <2>4. box'[f] = box[f]
    BY <2>2, <2>3, <1>1 DEF TypeOK
  <2> QED BY <2>4
<1>7. CASE StoreDeleted(i)
  BY <1>7, StoreFacts
<1>8. CASE Begins(i)
  BY <1>2, <1>8 DEF Begins, Begin, beginMove, beginPurge, runOnMessages, undoCmd
<1>9. CASE SelectFolder(i) \/ Unsupported(i) \/ dropFromCache(i) \/ handleTriageResult(i)
           \/ reportMoved(i) \/ DropFails(i) \/ Fail(i)
  BY <1>2, <1>9 DEF SelectFolder, Unsupported, dropFromCache, handleTriageResult, reportMoved,
                    DropFails, Fail
<1>10. AnswerLost(i) => \/ Running(i, {"move", "batch", "undo"}, "move")
                        \/ Running(i, {"move", "purge", "batch", "undo"}, "expunge")
  BY DEF AnswerLost
<1> QED BY <1>4, <1>5, <1>6, <1>7, <1>8, <1>9, <1>10 DEF GoesOn, Breaks

LEMMA RenumberedVal ==
    ASSUME box \in [Folders -> Boxes], NEW g \in Folders, Renumber(g)
    PROVE  box'[g].val = box[g].val + 1
<1> DEFINE n == Cardinality(Live(box[g].at))
<1>1. PICK p \in [Uids -> Uids \cup {0}] :
         box' = [box EXCEPT ![g] =
                      [val |-> @.val + 1, next |-> n + 1,
                       at |-> [u \in Uids |-> IF u > n THEN None ELSE @.at[p[u]]],
                       del |-> {u \in 1..n : p[u] \in @.del}]]
  BY DEF Renumber
<1> QED BY <1>1

LEMMA RenumberedRest ==
    ASSUME box \in [Folders -> Boxes], NEW g \in Folders, Renumber(g), NEW f \in Folders, f # g
    PROVE  box'[f] = box[f]
<1> DEFINE n == Cardinality(Live(box[g].at))
<1>1. PICK p \in [Uids -> Uids \cup {0}] :
         box' = [box EXCEPT ![g] =
                      [val |-> @.val + 1, next |-> n + 1,
                       at |-> [u \in Uids |-> IF u > n THEN None ELSE @.at[p[u]]],
                       del |-> {u \in 1..n : p[u] \in @.del}]]
  BY DEF Renumber
<1> QED BY <1>1

LEMMA TakesAsked ==
    ASSUME Inv, [Next]_vars, NEW j \in Jobs, NEW m \in Taken(j)
    PROVE  /\ ~ Idle(j) /\ job[j].pc \in {"move", "expunge"}
           /\ \E u \in job[j].uids : m = box[job[j].from].at[u] /\ m # None
<1> DEFINE f == job[j].from
<1>1. f \in Folders /\ job'[j] # job[j] /\ m \in Going(f)
  BY DEF Taken
<1>2. box'[f].val = box[f].val
  BY <1>1 DEF Going
<1>3. PICK u \in Uids : m = box[f].at[u] /\ box[f].at[u] # None /\ box'[f].at[u] = None
  BY <1>1, <1>2 DEF Going, MsgsAt, Live
<1>4. ASSUME NEW g \in Folders, Renumber(g) PROVE FALSE
  <2>1. g # f
    <3>1. box[f].val \in Nat /\ box \in [Folders -> Boxes]
      BY <1>1, BoxFields DEF Inv, TypeOK
    <3>2. box'[g].val = box[g].val + 1
      BY <3>1, <1>4, RenumberedVal
    <3> QED BY <3>1, <3>2, <1>2
  <2>2. job'[j] = job[j]
    BY <2>1, <1>4 DEF Renumber
  <2> QED BY <2>2, <1>1
<1>5. ASSUME NEW g \in Folders, Sync(g) PROVE FALSE
  BY <1>1, <1>5 DEF Sync
<1>6. ASSUME UNCHANGED vars PROVE FALSE
  BY <1>1, <1>6 DEF vars
<1>7. PICK i \in Jobs : Begins(i) \/ GoesOn(i) \/ Breaks(i)
  BY <1>4, <1>5, <1>6 DEF Next
<1> QED BY <1>1, <1>3, <1>7, StepTakesAsked

\* A command takes no message but those the user pointed at.
THEOREM MoveTakesWhatWasPointedAt == Spec => TakesWhatWasPointedAt
<1> DEFINE A == \A j \in Jobs :
                  job[j].kind # "undo" /\ job[j].from \in Folders =>
                     (job[j].val = box[job[j].from].val => Taken(j) \subseteq job[j].msgs)
<1>1. ASSUME Inv, [Next]_vars PROVE A
  <2> SUFFICES ASSUME NEW j \in Jobs, job[j].val = box[job[j].from].val, NEW m \in Taken(j)
               PROVE  m \in job[j].msgs
    OBVIOUS
  <2>1. ~ Idle(j) /\ \E u \in job[j].uids : m = box[job[j].from].at[u] /\ m # None
    BY <1>1, TakesAsked
  <2> QED BY <1>1, <2>1 DEF Inv, JobsName, Names
<1>2. Inv /\ [Next]_vars => [A]_vars
  BY <1>1
<1> HIDE DEF A
<1>3. Spec => [][A]_vars
  BY <1>2, InitInv, NextInv, PTL DEF Spec
<1> QED BY <1>3 DEF A, TakesWhatWasPointedAt

\* An undo takes no message but the one that was moved.
THEOREM MoveUndoTakesItsOwn == Spec => UndoTakesItsOwn
<1> DEFINE A == \A j \in Jobs : job[j].kind = "undo" => Taken(j) \subseteq job[j].msgs
<1>1. ASSUME Inv, [Next]_vars PROVE A
  <2> SUFFICES ASSUME NEW j \in Jobs, job[j].kind = "undo", NEW m \in Taken(j)
               PROVE  m \in job[j].msgs
    OBVIOUS
  <2>1. /\ ~ Idle(j) /\ job[j].pc \in {"move", "expunge"}
        /\ \E u \in job[j].uids : m = box[job[j].from].at[u] /\ m # None
    BY <1>1, TakesAsked
  <2>2. job[j].want = job[j].val /\ job[j].val # 0
    BY <1>1, <2>1, CommandFields DEF Inv, JobsSound, Sound
  <2>3. job[j].val = box[job[j].from].val
    BY <1>1, <2>1, <2>2 DEF Inv, JobsSound, Sound
  <2> QED BY <1>1, <2>1, <2>3 DEF Inv, JobsName, Names
<1>2. Inv /\ [Next]_vars => [A]_vars
  BY <1>1
<1> HIDE DEF A
<1>3. Spec => [][A]_vars
  BY <1>2, InitInv, NextInv, PTL DEF Spec
<1> QED BY <1>3 DEF A, UndoTakesItsOwn

-----------------------------------------------------------------------------
(* No message is lost. *)

\* Job j has copied its messages, and the originals are still to go.
Dooms(j) == Running(j, {"move", "batch", "undo"}, "copied") \/ Running(j, {"move", "batch", "undo"}, "expunge")

\* ... and the message at UID u of folder f is one of them.
Doomed(f, u) == \E j \in Jobs : Dooms(j) /\ job[j].from = f /\ job[j].val = box[f].val /\ u \in job[j].uids

Safe(f, u) == box[f].at[u] # None /\ ~ Doomed(f, u)

\* Every message that is not gone has a copy that nobody is about to take.
SafeCopies == \A m \in Msgs \ gone : \E f \in Folders, u \in Uids : box[f].at[u] = m /\ Safe(f, u)

\* It is enough that each safe copy stays, has a successor or is gone.
LEMMA CopiesCarried ==
    ASSUME SafeCopies, gone \subseteq gone',
           \A f \in Folders, u \in Uids : Safe(f, u) =>
               \/ box[f].at[u] \in gone'
               \/ \E g \in Folders, v \in Uids : box'[g].at[v] = box[f].at[u] /\ Safe(g, v)'
    PROVE  SafeCopies'
<1> SUFFICES ASSUME NEW m \in Msgs \ gone'
             PROVE  \E g \in Folders, v \in Uids : box'[g].at[v] = m /\ Safe(g, v)'
  BY DEF SafeCopies
<1>1. PICK f \in Folders, u \in Uids : box[f].at[u] = m /\ Safe(f, u)
  BY DEF SafeCopies
<1> QED BY <1>1

\* No job begins to doom anything.
NoneDooms ==
    \A i \in Jobs : Dooms(i)' =>
        /\ Dooms(i) /\ job'[i].from = job[i].from /\ job'[i].val = job[i].val
        /\ job'[i].uids = job[i].uids

LEMMA StaysSafe ==
    ASSUME NoneDooms, NEW f \in Folders, box'[f].val = box[f].val,
           NEW u \in Uids, Safe(f, u), box'[f].at[u] = box[f].at[u]
    PROVE  Safe(f, u)'
BY DEF NoneDooms, Safe, Doomed

\* Steps that move nothing.
LEMMA QuietKeeps ==
    ASSUME SafeCopies, NoneDooms, gone' = gone,
           \A f \in Folders : box'[f].val = box[f].val /\ box'[f].at = box[f].at
    PROVE  SafeCopies'
<1>1. \A f \in Folders, u \in Uids : Safe(f, u) => box'[f].at[u] = box[f].at[u] /\ Safe(f, u)'
  BY StaysSafe
<1> QED BY <1>1, CopiesCarried

LEMMA OthersDoom ==
    ASSUME NEW j \in Jobs, ~ Dooms(j)', \A i \in Jobs : i # j => job'[i] = job[i]
    PROVE  NoneDooms
BY DEF NoneDooms, Dooms, Running

\* A new UID is doomed by no job that was there.
LEMMA NewNotDoomed ==
    ASSUME Inv, NEW t \in Folders, NEW u \in Uids, ~ (u < box[t].next)
    PROVE  ~ Doomed(t, u)
<1> SUFFICES ASSUME NEW i \in Jobs, Dooms(i), job[i].from = t, job[i].val = box[t].val, u \in job[i].uids
             PROVE  FALSE
  BY DEF Doomed
<1>1. ~ Idle(i)
  BY DEF Dooms, Running, Idle
<1>2. Names(box[t], job[i].val, u, job[i].msgs)
  BY <1>1 DEF Inv, JobsName
<1> QED BY <1>2 DEF Names

\* COPY and MOVE: what was there has a copy at a new UID.
LEMMA CopiedKeeps ==
    ASSUME Inv, SafeCopies, NEW j \in Jobs,
           Running(j, {"move", "batch", "undo"}, "move"), HasRoom(j),
           gone' = gone, ValsKept,
           box'[job[j].to] = Appended(box[job[j].to], box[job[j].from], Present(j)),
           \A g \in Folders : g # job[j].from /\ g # job[j].to => box'[g] = box[g],
           \A u \in Uids : u \notin Present(j) => box'[job[j].from].at[u] = box[job[j].from].at[u],
           \A i \in Jobs : i # j => job'[i] = job[i],
           Dooms(j)' => job'[j].from = job[j].from /\ job'[j].uids = job[j].uids
    PROVE  SafeCopies'
<1> DEFINE f == job[j].from
           t == job[j].to
           new(u) == box[t].next - 1 + Rank(u, Present(j))
<1>1. TypeOK /\ f \in Folders /\ t \in Folders /\ f # t
      /\ Present(j) \subseteq Live(box[f].at) /\ Present(j) \subseteq Uids
  BY MovingFacts DEF Inv
<1>2. box[f] \in Boxes /\ box[t] \in Boxes /\ box[t].next \in Nat
  BY <1>1, BoxFields DEF TypeOK
<1>3. /\ \A u \in Uids : u < box[t].next => box'[t].at[u] = box[t].at[u]
      /\ \A u \in Present(j) : new(u) \in Uids /\ new(u) >= box[t].next /\ box'[t].at[new(u)] = box[f].at[u]
  BY <1>1, <1>2, AppendedFacts DEF HasRoom
<1> HIDE DEF new
\* Nothing is doomed but what was, and the originals.
<1>4. ASSUME NEW g \in Folders, NEW v \in Uids, ~ Doomed(g, v), g = f => v \notin job[j].uids
      PROVE  ~ Doomed(g, v)'
  <2> SUFFICES ASSUME NEW i \in Jobs, Dooms(i)', job'[i].from = g, job'[i].val = box'[g].val,
                      v \in job'[i].uids
               PROVE  FALSE
    BY DEF Doomed
  <2>1. CASE i = j
    BY <2>1, <1>4
  <2>2. CASE i # j
    <3>1. job'[i] = job[i] /\ box'[g].val = box[g].val
      BY <2>2 DEF ValsKept
    <3>2. Dooms(i)
      BY <3>1 DEF Dooms, Running
    <3> QED BY <1>4, <3>1, <3>2 DEF Doomed
  <2> QED BY <2>1, <2>2
<1>5. ASSUME NEW u \in Present(j)
      PROVE  \E h \in Folders, w \in Uids : box'[h].at[w] = box[f].at[u] /\ Safe(h, w)'
  <2>1. PICK h \in Folders : h = t
    BY <1>1
  <2>2. PICK w \in Uids : w = new(u)
    BY <1>3
  <2>3. ~ (w < box[h].next) /\ box'[h].at[w] = box[f].at[u]
    BY <1>2, <1>3, <2>1, <2>2 DEF Uids
  <2>4. ~ Doomed(h, w)
    BY <2>3, NewNotDoomed
  <2>5. ~ Doomed(h, w)'
    BY <2>1, <2>4, <1>1, <1>4
  <2>6. box[f].at[u] # None
    BY <1>1 DEF Live
  <2>7. Safe(h, w)'
    BY <2>3, <2>5, <2>6 DEF Safe
  <2> QED BY <2>3, <2>7
<1>6. ASSUME NEW g \in Folders, NEW v \in Uids, Safe(g, v), ~ (g = f /\ v \in Present(j))
      PROVE  box'[g].at[v] = box[g].at[v] /\ Safe(g, v)'
  <2>1. box'[g].at[v] = box[g].at[v]
    <3>1. CASE g = f
      BY <3>1, <1>6
    <3>2. CASE g = t
      <4>1. v < box[t].next
        BY <3>2, <1>6 DEF Safe, Inv, LiveBelowNext, LiveBelow
      <4> QED BY <3>2, <4>1, <1>3
    <3>3. CASE g # f /\ g # t
      BY <3>3
    <3> QED BY <3>1, <3>2, <3>3
  <2>2. g = f => v \notin job[j].uids
    BY <1>6 DEF Safe, Present, Live
  <2>3. ~ Doomed(g, v)'
    BY <1>4, <1>6, <2>2 DEF Safe
  <2> QED BY <1>6, <2>1, <2>3 DEF Safe
<1>7. \A g \in Folders, v \in Uids : Safe(g, v) =>
        \E h \in Folders, w \in Uids : box'[h].at[w] = box[g].at[v] /\ Safe(h, w)'
  <2> SUFFICES ASSUME NEW g \in Folders, NEW v \in Uids, Safe(g, v)
               PROVE  \E h \in Folders, w \in Uids : box'[h].at[w] = box[g].at[v] /\ Safe(h, w)'
    OBVIOUS
  <2>1. CASE g = f /\ v \in Present(j)
    BY <2>1, <1>5
  <2>2. CASE ~ (g = f /\ v \in Present(j))
    BY <2>2, <1>6
  <2> QED BY <2>1, <2>2
<1> QED BY <1>7, CopiesCarried

\* UID EXPUNGE: what goes was doomed, or is gone.
LEMMA ExpungedKeeps ==
    ASSUME Inv, SafeCopies, NEW j \in Jobs, ~ Dooms(j)', ~ Idle(j),
           Running(j, {"move", "purge", "batch", "undo"}, "expunge"),
           Expunges(j, Present(j) \cap box[job[j].from].del),
           \A i \in Jobs : i # j => job'[i] = job[i]
    PROVE  SafeCopies'
<1> DEFINE f == job[j].from
           S == Present(j) \cap box[f].del
<1>1. TypeOK /\ f \in Folders /\ NoneDooms
  BY OthersDoom DEF Inv, JobsSound, Sound
<1>2. box[f] \in Boxes /\ box \in [Folders -> Boxes]
  BY <1>1 DEF TypeOK
<1>3. box' = [box EXCEPT ![f] = Without(@, S)]
      /\ gone' = IF Excused(j) THEN gone \cup MsgsAt(box[f].at, S) ELSE gone
  BY DEF Expunges
<1>4. box'[f] = Without(box[f], S) /\ \A g \in Folders : g # f => box'[g] = box[g]
  BY <1>1, <1>2, <1>3
<1>5. box'[f].val = box[f].val
      /\ \A u \in Uids : u \notin S => box'[f].at[u] = box[f].at[u]
  BY <1>2, <1>4, WithoutFacts
<1>6. ASSUME NEW g \in Folders, NEW u \in Uids, Safe(g, u), ~ (g = f /\ u \in S)
      PROVE  box'[g].at[u] = box[g].at[u] /\ Safe(g, u)'
  <2>1. box'[g].val = box[g].val /\ box'[g].at[u] = box[g].at[u]
    BY <1>4, <1>5, <1>6
  <2> QED BY <2>1, <1>1, <1>6, StaysSafe
<1>7. ASSUME NEW u \in Uids, Safe(f, u), u \in S PROVE box[f].at[u] \in gone'
  <2>1. CASE Excused(j)
    BY <2>1, <1>3, <1>7 DEF MsgsAt
  <2>2. CASE ~ Excused(j)
    <3>1. Dooms(j) /\ job[j].val = box[f].val
      BY <2>2 DEF Excused, Dooms, Running
    <3>2. Doomed(f, u)
      BY <3>1, <1>7 DEF Doomed, Present
    <3> QED BY <3>2, <1>7 DEF Safe
  <2> QED BY <2>1, <2>2
<1>8. gone \subseteq gone'
  BY <1>3
<1>9. \A g \in Folders, u \in Uids : Safe(g, u) =>
        \/ box[g].at[u] \in gone'
        \/ \E h \in Folders, v \in Uids : box'[h].at[v] = box[g].at[u] /\ Safe(h, v)'
  BY <1>6, <1>7
<1> QED BY <1>8, <1>9, CopiesCarried

\* A renumbering gives each message a new UID, and ends what was to go.
LEMMA RenumberedKeeps ==
    ASSUME Inv, SafeCopies, NEW f \in Folders, Renumber(f)
    PROVE  SafeCopies'
<1> DEFINE n == Cardinality(Live(box[f].at))
           cut(i) == job[i].from = f /\ job[i].pc \in {"move", "copied", "expunge"}
           N(i) == [NoJob EXCEPT !.kind = job[i].kind, !.pc = "done", !.err = TRUE]
<1>1. /\ TypeOK /\ gone' = gone /\ job' = [i \in Jobs |-> IF cut(i) THEN N(i) ELSE job[i]]
  BY DEF Inv, Renumber
<1>2. PICK p \in [Uids -> Uids \cup {0}] :
         /\ {p[u] : u \in 1..n} = Live(box[f].at)
         /\ box' = [box EXCEPT ![f] =
                      [val |-> @.val + 1, next |-> n + 1,
                       at |-> [u \in Uids |-> IF u > n THEN None ELSE @.at[p[u]]],
                       del |-> {u \in 1..n : p[u] \in @.del}]]
  BY DEF Renumber
<1>3. n \in Nat /\ 1..n \subseteq Uids
  <2>1. n \in 0..MaxUid
    BY UidsFinite DEF Live
  <2> QED BY <2>1, MoveUndoAssumption DEF Uids
<1>4. /\ box'[f].at = [u \in Uids |-> IF u > n THEN None ELSE box[f].at[p[u]]]
      /\ \A g \in Folders : g # f => box'[g] = box[g]
  BY <1>1, <1>2 DEF TypeOK
<1> HIDE DEF n
<1>5. \A i \in Jobs : N(i).pc = "done"
  BY DEF NoJob
<1>6. \A i \in Jobs : Dooms(i)' => job'[i] = job[i] /\ Dooms(i) /\ job[i].from # f
  <2> SUFFICES ASSUME NEW i \in Jobs, Dooms(i)' PROVE job'[i] = job[i] /\ Dooms(i) /\ job[i].from # f
    OBVIOUS
  <2>1. job'[i].pc \in {"copied", "expunge"}
    BY DEF Dooms, Running
  <2>2. ~ cut(i)
    BY <2>1, <1>1, <1>5
  <2>3. job'[i] = job[i]
    BY <2>2, <1>1
  <2> QED BY <2>1, <2>2, <2>3 DEF Dooms, Running
<1>7. ASSUME NEW g \in Folders, NEW u \in Uids, Safe(g, u), g # f
      PROVE  box'[g].at[u] = box[g].at[u] /\ Safe(g, u)'
  BY <1>4, <1>6, <1>7 DEF Safe, Doomed
<1>8. ASSUME NEW u \in Uids, Safe(f, u)
      PROVE  \E v \in Uids : box'[f].at[v] = box[f].at[u] /\ Safe(f, v)'
  <2>1. PICK v \in 1..n : p[v] = u
    BY <1>2, <1>8 DEF Safe, Live
  <2>2. v \in Uids /\ ~ (v > n)
    BY <1>3
  <2>3. box'[f].at[v] = box[f].at[u]
    BY <2>1, <2>2, <1>4
  <2>4. ~ Doomed(f, v)'
    BY <1>6 DEF Doomed
  <2>5. Safe(f, v)'
    BY <2>3, <2>4, <1>8 DEF Safe
  <2> QED BY <2>2, <2>3, <2>5
<1>9. \A g \in Folders, u \in Uids : Safe(g, u) =>
        \/ box[g].at[u] \in gone'
        \/ \E h \in Folders, v \in Uids : box'[h].at[v] = box[g].at[u] /\ Safe(h, v)'
  BY <1>7, <1>8
<1> QED BY <1>1, <1>9, CopiesCarried

LEMMA InitCopies ==
    ASSUME Init
    PROVE  SafeCopies
<1>1. PICK q \in [Uids -> Msgs \cup {None}] :
        MsgsAt(q, Live(q)) = Msgs /\ box[Inbox].at = q
  BY MoveUndoAssumption DEF Init
<1>2. \A j \in Jobs : ~ Dooms(j)
  BY DEF Init, NoJob, Dooms, Running
<1>3. \A m \in Msgs : \E u \in Uids : box[Inbox].at[u] = m /\ m # None
  BY <1>1, MoveUndoAssumption DEF MsgsAt, Live
<1> QED BY <1>2, <1>3, MoveUndoAssumption DEF SafeCopies, Safe, Doomed

LEMMA JobKeepsCopies ==
    ASSUME Inv, SafeCopies, NEW j \in Jobs, Begins(j) \/ GoesOn(j) \/ Breaks(j)
    PROVE  SafeCopies'
<1>1. TypeOK
  BY DEF Inv
<1>2. \A X : job' = [job EXCEPT ![j] = X] => job'[j] = X /\ \A i \in Jobs : i # j => job'[i] = job[i]
  BY <1>1 DEF TypeOK
<1>3. ASSUME box' = box, gone' = gone, ~ Dooms(j)', \A i \in Jobs : i # j => job'[i] = job[i]
      PROVE  SafeCopies'
  BY <1>3, OthersDoom, QuietKeeps
<1>4. CASE Begins(j)
  <2>1. box' = box /\ gone' = gone
    BY <1>4 DEF Begins, Begin, beginMove, beginPurge, runOnMessages, undoCmd
  <2>2. PICK X : job' = [job EXCEPT ![j] = X] /\ X.pc \in {"select", "done"}
    <3>1. ASSUME NEW kind, NEW f, NEW t, NEW S, Begin(j, kind, f, t, S)
          PROVE  \E X : job' = [job EXCEPT ![j] = X] /\ X.pc \in {"select", "done"}
      <4> DEFINE X == [NoJob EXCEPT !.kind = kind, !.from = f, !.to = t, !.uids = S,
                                    !.msgs = MsgsAt(cache[f].at, S), !.val = cache[f].val]
      <4>1. X.pc = "select"
        BY DEF NoJob
      <4> HIDE DEF X
      <4>2. job' = [job EXCEPT ![j] = X]
        BY <3>1 DEF Begin, X
      <4> QED BY <4>1, <4>2
    <3>2. ASSUME undoCmd(j)
          PROVE  \E X : job' = [job EXCEPT ![j] = X] /\ X.pc \in {"select", "done"}
      <4>1. PICK r \in lastMoved : job' = [job EXCEPT ![j] =
                IF r.duid = 0 THEN [NoJob EXCEPT !.kind = "undo", !.pc = "done", !.err = TRUE]
                ELSE [NoJob EXCEPT !.kind = "undo", !.from = r.to, !.to = r.from, !.uids = {r.duid},
                                   !.want = r.dval, !.msgs = {r.msg}, !.val = r.dval]]
        BY <3>2 DEF undoCmd
      <4> DEFINE X == IF r.duid = 0 THEN [NoJob EXCEPT !.kind = "undo", !.pc = "done", !.err = TRUE]
                ELSE [NoJob EXCEPT !.kind = "undo", !.from = r.to, !.to = r.from, !.uids = {r.duid},
                                   !.want = r.dval, !.msgs = {r.msg}, !.val = r.dval]
      <4>2. X.pc \in {"select", "done"}
        BY DEF NoJob
      <4> HIDE DEF X
      <4>3. job' = [job EXCEPT ![j] = X]
        BY <4>1 DEF X
      <4> QED BY <4>2, <4>3
    <3> QED BY <1>4, <3>1, <3>2 DEF Begins, beginMove, beginPurge, runOnMessages
  <2>3. ~ Dooms(j)'
    BY <2>2, <1>2 DEF Dooms, Running
  <2> QED BY <2>1, <2>2, <2>3, <1>2, <1>3
<1>5. CASE SelectFolder(j) /\ job[j].want \in {0, box[job[j].from].val}
  <2> DEFINE X == [job[j] EXCEPT !.pc = "move"]
  <2>1. X.pc = "move"
    BY <1>1, CommandFields DEF Commands
  <2> HIDE DEF X
  <2>2. job' = [job EXCEPT ![j] = X] /\ box' = box /\ gone' = gone
    BY <1>5 DEF SelectFolder, X
  <2>3. ~ Dooms(j)' /\ \A i \in Jobs : i # j => job'[i] = job[i]
    BY <2>1, <2>2, <1>2 DEF Dooms, Running
  <2> QED BY <2>2, <2>3, <1>3
<1>6. ASSUME NEW err, NEW moved, Ends(j, err, moved)
      PROVE  ~ Dooms(j)' /\ ~ (job'[j].pc # "done") /\ \A i \in Jobs : i # j => job'[i] = job[i]
  <2> DEFINE X == [NoJob EXCEPT !.kind = job[j].kind, !.pc = "done", !.err = err, !.moved = moved]
  <2>1. X.pc = "done"
    BY DEF NoJob
  <2> HIDE DEF X
  <2>2. job' = [job EXCEPT ![j] = X]
    BY <1>6 DEF Ends, X
  <2> QED BY <2>1, <2>2, <1>2 DEF Dooms, Running
<1>7. CASE \/ SelectFolder(j) /\ job[j].want \notin {0, box[job[j].from].val}
           \/ Unsupported(j) \/ dropFromCache(j) \/ DropFails(j) \/ Fail(j)
  <2>1. box' = box /\ gone' = gone /\ \E err, moved : Ends(j, err, moved)
    BY <1>7 DEF SelectFolder, Unsupported, dropFromCache, DropFails, Fail, Errs
  <2> QED BY <2>1, <1>3, <1>6
<1>8. CASE handleTriageResult(j) \/ reportMoved(j)
  <2>1. box' = box /\ gone' = gone /\ job' = [job EXCEPT ![j] = NoJob]
    BY <1>8 DEF handleTriageResult, reportMoved
  <2>2. NoJob.kind = "none"
    BY DEF NoJob
  <2>3. ~ Dooms(j)'
    BY <2>1, <2>2, <1>2 DEF Dooms, Running
  <2> QED BY <2>1, <2>3, <1>2, <1>3
<1>9. CASE StoreDeleted(j)
  <2> DEFINE X == [job[j] EXCEPT !.pc = "expunge"]
  <2>1. X.kind = job[j].kind /\ X.from = job[j].from /\ X.val = job[j].val /\ X.uids = job[j].uids
    BY <1>1, CommandFields DEF Commands
  <2> HIDE DEF X
  <2>2. job' = [job EXCEPT ![j] = X] /\ gone' = gone
    BY <1>9 DEF StoreDeleted, X
  <2>3. NoneDooms
    BY <2>1, <2>2, <1>2, <1>9 DEF NoneDooms, Dooms, Running, StoreDeleted
  <2>4. \A f \in Folders : box'[f].val = box[f].val /\ box'[f].at = box[f].at
    BY <1>9, StoreFacts DEF ValsKept
  <2> QED BY <2>2, <2>3, <2>4, QuietKeeps
<1>10. CASE CopyOnServer(j)
  <2>1. /\ Running(j, {"move", "batch", "undo"}, "move") /\ HasRoom(j) /\ gone' = gone
        /\ box' = [box EXCEPT ![job[j].to] = Appended(@, box[job[j].from], Present(j))]
    BY <1>10 DEF CopyOnServer
  <2>2. /\ ValsKept /\ job[j].from # job[j].to /\ job[j].from \in Folders
        /\ box'[job[j].to] = Appended(box[job[j].to], box[job[j].from], Present(j))
        /\ \A g \in Folders : g # job[j].to => box'[g] = box[g]
    BY <2>1, CopyFacts, MovingFacts
  <2> DEFINE X == [job[j] EXCEPT !.pc = "copied", !.moved = Results(j)]
  <2>3. X.from = job[j].from /\ X.uids = job[j].uids
    BY <1>1, CommandFields DEF Commands
  <2> HIDE DEF X
  <2>4. job' = [job EXCEPT ![j] = X]
    BY <1>10 DEF CopyOnServer, X
  <2>5. /\ job'[j].from = job[j].from /\ job'[j].uids = job[j].uids
        /\ \A i \in Jobs : i # j => job'[i] = job[i]
    BY <2>3, <2>4, <1>2
  <2> QED BY <2>1, <2>2, <2>5, CopiedKeeps
<1>11. ASSUME Running(j, {"move", "batch", "undo"}, "move"), HasRoom(j), Moves(j), gone' = gone,
              ~ Dooms(j)', \A i \in Jobs : i # j => job'[i] = job[i]
       PROVE  SafeCopies'
  <2>1. /\ ValsKept /\ job[j].from \in Folders
        /\ box'[job[j].from] = Without(box[job[j].from], Present(j))
        /\ box'[job[j].to] = Appended(box[job[j].to], box[job[j].from], Present(j))
        /\ \A g \in Folders : g # job[j].from /\ g # job[j].to => box'[g] = box[g]
    BY <1>11, MovesFacts, MovingFacts
  <2>2. box[job[j].from] \in Boxes
    BY <2>1, <1>1 DEF TypeOK
  <2>3. \A u \in Uids : u \notin Present(j) => box'[job[j].from].at[u] = box[job[j].from].at[u]
    BY <2>1, <2>2, WithoutFacts
  <2> QED BY <1>11, <2>1, <2>3, CopiedKeeps
<1>12. CASE MoveOnServer(j)
  <2> DEFINE X == [job[j] EXCEPT !.pc = "drop", !.moved = Results(j),
                                 !.took = MsgsAt(box[job[j].from].at, Present(j))]
  <2>1. X.pc = "drop"
    BY <1>1, CommandFields DEF Commands
  <2> HIDE DEF X
  <2>2. job' = [job EXCEPT ![j] = X]
    BY <1>12 DEF MoveOnServer, X
  <2>3. ~ Dooms(j)' /\ \A i \in Jobs : i # j => job'[i] = job[i]
    BY <2>1, <2>2, <1>2 DEF Dooms, Running
  <2> QED BY <2>3, <1>11, <1>12 DEF MoveOnServer
<1>13. CASE UIDExpunge(j)
  <2> DEFINE S == Present(j) \cap box[job[j].from].del
             X == [job[j] EXCEPT !.pc = "drop", !.took = MsgsAt(box[job[j].from].at, S)]
  <2>1. X.pc = "drop"
    BY <1>1, CommandFields DEF Commands
  <2> HIDE DEF X
  <2>2. job' = [job EXCEPT ![j] = X]
    BY <1>13 DEF UIDExpunge, X
  <2>3. ~ Dooms(j)' /\ \A i \in Jobs : i # j => job'[i] = job[i]
    BY <2>1, <2>2, <1>2 DEF Dooms, Running
  <2>4. ~ Idle(j) /\ Running(j, {"move", "purge", "batch", "undo"}, "expunge") /\ Expunges(j, S)
    BY <1>13 DEF UIDExpunge, Running, Idle
  <2> QED BY <2>3, <2>4, ExpungedKeeps
<1>14. CASE AnswerLost(j)
  <2>1. ~ Dooms(j)' /\ \A i \in Jobs : i # j => job'[i] = job[i]
    BY <1>6, <1>14 DEF AnswerLost, Errs
  <2>2. CASE Running(j, {"move", "batch", "undo"}, "move") /\ HasRoom(j) /\ Moves(j) /\ gone' = gone
    BY <2>1, <2>2, <1>11
  <2>3. CASE /\ Running(j, {"move", "purge", "batch", "undo"}, "expunge")
             /\ Expunges(j, Present(j) \cap box[job[j].from].del)
    <3>1. ~ Idle(j)
      BY <2>3 DEF Running, Idle
    <3> QED BY <2>1, <2>3, <3>1, ExpungedKeeps
  <2> QED BY <2>2, <2>3, <1>14 DEF AnswerLost
<1> QED BY <1>4, <1>5, <1>7, <1>8, <1>9, <1>10, <1>12, <1>13, <1>14 DEF GoesOn, Breaks

LEMMA NextCopies ==
    ASSUME Inv, SafeCopies, [Next]_vars
    PROVE  SafeCopies'
<1>1. CASE UNCHANGED vars
  BY <1>1 DEF vars, SafeCopies, Safe, Doomed, Dooms, Running
<1>2. ASSUME NEW f \in Folders, Sync(f) PROVE SafeCopies'
  BY <1>2 DEF Sync, SafeCopies, Safe, Doomed, Dooms, Running
<1> QED BY <1>1, <1>2, RenumberedKeeps, JobKeepsCopies DEF Next

\* A message leaves the account only if it was purged, or a UID noted before its
\* folder was renumbered named it.
THEOREM MoveNothingLost == Spec => []NothingLost
<1>1. ASSUME Inv, SafeCopies PROVE NothingLost
  <2> SUFFICES ASSUME NEW m \in Msgs \ gone
               PROVE  \E f \in Folders : m \in MsgsAt(box[f].at, Live(box[f].at))
    BY DEF NothingLost
  <2>1. PICK f \in Folders, u \in Uids : box[f].at[u] = m /\ Safe(f, u)
    BY <1>1 DEF SafeCopies
  <2> QED BY <2>1 DEF Safe, MsgsAt, Live
<1> QED BY <1>1, InitInv, NextInv, InitCopies, NextCopies, PTL DEF Spec

-----------------------------------------------------------------------------
(* The results are whole. *)

Told(moved) == {r.msg : r \in moved}

\* What a move that keeps its numbering will take, or took, is in its results.
Covered(j) ==
    /\ Idle(j) => job[j].from = None
    /\ ~ Idle(j) =>
         /\ job[j].uids # {}
         /\ job[j].kind # "purge" /\ job[j].val = box[job[j].from].val =>
              /\ job[j].pc \in {"copied", "expunge"} =>
                   \A u \in job[j].uids : box[job[j].from].at[u] \in Told(job[j].moved) \cup {None}
              /\ job[j].pc = "drop" => job[j].took \subseteq Told(job[j].moved)
AllCovered == \A j \in Jobs : Covered(j)

LEMMA JobSteps ==
    ASSUME Inv, NEW j \in Jobs, Begins(j) \/ GoesOn(j) \/ Breaks(j)
    PROVE  BoxSteps /\ ValsKept
<1>1. TypeOK
  BY DEF Inv
<1>2. CASE Begins(j)
  <2>1. box' = box
    BY <1>2 DEF Begins, Begin, beginMove, beginPurge, runOnMessages, undoCmd
  <2> QED BY <1>1, <2>1, BoxRests
<1>3. CASE SelectFolder(j) \/ Unsupported(j) \/ dropFromCache(j) \/ handleTriageResult(j)
           \/ reportMoved(j) \/ DropFails(j) \/ Fail(j)
  <2>1. box' = box
    BY <1>3 DEF SelectFolder, Unsupported, dropFromCache, handleTriageResult, reportMoved,
                DropFails, Fail
  <2> QED BY <1>1, <2>1, BoxRests
<1>4. CASE MoveOnServer(j)
  BY <1>4, MovesFacts DEF MoveOnServer
<1>5. CASE CopyOnServer(j)
  BY <1>5, CopyFacts DEF CopyOnServer
<1>6. CASE StoreDeleted(j)
  BY <1>6, StoreFacts
<1>7. ASSUME Running(j, {"move", "purge", "batch", "undo"}, "expunge"),
             Expunges(j, Present(j) \cap box[job[j].from].del)
      PROVE  BoxSteps /\ ValsKept
  <2>1. ~ Idle(j) /\ Present(j) \cap box[job[j].from].del \subseteq Present(j)
    BY <1>7 DEF Running, Idle
  <2> QED BY <1>7, <2>1, ExpungeFacts
<1>8. CASE UIDExpunge(j)
  BY <1>7, <1>8 DEF UIDExpunge
<1>9. CASE AnswerLost(j)
  BY <1>7, <1>9, MovesFacts DEF AnswerLost
<1> QED BY <1>2, <1>3, <1>4, <1>5, <1>6, <1>8, <1>9 DEF GoesOn, Breaks

\* A job stays covered while others go on.
LEMMA CoveredKept ==
    ASSUME Inv, NEW j \in Jobs, Covered(j), job'[j] = job[j],
           job[j].from \in Folders => Follows(box[job[j].from], box'[job[j].from])
    PROVE  Covered(j)'
<1> DEFINE f == job[j].from
<1>1. CASE Idle(j)
  BY <1>1 DEF Covered, Idle
<1>2. CASE ~ Idle(j)
  <2>1. f \in Folders /\ Follows(box[f], box'[f])
    BY <1>2 DEF Inv, JobsSound, Sound
  <2>2. \A u \in job[j].uids : u \in Uids /\ Names(box[f], job[j].val, u, job[j].msgs)
    BY <1>2, CommandFields DEF Inv, JobsName
  <2>3. box[f].val \in Nat /\ job[j].val \in Nat /\ box[f] \in Boxes
    BY <2>1, BoxFields, CommandFields DEF Inv, TypeOK
  <2>4. PICK v \in job[j].uids : TRUE
    BY <1>2 DEF Covered
  <2>5. job[j].val <= box[f].val
    BY <2>2, <2>4 DEF Names
  <2>6. box'[f].val >= box[f].val
    BY <2>1 DEF Follows
  <2>7. ASSUME box'[f].val = job[j].val
        PROVE  /\ box[f].val = job[j].val
               /\ \A u \in job[j].uids : box'[f].at[u] \in {box[f].at[u], None}
    <3>1. box[f].val = job[j].val
      BY <2>3, <2>5, <2>6, <2>7
    <3>2. \A u \in job[j].uids : u < box[f].next
      BY <3>1, <2>2 DEF Names
    <3> QED BY <2>1, <2>2, <2>7, <3>1, <3>2 DEF Follows
  <2>8. Idle(j)' = Idle(j)
    BY DEF Idle
  <2> QED BY <1>2, <2>7, <2>8 DEF Covered
<1> QED BY <1>1, <1>2

\* Every UID asked for has a result.
LEMMA ResultsTell ==
    ASSUME NEW j \in Jobs
    PROVE  \A u \in job[j].uids : box[job[j].from].at[u] \in Told(Results(j))
<1> DEFINE f == job[j].from
           t == job[j].to
           told == server.uidPlus /\ Present(j) = job[j].uids
           new(u) == IF told THEN box[t].next - 1 + Rank(u, Present(j)) ELSE 0
           R(u) == Result(f, t, new(u), box[t].val, box[f].at[u])
<1> SUFFICES ASSUME NEW u \in job[j].uids PROVE box[f].at[u] \in Told(Results(j))
  OBVIOUS
<1>1. R(u) \in Results(j)
  BY DEF Results
<1>2. R(u).msg = box[f].at[u]
  BY DEF Result
<1> HIDE DEF R
<1> QED BY <1>1, <1>2 DEF Told

LEMMA ActorCovered ==
    ASSUME Inv, NEW j \in Jobs, Covered(j), Begins(j) \/ GoesOn(j) \/ Breaks(j)
    PROVE  Covered(j)'
<1> DEFINE f == job[j].from
<1>1. TypeOK /\ job[j] \in Commands
  BY CommandFields DEF Inv
<1>2. \A X : job' = [job EXCEPT ![j] = X] => job'[j] = X
  BY <1>1 DEF TypeOK
\* A job that is over.
<1>3. ASSUME NEW err, NEW moved, Ends(j, err, moved) PROVE Covered(j)'
  <2> DEFINE X == [NoJob EXCEPT !.kind = job[j].kind, !.pc = "done", !.err = err, !.moved = moved]
  <2>1. X.pc = "done" /\ X.from = None
    BY DEF NoJob
  <2> HIDE DEF X
  <2>2. job' = [job EXCEPT ![j] = X]
    BY <1>3 DEF Ends, X
  <2> QED BY <2>1, <2>2, <1>2 DEF Covered, Idle
<1>4. CASE \/ SelectFolder(j) /\ job[j].want \notin {0, box[f].val}
           \/ Unsupported(j) \/ dropFromCache(j) \/ DropFails(j) \/ Fail(j) \/ AnswerLost(j)
  <2>1. \E err, moved : Ends(j, err, moved)
    BY <1>4 DEF SelectFolder, Unsupported, dropFromCache, DropFails, Fail, AnswerLost, Errs
  <2> QED BY <2>1, <1>3
<1>5. CASE handleTriageResult(j) \/ reportMoved(j)
  <2>1. job' = [job EXCEPT ![j] = NoJob] /\ NoJob.kind = "none" /\ NoJob.from = None
    BY <1>5 DEF handleTriageResult, reportMoved, NoJob
  <2> QED BY <2>1, <1>2 DEF Covered, Idle
\* A job that begins, or is at its SELECT.
<1>6. ASSUME NEW X, job' = [job EXCEPT ![j] = X], X.pc \in {"select", "move"}, X.uids # {},
             X.kind # "none"
      PROVE  Covered(j)'
  BY <1>2, <1>6 DEF Covered, Idle
<1>7. ASSUME NEW kind \in {"move", "purge", "batch"}, NEW g, NEW t, NEW S, Begin(j, kind, g, t, S)
      PROVE  Covered(j)'
  <2> DEFINE X == [NoJob EXCEPT !.kind = kind, !.from = g, !.to = t, !.uids = S,
                                !.msgs = MsgsAt(cache[g].at, S), !.val = cache[g].val]
  <2>1. X.pc = "select" /\ X.uids = S /\ X.kind = kind
    BY DEF NoJob
  <2> HIDE DEF X
  <2>2. job' = [job EXCEPT ![j] = X] /\ S # {}
    BY <1>7 DEF Begin, X
  <2> QED BY <2>1, <2>2, <1>6
<1>8. CASE undoCmd(j)
  <2> DEFINE E == [NoJob EXCEPT !.kind = "undo", !.pc = "done", !.err = TRUE]
             U(r) == [NoJob EXCEPT !.kind = "undo", !.from = r.to, !.to = r.from, !.uids = {r.duid},
                                   !.want = r.dval, !.msgs = {r.msg}, !.val = r.dval]
  <2>1. PICK r \in lastMoved : job' = [job EXCEPT ![j] = IF r.duid = 0 THEN E ELSE U(r)]
    BY <1>8 DEF undoCmd
  <2>2. /\ E.pc = "done" /\ E.from = None
        /\ U(r).pc = "select" /\ U(r).uids # {} /\ U(r).kind = "undo"
    BY DEF NoJob
  <2> HIDE DEF E, U
  <2>3. CASE r.duid = 0
    BY <2>1, <2>2, <2>3, <1>2 DEF Covered, Idle
  <2>4. CASE r.duid # 0
    BY <2>1, <2>2, <2>4, <1>6
  <2> QED BY <2>3, <2>4
<1>9. CASE Begins(j)
  BY <1>7, <1>8, <1>9 DEF Begins, beginMove, beginPurge, runOnMessages
<1>10. CASE SelectFolder(j) /\ job[j].want \in {0, box[f].val}
  <2> DEFINE X == [job[j] EXCEPT !.pc = "move"]
  <2>1. X.pc = "move" /\ X.uids = job[j].uids /\ X.kind = job[j].kind
    BY <1>1 DEF Commands
  <2> HIDE DEF X
  <2>2. job' = [job EXCEPT ![j] = X]
    BY <1>10 DEF SelectFolder, X
  <2>3. job[j].uids # {} /\ job[j].kind # "none"
    BY <1>10 DEF SelectFolder, Running, Covered, Idle
  <2> QED BY <2>1, <2>2, <2>3, <1>6
\* A job that works in its folder.
<1>11. CASE MoveOnServer(j)
  <2> DEFINE took == MsgsAt(box[f].at, Present(j))
             X == [job[j] EXCEPT !.pc = "drop", !.moved = Results(j), !.took = took]
  <2>1. X.pc = "drop" /\ X.moved = Results(j) /\ X.took = took /\ X.kind = job[j].kind
        /\ X.uids = job[j].uids
    BY <1>1 DEF Commands
  <2>2. took \subseteq Told(Results(j))
    BY ResultsTell DEF MsgsAt, Present
  <2>3. job[j].uids # {} /\ job[j].kind # "none"
    BY <1>11 DEF MoveOnServer, Running, Covered, Idle
  <2> HIDE DEF took, X
  <2>4. job' = [job EXCEPT ![j] = X]
    BY <1>11 DEF MoveOnServer, X, took
  <2>5. job'[j] = X
    BY <2>4, <1>2
  <2> QED BY <2>1, <2>2, <2>3, <2>5 DEF Covered, Idle
<1>12. CASE CopyOnServer(j)
  <2> DEFINE X == [job[j] EXCEPT !.pc = "copied", !.moved = Results(j)]
  <2>1. X.pc = "copied" /\ X.moved = Results(j) /\ X.kind = job[j].kind
        /\ X.uids = job[j].uids /\ X.from = f
    BY <1>1 DEF Commands
  <2>2. box'[f] = box[f]
    BY <1>12, CopyFacts, MovingFacts DEF CopyOnServer
  <2>3. job[j].uids # {} /\ job[j].kind # "none"
    BY <1>12 DEF CopyOnServer, Running, Covered, Idle
  <2> HIDE DEF X
  <2>4. job' = [job EXCEPT ![j] = X]
    BY <1>12 DEF CopyOnServer, X
  <2>5. job'[j] = X
    BY <2>4, <1>2
  <2>6. \A u \in job'[j].uids : box'[job'[j].from].at[u] \in Told(job'[j].moved)
    BY <2>1, <2>2, <2>5, ResultsTell
  <2> QED BY <2>1, <2>3, <2>5, <2>6 DEF Covered, Idle
<1>13. CASE StoreDeleted(j)
  <2> DEFINE X == [job[j] EXCEPT !.pc = "expunge"]
  <2>1. X.pc = "expunge" /\ X.moved = job[j].moved /\ X.kind = job[j].kind
        /\ X.uids = job[j].uids /\ X.from = f /\ X.val = job[j].val
    BY <1>1 DEF Commands
  <2>2. ~ Idle(j) /\ (job[j].kind = "purge" \/ job[j].pc = "copied")
    BY <1>13 DEF StoreDeleted, Running, Idle
  <2>3. f \in Folders /\ box'[f].at = box[f].at /\ box'[f].val = box[f].val
    BY <2>2, <1>13, StoreFacts DEF Inv, JobsSound, Sound, ValsKept
  <2> HIDE DEF X
  <2>4. job' = [job EXCEPT ![j] = X]
    BY <1>13 DEF StoreDeleted, X
  <2>5. job'[j] = X
    BY <2>4, <1>2
  <2> QED BY <2>1, <2>2, <2>3, <2>5 DEF Covered, Idle
<1>14. CASE UIDExpunge(j)
  <2> DEFINE S == Present(j) \cap box[f].del
             took == MsgsAt(box[f].at, S)
             X == [job[j] EXCEPT !.pc = "drop", !.took = took]
  <2>1. X.pc = "drop" /\ X.moved = job[j].moved /\ X.took = took /\ X.kind = job[j].kind
        /\ X.uids = job[j].uids /\ X.from = f /\ X.val = job[j].val
    BY <1>1 DEF Commands
  <2>2. ~ Idle(j) /\ job[j].pc = "expunge"
    BY <1>14 DEF UIDExpunge, Running, Idle
  <2>3. f \in Folders /\ box'[f].val = box[f].val
    BY <2>2, <1>14, JobSteps DEF Inv, JobsSound, Sound, ValsKept, GoesOn
  <2>4. ASSUME job[j].kind # "purge", job[j].val = box[f].val
        PROVE  took \subseteq Told(job[j].moved)
    BY <2>2, <2>4 DEF Covered, MsgsAt, Present, Live
  <2> HIDE DEF took, X
  <2>5. job' = [job EXCEPT ![j] = X]
    BY <1>14 DEF UIDExpunge, X, took
  <2>6. job'[j] = X
    BY <2>5, <1>2
  <2> QED BY <2>1, <2>2, <2>3, <2>4, <2>6 DEF Covered, Idle
<1> QED BY <1>4, <1>5, <1>9, <1>10, <1>11, <1>12, <1>13, <1>14 DEF GoesOn, Breaks

\* A step of job i leaves the others alone.
LEMMA OthersRest ==
    ASSUME TypeOK, NEW i \in Jobs, Begins(i) \/ GoesOn(i) \/ Breaks(i), NEW j \in Jobs, i # j
    PROVE  job'[j] = job[j]
<1>1. \A X : job' = [job EXCEPT ![i] = X] => job'[j] = job[j]
  BY DEF TypeOK
<1>2. ASSUME NEW kind, NEW f, NEW t, NEW S, Begin(i, kind, f, t, S) PROVE job'[j] = job[j]
  BY <1>1, <1>2 DEF Begin
<1>3. CASE Begins(i)
  <2>1. undoCmd(i) => job'[j] = job[j]
    BY <1>1 DEF undoCmd
  <2> QED BY <1>2, <1>3, <2>1 DEF Begins, beginMove, beginPurge, runOnMessages
<1>4. CASE GoesOn(i)
  BY <1>4, <1>1, Zenon DEF TypeOK, GoesOn, SelectFolder, MoveOnServer, CopyOnServer, StoreDeleted, UIDExpunge,
       Unsupported, dropFromCache, handleTriageResult, reportMoved, Errs, Ends
<1>5. CASE Breaks(i)
  BY <1>5, <1>1 DEF Breaks, AnswerLost, DropFails, Fail, Errs, Ends
<1> QED BY <1>3, <1>4, <1>5

LEMMA NextCovered ==
    ASSUME Inv, AllCovered, [Next]_vars
    PROVE  AllCovered'
<1> SUFFICES ASSUME NEW j \in Jobs PROVE Covered(j)'
  BY DEF AllCovered
<1>1. Covered(j) /\ TypeOK
  BY DEF AllCovered, Inv
<1>2. ASSUME UNCHANGED vars \/ \E f \in Folders : Sync(f) PROVE Covered(j)'
  <2>1. box' = box /\ job' = job
    BY <1>2 DEF vars, Sync
  <2> QED BY <1>1, <2>1 DEF Covered, Idle
<1>3. ASSUME NEW g \in Folders, Renumber(g) PROVE Covered(j)'
  <2> DEFINE cut(i) == job[i].from = g /\ job[i].pc \in {"move", "copied", "expunge"}
             N(i) == [NoJob EXCEPT !.kind = job[i].kind, !.pc = "done", !.err = TRUE]
  <2>1. job' = [i \in Jobs |-> IF cut(i) THEN N(i) ELSE job[i]]
    BY <1>3 DEF Renumber
  <2>2. N(j).pc = "done" /\ N(j).from = None
    BY DEF NoJob
  <2> HIDE DEF N
  <2>3. CASE cut(j)
    BY <2>1, <2>2, <2>3 DEF Covered, Idle
  <2>4. CASE ~ cut(j)
    <3>1. job'[j] = job[j]
      BY <2>1, <2>4
    <3>2. ASSUME job[j].from \in Folders PROVE Follows(box[job[j].from], box'[job[j].from])
      <4>1. box[job[j].from].val \in Nat /\ box[job[j].from].next \in Nat /\ box \in [Folders -> Boxes]
        BY <1>1, <3>2, BoxFields DEF TypeOK
      <4>2. CASE job[j].from = g
        <5>1. box'[g].val = box[g].val + 1
          BY <1>3, <4>1, RenumberedVal
        <5> QED BY <4>1, <4>2, <5>1 DEF Follows
      <4>3. CASE job[j].from # g
        <5>1. box'[job[j].from] = box[job[j].from]
          BY <1>3, <3>2, <4>1, <4>3, RenumberedRest
        <5> QED BY <4>1, <5>1 DEF Follows
      <4> QED BY <4>2, <4>3
    <3> QED BY <1>1, <3>1, <3>2, CoveredKept
  <2> QED BY <2>3, <2>4
<1>4. ASSUME NEW i \in Jobs, Begins(i) \/ GoesOn(i) \/ Breaks(i) PROVE Covered(j)'
  <2>1. CASE i = j
    BY <1>1, <1>4, <2>1, ActorCovered
  <2>2. CASE i # j
    <3>1. job'[j] = job[j]
      BY <1>1, <1>4, <2>2, OthersRest
    <3>2. job[j].from \in Folders => Follows(box[job[j].from], box'[job[j].from])
      BY <1>4, JobSteps DEF BoxSteps
    <3> QED BY <1>1, <3>1, <3>2, CoveredKept
  <2> QED BY <2>1, <2>2
<1> QED BY <1>2, <1>3, <1>4 DEF Next

\* The step that ends a command after its move keeps the results.
LEMMA ResultsStay ==
    ASSUME Inv, [Next]_vars, NEW j \in Jobs, ~ Idle(j), job[j].pc = "drop", job'[j].pc = "done"
    PROVE  job'[j].moved = job[j].moved
<1>1. TypeOK /\ job'[j] # job[j] /\ job[j].kind # "none"
  BY DEF Inv, Idle
<1>2. ~ UNCHANGED vars /\ \A f \in Folders : ~ Sync(f)
  BY <1>1 DEF vars, Sync
<1>3. \A f \in Folders : ~ Renumber(f)
  <2> SUFFICES ASSUME NEW f \in Folders, Renumber(f) PROVE job'[j] = job[j]
    BY <1>1
  <2> QED BY DEF Renumber
<1>4. PICK i \in Jobs : Begins(i) \/ GoesOn(i) \/ Breaks(i)
  BY <1>2, <1>3 DEF Next
<1>5. i = j
  BY <1>1, <1>4, OthersRest
<1>6. dropFromCache(j) \/ DropFails(j)
  BY <1>1, <1>4, <1>5 DEF Begins, Begin, beginMove, beginPurge, runOnMessages, undoCmd,
       GoesOn, SelectFolder, MoveOnServer, CopyOnServer, StoreDeleted, UIDExpunge, Unsupported,
       handleTriageResult, reportMoved, Breaks, AnswerLost, Fail, Running
<1>7. \E err \in BOOLEAN : Ends(j, err, job[j].moved)
  BY <1>6 DEF dropFromCache, DropFails
<1> QED BY <1>1, <1>7, Ended

\* What a command took and got an answer for is in its results.
THEOREM MoveResultsCoverMoves == Spec => ResultsCoverMoves
<1> DEFINE A == \A j \in Jobs :
                  /\ job[j].pc = "drop" /\ job'[j].pc = "done" /\ job[j].kind # "purge"
                  /\ job[j].from \in Folders /\ job[j].val = box[job[j].from].val
                  => job[j].took \subseteq {r.msg : r \in job'[j].moved}
<1>1. Init => AllCovered
  BY DEF Init, NoJob, AllCovered, Covered, Idle
<1>2. ASSUME Inv, AllCovered, [Next]_vars PROVE A
  <2> SUFFICES ASSUME NEW j \in Jobs,
                      job[j].pc = "drop", job'[j].pc = "done", job[j].kind # "purge",
                      job[j].from \in Folders, job[j].val = box[job[j].from].val
               PROVE  job[j].took \subseteq Told(job'[j].moved)
    BY DEF Told
  <2>1. ~ Idle(j) /\ job[j].took \subseteq Told(job[j].moved)
    BY <1>2, MoveUndoAssumption DEF AllCovered, Covered
  <2>2. job'[j].moved = job[j].moved
    BY <1>2, <2>1, ResultsStay
  <2> QED BY <2>1, <2>2
<1>3. Inv /\ AllCovered /\ [Next]_vars => [A]_vars
  BY <1>2
<1> HIDE DEF A
<1>4. Spec => [][A]_vars
  BY <1>1, <1>3, InitInv, NextInv, NextCovered, PTL DEF Spec
<1> QED BY <1>4 DEF A, ResultsCoverMoves

-----------------------------------------------------------------------------
(* What U would put back, if nothing else moves while an undo is under way. *)

\* A UID the server told is that of a message it moved.
MsgKnown == \A r \in Remembered : r.duid # 0 => r.msg # None

\* The keys move one message at a time, ...
OneEach(j) ==
    job[j].kind = "move" => /\ \A u, v \in job[j].uids : u = v
                            /\ \A r, s \in job[j].moved : r = s

\* ... so there is one to put back, ...
OneRecord == (\A r, s \in lastMoved : r = s) /\ \A j \in Jobs : OneEach(j)

\* ... and what puts it back is alone.
UndoAlone == \A j, k \in Jobs : job[j].kind = "undo" /\ job[k].kind # "none" => j = k

RecordInv == MsgKnown /\ OneRecord /\ UndoAlone

\* The message of record r is not where it was moved to any more.
Away(r) == r.duid # 0 => ~ (box[r.to].val = r.dval /\ box[r.to].at[r.duid] = r.msg)

\* An undo is for the record there is, does not take \Deleted messages of
\* others for its own, and has its message out when it says so.
UndoFor(j) ==
    /\ ~ Idle(j) => \A r \in lastMoved : job[j].from = r.to /\ job[j].uids = {r.duid} /\ r.duid # 0
    /\ job[j].pc = "expunge" => Present(j) \subseteq box[job[j].from].del
    /\ job[j].pc = "drop" \/ (job[j].pc = "done" /\ ~ job[j].err) => \A r \in lastMoved : Away(r)
UndosFor == \A j \in Jobs : job[j].kind = "undo" => UndoFor(j)

\* What a step of job j makes of it, and of the record.
Starts(j) ==
    /\ job[j].kind = "none" /\ job'[j].kind \in {"move", "purge", "batch"}
    /\ job'[j].moved = {} /\ (job'[j].kind = "move" => \E u : job'[j].uids = {u})
    /\ Waits => ~ Busy({"undo"})
    /\ lastMoved' = lastMoved
StartsUndo(j) ==
    /\ job[j].kind = "none" /\ job'[j].kind = "undo" /\ job'[j].moved = {}
    /\ Waits => ~ Busy({"undo", "move", "purge", "batch"})
    /\ lastMoved' = lastMoved
Continues(j) ==
    /\ job'[j].kind = job[j].kind /\ job'[j].uids \in {{}, job[j].uids}
    /\ job'[j].moved \subseteq job[j].moved \/ job'[j].moved = Results(j)
    /\ lastMoved' = lastMoved
Frees(j) ==
    /\ job'[j].kind = "none" /\ job'[j].moved = {}
    /\ \/ lastMoved' \in {lastMoved, {}}
       \/ job[j].kind = "move" /\ lastMoved' = job[j].moved

LEMMA BeginShape ==
    ASSUME TypeOK, NEW j \in Jobs, Begins(j)
    PROVE  Starts(j) \/ StartsUndo(j)
<1>1. \A X : job' = [job EXCEPT ![j] = X] => job'[j] = X
  BY DEF TypeOK
<1>2. ASSUME NEW kind \in {"move", "purge", "batch"}, NEW f, NEW t, NEW S, Begin(j, kind, f, t, S),
             kind = "move" => \E u : S = {u}
      PROVE  Starts(j)
  <2> DEFINE X == [NoJob EXCEPT !.kind = kind, !.from = f, !.to = t, !.uids = S,
                                !.msgs = MsgsAt(cache[f].at, S), !.val = cache[f].val]
  <2>1. X.kind = kind /\ X.uids = S /\ X.moved = {}
    BY DEF NoJob
  <2>2. job' = [job EXCEPT ![j] = X]
    BY <1>2 DEF Begin
  <2> HIDE DEF X
  <2>3. job'[j] = X
    BY <2>2, <1>1
  <2>4. job[j].kind = "none" /\ (Waits => ~ Busy({"undo"})) /\ lastMoved' = lastMoved
    BY <1>2 DEF Begin
  <2> QED BY <1>2, <2>1, <2>3, <2>4 DEF Starts
<1>3. CASE undoCmd(j)
  <2> DEFINE E == [NoJob EXCEPT !.kind = "undo", !.pc = "done", !.err = TRUE]
             U(r) == [NoJob EXCEPT !.kind = "undo", !.from = r.to, !.to = r.from, !.uids = {r.duid},
                                   !.want = r.dval, !.msgs = {r.msg}, !.val = r.dval]
  <2>1. PICK r \in lastMoved : job' = [job EXCEPT ![j] = IF r.duid = 0 THEN E ELSE U(r)]
    BY <1>3 DEF undoCmd
  <2>2. E.kind = "undo" /\ E.moved = {} /\ U(r).kind = "undo" /\ U(r).moved = {}
    BY DEF NoJob
  <2> HIDE DEF E, U
  <2>3. job'[j].kind = "undo" /\ job'[j].moved = {}
    BY <2>1, <2>2, <1>1
  <2> QED BY <1>3, <2>3 DEF undoCmd, StartsUndo
<1>4. ASSUME NEW f \in Folders, NEW t \in Folders, NEW u \in Uids, beginMove(j, f, t, u)
      PROVE  Starts(j)
  BY <1>2, <1>4 DEF beginMove
<1>5. ASSUME NEW f \in Folders, NEW S \in SUBSET Uids, beginPurge(j, f, S) PROVE Starts(j)
  <2>1. "purge" \in {"move", "purge", "batch"} /\ "purge" # "move"
    OBVIOUS
  <2> QED BY <1>2, <1>5, <2>1 DEF beginPurge
<1>6. ASSUME NEW f \in Folders, NEW t \in Folders, NEW S \in SUBSET Uids, runOnMessages(j, f, t, S)
      PROVE  Starts(j)
  <2>1. "batch" \in {"move", "purge", "batch"} /\ "batch" # "move"
    OBVIOUS
  <2> QED BY <1>2, <1>6, <2>1 DEF runOnMessages
<1> QED BY <1>3, <1>4, <1>5, <1>6 DEF Begins

LEMMA WorkShape ==
    ASSUME TypeOK, NEW j \in Jobs, GoesOn(j) \/ Breaks(j)
    PROVE  Continues(j) \/ Frees(j)
<1>1. \A X : job' = [job EXCEPT ![j] = X] => job'[j] = X
  BY DEF TypeOK
<1>2. job[j] \in Commands
  BY CommandFields
<1>3. ASSUME NEW err, NEW moved, moved \subseteq job[j].moved, Ends(j, err, moved),
             lastMoved' = lastMoved
      PROVE  Continues(j)
  <2> DEFINE X == [NoJob EXCEPT !.kind = job[j].kind, !.pc = "done", !.err = err, !.moved = moved]
  <2>1. X.kind = job[j].kind /\ X.uids = {} /\ X.moved = moved
    BY DEF NoJob
  <2>2. job' = [job EXCEPT ![j] = X]
    BY <1>3 DEF Ends
  <2> HIDE DEF X
  <2>3. job'[j] = X
    BY <2>2, <1>1
  <2> QED BY <1>3, <2>1, <2>3 DEF Continues
<1>4. CASE \/ SelectFolder(j) /\ job[j].want \notin {0, box[job[j].from].val}
           \/ Unsupported(j) \/ dropFromCache(j) \/ DropFails(j) \/ Fail(j) \/ AnswerLost(j)
  <2>1. lastMoved' = lastMoved /\ \E err, moved : moved \subseteq job[j].moved /\ Ends(j, err, moved)
    BY <1>4 DEF SelectFolder, Unsupported, dropFromCache, DropFails, Fail, AnswerLost, Errs
  <2> QED BY <2>1, <1>3
<1>5. ASSUME NEW pc, NEW moved, NEW took, NEW X, job' = [job EXCEPT ![j] = X], lastMoved' = lastMoved,
             \/ X = [job[j] EXCEPT !.pc = pc, !.moved = Results(j), !.took = took]
             \/ X = [job[j] EXCEPT !.pc = pc, !.moved = Results(j)]
             \/ X = [job[j] EXCEPT !.pc = pc, !.took = took]
             \/ X = [job[j] EXCEPT !.pc = pc]
      PROVE  Continues(j)
  <2>1. /\ X.kind = job[j].kind /\ X.uids = job[j].uids
        /\ X.moved = job[j].moved \/ X.moved = Results(j)
    BY <1>2, <1>5 DEF Commands
  <2>2. job'[j] = X
    BY <1>1, <1>5
  <2> QED BY <1>5, <2>1, <2>2 DEF Continues
<1>6. CASE SelectFolder(j) /\ job[j].want \in {0, box[job[j].from].val}
  BY <1>5, <1>6 DEF SelectFolder
<1>7. CASE MoveOnServer(j)
  BY <1>5, <1>7 DEF MoveOnServer
<1>8. CASE CopyOnServer(j)
  BY <1>5, <1>8 DEF CopyOnServer
<1>9. CASE StoreDeleted(j)
  BY <1>5, <1>9 DEF StoreDeleted
<1>10. CASE UIDExpunge(j)
  BY <1>5, <1>10 DEF UIDExpunge
<1>11. CASE handleTriageResult(j) \/ reportMoved(j)
  <2>1. job'[j] = NoJob /\ NoJob.kind = "none" /\ NoJob.moved = {}
    BY <1>1, <1>11 DEF handleTriageResult, reportMoved, NoJob
  <2> QED BY <1>11, <2>1 DEF handleTriageResult, reportMoved, Frees
<1> QED BY <1>4, <1>6, <1>7, <1>8, <1>9, <1>10, <1>11 DEF GoesOn, Breaks

\* A renumbering cuts jobs off, and does nothing else to them.
LEMMA RenumberShape ==
    ASSUME TypeOK, NEW f \in Folders, Renumber(f), NEW j \in Jobs
    PROVE  /\ job'[j].kind = job[j].kind
           /\ job'[j].uids \in {{}, job[j].uids} /\ job'[j].moved \in {{}, job[j].moved}
           /\ \/ job'[j] = job[j] /\ ~ (job[j].from = f /\ job[j].pc \in {"move", "copied", "expunge"})
              \/ job'[j].pc = "done" /\ job'[j].err
<1> DEFINE cut == job[j].from = f /\ job[j].pc \in {"move", "copied", "expunge"}
           N == [NoJob EXCEPT !.kind = job[j].kind, !.pc = "done", !.err = TRUE]
<1>1. job'[j] = IF cut THEN N ELSE job[j]
  BY DEF Renumber
<1>2. N.kind = job[j].kind /\ N.uids = {} /\ N.moved = {} /\ N.pc = "done" /\ N.err
  BY DEF NoJob
<1> HIDE DEF N
<1> QED BY <1>1, <1>2

LEMMA ResultsMsg ==
    ASSUME NEW j \in Jobs, NEW r \in Results(j), r.duid # 0
    PROVE  r.msg # None
<1> DEFINE f == job[j].from
           t == job[j].to
           told == server.uidPlus /\ Present(j) = job[j].uids
           new(u) == IF told THEN box[t].next - 1 + Rank(u, Present(j)) ELSE 0
<1>1. PICK u \in job[j].uids : r = Result(f, t, new(u), box[t].val, box[f].at[u])
  BY DEF Results
<1>2. r.duid = new(u) /\ r.msg = box[f].at[u]
  BY <1>1 DEF Result
<1>3. u \in Present(j)
  BY <1>2
<1> QED BY <1>2, <1>3 DEF Present, Live

LEMMA ResultsOne ==
    ASSUME NEW j \in Jobs, \A u, v \in job[j].uids : u = v
    PROVE  \A r, s \in Results(j) : r = s
<1> DEFINE R(u) == Result(job[j].from, job[j].to,
                          IF server.uidPlus /\ Present(j) = job[j].uids
                          THEN box[job[j].to].next - 1 + Rank(u, Present(j)) ELSE 0,
                          box[job[j].to].val, box[job[j].from].at[u])
<1>1. Results(j) = {R(u) : u \in job[j].uids}
  BY DEF Results
<1> HIDE DEF R
<1> QED BY <1>1

LEMMA NextRecord ==
    ASSUME Waits, Inv, RecordInv, [Next]_vars
    PROVE  RecordInv'
<1>0. TypeOK
  BY DEF Inv
<1>1. ASSUME \A j \in Jobs : /\ job'[j].kind = job[j].kind
                             /\ job'[j].uids \in {{}, job[j].uids}
                             /\ job'[j].moved \in {{}, job[j].moved},
             lastMoved' = lastMoved
      PROVE  RecordInv'
  <2>1. Remembered' \subseteq Remembered
    BY <1>1 DEF Remembered
  <2>2. MsgKnown'
    BY <2>1 DEF RecordInv, MsgKnown
  <2>3. \A j \in Jobs : OneEach(j)'
    BY <1>1 DEF RecordInv, OneRecord, OneEach
  <2> QED BY <1>1, <2>2, <2>3 DEF RecordInv, OneRecord, UndoAlone
<1>2. CASE UNCHANGED vars
  BY <1>1, <1>2 DEF vars
<1>3. ASSUME NEW f \in Folders, Sync(f) PROVE RecordInv'
  BY <1>1, <1>3 DEF Sync
<1>4. ASSUME NEW f \in Folders, Renumber(f) PROVE RecordInv'
  <2>1. lastMoved' = lastMoved
    BY <1>4 DEF Renumber
  <2> QED BY <1>0, <1>1, <1>4, <2>1, RenumberShape
<1>5. ASSUME NEW j \in Jobs, Begins(j) \/ GoesOn(j) \/ Breaks(j) PROVE RecordInv'
  <2>1. \A i \in Jobs : i # j => job'[i] = job[i]
    BY <1>0, <1>5, OthersRest
  <2>2. Starts(j) \/ StartsUndo(j) \/ Continues(j) \/ Frees(j)
    BY <1>0, <1>5, BeginShape, WorkShape
  <2>3. /\ \A r, s \in lastMoved : r = s
        /\ OneEach(j) /\ \A i \in Jobs : OneEach(i)
    BY DEF RecordInv, OneRecord
  <2>4. \A r \in Remembered' : r \in Remembered \/ r \in Results(j)
    <3>1. \A r \in lastMoved' : r \in Remembered
      BY <2>2 DEF Starts, StartsUndo, Continues, Frees, Remembered
    <3>2. \A r \in job'[j].moved : r \in Remembered \/ r \in Results(j)
      BY <2>2 DEF Starts, StartsUndo, Continues, Frees, Remembered
    <3> QED BY <2>1, <3>1, <3>2 DEF Remembered
  <2>5. MsgKnown'
    BY <2>4, ResultsMsg DEF RecordInv, MsgKnown
  <2>6. OneEach(j)'
    <3>1. CASE Starts(j)
      BY <3>1 DEF Starts, OneEach
    <3>2. CASE StartsUndo(j)
      BY <3>2 DEF StartsUndo, OneEach
    <3>3. CASE Continues(j)
      BY <2>3, <3>3, ResultsOne DEF Continues, OneEach
    <3>4. CASE Frees(j)
      BY <3>4 DEF Frees, OneEach
    <3> QED BY <2>2, <3>1, <3>2, <3>3, <3>4
  <2>7. \A r, s \in lastMoved' : r = s
    BY <2>2, <2>3 DEF Starts, StartsUndo, Continues, Frees, OneEach
  <2>8. OneRecord'
    BY <2>1, <2>3, <2>6, <2>7 DEF OneRecord, OneEach
  <2>9. UndoAlone'
    <3>1. UndoAlone
      BY DEF RecordInv
    <3>2. CASE Starts(j)
      BY <2>1, <3>1, <3>2 DEF Starts, UndoAlone, Busy
    <3>3. CASE StartsUndo(j)
      <4>1. \A i \in Jobs : job[i].kind = "none"
        BY <1>0, <3>3, CommandFields DEF StartsUndo, Busy, Commands
      <4> QED BY <2>1, <4>1 DEF UndoAlone
    <3>4. CASE Continues(j)
      BY <2>1, <3>1, <3>4 DEF Continues, UndoAlone
    <3>5. CASE Frees(j)
      BY <2>1, <3>1, <3>5 DEF Frees, UndoAlone
    <3> QED BY <2>2, <3>2, <3>3, <3>4, <3>5
  <2> QED BY <2>5, <2>8, <2>9 DEF RecordInv
<1> QED BY <1>2, <1>3, <1>4, <1>5 DEF Next

-----------------------------------------------------------------------------
(* An undo under way. *)

\* A message that is not where it was moved to does not come back there.
LEMMA AwayStays ==
    ASSUME Inv, TypeOK', BoxSteps, MsgKnown, NEW r \in lastMoved, Away(r)
    PROVE  Away(r)'
<1> SUFFICES ASSUME r.duid # 0, box'[r.to].val = r.dval, box'[r.to].at[r.duid] = r.msg PROVE FALSE
  BY DEF Away
<1>1. TypeOK /\ RecordsName /\ r \in Remembered /\ r \in Records
  BY DEF Inv, Remembered, TypeOK
<1>2. r.to \in Folders /\ r.dval \in Nat /\ r.duid \in Uids
  BY <1>1, MoveUndoAssumption DEF Records, Uids
<1>3. Names(box[r.to], r.dval, r.duid, {r.msg}) /\ r.msg # None
  BY <1>1 DEF RecordsName, MsgKnown
<1>4. box[r.to].val \in Nat /\ box'[r.to].val \in Nat /\ Follows(box[r.to], box'[r.to])
  BY <1>1, <1>2, BoxFields DEF TypeOK, BoxSteps
<1>5. box[r.to].val = r.dval
  BY <1>2, <1>3, <1>4 DEF Names, Follows
<1>6. r.duid < box[r.to].next /\ box[r.to].at[r.duid] = None
  BY <1>3, <1>5 DEF Names, Away
<1>7. box'[r.to].at[r.duid] = None
  BY <1>2, <1>4, <1>5, <1>6 DEF Follows
<1> QED BY <1>3, <1>7

\* While it is under way the others do nothing to it.
LEMMA UndoUndisturbed ==
    ASSUME Waits, Inv, RecordInv, NEW j \in Jobs, job[j].kind = "undo", NEW i \in Jobs, i # j,
           Begins(i) \/ GoesOn(i) \/ Breaks(i)
    PROVE  box' = box /\ lastMoved' = lastMoved /\ job'[j] = job[j]
<1>1. TypeOK /\ job[i].kind = "none" /\ Busy({"undo"}) /\ Busy({"undo", "move", "purge", "batch"})
  BY DEF Inv, RecordInv, UndoAlone, Busy
<1>2. ~ Begins(i)
  BY <1>1 DEF Begins, Begin, beginMove, beginPurge, runOnMessages, undoCmd
<1>3. dropFromCache(i) \/ DropFails(i)
  BY <1>1, <1>2 DEF GoesOn, Breaks, SelectFolder, MoveOnServer, CopyOnServer, StoreDeleted,
       UIDExpunge, Unsupported, handleTriageResult, reportMoved, AnswerLost, Fail, Running
<1>4. box' = box /\ lastMoved' = lastMoved
  BY <1>3 DEF dropFromCache, DropFails
<1> QED BY <1>1, <1>4, OthersRest

\* Records stay away, and an undo that another step leaves alone is still right.
LEMMA UndoForKept ==
    ASSUME Inv, TypeOK', BoxSteps, MsgKnown, NEW j \in Jobs, UndoFor(j),
           lastMoved' = lastMoved, job'[j] = job[j],
           job[j].pc = "expunge" => box'[job[j].from] = box[job[j].from]
    PROVE  UndoFor(j)'
<1>1. \A r \in lastMoved : Away(r) => Away(r)'
  BY AwayStays
<1>2. Idle(j)' = Idle(j)
  BY DEF Idle
<1>3. job[j].pc = "expunge" => Present(j)' = Present(j)
  BY DEF Present
<1> QED BY <1>1, <1>2, <1>3 DEF UndoFor

\* The steps of the undo itself.
LEMMA ActorUndo ==
    ASSUME Waits, Inv, TypeOK', RecordInv, NEW j \in Jobs, job[j].kind = "undo" => UndoFor(j),
           Begins(j) \/ GoesOn(j) \/ Breaks(j), job'[j].kind = "undo"
    PROVE  UndoFor(j)'
<1> DEFINE f == job[j].from
<1>1. /\ TypeOK /\ job[j] \in Commands /\ BoxSteps
      /\ \A X : job' = [job EXCEPT ![j] = X] => job'[j] = X
  BY JobSteps, CommandFields DEF Inv, TypeOK
<1>2. \A r \in lastMoved : Away(r) => Away(r)'
  BY <1>1, AwayStays DEF RecordInv
\* A job that is over, and did not do it, or had done it.
<1>3. ASSUME NEW err \in BOOLEAN, NEW moved, Ends(j, err, moved), lastMoved' = lastMoved,
             err \/ job[j].pc = "drop"
      PROVE  UndoFor(j)'
  <2> DEFINE X == [NoJob EXCEPT !.kind = job[j].kind, !.pc = "done", !.err = err, !.moved = moved]
  <2>1. X.kind = job[j].kind /\ X.pc = "done" /\ X.err = err
    BY DEF NoJob
  <2>2. job' = [job EXCEPT ![j] = X]
    BY <1>3 DEF Ends
  <2> HIDE DEF X
  <2>3. job'[j] = X
    BY <2>2, <1>1
  <2>4. ~ err => \A r \in lastMoved : Away(r)
    BY <1>3, <2>1, <2>3 DEF UndoFor
  <2>5. ~ err => \A r \in lastMoved' : Away(r)'
    BY <1>2, <1>3, <2>4
  <2> QED BY <2>1, <2>3, <2>5 DEF UndoFor, Idle
<1>4. CASE \/ SelectFolder(j) /\ job[j].want \notin {0, box[f].val}
           \/ Unsupported(j) \/ Fail(j) \/ AnswerLost(j)
  <2>1. lastMoved' = lastMoved /\ Ends(j, TRUE, {})
    BY <1>4 DEF SelectFolder, Unsupported, Fail, AnswerLost, Errs
  <2> QED BY <2>1, <1>3
<1>5. CASE dropFromCache(j) \/ DropFails(j)
  <2>1. lastMoved' = lastMoved /\ job[j].pc = "drop" /\ \E err \in BOOLEAN : Ends(j, err, job[j].moved)
    BY <1>5 DEF dropFromCache, DropFails
  <2> QED BY <2>1, <1>3
<1>6. CASE handleTriageResult(j) \/ reportMoved(j)
  <2>1. job'[j] = NoJob /\ NoJob.kind = "none"
    BY <1>1, <1>6 DEF handleTriageResult, reportMoved, NoJob
  <2> QED BY <2>1
\* The undo begins.
<1>7. CASE Begins(j)
  <2> DEFINE E == [NoJob EXCEPT !.kind = "undo", !.pc = "done", !.err = TRUE]
             U(r) == [NoJob EXCEPT !.kind = "undo", !.from = r.to, !.to = r.from, !.uids = {r.duid},
                                   !.want = r.dval, !.msgs = {r.msg}, !.val = r.dval]
  <2>1. undoCmd(j)
    <3>1. ASSUME NEW kind \in {"move", "purge", "batch"}, NEW g, NEW t, NEW S, Begin(j, kind, g, t, S)
          PROVE  FALSE
      <4> DEFINE X == [NoJob EXCEPT !.kind = kind, !.from = g, !.to = t, !.uids = S,
                                    !.msgs = MsgsAt(cache[g].at, S), !.val = cache[g].val]
      <4>1. X.kind = kind
        BY DEF NoJob
      <4>2. job' = [job EXCEPT ![j] = X]
        BY <3>1 DEF Begin
      <4> HIDE DEF X
      <4> QED BY <1>1, <4>1, <4>2
    <3> QED BY <1>7, <3>1 DEF Begins, beginMove, beginPurge, runOnMessages
  <2>2. PICK r \in lastMoved : job' = [job EXCEPT ![j] = IF r.duid = 0 THEN E ELSE U(r)]
    BY <2>1 DEF undoCmd
  <2>3. lastMoved' = lastMoved
    BY <2>1 DEF undoCmd
  <2>4. /\ E.pc = "done" /\ E.err
        /\ U(r).pc = "select" /\ U(r).from = r.to /\ U(r).uids = {r.duid}
    BY DEF NoJob
  <2> HIDE DEF E, U
  <2>5. job'[j] = IF r.duid = 0 THEN E ELSE U(r)
    BY <2>2, <1>1
  <2>6. \A s \in lastMoved : s = r
    BY DEF RecordInv, OneRecord
  <2> QED BY <2>3, <2>4, <2>5, <2>6 DEF UndoFor, Idle
\* It goes on.
<1>8. ASSUME NEW pc, NEW X, job' = [job EXCEPT ![j] = X], lastMoved' = lastMoved,
             X.kind = job[j].kind, X.from = f, X.uids = job[j].uids, X.pc = pc,
             job[j].pc # "done", pc # "done",
             pc = "expunge" => Present(j)' \subseteq box'[f].del,
             pc = "drop" => \A r \in lastMoved : Away(r)'
      PROVE  UndoFor(j)'
  <2>1. job'[j] = X
    BY <1>1, <1>8
  <2>2. job[j].kind = "undo"
    BY <1>8, <2>1
  <2>3. UndoFor(j) /\ ~ Idle(j) /\ ~ Idle(j)'
    BY <1>8, <2>1, <2>2 DEF Idle
  <2> QED BY <1>8, <2>1, <2>3 DEF UndoFor
<1>9. CASE SelectFolder(j) /\ job[j].want \in {0, box[f].val}
  <2> DEFINE X == [job[j] EXCEPT !.pc = "move"]
  <2>1. X.kind = job[j].kind /\ X.from = f /\ X.uids = job[j].uids /\ X.pc = "move"
    BY <1>1 DEF Commands
  <2>2. job' = [job EXCEPT ![j] = X] /\ lastMoved' = lastMoved /\ job[j].pc = "select"
    BY <1>9 DEF SelectFolder, Running
  <2> HIDE DEF X
  <2> QED BY <1>8, <2>1, <2>2
<1>10. CASE CopyOnServer(j)
  <2> DEFINE X == [job[j] EXCEPT !.pc = "copied", !.moved = Results(j)]
  <2>1. X.kind = job[j].kind /\ X.from = f /\ X.uids = job[j].uids /\ X.pc = "copied"
    BY <1>1 DEF Commands
  <2>2. job' = [job EXCEPT ![j] = X] /\ lastMoved' = lastMoved /\ job[j].pc = "move"
    BY <1>10 DEF CopyOnServer, Running
  <2> HIDE DEF X
  <2> QED BY <1>8, <2>1, <2>2
<1>11. CASE StoreDeleted(j)
  <2> DEFINE X == [job[j] EXCEPT !.pc = "expunge"]
  <2>1. X.kind = job[j].kind /\ X.from = f /\ X.uids = job[j].uids /\ X.pc = "expunge"
    BY <1>1 DEF Commands
  <2>2. job' = [job EXCEPT ![j] = X] /\ lastMoved' = lastMoved /\ job[j].pc \in {"copied", "move"}
        /\ ~ Idle(j)
    BY <1>11 DEF StoreDeleted, Running, Idle
  <2>3. f \in Folders /\ box[f] \in Boxes /\ box'[f] = [box[f] EXCEPT !.del = @ \cup Present(j)]
    BY <1>1, <1>11, <2>2 DEF Inv, JobsSound, Sound, TypeOK, StoreDeleted
  <2>4. box'[f].del = box[f].del \cup Present(j) /\ box'[f].at = box[f].at
    BY <2>3 DEF Boxes
  <2> HIDE DEF X
  <2>5. job'[j] = X
    BY <1>1, <2>2
  <2>6. Present(j)' = Present(j)
    BY <2>1, <2>4, <2>5 DEF Present
  <2> QED BY <1>8, <2>1, <2>2, <2>4, <2>6
\* Its message goes.
<1>12. ASSUME NEW S, job[j].kind = "undo", ~ Idle(j), f \in Folders,
              box'[f] = Without(box[f], S), Present(j) \subseteq S
       PROVE  \A r \in lastMoved : Away(r)'
  <2> SUFFICES ASSUME NEW r \in lastMoved PROVE Away(r)'
    OBVIOUS
  <2>1. f = r.to /\ job[j].uids = {r.duid} /\ r.duid # 0
    BY <1>12 DEF UndoFor
  <2>2. r.duid \in Uids /\ r \in Remembered
    BY <1>1, <2>1, CommandFields DEF Remembered
  <2>3. box'[f].at[r.duid] = IF r.duid \in S THEN None ELSE box[f].at[r.duid]
    BY <1>1, <1>12, <2>2, WithoutFacts DEF TypeOK
  <2>4. box'[f].at[r.duid] = None
    BY <1>12, <2>1, <2>2, <2>3 DEF Present, Live
  <2>5. r.msg # None
    BY <2>1, <2>2 DEF RecordInv, MsgKnown
  <2> QED BY <2>1, <2>4, <2>5 DEF Away
<1>13. CASE MoveOnServer(j)
  <2> DEFINE took == MsgsAt(box[f].at, Present(j))
             X == [job[j] EXCEPT !.pc = "drop", !.moved = Results(j), !.took = took]
  <2>1. X.kind = job[j].kind /\ X.from = f /\ X.uids = job[j].uids /\ X.pc = "drop"
    BY <1>1 DEF Commands
  <2>2. job' = [job EXCEPT ![j] = X] /\ lastMoved' = lastMoved /\ job[j].pc = "move" /\ ~ Idle(j)
    BY <1>13 DEF MoveOnServer, Running, Idle
  <2> HIDE DEF X, took
  <2>3. job[j].kind = "undo"
    BY <1>1, <2>1, <2>2
  <2>4. f \in Folders /\ box'[f] = Without(box[f], Present(j))
    BY <1>13, <2>2, MovesFacts DEF MoveOnServer, Inv, JobsSound, Sound
  <2>5. \A r \in lastMoved : Away(r)'
    BY <1>12, <2>2, <2>3, <2>4
  <2> QED BY <1>8, <2>1, <2>2, <2>5
<1>14. CASE UIDExpunge(j)
  <2> DEFINE S == Present(j) \cap box[f].del
             took == MsgsAt(box[f].at, S)
             X == [job[j] EXCEPT !.pc = "drop", !.took = took]
  <2>1. X.kind = job[j].kind /\ X.from = f /\ X.uids = job[j].uids /\ X.pc = "drop"
    BY <1>1 DEF Commands
  <2>2. job' = [job EXCEPT ![j] = X] /\ lastMoved' = lastMoved /\ job[j].pc = "expunge" /\ ~ Idle(j)
    BY <1>14 DEF UIDExpunge, Running, Idle
  <2> HIDE DEF X, took
  <2>3. job[j].kind = "undo"
    BY <1>1, <2>1, <2>2
  <2>4. f \in Folders
    BY <2>2 DEF Inv, JobsSound, Sound
  <2>5. box'[f] = Without(box[f], S)
    BY <1>1, <1>14, <2>4 DEF UIDExpunge, Expunges, TypeOK
  <2>6. Present(j) \subseteq S
    BY <2>2, <2>3 DEF UndoFor
  <2>7. \A r \in lastMoved : Away(r)'
    BY <1>12, <2>2, <2>3, <2>4, <2>5, <2>6
  <2> QED BY <1>8, <2>1, <2>2, <2>7
<1> QED BY <1>4, <1>5, <1>6, <1>7, <1>9, <1>10, <1>11, <1>13, <1>14 DEF GoesOn, Breaks

LEMMA NextUndos ==
    ASSUME Waits, Inv, TypeOK', RecordInv, UndosFor, [Next]_vars
    PROVE  UndosFor'
<1> SUFFICES ASSUME NEW j \in Jobs, job'[j].kind = "undo" PROVE UndoFor(j)'
  BY DEF UndosFor
<1>0. TypeOK /\ MsgKnown
  BY DEF Inv, RecordInv
<1>1. CASE UNCHANGED vars \/ \E f \in Folders : Sync(f)
  <2>1. box' = box /\ lastMoved' = lastMoved /\ job' = job
    BY <1>1 DEF vars, Sync
  <2> QED BY <1>0, <2>1, BoxRests, UndoForKept DEF UndosFor
<1>2. ASSUME NEW g \in Folders, Renumber(g) PROVE UndoFor(j)'
  <2>1. /\ lastMoved' = lastMoved /\ job'[j].kind = job[j].kind
        /\ \/ job'[j] = job[j] /\ ~ (job[j].from = g /\ job[j].pc \in {"move", "copied", "expunge"})
           \/ job'[j].pc = "done" /\ job'[j].err
    BY <1>0, <1>2, RenumberShape DEF Renumber
  <2>2. CASE job'[j].pc = "done" /\ job'[j].err
    BY <2>2 DEF UndoFor, Idle
  <2>3. ASSUME job'[j] = job[j], ~ (job[j].from = g /\ job[j].pc \in {"move", "copied", "expunge"})
        PROVE  UndoFor(j)'
    <3>1. \A f \in Folders : f # g => box'[f] = box[f]
      BY <1>0, <1>2, RenumberedRest DEF TypeOK
    <3>2. job[j].pc = "expunge" => job[j].from \in Folders
      BY <2>1, <2>3 DEF Inv, JobsSound, Sound, Idle
    <3>3. BoxSteps
      <4> SUFFICES ASSUME NEW f \in Folders PROVE Follows(box[f], box'[f])
        BY DEF BoxSteps
      <4>1. box[f].val \in Nat /\ box[f].next \in Nat /\ box[g].val \in Nat
        BY <1>0, BoxFields DEF TypeOK
      <4>2. box'[g].val = box[g].val + 1
        BY <1>0, <1>2, RenumberedVal DEF TypeOK
      <4> QED BY <3>1, <4>1, <4>2 DEF Follows
    <3> QED BY <1>0, <2>1, <2>3, <3>1, <3>2, <3>3, UndoForKept DEF UndosFor
  <2> QED BY <2>1, <2>2, <2>3
<1>3. ASSUME NEW i \in Jobs, Begins(i) \/ GoesOn(i) \/ Breaks(i) PROVE UndoFor(j)'
  <2>1. CASE i = j
    BY <1>3, <2>1, ActorUndo DEF UndosFor
  <2>2. CASE i # j
    <3>1. job'[j] = job[j]
      BY <1>0, <1>3, <2>2, OthersRest
    <3>2. box' = box /\ lastMoved' = lastMoved
      BY <1>3, <2>2, <3>1, UndoUndisturbed
    <3> QED BY <1>0, <3>1, <3>2, BoxRests, UndoForKept DEF UndosFor
  <2> QED BY <2>1, <2>2
<1> QED BY <1>1, <1>2, <1>3 DEF Next

\* Only an undo that worked gives the record up.
LEMMA ForgetsWhenDone ==
    ASSUME TypeOK, [Next]_vars, lastMoved # {}, lastMoved' = {}
    PROVE  \E j \in Jobs : job[j].kind = "undo" /\ job[j].pc = "done" /\ ~ job[j].err
<1>1. PICK j \in Jobs : Begins(j) \/ GoesOn(j) \/ Breaks(j)
  BY DEF Next, vars, Sync, Renumber
<1>2. handleTriageResult(j)
  BY <1>1 DEF Begins, Begin, beginMove, beginPurge, runOnMessages, undoCmd,
       GoesOn, SelectFolder, MoveOnServer, CopyOnServer, StoreDeleted, UIDExpunge, Unsupported,
       dropFromCache, reportMoved, Breaks, AnswerLost, DropFails, Fail
<1> QED BY <1>2 DEF handleTriageResult, Running

\* The record of a move is given up only when its message is not where it was
\* moved to any more, as long as nothing else moves while an undo is under way
\* (triage.go: handleTriageResult).
THEOREM MoveForgottenWhenBack == Waits /\ Spec => ForgottenWhenBack
<1> DEFINE A == lastMoved' = {} => \A r \in lastMoved : Away(r)
<1>1. Init => RecordInv /\ UndosFor
  BY DEF Init, NoJob, RecordInv, MsgKnown, OneRecord, OneEach, UndoAlone, UndosFor, Remembered
<1>2. Waits /\ Inv /\ RecordInv /\ UndosFor /\ [Next]_vars => Inv' /\ RecordInv' /\ UndosFor'
  <2>1. Inv /\ [Next]_vars => Inv' /\ TypeOK'
    BY NextInv DEF Inv
  <2> QED BY <2>1, NextRecord, NextUndos
<1>3. Inv /\ RecordInv /\ UndosFor /\ [Next]_vars => [A]_vars
  <2> SUFFICES ASSUME Inv, RecordInv, UndosFor, [Next]_vars, lastMoved' = {},
                      NEW r \in lastMoved
               PROVE  Away(r)
    OBVIOUS
  <2>1. PICK j \in Jobs : job[j].kind = "undo" /\ job[j].pc = "done" /\ ~ job[j].err
    BY ForgetsWhenDone DEF Inv
  <2> QED BY <2>1 DEF UndosFor, UndoFor
<1>4. [A]_vars =>
        [lastMoved' = {} =>
           \A r \in lastMoved : ~ (/\ r.duid # 0 /\ box[r.to].val = r.dval
                                   /\ box[r.to].at[r.duid] = r.msg)]_vars
  BY DEF Away
<1> HIDE DEF A
<1>5. CASE Waits
  <2>1. Inv /\ RecordInv /\ UndosFor /\ [Next]_vars => Inv' /\ RecordInv' /\ UndosFor'
    BY <1>2, <1>5
  <2>2. Spec => [][A]_vars
    BY <1>1, <1>3, <2>1, InitInv, PTL DEF Spec
  <2> QED BY <2>2, <1>4, PTL DEF ForgottenWhenBack
<1> QED BY <1>5

=============================================================================
