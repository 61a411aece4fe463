-------------------------- MODULE FolderSyncProofs --------------------------
(***************************************************************************)
(* Proofs about FolderSync, for every set of syncers, every window and     *)
(* every bound.                                                            *)
(***************************************************************************)
EXTENDS FolderSync, FiniteSetTheorems, WellFoundedInduction, TLAPS

-----------------------------------------------------------------------------
(* windowHorizon and the counts. *)

\* A nonempty set of naturals has a least element.
LEMMA LeastElement ==
    ASSUME NEW S \in SUBSET Nat, S # {}
    PROVE  \E x \in S : \A y \in S : x <= y
<1>1. PICK x \in S : \A y \in S : ~ (<<y, x>> \in OpToRel(<, Nat))
  BY NatLessThanWellFounded, WFMin, Zenon
<1>2. \A y \in S : ~ (y < x)
  BY <1>1 DEF OpToRel
<1>3. \A y \in S : x <= y
  BY <1>2
<1>4. QED
  BY <1>3, Zenon

\* A nonempty set of UIDs has a greatest element.
LEMMA GreatestUid ==
    ASSUME NEW S \in SUBSET Uid, S # {}
    PROVE  \E x \in S : \A y \in S : y <= x
<1> DEFINE T == {MaxUid - x : x \in S}
<1>1. T \in SUBSET Nat /\ T # {}
  <2>1. ASSUME NEW x \in S PROVE MaxUid - x \in Nat
    <3>1. x \in 1 .. MaxUid
      BY DEF Uid
    <3>2. QED
      BY <3>1, FolderSyncAssumption
  <2>2. QED
    BY <2>1
<1>2. PICK t \in T : \A y \in T : t <= y
  BY <1>1, LeastElement, Zenon
<1>3. PICK x \in S : t = MaxUid - x
  BY <1>2
<1>4. ASSUME NEW y \in S PROVE y <= x
  <2>1. t <= MaxUid - y
    BY <1>2
  <2>2. x \in 1 .. MaxUid /\ y \in 1 .. MaxUid
    BY DEF Uid
  <2>3. QED
    BY <1>3, <2>1, <2>2, FolderSyncAssumption
<1>5. QED
  BY <1>3, <1>4

\* windowHorizon of a listing is 0 or a UID of the listing.
LEMMA WindowHorizonType ==
    ASSUME NEW listed \in SUBSET Uid, NEW count \in Nat \ {0}
    PROVE  windowHorizon(listed, count) \in listed \cup {0}
<1> DEFINE recent == {u \in listed : Cardinality({v \in listed : v > u}) < count}
<1>1. CASE Cardinality(listed) <= count
  BY <1>1 DEF windowHorizon
<1>2. CASE ~ (Cardinality(listed) <= count)
  <2>1. listed # {}
    BY <1>2, FS_EmptySet
  <2>2. PICK m \in listed : \A y \in listed : y <= m
    BY <2>1, GreatestUid, Zenon
  <2>3. {v \in listed : v > m} = {}
    <3>1. listed \subseteq Nat
      BY DEF Uid
    <3>2. ASSUME NEW v \in listed PROVE ~ (v > m)
      <4>1. v <= m /\ v \in Nat /\ m \in Nat
        BY <2>2, <3>1
      <4>2. QED
        BY <4>1
    <3>3. QED
      BY <3>2
  <2>4. m \in recent
    BY <2>3, FS_EmptySet
  <2>5. recent \in SUBSET Nat /\ recent # {}
    <3>1. listed \subseteq Nat
      BY DEF Uid
    <3>2. QED
      BY <2>4, <3>1
  <2>6. \E u \in recent : \A v \in recent : u <= v
    BY <2>5, LeastElement, Zenon
  <2>7. windowHorizon(listed, count) = CHOOSE u \in recent : \A v \in recent : u <= v
    BY <1>2 DEF windowHorizon
  <2>8. QED
    BY <2>6, <2>7
<1>3. QED
  BY <1>1, <1>2

\* The counts of a messages table are naturals.
LEMMA CountsType ==
    ASSUME NEW rs \in [Uid -> Row]
    PROVE  CountsOf(rs) \in [total : Nat, unread : Nat]
<1> DEFINE in == {u \in Uid : rs[u].val # 0}
<1>1. IsFiniteSet(Uid)
  BY FS_Interval, FolderSyncAssumption DEF Uid
<1>2. IsFiniteSet(in)
  <2>1. in \in SUBSET Uid
    OBVIOUS
  <2>2. QED
    BY <1>1, <2>1, FS_Subset, Zenon
<1>3. IsFiniteSet({u \in in : ~ rs[u].seen})
  <2>1. {u \in in : ~ rs[u].seen} \in SUBSET in
    OBVIOUS
  <2>2. QED
    BY <1>2, <2>1, FS_Subset, Zenon
<1>4. Cardinality(in) \in Nat /\ Cardinality({u \in in : ~ rs[u].seen}) \in Nat
  BY <1>2, <1>3, FS_CardinalityType, Zenon
<1>5. QED
  BY <1>4 DEF CountsOf

-----------------------------------------------------------------------------
(* What each step of a sync makes of its session. *)

\* The session of a syncer at rest is well typed.
LEMMA IdleType == Idle \in Session
BY FolderSyncAssumption
   DEF Idle, NoFolder, FolderRow, Session, Stage, Validity, ModSeq, Uid

\* The session after SelectFolder.
LEMMA SelectEffect ==
    ASSUME TypeOK, NEW s \in Syncers, NEW c \in CondStore, SelectFolder(s, c)
    PROVE  /\ sess' \in [Syncers -> Session]
           /\ \A t \in Syncers \ {s} : sess'[t] = sess[t]
           /\ sess'[s].pc = IF sess[s].prior.val # 0 /\ sess[s].prior.val # uidValidity THEN "clear" ELSE "list"
           /\ sess'[s].val = uidValidity
           /\ sess'[s].hms = IF c THEN highestModSeq ELSE 0
           /\ sess'[s].prior = sess[s].prior /\ sess'[s].horizon = sess[s].horizon /\ sess'[s].changed = sess[s].changed
           /\ sess'[s].changedSeen = sess[s].changedSeen /\ sess'[s].newUids = sess[s].newUids /\ sess'[s].updates = sess[s].updates
           /\ sess'[s].fetched = sess[s].fetched /\ sess'[s].fetchedSeen = sess[s].fetchedSeen /\ sess'[s].remote = sess[s].remote
           /\ sess'[s].stale = sess[s].stale
<1> DEFINE p == IF sess[s].prior.val # 0 /\ sess[s].prior.val # uidValidity THEN "clear" ELSE "list"
           v == uidValidity
           h == IF c THEN highestModSeq ELSE 0
<1> DEFINE r == [sess[s] EXCEPT !.pc = p, !.val = v, !.hms = h]
<1>1. sess' = [sess EXCEPT ![s] = r]
  BY DEF SelectFolder
<1>2. sess[s] \in Session
  BY DEF TypeOK
<1>3. p \in Stage
  BY DEF Stage
<1>4. v \in Validity
  BY FolderSyncAssumption DEF TypeOK, Validity
<1>5. h \in ModSeq
  BY FolderSyncAssumption DEF TypeOK, ModSeq
<1> HIDE DEF p, v, h
<1>6. r \in Session
  BY <1>2, <1>3, <1>4, <1>5 DEF Session, Stage
<1>7. /\ sess' \in [Syncers -> Session] /\ sess'[s] = r
      /\ \A t \in Syncers \ {s} : sess'[t] = sess[t]
  <2> HIDE DEF r
  <2> QED
    BY <1>1, <1>6 DEF TypeOK
<1>8. QED
  BY <1>2, <1>7 DEF Session, p, v, h

\* The session after ClearFolderMessages.
LEMMA ClearEffect ==
    ASSUME TypeOK, NEW s \in Syncers, ClearFolderMessages(s)
    PROVE  /\ sess' \in [Syncers -> Session]
           /\ \A t \in Syncers \ {s} : sess'[t] = sess[t]
           /\ sess'[s].pc = "list"
           /\ sess'[s].prior = sess[s].prior /\ sess'[s].val = sess[s].val /\ sess'[s].hms = sess[s].hms
           /\ sess'[s].horizon = sess[s].horizon /\ sess'[s].changed = sess[s].changed /\ sess'[s].changedSeen = sess[s].changedSeen
           /\ sess'[s].newUids = sess[s].newUids /\ sess'[s].updates = sess[s].updates /\ sess'[s].fetched = sess[s].fetched
           /\ sess'[s].fetchedSeen = sess[s].fetchedSeen /\ sess'[s].remote = sess[s].remote /\ sess'[s].stale = sess[s].stale
<1> DEFINE r == [sess[s] EXCEPT !.pc = "list"]
<1>1. sess' = [sess EXCEPT ![s] = r]
  BY DEF ClearFolderMessages
<1>2. sess[s] \in Session
  BY DEF TypeOK
<1>3. r \in Session
  BY <1>2 DEF Session, Stage
<1>4. /\ sess' \in [Syncers -> Session] /\ sess'[s] = r
      /\ \A t \in Syncers \ {s} : sess'[t] = sess[t]
  <2> HIDE DEF r
  <2> QED
    BY <1>1, <1>3 DEF TypeOK
<1>5. QED
  BY <1>2, <1>4 DEF Session

\* The session after FetchFlags.
LEMMA ListEffect ==
    ASSUME TypeOK, NEW s \in Syncers, FetchFlags(s)
    PROVE  /\ sess' \in [Syncers -> Session]
           /\ \A t \in Syncers \ {s} : sess'[t] = sess[t]
           /\ sess'[s].pc = "diff"
           /\ sess'[s].changed = IF useCondStore(s) THEN {u \in Live : msgs[u].mod > sess[s].prior.mod} ELSE Live
           /\ sess'[s].changedSeen = {u \in IF useCondStore(s) THEN {u \in Live : msgs[u].mod > sess[s].prior.mod} ELSE Live : msgs[u].seen}
           /\ sess'[s].prior = sess[s].prior /\ sess'[s].val = sess[s].val /\ sess'[s].hms = sess[s].hms
           /\ sess'[s].horizon = sess[s].horizon /\ sess'[s].newUids = sess[s].newUids /\ sess'[s].updates = sess[s].updates
           /\ sess'[s].fetched = sess[s].fetched /\ sess'[s].fetchedSeen = sess[s].fetchedSeen /\ sess'[s].remote = sess[s].remote
           /\ sess'[s].stale = sess[s].stale
<1> DEFINE listed == IF useCondStore(s) THEN {u \in Live : msgs[u].mod > sess[s].prior.mod} ELSE Live
           seen == {u \in IF useCondStore(s) THEN {u \in Live : msgs[u].mod > sess[s].prior.mod} ELSE Live : msgs[u].seen}
<1> DEFINE r == [sess[s] EXCEPT !.pc = "diff", !.changed = listed, !.changedSeen = seen]
<1>1. sess' = [sess EXCEPT ![s] = r]
  BY DEF FetchFlags
<1>2. sess[s] \in Session
  BY DEF TypeOK
<1>3. listed \in SUBSET Uid
  BY DEF Live
<1>4. seen \in SUBSET Uid
  BY DEF Live
<1> HIDE DEF listed, seen
<1>5. r \in Session
  BY <1>2, <1>3, <1>4 DEF Session, Stage
<1>6. /\ sess' \in [Syncers -> Session] /\ sess'[s] = r
      /\ \A t \in Syncers \ {s} : sess'[t] = sess[t]
  <2> HIDE DEF r
  <2> QED
    BY <1>1, <1>5 DEF TypeOK
<1>7. QED
  BY <1>2, <1>6 DEF Session, listed, seen

\* The session after FetchHeaders.
LEMMA HeadersEffect ==
    ASSUME TypeOK, NEW s \in Syncers, FetchHeaders(s)
    PROVE  /\ sess' \in [Syncers -> Session]
           /\ \A t \in Syncers \ {s} : sess'[t] = sess[t]
           /\ sess'[s].pc = "store"
           /\ sess'[s].newUids = {}
           /\ sess'[s].fetched = sess[s].newUids \cap Live
           /\ sess'[s].fetchedSeen = {u \in sess[s].newUids \cap Live : msgs[u].seen}
           /\ sess'[s].prior = sess[s].prior /\ sess'[s].val = sess[s].val /\ sess'[s].hms = sess[s].hms
           /\ sess'[s].horizon = sess[s].horizon /\ sess'[s].changed = sess[s].changed /\ sess'[s].changedSeen = sess[s].changedSeen
           /\ sess'[s].updates = sess[s].updates /\ sess'[s].remote = sess[s].remote /\ sess'[s].stale = sess[s].stale
<1> DEFINE got == sess[s].newUids \cap Live
           seen == {u \in sess[s].newUids \cap Live : msgs[u].seen}
<1> DEFINE r == [sess[s] EXCEPT !.pc = "store", !.newUids = {}, !.fetched = got, !.fetchedSeen = seen]
<1>1. sess' = [sess EXCEPT ![s] = r]
  BY DEF FetchHeaders
<1>2. sess[s] \in Session
  BY DEF TypeOK
<1>3. got \in SUBSET Uid
  BY DEF Live
<1>4. seen \in SUBSET Uid
  BY DEF Live
<1> HIDE DEF got, seen
<1>5. r \in Session
  BY <1>2, <1>3, <1>4 DEF Session, Stage
<1>6. /\ sess' \in [Syncers -> Session] /\ sess'[s] = r
      /\ \A t \in Syncers \ {s} : sess'[t] = sess[t]
  <2> HIDE DEF r
  <2> QED
    BY <1>1, <1>5 DEF TypeOK
<1>7. QED
  BY <1>2, <1>6 DEF Session, got, seen

\* The session after UpsertMessageHeaders.
LEMMA StoreEffect ==
    ASSUME TypeOK, NEW s \in Syncers, UpsertMessageHeaders(s)
    PROVE  /\ sess' \in [Syncers -> Session]
           /\ \A t \in Syncers \ {s} : sess'[t] = sess[t]
           /\ sess'[s].pc = "flags"
           /\ sess'[s].fetched = {}
           /\ sess'[s].fetchedSeen = {}
           /\ sess'[s].prior = sess[s].prior /\ sess'[s].val = sess[s].val /\ sess'[s].hms = sess[s].hms
           /\ sess'[s].horizon = sess[s].horizon /\ sess'[s].changed = sess[s].changed /\ sess'[s].changedSeen = sess[s].changedSeen
           /\ sess'[s].newUids = sess[s].newUids /\ sess'[s].updates = sess[s].updates /\ sess'[s].remote = sess[s].remote
           /\ sess'[s].stale = sess[s].stale
<1> DEFINE r == [sess[s] EXCEPT !.pc = "flags", !.fetched = {}, !.fetchedSeen = {}]
<1>1. sess' = [sess EXCEPT ![s] = r]
  BY DEF UpsertMessageHeaders
<1>2. sess[s] \in Session
  BY DEF TypeOK
<1>3. r \in Session
  BY <1>2 DEF Session, Stage
<1>4. /\ sess' \in [Syncers -> Session] /\ sess'[s] = r
      /\ \A t \in Syncers \ {s} : sess'[t] = sess[t]
  <2> HIDE DEF r
  <2> QED
    BY <1>1, <1>3 DEF TypeOK
<1>5. QED
  BY <1>2, <1>4 DEF Session

\* The session after UpdateMessageFlags.
LEMMA FlagsEffect ==
    ASSUME TypeOK, NEW s \in Syncers, UpdateMessageFlags(s)
    PROVE  /\ sess' \in [Syncers -> Session]
           /\ \A t \in Syncers \ {s} : sess'[t] = sess[t]
           /\ sess'[s].pc = IF useCondStore(s) THEN "uids" ELSE "find"
           /\ sess'[s].remote = IF useCondStore(s) THEN {} ELSE sess[s].changed
           /\ sess'[s].changed = {}
           /\ sess'[s].changedSeen = {}
           /\ sess'[s].updates = {}
           /\ sess'[s].prior = sess[s].prior /\ sess'[s].val = sess[s].val /\ sess'[s].hms = sess[s].hms
           /\ sess'[s].horizon = sess[s].horizon /\ sess'[s].newUids = sess[s].newUids /\ sess'[s].fetched = sess[s].fetched
           /\ sess'[s].fetchedSeen = sess[s].fetchedSeen /\ sess'[s].stale = sess[s].stale
<1> DEFINE p == IF useCondStore(s) THEN "uids" ELSE "find"
           rem == IF useCondStore(s) THEN {} ELSE sess[s].changed
<1> DEFINE r == [sess[s] EXCEPT !.pc = p, !.remote = rem, !.changed = {}, !.changedSeen = {}, !.updates = {}]
<1>1. sess' = [sess EXCEPT ![s] = r]
  BY DEF UpdateMessageFlags
<1>2. sess[s] \in Session
  BY DEF TypeOK
<1>3. p \in Stage
  BY DEF Stage
<1>4. rem \in SUBSET Uid
  BY <1>2 DEF Session
<1> HIDE DEF p, rem
<1>5. r \in Session
  BY <1>2, <1>3, <1>4 DEF Session, Stage
<1>6. /\ sess' \in [Syncers -> Session] /\ sess'[s] = r
      /\ \A t \in Syncers \ {s} : sess'[t] = sess[t]
  <2> HIDE DEF r
  <2> QED
    BY <1>1, <1>5 DEF TypeOK
<1>7. QED
  BY <1>2, <1>6 DEF Session, p, rem

\* The session after ListUIDs.
LEMMA UidsEffect ==
    ASSUME TypeOK, NEW s \in Syncers, ListUIDs(s)
    PROVE  /\ sess' \in [Syncers -> Session]
           /\ \A t \in Syncers \ {s} : sess'[t] = sess[t]
           /\ sess'[s].pc = "find"
           /\ sess'[s].remote = Live
           /\ sess'[s].prior = sess[s].prior /\ sess'[s].val = sess[s].val /\ sess'[s].hms = sess[s].hms
           /\ sess'[s].horizon = sess[s].horizon /\ sess'[s].changed = sess[s].changed /\ sess'[s].changedSeen = sess[s].changedSeen
           /\ sess'[s].newUids = sess[s].newUids /\ sess'[s].updates = sess[s].updates /\ sess'[s].fetched = sess[s].fetched
           /\ sess'[s].fetchedSeen = sess[s].fetchedSeen /\ sess'[s].stale = sess[s].stale
<1> DEFINE lv == Live
<1> DEFINE r == [sess[s] EXCEPT !.pc = "find", !.remote = lv]
<1>1. sess' = [sess EXCEPT ![s] = r]
  BY DEF ListUIDs
<1>2. sess[s] \in Session
  BY DEF TypeOK
<1>3. lv \in SUBSET Uid
  BY DEF Live
<1> HIDE DEF lv
<1>4. r \in Session
  BY <1>2, <1>3 DEF Session, Stage
<1>5. /\ sess' \in [Syncers -> Session] /\ sess'[s] = r
      /\ \A t \in Syncers \ {s} : sess'[t] = sess[t]
  <2> HIDE DEF r
  <2> QED
    BY <1>1, <1>4 DEF TypeOK
<1>6. QED
  BY <1>2, <1>5 DEF Session, lv

\* The session after FindStale.
LEMMA FindEffect ==
    ASSUME TypeOK, NEW s \in Syncers, FindStale(s)
    PROVE  /\ sess' \in [Syncers -> Session]
           /\ \A t \in Syncers \ {s} : sess'[t] = sess[t]
           /\ sess'[s].pc = IF Cached \ sess[s].remote = {} THEN "finish" ELSE "delete"
           /\ sess'[s].remote = {}
           /\ sess'[s].stale = Cached \ sess[s].remote
           /\ sess'[s].prior = sess[s].prior /\ sess'[s].val = sess[s].val /\ sess'[s].hms = sess[s].hms
           /\ sess'[s].horizon = sess[s].horizon /\ sess'[s].changed = sess[s].changed /\ sess'[s].changedSeen = sess[s].changedSeen
           /\ sess'[s].newUids = sess[s].newUids /\ sess'[s].updates = sess[s].updates /\ sess'[s].fetched = sess[s].fetched
           /\ sess'[s].fetchedSeen = sess[s].fetchedSeen
<1> DEFINE p == IF Cached \ sess[s].remote = {} THEN "finish" ELSE "delete"
           st == Cached \ sess[s].remote
<1> DEFINE r == [sess[s] EXCEPT !.pc = p, !.remote = {}, !.stale = st]
<1>1. sess' = [sess EXCEPT ![s] = r]
  BY DEF FindStale
<1>2. sess[s] \in Session
  BY DEF TypeOK
<1>3. p \in Stage
  BY DEF Stage
<1>4. st \in SUBSET Uid
  BY DEF Cached
<1> HIDE DEF p, st
<1>5. r \in Session
  BY <1>2, <1>3, <1>4 DEF Session, Stage
<1>6. /\ sess' \in [Syncers -> Session] /\ sess'[s] = r
      /\ \A t \in Syncers \ {s} : sess'[t] = sess[t]
  <2> HIDE DEF r
  <2> QED
    BY <1>1, <1>5 DEF TypeOK
<1>7. QED
  BY <1>2, <1>6 DEF Session, p, st

\* The session after DeleteStale.
LEMMA DeleteEffect ==
    ASSUME TypeOK, NEW s \in Syncers, DeleteStale(s)
    PROVE  /\ sess' \in [Syncers -> Session]
           /\ \A t \in Syncers \ {s} : sess'[t] = sess[t]
           /\ sess'[s].pc = "finish"
           /\ sess'[s].stale = {}
           /\ sess'[s].prior = sess[s].prior /\ sess'[s].val = sess[s].val /\ sess'[s].hms = sess[s].hms
           /\ sess'[s].horizon = sess[s].horizon /\ sess'[s].changed = sess[s].changed /\ sess'[s].changedSeen = sess[s].changedSeen
           /\ sess'[s].newUids = sess[s].newUids /\ sess'[s].updates = sess[s].updates /\ sess'[s].fetched = sess[s].fetched
           /\ sess'[s].fetchedSeen = sess[s].fetchedSeen /\ sess'[s].remote = sess[s].remote
<1> DEFINE r == [sess[s] EXCEPT !.pc = "finish", !.stale = {}]
<1>1. sess' = [sess EXCEPT ![s] = r]
  BY DEF DeleteStale
<1>2. sess[s] \in Session
  BY DEF TypeOK
<1>3. r \in Session
  BY <1>2 DEF Session, Stage
<1>4. /\ sess' \in [Syncers -> Session] /\ sess'[s] = r
      /\ \A t \in Syncers \ {s} : sess'[t] = sess[t]
  <2> HIDE DEF r
  <2> QED
    BY <1>1, <1>3 DEF TypeOK
<1>5. QED
  BY <1>2, <1>4 DEF Session

\* The session after Diff: what the listing says of the cache.
LEMMA DiffEffect ==
    ASSUME TypeOK, NEW s \in Syncers, Diff(s)
    PROVE  /\ sess' \in [Syncers -> Session]
           /\ \A t \in Syncers \ {s} : sess'[t] = sess[t]
           /\ sess'[s].pc \in {"flags", "headers"}
           /\ sess'[s].pc = "flags" => sess'[s].newUids = {}
           /\ sess'[s].horizon \in 0 .. MaxUid
           /\ ~ freshCache(s) => sess'[s].horizon = sess[s].prior.horizon
           /\ sess'[s].newUids = {u \in sess[s].changed \ Cached : u >= sess'[s].horizon}
           /\ sess'[s].updates = {u \in sess[s].changed \cap Cached :
                                    rows[u].seen # (u \in sess[s].changedSeen)}
           /\ sess'[s].prior = sess[s].prior /\ sess'[s].val = sess[s].val
           /\ sess'[s].hms = sess[s].hms /\ sess'[s].changed = sess[s].changed
           /\ sess'[s].changedSeen = sess[s].changedSeen /\ sess'[s].fetched = sess[s].fetched
           /\ sess'[s].fetchedSeen = sess[s].fetchedSeen
           /\ sess'[s].remote = sess[s].remote /\ sess'[s].stale = sess[s].stale
<1> DEFINE hz == IF ~ freshCache(s) THEN sess[s].prior.horizon
                 ELSE IF sess[s].window > 0 THEN windowHorizon(sess[s].changed, sess[s].window)
                 ELSE 0
           new == {u \in sess[s].changed \ Cached : u >= hz}
           differ == {u \in sess[s].changed \cap Cached :
                        rows[u].seen # (u \in sess[s].changedSeen)}
           p == IF new = {} THEN "flags" ELSE "headers"
<1> DEFINE r == [sess[s] EXCEPT !.pc = p, !.window = 0, !.horizon = hz,
                                !.newUids = new, !.updates = differ]
<1>1. sess' = [sess EXCEPT ![s] = r]
  BY DEF Diff
<1>2. sess[s] \in Session
  BY DEF TypeOK
<1>3. hz \in 0 .. MaxUid
  <2>1. sess[s].prior.horizon \in 0 .. MaxUid /\ sess[s].changed \in SUBSET Uid
        /\ sess[s].window \in Nat
    BY <1>2 DEF Session, FolderRow
  <2>2. CASE sess[s].window > 0
    <3>1. windowHorizon(sess[s].changed, sess[s].window) \in sess[s].changed \cup {0}
      BY <2>1, <2>2, WindowHorizonType
    <3>2. windowHorizon(sess[s].changed, sess[s].window) \in 0 .. MaxUid
      BY <2>1, <3>1, FolderSyncAssumption DEF Uid
    <3>3. QED
      BY <2>1, <3>2, FolderSyncAssumption
  <2>3. CASE ~ (sess[s].window > 0)
    BY <2>1, <2>3, FolderSyncAssumption
  <2>4. QED
    BY <2>2, <2>3
<1>4. new \in SUBSET Uid /\ differ \in SUBSET Uid
  BY <1>2 DEF Session
<1>5. p \in {"flags", "headers"} /\ (p = "flags" => new = {})
  OBVIOUS
<1>6. ~ freshCache(s) => hz = sess[s].prior.horizon
  OBVIOUS
<1>7. new = {u \in sess[s].changed \ Cached : u >= hz}
  OBVIOUS
<1> HIDE DEF hz, new, p
<1>8. r \in Session
  BY <1>2, <1>3, <1>4, <1>5 DEF Session, Stage
<1>9. /\ sess' \in [Syncers -> Session] /\ sess'[s] = r
      /\ \A t \in Syncers \ {s} : sess'[t] = sess[t]
  <2> HIDE DEF r
  <2> QED
    BY <1>1, <1>8 DEF TypeOK
<1>10. /\ sess'[s].pc = p /\ sess'[s].horizon = hz /\ sess'[s].newUids = new
       /\ sess'[s].updates = differ
  BY <1>2, <1>9 DEF Session
<1>11. /\ sess'[s].prior = sess[s].prior /\ sess'[s].val = sess[s].val
       /\ sess'[s].hms = sess[s].hms /\ sess'[s].changed = sess[s].changed
       /\ sess'[s].changedSeen = sess[s].changedSeen /\ sess'[s].fetched = sess[s].fetched
       /\ sess'[s].fetchedSeen = sess[s].fetchedSeen
       /\ sess'[s].remote = sess[s].remote /\ sess'[s].stale = sess[s].stale
  BY <1>2, <1>9 DEF Session
<1>12. QED
  BY <1>3, <1>5, <1>6, <1>7, <1>9, <1>10, <1>11

\* The session after Start, and after a sync that ends.
LEMMA StartEffect ==
    ASSUME TypeOK, NEW s \in Syncers, NEW w \in Windows, Start(s, w)
    PROVE  /\ sess' \in [Syncers -> Session]
           /\ \A t \in Syncers \ {s} : sess'[t] = sess[t]
           /\ sess'[s].pc = "select" /\ sess'[s].prior = folder
           /\ sess'[s].changed = {} /\ sess'[s].updates = {}
<1> DEFINE r == [Idle EXCEPT !.pc = "select", !.window = w, !.prior = folder]
<1>1. sess' = [sess EXCEPT ![s] = r]
  BY DEF Start
<1>2. Idle \in Session
  BY IdleType
<1>3. w \in Nat /\ folder \in FolderRow
  BY FolderSyncAssumption DEF TypeOK
<1>4. r \in Session
  BY <1>2, <1>3 DEF Session, Stage
<1>5. /\ sess' \in [Syncers -> Session] /\ sess'[s] = r
      /\ \A t \in Syncers \ {s} : sess'[t] = sess[t]
  <2> HIDE DEF r
  <2> QED
    BY <1>1, <1>4 DEF TypeOK
<1>6. QED
  BY <1>2, <1>5 DEF Session, Idle

LEMMA EndEffect ==
    ASSUME TypeOK, NEW s \in Syncers, sess' = [sess EXCEPT ![s] = Idle]
    PROVE  /\ sess' \in [Syncers -> Session]
           /\ \A t \in Syncers \ {s} : sess'[t] = sess[t]
           /\ sess'[s].pc = "idle" /\ sess'[s].changed = {} /\ sess'[s].updates = {}
<1>1. sess' \in [Syncers -> Session] /\ sess'[s] = Idle
      /\ \A t \in Syncers \ {s} : sess'[t] = sess[t]
  BY IdleType DEF TypeOK
<1>2. QED
  BY <1>1 DEF Idle

-----------------------------------------------------------------------------
(* Type correctness. *)

\* A mailbox just numbered is well typed.
LEMMA NumberedType ==
    ASSUME NEW n, NEW flagged
    PROVE  Numbered(n, flagged) \in [Uid -> [mod : ModSeq, seen : BOOLEAN]]
BY FolderSyncAssumption DEF Numbered, NoMsg, ModSeq

\* The initial states are well typed.
LEMMA InitType == Init => TypeOK
<1> SUFFICES ASSUME Init PROVE TypeOK
  OBVIOUS
<1> USE FolderSyncAssumption DEF Init
<1>1. uidValidity \in 1 .. MaxValidity /\ highestModSeq \in 1 .. MaxMod /\ fails \in 0 .. MaxFail
  OBVIOUS
<1>2. uidNext \in 1 .. MaxUid + 1
  OBVIOUS
<1>3. msgs \in [Uid -> [mod : ModSeq, seen : BOOLEAN]]
  BY NumberedType
<1>4. rows \in [Uid -> Row] /\ counts \in [total : Nat, unread : Nat]
  BY DEF NoRow, Row, Validity
<1>5. folder \in FolderRow
  BY DEF NoFolder, FolderRow, Validity, ModSeq
<1>6. sess \in [Syncers -> Session]
  BY IdleType
<1>7. QED
  BY <1>1, <1>2, <1>3, <1>4, <1>5, <1>6 DEF TypeOK

\* Every step keeps the state well typed.
LEMMA StepType == TypeOK /\ [Next]_vars => TypeOK'
<1> SUFFICES ASSUME TypeOK, [Next]_vars PROVE TypeOK'
  OBVIOUS
<1>1. CASE Deliver
  BY <1>1, FolderSyncAssumption DEF Deliver, TypeOK, cache, Uid, ModSeq
<1>2. ASSUME NEW u \in Uid, RemoteFlag(u) PROVE TypeOK'
  BY <1>2, FolderSyncAssumption DEF RemoteFlag, TypeOK, cache, ModSeq
<1>3. ASSUME NEW u \in Uid, Expunge(u) PROVE TypeOK'
  BY <1>3, FolderSyncAssumption DEF Expunge, TypeOK, cache, NoMsg, ModSeq
<1>4. ASSUME NEW n \in 0 .. MaxUid, NEW flagged \in SUBSET (1 .. n), Renumber(n, flagged)
      PROVE  TypeOK'
  BY <1>4, NumberedType, FolderSyncAssumption DEF Renumber, TypeOK, cache
<1>5. ASSUME NEW s \in Syncers, SyncStep(s) PROVE TypeOK'
  <2>1. ASSUME NEW w \in Windows, Start(s, w) PROVE TypeOK'
    BY <2>1, StartEffect DEF Start, TypeOK, server, cache
  <2>2. ASSUME NEW c \in CondStore, SelectFolder(s, c) PROVE TypeOK'
    BY <2>2, SelectEffect DEF SelectFolder, TypeOK, server, cache
  <2>3. CASE ClearFolderMessages(s)
    <3>1. rows' \in [Uid -> Row]
      BY <2>3, FolderSyncAssumption DEF ClearFolderMessages, NoRow, Row, Validity
    <3>2. QED
      BY <2>3, <3>1, ClearEffect DEF ClearFolderMessages, TypeOK, server, cache
  <2>4. CASE FetchFlags(s)
    BY <2>4, ListEffect DEF FetchFlags, TypeOK, server, cache
  <2>5. CASE Diff(s)
    BY <2>5, DiffEffect DEF Diff, TypeOK, server, cache
  <2>6. CASE FetchHeaders(s)
    BY <2>6, HeadersEffect DEF FetchHeaders, TypeOK, server, cache
  <2>7. CASE UpsertMessageHeaders(s)
    <3>1. sess[s].val \in Validity
      BY DEF TypeOK, Session
    <3>2. rows' \in [Uid -> Row]
      BY <2>7, <3>1 DEF UpsertMessageHeaders, TypeOK, Row
    <3>3. QED
      BY <2>7, <3>2, StoreEffect DEF UpsertMessageHeaders, TypeOK, server, cache
  <2>8. CASE UpdateMessageFlags(s)
    <3>1. rows' \in [Uid -> Row]
      BY <2>8 DEF UpdateMessageFlags, TypeOK, Row
    <3>2. QED
      BY <2>8, <3>1, FlagsEffect DEF UpdateMessageFlags, TypeOK, server, cache
  <2>9. CASE ListUIDs(s)
    BY <2>9, UidsEffect DEF ListUIDs, TypeOK, server, cache
  <2>10. CASE FindStale(s)
    BY <2>10, FindEffect DEF FindStale, TypeOK, server, cache
  <2>11. CASE DeleteStale(s)
    <3>1. rows' \in [Uid -> Row]
      BY <2>11, FolderSyncAssumption DEF DeleteStale, TypeOK, NoRow, Row, Validity
    <3>2. QED
      BY <2>11, <3>1, DeleteEffect DEF DeleteStale, TypeOK, server, cache
  <2>12. CASE UpdateFolderSyncState(s)
    <3>1. folder' \in FolderRow
      BY <2>12 DEF UpdateFolderSyncState, TypeOK, Session, FolderRow
    <3>2. counts' \in [total : Nat, unread : Nat]
      BY <2>12, CountsType DEF UpdateFolderSyncState, TypeOK
    <3>3. QED
      BY <2>12, <3>1, <3>2, EndEffect DEF UpdateFolderSyncState, TypeOK, server, cache
  <2>13. CASE Disconnect(s)
    BY <2>13, EndEffect DEF Disconnect, TypeOK, server, cache
  <2>14. QED
    BY <1>5, <2>1, <2>2, <2>3, <2>4, <2>5, <2>6, <2>7, <2>8, <2>9, <2>10, <2>11,
       <2>12, <2>13 DEF SyncStep
<1>6. ASSUME NEW s \in Syncers, Fail(s) PROVE TypeOK'
  <2>1. fails' \in 0 .. MaxFail
    BY <1>6, FolderSyncAssumption DEF Fail, TypeOK
  <2>2. QED
    BY <1>6, <2>1, EndEffect DEF Fail, TypeOK, server, cache
<1>7. CASE UNCHANGED vars
  BY <1>7 DEF TypeOK, vars, server, cache
<1>8. QED
  BY <1>1, <1>2, <1>3, <1>4, <1>5, <1>6, <1>7 DEF Next, ServerStep

\* The state is well typed for every value of the constants.
THEOREM TypeCorrect == Spec => []TypeOK
BY InitType, StepType, PTL DEF Spec

-----------------------------------------------------------------------------
(* The inductive invariant, for syncs that do not overlap.                  *)

\* The initial states satisfy the invariant.
LEMMA InitInv == Init => IInv
<1> SUFFICES ASSUME Init PROVE IInv
  OBVIOUS
<1>1. TypeOK
  BY InitType
<1>2. \A s \in Syncers : sess[s] = Idle
  BY DEF Init
<1>3. Cached = {} /\ folder = NoFolder /\ uidValidity = 1 /\ highestModSeq = 1
  BY DEF Init, Cached, NoRow
<1>4. \A u \in Uid : msgs[u].mod <= highestModSeq
  BY <1>3 DEF Init, Numbered, NoMsg
<1>5. OneSync /\ BaselineKnown /\ RowsNumbered /\ NothingMissed /\ FlagsCatchUp
  BY <1>2, <1>3, <1>4 DEF OneSync, Active, Idle, BaselineKnown, RowsNumbered,
       NothingMissed, FlagsCatchUp, Current, NoFolder
<1>6. ASSUME NEW s \in Syncers PROVE SessionInv(s)
  BY <1>2 DEF SessionInv, SessionNumbered, ListingComplete, MissingPending, FlagPending,
       KeepsSettled, Active, Selected, Listed, Diffed, Idle
<1>7. QED
  BY <1>1, <1>5, <1>6 DEF IInv

\* A session at rest satisfies its part of the invariant.
LEMMA RestInv ==
    ASSUME NEW s \in Syncers, sess'[s].pc = "idle", sess'[s].updates = {}
    PROVE  SessionInv(s)'
BY DEF SessionInv, SessionNumbered, ListingComplete, MissingPending, FlagPending,
       KeepsSettled, Active, Selected, Listed, Diffed

\* While a sync runs, the other syncers rest, and stay at rest.
LEMMA OthersRest ==
    ASSUME IInv, NEW s \in Syncers, Active(s),
           \A t \in Syncers \ {s} : sess'[t] = sess[t]
    PROVE  OneSync' /\ \A t \in Syncers \ {s} : SessionInv(t)'
<1>1. ASSUME NEW t \in Syncers \ {s} PROVE sess'[t].pc = "idle" /\ SessionInv(t)'
  <2>1. sess[t].pc = "idle"
    BY DEF IInv, OneSync, Active
  <2>2. sess[t].updates = {}
    BY <2>1 DEF IInv, SessionInv, FlagPending
  <2>3. QED
    BY <2>1, <2>2, RestInv
<1>2. QED
  BY <1>1 DEF OneSync, Active

\* A step that only reads leaves the server's and the cache's part as it is.
LEMMA ReadOnly ==
    ASSUME IInv, UNCHANGED <<server, cache, early>>
    PROVE  BaselineKnown' /\ RowsNumbered' /\ NothingMissed' /\ FlagsCatchUp'
BY DEF IInv, BaselineKnown, RowsNumbered, NothingMissed, FlagsCatchUp, Current, Cached, Live,
       WillBeListed, server, cache

\* An arrival, a flag change or an expunge: no message the session or the
\* baseline vouches for has changed, apart from those that are gone.
LEMMA ServerInv ==
    ASSUME IInv, TypeOK', UNCHANGED <<uidValidity, cache, sess, early>>,
           highestModSeq' >= highestModSeq,
           \A u \in Uid : /\ msgs'[u].mod <= highestModSeq'
                          /\ \/ msgs'[u] = msgs[u]
                             \/ msgs'[u].mod = 0
                             \/ msgs'[u].mod > highestModSeq
    PROVE  IInv'
<1> USE DEF cache
<1>1. OneSync' /\ RowsNumbered'
  BY DEF IInv, OneSync, Active, RowsNumbered, Cached
<1>2. BaselineKnown'
  BY DEF IInv, BaselineKnown, Current, TypeOK, FolderRow, ModSeq
<1>3. ASSUME Current, NEW u \in Uid, u \in Live', ~ WillBeListed(u)'
      PROVE  u \in Live /\ ~ WillBeListed(u) /\ msgs'[u] = msgs[u]
  BY <1>3 DEF IInv, BaselineKnown, Current, TypeOK, FolderRow, ModSeq, Live, WillBeListed
<1>4. NothingMissed' /\ FlagsCatchUp'
  BY <1>3 DEF IInv, NothingMissed, FlagsCatchUp, Current, Live, Cached
<1>5. ASSUME NEW s \in Syncers PROVE SessionInv(s)'
  <2>1. SessionInv(s)
    BY DEF IInv
  <2>2. SessionNumbered(s)'
    BY <2>1 DEF IInv, SessionInv, SessionNumbered, Active, Selected, Diffed, Connected, Cached,
         uidValidityChanged, freshCache, TypeOK, Session, ModSeq
  <2>3. ASSUME Selected(s), Connected(s), NEW u \in Uid, Settled(s, u)'
        PROVE  Settled(s, u) /\ msgs'[u] = msgs[u]
    BY <2>1, <2>3 DEF IInv, SessionInv, SessionNumbered, BaselineKnown, Settled, Connected,
         Current, Live, TypeOK, FolderRow, Session, ModSeq
  <2>4. ListingComplete(s)'
    BY <2>1, <2>3 DEF SessionInv, ListingComplete, Listed, Selected, Connected, useCondStore,
         uidValidityChanged
  <2>5. MissingPending(s)'
    BY <2>1, <2>3 DEF SessionInv, MissingPending, Diffed, Selected, Connected, Cached
  <2>6. FlagPending(s)'
    <3>1. Cached \subseteq Uid /\ sess[s].fetched \subseteq Uid
      BY DEF IInv, TypeOK, Session, Cached
    <3>2. QED
      BY <2>1, <2>3, <3>1 DEF SessionInv, FlagPending, Diffed, Selected, Connected, Cached
  <2>7. KeepsSettled(s)'
    BY <2>1, <2>3 DEF SessionInv, KeepsSettled, Selected, Connected
  <2>8. QED
    BY <2>2, <2>4, <2>5, <2>6, <2>7 DEF SessionInv
<1>6. QED
  BY <1>1, <1>2, <1>4, <1>5 DEF IInv

\* A renumbering cuts every session off, and nothing recorded is about the
\* new mailbox.
LEMMA RenumberInv ==
    ASSUME IInv, TypeOK',
           NEW n \in 0 .. MaxUid, NEW flagged \in SUBSET (1 .. n), Renumber(n, flagged)
    PROVE  IInv'
<1> USE DEF cache
<1>1. /\ ~ early' => ~ early /\ ~ FirstSyncUnderway
      /\ uidValidity' = uidValidity + 1
      /\ UNCHANGED <<rows, folder, counts, sess>>
  BY DEF Renumber
<1>2. folder.val <= uidValidity /\ folder.val \in Nat /\ uidValidity \in Nat
  BY DEF IInv, BaselineKnown, TypeOK, FolderRow, Validity
<1>3. ~ Current'
  BY <1>1, <1>2 DEF Current
<1>4. OneSync' /\ NothingMissed' /\ FlagsCatchUp'
  BY <1>1, <1>3 DEF IInv, OneSync, Active, NothingMissed, FlagsCatchUp
<1>5. BaselineKnown'
  <2>1. \A u \in Uid : msgs'[u].mod <= highestModSeq'
    BY DEF Renumber, Numbered, NoMsg
  <2>2. QED
    BY <1>1, <1>2, <1>3, <2>1 DEF IInv, BaselineKnown
<1>6. RowsNumbered'
  BY <1>1, <1>2 DEF IInv, RowsNumbered, Cached, FirstSyncUnderway, TypeOK, Row, Validity
<1>7. ASSUME NEW s \in Syncers PROVE SessionInv(s)'
  <2>1. SessionInv(s) /\ sess[s] \in Session
    BY DEF IInv, TypeOK
  <2>2. Selected(s) => /\ sess[s].val \in Nat /\ sess[s].val <= uidValidity
                       /\ ~ early' => folder.val # 0
    BY <1>1, <2>1 DEF SessionInv, SessionNumbered, Selected, FirstSyncUnderway, Session, Validity
  <2>3. Selected(s) => ~ Connected(s)'
    BY <1>1, <1>2, <2>2 DEF Connected
  <2>4. SessionNumbered(s)'
    BY <1>1, <1>2, <2>1, <2>2, <2>3 DEF SessionInv, SessionNumbered, Active, Selected, Diffed,
         Cached, uidValidityChanged, freshCache
  <2>5. ListingComplete(s)' /\ MissingPending(s)' /\ FlagPending(s)' /\ KeepsSettled(s)'
    BY <1>1, <2>1, <2>3 DEF SessionInv, ListingComplete, MissingPending, FlagPending,
         KeepsSettled, Selected, Listed, Diffed
  <2>6. QED
    BY <2>4, <2>5 DEF SessionInv
<1>8. QED
  BY <1>4, <1>5, <1>6, <1>7 DEF IInv

\* A sync starts from the folders row, and alone.
LEMMA StartInv ==
    ASSUME IInv, TypeOK', ~ Overlap, NEW s \in Syncers, NEW w \in Windows, Start(s, w)
    PROVE  IInv'
<1> USE StartEffect DEF IInv
<1>1. UNCHANGED <<server, cache, early>> /\ \A t \in Syncers : sess[t].pc = "idle"
  BY DEF Start
<1>2. BaselineKnown' /\ RowsNumbered' /\ NothingMissed' /\ FlagsCatchUp'
  BY <1>1, ReadOnly
<1>3. ASSUME NEW t \in Syncers \ {s} PROVE sess'[t].pc = "idle" /\ SessionInv(t)'
  BY <1>1, RestInv DEF SessionInv, FlagPending
<1>4. OneSync'
  BY <1>3 DEF OneSync, Active
<1>5. SessionInv(s)'
  BY <1>1 DEF SessionInv, SessionNumbered, ListingComplete, MissingPending, FlagPending,
       KeepsSettled, Active, Selected, Listed, Diffed, cache
<1>6. QED
  BY <1>2, <1>3, <1>4, <1>5

\* A session selects the mailbox the server has now.
LEMMA SelectInv ==
    ASSUME IInv, TypeOK', NEW s \in Syncers, NEW c \in CondStore, SelectFolder(s, c)
    PROVE  IInv'
<1> USE SelectEffect DEF IInv
<1>1. UNCHANGED <<server, cache, early>> /\ sess[s].pc = "select"
  BY DEF SelectFolder
<1>2. BaselineKnown' /\ RowsNumbered' /\ NothingMissed' /\ FlagsCatchUp'
  BY <1>1, ReadOnly
<1>3. OneSync' /\ \A t \in Syncers \ {s} : SessionInv(t)'
  BY <1>1, OthersRest DEF Active
<1>4. sess[s].prior = folder /\ sess[s].updates = {}
  BY <1>1 DEF SessionInv, SessionNumbered, FlagPending, Active
<1>5. folder.val <= uidValidity /\ uidValidity \in 1 .. MaxValidity /\ folder.val \in Nat
  BY DEF BaselineKnown, TypeOK, FolderRow, Validity
<1>6. SessionNumbered(s)'
  <2>1. UNCHANGED <<rows, folder, uidValidity, highestModSeq>> /\ sess'[s].prior = folder
    BY <1>1, <1>4 DEF server, cache
  <2>2. sess'[s].val = uidValidity /\ sess'[s].val # 0
    BY <1>5, FolderSyncAssumption
  <2>3. sess'[s].hms <= highestModSeq
    BY FolderSyncAssumption DEF TypeOK
  <2>4. \A u \in Cached : rows[u].val <= uidValidity
    BY DEF RowsNumbered
  <2>5. sess'[s].pc = "clear" <=> uidValidityChanged(s)'
    BY <1>4, <2>1, <2>2 DEF uidValidityChanged
  <2>6. sess'[s].pc \in {"clear", "list"}
    OBVIOUS
  <2>7. \A u \in Cached' : rows'[u].val <= sess'[s].val
    BY <1>5, <2>1, <2>2, <2>4 DEF Cached
  <2>8. QED
    BY <1>5, <2>1, <2>2, <2>3, <2>5, <2>6, <2>7 DEF SessionNumbered, Selected, Diffed
<1>7. ListingComplete(s)' /\ MissingPending(s)' /\ FlagPending(s)' /\ KeepsSettled(s)'
  BY <1>4 DEF ListingComplete, MissingPending, FlagPending, KeepsSettled, Listed, Diffed
<1>8. QED
  BY <1>2, <1>3, <1>6, <1>7 DEF SessionInv

\* Clearing the cache of an old numbering: the folders row is not about the
\* mailbox the server has.
LEMMA ClearInv ==
    ASSUME IInv, TypeOK', NEW s \in Syncers, ClearFolderMessages(s)
    PROVE  IInv'
<1> USE ClearEffect DEF IInv
<1>1. UNCHANGED <<server, folder>> /\ ~ early' /\ sess[s].pc = "clear" /\ Cached' = {}
  BY DEF ClearFolderMessages, Cached, NoRow
<1>2. SessionNumbered(s) /\ FlagPending(s) /\ Selected(s) /\ Active(s)
  BY <1>1 DEF SessionInv, Selected, Active
<1>3. ~ Current'
  <2>1. folder.val # sess[s].val /\ sess[s].val \in folder.val .. uidValidity
    BY <1>1, <1>2 DEF SessionNumbered, uidValidityChanged
  <2>2. folder.val \in Nat /\ uidValidity \in Nat
    BY DEF TypeOK, FolderRow, Validity
  <2>3. QED
    BY <1>1, <2>1, <2>2 DEF Current, server
<1>4. BaselineKnown' /\ RowsNumbered' /\ NothingMissed' /\ FlagsCatchUp'
  BY <1>1, <1>3 DEF BaselineKnown, RowsNumbered, NothingMissed, FlagsCatchUp, Current, server
<1>5. OneSync' /\ \A t \in Syncers \ {s} : SessionInv(t)'
  BY <1>2, OthersRest
<1>6. SessionNumbered(s)'
  BY <1>1, <1>2 DEF SessionNumbered, Active, Selected, Diffed, Connected, uidValidityChanged,
       freshCache, server
<1>7. ListingComplete(s)' /\ MissingPending(s)' /\ FlagPending(s)' /\ KeepsSettled(s)'
  BY <1>1, <1>2 DEF ListingComplete, MissingPending, FlagPending, KeepsSettled, Listed, Diffed
<1>8. QED
  BY <1>4, <1>5, <1>6, <1>7 DEF SessionInv

\* A step that only reads, of a session that has selected the mailbox, keeps
\* what the invariant says of the rest.
LEMMA ReadStep ==
    ASSUME IInv, NEW s \in Syncers, Selected(s), UNCHANGED <<server, cache, early>>,
           \A t \in Syncers \ {s} : sess'[t] = sess[t]
    PROVE  /\ BaselineKnown' /\ RowsNumbered' /\ NothingMissed' /\ FlagsCatchUp'
           /\ OneSync' /\ \A t \in Syncers \ {s} : SessionInv(t)'
BY ReadOnly, OthersRest DEF Selected, Active

\* The numbering part of the invariant through a step that keeps the prior
\* state, the numbering and the baseline of the session and its diff.
LEMMA SameNumbering ==
    ASSUME NEW s \in Syncers, SessionNumbered(s), UNCHANGED <<server, folder, early>>,
           Selected(s), Selected(s)', sess[s].pc # "clear", sess'[s].pc # "clear",
           sess'[s].prior = sess[s].prior, sess'[s].val = sess[s].val,
           sess'[s].hms = sess[s].hms,
           \A u \in Cached' : rows'[u].val = sess[s].val \/ (u \in Cached /\ rows'[u].val = rows[u].val),
           sess[s].val \in Nat,
           Diffed(s)' /\ ~ freshCache(s) => sess'[s].horizon = folder.horizon
    PROVE  SessionNumbered(s)'
BY DEF SessionNumbered, Active, Selected, Connected, uidValidityChanged, freshCache, server

\* The listing has every settled message.
LEMMA ListInv ==
    ASSUME IInv, TypeOK', NEW s \in Syncers, FetchFlags(s)
    PROVE  IInv'
<1> USE ListEffect DEF IInv
<1>1. UNCHANGED <<server, cache, early>> /\ sess[s].pc = "list" /\ Connected(s)
  BY DEF FetchFlags
<1>2. SessionNumbered(s) /\ FlagPending(s) /\ Selected(s) /\ Active(s) /\ sess[s].prior = folder
  BY <1>1 DEF SessionInv, SessionNumbered, Selected, Active
<1>3. /\ BaselineKnown' /\ RowsNumbered' /\ NothingMissed' /\ FlagsCatchUp'
      /\ OneSync' /\ \A t \in Syncers \ {s} : SessionInv(t)'
  BY <1>1, <1>2, ReadStep
<1>4. SessionNumbered(s)'
  <2>1. sess[s].val \in Nat
    BY DEF TypeOK, Session, Validity
  <2>2. UNCHANGED <<rows, folder>>
    BY <1>1 DEF cache
  <2>3. Selected(s)' /\ ~ Diffed(s)'
    BY DEF Selected, Diffed
  <2>4. QED
    BY <1>1, <1>2, <2>1, <2>2, <2>3, SameNumbering DEF Cached
<1>5. ListingComplete(s)'
  <2>1. UNCHANGED <<msgs, folder, uidValidity>>
    BY <1>1 DEF server, cache
  <2>2. ASSUME NEW u \in Uid, Settled(s, u)'
        PROVE  /\ u \in sess'[s].changed \/ (useCondStore(s)' /\ msgs'[u].mod <= folder'.mod)
               /\ u \in sess'[s].changed => (u \in sess'[s].changedSeen <=> msgs'[u].seen)
    <3>1. u \in Live
      BY <2>1, <2>2 DEF Settled, Live
    <3>2. useCondStore(s)' = useCondStore(s)
      BY DEF useCondStore, uidValidityChanged
    <3>3. msgs[u].mod \in Nat /\ folder.mod \in Nat
      BY DEF TypeOK, FolderRow, ModSeq
    <3>4. u \in sess'[s].changed \/ (useCondStore(s)' /\ msgs'[u].mod <= folder'.mod)
      <4>1. sess'[s].changed = IF useCondStore(s) THEN {v \in Live : msgs[v].mod > folder.mod}
                               ELSE Live
        BY <1>2, ListEffect
      <4>2. CASE useCondStore(s) /\ msgs[u].mod <= folder.mod
        BY <2>1, <3>2, <4>2
      <4>3. CASE useCondStore(s) /\ msgs[u].mod > folder.mod
        BY <3>1, <4>1, <4>3
      <4>4. CASE ~ useCondStore(s)
        BY <3>1, <4>1, <4>4
      <4>5. QED
        BY <3>3, <4>2, <4>3, <4>4
    <3>5. u \in sess'[s].changed => (u \in sess'[s].changedSeen <=> msgs'[u].seen)
      BY <2>1
    <3>6. QED
      BY <3>4, <3>5
  <2>3. QED
    BY <2>2 DEF ListingComplete
<1>6. MissingPending(s)' /\ FlagPending(s)' /\ KeepsSettled(s)'
  <2>1. sess[s].updates = {}
    BY <1>1, <1>2 DEF FlagPending
  <2>2. QED
    BY <2>1 DEF MissingPending, FlagPending, KeepsSettled, Diffed
<1>7. QED
  BY <1>3, <1>4, <1>5, <1>6 DEF SessionInv

\* Whether a message is settled does not depend on the rest of the session.
LEMMA SettledSame ==
    ASSUME NEW s \in Syncers, UNCHANGED <<server, folder, early>>, sess'[s].hms = sess[s].hms
    PROVE  \A u \in Uid : Settled(s, u)' <=> Settled(s, u)
BY DEF Settled, Live, Current, server

\* The listing keeps its worth while the session holds on to it.
LEMMA ListingSame ==
    ASSUME NEW s \in Syncers, ListingComplete(s), Listed(s), UNCHANGED <<server, folder, early>>,
           sess'[s].prior = sess[s].prior, sess'[s].val = sess[s].val,
           sess'[s].hms = sess[s].hms, sess'[s].changed = sess[s].changed,
           sess'[s].changedSeen = sess[s].changedSeen
    PROVE  ListingComplete(s)'
BY SettledSame DEF ListingComplete, Connected, useCondStore, uidValidityChanged, server

\* What a CONDSTORE listing leaves out, the recorded baseline vouches for.
LEMMA BaselineCovers ==
    ASSUME IInv, NEW s \in Syncers, Selected(s), Connected(s), useCondStore(s),
           NEW u \in Live, msgs[u].mod <= folder.mod
    PROVE  /\ ~ freshCache(s)
           /\ u >= folder.horizon => u \in Cached
           /\ u \in Cached => rows[u].seen = msgs[u].seen
<1>1. sess[s].prior = folder /\ folder.mod # 0 /\ ~ uidValidityChanged(s)
  BY DEF IInv, SessionInv, SessionNumbered, Selected, Active, useCondStore
<1>2. folder.val # 0
  BY <1>1 DEF IInv, BaselineKnown
<1>3. Current
  BY <1>1, <1>2 DEF uidValidityChanged, Connected, Current
<1>4. ~ WillBeListed(u)
  <2>1. msgs[u].mod \in Nat /\ folder.mod \in Nat
    BY DEF IInv, TypeOK, FolderRow, ModSeq, Live
  <2>2. QED
    BY <1>1, <2>1 DEF WillBeListed
<1>5. QED
  BY <1>1, <1>2, <1>3, <1>4 DEF IInv, NothingMissed, FlagsCatchUp, freshCache

\* The diff finds every settled message to fetch or to correct.
LEMMA DiffInv ==
    ASSUME IInv, TypeOK', NEW s \in Syncers, Diff(s)
    PROVE  IInv'
<1> USE DEF IInv
<1>1. UNCHANGED <<server, cache, early>> /\ sess[s].pc = "diff"
  BY DEF Diff
<1>2. SessionNumbered(s) /\ ListingComplete(s) /\ Selected(s) /\ Active(s) /\ Listed(s)
      /\ sess[s].prior = folder
  BY <1>1 DEF SessionInv, SessionNumbered, Selected, Active, Listed
<1>3. /\ BaselineKnown' /\ RowsNumbered' /\ NothingMissed' /\ FlagsCatchUp'
      /\ OneSync' /\ \A t \in Syncers \ {s} : SessionInv(t)'
  BY <1>1, <1>2, ReadStep, DiffEffect
<1>4. UNCHANGED <<rows, folder, msgs, uidValidity>> /\ Cached' = Cached
  BY <1>1 DEF server, cache, Cached
<1>5. SessionNumbered(s)'
  <2>1. sess[s].val \in Nat
    BY DEF TypeOK, Session, Validity
  <2>2. Selected(s)' /\ sess'[s].pc # "clear"
    BY DiffEffect DEF Selected
  <2>3. QED
    BY <1>1, <1>2, <1>4, <2>1, <2>2, SameNumbering, DiffEffect DEF Cached
<1>6. ListingComplete(s)'
  BY <1>1, <1>2, <1>4, ListingSame, DiffEffect
<1>7. ASSUME Connected(s)', NEW u \in Uid, Settled(s, u)'
      PROVE  /\ Connected(s) /\ u \in Live
             /\ u \in sess[s].changed \/ (useCondStore(s) /\ msgs[u].mod <= folder.mod)
             /\ u \in sess[s].changed => (u \in sess[s].changedSeen <=> msgs[u].seen)
  <2>1. Connected(s)
    BY <1>4, <1>7, DiffEffect DEF Connected
  <2>2. Settled(s, u)
    BY <1>1, <1>4, <1>7, SettledSame, DiffEffect
  <2>3. QED
    BY <1>2, <2>1, <2>2 DEF ListingComplete, Settled
<1>8. MissingPending(s)'
  <2>1. ASSUME Connected(s)', NEW u \in Uid, Settled(s, u)', u >= sess'[s].horizon, u \notin Cached
        PROVE  sess'[s].pc = "headers" /\ u \in sess'[s].newUids
    <3>1. u \in sess[s].changed
      BY <1>2, <1>7, <2>1, BaselineCovers, DiffEffect
    <3>2. u \in sess'[s].newUids
      BY <2>1, <3>1, DiffEffect
    <3>3. QED
      BY <3>2, DiffEffect
  <2>2. QED
    BY <1>4, <2>1 DEF MissingPending
<1>9. FlagPending(s)'
  <2>1. ASSUME Connected(s)', NEW u \in Cached, Settled(s, u)', rows[u].seen # msgs[u].seen
        PROVE  u \in sess'[s].updates
    <3>1. u \in Uid
      BY DEF Cached
    <3>2. u \in sess[s].changed
      BY <1>2, <1>7, <2>1, <3>1, BaselineCovers
    <3>3. rows[u].seen \in BOOLEAN /\ msgs[u].seen \in BOOLEAN
      BY <3>1 DEF TypeOK, Row
    <3>4. rows[u].seen # (u \in sess[s].changedSeen)
      BY <1>7, <2>1, <3>1, <3>2, <3>3
    <3>5. QED
      BY <3>2, <3>4, DiffEffect
  <2>2. sess'[s].pc \in {"headers", "flags"} /\ sess'[s].updates \subseteq sess'[s].changed
    BY DiffEffect
  <2>3. QED
    BY <1>4, <2>1, <2>2 DEF FlagPending
<1>10. KeepsSettled(s)'
  BY DiffEffect DEF KeepsSettled
<1>11. QED
  BY <1>3, <1>5, <1>6, <1>8, <1>9, <1>10 DEF SessionInv

\* The headers fetched have the settled messages to cache, with their flags.
LEMMA HeadersInv ==
    ASSUME IInv, TypeOK', NEW s \in Syncers, FetchHeaders(s)
    PROVE  IInv'
<1> USE HeadersEffect DEF IInv
<1>1. UNCHANGED <<server, cache, early>> /\ sess[s].pc = "headers"
  BY DEF FetchHeaders
<1>2. SessionInv(s) /\ Selected(s) /\ Active(s) /\ Listed(s) /\ Diffed(s)
  BY <1>1 DEF Selected, Active, Listed, Diffed
<1>3. /\ BaselineKnown' /\ RowsNumbered' /\ NothingMissed' /\ FlagsCatchUp'
      /\ OneSync' /\ \A t \in Syncers \ {s} : SessionInv(t)'
  BY <1>1, <1>2, ReadStep
<1>4. UNCHANGED <<rows, folder, msgs, uidValidity>> /\ Cached' = Cached
  BY <1>1 DEF server, cache, Cached
<1>5. SessionNumbered(s)'
  <2>1. sess[s].val \in Nat
    BY DEF TypeOK, Session, Validity
  <2>2. ~ freshCache(s) => sess[s].horizon = folder.horizon
    BY <1>2 DEF SessionInv, SessionNumbered
  <2>3. QED
    BY <1>1, <1>2, <1>4, <2>1, <2>2, SameNumbering DEF SessionInv, Selected, Cached
<1>6. ListingComplete(s)'
  BY <1>1, <1>2, <1>4, ListingSame DEF SessionInv
<1>7. \A u \in Uid : Settled(s, u)' <=> Settled(s, u)
  BY <1>1, <1>4, SettledSame
<1>8. Connected(s)' <=> Connected(s)
  BY <1>4 DEF Connected
<1>9. MissingPending(s)'
  BY <1>1, <1>2, <1>4, <1>7, <1>8 DEF SessionInv, MissingPending, Settled
<1>10. FlagPending(s)'
  <2>1. ASSUME Connected(s), NEW u \in Cached, Settled(s, u), rows[u].seen # msgs[u].seen
        PROVE  u \in sess[s].updates
    BY <1>2, <2>1 DEF SessionInv, FlagPending
  <2>2. Cached \subseteq Uid /\ Live \subseteq Uid
    BY DEF Cached, Live
  <2>3. sess[s].updates \subseteq sess[s].changed
    BY <1>2 DEF SessionInv, FlagPending
  <2>4. QED
    BY <1>4, <1>7, <1>8, <2>1, <2>2, <2>3 DEF FlagPending
<1>11. KeepsSettled(s)'
  BY DEF KeepsSettled
<1>12. QED
  BY <1>3, <1>5, <1>6, <1>9, <1>10, <1>11 DEF SessionInv

\* A recorded baseline vouches for settled messages only, and a session that
\* runs while it is about the server's mailbox is connected.
LEMMA CurrentSession ==
    ASSUME IInv, NEW s \in Syncers, Selected(s), Current
    PROVE  /\ Connected(s)
           /\ \A u \in Live : ~ WillBeListed(u) => Settled(s, u)
<1>1. sess[s].val \in folder.val .. uidValidity /\ folder.val = uidValidity /\ uidValidity \in Nat
  BY DEF IInv, SessionInv, SessionNumbered, Current, TypeOK
<1>2. sess[s].val = uidValidity
  BY <1>1
<1>3. ASSUME NEW u \in Live, ~ WillBeListed(u) PROVE Settled(s, u)
  <2>1. msgs[u].mod \in Nat /\ folder.mod \in Nat
    BY DEF IInv, TypeOK, FolderRow, ModSeq, Live
  <2>2. QED
    BY <1>3, <2>1 DEF WillBeListed, Settled
<1>4. QED
  BY <1>2, <1>3 DEF Connected

\* Storing the headers caches the settled messages that were missing.
LEMMA StoreInv ==
    ASSUME IInv, TypeOK', NEW s \in Syncers, UpsertMessageHeaders(s)
    PROVE  IInv'
<1> USE StoreEffect DEF IInv
<1>1. UNCHANGED <<server, folder, early>> /\ sess[s].pc = "store"
  BY DEF UpsertMessageHeaders
<1>2. SessionInv(s) /\ Selected(s) /\ Active(s) /\ Listed(s) /\ Diffed(s)
  BY <1>1 DEF Selected, Active, Listed, Diffed
<1>3. OneSync' /\ \A t \in Syncers \ {s} : SessionInv(t)'
  BY <1>2, OthersRest
<1>4. UNCHANGED <<msgs, uidValidity, highestModSeq>> /\ Live' = Live
  BY <1>1 DEF server, Live
<1>5. /\ sess[s].val \in Nat /\ sess[s].val # 0 /\ sess[s].val \in folder.val .. uidValidity
      /\ folder.val = 0 /\ ~ early => sess[s].val = uidValidity
      /\ sess[s].fetched \subseteq Uid
  BY <1>2 DEF SessionInv, SessionNumbered, TypeOK, Session, Validity
<1>6. ASSUME NEW u \in Uid
      PROVE  /\ u \in sess[s].fetched => rows'[u].val = sess[s].val
             /\ u \in sess[s].fetched => rows'[u].seen = (u \in sess[s].fetchedSeen)
             /\ u \notin sess[s].fetched => rows'[u] = rows[u]
  <2>1. u \in sess[s].fetched => rows'[u].val = sess[s].val
    BY DEF UpsertMessageHeaders
  <2>2. u \in sess[s].fetched => rows'[u].seen = (u \in sess[s].fetchedSeen)
    BY DEF UpsertMessageHeaders
  <2>3. u \notin sess[s].fetched => rows'[u] = rows[u]
    BY DEF UpsertMessageHeaders
  <2>4. QED
    BY <2>1, <2>2, <2>3
<1>7. Cached' = Cached \cup sess[s].fetched
  BY <1>5, <1>6 DEF Cached
<1>8. \A u \in Uid : Settled(s, u)' <=> Settled(s, u)
  BY <1>1, SettledSame
<1>9. Connected(s)' <=> Connected(s)
  BY <1>4 DEF Connected
<1>10. BaselineKnown' /\ RowsNumbered'
  BY <1>1, <1>4, <1>5, <1>6, <1>7 DEF BaselineKnown, RowsNumbered, Current, Cached
<1>11. NothingMissed'
  BY <1>1, <1>4, <1>7 DEF NothingMissed, Current, WillBeListed
<1>12. ASSUME Connected(s), NEW u \in sess[s].fetched, Settled(s, u)
       PROVE  rows'[u].seen = msgs[u].seen
  <2>1. u \in sess[s].fetchedSeen <=> msgs[u].seen
    BY <1>1, <1>2, <1>12 DEF SessionInv, FlagPending
  <2>2. msgs[u].seen \in BOOLEAN /\ u \in Uid
    BY <1>5 DEF TypeOK
  <2>3. rows'[u].seen = (u \in sess[s].fetchedSeen)
    BY <1>6, <2>2
  <2>4. QED
    BY <2>1, <2>2, <2>3
<1>13. FlagsCatchUp'
  <2>1. ASSUME Current, NEW u \in Live, u \in Cached', rows'[u].seen # msgs[u].seen
        PROVE  WillBeListed(u)
    <3>1. CASE u \in sess[s].fetched
      BY <1>2, <1>12, <2>1, <3>1, CurrentSession
    <3>2. CASE u \notin sess[s].fetched
      BY <1>6, <1>7, <2>1, <3>2 DEF FlagsCatchUp, Live
    <3>3. QED
      BY <3>1, <3>2
  <2>2. QED
    BY <1>1, <1>4, <2>1 DEF FlagsCatchUp, Current, WillBeListed
<1>14. SessionNumbered(s)'
  <2>1. \A u \in Cached' : rows'[u].val = sess[s].val \/ (u \in Cached /\ rows'[u].val = rows[u].val)
    BY <1>6, <1>7 DEF Cached
  <2>2. ~ freshCache(s) => sess[s].horizon = folder.horizon
    BY <1>2 DEF SessionInv, SessionNumbered
  <2>3. QED
    BY <1>1, <1>2, <1>5, <2>1, <2>2, SameNumbering DEF SessionInv, Selected
<1>15. ListingComplete(s)'
  BY <1>1, <1>2, ListingSame DEF SessionInv
<1>16. MissingPending(s)'
  BY <1>1, <1>2, <1>7, <1>8, <1>9 DEF SessionInv, MissingPending
<1>17. FlagPending(s)'
  <2>1. ASSUME Connected(s), NEW u \in Cached', Settled(s, u), rows'[u].seen # msgs[u].seen
        PROVE  u \in sess[s].updates
    <3>1. u \in Cached /\ rows'[u] = rows[u]
      BY <1>6, <1>7, <1>12, <2>1 DEF Cached
    <3>2. QED
      BY <1>2, <2>1, <3>1 DEF SessionInv, FlagPending
  <2>2. Cached' \subseteq Uid
    BY DEF Cached
  <2>3. sess[s].updates \subseteq sess[s].changed
    BY <1>2 DEF SessionInv, FlagPending
  <2>4. QED
    BY <1>4, <1>8, <1>9, <2>1, <2>2, <2>3 DEF FlagPending
<1>18. KeepsSettled(s)'
  BY DEF KeepsSettled
<1>19. QED
  BY <1>3, <1>10, <1>11, <1>13, <1>14, <1>15, <1>16, <1>17, <1>18 DEF SessionInv

\* Writing the flags corrects every settled message.
LEMMA FlagsInv ==
    ASSUME IInv, TypeOK', NEW s \in Syncers, UpdateMessageFlags(s)
    PROVE  IInv'
<1> USE FlagsEffect DEF IInv
<1>1. UNCHANGED <<server, folder, early>> /\ sess[s].pc = "flags"
  BY DEF UpdateMessageFlags
<1>2. SessionInv(s) /\ Selected(s) /\ Active(s) /\ Listed(s) /\ Diffed(s)
  BY <1>1 DEF Selected, Active, Listed, Diffed
<1>3. OneSync' /\ \A t \in Syncers \ {s} : SessionInv(t)'
  BY <1>2, OthersRest
<1>4. UNCHANGED <<msgs, uidValidity, highestModSeq>> /\ Live' = Live
  BY <1>1 DEF server, Live
<1>5. ASSUME NEW u \in Uid
      PROVE  /\ rows'[u].val = rows[u].val
             /\ u \in sess[s].updates \cap Cached => rows'[u].seen = (u \in sess[s].changedSeen)
             /\ u \notin sess[s].updates => rows'[u] = rows[u]
  <2>1. rows'[u].val = rows[u].val
    BY DEF UpdateMessageFlags
  <2>2. u \in sess[s].updates \cap Cached => rows'[u].seen = (u \in sess[s].changedSeen)
    BY DEF UpdateMessageFlags
  <2>3. u \notin sess[s].updates => rows'[u] = rows[u]
    BY DEF UpdateMessageFlags
  <2>4. QED
    BY <2>1, <2>2, <2>3
<1>6. Cached' = Cached /\ \A u \in Uid : rows'[u].val = rows[u].val
  BY <1>5 DEF Cached
<1>7. \A u \in Uid : Settled(s, u)' <=> Settled(s, u)
  BY <1>1, SettledSame
<1>8. Connected(s)' <=> Connected(s)
  BY <1>4 DEF Connected
<1>9. BaselineKnown' /\ RowsNumbered' /\ NothingMissed'
  BY <1>1, <1>4, <1>6 DEF BaselineKnown, RowsNumbered, NothingMissed, Current, Cached, WillBeListed
<1>10. ASSUME Connected(s), NEW u \in Cached, Settled(s, u)
       PROVE  rows'[u].seen = msgs[u].seen
  <2>1. u \in Uid /\ msgs[u].seen \in BOOLEAN
    BY DEF Cached, TypeOK
  <2>2. CASE u \in sess[s].updates
    <3>1. u \in sess[s].changedSeen <=> msgs[u].seen
      BY <1>2, <1>10, <2>1, <2>2 DEF SessionInv, FlagPending, ListingComplete
    <3>2. rows'[u].seen = (u \in sess[s].changedSeen)
      BY <1>5, <2>1, <2>2
    <3>3. QED
      BY <2>1, <3>1, <3>2
  <2>3. CASE u \notin sess[s].updates
    BY <1>2, <1>5, <1>10, <2>1, <2>3 DEF SessionInv, FlagPending
  <2>4. QED
    BY <2>2, <2>3
<1>11. FlagsCatchUp'
  <2>1. ASSUME Current, NEW u \in Live, u \in Cached, rows'[u].seen # msgs[u].seen
        PROVE  WillBeListed(u)
    BY <1>2, <1>10, <2>1, CurrentSession
  <2>2. QED
    BY <1>1, <1>4, <1>6, <2>1 DEF FlagsCatchUp, Current, WillBeListed
<1>12. SessionNumbered(s)'
  <2>1. ~ freshCache(s) => sess[s].horizon = folder.horizon
    BY <1>2 DEF SessionInv, SessionNumbered
  <2>2. sess[s].val \in Nat /\ Cached \subseteq Uid
    BY DEF TypeOK, Session, Validity, Cached
  <2>3. Selected(s)' /\ sess'[s].pc # "clear"
    BY DEF Selected
  <2>4. QED
    BY <1>1, <1>2, <1>6, <2>1, <2>2, <2>3, SameNumbering DEF SessionInv
<1>13. MissingPending(s)'
  BY <1>1, <1>2, <1>6, <1>7, <1>8 DEF SessionInv, MissingPending
<1>14. FlagPending(s)' /\ ListingComplete(s)'
  <2>1. Cached \subseteq Uid
    BY DEF Cached
  <2>2. QED
    BY <1>4, <1>6, <1>7, <1>8, <1>10, <2>1 DEF FlagPending, ListingComplete, Listed
<1>15. KeepsSettled(s)'
  <2>1. ASSUME Connected(s), NEW u \in Uid, Settled(s, u), ~ useCondStore(s)
        PROVE  u \in sess[s].changed
    BY <1>2, <2>1 DEF SessionInv, ListingComplete
  <2>2. QED
    BY <1>7, <1>8, <2>1 DEF KeepsSettled
<1>16. QED
  BY <1>3, <1>9, <1>11, <1>12, <1>13, <1>14, <1>15 DEF SessionInv

\* Every settled message is among the UIDs to keep.
LEMMA UidsInv ==
    ASSUME IInv, TypeOK', NEW s \in Syncers, ListUIDs(s)
    PROVE  IInv'
<1> USE UidsEffect DEF IInv
<1>1. UNCHANGED <<server, cache, early>> /\ sess[s].pc = "uids"
  BY DEF ListUIDs
<1>2. SessionInv(s) /\ Selected(s) /\ Active(s) /\ Diffed(s)
  BY <1>1 DEF Selected, Active, Diffed
<1>3. /\ BaselineKnown' /\ RowsNumbered' /\ NothingMissed' /\ FlagsCatchUp'
      /\ OneSync' /\ \A t \in Syncers \ {s} : SessionInv(t)'
  BY <1>1, <1>2, ReadStep
<1>4. UNCHANGED <<rows, folder, msgs, uidValidity>> /\ Cached' = Cached
  BY <1>1 DEF server, cache, Cached
<1>5. \A u \in Uid : Settled(s, u)' <=> Settled(s, u)
  BY <1>1, <1>4, SettledSame
<1>6. Connected(s)' <=> Connected(s)
  BY <1>4 DEF Connected
<1>7. SessionNumbered(s)'
  <2>1. ~ freshCache(s) => sess[s].horizon = folder.horizon
    BY <1>2 DEF SessionInv, SessionNumbered
  <2>2. sess[s].val \in Nat
    BY DEF TypeOK, Session, Validity
  <2>3. QED
    BY <1>1, <1>2, <1>4, <2>1, <2>2, SameNumbering DEF SessionInv, Selected, Cached
<1>8. MissingPending(s)' /\ ListingComplete(s)'
  BY <1>1, <1>2, <1>4, <1>5, <1>6 DEF SessionInv, MissingPending, ListingComplete, Listed
<1>9. FlagPending(s)'
  <2>1. Cached \subseteq Uid
    BY DEF Cached
  <2>2. QED
    BY <1>1, <1>2, <1>4, <1>5, <1>6, <2>1 DEF SessionInv, FlagPending
<1>10. KeepsSettled(s)'
  BY <1>5 DEF KeepsSettled, Settled
<1>11. QED
  BY <1>3, <1>7, <1>8, <1>9, <1>10 DEF SessionInv

\* No settled message is found to be stale.
LEMMA FindInv ==
    ASSUME IInv, TypeOK', NEW s \in Syncers, FindStale(s)
    PROVE  IInv'
<1> USE FindEffect DEF IInv
<1>1. UNCHANGED <<server, cache, early>> /\ sess[s].pc = "find"
  BY DEF FindStale
<1>2. SessionInv(s) /\ Selected(s) /\ Active(s) /\ Diffed(s)
  BY <1>1 DEF Selected, Active, Diffed
<1>3. /\ BaselineKnown' /\ RowsNumbered' /\ NothingMissed' /\ FlagsCatchUp'
      /\ OneSync' /\ \A t \in Syncers \ {s} : SessionInv(t)'
  BY <1>1, <1>2, ReadStep
<1>4. UNCHANGED <<rows, folder, msgs, uidValidity>> /\ Cached' = Cached
  BY <1>1 DEF server, cache, Cached
<1>5. \A u \in Uid : Settled(s, u)' <=> Settled(s, u)
  BY <1>1, <1>4, SettledSame
<1>6. Connected(s)' <=> Connected(s)
  BY <1>4 DEF Connected
<1>7. sess'[s].pc \in {"finish", "delete"}
  OBVIOUS
<1>8. SessionNumbered(s)'
  <2>1. ~ freshCache(s) => sess[s].horizon = folder.horizon
    BY <1>2 DEF SessionInv, SessionNumbered
  <2>2. sess[s].val \in Nat
    BY DEF TypeOK, Session, Validity
  <2>3. Selected(s)' /\ sess'[s].pc # "clear"
    BY <1>7 DEF Selected
  <2>4. QED
    BY <1>1, <1>2, <1>4, <2>1, <2>2, <2>3, SameNumbering DEF SessionInv, Cached
<1>9. MissingPending(s)' /\ ListingComplete(s)'
  BY <1>1, <1>2, <1>4, <1>5, <1>6, <1>7 DEF SessionInv, MissingPending, ListingComplete, Listed
<1>10. FlagPending(s)'
  <2>1. Cached \subseteq Uid
    BY DEF Cached
  <2>2. QED
    BY <1>1, <1>2, <1>4, <1>5, <1>6, <1>7, <2>1 DEF SessionInv, FlagPending
<1>11. KeepsSettled(s)'
  BY <1>1, <1>2, <1>5, <1>6, <1>7 DEF SessionInv, KeepsSettled
<1>12. QED
  BY <1>3, <1>8, <1>9, <1>10, <1>11 DEF SessionInv

\* Deleting the stale rows deletes no settled message.
LEMMA DeleteInv ==
    ASSUME IInv, TypeOK', NEW s \in Syncers, DeleteStale(s)
    PROVE  IInv'
<1> USE DeleteEffect DEF IInv
<1>1. UNCHANGED <<server, folder, early>> /\ sess[s].pc = "delete"
  BY DEF DeleteStale
<1>2. SessionInv(s) /\ Selected(s) /\ Active(s) /\ Diffed(s)
  BY <1>1 DEF Selected, Active, Diffed
<1>3. OneSync' /\ \A t \in Syncers \ {s} : SessionInv(t)'
  BY <1>2, OthersRest
<1>4. UNCHANGED <<msgs, uidValidity, highestModSeq>> /\ Live' = Live
  BY <1>1 DEF server, Live
<1>5. Cached' = Cached \ sess[s].stale
  BY DEF DeleteStale, Cached, NoRow
<1>6. \A u \in Cached' : rows'[u] = rows[u]
  BY <1>5 DEF DeleteStale, Cached
<1>7. \A u \in Uid : Settled(s, u)' <=> Settled(s, u)
  BY <1>1, SettledSame
<1>8. Connected(s)' <=> Connected(s)
  BY <1>4 DEF Connected
<1>9. Connected(s) => \A u \in Uid : Settled(s, u) => u \notin sess[s].stale
  BY <1>1, <1>2 DEF SessionInv, KeepsSettled
<1>10. BaselineKnown' /\ RowsNumbered' /\ FlagsCatchUp'
  BY <1>1, <1>4, <1>5, <1>6 DEF BaselineKnown, RowsNumbered, FlagsCatchUp, Current, WillBeListed
<1>11. NothingMissed'
  <2>1. ASSUME Current, NEW u \in Live, u \notin Cached', u >= folder.horizon
        PROVE  WillBeListed(u)
    <3>1. u \in Uid
      BY DEF Live
    <3>2. CASE u \in sess[s].stale
      BY <1>2, <1>9, <2>1, <3>1, <3>2, CurrentSession
    <3>3. CASE u \notin sess[s].stale
      BY <1>5, <2>1, <3>3 DEF NothingMissed
    <3>4. QED
      BY <3>2, <3>3
  <2>2. QED
    BY <1>1, <1>4, <2>1 DEF NothingMissed, Current, WillBeListed
<1>12. SessionNumbered(s)'
  <2>1. ~ freshCache(s) => sess[s].horizon = folder.horizon
    BY <1>2 DEF SessionInv, SessionNumbered
  <2>2. sess[s].val \in Nat
    BY DEF TypeOK, Session, Validity
  <2>3. QED
    BY <1>1, <1>2, <1>5, <1>6, <2>1, <2>2, SameNumbering DEF SessionInv, Selected
<1>13. MissingPending(s)' /\ ListingComplete(s)'
  BY <1>1, <1>2, <1>5, <1>7, <1>8, <1>9 DEF SessionInv, MissingPending, ListingComplete, Listed
<1>14. FlagPending(s)'
  <2>1. Cached \subseteq Uid
    BY DEF Cached
  <2>2. QED
    BY <1>1, <1>2, <1>4, <1>5, <1>6, <1>7, <1>8, <2>1 DEF SessionInv, FlagPending
<1>15. KeepsSettled(s)'
  BY DEF KeepsSettled
<1>16. QED
  BY <1>3, <1>10, <1>11, <1>12, <1>13, <1>14, <1>15 DEF SessionInv

\* The end of a sync records a baseline that all settled messages are behind.
LEMMA FinishInv ==
    ASSUME IInv, TypeOK', NEW s \in Syncers, UpdateFolderSyncState(s)
    PROVE  IInv'
<1> USE DEF IInv
<1>1. /\ UNCHANGED <<server, rows, early>> /\ sess[s].pc = "finish"
      /\ folder' = [val |-> sess[s].val, mod |-> sess[s].hms, horizon |-> sess[s].horizon]
      /\ sess' = [sess EXCEPT ![s] = Idle]
  BY DEF UpdateFolderSyncState
<1>2. SessionInv(s) /\ Selected(s) /\ Active(s) /\ Diffed(s)
  BY <1>1 DEF Selected, Active, Diffed
<1>3. OneSync' /\ \A t \in Syncers \ {s} : SessionInv(t)'
  BY <1>1, <1>2, OthersRest, EndEffect
<1>4. SessionInv(s)'
  BY <1>1, EndEffect, RestInv
<1>5. UNCHANGED <<msgs, uidValidity, highestModSeq>> /\ Live' = Live /\ Cached' = Cached
  BY <1>1 DEF server, Live, Cached
<1>6. /\ sess[s].val \in Nat /\ sess[s].val # 0 /\ sess[s].val \in folder.val .. uidValidity
      /\ folder.val = 0 /\ ~ early => sess[s].val = uidValidity
      /\ Connected(s) => sess[s].hms <= highestModSeq
      /\ \A u \in Cached : rows[u].val <= sess[s].val
      /\ uidValidityChanged(s) => \A u \in Cached : rows[u].val = sess[s].val
      /\ sess[s].prior = folder
  BY <1>1, <1>2 DEF SessionInv, SessionNumbered, TypeOK, Session, Validity
<1>7. Current' <=> Connected(s)
  BY <1>1, <1>5 DEF Current, Connected
<1>8. ASSUME ~ early, NEW u \in Cached PROVE rows[u].val = sess[s].val
  <2>1. /\ rows[u].val >= folder.val /\ rows[u].val <= uidValidity /\ rows[u].val \in Nat
        /\ folder.val = 0 => rows[u].val = uidValidity
    BY <1>8 DEF RowsNumbered, TypeOK, Row, Validity, Cached
  <2>2. folder.val \in Nat /\ uidValidity \in Nat
    BY DEF TypeOK, FolderRow, Validity
  <2>3. CASE uidValidityChanged(s)
    BY <1>6, <2>3
  <2>4. CASE folder.val = 0
    BY <1>6, <1>8, <2>1, <2>4
  <2>5. CASE folder.val # 0 /\ folder.val = sess[s].val
    BY <1>6, <2>1, <2>2, <2>5
  <2>6. QED
    BY <1>6, <2>3, <2>4, <2>5 DEF uidValidityChanged
<1>9. BaselineKnown' /\ RowsNumbered'
  <2>1. sess[s].val <= uidValidity /\ uidValidity \in Nat
    BY <1>6 DEF TypeOK
  <2>2. \A u \in Cached' : /\ rows'[u].val <= uidValidity'
                            /\ ~ early' => rows'[u].val >= folder'.val
    BY <1>1, <1>5, <1>6, <1>8, <2>1 DEF RowsNumbered
  <2>3. QED
    BY <1>1, <1>5, <1>6, <1>7, <2>1, <2>2 DEF BaselineKnown, RowsNumbered
<1>10. ASSUME Connected(s), NEW u \in Live, ~ WillBeListed(u)'
       PROVE  u \in Uid /\ Settled(s, u)
  <2>1. msgs[u].mod \in Nat /\ sess[s].hms \in Nat /\ u \in Uid
    BY DEF TypeOK, Session, ModSeq, Live
  <2>2. ~ (msgs[u].mod > sess[s].hms)
    BY <1>1, <1>5, <1>10 DEF WillBeListed
  <2>3. QED
    BY <2>1, <2>2 DEF Settled
<1>11. NothingMissed'
  <2>1. ASSUME Connected(s), NEW u \in Live, u \notin Cached, u >= sess[s].horizon
        PROVE  WillBeListed(u)'
    BY <1>1, <1>2, <1>10, <2>1 DEF SessionInv, MissingPending
  <2>2. QED
    BY <1>1, <1>5, <1>7, <2>1 DEF NothingMissed
<1>12. FlagsCatchUp'
  <2>1. ASSUME Connected(s), NEW u \in Live, u \in Cached, rows[u].seen # msgs[u].seen
        PROVE  WillBeListed(u)'
    BY <1>1, <1>2, <1>10, <2>1 DEF SessionInv, FlagPending
  <2>2. QED
    BY <1>1, <1>5, <1>7, <2>1 DEF FlagsCatchUp
<1>13. QED
  BY <1>3, <1>4, <1>9, <1>11, <1>12

\* A sync that ends early changes nothing but its session.
LEMMA EndInv ==
    ASSUME IInv, TypeOK', NEW s \in Syncers, Active(s), UNCHANGED <<server, cache, early>>,
           sess' = [sess EXCEPT ![s] = Idle]
    PROVE  IInv'
<1>1. BaselineKnown' /\ RowsNumbered' /\ NothingMissed' /\ FlagsCatchUp'
  BY ReadOnly
<1>2. OneSync' /\ \A t \in Syncers \ {s} : SessionInv(t)'
  BY OthersRest, EndEffect DEF IInv
<1>3. SessionInv(s)'
  BY RestInv, EndEffect DEF IInv
<1>4. QED
  BY <1>1, <1>2, <1>3 DEF IInv

\* Every step keeps the invariant.
LEMMA StepInv ==
    ASSUME ~ Overlap
    PROVE  IInv /\ [Next]_vars => IInv'
<1> SUFFICES ASSUME IInv, [Next]_vars PROVE IInv'
  OBVIOUS
<1>0. TypeOK'
  BY StepType DEF IInv
<1>1. CASE Deliver
  <2>1. /\ UNCHANGED <<uidValidity, cache, sess, early>> /\ highestModSeq' = highestModSeq + 1
        /\ msgs' = [msgs EXCEPT ![uidNext] = [mod |-> highestModSeq + 1, seen |-> FALSE]]
    BY <1>1 DEF Deliver
  <2>2. highestModSeq \in Nat /\ msgs \in [Uid -> [mod : ModSeq, seen : BOOLEAN]]
    BY FolderSyncAssumption DEF IInv, TypeOK
  <2>3. ASSUME NEW u \in Uid
        PROVE  /\ msgs'[u].mod <= highestModSeq'
               /\ msgs'[u] = msgs[u] \/ msgs'[u].mod = 0 \/ msgs'[u].mod > highestModSeq
    <3>1. msgs[u].mod <= highestModSeq /\ msgs[u].mod \in Nat
      BY <2>2 DEF IInv, BaselineKnown, ModSeq
    <3>2. msgs'[u] = msgs[u] \/ msgs'[u].mod = highestModSeq + 1
      BY <2>1, <2>2
    <3>3. QED
      BY <2>1, <2>2, <3>1, <3>2
  <2>4. QED
    BY <1>0, <2>1, <2>2, <2>3, ServerInv
<1>2. ASSUME NEW v \in Uid, RemoteFlag(v) PROVE IInv'
  <2>1. /\ UNCHANGED <<uidValidity, cache, sess, early>> /\ highestModSeq' = highestModSeq + 1
        /\ msgs' = [msgs EXCEPT ![v] = [mod |-> highestModSeq + 1, seen |-> ~ msgs[v].seen]]
    BY <1>2 DEF RemoteFlag
  <2>2. highestModSeq \in Nat /\ msgs \in [Uid -> [mod : ModSeq, seen : BOOLEAN]]
    BY FolderSyncAssumption DEF IInv, TypeOK
  <2>3. ASSUME NEW u \in Uid
        PROVE  /\ msgs'[u].mod <= highestModSeq'
               /\ msgs'[u] = msgs[u] \/ msgs'[u].mod = 0 \/ msgs'[u].mod > highestModSeq
    <3>1. msgs[u].mod <= highestModSeq /\ msgs[u].mod \in Nat
      BY <2>2 DEF IInv, BaselineKnown, ModSeq
    <3>2. msgs'[u] = msgs[u] \/ msgs'[u].mod = highestModSeq + 1
      BY <2>1, <2>2
    <3>3. QED
      BY <2>1, <2>2, <3>1, <3>2
  <2>4. QED
    BY <1>0, <2>1, <2>2, <2>3, ServerInv
<1>3. ASSUME NEW v \in Uid, Expunge(v) PROVE IInv'
  <2>1. /\ UNCHANGED <<uidValidity, cache, sess, highestModSeq, early>>
        /\ msgs' = [msgs EXCEPT ![v] = NoMsg]
    BY <1>3 DEF Expunge
  <2>2. highestModSeq \in Nat /\ msgs \in [Uid -> [mod : ModSeq, seen : BOOLEAN]]
    BY FolderSyncAssumption DEF IInv, TypeOK
  <2>3. ASSUME NEW u \in Uid
        PROVE  /\ msgs'[u].mod <= highestModSeq'
               /\ msgs'[u] = msgs[u] \/ msgs'[u].mod = 0 \/ msgs'[u].mod > highestModSeq
    <3>1. msgs[u].mod <= highestModSeq
      BY DEF IInv, BaselineKnown
    <3>2. msgs'[u] = msgs[u] \/ msgs'[u].mod = 0
      BY <2>1, <2>2 DEF NoMsg
    <3>3. QED
      BY <2>1, <2>2, <3>1, <3>2
  <2>4. QED
    BY <1>0, <2>1, <2>2, <2>3, ServerInv
<1>4. ASSUME NEW n \in 0 .. MaxUid, NEW flagged \in SUBSET (1 .. n), Renumber(n, flagged)
      PROVE  IInv'
  BY <1>0, <1>4, RenumberInv
<1>5. ASSUME NEW s \in Syncers, SyncStep(s) PROVE IInv'
  <2>1. ASSUME NEW w \in Windows, Start(s, w) PROVE IInv'
    BY <1>0, <2>1, StartInv
  <2>2. ASSUME NEW c \in CondStore, SelectFolder(s, c) PROVE IInv'
    BY <1>0, <2>2, SelectInv
  <2>3. CASE Disconnect(s)
    BY <1>0, <2>3, EndInv DEF Disconnect, Active
  <2>4. QED
    BY <1>0, <1>5, <2>1, <2>2, <2>3, ClearInv, ListInv, DiffInv, HeadersInv, StoreInv,
       FlagsInv, UidsInv, FindInv, DeleteInv, FinishInv DEF SyncStep
<1>6. ASSUME NEW s \in Syncers, Fail(s) PROVE IInv'
  BY <1>0, <1>6, EndInv DEF Fail, Active
<1>7. CASE UNCHANGED vars
  <2>1. UNCHANGED <<server, cache, sess, early>>
    BY <1>7 DEF vars
  <2>2. BaselineKnown' /\ RowsNumbered' /\ NothingMissed' /\ FlagsCatchUp'
    BY <2>1, ReadOnly
  <2>3. OneSync' /\ \A s \in Syncers : SessionInv(s)'
    BY <2>1 DEF IInv, OneSync, SessionInv, SessionNumbered, ListingComplete, MissingPending,
         FlagPending, KeepsSettled, Active, Selected, Listed, Diffed, Settled, Connected,
         Current, Live, Cached, useCondStore, uidValidityChanged, freshCache, server, cache
  <2>4. QED
    BY <1>0, <2>2, <2>3 DEF IInv
<1>8. QED
  BY <1>1, <1>2, <1>3, <1>4, <1>5, <1>6, <1>7 DEF Next, ServerStep

\* The invariant holds throughout.
LEMMA Invariance ==
    ASSUME ~ Overlap
    PROVE  Spec => []IInv
BY InitInv, StepInv, PTL DEF Spec

-----------------------------------------------------------------------------
(* The results. *)

\* With syncs that do not overlap, no message is ever lost behind the CONDSTORE
\* baseline syncFolder records.
THEOREM NoMessageMissed ==
    ASSUME ~ Overlap
    PROVE  Spec => []NothingMissed
<1>1. IInv => NothingMissed
  BY DEF IInv
<1>2. QED
  BY <1>1, Invariance, PTL

\* With syncs that do not overlap, no stale flag is left behind the baseline.
THEOREM NoStaleFlag ==
    ASSUME ~ Overlap
    PROVE  Spec => []FlagsCatchUp
<1>1. IInv => FlagsCatchUp
  BY DEF IInv
<1>2. QED
  BY <1>1, Invariance, PTL

\* With syncs that do not overlap, a UIDVALIDITY change never leaves rows of the
\* old numbering in a cache that is recorded as the new one's, whenever it comes
\* and wherever syncs end early, unless it came before the first sync was
\* complete and the rows were not cleared since.
THEOREM NumberingRespected ==
    ASSUME ~ Overlap
    PROVE  Spec => []RowsMatchNumbering
<1>1. IInv => RowsMatchNumbering
  <2>1. SUFFICES ASSUME IInv, Current, ~ early, NEW u \in Cached
                 PROVE  rows[u].val = folder.val
    BY DEF RowsMatchNumbering
  <2>2. /\ rows[u].val >= folder.val /\ rows[u].val <= uidValidity /\ rows[u].val \in Nat
        /\ folder.val = uidValidity /\ uidValidity \in Nat
    BY <2>1 DEF IInv, RowsNumbered, Current, TypeOK, Row, Validity, Cached
  <2>3. QED
    BY <2>2
<1>2. QED
  BY <1>1, Invariance, PTL

\* Once a sync is complete, no later sync under the same UIDVALIDITY moves the
\* horizon, whatever window it is called with.
THEOREM HorizonCommitted ==
    ASSUME ~ Overlap
    PROVE  Spec => HorizonKept
<1>1. ASSUME IInv, [Next]_vars, folder.val # 0, folder'.val = folder.val
      PROVE  folder'.horizon = folder.horizon
  <2>1. CASE UNCHANGED folder
    BY <2>1
  <2>2. ASSUME NEW s \in Syncers, UpdateFolderSyncState(s)
        PROVE  folder'.horizon = folder.horizon
    <3>1. /\ sess[s].pc = "finish"
          /\ folder'.val = sess[s].val /\ folder'.horizon = sess[s].horizon
      BY <2>2 DEF UpdateFolderSyncState
    <3>2. SessionNumbered(s) /\ Active(s) /\ Diffed(s)
      BY <1>1, <3>1 DEF IInv, SessionInv, Active, Diffed
    <3>3. sess[s].prior = folder /\ ~ freshCache(s)
      BY <1>1, <3>1, <3>2 DEF SessionNumbered, freshCache, uidValidityChanged
    <3>4. QED
      BY <3>1, <3>2, <3>3 DEF SessionNumbered
  <2>3. QED
    BY <1>1, <2>1, <2>2 DEF Next, ServerStep, SyncStep, Deliver, RemoteFlag, Expunge, Renumber,
         Start, SelectFolder, ClearFolderMessages, FetchFlags, Diff, FetchHeaders,
         UpsertMessageHeaders, UpdateMessageFlags, ListUIDs, FindStale, DeleteStale,
         Disconnect, Fail, cache, vars
<1>2. IInv /\ [Next]_vars =>
        [folder.val # 0 /\ folder'.val = folder.val => folder'.horizon = folder.horizon]_vars
  BY <1>1
<1>3. QED
  BY <1>2, Invariance, PTL DEF Spec, HorizonKept

=============================================================================
